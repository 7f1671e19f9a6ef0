--------------------------- MODULE Forwarder_proofs ---------------------------
(***************************************************************************)
(* Proofs about Forwarder, for any clients, connections, sockets, limits   *)
(* and number of attempts.                                                 *)
(*                                                                         *)
(* An upstream socket is opened by a callback that does not look at what   *)
(* happened since its bind began.  That no socket is lost unless two binds *)
(* of a client overlapped rests on knowing that they did: whatever flow a  *)
(* binding client has already came from such an overlap.                   *)
(***************************************************************************)
EXTENDS Forwarder, TLAPS

\* No two clients share a socket.
FlowsApart ==
    \A c, d \in Clients : flows[c] = flows[d] /\ flows[c] # none => c = d

\* Binds of one client that overlap are known, and so is a flow that one of
\* them has set while another goes on.
OverlapsKnown ==
    /\ \A s, t \in Socks :
        binding[s] = binding[t] /\ binding[s] # none /\ s # t => s \in raced
    /\ \A s \in Socks :
        binding[s] # none /\ flows[binding[s]] # none => flows[binding[s]] \in raced

\* From stop() on, no port is bound and no connection is open; what remains was
\* binding at the time.
Released ==
    phase \in {"stopping", "down"} =>
        /\ listening = {}
        /\ \A k \in Conns : conn[k] # "open"
        /\ phase = "down" => \A k \in Conns : conn[k] = "closed"
        /\ \A s \in Socks : binding[s] # none => s \in raced
        /\ open \subseteq raced

\* The silence of a flow, counted to the next run of the collector.
SilenceBounded ==
    collecting => \A c \in Clients :
        flows[c] # none => age[c] + clock <= SessionTTL + Interval

IInv ==
    /\ TypeOK /\ FlowsApart /\ OverlapsKnown /\ Released /\ SilenceBounded
    /\ UpstreamsOwned

-----------------------------------------------------------------------------

\* The batch starts with nothing bound.
LEMMA InitInvariant == Init => IInv
<1> SUFFICES ASSUME Init PROVE IInv
    OBVIOUS
<1> USE ForwarderAssumption DEF Init
<1>1. TypeOK
  <2>1. collecting \in BOOLEAN
    OBVIOUS
  <2>2. QED
    BY <2>1 DEF TypeOK, AgeLimit
<1>2. FlowsApart /\ OverlapsKnown
    BY DEF FlowsApart, OverlapsKnown
<1>3. Released /\ SilenceBounded /\ UpstreamsOwned
    BY DEF Released, SilenceBounded, UpstreamsOwned
<1>4. QED
    BY <1>1, <1>2, <1>3 DEF IInv

\* Every step keeps the types; a flow that ends is its socket's only one.
LEMMA TypeStep == TypeOK /\ FlowsApart /\ [Next]_vars => TypeOK'
<1> SUFFICES ASSUME TypeOK, FlowsApart, [Next]_vars PROVE TypeOK'
    OBVIOUS
<1> USE ForwarderAssumption DEF TypeOK, AgeLimit, Rules, udp
<1>1. ASSUME StopAll PROVE TypeOK'
    BY <1>1 DEF StopAll
<1>2. CASE Stop
    BY <1>1, <1>2 DEF Stop
<1>3. CASE Stopped
    BY <1>3 DEF Stopped
<1>4. CASE Tick
    BY <1>4 DEF Tick, Expire, Older, FlowsApart
<1>5. CASE ReplyFails
    BY <1>5 DEF ReplyFails
<1>6. ASSUME NEW r \in Rules, Listen(r) PROVE TypeOK'
    BY <1>6 DEF Listen
<1>7. ASSUME NEW r \in Rules, ListenFails(r) PROVE TypeOK'
    BY <1>1, <1>7 DEF ListenFails
<1>8. ASSUME NEW k \in Conns, Accept(k) \/ Hangup(k) \/ Close(k) PROVE TypeOK'
    BY <1>8 DEF Accept, Hangup, Close
<1>9. ASSUME NEW c \in Clients, PacketOfFlow(c) PROVE TypeOK'
    BY <1>9 DEF PacketOfFlow
<1>10. ASSUME NEW c \in Clients, NEW s \in Socks, FirstPacket(c, s) PROVE TypeOK'
    BY <1>10 DEF FirstPacket
<1>11. ASSUME NEW s \in Socks, Bound(s) PROVE TypeOK'
    BY <1>11 DEF Bound
<1>12. ASSUME NEW s \in Socks, BindFails(s) PROVE TypeOK'
    BY <1>12 DEF BindFails
<1>13. CASE UNCHANGED vars
    BY <1>13 DEF vars
<1>14. QED
    BY <1>2, <1>3, <1>4, <1>5, <1>6, <1>7, <1>8, <1>9, <1>10, <1>11, <1>12, <1>13 DEF Next

\* A socket that is bound is new to every client, so flows stay apart, and
\* overlaps stay known.
LEMMA OverlapStep ==
    TypeOK /\ FlowsApart /\ OverlapsKnown /\ [Next]_vars => FlowsApart' /\ OverlapsKnown'
<1> SUFFICES ASSUME TypeOK, FlowsApart, OverlapsKnown, [Next]_vars
             PROVE  FlowsApart' /\ OverlapsKnown'
    OBVIOUS
<1> USE ForwarderAssumption DEF TypeOK, FlowsApart, OverlapsKnown, udp
<1>1. ASSUME StopAll PROVE FlowsApart' /\ OverlapsKnown'
    BY <1>1 DEF StopAll
<1>2. CASE Stop
    BY <1>1, <1>2 DEF Stop
<1>3. CASE Stopped
    BY <1>3 DEF Stopped
<1>4. CASE Tick
    BY <1>4 DEF Tick, Expire, Older
<1>5. CASE ReplyFails
    BY <1>5 DEF ReplyFails
<1>6. ASSUME NEW r \in Rules, Listen(r) PROVE FlowsApart' /\ OverlapsKnown'
    BY <1>6 DEF Listen
<1>7. ASSUME NEW r \in Rules, ListenFails(r) PROVE FlowsApart' /\ OverlapsKnown'
    BY <1>1, <1>7 DEF ListenFails
<1>8. ASSUME NEW k \in Conns, Accept(k) \/ Hangup(k) \/ Close(k) PROVE FlowsApart' /\ OverlapsKnown'
    BY <1>8 DEF Accept, Hangup, Close
<1>9. ASSUME NEW c \in Clients, PacketOfFlow(c) PROVE FlowsApart' /\ OverlapsKnown'
    BY <1>9 DEF PacketOfFlow
<1>10. ASSUME NEW c \in Clients, NEW s \in Socks, FirstPacket(c, s) PROVE FlowsApart' /\ OverlapsKnown'
    BY <1>10 DEF FirstPacket
<1>11. ASSUME NEW s \in Socks, Bound(s) PROVE FlowsApart' /\ OverlapsKnown'
    BY <1>11 DEF Bound
<1>12. ASSUME NEW s \in Socks, BindFails(s) PROVE FlowsApart' /\ OverlapsKnown'
    BY <1>12 DEF BindFails
<1>13. CASE UNCHANGED vars
    BY <1>13 DEF vars
<1>14. QED
    BY <1>2, <1>3, <1>4, <1>5, <1>6, <1>7, <1>8, <1>9, <1>10, <1>11, <1>12, <1>13 DEF Next

\* No socket loses its owner but by an overlap.
LEMMA OwnerStep ==
    TypeOK /\ FlowsApart /\ OverlapsKnown /\ UpstreamsOwned /\ [Next]_vars => UpstreamsOwned'
<1> SUFFICES ASSUME TypeOK, FlowsApart, OverlapsKnown, UpstreamsOwned, [Next]_vars
             PROVE  UpstreamsOwned'
    OBVIOUS
<1> USE ForwarderAssumption DEF TypeOK, FlowsApart, OverlapsKnown, UpstreamsOwned, udp
<1>1. ASSUME StopAll PROVE UpstreamsOwned'
    BY <1>1 DEF StopAll
<1>2. CASE Stop
    BY <1>1, <1>2 DEF Stop
<1>3. CASE Stopped
    BY <1>3 DEF Stopped
<1>4. CASE Tick
    BY <1>4 DEF Tick, Expire, Older
<1>5. CASE ReplyFails
    BY <1>5 DEF ReplyFails
<1>6. ASSUME NEW r \in Rules, Listen(r) PROVE UpstreamsOwned'
    BY <1>6 DEF Listen
<1>7. ASSUME NEW r \in Rules, ListenFails(r) PROVE UpstreamsOwned'
    BY <1>1, <1>7 DEF ListenFails
<1>8. ASSUME NEW k \in Conns, Accept(k) \/ Hangup(k) \/ Close(k) PROVE UpstreamsOwned'
    BY <1>8 DEF Accept, Hangup, Close
<1>9. ASSUME NEW c \in Clients, PacketOfFlow(c) PROVE UpstreamsOwned'
    BY <1>9 DEF PacketOfFlow
<1>10. ASSUME NEW c \in Clients, NEW s \in Socks, FirstPacket(c, s) PROVE UpstreamsOwned'
    BY <1>10 DEF FirstPacket
<1>11. ASSUME NEW s \in Socks, Bound(s) PROVE UpstreamsOwned'
    BY <1>11 DEF Bound
<1>12. ASSUME NEW s \in Socks, BindFails(s) PROVE UpstreamsOwned'
    BY <1>12 DEF BindFails
<1>13. CASE UNCHANGED vars
    BY <1>13 DEF vars
<1>14. QED
    BY <1>2, <1>3, <1>4, <1>5, <1>6, <1>7, <1>8, <1>9, <1>10, <1>11, <1>12, <1>13 DEF Next

\* What stop() released stays released.
LEMMA ReleaseStep ==
    TypeOK /\ UpstreamsOwned /\ Released /\ [Next]_vars => Released'
<1> SUFFICES ASSUME TypeOK, UpstreamsOwned, Released, [Next]_vars PROVE Released'
    OBVIOUS
<1> USE ForwarderAssumption DEF TypeOK, UpstreamsOwned, Released, Rules, udp
<1>1. ASSUME StopAll PROVE Released'
    BY <1>1 DEF StopAll
<1>2. CASE Stop
    BY <1>1, <1>2 DEF Stop
<1>3. CASE Stopped
    BY <1>3 DEF Stopped
<1>4. CASE Tick
    BY <1>4 DEF Tick, Expire, Older
<1>5. CASE ReplyFails
    BY <1>5 DEF ReplyFails
<1>6. ASSUME NEW r \in Rules, Listen(r) PROVE Released'
    BY <1>6 DEF Listen
<1>7. ASSUME NEW r \in Rules, ListenFails(r) PROVE Released'
    BY <1>1, <1>7 DEF ListenFails
<1>8. ASSUME NEW k \in Conns, Accept(k) \/ Hangup(k) \/ Close(k) PROVE Released'
    BY <1>8 DEF Accept, Hangup, Close
<1>9. ASSUME NEW c \in Clients, PacketOfFlow(c) PROVE Released'
    BY <1>9 DEF PacketOfFlow
<1>10. ASSUME NEW c \in Clients, NEW s \in Socks, FirstPacket(c, s) PROVE Released'
    BY <1>10 DEF FirstPacket
<1>11. ASSUME NEW s \in Socks, Bound(s) PROVE Released'
    BY <1>11 DEF Bound
<1>12. ASSUME NEW s \in Socks, BindFails(s) PROVE Released'
    BY <1>12 DEF BindFails
<1>13. CASE UNCHANGED vars
    BY <1>13 DEF vars
<1>14. QED
    BY <1>2, <1>3, <1>4, <1>5, <1>6, <1>7, <1>8, <1>9, <1>10, <1>11, <1>12, <1>13 DEF Next

\* The collector comes before the silence of a flow reaches its limit.
LEMMA SilenceStep == TypeOK /\ SilenceBounded /\ [Next]_vars => SilenceBounded'
<1> SUFFICES ASSUME TypeOK, SilenceBounded, [Next]_vars PROVE SilenceBounded'
    OBVIOUS
<1> USE ForwarderAssumption DEF TypeOK, SilenceBounded, AgeLimit, udp
<1>1. ASSUME StopAll PROVE SilenceBounded'
    BY <1>1 DEF StopAll
<1>2. CASE Stop
    BY <1>1, <1>2 DEF Stop
<1>3. CASE Stopped
    BY <1>3 DEF Stopped
<1>4. CASE Tick
    BY <1>4 DEF Tick, Expire, Older
<1>5. CASE ReplyFails
    BY <1>5 DEF ReplyFails
<1>6. ASSUME NEW r \in Rules, Listen(r) PROVE SilenceBounded'
    BY <1>6 DEF Listen
<1>7. ASSUME NEW r \in Rules, ListenFails(r) PROVE SilenceBounded'
    BY <1>1, <1>7 DEF ListenFails
<1>8. ASSUME NEW k \in Conns, Accept(k) \/ Hangup(k) \/ Close(k) PROVE SilenceBounded'
    BY <1>8 DEF Accept, Hangup, Close
<1>9. ASSUME NEW c \in Clients, PacketOfFlow(c) PROVE SilenceBounded'
    BY <1>9 DEF PacketOfFlow
<1>10. ASSUME NEW c \in Clients, NEW s \in Socks, FirstPacket(c, s) PROVE SilenceBounded'
    BY <1>10 DEF FirstPacket
<1>11. ASSUME NEW s \in Socks, Bound(s) PROVE SilenceBounded'
    BY <1>11 DEF Bound
<1>12. ASSUME NEW s \in Socks, BindFails(s) PROVE SilenceBounded'
    BY <1>12 DEF BindFails
<1>13. CASE UNCHANGED vars
    BY <1>13 DEF vars
<1>14. QED
    BY <1>2, <1>3, <1>4, <1>5, <1>6, <1>7, <1>8, <1>9, <1>10, <1>11, <1>12, <1>13 DEF Next

-----------------------------------------------------------------------------

\* Every step preserves the inductive invariant.
LEMMA StepInvariant == IInv /\ [Next]_vars => IInv'
BY TypeStep, OverlapStep, OwnerStep, ReleaseStep, SilenceStep DEF IInv

\* The inductive invariant holds in every reachable state, whatever binds fail,
\* overlap or are overtaken by a stop (forwarder.ts:113-242).
THEOREM Invariance == Spec => []IInv
BY InitInvariant, StepInvariant, PTL DEF Spec

\* Every reachable state of the forwarder is of its type.
THEOREM TypeCorrect == Spec => []TypeOK
BY Invariance, PTL DEF IInv

\* An upstream socket that is open is some client's, unless its bind overlapped
\* another of the same client, or a stop.
THEOREM SocketsOwned == Spec => []UpstreamsOwned
BY Invariance, PTL DEF IInv

\* A flow ends within the limit and one period of the collector.
THEOREM FlowsEndInTime == Spec => []FlowsEnd
<1>1. IInv => FlowsEnd
    BY ForwarderAssumption DEF IInv, TypeOK, SilenceBounded, FlowsEnd, AgeLimit
<1>2. QED
    BY Invariance, <1>1, PTL

\* When stop() or the rollback of a batch resolves, everything is released.
THEOREM StopReleasesAll == Spec => []StopReleases
<1>1. IInv => StopReleases
    BY DEF IInv, Released, StopReleases
<1>2. QED
    BY Invariance, <1>1, PTL
=============================================================================
