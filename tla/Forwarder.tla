------------------------------ MODULE Forwarder ------------------------------
(***************************************************************************)
(* The userland port forwarder (packages/tunnel-core/src/forwarder.ts): a  *)
(* batch of one TCP and one UDP rule is started, serves clients and is     *)
(* stopped.  UDP gives each client an upstream socket, which it has to     *)
(* bind first, and closes it when the client has been silent for long.     *)
(* forwarder-runner.ts, which systemd runs, carries a copy of this code.   *)
(*                                                                         *)
(* Time passes in ticks.  Left out: the bytes, the idle limit of TCP, and  *)
(* the upstream half of a TCP connection: stop() leaves it open, and the   *)
(* runner process then exits.                                              *)
(***************************************************************************)
EXTENDS Integers, FiniteSets

CONSTANTS
    Clients,    \* UDP clients: an address and a port
    Conns,      \* TCP connections
    Socks,      \* upstream sockets at once (bounds the run)
    none,       \* no client, no socket
    Attempts,   \* binds tried for one upstream
    SessionTTL, \* SESSION_TTL_MS
    Interval    \* period of the cleanup timer

ASSUME ForwarderAssumption ==
    /\ none \notin Clients /\ none \notin Socks
    /\ Attempts \in Nat \ {0} /\ SessionTTL \in Nat \ {0} /\ Interval \in Nat \ {0}

Rules == {"tcp", "udp"}

\* Silence longer than this is not told apart.
AgeLimit == SessionTTL + Interval

VARIABLES
    phase,      \* starting, up, stopping, down
    listening,  \* rules whose port is bound
    conn,       \* each connection: closed, open, or destroyed and not yet closed
    flows,      \* the upstream socket of each client
    age,        \* ticks since each client's flow was last used
    binding,    \* the client each socket is being bound for
    left,       \* attempts it has left
    open,       \* upstream sockets bound and not closed
    clock,      \* ticks to the next run of the cleanup timer
    collecting, \* the cleanup timer has not been cleared
    raced       \* history: sockets whose bind overlapped another of the client, or a stop

udp == <<flows, age, binding, left, open, clock, collecting, raced>>
vars == <<phase, listening, conn, udp>>

TypeOK ==
    /\ phase \in {"starting", "up", "stopping", "down"}
    /\ listening \subseteq Rules
    /\ conn \in [Conns -> {"closed", "open", "destroyed"}]
    /\ flows \in [Clients -> open \cup {none}] /\ age \in [Clients -> 0..AgeLimit]
    /\ binding \in [Socks -> Clients \cup {none}] /\ left \in [Socks -> 0..(Attempts - 1)]
    /\ open \subseteq {s \in Socks : binding[s] = none}
    /\ clock \in 1..Interval /\ collecting \in BOOLEAN /\ raced \subseteq Socks

Init ==
    /\ phase = "starting" /\ listening = {}
    /\ conn = [k \in Conns |-> "closed"]
    /\ flows = [c \in Clients |-> none] /\ age = [c \in Clients |-> 0]
    /\ binding = [s \in Socks |-> none] /\ left = [s \in Socks |-> 0] /\ open = {}
    /\ clock = Interval /\ collecting = TRUE /\ raced = {}

-----------------------------------------------------------------------------
(* Starting and stopping *)

\* startForwarders() binds one rule after the other, in any order of the batch.
Listen(r) ==
    /\ phase = "starting" /\ r \notin listening
    /\ listening' = listening \cup {r}
    /\ phase' = IF listening' = Rules THEN "up" ELSE "starting"
    /\ UNCHANGED <<conn, udp>>

\* A stop() that leaves established connections alone.
MutStopAll ==
    /\ phase' = "stopping" /\ listening' = {}
    /\ conn' = conn
    /\ open' = open \ {flows[c] : c \in Clients} /\ flows' = [c \in Clients |-> none]
    /\ collecting' = FALSE
    /\ raced' = raced \cup {s \in Socks : binding[s] # none}
    /\ UNCHANGED <<age, binding, left, clock>>

\* stop() of every handle: connections are destroyed, flows closed, the timer
\* cleared; a bind in progress is not told.
StopAll ==
    /\ phase' = "stopping" /\ listening' = {}
    /\ conn' = [k \in Conns |-> IF conn[k] = "open" THEN "destroyed" ELSE conn[k]]
    /\ open' = open \ {flows[c] : c \in Clients} /\ flows' = [c \in Clients |-> none]
    /\ collecting' = FALSE
    /\ raced' = raced \cup {s \in Socks : binding[s] # none}
    /\ UNCHANGED <<age, binding, left, clock>>

\* A batch that fails without rolling back.
MutListenFails(r) ==
    /\ phase = "starting" /\ r \notin listening
    /\ phase' = "down"
    /\ UNCHANGED <<listening, conn, udp>>

\* The port is taken: the rules already bound are rolled back.
ListenFails(r) ==
    /\ phase = "starting" /\ r \notin listening
    /\ StopAll

Stop == phase = "up" /\ StopAll

\* A destroyed socket emits `close`.
Close(k) ==
    /\ conn[k] = "destroyed"
    /\ conn' = [conn EXCEPT ![k] = "closed"]
    /\ UNCHANGED <<phase, listening, udp>>

\* server.close() calls back when no connection is left, and stop() resolves.
Stopped ==
    /\ phase = "stopping" /\ \A k \in Conns : conn[k] = "closed"
    /\ phase' = "down"
    /\ UNCHANGED <<listening, conn, udp>>

-----------------------------------------------------------------------------
(* TCP *)

Accept(k) ==
    /\ "tcp" \in listening /\ conn[k] = "closed"
    /\ conn' = [conn EXCEPT ![k] = "open"]
    /\ UNCHANGED <<phase, listening, udp>>

\* Either side ends the connection.
Hangup(k) ==
    /\ conn[k] = "open"
    /\ conn' = [conn EXCEPT ![k] = "closed"]
    /\ UNCHANGED <<phase, listening, udp>>

-----------------------------------------------------------------------------
(* UDP *)

PacketOfFlow(c) ==
    /\ "udp" \in listening /\ flows[c] # none
    /\ age' = [age EXCEPT ![c] = 0]
    /\ UNCHANGED <<phase, listening, conn, flows, binding, left, open, clock, collecting, raced>>

\* A client without a flow: each packet that finds none binds a socket.
FirstPacket(c, s) ==
    /\ "udp" \in listening /\ flows[c] = none
    /\ s \notin open /\ binding[s] = none
    /\ binding' = [binding EXCEPT ![s] = c] /\ left' = [left EXCEPT ![s] = Attempts - 1]
    /\ LET others == {t \in Socks : binding[t] = c} IN
        raced' = IF others = {} THEN raced \ {s} ELSE raced \cup others \cup {s}
    /\ UNCHANGED <<phase, listening, conn, flows, age, open, clock, collecting>>

\* The bind succeeds: the packet is sent and the flow set, whatever there is.
Bound(s) ==
    LET c == binding[s] IN
    /\ c # none
    /\ binding' = [binding EXCEPT ![s] = none]
    /\ open' = open \cup {s}
    /\ flows' = [flows EXCEPT ![c] = s] /\ age' = [age EXCEPT ![c] = 0]
    /\ UNCHANGED <<phase, listening, conn, left, clock, collecting, raced>>

\* It fails: another attempt, or the packet is dropped.
BindFails(s) ==
    /\ binding[s] # none
    /\ IF left[s] > 0
       THEN left' = [left EXCEPT ![s] = @ - 1] /\ UNCHANGED binding
       ELSE binding' = [binding EXCEPT ![s] = none] /\ UNCHANGED left
    /\ UNCHANGED <<phase, listening, conn, flows, age, open, clock, collecting, raced>>

Older(n) == IF n < AgeLimit THEN n + 1 ELSE n

\* A collector that forgets the flow and not its socket.
MutExpire(idle) ==
    /\ flows' = [c \in Clients |-> IF c \in idle THEN none ELSE flows[c]]
    /\ UNCHANGED open

\* The collector closes and forgets flows that have been idle.
Expire(idle) ==
    /\ flows' = [c \in Clients |-> IF c \in idle THEN none ELSE flows[c]]
    /\ open' = open \ {flows[c] : c \in idle}

\* A collector that waits one period too long.
MutTick ==
    /\ clock' = IF clock = 1 THEN Interval ELSE clock - 1
    /\ age' = [c \in Clients |-> IF flows[c] = none THEN 0 ELSE Older(age[c])]
    /\ Expire({c \in Clients :
                clock = 1 /\ collecting /\ flows[c] # none /\ age'[c] >= AgeLimit})
    /\ UNCHANGED <<phase, listening, conn, binding, left, collecting, raced>>

Tick ==
    /\ clock' = IF clock = 1 THEN Interval ELSE clock - 1
    /\ age' = [c \in Clients |-> IF flows[c] = none THEN 0 ELSE Older(age[c])]
    /\ Expire({c \in Clients :
                clock = 1 /\ collecting /\ flows[c] # none /\ age'[c] > SessionTTL})
    /\ UNCHANGED <<phase, listening, conn, binding, left, collecting, raced>>

\* A reply that cannot be sent is an `error` of the listener, whose handler was
\* written for a failed bind: it clears the timer.
ReplyFails ==
    /\ "udp" \in listening /\ open # {}
    /\ collecting' = FALSE
    /\ UNCHANGED <<phase, listening, conn, flows, age, binding, left, open, clock, raced>>

-----------------------------------------------------------------------------

Next ==
    \/ Stop \/ Stopped \/ Tick \/ ReplyFails
    \/ \E r \in Rules : Listen(r) \/ ListenFails(r)
    \/ \E k \in Conns : Accept(k) \/ Hangup(k) \/ Close(k)
    \/ \E c \in Clients : PacketOfFlow(c) \/ \E s \in Socks : FirstPacket(c, s)
    \/ \E s \in Socks : Bound(s) \/ BindFails(s)

\* The event loop delivers the close of a destroyed socket and of a server.
Fairness == WF_vars(Stopped) /\ \A k \in Conns : WF_vars(Close(k))

Spec == Init /\ [][Next]_vars /\ Fairness

-----------------------------------------------------------------------------
(* Correctness *)

\* An upstream socket that is open belongs to the flow of a client, so that the
\* collector or stop() will close it; the exceptions are sockets whose bind
\* overlapped another one of the same client, or a stop (forwarder.ts:171-183,
\* 191-216, 223-242).
UpstreamsOwned ==
    open \subseteq {flows[c] : c \in Clients} \cup raced

\* While the collector runs, no flow outlives its last packet by more than the
\* TTL and one period (forwarder.ts:26, 171-183).
FlowsEnd ==
    collecting => \A c \in Clients : flows[c] # none => age[c] < AgeLimit

\* When stop(), or the rollback of a batch, has resolved, no port is bound, no
\* connection is open and no flow is left but of a bind it overtook
\* (forwarder.ts:78-102, 223-242, 248-263).
StopReleases ==
    phase = "down" =>
        /\ listening = {} /\ \A k \in Conns : conn[k] = "closed"
        /\ open \subseteq raced

\* stop() resolves however many clients are connected (forwarder.ts:50-56).
StopResolves == phase = "stopping" ~> phase = "down"

\* The same whether or not the timer runs: "UDP tracks client -> upstream
\* mappings with a TTL garbage collector" (forwarder.ts:8-9).  The code violates
\* it: after one reply that cannot be sent, nothing ends a flow (185-188).
IdleFlowsEnd ==
    \A c \in Clients : flows[c] # none => age[c] < AgeLimit
=============================================================================
