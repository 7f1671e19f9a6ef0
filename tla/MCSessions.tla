----------------------------- MODULE MCSessions -----------------------------
EXTENDS Sessions, TLC

Symmetry == Permutations(Requests)

\* A pair that is neither in the jar nor carried or brought by a request never
\* comes back: two states that differ only in the ages and the memo of such pairs,
\* or in which of the revoked ones were loose, have the same future.
Used(p) == p = jar \/ \E r \in Requests : p \in {req[r].pair, req[r].brings}

View == <<active, issued, session, jar, req, inactive, upset,
          [p \in Pairs |->
             IF Used(p) THEN <<revokedAge[p], p \in expired, cached[p], cachedAge[p]>> ELSE <<>>],
          {p \in loose : session[p] = "live"}>>
=============================================================================
