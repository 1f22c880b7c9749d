---------------------------- MODULE ActivePeers ----------------------------
(***************************************************************************)
(* internal/peers.go, checkActivePeers: which of its peers a node talks    *)
(* to.  The ids are strings in the code; only their order matters, so they *)
(* are natural numbers here.  Positions in sortedPeers count from 0.       *)
(***************************************************************************)
LOCAL INSTANCE Naturals
LOCAL INSTANCE FiniteSets
LOCAL INSTANCE FiniteSetsExt

\* sortedPeers[i].
sortedPeers(peers, i) ==
    CHOOSE p \in peers : Cardinality({q \in peers : q < p}) = i

\* The (would-be) position of the node self among its peers.
offset(self, peers) == Cardinality({p \in peers : ~ (self < p)})

\* The first position from idx on, around the ring of n, that is neither active
\* nor bad; if there is none, the first that is not active.
NextFree(idx, active, bad, n) ==
    LET good == {d \in 0 .. n - 1 : (idx + d) % n \notin active \cup bad}
        free == {d \in 0 .. n - 1 : (idx + d) % n \notin active}
    IN  (idx + Min(IF good # {} THEN good ELSE free)) % n

\* A plausible slip: the distances are 2, 4, 8...
Target_SkipsNeighbour(off, i, n) == (off + 2 ^ (i % 32)) % n

\* Where the ith search starts: the neighbour at distance 2^i.
Target(off, i, n) == (off + (2 ^ (i % 32) - 1)) % n

\* The active positions after the first k searches.
ActivePositions(off, bad, n, k) ==
    LET active[i \in 0 .. k] ==
          IF i = 0 THEN {}
          ELSE active[i - 1] \cup
                 {NextFree(Target(off, i - 1, n), active[i - 1], bad, n)}
    IN  active[k]

\* The peers that are started; the others are stopped.  max is MaxActivePeers.
ActivePeers(self, peers, badPeers, max) ==
    LET n == Cardinality(peers)
        bad == {i \in 0 .. n - 1 : sortedPeers(peers, i) \in badPeers}
        k == IF n < max THEN n ELSE max
    IN  IF max = 0 \/ n <= max
        THEN peers
        ELSE {sortedPeers(peers, i) :
                i \in ActivePositions(offset(self, peers), bad, n, k)}
=============================================================================
