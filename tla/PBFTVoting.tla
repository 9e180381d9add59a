----------------------------- MODULE PBFTVoting -----------------------------
(***************************************************************************)
(* What PBFT promises, seen from the outside: the sealers cast commit      *)
(* votes (CommitReq messages), a sealer stores a block once a quorum of    *)
(* sealers voted for it at that height, and a sealer that still remembers  *)
(* its vote never votes for another block at the same height.  A sealer    *)
(* may forget (see PBFTLocking for the ways the code can lose a vote).     *)
(***************************************************************************)
EXTENDS ConsensusEngineBase

CONSTANTS
    Blocks,     \* the blocks that leaders may propose
    Heights     \* the block numbers under consideration

VARIABLES
    votes,      \* every CommitReq ever broadcast
    stored,     \* every block ever stored by a sealer
    lost        \* the sealers that have lost a vote they had cast

vars == <<votes, stored, lost>>

Vote == [node : Nodes, height : Heights, block : Blocks]

VotersFor(h, b) == {v.node : v \in {w \in votes : w.height = h /\ w.block = b}}

Init ==
    /\ votes = {}
    /\ stored = {}
    /\ lost = {}

(* A sealer votes; if it has not lost a vote, it repeats itself or is silent. *)
Cast(n, h, b) ==
    /\ \A v \in votes : v.node = n /\ v.height = h /\ n \notin lost => v.block = b
    /\ votes' = votes \cup {[node |-> n, height |-> h, block |-> b]}
    /\ UNCHANGED <<stored, lost>>

(* A sealer stores a block that a quorum of sealers voted for. *)
Store(n, h, b) ==
    /\ VotersFor(h, b) \in Quorums
    /\ stored' = stored \cup {[node |-> n, height |-> h, block |-> b]}
    /\ UNCHANGED <<votes, lost>>

(* A sealer loses the memory of its votes. *)
Forget(n) ==
    /\ lost' = lost \cup {n}
    /\ UNCHANGED <<votes, stored>>

Next ==
    \E n \in Nodes :
        \/ \E h \in Heights, b \in Blocks : Cast(n, h, b) \/ Store(n, h, b)
        \/ Forget(n)

Spec == Init /\ [][Next]_vars

-----------------------------------------------------------------------------
(* Votes and stored blocks are of the heights and blocks considered. *)
TypeOK ==
    /\ votes \subseteq Vote
    /\ stored \subseteq Vote
    /\ lost \subseteq Nodes

(* No fork: the sealers store the same block at the same height as long as *)
(* fewer sealers than two quorums share have lost a vote.  That number is *)
(* at least m_f + 1, so any m_f sealers may forget.                        *)
Agreement ==
    Cardinality(lost) < m_nodeNum - 2 * m_f =>
        \A s, t \in stored : s.height = t.height => s.block = t.block

=============================================================================
