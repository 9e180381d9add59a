--------------------------- MODULE MCPBFTLocking ---------------------------
(***************************************************************************)
(* Instances of PBFTLocking for TLC.                                       *)
(***************************************************************************)
EXTENDS PBFTLocking, TLC

CONSTANTS n1, n2, n3, n4, a, b

(* Every prepare request reaches every sealer. *)
FullReach == [n \in Nodes |-> Blocks]

(* The network splits two proposals of one height: n1 only hears of a, n4  *)
(* only of b, the sealers between them of both.                            *)
SplitReach == (n1 :> {a}) @@ (n2 :> {a, b}) @@ (n3 :> {a, b}) @@ (n4 :> {b})

SplitSymmetry == Permutations({n2, n3})
FullSymmetry == Permutations(Nodes) \cup Permutations(Blocks)

(* The comment on m_committedPrepareCache (PBFTReqCache.h) gives the       *)
(* backup of a locked prepare as what keeps the chain from forking when    *)
(* sealers crash between locking a block and storing it: no two chains     *)
(* hold different blocks at one height, whoever restarts and whenever.     *)
BackupPreventsFork ==
    \A m, n \in Nodes : \A h \in Heights :
        h <= Number(m) /\ h <= Number(n) => chain[m][h] = chain[n][h]

=============================================================================
