------------------------ MODULE ConsensusEngineBase ------------------------
(***************************************************************************)
(* The group of sealers and the size of a quorum.  The sealer list is      *)
(* fixed here; the code reads it again after every block (resetConfig).    *)
(***************************************************************************)
EXTENDS Integers, FiniteSets

CONSTANT Nodes      \* m_sealerList

ASSUME NodesAssumption == IsFiniteSet(Nodes) /\ Nodes # {}

m_nodeNum == Cardinality(Nodes)
m_f == (m_nodeNum - 1) \div 3
minValidNodes == m_nodeNum - m_f

Quorums == {Q \in SUBSET Nodes : Cardinality(Q) >= minValidNodes}

=============================================================================
