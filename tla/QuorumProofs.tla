---------------------------- MODULE QuorumProofs ----------------------------
(***************************************************************************)
(* Two quorums of minValidNodes() sealers share more than m_f sealers.     *)
(***************************************************************************)
EXTENDS ConsensusEngineBase, FiniteSetTheorems, TLAPS

(* m_nodeNum, m_f and minValidNodes() are numbers with 3 * m_f < m_nodeNum. *)
LEMMA SealerCount ==
    /\ m_nodeNum \in Nat \ {0}
    /\ m_f \in Nat
    /\ 3 * m_f < m_nodeNum
    /\ minValidNodes \in Nat \ {0}
<1>1. m_nodeNum \in Nat \ {0}
  BY NodesAssumption, FS_CardinalityType, FS_EmptySet DEF m_nodeNum
<1>2. m_f \in Nat /\ 3 * m_f < m_nodeNum
  BY <1>1 DEF m_f
<1>3. QED
  BY <1>1, <1>2 DEF minValidNodes

(* Any two quorums meet outside every set of sealers that is smaller than  *)
(* the overlap m_nodeNum - 2 * m_f that minValidNodes() guarantees.        *)
LEMMA QuorumsMeet ==
    ASSUME NEW P \in Quorums, NEW Q \in Quorums, NEW L \in SUBSET Nodes,
           Cardinality(L) < m_nodeNum - 2 * m_f
    PROVE  \E n \in P \cap Q : n \notin L
<1>1. IsFiniteSet(P) /\ IsFiniteSet(Q) /\ IsFiniteSet(L) /\ P \cup Q \subseteq Nodes
  BY NodesAssumption, FS_Subset DEF Quorums
<1>2. /\ IsFiniteSet(P \cap Q) /\ IsFiniteSet(P \cup Q)
      /\ Cardinality(P \cap Q) \in Nat /\ Cardinality(P \cup Q) \in Nat
      /\ Cardinality(P) \in Nat /\ Cardinality(Q) \in Nat /\ Cardinality(L) \in Nat
  BY <1>1, FS_Intersection, FS_Union, FS_CardinalityType
<1>3. Cardinality(P \cup Q) = Cardinality(P) + Cardinality(Q) - Cardinality(P \cap Q)
  BY <1>1, FS_Union
<1>4. Cardinality(P \cup Q) <= m_nodeNum
  BY <1>1, NodesAssumption, FS_Subset DEF m_nodeNum
<1>5. Cardinality(P) >= minValidNodes /\ Cardinality(Q) >= minValidNodes
  BY DEF Quorums
<1>6. Cardinality(P \cap Q) >= m_nodeNum - 2 * m_f
  BY <1>2, <1>3, <1>4, <1>5, SealerCount DEF minValidNodes
<1>7. ~(P \cap Q \subseteq L)
  BY <1>1, <1>2, <1>6, FS_Subset, SealerCount
<1>8. QED
  BY <1>7

(* Adding a sealer to a quorum leaves a quorum. *)
LEMMA QuorumUpward ==
    ASSUME NEW P \in Quorums, NEW Q \in SUBSET Nodes, P \subseteq Q
    PROVE  Q \in Quorums
<1>1. IsFiniteSet(Q) /\ IsFiniteSet(P)
  BY NodesAssumption, FS_Subset DEF Quorums
<1>2. Cardinality(P) <= Cardinality(Q) /\ Cardinality(P) \in Nat /\ Cardinality(Q) \in Nat
  BY <1>1, FS_Subset, FS_CardinalityType
<1>3. QED
  BY <1>2, SealerCount DEF Quorums

=============================================================================
