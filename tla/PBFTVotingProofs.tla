-------------------------- MODULE PBFTVotingProofs --------------------------
(***************************************************************************)
(* No fork follows from the promise of PBFTVoting, for every group size    *)
(* and any number of blocks and heights.                                   *)
(***************************************************************************)
EXTENDS PBFTVoting, QuorumProofs

(* A sealer that has lost no vote has voted for one block per height. *)
VotedOnce ==
    \A v, w \in votes :
        v.node = w.node /\ v.height = w.height /\ v.node \notin lost => v.block = w.block

(* What is stored has the votes of a quorum. *)
StoredByQuorum == \A s \in stored : VotersFor(s.height, s.block) \in Quorums

IInv == TypeOK /\ VotedOnce /\ StoredByQuorum

(* The invariant holds before the first block is proposed. *)
LEMMA VotingInit == Init => IInv
BY DEF Init, IInv, TypeOK, VotedOnce, StoredByQuorum

(* Every step of PBFTVoting keeps the invariant. *)
LEMMA VotingNext == IInv /\ [Next]_vars => IInv'
<1> SUFFICES ASSUME IInv, [Next]_vars PROVE IInv'
  OBVIOUS
<1> USE DEF IInv
<1>1. ASSUME NEW n \in Nodes, NEW h \in Heights, NEW b \in Blocks, Cast(n, h, b)
      PROVE  IInv'
  <2> DEFINE new == [node |-> n, height |-> h, block |-> b]
  <2>1. TypeOK'
    BY <1>1 DEF TypeOK, Cast, Vote
  <2>2. VotedOnce'
    BY <1>1 DEF TypeOK, VotedOnce, Cast, Vote
  <2>3. ASSUME NEW s \in stored
        PROVE  VotersFor(s.height, s.block)' \in Quorums
    <3>1. /\ VotersFor(s.height, s.block) \in Quorums
          /\ VotersFor(s.height, s.block) \subseteq VotersFor(s.height, s.block)'
      BY <1>1 DEF StoredByQuorum, Cast, VotersFor
    <3>2. VotersFor(s.height, s.block)' \in SUBSET Nodes
      BY <2>1 DEF TypeOK, VotersFor, Vote
    <3>3. QED
      BY <3>1, <3>2, QuorumUpward
  <2>4. StoredByQuorum'
    BY <1>1, <2>3 DEF StoredByQuorum, Cast, VotersFor
  <2>5. QED
    BY <2>1, <2>2, <2>4
<1>2. ASSUME NEW n \in Nodes, NEW h \in Heights, NEW b \in Blocks, Store(n, h, b)
      PROVE  IInv'
  <2>1. TypeOK' /\ VotedOnce'
    BY <1>2 DEF TypeOK, VotedOnce, Store, Vote
  <2>2. \A k, c : VotersFor(k, c)' = VotersFor(k, c)
    BY <1>2 DEF Store, VotersFor
  <2>3. ASSUME NEW s \in stored'
        PROVE  VotersFor(s.height, s.block) \in Quorums
    <3>1. s \in stored \/ (s.height = h /\ s.block = b)
      BY <1>2 DEF Store
    <3>2. QED
      BY <1>2, <3>1 DEF StoredByQuorum, Store
  <2>4. StoredByQuorum'
    BY <2>2, <2>3 DEF StoredByQuorum
  <2>5. QED
    BY <2>1, <2>4
<1>3. ASSUME NEW n \in Nodes, Forget(n)
      PROVE  IInv'
  BY <1>3 DEF TypeOK, VotedOnce, StoredByQuorum, Forget, VotersFor
<1>4. CASE UNCHANGED vars
  BY <1>4 DEF TypeOK, VotedOnce, StoredByQuorum, vars, VotersFor
<1>5. QED
  BY <1>1, <1>2, <1>3, <1>4 DEF Next

(* The invariant rules out a fork: two quorums share a sealer that has     *)
(* lost no vote, and that sealer voted once.                               *)
LEMMA VotingAgreement == IInv => Agreement
<1> SUFFICES ASSUME IInv, Cardinality(lost) < m_nodeNum - 2 * m_f,
                    NEW s \in stored, NEW t \in stored, s.height = t.height
             PROVE  s.block = t.block
  BY DEF Agreement
<1>1. lost \in SUBSET Nodes
  BY DEF IInv, TypeOK
<1>2. PICK n \in VotersFor(s.height, s.block) \cap VotersFor(t.height, t.block) : n \notin lost
  <2>1. VotersFor(s.height, s.block) \in Quorums /\ VotersFor(t.height, t.block) \in Quorums
    BY DEF IInv, StoredByQuorum
  <2>2. QED
    BY <1>1, <2>1, QuorumsMeet
<1>3. PICK v \in votes, w \in votes :
        /\ v.node = n /\ v.height = s.height /\ v.block = s.block
        /\ w.node = n /\ w.height = t.height /\ w.block = t.block
  BY <1>2 DEF VotersFor
<1>4. QED
  BY <1>2, <1>3 DEF IInv, VotedOnce

(* No fork, for every group size: the blocks stored at one height by       *)
(* sealers that follow PBFTVoting are equal while fewer than               *)
(* m_nodeNum - 2 * m_f of them have lost a vote.                           *)
THEOREM NoFork == Spec => []Agreement
<1>1. Spec => []IInv
  BY VotingInit, VotingNext, PTL DEF Spec
<1>2. QED
  BY <1>1, VotingAgreement, PTL

=============================================================================
