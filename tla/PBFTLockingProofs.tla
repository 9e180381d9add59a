------------------------- MODULE PBFTLockingProofs -------------------------
(***************************************************************************)
(* The locking rule keeps the promise of PBFTVoting and therefore never    *)
(* forks the chain, for every group size, any number of blocks, heights,   *)
(* views and restarts.                                                     *)
(***************************************************************************)
EXTENDS PBFTLocking, QuorumProofs, SequenceTheorems

(* A request at the current height is not a cleared one. *)
LEMMA LiveProposal ==
    ASSUME TypeOK, NEW n \in Nodes, prepare[n].height = next[n]
    PROVE  prepare[n] \in Proposal
<1>1. next[n] > 0 /\ prepare[n] \in Proposal \cup {NoPrepare}
  BY DEF TypeOK
<1>2. QED
  BY <1>1 DEF NoPrepare

(* No step of PBFTLocking leaves the types. *)
LEMMA LockingTypeInit == Init => TypeOK
<1> SUFFICES ASSUME Init PROVE TypeOK
  OBVIOUS
<1>1. <<>> \in Seq(Blocks) /\ 0 \in Views
  BY BoundsAssumption DEF Views
<1>2. QED
  BY <1>1 DEF Init, TypeOK

(* See LockingTypeInit: the step. *)
LEMMA LockingTypeNext == TypeOK /\ [Next]_vars => TypeOK'
<1> SUFFICES ASSUME TypeOK, [Next]_vars PROVE TypeOK'
  OBVIOUS
<1> USE DEF TypeOK
<1>1. ASSUME NEW n \in Nodes, NEW b \in Blocks, ExecPrepare(n, b) PROVE TypeOK'
  <2>1. next[n] \in Heights
    BY <1>1, BoundsAssumption DEF ExecPrepare, Heights
  <2>2. QED
    BY <1>1, <2>1 DEF ExecPrepare, Proposal, Message, From
<1>2. ASSUME NEW n \in Nodes, NEW b \in Blocks, SyncBlock(n, b) PROVE TypeOK'
  <2>1. Append(chain[n], b) \in Seq(Blocks)
    OBVIOUS
  <2>2. QED
    BY <1>2, <2>1 DEF SyncBlock
<1>3. ASSUME NEW n \in Nodes, CheckAndCommit(n) PROVE TypeOK'
  <2>1. prepare[n] \in Proposal
    BY <1>3, LiveProposal DEF CheckAndCommit
  <2>2. QED
    BY <1>3, <2>1 DEF CheckAndCommit, Proposal, Lock, Message, From
<1>4. ASSUME NEW n \in Nodes, CheckAndSave(n) PROVE TypeOK'
  <2>1. prepare[n] \in Proposal
    BY <1>4, LiveProposal DEF CheckAndSave
  <2>2. Append(chain[n], prepare[n].block) \in Seq(Blocks)
    BY <2>1 DEF Proposal
  <2>3. QED
    BY <1>4, <2>2 DEF CheckAndSave
<1>5. ASSUME NEW n \in Nodes, ReportBlock(n) PROVE TypeOK'
  <2>1. Number(n) + 1 \in Nat \ {0} /\ 0 \in Views
    BY BoundsAssumption DEF Number, Views
  <2>2. QED
    BY <1>5, <2>1 DEF ReportBlock
<1>6. ASSUME NEW n \in Nodes, DropPrepare(n) PROVE TypeOK'
  BY <1>6 DEF DropPrepare
<1>7. ASSUME NEW n \in Nodes, NEW v \in Views, ChangeView(n, v) PROVE TypeOK'
  BY <1>7 DEF ChangeView
<1>8. ASSUME NEW n \in Nodes, BackupMsg(n) PROVE TypeOK'
  BY <1>8 DEF BackupMsg
<1>9. ASSUME NEW n \in Nodes, Restart(n) PROVE TypeOK'
  <2>1. Number(n) + 1 \in Nat \ {0} /\ 0 \in Views
    BY BoundsAssumption DEF Number, Views
  <2>2. QED
    BY <1>9, <2>1 DEF Restart
<1>10. ASSUME NEW n \in Nodes, ReloadMsg(n) PROVE TypeOK'
  BY <1>10 DEF ReloadMsg
<1>11. CASE UNCHANGED vars
  BY <1>11 DEF vars
<1>12. QED
  BY <1>1, <1>2, <1>3, <1>4, <1>5, <1>6, <1>7, <1>8, <1>9, <1>10, <1>11 DEF Next

(* Every reachable state of PBFTLocking has the declared types. *)
THEOREM LockingTypes == Spec => []TypeOK
BY LockingTypeInit, LockingTypeNext, PTL DEF Spec

-----------------------------------------------------------------------------
(* The engine is at most one height behind its chain plus one, and what it *)
(* holds is of that height or below.                                       *)
InStepOf(n) ==
    /\ next[n] <= Number(n) + 1
    /\ prepare[n].height <= next[n]
    /\ lock[n].height <= next[n]
    /\ backup[n].height <= next[n]
    /\ \A c \in commits : c.node = n => c.height <= next[n]

InStep == \A n \in Nodes : InStepOf(n)

Same(p, q, h) == p.height = h /\ q.height = h => p.block = q.block

(* What a sealer that has lost no lock remembers of its current height     *)
(* while the block of that height is not stored: its proposal, its lock    *)
(* and its backup agree, and a vote it has cast is in the lock or, before  *)
(* the backup is read after a restart, in the backup.                      *)
Remembers(n) ==
    /\ Same(prepare[n], lock[n], next[n])
    /\ Same(prepare[n], backup[n], next[n])
    /\ Same(lock[n], backup[n], next[n])
    /\ loaded[n] /\ backup[n].height = next[n] => lock[n].height = next[n]
    /\ \A c \in commits : c.node = n /\ c.height = next[n] =>
            \/ lock[n].height = next[n] /\ lock[n].block = c.block
            \/ ~loaded[n] /\ backup[n].height = next[n] /\ backup[n].block = c.block

LockKeptBy(n) == next[n] > Number(n) => Remembers(n)

LockKept == \A n \in Nodes \ lost : LockKeptBy(n)

(* The proposal never contradicts a vote of the same height. *)
ProposalKeptBy(n) == \A c \in commits : c.node = n => Same(prepare[n], c, next[n])

ProposalKept == \A n \in Nodes \ lost : ProposalKeptBy(n)

(* A sealer that has lost no lock votes for one block per height. *)
VotesOnce ==
    \A c, d \in commits :
        c.node = d.node /\ c.height = d.height /\ c.node \notin lost => c.block = d.block

(* A stored block carries the signatures of a quorum. *)
StoredSigned ==
    \A n \in Nodes : \A h \in 1 .. Number(n) : \A b \in Blocks :
        h <= MaxHeight /\ (chain[n][h] = b => SigList(h, b) \in Quorums)

IInv == TypeOK /\ InStep /\ LockKept /\ ProposalKept /\ VotesOnce /\ StoredSigned

(* The facts about chains and votes that the steps below use. *)
LEMMA ChainFacts ==
    ASSUME TypeOK, NEW n \in Nodes
    PROVE  /\ chain[n] \in Seq(Blocks) /\ Number(n) \in Nat
           /\ \A b \in Blocks :
                /\ Len(Append(chain[n], b)) = Number(n) + 1
                /\ Append(chain[n], b)[Number(n) + 1] = b
                /\ \A h \in 1 .. Number(n) : Append(chain[n], b)[h] = chain[n][h]
BY DEF TypeOK, Number

(* Votes are never withdrawn, so a quorum of signatures stays one. *)
LEMMA SigListGrows ==
    ASSUME commits \subseteq commits', NEW h, NEW b, SigList(h, b) \in Quorums
    PROVE  SigList(h, b)' \in Quorums
<1>1. SigList(h, b) \subseteq SigList(h, b)' /\ SigList(h, b)' \in SUBSET Nodes
  BY DEF SigList
<1>2. QED
  BY <1>1, QuorumUpward

(* Stored blocks stay signed when the chains do not change. *)
LEMMA SignedFrame ==
    ASSUME StoredSigned, commits \subseteq commits', UNCHANGED chain
    PROVE  StoredSigned'
BY SigListGrows DEF StoredSigned, Number

(* A block that a quorum voted for may be stored. *)
LEMMA SignedAppend ==
    ASSUME TypeOK, StoredSigned, UNCHANGED commits,
           NEW n \in Nodes, NEW b \in Blocks, Number(n) < MaxHeight,
           SigList(Number(n) + 1, b) \in Quorums,
           chain' = [chain EXCEPT ![n] = Append(@, b)]
    PROVE  StoredSigned'
<1> SUFFICES ASSUME NEW m \in Nodes, NEW h \in 1 .. Len(chain'[m]), NEW c \in Blocks
             PROVE  h <= MaxHeight /\ (chain'[m][h] = c => SigList(h, c)' \in Quorums)
  BY DEF StoredSigned, Number
<1>1. h <= MaxHeight /\ (chain'[m][h] = c => SigList(h, c) \in Quorums)
  <2>1. CASE m # n
    BY <2>1 DEF StoredSigned, Number, TypeOK
  <2>2. CASE m = n
    <3>1. chain'[m] = Append(chain[n], b)
      BY <2>2 DEF TypeOK
    <3>2. CASE h \in 1 .. Number(n)
      BY <3>1, <3>2, ChainFacts, SMTT(20) DEF StoredSigned
    <3>3. CASE h = Number(n) + 1
      BY <3>1, <3>3, ChainFacts, BoundsAssumption
    <3>4. QED
      BY <3>1, <3>2, <3>3, ChainFacts
  <2>3. QED
    BY <2>1, <2>2
<1>2. QED
  BY <1>1, SigListGrows

(* Heights are integers, -1 in a cleared request. *)
LEMMA HeightTypes ==
    ASSUME TypeOK, NEW n \in Nodes
    PROVE  /\ next[n] \in Nat \ {0}
           /\ prepare[n].height \in Int /\ lock[n].height \in Int /\ backup[n].height \in Int
BY DEF TypeOK, Proposal, Lock, Heights, NoPrepare, NoLock

(* The invariant holds when a group starts. *)
LEMMA LockingInit == Init => IInv
<1> SUFFICES ASSUME Init PROVE IInv
  OBVIOUS
<1>1. \A n \in Nodes : Number(n) = 0
  BY DEF Init, Number
<1>2. InStep /\ StoredSigned
  BY <1>1 DEF Init, InStep, InStepOf, StoredSigned, NoPrepare, NoLock
<1>3. LockKept /\ ProposalKept /\ VotesOnce
  BY DEF Init, LockKept, LockKeptBy, Remembers, Same, ProposalKept, ProposalKeptBy, VotesOnce,
     NoPrepare, NoLock
<1>4. QED
  BY <1>2, <1>3, LockingTypeInit DEF IInv

(* A step that leaves sealer m alone, but for its proposal, which it may   *)
(* clear, and its chain, which may grow.                                   *)
Untouched(m) ==
    /\ next'[m] = next[m] /\ lock'[m] = lock[m]
    /\ backup'[m] = backup[m] /\ loaded'[m] = loaded[m]
    /\ prepare'[m] = prepare[m] \/ prepare'[m] = NoPrepare
    /\ Number(m)' >= Number(m)
    /\ \A c \in commits' : c.node = m => c \in commits

(* What the invariant says of such a sealer stays true. *)
LEMMA UntouchedKept ==
    ASSUME TypeOK, TypeOK', NEW m \in Nodes, Untouched(m)
    PROVE  /\ InStepOf(m) => InStepOf(m)'
           /\ LockKeptBy(m) => LockKeptBy(m)'
           /\ ProposalKeptBy(m) => ProposalKeptBy(m)'
<1>1. /\ next[m] \in Nat \ {0} /\ Number(m) \in Nat /\ Number(m)' \in Nat
      /\ NoPrepare.height = -1
  BY HeightTypes, ChainFacts DEF TypeOK, NoPrepare, Number
<1>2. prepare'[m] = prepare[m] \/ prepare'[m].height # next[m]
  BY <1>1 DEF Untouched
<1>3. InStepOf(m) => InStepOf(m)'
  BY <1>1 DEF Untouched, InStepOf
<1>4. Remembers(m) => Remembers(m)'
  <2> SUFFICES ASSUME Remembers(m) PROVE Remembers(m)'
    OBVIOUS
  <2>1. /\ Same(prepare'[m], lock'[m], next'[m]) /\ Same(prepare'[m], backup'[m], next'[m])
        /\ Same(lock'[m], backup'[m], next'[m])
    BY <1>2 DEF Untouched, Remembers, Same
  <2>2. loaded'[m] /\ backup'[m].height = next'[m] => lock'[m].height = next'[m]
    BY DEF Untouched, Remembers
  <2>3. \A c \in commits' : c.node = m /\ c.height = next'[m] =>
            \/ lock'[m].height = next'[m] /\ lock'[m].block = c.block
            \/ ~loaded'[m] /\ backup'[m].height = next'[m] /\ backup'[m].block = c.block
    BY DEF Untouched, Remembers
  <2>4. QED
    BY <2>1, <2>2, <2>3 DEF Remembers, Same
<1>5. LockKeptBy(m) => LockKeptBy(m)'
  BY <1>1, <1>4 DEF Untouched, LockKeptBy
<1>6. ProposalKeptBy(m) => ProposalKeptBy(m)'
  BY <1>2 DEF Untouched, ProposalKeptBy, Same
<1>7. QED
  BY <1>3, <1>5, <1>6

(* So a step needs looking at for the sealer that takes it only. *)
LEMMA OneTouched ==
    ASSUME IInv, TypeOK', lost \subseteq lost', NEW n \in Nodes,
           \A m \in Nodes \ {n} : Untouched(m),
           InStepOf(n)', n \notin lost' => LockKeptBy(n)' /\ ProposalKeptBy(n)'
    PROVE  InStep' /\ LockKept' /\ ProposalKept'
<1>1. ASSUME NEW m \in Nodes
      PROVE  InStepOf(m)' /\ (m \notin lost' => LockKeptBy(m)' /\ ProposalKeptBy(m)')
  <2>1. CASE m = n
    BY <2>1
  <2>2. CASE m # n
    <3>1. TypeOK /\ Untouched(m) /\ InStepOf(m) /\ (m \notin lost' => LockKeptBy(m) /\ ProposalKeptBy(m))
      BY <2>2 DEF IInv, InStep, LockKept, ProposalKept
    <3>2. QED
      BY <3>1, UntouchedKept
  <2>3. QED
    BY <2>1, <2>2
<1>2. QED
  BY <1>1 DEF InStep, LockKept, ProposalKept

(* A step that touches nobody. *)
LEMMA NoneTouched ==
    ASSUME IInv, TypeOK', UNCHANGED <<commits, lost>>, \A m \in Nodes : Untouched(m)
    PROVE  InStep' /\ LockKept' /\ ProposalKept' /\ VotesOnce'
<1>1. ASSUME NEW m \in Nodes
      PROVE  InStepOf(m)' /\ (m \notin lost' => LockKeptBy(m)' /\ ProposalKeptBy(m)')
  <2>1. TypeOK /\ Untouched(m) /\ InStepOf(m) /\ (m \notin lost' => LockKeptBy(m) /\ ProposalKeptBy(m))
    BY DEF IInv, InStep, LockKept, ProposalKept
  <2>2. QED
    BY <2>1, UntouchedKept
<1>2. VotesOnce'
  BY DEF IInv, VotesOnce
<1>3. QED
  BY <1>1, <1>2 DEF InStep, LockKept, ProposalKept

(* Votes are cast once as long as none is cast. *)
LEMMA VotesFrame ==
    ASSUME VotesOnce, UNCHANGED commits, lost \subseteq lost'
    PROVE  VotesOnce'
BY DEF VotesOnce

(* What is known of a sealer that has lost no lock. *)
LEMMA Kept ==
    ASSUME IInv, NEW n \in Nodes
    PROVE  /\ TypeOK /\ InStepOf(n) /\ VotesOnce /\ StoredSigned
           /\ next[n] \in Nat \ {0} /\ Number(n) \in Nat
           /\ prepare[n].height \in Int /\ lock[n].height \in Int /\ backup[n].height \in Int
           /\ n \notin lost => LockKeptBy(n) /\ ProposalKeptBy(n)
<1>1. TypeOK
  BY DEF IInv
<1>2. /\ next[n] \in Nat \ {0} /\ Number(n) \in Nat
      /\ prepare[n].height \in Int /\ lock[n].height \in Int /\ backup[n].height \in Int
  BY <1>1, HeightTypes, ChainFacts
<1>3. QED
  BY <1>1, <1>2 DEF IInv, InStep, LockKept, ProposalKept

(* Every step of PBFTLocking keeps the invariant. *)
LEMMA LockingNext == IInv /\ [Next]_vars => IInv'
<1> SUFFICES ASSUME IInv, [Next]_vars PROVE IInv'
  OBVIOUS
<1>0. TypeOK /\ TypeOK' /\ VotesOnce /\ StoredSigned
  BY LockingTypeNext DEF IInv
<1>a. ASSUME UNCHANGED chain, NEW m \in Nodes PROVE Number(m)' = Number(m) /\ Number(m) \in Nat
  BY <1>0, <1>a, ChainFacts DEF Number
<1>1. ASSUME NEW n \in Nodes, NEW b \in Blocks, ExecPrepare(n, b) PROVE IInv'
  <2>1. UNCHANGED <<chain, commits, next, lock, backup, loaded>> /\ lost \subseteq lost'
    BY <1>1 DEF ExecPrepare
  <2>2. \A m \in Nodes \ {n} : Untouched(m)
    BY <1>0, <1>1, <1>a, <2>1, SMTT(20) DEF ExecPrepare, Untouched, TypeOK
  <2>3. /\ prepare'[n].height = next[n] /\ prepare'[n].block = b
        /\ next[n] > Number(n) /\ (lock[n].height = next[n] => lock[n].block = b)
        /\ n \notin lost' => (~loaded[n] /\ backup[n].height = next[n] => backup[n].block = b)
    BY <1>0, <1>1 DEF ExecPrepare, TypeOK
  <2>4. InStepOf(n)'
    BY <1>a, <2>1, <2>3, Kept, SMTT(20) DEF InStepOf
  <2>5. ASSUME n \notin lost' PROVE LockKeptBy(n)' /\ ProposalKeptBy(n)'
    <3>1. Remembers(n)
      BY <2>1, <2>3, <2>5, Kept DEF LockKeptBy
    <3>2. backup[n].height = next[n] => backup[n].block = b
      BY <1>0, <2>3, <2>5, <3>1, SMTT(20) DEF Remembers, Same, TypeOK
    <3>3. Remembers(n)'
      BY <2>1, <2>3, <3>1, <3>2 DEF Remembers, Same
    <3>4. ProposalKeptBy(n)'
      BY <2>1, <2>3, <3>1, <3>2 DEF Remembers, ProposalKeptBy, Same
    <3>5. QED
      BY <3>3, <3>4 DEF LockKeptBy
  <2>6. QED
    BY <1>0, <2>1, <2>2, <2>4, <2>5, OneTouched, VotesFrame, SignedFrame DEF IInv
<1>2. ASSUME NEW n \in Nodes, NEW b \in Blocks, SyncBlock(n, b) PROVE IInv'
  <2>1. UNCHANGED <<next, prepare, lock, backup, loaded, commits, lost>>
    BY <1>2 DEF SyncBlock
  <2>2. \A m \in Nodes : Number(m)' >= Number(m)
    BY <1>0, <1>2, ChainFacts DEF SyncBlock, Number, TypeOK
  <2>3. \A m \in Nodes : Untouched(m)
    BY <2>1, <2>2 DEF Untouched
  <2>4. StoredSigned'
    BY <1>0, <1>2, SignedAppend DEF SyncBlock
  <2>5. QED
    BY <1>0, <2>1, <2>3, <2>4, NoneTouched DEF IInv
<1>3. ASSUME NEW n \in Nodes, CheckAndCommit(n) PROVE IInv'
  <2> DEFINE p == prepare[n]
  <2>1. /\ UNCHANGED <<chain, next, prepare, backup, loaded, lost>>
        /\ p.height = next[n] /\ commits' = commits \cup {From(n, p)}
    BY <1>3 DEF CheckAndCommit
  <2>2. /\ From(n, p).node = n /\ From(n, p).height = next[n] /\ From(n, p).block = p.block
        /\ lock'[n].height = next[n] /\ lock'[n].block = p.block
    BY <1>0, <1>3, <2>1 DEF CheckAndCommit, From, TypeOK
  <2>3. \A m \in Nodes \ {n} : Untouched(m)
    <3>1. \A m \in Nodes \ {n} : lock'[m] = lock[m]
      BY <1>0, <1>3 DEF CheckAndCommit, TypeOK
    <3>2. QED
      BY <1>a, <2>1, <2>2, <3>1 DEF Untouched
  <2>4. InStepOf(n)'
    BY <1>a, <2>1, <2>2, Kept DEF InStepOf
  <2>5. ASSUME n \notin lost' PROVE LockKeptBy(n)' /\ ProposalKeptBy(n)'
    <3>1. \A c \in commits' : c.node = n /\ c.height = next[n] => c.block = p.block
      BY <2>1, <2>2, <2>5, Kept DEF ProposalKeptBy, Same
    <3>2. ProposalKeptBy(n)'
      BY <2>1, <3>1 DEF ProposalKeptBy, Same
    <3>3. ASSUME next[n] > Number(n) PROVE Remembers(n)'
      <4>1. Remembers(n)
        BY <2>1, <2>5, <3>3, Kept DEF LockKeptBy
      <4>2. QED
        BY <2>1, <2>2, <3>1, <4>1 DEF Remembers, Same
    <3>4. QED
      BY <1>a, <2>1, <3>2, <3>3 DEF LockKeptBy
  <2>6. VotesOnce'
    <3>1. \A c \in commits : c.node = n /\ c.height = next[n] /\ n \notin lost => c.block = p.block
      BY <2>1, Kept DEF ProposalKeptBy, Same
    <3>2. QED
      BY <1>0, <2>1, <2>2, <3>1 DEF VotesOnce
  <2>7. QED
    BY <1>0, <2>1, <2>3, <2>4, <2>5, <2>6, OneTouched, SignedFrame DEF IInv
<1>4. ASSUME NEW n \in Nodes, CheckAndSave(n) PROVE IInv'
  <2>1. /\ UNCHANGED <<next, lock, backup, loaded, commits, lost>>
        /\ chain' = [chain EXCEPT ![n] = Append(@, prepare[n].block)]
        /\ prepare[n].height = next[n] /\ prepare[n].height = Number(n) + 1
        /\ Committers(prepare[n]) \in Quorums
    BY <1>4 DEF CheckAndSave
  <2>2. prepare[n] \in Proposal /\ prepare[n].block \in Blocks /\ prepare[n].height \in Heights
    BY <1>0, <2>1, LiveProposal DEF Proposal
  <2>3. \A m \in Nodes : Number(m)' >= Number(m)
    BY <1>0, <2>1, <2>2, ChainFacts, SMTT(20) DEF Number, TypeOK
  <2>4. \A m \in Nodes : prepare'[m] = prepare[m] \/ prepare'[m] = NoPrepare
    BY <1>0, <1>4 DEF CheckAndSave, TypeOK
  <2>5. \A m \in Nodes : Untouched(m)
    BY <2>1, <2>3, <2>4 DEF Untouched
  <2>6. StoredSigned'
    <3>1. Committers(prepare[n]) \subseteq SigList(prepare[n].height, prepare[n].block)
      BY <2>2 DEF Committers, SigList, From, Proposal
    <3>2. SigList(Number(n) + 1, prepare[n].block) \in Quorums
      BY <2>1, <3>1, QuorumUpward DEF SigList
    <3>3. Number(n) < MaxHeight
      BY <2>1, <2>2, Kept, BoundsAssumption, SMTT(20) DEF Heights
    <3>4. QED
      BY <1>0, <2>1, <2>2, <3>2, <3>3, SignedAppend
  <2>7. QED
    BY <1>0, <2>1, <2>5, <2>6, NoneTouched DEF IInv
<1>5. ASSUME NEW n \in Nodes, ReportBlock(n) PROVE IInv'
  <2>1. UNCHANGED <<chain, lock, backup, loaded, commits, lost>>
    BY <1>5 DEF ReportBlock
  <2>2. \A m \in Nodes \ {n} : Untouched(m)
    BY <1>0, <1>5, <1>a, <2>1, SMTT(20) DEF ReportBlock, Untouched, TypeOK
  <2>3. /\ next[n] < next'[n] /\ next'[n] = Number(n) + 1
        /\ prepare'[n] = prepare[n] \/ prepare'[n].height = -1
    BY <1>0, <1>5, Kept, SMTT(20) DEF ReportBlock, TypeOK, NoPrepare
  <2>4. /\ prepare'[n].height < next'[n] /\ lock[n].height < next'[n] /\ backup[n].height < next'[n]
        /\ \A c \in commits : c.node = n => c.height < next'[n]
    <3>1. \A c \in commits : c.height \in Int
      BY <1>0 DEF TypeOK, Message, Heights
    <3>2. QED
      BY <2>3, <3>1, Kept, SMTT(20) DEF InStepOf
  <2>5. InStepOf(n)'
    <3>1. \A c \in commits : c.height \in Int
      BY <1>0 DEF TypeOK, Message, Heights
    <3>2. QED
      BY <1>0, <1>a, <2>1, <2>3, <2>4, <3>1, Kept, HeightTypes, SMTT(20) DEF InStepOf
  <2>6. LockKeptBy(n)' /\ ProposalKeptBy(n)'
    BY <2>1, <2>4, Kept, <2>3, SMTT(20) DEF LockKeptBy, Remembers, ProposalKeptBy, Same
  <2>7. QED
    BY <1>0, <2>1, <2>2, <2>5, <2>6, OneTouched, VotesFrame, SignedFrame DEF IInv
<1>6. ASSUME NEW n \in Nodes, DropPrepare(n) \/ \E v \in Views : ChangeView(n, v) PROVE IInv'
  <2>1. UNCHANGED <<chain, next, lock, backup, loaded, commits, lost>>
    BY <1>6 DEF DropPrepare, ChangeView
  <2>2. \A m \in Nodes : prepare'[m] = prepare[m] \/ prepare'[m] = NoPrepare
    BY <1>0, <1>6 DEF DropPrepare, ChangeView, TypeOK
  <2>3. \A m \in Nodes : Untouched(m)
    BY <1>a, <2>1, <2>2, SMTT(20) DEF Untouched
  <2>4. QED
    BY <1>0, <2>1, <2>3, NoneTouched, SignedFrame DEF IInv
<1>7. ASSUME NEW n \in Nodes, BackupMsg(n) PROVE IInv'
  <2>1. UNCHANGED <<chain, next, prepare, lock, loaded, commits, lost>>
    BY <1>7 DEF BackupMsg
  <2>2. \A m \in Nodes \ {n} : Untouched(m)
    BY <1>0, <1>7, <1>a, <2>1 DEF BackupMsg, Untouched, TypeOK
  <2>3. backup'[n] = lock[n] /\ loaded[n]
    BY <1>0, <1>7 DEF BackupMsg, TypeOK
  <2>4. InStepOf(n)'
    BY <1>a, <2>1, <2>3, Kept DEF InStepOf
  <2>5. ASSUME n \notin lost' PROVE LockKeptBy(n)' /\ ProposalKeptBy(n)'
    <3>1. Remembers(n) => Remembers(n)'
      BY <2>1, <2>3 DEF Remembers, Same
    <3>2. LockKeptBy(n)'
      BY <1>a, <2>1, <2>5, <3>1, Kept DEF LockKeptBy
    <3>3. ProposalKeptBy(n)'
      BY <2>1, <2>5, Kept DEF ProposalKeptBy, Same
    <3>4. QED
      BY <3>2, <3>3
  <2>6. QED
    BY <1>0, <2>1, <2>2, <2>4, <2>5, OneTouched, VotesFrame, SignedFrame DEF IInv
<1>8. ASSUME NEW n \in Nodes, Restart(n) PROVE IInv'
  <2>1. /\ UNCHANGED <<chain, backup, commits>> /\ lost \subseteq lost'
        /\ n \notin lost' => n \notin lost /\ ~Forgets(n)
    BY <1>8 DEF Restart
  <2>2. \A m \in Nodes \ {n} : Untouched(m)
    BY <1>0, <1>8, <1>a, <2>1, SMTT(20) DEF Restart, Untouched, TypeOK
  <2>3. /\ next'[n] = Number(n) + 1 /\ prepare'[n].height = -1 /\ lock'[n].height = -1
        /\ loaded'[n] = FALSE
    BY <1>0, <1>8 DEF Restart, TypeOK, NoPrepare, NoLock
  <2>4. \A c \in commits : c.height \in Int
    BY <1>0 DEF TypeOK, Message, Heights
  <2>5. InStepOf(n)'
    BY <1>0, <1>a, <2>1, <2>3, <2>4, Kept DEF InStepOf
  <2>6. ASSUME n \notin lost' PROVE LockKeptBy(n)' /\ ProposalKeptBy(n)'
    <3>1. ASSUME NEW c \in commits, c.node = n, c.height = next'[n]
          PROVE  backup[n].height = next'[n] /\ backup[n].block = c.block
      <4>1. next[n] = next'[n] /\ next[n] > Number(n)
        <5>1. c.height <= next[n] /\ next[n] <= Number(n) + 1
          BY <3>1, Kept DEF InStepOf
        <5>2. next[n] \in Nat /\ Number(n) \in Nat
          BY Kept
        <5>3. QED
          BY <2>3, <2>4, <3>1, <5>1, <5>2, SMTT(20)
      <4>2. Remembers(n)
        BY <2>1, <2>6, <4>1, Kept DEF LockKeptBy
      <4>3. CASE lock[n].height = next[n] /\ lock[n].block = c.block
        <5>1. lock[n] # NoLock /\ lock[n].height > Number(n)
          BY <4>1, <4>3, Kept DEF NoLock
        <5>2. QED
          BY <2>1, <2>6, <4>1, <4>3, <5>1 DEF Forgets
      <4>4. QED
        BY <3>1, <4>1, <4>2, <4>3 DEF Remembers
    <3>2. LockKeptBy(n)'
      <4>1. prepare'[n].height # next'[n] /\ lock'[n].height # next'[n]
        BY <2>3, Kept
      <4>2. Remembers(n)'
        BY <2>1, <2>3, <3>1, <4>1 DEF Remembers, Same
      <4>3. QED
        BY <4>2 DEF LockKeptBy
    <3>3. ProposalKeptBy(n)'
      BY <2>3, Kept, SMTT(20) DEF ProposalKeptBy, Same
    <3>4. QED
      BY <3>2, <3>3
  <2>7. QED
    BY <1>0, <2>1, <2>2, <2>5, <2>6, OneTouched, VotesFrame, SignedFrame DEF IInv
<1>9. ASSUME NEW n \in Nodes, ReloadMsg(n) PROVE IInv'
  <2>1. /\ UNCHANGED <<chain, next, prepare, backup, commits>> /\ lost \subseteq lost'
        /\ n \notin lost' => n \notin lost /\ (backup[n] # NoLock => ~Forgets(n))
    BY <1>9 DEF ReloadMsg
  <2>2. \A m \in Nodes \ {n} : Untouched(m)
    BY <1>0, <1>9, <1>a, <2>1 DEF ReloadMsg, Untouched, TypeOK
  <2>3. /\ loaded'[n] = TRUE /\ ~loaded[n]
        /\ lock'[n] = IF backup[n] = NoLock THEN lock[n] ELSE backup[n]
    BY <1>0, <1>9 DEF ReloadMsg, TypeOK
  <2>4. InStepOf(n)'
    BY <1>a, <2>1, <2>3, Kept DEF InStepOf
  <2>5. ASSUME n \notin lost' PROVE LockKeptBy(n)' /\ ProposalKeptBy(n)'
    <3>1. ProposalKeptBy(n)'
      BY <2>1, <2>5, Kept DEF ProposalKeptBy, Same
    <3>2. ASSUME next[n] > Number(n) PROVE Remembers(n)'
      <4>1. Remembers(n)
        BY <2>1, <2>5, <3>2, Kept DEF LockKeptBy
      <4>2. CASE backup[n] = NoLock
        <5>1. lock'[n] = lock[n] /\ backup[n].height # next[n]
          BY <2>3, <4>2, Kept DEF NoLock
        <5>2. QED
          BY <2>1, <2>3, <4>1, <5>1 DEF Remembers, Same
      <4>3. CASE backup[n] # NoLock
        <5>1. lock'[n] = backup[n]
          BY <2>3, <4>3
        <5>2. lock[n].height = next[n] => lock[n] = backup[n]
          <6>1. lock[n].height = next[n] => lock[n] # NoLock /\ lock[n].height > Number(n)
            BY <3>2, Kept DEF NoLock
          <6>2. QED
            BY <2>1, <2>5, <4>3, <6>1 DEF Forgets
        <5>3. QED
          BY <2>1, <2>3, <4>1, <5>1, <5>2 DEF Remembers, Same
      <4>4. QED
        BY <4>2, <4>3
    <3>3. QED
      BY <1>a, <2>1, <3>1, <3>2 DEF LockKeptBy
  <2>6. QED
    BY <1>0, <2>1, <2>2, <2>4, <2>5, OneTouched, VotesFrame, SignedFrame DEF IInv
<1>10. CASE UNCHANGED vars
  <2>1. UNCHANGED <<chain, next, prepare, lock, backup, loaded, commits, lost>>
    BY <1>10 DEF vars
  <2>2. \A m \in Nodes : Untouched(m)
    BY <1>a, <2>1 DEF Untouched
  <2>3. QED
    BY <1>0, <2>1, <2>2, NoneTouched, SignedFrame DEF IInv
<1>11. QED
  BY <1>1, <1>2, <1>3, <1>4, <1>5, <1>6, <1>7, <1>8, <1>9, <1>10 DEF Next

(* The invariant rules out a fork: the signature lists of two blocks of    *)
(* one height share a sealer that has lost no lock, and it voted once.     *)
LEMMA LockingAgreement == IInv => Agreement
<1> SUFFICES ASSUME IInv, Cardinality(lost) < m_nodeNum - 2 * m_f,
                    NEW m \in Nodes, NEW n \in Nodes, NEW h \in Heights,
                    h <= Number(m), h <= Number(n)
             PROVE  chain[m][h] = chain[n][h]
  BY DEF Agreement
<1>1. h \in 1 .. Number(m) /\ h \in 1 .. Number(n) /\ lost \in SUBSET Nodes
  BY ChainFacts, SMTT(20) DEF IInv, TypeOK, Heights
<1>2. chain[m][h] \in Blocks /\ chain[n][h] \in Blocks
  BY <1>1 DEF IInv, TypeOK, Number
<1>3. SigList(h, chain[m][h]) \in Quorums /\ SigList(h, chain[n][h]) \in Quorums
  BY <1>1, <1>2 DEF IInv, StoredSigned
<1>4. PICK q \in SigList(h, chain[m][h]) \cap SigList(h, chain[n][h]) : q \notin lost
  BY <1>1, <1>3, QuorumsMeet
<1>5. PICK v \in Views, w \in Views :
        /\ [node |-> q, height |-> h, view |-> v, block |-> chain[m][h]] \in commits
        /\ [node |-> q, height |-> h, view |-> w, block |-> chain[n][h]] \in commits
  BY <1>4 DEF SigList
<1>6. QED
  BY <1>4, <1>5 DEF IInv, VotesOnce

(* No fork, for every group size and any number of restarts: checkAndSave  *)
(* and block sync store the same block at the same height in all chains    *)
(* while fewer than m_nodeNum - 2 * m_f sealers have lost a lock.          *)
THEOREM LockingNoFork == Spec => []Agreement
<1>1. Spec => []IInv
  BY LockingInit, LockingNext, PTL DEF Spec
<1>2. QED
  BY <1>1, LockingAgreement, PTL

-----------------------------------------------------------------------------
(* The voters of the mapped state are the sealers of the signature list. *)
LEMMA MappedVoters ==
    ASSUME TypeOK, NEW h, NEW b
    PROVE  Voting!VotersFor(h, b) = SigList(h, b)
<1>1. \A c \in commits : c = [node |-> c.node, height |-> c.height, view |-> c.view, block |-> c.block]
                         /\ c.node \in Nodes /\ c.view \in Views
  BY DEF TypeOK, Message
<1>2. ASSUME NEW q \in Voting!VotersFor(h, b) PROVE q \in SigList(h, b)
  <2>1. PICK c \in commits : c.node = q /\ c.height = h /\ c.block = b
    BY <1>2 DEF Voting!VotersFor, Votes
  <2>2. QED
    BY <1>1, <2>1 DEF SigList
<1>3. ASSUME NEW q \in SigList(h, b) PROVE q \in Voting!VotersFor(h, b)
  <2>1. PICK v \in Views : [node |-> q, height |-> h, view |-> v, block |-> b] \in commits
    BY <1>3 DEF SigList
  <2>2. [node |-> q, height |-> h, block |-> b] \in Votes
    BY <2>1 DEF Votes
  <2>3. QED
    BY <2>2 DEF Voting!VotersFor
<1>4. QED
  BY <1>2, <1>3

(* A step that leaves chains and votes alone is a stutter of PBFTVoting or *)
(* makes one sealer forget.                                                *)
LEMMA MappedForget ==
    ASSUME NEW n \in Nodes, UNCHANGED <<chain, commits>>, lost' = lost \/ lost' = lost \cup {n}
    PROVE  [Voting!Next]_(Voting!vars)
<1>1. UNCHANGED <<Votes, Stored>>
  BY DEF Votes, Stored, StoredBy, Number
<1>2. QED
  BY <1>1 DEF Voting!Next, Voting!Forget, Voting!vars

(* Storing a block with a quorum of signatures is a Store step. *)
LEMMA MappedStore ==
    ASSUME TypeOK, NEW n \in Nodes, NEW b \in Blocks, UNCHANGED <<commits, lost>>,
           Number(n) + 1 \in Heights, SigList(Number(n) + 1, b) \in Quorums,
           chain' = [chain EXCEPT ![n] = Append(@, b)]
    PROVE  Voting!Next
<1> DEFINE new == [node |-> n, height |-> Number(n) + 1, block |-> b]
<1>1. Votes' = Votes
  BY DEF Votes
<1>2. ASSUME NEW m \in Nodes, m # n PROVE StoredBy(m)' = StoredBy(m)
  BY <1>2 DEF TypeOK, Number, StoredBy
<1>3. StoredBy(n)' = StoredBy(n) \cup {new}
  <2>1. chain'[n] = Append(chain[n], b) /\ Number(n)' = Number(n) + 1 /\ Number(n) \in Nat
    BY ChainFacts DEF TypeOK, Number
  <2>2. 1 .. (Number(n) + 1) = (1 .. Number(n)) \cup {Number(n) + 1}
    BY <2>1
  <2>3. QED
    BY <2>1, <2>2, ChainFacts, SMTT(20) DEF StoredBy
<1>4. Stored' = Stored \cup {new}
  BY <1>2, <1>3 DEF Stored
<1>5. Voting!VotersFor(Number(n) + 1, b) \in Quorums
  BY MappedVoters
<1>6. Voting!Quorums = Quorums
  <2>1. \A S : Voting!Cardinality(S) = Cardinality(S)
    BY DEF Voting!Cardinality, Cardinality
  <2>2. QED
    BY <2>1 DEF Voting!Quorums, Quorums, Voting!minValidNodes, minValidNodes,
       Voting!m_nodeNum, m_nodeNum, Voting!m_f, m_f
<1>7. Voting!Store(n, Number(n) + 1, b)
  BY <1>1, <1>4, <1>5, <1>6 DEF Voting!Store
<1>8. QED
  BY <1>7 DEF Voting!Next

(* A CommitReq of checkAndCommit is a Cast step: by the invariant, a       *)
(* sealer that has lost no lock repeats its earlier vote of that height.   *)
LEMMA MappedCast ==
    ASSUME IInv, NEW n \in Nodes, CheckAndCommit(n)
    PROVE  Voting!Next
<1> DEFINE p == prepare[n]
           new == [node |-> n, height |-> p.height, block |-> p.block]
<1>1. p \in Proposal /\ p.height \in Heights /\ p.block \in Blocks
  <2>1. p \in Proposal
    BY LiveProposal DEF IInv, CheckAndCommit
  <2>2. QED
    BY <2>1 DEF Proposal
<1>2. Votes' = Votes \cup {new}
  <2>1. commits' = commits \cup {From(n, p)}
    BY DEF CheckAndCommit
  <2>2. From(n, p).node = n /\ From(n, p).height = p.height /\ From(n, p).block = p.block
    BY DEF From
  <2>3. QED
    BY <2>1, <2>2 DEF Votes
<1>3. Stored' = Stored /\ lost' = lost
  BY SMTT(20) DEF CheckAndCommit, Stored, StoredBy, Number
<1>4. ASSUME NEW v \in Votes, v.node = n, v.height = p.height, n \notin lost
      PROVE  v.block = p.block
  <2>1. PICK c \in commits : c.node = n /\ c.height = p.height /\ c.block = v.block
    BY <1>4, SMTT(20) DEF Votes
  <2>2. p.height = next[n]
    BY DEF CheckAndCommit
  <2>3. QED
    BY <1>4, <2>1, <2>2 DEF IInv, ProposalKept, ProposalKeptBy, Same
<1>5. Voting!Cast(n, p.height, p.block)
  BY <1>2, <1>3, <1>4 DEF Voting!Cast
<1>6. QED
  BY <1>1, <1>5 DEF Voting!Next

(* Every step of PBFTLocking is a step of PBFTVoting or a stutter. *)
LEMMA MappedNext == IInv /\ [Next]_vars => [Voting!Next]_(Voting!vars)
<1> SUFFICES ASSUME IInv, [Next]_vars PROVE [Voting!Next]_(Voting!vars)
  OBVIOUS
<1>1. ASSUME NEW n \in Nodes, NEW b \in Blocks, ExecPrepare(n, b)
      PROVE  [Voting!Next]_(Voting!vars)
  BY <1>1, MappedForget DEF ExecPrepare
<1>2. ASSUME NEW n \in Nodes, NEW b \in Blocks, SyncBlock(n, b) PROVE Voting!Next
  <2>1. Number(n) + 1 \in Heights
    BY <1>2, ChainFacts, BoundsAssumption DEF SyncBlock, Heights, IInv
  <2>2. QED
    BY <1>2, <2>1, MappedStore DEF SyncBlock, IInv
<1>3. ASSUME NEW n \in Nodes, CheckAndCommit(n) PROVE Voting!Next
  BY <1>3, MappedCast
<1>4. ASSUME NEW n \in Nodes, CheckAndSave(n) PROVE Voting!Next
  <2>1. prepare[n] \in Proposal
    BY <1>4, LiveProposal DEF IInv, CheckAndSave
  <2>2. prepare[n].height = Number(n) + 1 /\ prepare[n].height \in Heights /\ prepare[n].block \in Blocks
    BY <1>4, <2>1 DEF CheckAndSave, Proposal
  <2>3. Committers(prepare[n]) \subseteq SigList(prepare[n].height, prepare[n].block)
    BY <2>1 DEF Committers, SigList, From, Proposal
  <2>4. SigList(prepare[n].height, prepare[n].block) \in Quorums
    BY <1>4, <2>3, QuorumUpward DEF SigList, CheckAndSave
  <2>5. QED
    BY <1>4, <2>2, <2>4, MappedStore DEF CheckAndSave, IInv
<1>5. ASSUME NEW n \in Nodes,
             \/ ReportBlock(n) \/ DropPrepare(n) \/ BackupMsg(n)
             \/ \E v \in Views : ChangeView(n, v)
      PROVE  [Voting!Next]_(Voting!vars)
  <2>1. UNCHANGED <<chain, commits, lost>>
    BY <1>5 DEF ReportBlock, DropPrepare, BackupMsg, ChangeView
  <2>2. QED
    BY <2>1, MappedForget
<1>6. ASSUME NEW n \in Nodes, Restart(n) \/ ReloadMsg(n) PROVE [Voting!Next]_(Voting!vars)
  <2>1. UNCHANGED <<chain, commits>> /\ (lost' = lost \/ lost' = lost \cup {n})
    BY <1>6 DEF Restart, ReloadMsg
  <2>2. QED
    BY <2>1, MappedForget
<1>7. CASE UNCHANGED vars
  <2>1. PICK n \in Nodes : TRUE
    BY NodesAssumption
  <2>2. UNCHANGED <<chain, commits, lost>>
    BY <1>7 DEF vars
  <2>3. QED
    BY <2>1, <2>2, MappedForget
<1>8. QED
  BY <1>1, <1>2, <1>3, <1>4, <1>5, <1>6, <1>7 DEF Next

(* The locking rule implements the promise of PBFTVoting for every group   *)
(* size and every bound: a sealer that has lost no lock commits to one     *)
(* block per height, and what a sealer stores a quorum has committed to.   *)
THEOREM LockingImplementsVoting == Spec => ImplementsVoting
<1>1. Init => Voting!Init
  BY DEF Init, Voting!Init, Votes, Stored, StoredBy, Number
<1>2. Spec => []IInv
  BY LockingInit, LockingNext, PTL DEF Spec
<1>3. QED
  BY <1>1, <1>2, MappedNext, PTL DEF Spec, ImplementsVoting, Voting!Spec

=============================================================================
