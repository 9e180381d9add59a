---------------------------- MODULE PBFTLocking ----------------------------
(***************************************************************************)
(* The rule of PBFTEngine that keeps a chain from forking, for all sealers *)
(* of a group together.  A sealer that collects a quorum of SignReqs locks *)
(* the proposal (m_committedPrepareCache), votes for it with a CommitReq   *)
(* and afterwards refuses every other non-empty proposal of that height.   *)
(* The lock is written to disk by another thread, later, and read back     *)
(* after a restart, also by another thread than the one handling messages. *)
(*                                                                         *)
(* Messages are never withdrawn and are read by whom, whenever and as      *)
(* often as the network likes, so loss, duplication and reordering are     *)
(* covered.  The caches, the view change protocol and the leader are       *)
(* abstracted: a sealer may sign any block its lock allows and move to any *)
(* higher view at any time.  PBFTEngine models these in full.              *)
(***************************************************************************)
EXTENDS ConsensusEngineBase, Sequences

CONSTANTS
    Blocks,     \* the blocks that may be proposed
    NoBlock,    \* the hash of a cleared request
    Reach,      \* the blocks whose prepare requests reach a sealer
    Crashers,   \* the sealers that may restart
    MaxHeight,  \* bound on the block number
    MaxView,    \* bound on the view
    MaxRestarts \* bound on the number of restarts

ASSUME BlocksAssumption == NoBlock \notin Blocks

ASSUME FaultsAssumption == Reach \in [Nodes -> SUBSET Blocks] /\ Crashers \subseteq Nodes

ASSUME BoundsAssumption == MaxHeight \in Nat /\ MaxView \in Nat /\ MaxRestarts \in Nat

VARIABLES
    chain,      \* the blocks on disk; chain[n][h] is the block of height h
    next,       \* m_consensusBlockNumber
    view,       \* m_view
    prepare,    \* m_prepareCache: the executed and signed proposal
    lock,       \* m_committedPrepareCache
    backup,     \* the committed prepare in the backup database
    loaded,     \* reloadMsg has run since the last start
    signs,      \* every SignReq ever broadcast
    commits,    \* every CommitReq ever broadcast
    lost,       \* history: the sealers that have lost a lock
    restarts    \* history: the number of restarts

vars == <<chain, next, view, prepare, lock, backup, loaded, signs, commits, lost, restarts>>

Heights == 1 .. MaxHeight
Views == 0 .. MaxView

(* The state of a request after PBFTMsg::clear(). *)
NoPrepare == [height |-> -1, view |-> -1, block |-> NoBlock]
NoLock == [height |-> -1, block |-> NoBlock]

Proposal == [height : Heights, view : Views, block : Blocks]
Lock == [height : Heights, block : Blocks]
Message == [node : Nodes, height : Heights, view : Views, block : Blocks]

Number(n) == Len(chain[n])

From(n, p) == [node |-> n, height |-> p.height, view |-> p.view, block |-> p.block]

Signers(p) == {n \in Nodes : From(n, p) \in signs}
Committers(p) == {n \in Nodes : From(n, p) \in commits}

(* The sealers whose commit signature on the block is known, in any view:  *)
(* a signature covers the block hash only.                                 *)
SigList(h, b) == {n \in Nodes : \E v \in Views :
    [node |-> n, height |-> h, view |-> v, block |-> b] \in commits}

(* The lock is about to vanish: it is not on disk, and the block it        *)
(* protects is not stored yet.                                             *)
Forgets(n) ==
    /\ lock[n] # NoLock
    /\ lock[n] # backup[n]
    /\ lock[n].height > Number(n)

Init ==
    /\ chain = [n \in Nodes |-> <<>>]
    /\ next = [n \in Nodes |-> 1]
    /\ view = [n \in Nodes |-> 0]
    /\ prepare = [n \in Nodes |-> NoPrepare]
    /\ lock = [n \in Nodes |-> NoLock]
    /\ backup = [n \in Nodes |-> NoLock]
    /\ loaded = [n \in Nodes |-> TRUE]
    /\ signs = {}
    /\ commits = {}
    /\ lost = {}
    /\ restarts = 0

(* Mutant of ExecPrepare: the lock is not compared with the proposal. *)
ExecPrepareUnlocked(n, b) ==
    LET p == [height |-> next[n], view |-> view[n], block |-> b]
    IN  /\ b \in Reach[n]
        /\ next[n] <= MaxHeight
        /\ next[n] > Number(n)
        /\ prepare' = [prepare EXCEPT ![n] = p]
        /\ signs' = signs \cup {From(n, p)}
        /\ UNCHANGED <<chain, next, view, lock, backup, loaded, commits, lost, restarts>>

(* isValidPrepare accepts a proposal of the current height and view that   *)
(* does not contradict the lock, the block is executed and signed.  Before *)
(* the backup is read the lock on disk is not consulted.                   *)
ExecPrepare(n, b) ==
    LET p == [height |-> next[n], view |-> view[n], block |-> b]
    IN  /\ b \in Reach[n]
        /\ next[n] <= MaxHeight
        /\ next[n] > Number(n)
        /\ lock[n].height = next[n] => lock[n].block = b
        /\ prepare' = [prepare EXCEPT ![n] = p]
        /\ signs' = signs \cup {From(n, p)}
        /\ lost' = IF ~loaded[n] /\ backup[n].height = next[n] /\ backup[n].block # b
                   THEN lost \cup {n} ELSE lost
        /\ UNCHANGED <<chain, next, view, lock, backup, loaded, commits, restarts>>

(* Mutant of CheckAndCommit: the vote is sent before the lock is taken. *)
CheckAndCommitUnlocked(n) ==
    LET p == prepare[n]
    IN  /\ p.height = next[n]
        /\ p.view = view[n]
        /\ Signers(p) \in Quorums
        /\ commits' = commits \cup {From(n, p)}
        /\ UNCHANGED <<chain, next, view, prepare, lock, backup, loaded, signs, lost, restarts>>

(* checkAndCommit: a quorum signed the proposal, so lock it and vote.      *)
CheckAndCommit(n) ==
    LET p == prepare[n]
    IN  /\ p.height = next[n]
        /\ p.view = view[n]
        /\ Signers(p) \in Quorums
        /\ lock' = [lock EXCEPT ![n] = [height |-> p.height, block |-> p.block]]
        /\ commits' = commits \cup {From(n, p)}
        /\ UNCHANGED <<chain, next, view, prepare, backup, loaded, signs, lost, restarts>>

(* checkAndSave: a quorum voted for the signed proposal, so store it.      *)
CheckAndSave(n) ==
    LET p == prepare[n]
    IN  /\ p.height = next[n]
        /\ p.view = view[n]
        /\ Signers(p) \in Quorums
        /\ Committers(p) \in Quorums
        /\ p.height = Number(n) + 1
        /\ chain' = [chain EXCEPT ![n] = Append(@, p.block)]
        /\ prepare' = [prepare EXCEPT ![n] = NoPrepare]
        /\ UNCHANGED <<next, view, lock, backup, loaded, signs, commits, lost, restarts>>

(* Block sync stores a block of another sealer; checkBlock has verified    *)
(* that a quorum signed it.                                                *)
SyncBlock(n, b) ==
    /\ Number(n) < MaxHeight
    /\ SigList(Number(n) + 1, b) \in Quorums
    /\ chain' = [chain EXCEPT ![n] = Append(@, b)]
    /\ UNCHANGED <<next, view, prepare, lock, backup, loaded, signs, commits, lost, restarts>>

(* reportBlock: the engine learns of the new head some time after it is    *)
(* stored.  A proposal of another block stays in the cache.                *)
ReportBlock(n) ==
    /\ next[n] <= Number(n)
    /\ next' = [next EXCEPT ![n] = Number(n) + 1]
    /\ view' = [view EXCEPT ![n] = 0]
    /\ prepare' = [prepare EXCEPT ![n] =
            IF @.height = Number(n) /\ @.block = chain[n][Number(n)] THEN NoPrepare ELSE @]
    /\ UNCHANGED <<chain, lock, backup, loaded, signs, commits, lost, restarts>>

(* checkAndChangeView moves to a higher view and drops the proposal.       *)
ChangeView(n, v) ==
    /\ v > view[n]
    /\ view' = [view EXCEPT ![n] = v]
    /\ prepare' = [prepare EXCEPT ![n] = NoPrepare]
    /\ UNCHANGED <<chain, next, lock, backup, loaded, signs, commits, lost, restarts>>

(* Mutant of DropPrepare: clear() resets the height and keeps the hash. *)
DropPrepareHeight(n) ==
    /\ prepare' = [prepare EXCEPT ![n].height = -1]
    /\ UNCHANGED <<chain, next, view, lock, backup, loaded, signs, commits, lost, restarts>>

(* The next valid proposal is empty or fails to execute: addRawPrepare has *)
(* cleared the proposal before it, and nothing is signed.                  *)
DropPrepare(n) ==
    /\ prepare' = [prepare EXCEPT ![n] = NoPrepare]
    /\ UNCHANGED <<chain, next, view, lock, backup, loaded, signs, commits, lost, restarts>>

(* The thread pool runs a backup task: it writes the lock of that moment.  *)
BackupMsg(n) ==
    /\ loaded[n]
    /\ lock[n] # NoLock
    /\ backup' = [backup EXCEPT ![n] = lock[n]]
    /\ UNCHANGED <<chain, next, view, prepare, lock, loaded, signs, commits, lost, restarts>>

(* The process dies and starts again: only the chain and the backup are    *)
(* left, and the message thread runs before the backup is read.            *)
Restart(n) ==
    /\ n \in Crashers
    /\ restarts < MaxRestarts
    /\ restarts' = restarts + 1
    /\ next' = [next EXCEPT ![n] = Number(n) + 1]
    /\ view' = [view EXCEPT ![n] = 0]
    /\ prepare' = [prepare EXCEPT ![n] = NoPrepare]
    /\ lock' = [lock EXCEPT ![n] = NoLock]
    /\ loaded' = [loaded EXCEPT ![n] = FALSE]
    /\ lost' = IF Forgets(n) THEN lost \cup {n} ELSE lost
    /\ UNCHANGED <<chain, backup, signs, commits>>

(* initBackupDB ends: the backup, if there is one, replaces the lock.      *)
ReloadMsg(n) ==
    /\ ~loaded[n]
    /\ loaded' = [loaded EXCEPT ![n] = TRUE]
    /\ lock' = [lock EXCEPT ![n] = IF backup[n] = NoLock THEN @ ELSE backup[n]]
    /\ lost' = IF backup[n] # NoLock /\ Forgets(n) THEN lost \cup {n} ELSE lost
    /\ UNCHANGED <<chain, next, view, prepare, backup, signs, commits, restarts>>

Next ==
    \E n \in Nodes :
        \/ \E b \in Blocks : ExecPrepare(n, b) \/ SyncBlock(n, b)
        \/ CheckAndCommit(n) \/ CheckAndSave(n)
        \/ ReportBlock(n) \/ DropPrepare(n)
        \/ \E v \in Views : ChangeView(n, v)
        \/ BackupMsg(n) \/ Restart(n) \/ ReloadMsg(n)

Spec == Init /\ [][Next]_vars

-----------------------------------------------------------------------------
(* What the variables range over: a cleared proposal or lock is NoPrepare   *)
(* or NoLock as a whole, as PBFTMsg::clear() leaves it, never a mixture.    *)
TypeOK ==
    /\ chain \in [Nodes -> Seq(Blocks)]
    /\ next \in [Nodes -> Nat \ {0}]
    /\ view \in [Nodes -> Views]
    /\ prepare \in [Nodes -> Proposal \cup {NoPrepare}]
    /\ lock \in [Nodes -> Lock \cup {NoLock}]
    /\ backup \in [Nodes -> Lock \cup {NoLock}]
    /\ loaded \in [Nodes -> BOOLEAN]
    /\ signs \subseteq Message
    /\ commits \subseteq Message
    /\ lost \subseteq Nodes
    /\ restarts \in Nat

(* No fork: two chains never hold different blocks at the same height,     *)
(* provided fewer sealers than two quorums share have lost a lock: the     *)
(* block stored by checkAndSave or by block sync is the only one that can  *)
(* ever be stored at its height.                                           *)
Agreement ==
    Cardinality(lost) < m_nodeNum - 2 * m_f =>
        \A m, n \in Nodes : \A h \in Heights :
            h <= Number(m) /\ h <= Number(n) => chain[m][h] = chain[n][h]

(* The refinement mapping to PBFTVoting: CommitReqs are votes, chains are  *)
(* what is stored.                                                         *)
Votes == {[node |-> c.node, height |-> c.height, block |-> c.block] : c \in commits}
StoredBy(n) == {[node |-> n, height |-> h, block |-> chain[n][h]] : h \in 1 .. Number(n)}
Stored == UNION {StoredBy(n) : n \in Nodes}

Voting == INSTANCE PBFTVoting WITH votes <- Votes, stored <- Stored

(* The locking rule keeps the promise of PBFTVoting: a sealer that has not *)
(* lost a lock never sends CommitReqs for two blocks of one height, and    *)
(* what it stores is backed by the votes of a quorum.                      *)
ImplementsVoting == Voting!Spec

=============================================================================
