----------------------------- MODULE PBFTEngine -----------------------------
(***************************************************************************)
(* PBFT engines, each with its sealer thread, its worker thread and its    *)
(* backup thread, exchanging messages.                                     *)
(*                                                                         *)
(* Sealers are numbered 0 .. m_nodeNum - 1.  The sealers in Engines run    *)
(* the code; what the others ever send is the constant Inbox.  A message   *)
(* is in flight to each of its receivers until it is handled, in any       *)
(* order, or for ever if it is lost; another sealer may forward copies of  *)
(* it at any time.  Signatures are valid.                                  *)
(*                                                                         *)
(* Handlers run under m_mutex.  The ones that end in checkAndCommit and    *)
(* checkAndSave take up to three steps, because the block sync thread, the *)
(* backup thread and a crash do not wait for m_mutex: the field stage      *)
(* tells where the handler is, and no other handler runs meanwhile.        *)
(***************************************************************************)
EXTENDS ConsensusEngineBase, PBFTReqCache, Sequences

CONSTANTS
    Engines,        \* the sealers that run the code
    Inbox,          \* the messages of the other sealers
    Blocks,         \* the blocks that may be proposed
    EmptyBlocks,    \* those without transactions
    BadBlocks,      \* those that fail to execute
    Forwarding,     \* whether copies of a message keep arriving from other sealers
    Syncing,        \* whether the engines may be syncing blocks meanwhile
    Crashers,       \* the engines that may restart
    MaxHeight,      \* bound on the block number
    MaxView,        \* bound on toView
    MaxRestarts     \* bound on the number of restarts

ASSUME EngineAssumption ==
    /\ Nodes = 0 .. m_nodeNum - 1
    /\ Crashers \subseteq Engines
    /\ Engines \subseteq Nodes
    /\ EmptyBlocks \cup BadBlocks \subseteq Blocks
    /\ NoBlock \notin Blocks
    /\ {Forwarding, Syncing} \subseteq BOOLEAN

VARIABLES
    node,       \* the state of each engine
    inbox,      \* the messages in flight to each engine
    sent,       \* every message ever sent
    lost,       \* history: the engines that have lost a lock
    restarts    \* history: the number of restarts

vars == <<node, inbox, sent, lost, restarts>>

(* A message; to is a sealer, or Everyone for a broadcast. *)
Everyone == -1
Message(type, i, v, h, b, to) ==
    [type |-> type, idx |-> i, view |-> v, height |-> h, block |-> b, to |-> to]

PrepareOf(m) == [height |-> m.height, view |-> m.view, idx |-> m.idx, block |-> m.block]
VoteOf(m, future) ==
    [idx |-> m.idx, view |-> m.view, height |-> m.height, block |-> m.block, isFuture |-> future]

Number(s) == Len(s.chain)               \* m_blockChain->number()
highestNumber(s) == s.consNum - 1       \* m_highestBlock, which reportBlock
highestBlock(s) ==                      \* keeps one below the consensus number
    IF s.consNum = 1 THEN NoBlock ELSE s.chain[s.consNum - 1]

(* getLeader; nobody leads after a timeout. *)
Leader(s) == IF s.leaderFailed THEN -1 ELSE (s.view + highestNumber(s)) % m_nodeNum
NextLeader(s) == (highestNumber(s) + 1) % m_nodeNum

NewSealing(s) == [number |-> Number(s) + 1, sealed |-> FALSE]

(* The state after start and initPBFTEnv, up to initBackupDB.  The field   *)
(* boot follows the rest of the start: reloadMsg, then Sealer::start.      *)
Started(chain, backup) == [
    chain |-> chain, consNum |-> Len(chain) + 1, view |-> 0, toView |-> 0,
    leaderFailed |-> FALSE, notifyNextLeaderSeal |-> FALSE,
    stage |-> "idle", resetDue |-> FALSE, boot |-> "reload",
    sealer |-> "idle", sealing |-> [number |-> Len(chain) + 1, sealed |-> FALSE],
    readyDue |-> FALSE, syncBlock |-> FALSE, backup |-> backup, queued |-> FALSE] @@ EmptyCache

Init ==
    /\ node = [n \in Engines |-> [Started(<< >>, NoPrepare) EXCEPT !.boot = "done"]]
    /\ inbox = [n \in Engines |-> {m \in Inbox : m.to \in {n, Everyone}}]
    /\ sent = Inbox
    /\ lost = {}
    /\ restarts = 0

(* Engine n moves to state s, sends the messages out, and has taken those  *)
(* in done from the ones in flight to it.                                  *)
Step(n, s, out, done) ==
    /\ node' = [node EXCEPT ![n] = s]
    /\ sent' = sent \cup out
    /\ inbox' = [i \in Engines |->
            IF i = n THEN inbox[i] \ done
            ELSE inbox[i] \cup {m \in out : m.to \in {i, Everyone}}]

Idle(n) == node[n].stage = "idle"               \* m_mutex is free
WorkerIdle(n) == Idle(n) /\ ~node[n].resetDue   \* and the worker is in its loop

-----------------------------------------------------------------------------
(* Validity of requests *)

hasConsensused(s, r) ==
    r.height < s.consNum \/ (r.height = s.consNum /\ r.view < s.view)

isFuturePrepare(s, p) ==
    p.height > s.consNum \/ (p.height = s.consNum /\ p.view > s.view)

isHashSavedAfterCommit(s, p) ==
    p.height = s.committed.height => RawHash(p) = RawHash(s.committed)

(* Mutant of Acceptable: the lock is not looked at. *)
AcceptableUnlocked(s, p) == ~isExistPrepare(s, p) /\ ~hasConsensused(s, p)

(* isValidPrepare up to the test for a future proposal. *)
Acceptable(s, p) ==
    /\ ~isExistPrepare(s, p)
    /\ ~hasConsensused(s, p)
    /\ p.block \in EmptyBlocks \/ isHashSavedAfterCommit(s, p)

(* checkBlockValid and the execution of the block succeed. *)
Executes(s, p) == p.height = Number(s) + 1 /\ p.block \notin BadBlocks

(* The conditions under which checkAndCommit and checkAndSave go on. *)
SignReqEnough(s) ==
    /\ getSigCacheSize(s, HashOf(s.prepare), minValidNodes) = minValidNodes
    /\ s.prepare.view = s.view
CommitReqEnough(s) ==
    /\ getSigCacheSize(s, HashOf(s.prepare), minValidNodes) >= minValidNodes
    /\ getCommitCacheSize(s, HashOf(s.prepare)) >= minValidNodes
    /\ s.prepare.view = s.view
    /\ s.prepare.height > highestNumber(s)

BeforeCommit(s) == [s EXCEPT !.stage = IF SignReqEnough(s) THEN "commit" ELSE "idle"]
BeforeSave(s) == [s EXCEPT !.stage = IF CommitReqEnough(s) THEN "save" ELSE "idle"]

-----------------------------------------------------------------------------
(* Proposals *)

Valid(s, p) == Acceptable(s, p) /\ ~isFuturePrepare(s, p) /\ p.idx = Leader(s)

(* execBlock reaches notifySealing, and n leads at the next height. *)
Notifies(n, s, p) == p.idx # n /\ NextLeader(s) = n /\ p.height = Number(s) + 1

(* resetBlockForNextLeader waits for x_sealing, which the sealer thread    *)
(* holds while it waits for m_mutex.                                       *)
Blocked(n, s, p) == p.block \notin EmptyBlocks /\ Notifies(n, s, p) /\ s.sealer = "seal"

Signs(n, s, p) ==
    Valid(s, p) /\ p.block \notin EmptyBlocks /\ Executes(s, p) /\ ~Blocked(n, s, p)

SignMsg(n, p) == Message("sign", n, p.view, p.height, p.block, Everyone)

(* execPrepareAndGenerateSignMsg.  Of an empty block only the raw proposal *)
(* is kept; the next leader of any other starts to seal its successor.     *)
execPrepare(n, s, p) ==
    LET r == addRawPrepare(s, p)
        e == IF Notifies(n, s, p)
             THEN [r EXCEPT !.notifyNextLeaderSeal = TRUE,
                            !.sealing = [number |-> Number(s) + 2, sealed |-> FALSE]]
             ELSE r
        signed == [addPrepareReq(e, p) EXCEPT
                      !.signs = addReq(@, HashOf(p), VoteOf(SignMsg(n, p), FALSE))]
    IN  IF p.block \in EmptyBlocks THEN r
        ELSE IF Blocked(n, s, p) THEN [r EXCEPT !.stage = "blocked"]
        ELSE IF Executes(s, p) THEN BeforeCommit(signed)
        ELSE e

handlePrepareMsg(n, s, p) ==
    IF Valid(s, p) THEN execPrepare(n, s, p)
    ELSE IF Acceptable(s, p) /\ isFuturePrepare(s, p) THEN addFuturePrepareCache(s, p)
    ELSE s

(* What handling p makes n broadcast, and whether it makes n forget a lock *)
(* that is on disk and not read yet.                                       *)
SignsOn(n, s, p) == IF Signs(n, s, p) THEN {SignMsg(n, p)} ELSE {}
LostBy(n, s, p) ==
    IF Signs(n, s, p) /\ s.boot = "reload" /\ s.backup.height = p.height /\ s.backup.block # p.block
    THEN {n} ELSE {}

HandlePrepareMsg(n, m, copy) ==
    LET s == node[n]
        p == PrepareOf(m)
    IN  /\ WorkerIdle(n)
        /\ m.type = "prepare"
        /\ Step(n, handlePrepareMsg(n, s, p), SignsOn(n, s, p), IF Forwarding THEN {} ELSE {m})
        /\ lost' = lost \cup LostBy(n, s, p)
        /\ UNCHANGED restarts

(* handleFutureBlock: the time of a cached proposal has come.  It is gone  *)
(* afterwards, also if it is refused because blocks are being synced.      *)
HandleFutureBlock(n, syncing) ==
    LET s == node[n]
    IN  /\ WorkerIdle(n)
        /\ \E p \in s.future :
              LET r == IF syncing THEN s ELSE handlePrepareMsg(n, s, p)
              IN  /\ p.height = s.consNum
                  /\ p.view = s.view
                  /\ Step(n, [r EXCEPT !.future = {q \in @ : q.height # p.height}],
                          IF syncing THEN {} ELSE SignsOn(n, s, p), {})
                  /\ lost' = IF syncing THEN lost ELSE lost \cup LostBy(n, s, p)
        /\ UNCHANGED restarts

-----------------------------------------------------------------------------
(* The sealer thread.  It decides without m_mutex whether to propose, and  *)
(* takes the mutex to do so; the engine may have moved on in between.      *)

SealerRuns(n) == node[n].boot = "done" /\ node[n].sealer = "idle" /\ Idle(n)

(* shouldSeal: the leader seals, unless it holds a lock; so does the next  *)
(* leader, once it has been notified.                                      *)
ShouldSeal(n) ==
    LET s == node[n]
    IN  /\ SealerRuns(n)
        /\ ~s.sealing.sealed
        /\ \/ Leader(s) = n /\ s.committed.height # s.consNum
           \/ Leader(s) \notin {-1, n} /\ s.notifyNextLeaderSeal /\ NextLeader(s) = n
        /\ node' = [node EXCEPT ![n].sealer = "check"]
        /\ UNCHANGED <<inbox, sent, lost, restarts>>

(* The rest of doWork, with x_sealing: there are enough transactions,      *)
(* shouldHandleBlock holds and setBlock fills in the header ...            *)
HandleBlock(n) ==
    LET s == node[n]
    IN  /\ s.sealer = "check"
        /\ Leader(s) = n
        /\ s.sealing.number = Number(s) + 1
        /\ s.sealing.number <= MaxHeight
        /\ node' = [node EXCEPT ![n].sealer = "seal", ![n].sealing.sealed = TRUE]
        /\ UNCHANGED <<inbox, sent, lost, restarts>>

(* ... or there is nothing to propose yet.                                 *)
DoWorkReturns(n) ==
    /\ node[n].sealer = "check"
    /\ node' = [node EXCEPT ![n].sealer = "idle"]
    /\ UNCHANGED <<inbox, sent, lost, restarts>>

(* A proposal of height h and the current view, sent before it is handled. *)
Propose(n, s, h, b, syncing) ==
    LET p == [height |-> h, view |-> s.view, idx |-> n, block |-> b]
        msg == Message("prepare", n, s.view, h, b, Everyone)
        r == IF syncing THEN s ELSE handlePrepareMsg(n, s, p)
    IN  /\ Step(n, [r EXCEPT !.sealer = "idle"],
                {msg} \cup IF syncing THEN {} ELSE SignsOn(n, s, p), {})
        /\ UNCHANGED <<lost, restarts>>

(* generatePrepare.  The head of the chain may have grown before setBlock  *)
(* read it.                                                                *)
GeneratePrepare(n, b, syncing) ==
    LET s == [node[n] EXCEPT !.notifyNextLeaderSeal = FALSE]
    IN  /\ Idle(n)
        /\ s.sealer = "seal"
        /\ b \notin EmptyBlocks
        /\ \E h \in s.sealing.number .. Number(s) + 1 :
              h <= MaxHeight /\ Propose(n, [s EXCEPT !.sealing.number = h], h, b, syncing)

(* An empty block is broadcast but not handled; the leader steps down and  *)
(* handleBlock clears the sealing block.                                   *)
GenerateEmpty(n, b) ==
    LET s == node[n]
    IN  /\ Idle(n)
        /\ s.sealer = "seal"
        /\ b \in EmptyBlocks
        /\ \E h \in s.sealing.number .. Number(s) + 1 :
              /\ h <= MaxHeight
              /\ Step(n, [s EXCEPT !.sealer = "idle", !.notifyNextLeaderSeal = FALSE,
                                   !.leaderFailed = TRUE, !.sealing = NewSealing(s)],
                      {Message("prepare", n, s.view, h, b, Everyone)}, {})
        /\ UNCHANGED <<lost, restarts>>

(* Mutant of MustRehandle: the comparison of the raw proposal is reversed. *)
MustRehandleReversed(s) == s.committed.height = s.consNum /\ s.raw.height = s.consNum

(* The lock is of the current height, and no proposal of it has come in    *)
(* since the last view change cleared the raw one.                         *)
MustRehandle(s) == s.committed.height = s.consNum /\ s.raw.height # s.consNum

(* shouldSeal finds that the leader must propose its locked block again.   *)
ShouldRehandle(n) ==
    LET s == node[n]
    IN  /\ SealerRuns(n)
        /\ ~s.sealing.sealed
        /\ Leader(s) = n
        /\ MustRehandle(s)
        /\ node' = [node EXCEPT ![n].sealer = "rehandle"]
        /\ UNCHANGED <<inbox, sent, lost, restarts>>

RehandleCommitedPrepareCache(n, syncing) ==
    LET s == node[n]
    IN  /\ Idle(n)
        /\ s.sealer = "rehandle"
        /\ Propose(n, s, s.committed.height, s.committed.block, syncing)

-----------------------------------------------------------------------------
(* Votes *)

(* A request on another block than the current proposal is a future one    *)
(* and is not checked any further; one on this block must be of its view.  *)
checkReq(s, m) ==
    IF HashOf(s.prepare) # Hash(m.height, m.block) THEN "FUTURE"
    ELSE IF s.prepare.view # m.view THEN "INVALID"
    ELSE "VALID"

(* Mutant of handleSignMsg: requests ahead of their proposal are dropped. *)
handleSignMsgInTime(s, m) ==
    LET hash == Hash(m.height, m.block)
    IN  IF isExistReq(s.signs, hash, m.idx) \/ hasConsensused(s, m) \/ checkReq(s, m) # "VALID"
        THEN s
        ELSE BeforeCommit([s EXCEPT !.signs = addReq(@, hash, VoteOf(m, FALSE))])

(* isValidSignReq, handleSignMsg: a future request waits in the cache, a   *)
(* valid one counts at once.                                               *)
handleSignMsg(s, m) ==
    LET hash == Hash(m.height, m.block)
        future == checkReq(s, m) = "FUTURE"
        added == [s EXCEPT !.signs = addReq(@, hash, VoteOf(m, future))]
    IN  IF isExistReq(s.signs, hash, m.idx) \/ hasConsensused(s, m) \/ checkReq(s, m) = "INVALID"
        THEN s
        ELSE IF future THEN added ELSE BeforeCommit(added)

HandleSignMsg(n, m, copy) ==
    /\ WorkerIdle(n)
    /\ m.type = "sign"
    /\ Step(n, handleSignMsg(node[n], m), {}, IF Forwarding THEN {} ELSE {m})
    /\ UNCHANGED <<lost, restarts>>

handleCommitMsg(s, m) ==
    LET hash == Hash(m.height, m.block)
        future == checkReq(s, m) = "FUTURE"
        added == [s EXCEPT !.commits = addReq(@, hash, VoteOf(m, future))]
    IN  IF isExistReq(s.commits, hash, m.idx) \/ hasConsensused(s, m) \/ checkReq(s, m) = "INVALID"
        THEN s
        ELSE IF future THEN added ELSE BeforeSave(added)

HandleCommitMsg(n, m, copy) ==
    /\ WorkerIdle(n)
    /\ m.type = "commit"
    /\ Step(n, handleCommitMsg(node[n], m), {}, IF Forwarding THEN {} ELSE {m})
    /\ UNCHANGED <<lost, restarts>>

(* Mutant of CheckAndCommit: checkAndSave is left to the next CommitReq. *)
CheckAndCommitOnly(n) ==
    LET s == node[n]
        p == s.prepare
        msg == Message("commit", n, p.view, p.height, p.block, Everyone)
    IN  /\ s.stage = "commit"
        /\ Step(n, [updateCommittedPrepare(s) EXCEPT
                      !.stage = "idle", !.queued = TRUE,
                      !.commits = addReq(@, HashOf(p), VoteOf(msg, FALSE))],
                {msg}, {})
        /\ UNCHANGED <<lost, restarts>>

(* checkAndCommit, once enough SignReqs are there: take the lock, have it  *)
(* written, vote.                                                          *)
CheckAndCommit(n) ==
    LET s == node[n]
        p == s.prepare
        msg == Message("commit", n, p.view, p.height, p.block, Everyone)
    IN  /\ s.stage = "commit"
        /\ Step(n, BeforeSave([updateCommittedPrepare(s) EXCEPT
                      !.queued = TRUE,
                      !.commits = addReq(@, HashOf(p), VoteOf(msg, FALSE))]),
                {msg}, {})
        /\ UNCHANGED <<lost, restarts>>

(* checkAndSave, once enough CommitReqs are there; commitBlock refuses a   *)
(* block whose number is not the next one.                                 *)
CheckAndSave(n) ==
    LET s == node[n]
        p == s.prepare
        done == [s EXCEPT !.stage = "idle"]
    IN  /\ s.stage = "save"
        /\ node' = [node EXCEPT ![n] =
              IF p.height = Number(s) + 1
              THEN [delCache(done, p.height, p.block) EXCEPT
                        !.chain = Append(@, p.block), !.readyDue = TRUE]
              ELSE done]
        /\ UNCHANGED <<inbox, sent, lost, restarts>>

-----------------------------------------------------------------------------
(* View changes *)

ViewChangeMsg(n, s, to) ==
    Message("viewchange", n, s.toView, highestNumber(s), highestBlock(s), to)

(* checkAndChangeView: the requests of the others and the engine's own,    *)
(* which is not in the cache, make a quorum.                               *)
checkAndChangeView(s) ==
    IF getViewChangeSize(s, s.toView) >= minValidNodes - 1
    THEN triggerViewChange(
            [s EXCEPT !.leaderFailed = FALSE, !.view = s.toView, !.notifyNextLeaderSeal = FALSE],
            s.toView, Number(s))
    ELSE s

(* isValidViewChangeReq up to the answer to a sealer that lags behind,     *)
(* which is given on the original of its request only.                     *)
CurrentViewChange(s, m) ==
    ~isExistViewChange(s, m) /\ m.height >= highestNumber(s)
CatchesUp(s, m, copy) == CurrentViewChange(s, m) /\ m.view + 1 < s.toView /\ ~copy

isValidViewChangeReq(s, m) ==
    /\ CurrentViewChange(s, m)
    /\ m.view > s.view
    /\ m.height = highestNumber(s) => m.block = highestBlock(s)
    /\ m.height <= Number(s)

ViewChangeOf(m) == [idx |-> m.idx, view |-> m.view, height |-> m.height, block |-> m.block]

(* handleViewChangeMsg on a valid request: the set of possible results.    *)
AfterViewChange(s, m) ==
    LET r == addViewChangeReq(s, ViewChangeOf(m), Number(s))
        min_views == canTriggerViewChange(r, m_f, r.toView, highestNumber(r), r.consNum)
    IN  IF m.view = s.toView THEN {checkAndChangeView(r)}
        ELSE IF min_views = {} THEN {r}
        ELSE {[r EXCEPT !.toView = v - 1] : v \in min_views}

HandleViewChangeMsg(n, m, copy) ==
    LET s == node[n]
        told == IF CatchesUp(s, m, copy)
                THEN [s EXCEPT !.latest = @ \ From(@, m.idx)] ELSE s
    IN  /\ WorkerIdle(n)
        /\ m.type = "viewchange"
        /\ \E r \in IF isValidViewChangeReq(s, m) THEN AfterViewChange(told, m) ELSE {told} :
              Step(n, r, IF CatchesUp(s, m, copy) THEN {ViewChangeMsg(n, s, m.idx)} ELSE {},
                   IF Forwarding THEN {} ELSE {m})
        /\ UNCHANGED <<lost, restarts>>

(* checkTimeout, after any delay; the callback m_onViewChange, which takes *)
(* x_sealing, is made once the mutex is free again.                        *)
CheckTimeout(n) ==
    LET s == [node[n] EXCEPT !.toView = @ + 1, !.leaderFailed = TRUE, !.resetDue = TRUE]
        r == removeInvalidViewChange(s, s.toView, highestNumber(s), highestBlock(s))
    IN  /\ WorkerIdle(n)
        /\ s.toView <= MaxView /\ s.consNum <= MaxHeight
        /\ Step(n, checkAndChangeView(r), {ViewChangeMsg(n, r, Everyone)}, {})
        /\ UNCHANGED <<lost, restarts>>

(* Mutant of SealedForNow: no sealed block is spared. *)
SealedForNowNever(n, s) == FALSE

(* shouldHandleBlock for a block that is sealed already. *)
SealedForNow(n, s) == s.sealing.sealed /\ s.sealing.number = Number(s) + 1 /\ Leader(s) = n

(* Mutant of ResetBlockForViewChange: x_sealing is not taken. *)
ResetBlockUnlocked(n) ==
    LET s == [node[n] EXCEPT !.resetDue = FALSE]
    IN  /\ Idle(n)
        /\ node[n].resetDue
        /\ node' = [node EXCEPT ![n] =
              IF SealedForNow(n, s) THEN s ELSE [s EXCEPT !.sealing = NewSealing(s)]]
        /\ UNCHANGED <<inbox, sent, lost, restarts>>

ResetBlockForViewChange(n) ==
    LET s == [node[n] EXCEPT !.resetDue = FALSE]
    IN  /\ Idle(n)
        /\ node[n].resetDue
        /\ s.sealer # "seal"
        /\ node' = [node EXCEPT ![n] =
              IF SealedForNow(n, s) THEN s ELSE [s EXCEPT !.sealing = NewSealing(s)]]
        /\ UNCHANGED <<inbox, sent, lost, restarts>>

-----------------------------------------------------------------------------
(* The chain and the head of it that the engine knows *)

(* reportBlock, for the head of the chain. *)
reportBlock(s) ==
    LET head == s.chain[Number(s)]
        new == [s EXCEPT !.consNum = Number(s) + 1, !.view = 0, !.toView = 0, !.leaderFailed = FALSE]
    IN  IF highestNumber(s) < Number(s)
        THEN delCache(delInvalidViewChange(new, Number(s), head), Number(s), head)
        ELSE s

(* Mutant of shouldResetSealing: a block that is sealed already and still  *)
(* to be handled is not spared.                                            *)
shouldResetSealingAnyway(n, s) ==
    /\ s.sealing.sealed \/ s.sealing.number <= Number(s)
    /\ Leader(s) = n

shouldResetSealing(n, s) ==
    /\ ~SealedForNow(n, s)
    /\ s.sealing.sealed \/ s.sealing.number <= Number(s)
    /\ Leader(s) = n

ReportNewBlock(n) ==
    LET s == reportBlock([node[n] EXCEPT !.syncBlock = FALSE])
    IN  /\ SealerRuns(n)
        /\ node[n].syncBlock
        /\ node' = [node EXCEPT ![n] =
              IF shouldResetSealing(n, s) THEN [s EXCEPT !.sealing = NewSealing(s)] ELSE s]
        /\ UNCHANGED <<inbox, sent, lost, restarts>>

(* The sync thread stores a block; checkBlock has found CommitReqs of a    *)
(* quorum in it.                                                           *)
SyncBlock(n, b) ==
    LET h == Number(node[n]) + 1
    IN  /\ h <= MaxHeight
        /\ {m.idx : m \in {m \in sent : m.type = "commit" /\ m.height = h /\ m.block = b}} \in Quorums
        /\ node' = [node EXCEPT ![n].chain = Append(@, b), ![n].readyDue = TRUE]
        /\ UNCHANGED <<inbox, sent, lost, restarts>>

(* m_onReady, called by the thread that stored a block: onBlockChanged.    *)
OnBlockChanged(n) ==
    /\ node[n].readyDue
    /\ node' = [node EXCEPT ![n].readyDue = FALSE, ![n].syncBlock = TRUE]
    /\ UNCHANGED <<inbox, sent, lost, restarts>>

CollectGarbage(n) ==
    /\ WorkerIdle(n)
    /\ node' = [node EXCEPT ![n] = collectGarbage(@, highestNumber(@), highestBlock(@))]
    /\ UNCHANGED <<inbox, sent, lost, restarts>>

-----------------------------------------------------------------------------
(* The backup of the lock, and restarts *)

(* backupMsg: the thread pool writes the lock of that moment; nothing is   *)
(* written before the database is open.                                    *)
BackupMsg(n) ==
    LET s == node[n]
    IN  /\ s.queued
        /\ node' = [node EXCEPT ![n].queued = FALSE,
                                ![n].backup = IF s.boot = "reload" THEN @ ELSE s.committed]
        /\ UNCHANGED <<inbox, sent, lost, restarts>>

SameLock(p, q) == p.height = q.height /\ p.block = q.block

(* History: the lock protects a block that is not stored yet and is not on *)
(* disk.                                                                   *)
Forgets(s) ==
    s.committed # NoPrepare /\ ~SameLock(s.committed, s.backup) /\ s.committed.height > Number(s)

(* The process dies and starts again.  The worker thread handles messages  *)
(* from now on, whatever boot is.                                          *)
Restart(n) ==
    /\ n \in Crashers
    /\ restarts < MaxRestarts
    /\ restarts' = restarts + 1
    /\ lost' = IF Forgets(node[n]) THEN lost \cup {n} ELSE lost
    /\ node' = [node EXCEPT ![n] = Started(@.chain, @.backup)]
    /\ UNCHANGED <<inbox, sent>>

(* Mutant of ReloadMsg: the backup is not read. *)
ReloadMsgIgnored(n) ==
    /\ node[n].boot = "reload"
    /\ node' = [node EXCEPT ![n].boot = "report"]
    /\ UNCHANGED <<inbox, sent, lost, restarts>>

(* initBackupDB: the backup, if there is one, becomes the lock.            *)
ReloadMsg(n) ==
    LET s == node[n]
    IN  /\ s.boot = "reload"
        /\ node' = [node EXCEPT ![n].boot = "report",
                                ![n].committed = IF s.backup = NoPrepare THEN @ ELSE s.backup]
        /\ lost' = IF s.backup # NoPrepare /\ Forgets(s) THEN lost \cup {n} ELSE lost
        /\ UNCHANGED <<inbox, sent, restarts>>

(* Sealer::start resets the sealing block and reports the head ...         *)
SealerReports(n) ==
    LET s == reportBlock([node[n] EXCEPT !.boot = "flag"])
    IN  /\ Idle(n)
        /\ node[n].boot = "report"
        /\ node' = [node EXCEPT ![n] = [s EXCEPT !.sealing = NewSealing(s)]]
        /\ UNCHANGED <<inbox, sent, lost, restarts>>

(* ... and then clears the flag that says there is a head to report.       *)
SealerStarts(n) ==
    /\ node[n].boot = "flag"
    /\ node' = [node EXCEPT ![n].boot = "done", ![n].syncBlock = FALSE]
    /\ UNCHANGED <<inbox, sent, lost, restarts>>

-----------------------------------------------------------------------------
Receive(n, m, copy) ==
    \/ HandlePrepareMsg(n, m, copy)
    \/ HandleSignMsg(n, m, copy)
    \/ HandleCommitMsg(n, m, copy)
    \/ HandleViewChangeMsg(n, m, copy)

Next ==
    \E n \in Engines :
        \/ \E m \in inbox[n] : Receive(n, m, FALSE) \/ (Forwarding /\ Receive(n, m, TRUE))
        \/ \E syncing \in {FALSE, Syncing} : \/ HandleFutureBlock(n, syncing)
                                             \/ RehandleCommitedPrepareCache(n, syncing)
                                             \/ \E b \in Blocks : GeneratePrepare(n, b, syncing)
        \/ \E b \in Blocks : GenerateEmpty(n, b) \/ SyncBlock(n, b)
        \/ ShouldSeal(n) \/ HandleBlock(n) \/ DoWorkReturns(n) \/ ShouldRehandle(n)
        \/ CheckAndCommit(n) \/ CheckAndSave(n)
        \/ CheckTimeout(n) \/ ResetBlockForViewChange(n)
        \/ OnBlockChanged(n) \/ ReportNewBlock(n) \/ CollectGarbage(n)
        \/ BackupMsg(n) \/ Restart(n)
        \/ ReloadMsg(n) \/ SealerReports(n) \/ SealerStarts(n)

Spec == Init /\ [][Next]_vars

(* The sealer thread goes on: it finds enough transactions, or waited long *)
(* enough, in some turn, and what it began it ends; so does the callback   *)
(* that resets its block.                                                  *)
SealerFairness ==
    \A n \in Engines :
        /\ WF_vars(ResetBlockForViewChange(n))
        /\ WF_vars(ShouldSeal(n)) /\ SF_vars(HandleBlock(n)) /\ WF_vars(DoWorkReturns(n))
        /\ WF_vars(\E b \in Blocks : GeneratePrepare(n, b, FALSE))
        /\ WF_vars(ShouldRehandle(n)) /\ WF_vars(RehandleCommitedPrepareCache(n, FALSE))

(* So do the others.  The worker takes the messages from its queue and     *)
(* looks at the cached proposal; a handler ends; the storing thread calls  *)
(* back; the sealer thread begins every turn with reportNewBlock.  Nothing *)
(* is assumed of timeouts, restarts, block sync and garbage collection.    *)
Fairness ==
    /\ SealerFairness
    /\ \A n \in Engines :
        /\ WF_vars(\E m \in inbox[n] : Receive(n, m, FALSE))
        /\ WF_vars(HandleFutureBlock(n, FALSE))
        /\ WF_vars(CheckAndCommit(n)) /\ WF_vars(CheckAndSave(n))
        /\ WF_vars(OnBlockChanged(n)) /\ SF_vars(ReportNewBlock(n))
        /\ WF_vars(ReloadMsg(n)) /\ WF_vars(SealerReports(n)) /\ WF_vars(SealerStarts(n))

SealerSpec == Spec /\ SealerFairness
FairSpec == Spec /\ Fairness

-----------------------------------------------------------------------------
Proposal == [height : 1 .. MaxHeight, view : 0 .. MaxView, idx : Nodes, block : Blocks]
Vote == [idx : Nodes, view : 0 .. MaxView, height : 1 .. MaxHeight, block : Blocks, isFuture : BOOLEAN]
ViewChange ==
    [idx : Nodes, view : 0 .. MaxView, height : 0 .. MaxHeight, block : Blocks \cup {NoBlock}]

(* The shape of an engine's state, with the bounds the code keeps: one     *)
(* vote per sealer and block, one latest view change per sealer.           *)
TypeOK ==
    /\ \A n \in Engines : LET s == node[n] IN
        /\ s.chain \in Seq(Blocks \ EmptyBlocks)
        /\ s.consNum \in 1 .. Number(s) + 1
        /\ s.view \in 0 .. MaxView /\ s.toView \in s.view .. MaxView
        /\ {s.raw, s.prepare, s.committed, s.backup} \subseteq Proposal \cup {NoPrepare}
        /\ \A map \in {s.signs, s.commits} : \A k \in DOMAIN map :
              /\ map[k] \subseteq Vote
              /\ \A r \in map[k] : HashOf(r) = k /\ From(map[k], r.idx) = {r}
        /\ \A v \in DOMAIN s.recv :
              s.recv[v] \subseteq {r \in ViewChange : r.view = v /\ r.idx # n}
        /\ s.latest \subseteq ViewChange /\ \A r \in s.latest : From(s.latest, r.idx) = {r}
        /\ s.future \subseteq Proposal
        /\ s.stage \in {"idle", "commit", "save", "blocked"}
        /\ s.sealer \in {"idle", "check", "seal", "rehandle"}
        /\ s.boot \in {"reload", "report", "flag", "done"}
        /\ s.sealing \in [number : 1 .. MaxHeight + 2, sealed : BOOLEAN]
        /\ {s.leaderFailed, s.notifyNextLeaderSeal, s.resetDue, s.readyDue, s.syncBlock, s.queued}
              \subseteq BOOLEAN
    /\ \A n \in Engines : inbox[n] \subseteq sent
    /\ lost \subseteq Engines

(* No quorum is overlooked: between two handlers, a proposal of the        *)
(* current view with a quorum of cached SignReqs has been voted for, and   *)
(* with a quorum of CommitReqs on top of it, it has been stored.  Requests *)
(* that arrive before their proposal are not acted on when they arrive,    *)
(* and checkAndCommit acts at exactly minValidNodes requests.              *)
NoQuorumOverlooked ==
    \A n \in Engines : LET s == node[n]
                           hash == HashOf(s.prepare)
                       IN  s.stage = "idle" /\ s.prepare # NoPrepare /\ s.prepare.view = s.view
        /\ Cardinality(At(s.signs, hash)) >= minValidNodes =>
            /\ isExistReq(s.commits, hash, n)
            /\ Cardinality(At(s.commits, hash)) >= minValidNodes => s.prepare.height # Number(s) + 1

(* What is counted is what was proposed: the cached votes on the current   *)
(* proposal are all of its view, and the raw proposal that checkAndCommit  *)
(* locks is the one that was executed and voted on.                        *)
VotesMatchProposal ==
    \A n \in Engines : LET s == node[n] IN s.prepare # NoPrepare =>
        /\ s.raw = s.prepare
        /\ \A r \in At(s.signs, HashOf(s.prepare)) \cup At(s.commits, HashOf(s.prepare)) :
              r.view = s.prepare.view

(* A sealer that does not restart proposes at most one block for a height  *)
(* and view: the comment in resetBlockForViewChange calls a second one the *)
(* result to avoid, and shouldResetSealing guards against another way to   *)
(* get there.                                                              *)
OneProposalPerView ==
    restarts = 0 => \A p, q \in {m \in sent : m.type = "prepare" /\ m.idx \in Engines} :
        p.idx = q.idx /\ p.height = q.height /\ p.view = q.view => p.block = q.block

(* The cache of future proposals keeps within its size and to one proposal *)
(* per height, and none of them is for a height or view that is over: such *)
(* a proposal is never taken out again by handleFutureBlock and would hold *)
(* a place in the full cache against proposals that are still to come.     *)
FutureCacheSound ==
    \A n \in Engines : LET s == node[n] IN
        /\ Cardinality(s.future) <= m_maxFuturePrepareCacheSize
        /\ \A p, q \in s.future : p.height = q.height => p = q
        /\ \A p \in s.future : ~hasConsensused(s, p)

(* Within a height an engine never returns to an earlier view.             *)
ViewsGrow ==
    [][\A n \in Engines : node'[n].consNum = node[n].consNum /\ restarts' = restarts =>
        node'[n].view >= node[n].view /\ node'[n].toView >= node[n].toView]_vars

(* An engine enters a view only if a quorum, itself included, asked for    *)
(* that view at its height or above, and on its head block: requests left  *)
(* from before the last block do not count.                                *)
ViewChangeBacked ==
    [][\A n \in Engines : node'[n].view > node[n].view =>
        LET s == node'[n]
        IN  Cardinality({m.idx : m \in {m \in sent' :
                /\ m.type = "viewchange" /\ m.view = s.view
                /\ \/ m.height > highestNumber(s)
                   \/ m.height = highestNumber(s) /\ m.block = highestBlock(s)}}
                \cup {n}) >= minValidNodes]_vars

(* A leader proposes a block in its view, or stops to lead in it, also if  *)
(* it holds a lock: shouldSeal then refuses new blocks, and the locked one *)
(* is proposed again only once the view change has cleared the proposal of *)
(* the view before and the callback the block sealed for it.               *)
LeaderProposes ==
    \A n \in Engines, v \in 0 .. MaxView :
        LET leads == Leader(node[n]) = n /\ node[n].view = v
        IN  leads ~> ~leads \/ \E m \in sent :
                m.type = "prepare" /\ m.idx = n /\ m.height = node[n].consNum /\ m.view = v

(* If no round times out, every height gets its block: whatever the order  *)
(* in which requests, proposals and the reports of stored blocks come in,  *)
(* no engine waits for ever.                                               *)
Progress == <>(\A n \in Engines : node[n].consNum = MaxHeight + 1)

(* reportNewBlock, "after a block has been committed, the callback sets    *)
(* m_syncBlock, this function reports the latest block to the engine": the *)
(* engine learns of every block that is stored.                            *)
StoredIsReported ==
    \A n \in Engines : \A h \in 1 .. MaxHeight :
        Number(node[n]) >= h ~> node[n].consNum > h

(* triggerViewChange is to "only reserve futurePrepareReq exists in        *)
(* commitReqCache": those for whose block a CommitReq is cached are kept.  *)
CommittedFutureKept ==
    [][\A n \in Engines : node'[n].view > node[n].view =>
        {p \in node[n].future : At(node'[n].commits, HashOf(p)) # {}} \subseteq node'[n].future]_vars

(* A request of a later view is taken for a future request "to ensure that *)
(* the signReq can reach to consensus even if the view has been changed":  *)
(* once the engine has executed the proposal of that view, every SignReq   *)
(* for it that it has handled is in its cache.                             *)
EarlySignsCount ==
    \A n \in Engines : LET s == node[n] IN
        s.stage = "idle" /\ s.prepare # NoPrepare /\ s.prepare.view = s.view =>
            \A m \in sent \ inbox[n] :
                m.type = "sign" /\ m.view = s.view /\ Hash(m.height, m.block) = HashOf(s.prepare)
                    => isExistReq(s.signs, HashOf(s.prepare), m.idx)

(* The worker and the sealer thread of an engine never wait for each       *)
(* other's lock: execBlock skips notifySealing for the engine's own        *)
(* proposals "to in case of dead-lock when generate local prepare and      *)
(* notifySealing".                                                         *)
NoThreadDeadlock == \A n \in Engines : node[n].stage # "blocked"

-----------------------------------------------------------------------------
(* When all sealers run the code, the engines implement the locking rule.  *)
LockOf(p) == [height |-> p.height, block |-> p.block]
VotesSent(type) ==
    {[node |-> m.idx, height |-> m.height, view |-> m.view, block |-> m.block] :
        m \in {m \in sent : m.type = type}}

Locking == INSTANCE PBFTLocking WITH
    Reach <- [n \in Nodes |-> Blocks],
    chain <- [n \in Engines |-> node[n].chain],
    next <- [n \in Engines |-> node[n].consNum],
    view <- [n \in Engines |-> node[n].view],
    prepare <- [n \in Engines |-> [height |-> node[n].prepare.height, view |-> node[n].prepare.view,
                                   block |-> node[n].prepare.block]],
    lock <- [n \in Engines |-> LockOf(node[n].committed)],
    backup <- [n \in Engines |-> LockOf(node[n].backup)],
    loaded <- [n \in Engines |-> node[n].boot # "reload"],
    signs <- VotesSent("sign"),
    commits <- VotesSent("commit")

(* Every step of an engine is a step of the locking rule or leaves its     *)
(* state alone, so what is proved of PBFTLocking holds of the engines.     *)
ImplementsLocking == Locking!Spec

=============================================================================
