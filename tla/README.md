# TLA+ specifications of FISCO BCOS consensus

These modules specify the PBFT consensus of the node in `src/`: the engine, its
request caches, the sealer thread that feeds it, the asynchronous backup of its
lock, and restarts. TLC checks them on small groups; TLAPS proves that the
locking rule of the protocol keeps a chain from forking, for every group size.
`PROJECT.json` holds the list of components, the map from definitions to source
lines, the runs, the hazards and the theorems.

    tlc -workers 2 -config MCEngineViews.cfg MCPBFTEngine     # one run
    tlapm PBFTLockingProofs.tla                               # all its proofs

## 1. The system

A group of `m_nodeNum` sealers agrees on one block per height. The threads of a
node that matter here, with the locks they use:

| thread | code | what it does |
|---|---|---|
| worker | `PBFTEngine::workLoop` | under `m_mutex`: handles messages, cached future proposals, timeouts, garbage collection |
| sealer | `Sealer::doWork`, `PBFTSealer` | under `x_sealing`: reports new heads, decides to seal, proposes through the engine (`m_mutex`) |
| backup | `m_threadPool`, one thread | writes the locked prepare to the backup database |
| block sync | `SyncMaster` | stores blocks of other nodes, without `m_mutex` |
| start-up | `Ledger::startAll` | starts block sync, then the engine, then the sealer |

A round: the leader `(m_view + highest) % m_nodeNum` broadcasts a prepare request;
a sealer that accepts it executes the block and broadcasts a SignReq; with
`minValidNodes() = m_nodeNum - m_f` SignReqs it locks the proposal
(`m_committedPrepareCache`), has the lock written in the background, and broadcasts
a CommitReq; with as many CommitReqs it stores the block. The storing thread calls
back `onBlockChanged`, which sets `m_syncBlock`, and the sealer thread then tells the
engine (`reportBlock`), which goes to the next height and to view 0. A timeout makes
a sealer broadcast a ViewChangeReq for `m_toView`; a quorum of those changes the view.

### Inventory

*State*, *operations*, *what is hard*, *what should hold* for the parts of the
consensus core; the other parts follow in section 8.

| component | state | operations | hard behaviours | properties |
|---|---|---|---|---|
| `ConsensusEngineBase` | sealer list, `m_f` | `minValidNodes`, `checkBlockValid` | quorum arithmetic for every group size | quorums meet in more than `m_f` sealers (proved) |
| `PBFTReqCache` | raw, executed and committed prepare; sign, commit, view change and future caches | add, exist, size, `delCache`, `triggerViewChange`, `canTriggerViewChange`, `collectGarbage` | votes before their proposal; votes of old views on the same hash; two hashes per block; hash-map order | `NoQuorumOverlooked`, `VotesMatchProposal`, `TypeOK` |
| `PBFTEngine` | height, view, `m_toView`, `m_leaderFailed`, the caches | the four handlers, `checkAndCommit`, `checkAndSave`, `checkTimeout`, `checkAndChangeView`, `handleFutureBlock`, `reportBlock` | loss, duplication, reordering; block sync in the middle of a handler; timeouts against late votes | `Agreement`, `ImplementsLocking`, `ViewsGrow`, `ViewChangeBacked`, `Progress` |
| lock backup and restart | backup database, thread-pool queue | `backupMsg`, `reloadMsg`, `initPBFTEnv` | a crash between the vote and the write; messages handled before the reload | `Agreement`, `ImplementsLocking`, `BackupPreventsFork` |
| `Sealer`, `PBFTSealer` | sealing block, `m_syncBlock`, `m_notifyNextLeaderSeal` | `doWork`, `reportNewBlock`, `shouldSeal`, `handleBlock`, the two resets | decisions without the mutex; two locks taken in both orders; a flag cleared after it was set | `OneProposalPerView`, `NoThreadDeadlock`, `StoredIsReported` |

## 2. Modules

The specification has three layers, each shown to implement the one above it.

    PBFTVoting      what PBFT promises: votes, stored blocks           (theorem NoFork)
        ^  ImplementsVoting: proved, and checked by run refines
    PBFTLocking     the lock, its backup, restarts; all sealers        (theorem LockingNoFork)
        ^  ImplementsLocking: checked by runs pair and crash
    PBFTEngine      the engines with caches, leaders, view changes and threads
        uses PBFTReqCache (the caches) and ConsensusEngineBase (quorums)

- **`ConsensusEngineBase`**: `Nodes`, `m_nodeNum`, `m_f`, `minValidNodes`, `Quorums`.
- **`PBFTVoting`**: the abstract specification. `votes` are the CommitReqs ever sent,
  `stored` the blocks ever stored. A sealer votes for one block per height unless it
  has `lost` a vote; it stores what a quorum voted for.
- **`PBFTLocking`**: the rule that prevents forks, for all sealers at once. Messages are
  never withdrawn and may be read at any time, as often as the network likes, so loss,
  duplication and reordering are covered. The leader and the view-change protocol are
  abstracted: a sealer may sign any block its lock allows and go to any higher view.
- **`PBFTReqCache`**: the caches as pure operators on the engine's record.
- **`PBFTEngine`**: the code of the engine and of the sealer thread.
- **`QuorumProofs`, `PBFTVotingProofs`, `PBFTLockingProofs`**: lemmas and theorems.
- **`MCPBFTLocking`, `MCPBFTEngine`**: instances for TLC.

A definition named `X` preceded by one described as a "Mutant of X" has a deliberately
broken twin. The twins are used by no specification; each shows that a property notices
the mistake it describes (section 5).

### `PBFTLocking` and the code

| variable | code | | action | code |
|---|---|---|---|---|
| `chain` | the block chain on disk | | `ExecPrepare` | `isValidPrepare`, `execPrepareAndGenerateSignMsg` |
| `next` | `m_consensusBlockNumber` | | `CheckAndCommit` | `checkAndCommit` |
| `view` | `m_view` | | `CheckAndSave` | `checkAndSave` with `commitBlock` |
| `prepare` | `m_prepareCache` | | `SyncBlock` | `SyncMaster`, `checkBlock` |
| `lock` | `m_committedPrepareCache` | | `ReportBlock` | `reportBlock`, `resetConfig` |
| `backup` | the backup database | | `ChangeView` | `checkAndChangeView`, `triggerViewChange` |
| `loaded` | `reloadMsg` has run | | `DropPrepare` | `addRawPrepare` without a signature after it |
| `signs`, `commits` | all SignReqs, CommitReqs sent | | `BackupMsg` | `backupMsg` in the thread pool |
| `lost`, `restarts` | history | | `Restart`, `ReloadMsg` | `start`, `initPBFTEnv`; `reloadMsg` |

`lost` marks a sealer when a lock on a block that is not stored yet vanishes: in a restart
before the backup is written, when a proposal against the lock on disk is signed before
the backup is read, and when `reloadMsg` replaces a newer lock by an older backup.

### `PBFTEngine` and the code

`node[n]` is a record with one field per member of the engine (`consNum`, `view`, `toView`,
`leaderFailed`, `notifyNextLeaderSeal`, and the caches), of the sealer (`sealing`,
`syncBlock`), what is on disk (`chain`, `backup`), and where its threads are:

- `stage`: the handler that holds `m_mutex` is about to enter the body of `checkAndCommit`
  or `checkAndSave`, or is `"blocked"` on `x_sealing`. Handlers run under one mutex, so a
  handler is one step except at the points where another thread can act in between: before
  the lock and the vote, and before the block is stored. Block sync, the backup thread,
  callbacks and a crash do not wait for the mutex.
- `resetDue`: `checkTimeout` has released the mutex and owes the call `m_onViewChange`.
- `sealer`: the sealer thread has decided (`shouldSeal`) and not acted yet.
- `readyDue`: a block is stored and `onBlockChanged` not called yet.
- `queued`: a backup task is in the thread pool. One thread and one Boolean are enough:
  a task writes the lock of the moment it runs, so two queued tasks write the same.
- `boot`: how far the start-up is: `"reload"`, `"report"`, `"flag"`, `"done"`.

| action | code |
|---|---|
| `HandlePrepareMsg`, `HandleSignMsg`, `HandleCommitMsg`, `HandleViewChangeMsg` | the handlers of the same names, with their validity checks |
| `CheckAndCommit`, `CheckAndSave` | the bodies of `checkAndCommit`, `checkAndSave` |
| `HandleFutureBlock`, `CollectGarbage`, `CheckTimeout` | the other work of `workLoop` |
| `ResetBlockForViewChange` | `PBFTSealer::resetBlockForViewChange`, the callback of `checkTimeout` |
| `ShouldSeal`, `HandleBlock`, `DoWorkReturns` | `Sealer::doWork` up to `handleBlock` |
| `GeneratePrepare`, `GenerateEmpty` | `PBFTSealer::handleBlock` with `generatePrepare` |
| `ShouldRehandle`, `RehandleCommitedPrepareCache` | `PBFTEngine::shouldSeal` on a locked leader |
| `SyncBlock`, `OnBlockChanged`, `ReportNewBlock` | block sync; `m_onReady`; `Sealer::reportNewBlock` |
| `BackupMsg`, `Restart`, `ReloadMsg`, `SealerReports`, `SealerStarts` | `backupMsg`, the start-up sequence |

The sealers in `Engines` run this code; the constant `Inbox` is what the others ever send.
With `Engines = Nodes` and an empty inbox a run is about a whole group, with one engine and
a larger inbox it is about one node in an arbitrary order of deliveries.

## 3. Abstractions

What the modules leave out, and why the properties do not depend on it:

- Blocks are model values; a proposal and its executed block have different hashes
  (`RawHash`, `Hash`), because the code keys some caches by one and some by the other.
  Hashes are injective and signatures valid. All blocks of a height have the same parent,
  so the checks of the parent hash are left out.
- A signature covers the block hash only, not the view; a vote is therefore identified by
  block and sealer in the caches, as in the code.
- Messages are in flight to each receiver in a set: they are handled in any order or never.
  With `Forwarding`, a message stays in flight after it is handled, since copies forwarded
  with a TTL keep arriving; the answer to a lagging sealer is given on an original only, as
  `isValidViewChangeReq` compares the sender with the peer that delivered the request.
- `isSyncingHigherBlock` on a received message is a loss of that message. On the engine's own
  and on cached proposals, where the refusal has consequences, it is the parameter `syncing`.
- Timers: a timeout may happen whenever the worker is between two handlers.
- The empty-block shortcut (`fastViewChange`) is a state of its own (`leaderFailed` and the
  cleared sealing block); the timeout that follows is a `CheckTimeout` step.
- Reading the head and `reportBlock` are one step in `ReportNewBlock`; the head can only be
  newer, and `m_syncBlock` is set again for the newer one. The report of the head inside
  `initPBFTEnv` is part of `Restart`.
- The sealer list is constant. Adding and removing sealers is a system transaction.
- `src/libconsensus/pbft/PBFTSealer.h:116` declares `shouldShandleBlockeal`, a garbled
  `shouldSeal`; `PBFTEngine` models `shouldSeal` as the callers expect it.

Bounds: `MaxHeight`, `MaxView` and `MaxRestarts` cap the height, `m_toView` and the number of
restarts. `m_maxFuturePrepareCacheSize` is 2 instead of 10, and 1 in `views`, where the
proposal of a later view and one of the next height are in flight and the second to arrive
finds the cache full. A timeout is only taken while the next height is within `MaxHeight`.

## 4. Properties and runs

Times are with two workers. *Whole group*: all sealers run the code. *One engine*: the
messages of the other three are a constant, in every order of arrival.

| run | instance | states | checks |
|---|---|---|---|
| `locking` | 4 sealers, 2 proposals of one height split by the network, 1 restart | 892 k, 95 s | `Agreement` |
| `refines` | 2 sealers, 2 blocks, 2 views, 1 restart, symmetry | 301 k, 50 s | `TypeOK`, `ImplementsVoting` |
| `round` | engine 2 of 4, two heights | 70 k, 95 s | `NoQuorumOverlooked`, `Progress` |
| `views` | engine 1 of 4, three views, two blocks, room for one future proposal, copies, fair sealer | 70 k, 100 s | `TypeOK`, `VotesMatchProposal`, `OneProposalPerView`, `NoThreadDeadlock`, `FutureCacheSound`, `ViewsGrow`, `LeaderProposes` |
| `heights` | engine 2 of 4, three heights, two views, empty and failing block, syncing, copies | 110 k, 40 s | `NoQuorumOverlooked`, `OneProposalPerView`, `FutureCacheSound`, `ViewChangeBacked` |
| `pair` | whole group of 2, two blocks, two views, symmetry | 343 k, 105 s | `ImplementsLocking` |
| `crash` | whole group of 2, two blocks, 1 restart, symmetry | 93 k, 40 s | `ImplementsLocking` |
| `progress` | whole group of 2, two heights, no timeout | 21 k, 23 s | `Progress` |
| `backup_race` | as `locking`, 2 restarts | stops at the violation | `BackupPreventsFork` (violated) |
| `start_race` | whole group of 2, 1 restart, fair | stops at the violation | `StoredIsReported` (violated) |
| `future_dropped` | engine 2 of 4 | 6-step trace | `CommittedFutureKept` (violated) |
| `early_sign` | engine 2 of 4 | 7-step trace | `EarlySignsCount` (violated) |

What the properties say:

- `Agreement`: chains agree wherever they overlap, while fewer than `m_nodeNum - 2 * m_f`
  sealers have lost a lock (the least number two quorums have in common).
- `ImplementsVoting`, `ImplementsLocking`: the refinements of section 2.
- `NoQuorumOverlooked`: `checkAndCommit` acts when the number of SignReqs is *equal* to the
  quorum. Votes that arrive before their proposal are cached without acting, and could step
  over that number; `getSigCacheSize` counts early votes so that this does not happen. The
  property says that between two handlers nothing with a quorum is waiting. `round` has more
  early SignReqs than the quorum needs, `heights` early CommitReqs, view changes and copies.
- `VotesMatchProposal`: votes carry no view in their signature, so votes of an old view on a
  block that is proposed again must have left the caches; and what `checkAndCommit` locks is
  the raw form of what was executed.
- `OneProposalPerView`: a leader proposes one block per height and view, although the sealing
  block is reset by two threads and the decision to seal is made without the mutex. `views`
  has the timeouts within a height. `heights` has the two orders that comments in
  `PBFTSealer.h` warn of: a block stored between the report of the one before and its own
  report, so that the head is reported twice (lines 52-57), and the callback of a timeout
  that comes after the next height has begun (lines 148-155).
- `NoThreadDeadlock`: the worker takes `x_sealing` under `m_mutex` in one place, the sealer
  `m_mutex` under `x_sealing` in another; they never wait for each other.
- `FutureCacheSound`: the cache of future proposals keeps within its size and to one proposal
  per height, and drops those whose height or view is over, which nobody would take out. The
  size is reached in `views`; in `heights` a proposal of view 1 is over when the block of
  view 0 is stored.
- `LeaderProposes`: whoever leads a view proposes in it, or stops to lead. Of interest is the
  leader with a lock: `shouldSeal` refuses it new blocks, and it proposes the locked one only
  because the view change cleared `m_rawPrepareCache` and the callback cleared the sealing
  block. The property does not say *which* block: a decision to seal that was made as the
  next leader, where `shouldSeal` does not look at the lock, may be carried out after the
  view change. The engine then refuses its own proposal, and the view ends with a timeout.
- `ViewsGrow`: within a height, views and `m_toView` never fall, whatever order the hash map
  in `canTriggerViewChange` is walked in.
- `ViewChangeBacked`: a new view rests on requests of a quorum made at the current head.
- `Progress`: without timeouts, every height gets its block.

The bounds let the interesting cases happen: four is the smallest group with `m_f = 1`, two
conflicting blocks are enough for a fork, two heights for requests that are too early or too
late, three heights for a sealer that is told of two stored blocks at once and then leads,
and three views for a sealer that is not the leader, becomes it, and is succeeded. The
group-wide runs need two complete engines (with `m_f = 0`); runs of one engine supply the
quorum arithmetic of four. In `pair` a sealer that is locked in view 0 receives the other
block in view 1 and must refuse it. `crash` stays in view 0, where the restarted leader
proposes again; restarts together with view changes are in `refines`, and in the proofs for
any number of both. `pair` and `crash` have symmetric blocks: no message is given, and the
locking rule does not tell blocks apart.

Deadlock checking is on in all runs. It says little here: garbage collection is always
possible.

### Fairness

`Progress` and `StoredIsReported` use `FairSpec`, `LeaderProposes` only its part about the
sealer thread (`SealerFairness`): the worker need not go on for a leader to propose. Weak fairness for the worker (it takes
messages from its queue and looks at cached proposals in every turn of `workLoop`), for
handlers (they end), for the callback of a stored block, for the sealer's turns and for the
steps of the start-up: all are straight-line code of running threads. Strong fairness for
`ReportNewBlock`, because the sealer thread begins *every* turn with it although the turns
in between disable it, and for `HandleBlock`: the sealer finds enough transactions, or has
waited `maxBlockSealTime`, again and again. In `round` and `progress` messages are
eventually delivered. Nothing is assumed of timeouts, restarts, block sync and garbage
collection, so they may or may not happen.

## 5. Mutants

For each property of each passing run `PROJECT.json` names a definition and a broken twin
next to it in the same module, for example `addPrepareReqOnly` (votes of other views stay),
`addFuturePrepareCacheFreely` (the size is not looked at), `ResetBlockUnlocked` (the sealing
lock is not taken), `shouldResetSealingAnyway` (a sealed block is reset by the second report
of a head), `AcceptableUnlocked` (the lock is not looked at), `ReloadMsgIgnored` (the backup
is not read), `CheckAndCommitOnly` (`checkAndSave` is not called at the end). With the twin
in place TLC finds the property violated.

## 6. Proofs

All proofs hold for every number of sealers, set of blocks, height, view and number of
restarts, from these assumptions: `Nodes` is finite and not empty (`NodesAssumption`), the
cleared hash is not a block (`BlocksAssumption`), `Reach` and `Crashers` are about the
sealers and blocks (`FaultsAssumption`), and the bounds are natural numbers
(`BoundsAssumption`).

- `QuorumProofs`: `m_f` and `minValidNodes` are numbers with `m_nodeNum >= 3 * m_f + 1`; two
  quorums share at least `m_nodeNum - 2 * m_f > m_f` sealers; a superset of a quorum is one.
- `PBFTVotingProofs`, theorem **`NoFork`**: `Agreement` follows from the promise. Inductive
  invariant: `TypeOK`, a sealer that has not lost a vote has one vote per height
  (`VotedOnce`), and what is stored has a quorum of votes (`StoredByQuorum`). Two blocks
  stored at a height would have two quorums of voters; by counting, one sealer in both has
  not lost a vote, and voted for both: contradiction.
- `PBFTLockingProofs`
  - theorem **`LockingTypes`**: `TypeOK`, in particular that proposals and locks are cleared
    as a whole.
  - theorem **`LockingNoFork`**: `Agreement` of the chains. `VotesOnce` alone is not
    inductive: that a sealer does not vote twice depends on what it remembers. `IInv` adds
    * `InStep`: proposals, locks, backups and votes are not above the current height, which is
      at most one above the chain;
    * `LockKept`: while the block of the current height is not stored, the proposal, the lock
      and the backup of a sealer that has lost no lock agree, and a vote it cast is in the
      lock, or in the backup as long as that is not read (`Remembers`);
    * `ProposalKept`: a proposal never contradicts a vote, also after block sync has stored
      the block and before the engine is told;
    * `StoredSigned`: a stored block has the commit signatures of a quorum.

    `InStep`, `LockKept` and `ProposalKept` speak of one sealer at a time. `UntouchedKept` shows
    that they survive a step that leaves a sealer alone, so that the proof of each action is
    about the sealer that takes it (`OneTouched`, `NoneTouched`).
  - theorem **`LockingImplementsVoting`**: every step maps to `Cast`, `Store`, `Forget` or a
    stutter of `PBFTVoting` (`MappedNext`), from the same invariant.

The theorems allow locks to be lost and say what survives it: any `m_f` sealers may crash in
the worst moment. Run `backup_race` shows that two of four are too many, so the condition on
`lost` cannot be dropped.

Only model-checked: everything about `PBFTEngine` and `PBFTReqCache`, including that the engine
implements `PBFTLocking`. Out of the prover's reach, and left to TLC: liveness under fairness
and `ENABLED` (`Progress`, `LeaderProposes`, `StoredIsReported`), what recursive definitions compute for every
input (none are used so far), and `RECURSIVE` operators.

## 7. Findings

Four statements of the repository about its own code do not hold; each has a run whose trace
shows it, and an entry with the quoted line in `PROJECT.json`.

- `backup_race`: the backup of the locked prepare is described as what prevents a fork when
  sealers crash between locking and storing (`PBFTReqCache.h:520`). It is written after the
  CommitReq is sent, so sealers that crash in between have voted and do not know it.
- `start_race`: a stored block is reported by way of `m_syncBlock` (`Sealer.cpp:80`).
  `Sealer::start` clears the flag after its own report; a block stored by block sync in
  between is not reported until another block is stored.
- `future_dropped`: `triggerViewChange` is to keep future proposals with cached CommitReqs
  (`PBFTReqCache.cpp:387`), but looks them up by the other of the two hashes. In the trace
  the proposal of view 1 and a CommitReq of view 1 for it are cached when view 1 begins; the
  CommitReq stays and the proposal is dropped.
- `early_sign`: SignReqs of a later view are cached so that they count after the view change
  (`PBFTEngine.h:557`); `triggerViewChange` erases them when no CommitReq for their block is
  cached. A later timeout repairs the round.

Met on the way, without a run: the comment on the future cache speaks of 20 proposals
(`PBFTReqCache.h:313-329`), its size is 10; `setBlockSizeIncreaseRatio` takes a `bool`
(`PBFTSealer.h:82`); a leader that restarts may propose a second block in view 0, which the
locks absorb (`OneProposalPerView` is about sealers that do not restart).

## 8. Not modelled

| part | why, or when |
|---|---|
| block sync (`libsync`: `SyncMaster`, `DownloadingBlockQueue`, `RspBlockReq`, `SyncMsgEngine`) | consensus sees it as `SyncBlock`; the download protocol is the next module |
| transaction sync | after block sync |
| transaction pool, nonce windows (`libtxpool`) | planned |
| block execution and DAG (`libblockverifier`) | a function that may fail, here; the parallel DAG is planned |
| Raft engine | planned |
| rotating PBFT | the choice of the working sealers is planned; the protocol is the one of `PBFTEngine` |
| VRF-based rotating PBFT | the choice is made by cryptography and a contract |
| block-size adaptation of `PBFTSealer`, back-off of `TimeManager` | planned as small arithmetic modules |
| prepare requests with transaction hashes only | planned, as a variant of the prepare handler |
| sealers that do not follow the code (Byzantine ones) | every sealer that is modelled runs the code, or is a fixed set of messages that sealers running the code could send (`Inbox`); it may crash, lag behind and be cut off. A sealer that signs conflicting proposals or votes twice is not modelled. The one deviation the theorems allow is the loss of a lock in a crash (`lost`): such a sealer may vote again, in any of its views, and `NoFork` and `LockingNoFork` hold with up to `m_f` of them |
| message de-duplication (`PBFTMsgCache`) | decides only what is not sent twice; loss and repetition cover it |
| changes of the sealer list | a quorum of one list and a quorum of the next need not meet; needs the execution of system transactions |
| ledgers, P2P sessions, storage engines, world state, contracts, RPC, statistics, encoding, cryptography, start-up tools | I/O, sequential interpreters or data structures without a protocol; listed with reasons in `PROJECT.json` |

`PROJECT.json` lists the hazards of these parts too, each with a note saying that no property
covers it yet.

## 9. Plan

1. **Block sync**: `DownloadingBlockQueue` (buffer, priority queue, limits), request and answer
   with `RspBlockReq`, peer states and timeouts; an abstract specification "the chain grows
   by valid blocks in order", refined by the queue; liveness of catching up with a peer;
   composed with `PBFTEngine` at `commitBlock`.
2. **Transaction pool**: import, sealing, removal, the two nonce checks with their sliding
   window (off-by-one at both ends), the iterator used after unlocking.
3. **DAG execution**: the dependency graph and its work queue; no transaction before its
   predecessors, termination for every number of workers.
4. **Raft**: elections, heartbeats, block commits; one leader per term and what restarts do
   to it.
5. **Sealer arithmetic and timers**: the number of transactions per block within its bounds;
   the back-off of timeouts and whether views meet again.
6. **Rotating PBFT and hashes-only proposals**, as variants of `PBFTEngine`.
7. **Proofs**: lemmas on the operators of `PBFTReqCache` (what `addPrepareReq`,
   `getSigCacheSize` and `triggerViewChange` preserve); an inductive invariant of
   `PBFTEngine` for `VotesMatchProposal` and `ViewsGrow`; invariants of the block queue and the
   nonce window.

As modules are added, runs that ask related questions are to be merged (`locking` with
`refines`, `pair` with `crash`), so that the list stays short.
