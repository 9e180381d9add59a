---------------------------- MODULE PBFTReqCache ----------------------------
(***************************************************************************)
(* The request caches of a PBFT engine.  Every operator takes the record c *)
(* of an engine's state and returns it updated; the fields used are        *)
(*                                                                         *)
(*   raw        m_rawPrepareCache, the proposal as it was received         *)
(*   prepare    m_prepareCache, the executed and signed proposal           *)
(*   committed  m_committedPrepareCache, the lock                          *)
(*   signs      m_signCache, by block hash                                 *)
(*   commits    m_commitCache, by block hash                               *)
(*   recv       m_recvViewChangeReq, by view                               *)
(*   latest     m_latestViewChangeReqCache, at most one request per sealer *)
(*   future     m_futurePrepareCache, at most one proposal per height      *)
(*                                                                         *)
(* A two-level map is a function from its keys to sets of requests; a key  *)
(* may be left with an empty set, as in the code.  A block has two hashes: *)
(* prepare requests carry the one of the proposed block, SignReqs and      *)
(* CommitReqs the one of the block after execution.  A signature covers    *)
(* the block hash only, so a sealer has one SignReq and one CommitReq per  *)
(* block, whatever the view.                                               *)
(***************************************************************************)
EXTENDS Integers, FiniteSets, FiniteSetsExt, Functions, TLC

CONSTANTS
    NoBlock,                    \* the block of a cleared request
    m_maxFuturePrepareCacheSize

NoPrepare == [height |-> -1, view |-> -1, idx |-> -1, block |-> NoBlock]

RawHash(p) == <<"raw", p.height, p.block>>
Hash(h, b) == <<"executed", h, b>>
HashOf(p) == Hash(p.height, p.block)

EmptyCache == [
    raw |-> NoPrepare, prepare |-> NoPrepare, committed |-> NoPrepare,
    signs |-> << >>, commits |-> << >>, recv |-> << >>, latest |-> {}, future |-> {}]

At(map, k) == IF k \in DOMAIN map THEN map[k] ELSE {}
Put(map, k, r) == (k :> (At(map, k) \cup {r})) @@ map
Erase(map, k) == Restrict(map, DOMAIN map \ {k})
Keep(map, Test(_)) == [k \in DOMAIN map |-> {r \in map[k] : Test(r)}]
WithoutEmpty(map) == Restrict(map, {k \in DOMAIN map : map[k] # {}})

From(set, i) == {r \in set : r.idx = i}

isExistPrepare(c, p) == RawHash(c.raw) = RawHash(p)
isExistReq(map, hash, i) == From(At(map, hash), i) # {}
isExistViewChange(c, r) == From(At(c.recv, r.view), r.idx) # {}

(* Mutant of getSigCacheSize: all early requests are counted. *)
getSigCacheSizeUnlimited(c, hash, min) == Cardinality(At(c.signs, hash))

(* Once the quorum size is reached at most size - 1 requests that arrived  *)
(* before their proposal are counted, so that the size at which            *)
(* checkAndCommit acts is not skipped.  The cache itself keeps them all.   *)
getSigCacheSize(c, hash, min) ==
    LET cached == At(c.signs, hash)
        early == {r \in cached : r.isFuture}
        counted == IF Cardinality(early) < min THEN Cardinality(early) ELSE min - 1
    IN  IF Cardinality(cached) >= min
        THEN Cardinality(cached \ early) + counted
        ELSE Cardinality(cached)

getCommitCacheSize(c, hash) == Cardinality(At(c.commits, hash))

addRawPrepare(c, p) == [c EXCEPT !.raw = p, !.prepare = NoPrepare]

(* removeInvalidSignCache, removeInvalidCommitCache *)
removeInvalidCache(map, hash, view) == [k \in DOMAIN map |->
    IF k = hash THEN {r \in map[k] : r.view = view} ELSE map[k]]

(* Mutant of addPrepareReq: requests of other views stay. *)
addPrepareReqOnly(c, p) == [c EXCEPT !.prepare = p]

(* Requests on the same block from other views are dropped. *)
addPrepareReq(c, p) ==
    [c EXCEPT !.prepare = p,
              !.signs = removeInvalidCache(@, HashOf(p), p.view),
              !.commits = removeInvalidCache(@, HashOf(p), p.view)]

addReq(map, hash, r) == IF isExistReq(map, hash, r.idx) THEN map ELSE Put(map, hash, r)

(* Mutant of addFuturePrepareCache: the size of the cache is not looked at. *)
addFuturePrepareCacheFreely(c, p) ==
    IF \E q \in c.future : q.height = p.height
    THEN c ELSE [c EXCEPT !.future = @ \cup {p}]

addFuturePrepareCache(c, p) ==
    IF Cardinality(c.future) >= m_maxFuturePrepareCacheSize
            \/ \E q \in c.future : q.height = p.height
    THEN c ELSE [c EXCEPT !.future = @ \cup {p}]

updateCommittedPrepare(c) == [c EXCEPT !.committed = c.raw]

(* Mutant of removeInvalidFutureCache: the head itself is not removed. *)
removeInvalidFutureCacheBelow(c, number) ==
    [c EXCEPT !.future = {p \in @ : p.height >= number}]

removeInvalidFutureCache(c, number) ==
    [c EXCEPT !.future = {p \in @ : p.height > number}]

(* The block of the given height is on the chain. *)
delCache(c, height, b) ==
    LET hash == Hash(height, b)
    IN  removeInvalidFutureCache(
            [c EXCEPT !.signs = Erase(@, hash),
                      !.commits = Erase(@, hash),
                      !.prepare = IF HashOf(@) = hash THEN NoPrepare ELSE @],
            height)

-----------------------------------------------------------------------------
(* Mutant of Outdated: requests of lower heights stay. *)
OutdatedHash(r, number, b) == r.height = number /\ r.block # b

(* View changes.  A request is outdated when its sender was at a lower     *)
(* height, or at this height on another block.                             *)
Outdated(r, number, b) == r.height < number \/ (r.height = number /\ r.block # b)

(* The latest request of a sealer goes from both maps, if both have it. *)
eraseExpiredViewChange(c, i) ==
    LET known == {r \in c.latest : r.idx = i /\ From(At(c.recv, r.view), i) # {}}
    IN  [c EXCEPT !.recv = Keep(@, LAMBDA r : r \notin known),
                  !.latest = @ \ known]

(* checkViewChangeReq: a request older than the latest one of its sender   *)
(* counts only if that one is from below the current height.               *)
checkViewChangeReq(c, r, number) ==
    /\ r.height >= number
    /\ \A l \in From(c.latest, r.idx) :
           l.height < number \/ (r.height >= l.height /\ r.view >= l.view)

(* Mutant of addViewChangeReq: the older request of the sealer stays. *)
addViewChangeReqKeeps(c, r, number) ==
    IF checkViewChangeReq(c, r, number)
    THEN [c EXCEPT !.recv = Put(@, r.view, r), !.latest = @ \cup {r}]
    ELSE c

addViewChangeReq(c, r, number) ==
    LET e == eraseExpiredViewChange(c, r.idx)
    IN  IF checkViewChangeReq(c, r, number)
        THEN [e EXCEPT !.recv = Put(e.recv, r.view, r),
                       !.latest = (@ \ From(@, r.idx)) \cup {r}]
        ELSE c

getViewChangeSize(c, v) == Cardinality(At(c.recv, v))

(* Mutant of Visited: requests up to toView are looked at too. *)
VisitedAll(c, toView, number, order) ==
    {r \in UNION Range(c.recv) : r.height >= number}

(* The requests beyond toView that canTriggerViewChange looks at when it   *)
(* visits the views of the hash map in the given order: for a sealer with  *)
(* several requests, those with a view above the ones seen before.         *)
Visited(c, toView, number, order) ==
    LET beyond == {r \in UNION Range(c.recv) : r.view > toView /\ r.height >= number}
    IN  {r \in beyond : \A q \in beyond :
            q.idx = r.idx /\ q.view > r.view => order[q.view] > order[r.view]}

Orders(S) == {f \in [S -> 1 .. Cardinality(S)] : IsInjective(f)}

(* The views min_view may be given: none if no view change is triggered.   *)
canTriggerViewChange(c, f, toView, number, consNumber) ==
    LET visits == {Visited(c, toView, number, o) : o \in Orders(DOMAIN c.recv)}
        enough == {V \in visits :
            /\ Cardinality({r.idx : r \in V}) > f
            /\ LET low == Min({r.height : r \in V})
               IN  ~(low = consNumber /\ low = c.committed.height)}
    IN  {Min({r.view : r \in V}) : V \in enough}

removeInvalidLatestViewChangeReq(c, number, b) ==
    [c EXCEPT !.latest = {r \in @ : ~Outdated(r, number, b)}]

(* removeInvalidViewChange(view, highestBlock) *)
removeInvalidViewChange(c, v, number, b) ==
    IF v \in DOMAIN c.recv
    THEN removeInvalidLatestViewChangeReq(
            [c EXCEPT !.recv[v] = {r \in @ : ~Outdated(r, number, b)}], number, b)
    ELSE c

delInvalidViewChange(c, number, b) ==
    [c EXCEPT !.recv = WithoutEmpty(Keep(@, LAMBDA r : ~Outdated(r, number, b)))]

(* The view has changed to v.  Votes of other views go, and so do SignReqs *)
(* on blocks without an entry in the commit cache, proposals of later      *)
(* heights without such an entry, and view changes up to v.                *)
triggerViewChange(c, v, number) ==
    LET commits == Keep(c.commits, LAMBDA r : r.view = v)
        signs == Keep(Restrict(c.signs, DOMAIN c.signs \cap DOMAIN commits),
                      LAMBDA r : r.view = v)
    IN  [removeInvalidFutureCache(c, number) EXCEPT
            !.raw = NoPrepare,
            !.prepare = NoPrepare,
            !.commits = commits,
            !.signs = signs,
            !.future = {p \in @ : RawHash(p) \in DOMAIN commits},
            !.recv = Restrict(@, {w \in DOMAIN @ : w > v}),
            !.latest = {r \in @ : r.view > v}]

collectGarbage(c, number, b) ==
    LET current(map) == WithoutEmpty(Keep(map, LAMBDA r : ~Outdated(r, number, b)))
    IN  removeInvalidLatestViewChangeReq(
            delInvalidViewChange(
                removeInvalidFutureCache(
                    [c EXCEPT !.signs = current(@), !.commits = current(@)], number),
                number, b),
            number, b)

=============================================================================
