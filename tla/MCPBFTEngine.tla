---------------------------- MODULE MCPBFTEngine ----------------------------
(***************************************************************************)
(* Instances of PBFTEngine for TLC: all sealers of a group of two, or one  *)
(* sealer of a group of four and what the other three send it.             *)
(***************************************************************************)
EXTENDS PBFTEngine

CONSTANTS a, b, empty

Prepare(i, v, h, block) == Message("prepare", i, v, h, block, Everyone)
SignsFor(I, v, h, block) == {Message("sign", i, v, h, block, Everyone) : i \in I}
CommitsFor(I, v, h, block) == {Message("commit", i, v, h, block, Everyone) : i \in I}
ViewChanges(I, v, h, block) == {Message("viewchange", i, v, h, block, Everyone) : i \in I}

(* Requests that reach the others and are lost on the way to the engine.   *)
Unheard(M) == {[m EXCEPT !.to = 0] : m \in M}

(* The blocks are alike where all sealers run the code. *)
BlockSymmetry == Permutations({a, b})

(* All sealers run the code. *)
NoInbox == {}

(* Two rounds, seen by sealer 2: all that the others send in them. *)
TwoRounds ==
    {Prepare(0, 0, 1, a), Prepare(1, 0, 2, b)}
        \cup SignsFor({0, 1, 3}, 0, 1, a) \cup CommitsFor({0, 1}, 0, 1, a)
        \cup SignsFor({0, 1}, 0, 2, b) \cup CommitsFor({0, 1}, 0, 2, b)

(* A height that takes three views, seen by sealer 1: it leads in view 1.  *)
(* Sealer 0 has voted for a; whatever sealer 2 proposes in view 2 depends  *)
(* on who is locked.  Sealer 2 is at the next height already.              *)
ThreeViews ==
    {Prepare(0, 0, 1, a), Prepare(2, 2, 1, a), Prepare(2, 1, 2, b)}
        \cup SignsFor({0, 2, 3}, 0, 1, a) \cup CommitsFor({0}, 0, 1, a)
        \cup ViewChanges({0, 2}, 1, 0, NoBlock)
        \cup SignsFor({2, 3}, 1, 1, a)
        \cup ViewChanges({2, 3}, 2, 0, NoBlock)

(* Three heights, seen by sealer 2: it leads in the third.  In the first,  *)
(* some ask for view 1, where sealer 1 proposes a again; the second is     *)
(* decided without it, and sealer 3 asks for view 1 in vain.               *)
ThreeHeights ==
    {Prepare(0, 0, 1, a), Prepare(1, 1, 1, a)}
        \cup SignsFor({0, 1}, 0, 1, a) \cup CommitsFor({0, 1}, 0, 1, a)
        \cup ViewChanges({0, 3}, 1, 0, NoBlock) \cup ViewChanges({3}, 1, 1, a)
        \cup Unheard(CommitsFor({0, 1, 3}, 0, 2, a))

(* What reaches sealer 2 early: the proposal of view 1 with a CommitReq    *)
(* for it, then requests to change to that view.                           *)
EarlyCommit ==
    {Prepare(1, 1, 1, a)} \cup CommitsFor({0}, 1, 1, a) \cup ViewChanges({0, 1}, 1, 0, NoBlock)

(* What reaches sealer 2 while view 1 begins: the leader of view 1 is      *)
(* ahead of it.                                                            *)
EarlySign ==
    {Prepare(1, 1, 1, a)} \cup SignsFor({1}, 1, 1, a) \cup ViewChanges({0, 1}, 1, 0, NoBlock)

=============================================================================
