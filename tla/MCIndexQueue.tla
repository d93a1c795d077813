---------------------------- MODULE MCIndexQueue ----------------------------
(***************************************************************************)
(* Two memos with some of the events, or one with all of them, the others  *)
(* having been deleted before the server was started.                      *)
(***************************************************************************)
EXTENDS IndexQueue

CONSTANT MaxShared   \* how many of MaxEvents may happen when memos share them

\* Memos are alike, so one of them can be named: the one that is left, and the
\* first to be live.
MCInit ==
  /\ Init
  /\ Indexable = {} \/ AnyMemo \in Indexable
  /\ \/ (\A m \in Memos : del[m] = 0) /\ events = MaxEvents - MaxShared
     \/ (\A m \in Memos : del[m] = 3 <=> m # AnyMemo) /\ events = 0

\* FairSpec with these initial states.
MCSpec == MCInit /\ [][Next]_vars /\ WF_vars(Worker) /\ WF_vars(CoolDownEnds)
=============================================================================
