---------------------------- MODULE SearchIndex ----------------------------
(***************************************************************************)
(* What the search index promises the one who searches: a memo is found by *)
(* the text it has, or its index is due to be brought up to date, or it is *)
(* openly lost; the index of a memo never goes back to an older text; and  *)
(* a memo found by the text it has stays found by it until it is written   *)
(* or deleted.  Nothing is said of jobs, workers, providers or restarts;   *)
(* those are IndexQueue, which implements this module.                     *)
(***************************************************************************)
EXTENDS Naturals

CONSTANT Memos

VARIABLES last,     \* the number of texts each memo has had, and so its text
          live,     \* the memos that can be found at all
          indexed,  \* the text by which each memo is found, 0 for none
          going,    \* those whose deletion is under way
          due,      \* those whose index is going to be brought up to date
          lost      \* those with a text that may never be indexed

vars == <<last, live, indexed, going, due, lost>>

TypeOK == /\ last \in [Memos -> Nat] /\ indexed \in [Memos -> Nat]
          /\ live \subseteq Memos /\ going \subseteq Memos
          /\ due \subseteq Memos /\ lost \subseteq Memos

\* A database older than its index: whatever can be found is due.
Init == /\ TypeOK
        /\ \A m \in Memos : indexed[m] = 0
        /\ live \subseteq due /\ going = {} /\ lost = {}

-----------------------------------------------------------------------------
SameText(m)  == last'[m] = last[m] /\ (m \in live' <=> m \in live)
SameIndex(m) == indexed'[m] = indexed[m]
SameGoing(m) == m \in going' <=> m \in going
SameLost(m)  == m \in lost' <=> m \in lost

Write(m) == /\ last'[m] = last[m] + 1
            /\ m \in due'
            /\ SameIndex(m) /\ SameGoing(m) /\ SameLost(m)

\* A deletion begins with the index; it may be refused in the end (Lose).
Withdraw(m) == /\ m \notin going /\ m \in going'
               /\ m \in due'
               /\ indexed'[m] \in {indexed[m], 0}
               /\ SameText(m) /\ SameLost(m)
Remove(m) == /\ m \in going /\ m \notin going'
             /\ last'[m] = last[m] /\ m \notin live'
             /\ SameIndex(m) /\ SameLost(m)

Claim(m) == /\ m \in due'
            /\ SameText(m) /\ SameIndex(m) /\ SameGoing(m) /\ SameLost(m)

\* The index moves on to a later text.  It may also go altogether, unless the
\* memo is found by the text it has.
Serve(m) == /\ m \in due /\ m \in due'
            /\ \/ indexed'[m] \in indexed[m] .. last[m]
               \/ indexed'[m] = 0 /\ ~(m \in live /\ indexed[m] = last[m])
            /\ SameText(m) /\ SameGoing(m) /\ SameLost(m)

\* A memo that can be found is settled by its text, or is lost already.
Settle(m) == /\ m \in due /\ m \notin due'
             /\ m \in live /\ m \notin lost => indexed[m] = last[m]
             /\ SameText(m) /\ SameIndex(m) /\ SameGoing(m) /\ SameLost(m)

\* Only what is due can be lost; it is recovered when it is looked at again.
Lose(m) == /\ m \in due /\ m \in lost'
           /\ m \in going' => m \in going
           /\ SameText(m) /\ SameIndex(m)
Recover(m) == /\ m \in due /\ m \in due'
              /\ m \notin lost'
              /\ SameText(m) /\ SameIndex(m) /\ SameGoing(m)

Stay(m) == /\ m \in due' <=> m \in due
           /\ SameText(m) /\ SameIndex(m) /\ SameGoing(m) /\ SameLost(m)

\* A restart, or a batch, concerns several memos at once.
Next == /\ TypeOK'
        /\ \A m \in Memos : \/ Stay(m) \/ Write(m) \/ Withdraw(m) \/ Remove(m) \/ Claim(m)
                            \/ Serve(m) \/ Settle(m) \/ Lose(m) \/ Recover(m)

Spec == Init /\ [][Next]_vars

\* The promise to the one who searches, in every state.
Found == \A m \in live : m \in due \/ m \in lost \/ indexed[m] = last[m]
=============================================================================
