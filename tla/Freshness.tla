----------------------------- MODULE Freshness -----------------------------
(***************************************************************************)
(* What live refresh promises a reader: what a tab shows and the server    *)
(* has since changed is fetched again, except for changes that are openly  *)
(* missed.  Nothing is said of streams, relays or reconnections; those are *)
(* LiveRefresh, which implements this module.                              *)
(***************************************************************************)
CONSTANTS Tabs, Shown        \* browser tabs; the queries each of them shows

VARIABLES due,     \* due[t]: out of date in t, and to be fetched again
          missed   \* missed[t]: out of date in t, and nothing will tell t

vars == <<due, missed>>

Init == /\ due = [t \in Tabs |-> {}]
        /\ missed = [t \in Tabs |-> {}]

(* Changes on the server put queries out of date; some may be missed. *)
Age == /\ \A t \in Tabs : due[t] \cup missed[t] \subseteq due'[t] \cup missed'[t]
       /\ due' \in [Tabs -> SUBSET Shown]
       /\ missed' \in [Tabs -> SUBSET Shown]
       /\ \A t \in Tabs : due'[t] \cap missed'[t] = {}

(* A query is fetched and current again. *)
Fetch(t, q) == /\ due' = [due EXCEPT ![t] = @ \ {q}]
               /\ missed' = [missed EXCEPT ![t] = @ \ {q}]

(* A tab signs out, closes or opens: it shows nothing that could be old. *)
Clear(t) == /\ due' = [due EXCEPT ![t] = {}]
            /\ missed' = [missed EXCEPT ![t] = {}]

Next == \/ Age
        \/ \E t \in Tabs : Clear(t) \/ (\E q \in Shown : Fetch(t, q))

(* Whatever is due is fetched, unless it comes to be missed after all. *)
Spec == /\ Init /\ [][Next]_vars
        /\ \A t \in Tabs, q \in Shown : WF_vars(q \in due[t] /\ Fetch(t, q))
=============================================================================
