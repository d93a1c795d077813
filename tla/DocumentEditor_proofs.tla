----------------------- MODULE DocumentEditor_proofs -----------------------
(***************************************************************************)
(* Proofs about DocumentEditor, for every set of texts and every bound:    *)
(* the draft and the saves are well formed, a discarded draft stays        *)
(* discarded, the open editor knows the time of its own writes, and no     *)
(* text typed while the Save button's save is not under way is lost.       *)
(* SavesInv and ButtonInv say what the saves under way have to do with    *)
(* the editor on the screen.                                               *)
(***************************************************************************)
EXTENDS DocumentEditor, TLAPS

\* The open editor has at most one save under way and waits for it; only an
\* open editor has a write of the draft pending.
SavesInv ==
  /\ \A s \in saves : s.mount = "open" => place = "edit" /\ editor.saving
  /\ \A r, s \in saves : r.mount = "open" /\ s.mount = "open" => r = s
  /\ place # "edit" => pending = None

\* What has landed of an editor nobody else's write has reached is the latest.
SyncInv ==
  /\ InSync
  /\ place = "edit" /\ ~foreign =>
       \A s \in saves : s.mount = "open" /\ s.stage = "landed" => s.stamp = server.stamp

\* A save of the button holds all there is of the typed text.
ButtonInv ==
  \A s \in saves : ~s.silent /\ s.mount # "gone" => work \in {None, s.text}

-----------------------------------------------------------------------------
(* Type correctness. *)

\* The draft left by a closing editor, and the text a new one starts with.
LEMMA TextsKept ==
  ASSUME TypeOK
  PROVE  /\ Flushed \in (Texts \ {Blank}) \cup {None}
         /\ Dropped \in (Texts \ {Blank}) \cup {None}
         /\ Restored \in Texts
         /\ Unmounted \in Editor
         /\ Mounted(Restored, memo) \in Editor
  BY TextsAssumption, SMT DEF TypeOK, Flushed, Dropped, Written, Restored, Restorable, Unmounted,
     Mounted, Editor, Doc

\* A closing editor leaves a well-formed tab.
LEMMA CloseType ==
  ASSUME TypeOK, NEW d \in (Texts \ {Blank}) \cup {None},
         NEW where \in {"preview", "away"}, NEW how \in {"left", "saved", "cancelled"},
         Close(d, where, how)
  PROVE  /\ place' \in {"preview", "edit", "away"}
         /\ editor' \in Editor
         /\ draft' \in (Texts \ {Blank}) \cup {None}
         /\ pending' \in Texts \cup {None}
         /\ exit' \in {"left", "saved", "cancelled"}
         /\ foreign' \in BOOLEAN
  BY TextsKept DEF Close

\* Saves stay well formed when their editor closes.
LEMMA OrphanedType ==
  ASSUME NEW ss \in SUBSET Save
  PROVE  Orphaned(ss) \in SUBSET Save
  BY SMT DEF Orphaned, Save

\* The count of mishaps is a number.
LEMMA BoundedType == ASSUME TypeOK, Bounded PROVE faults' \in Nat
<1>1. faults' \in {faults, faults + 1}
  BY DEF Bounded
<1> QED
  BY <1>1, SMT DEF TypeOK

\* The end of a save leaves a well-formed tab.
LEMMA EndedType ==
  ASSUME TypeOK, NEW s \in saves, NEW how \in {"saved", "cancelled"}, Ended(s, how)
  PROVE  /\ place' \in {"preview", "edit", "away"}
         /\ editor' \in Editor
         /\ draft' \in (Texts \ {Blank}) \cup {None}
         /\ pending' \in Texts \cup {None}
         /\ exit' \in {"left", "saved", "cancelled"}
         /\ foreign' \in BOOLEAN
         /\ faults' \in Nat
<1> USE DEF TypeOK
<1>0. s \in Save
  OBVIOUS
<1>1. CASE SavedQuietly(s) /\ UNCHANGED faults
  <2>1. s.stamp \in Nat /\ s.text \in Texts /\ editor \in Editor
    BY <1>0, SMT DEF Save
  <2>2. [editor EXCEPT !.saving = FALSE, !.stamp = s.stamp, !.last = s.text] \in Editor
    BY <2>1, Zenon DEF Editor
  <2> QED
    BY <1>1, <2>2 DEF SavedQuietly
<1>2. CASE UNCHANGED <<tabVars, exit, foreign, faults>>
  BY <1>2 DEF tabVars
<1>3. CASE SavedAndClosed(s, how)
  <2>0. faults' \in Nat
    BY <1>3, BoundedType DEF SavedAndClosed
  <2>1. CASE Close(Dropped, "preview", how)
    BY <2>0, <2>1, TextsKept, CloseType
  <2>2. CASE Close(Flushed, "preview", "left")
    BY <2>0, <2>2, TextsKept, CloseType
  <2>3. CASE draft' = Dropped /\ pending' = None /\ UNCHANGED <<place, editor, exit, foreign>>
    BY <2>0, <2>3, TextsKept
  <2> QED
    BY <1>3, <2>1, <2>2, <2>3 DEF SavedAndClosed
<1> QED
  BY <1>1, <1>2, <1>3 DEF Ended

\* An exchange that ends a save keeps the types.
LEMMA RestType ==
  ASSUME TypeOK, NEW s \in saves
  PROVE  Rest(s) \in SUBSET Save /\ Settled(s) \in (Texts \ {Blank}) \cup {None}
  BY OrphanedType DEF Rest, Settled, TypeOK

\* Every state the tab starts in is well typed.
LEMMA InitType == Init => TypeOK
<1> SUFFICES ASSUME Init PROVE TypeOK
  OBVIOUS
<1>1. server \in Doc /\ memo \in Doc
  BY SMT DEF Init, Doc
<1>2. editor \in Editor
  BY TextsAssumption, SMT DEF Init, Unmounted, Editor
<1> QED
  BY <1>1, <1>2, TextsAssumption, Zenon DEF Init, TypeOK

\* Every step of the user and the browser keeps the types.
LEMMA UserType == TypeOK /\ (User \/ Browser \/ Tick) => TypeOK'
<1> SUFFICES ASSUME TypeOK, User \/ Browser \/ Tick PROVE TypeOK'
  OBVIOUS
<1> USE DEF docVars, ghosts, tabVars
<1>0. /\ Flushed \in (Texts \ {Blank}) \cup {None} /\ Dropped \in (Texts \ {Blank}) \cup {None}
      /\ Orphaned(saves) \in SUBSET Save
  BY TextsKept, OrphanedType DEF TypeOK
<1>1. CASE Open
  BY <1>1, TextsKept, Zenon DEF Open, TypeOK
<1>2. ASSUME NEW t \in Texts, Type(t) PROVE TypeOK'
  <2>1. editor' \in Editor /\ typed' \in Nat
    BY <1>2, SMT DEF Type, TypeOK, Editor
  <2>2. work' \in (Texts \ {Blank}) \cup {None}
    BY <1>2 DEF Type
  <2> QED
    BY <1>2, <2>1, <2>2 DEF Type, TypeOK
<1>3. CASE Debounced
  BY <1>3 DEF Debounced, Written, TypeOK
<1>4. CASE Flush
  BY <1>0, <1>4 DEF Flush, TypeOK
<1>6. CASE Cancel
  <2>1. faults' \in Nat
    BY <1>6, BoundedType DEF Cancel
  <2>2. Close(Dropped, "preview", "cancelled") /\ saves' = Orphaned(saves) /\ work' = None
        /\ UNCHANGED <<docVars, memo, auto, typed, others>>
    BY <1>6 DEF Cancel
  <2> QED
    BY <1>0, <2>1, <2>2, CloseType, Zenon DEF TypeOK
<1>7. CASE Leave
  <2>1. CASE Close(Flushed, "away", "left") /\ saves' = Orphaned(saves) /\ Bounded
    <3>1. faults' \in Nat
      BY <2>1, BoundedType
    <3> QED
      BY <1>0, <1>7, <2>1, <3>1, CloseType, Zenon DEF TypeOK, Leave
  <2>2. CASE /\ place' = "away"
             /\ UNCHANGED <<editor, draft, pending, saves, exit, foreign, faults>>
    BY <1>7, <2>2 DEF TypeOK, Leave
  <2> QED
    BY <1>7, <2>1, <2>2 DEF Leave
<1>8. CASE Return \/ Refetch \/ ToggleAuto
  BY <1>8 DEF Return, Refetch, ToggleAuto, TypeOK
<1>9. ASSUME NEW crash \in BOOLEAN, Reload(crash) PROVE TypeOK'
  <2>1. saves' \in SUBSET Save
    BY <1>9, SMT DEF Reload, TypeOK, Save
  <2>2. /\ place' \in {"preview", "edit", "away"}
        /\ editor' \in Editor
        /\ draft' \in (Texts \ {Blank}) \cup {None}
        /\ pending' \in Texts \cup {None}
        /\ exit' \in {"left", "saved", "cancelled"}
        /\ foreign' \in BOOLEAN
    <3>1. CASE place = "edit"
      <4>1. Close(IF crash THEN draft ELSE Flushed, "preview", "left")
        BY <1>9, <3>1 DEF Reload
      <4>2. (IF crash THEN draft ELSE Flushed) \in (Texts \ {Blank}) \cup {None}
        BY <1>0 DEF TypeOK
      <4> QED
        BY <4>1, <4>2, CloseType
    <3>2. CASE place # "edit"
      BY <1>9, <3>2 DEF Reload, TypeOK
    <3> QED
      BY <3>1, <3>2
  <2>3. faults' \in Nat /\ work' \in (Texts \ {Blank}) \cup {None}
    BY <1>9, SMT DEF Reload, TypeOK
  <2> QED
    BY <1>9, <2>1, <2>2, <2>3 DEF Reload, TypeOK
<1>10. CASE Expire
  BY <1>10 DEF Expire, TypeOK
<1>11. ASSUME NEW silent \in BOOLEAN, StartSave(silent) PROVE TypeOK'
  <2>1. saves' \in SUBSET Save
    <3>1. editor.text \in Texts /\ editor.stamp \in Nat
      BY Zenon DEF TypeOK, Editor
    <3>2. [mount |-> "open", silent |-> silent,
           text |-> editor.text, stamp |-> editor.stamp, stage |-> "reading", patch |-> {}] \in Save
      BY <3>1, Zenon DEF Save
    <3> QED
      BY <1>11, <3>2, Zenon DEF StartSave, TypeOK
  <2>2. editor' \in Editor
    BY <1>11, Zenon DEF StartSave, TypeOK, Editor
  <2> QED
    BY <1>11, <2>1, <2>2 DEF StartSave, TypeOK
<1> QED
  BY <1>1, <1>2, <1>3, <1>4, <1>6, <1>7, <1>8, <1>9, <1>10, <1>11
  DEF User, Browser, Tick, SaveNow

\* Every answer, failure and write by others keeps the types.
LEMMA ExchangeType == TypeOK /\ (Exchange \/ Environment) => TypeOK'
<1> SUFFICES ASSUME TypeOK, Exchange \/ Environment PROVE TypeOK'
  OBVIOUS
<1> USE DEF docVars, ghosts, tabVars
<1>1. ASSUME NEW s \in saves, Read(s) PROVE TypeOK'
  <2>1. saves' \in SUBSET Save
    <3>1. [s EXCEPT !.stage = "sent", !.patch = Mask(s)] \in Save
      BY <1>1, Zenon DEF Mask, TypeOK, Save
    <3> QED
      BY <1>1, <3>1, Zenon DEF Read, TypeOK
  <2> QED
    BY <1>1, <2>1 DEF Read, TypeOK
<1>2. ASSUME NEW s \in saves, NoChanges(s) PROVE TypeOK'
  <2>1. Ended(s, "cancelled") /\ saves' = Rest(s) /\ work' = Settled(s)
        /\ UNCHANGED <<docVars, memo, auto, typed, others>>
    BY <1>2 DEF NoChanges
  <2> QED
    BY <2>1, EndedType, RestType, Zenon DEF TypeOK
<1>3. ASSUME NEW s \in saves, Land(s) PROVE TypeOK'
  <2>0. /\ s \in Save /\ s.text \in Texts /\ s.stamp \in Nat
        /\ server.text \in Texts /\ now \in Nat /\ now + 1 \in Nat
    BY SMT DEF TypeOK, Save, Doc
  <2>1. PICK text \in Texts, stamp \in Nat :
          /\ server' = [text |-> text, stamp |-> stamp]
          /\ now' \in Nat
          /\ saves' = (saves \ {s}) \cup
               IF s.mount = "gone" THEN {}
               ELSE {[s EXCEPT !.stage = "landed", !.stamp = stamp]}
    BY <1>3, <2>0, Zenon DEF Land
  <2>2. saves' \in SUBSET Save
    <3>1. [s EXCEPT !.stage = "landed", !.stamp = stamp] \in Save
      BY <2>0, Zenon DEF Save
    <3> QED
      BY <2>1, <3>1, Zenon DEF TypeOK
  <2>3. server' \in Doc /\ work' \in (Texts \ {Blank}) \cup {None}
    BY <1>3, <2>1, RestType DEF Land, Doc
  <2>4. foreign' \in BOOLEAN
    BY <1>3, Zenon DEF Land, TypeOK
  <2> QED
    BY <1>3, <2>1, <2>2, <2>3, <2>4 DEF Land, TypeOK
<1>4. ASSUME NEW s \in saves, Finish(s) PROVE TypeOK'
  <2>1. Ended(s, "saved") /\ saves' = Rest(s) /\ work' = Settled(s)
        /\ UNCHANGED <<docVars, auto, typed, others>> /\ memo' \in {memo, server}
    BY <1>4 DEF Finish
  <2> QED
    BY <2>1, EndedType, RestType, Zenon DEF TypeOK
<1>5. ASSUME NEW s \in saves, Fail(s) PROVE TypeOK'
  <2>1. editor' \in Editor /\ faults' \in Nat
    <3>1. [editor EXCEPT !.saving = FALSE] \in Editor
      BY Zenon DEF TypeOK, Editor
    <3>2. faults' \in Nat
      BY <1>5, SMT DEF Fail, TypeOK
    <3> QED
      BY <1>5, <3>1, <3>2 DEF Fail, TypeOK
  <2>2. foreign' \in BOOLEAN
    BY <1>5, Zenon DEF Fail, TypeOK
  <2> QED
    BY <1>5, <2>1, <2>2 DEF Fail, TypeOK
<1>6. ASSUME NEW t \in Texts, OtherWrite(t) PROVE TypeOK'
  BY <1>6, SMT DEF OtherWrite, TypeOK, Doc
<1>7. ASSUME NEW t \in Texts, NEW lands \in BOOLEAN, PreviewEdit(t, lands) PROVE TypeOK'
  <2>1. server' \in Doc /\ memo' \in Doc /\ now' \in Nat /\ others' \in Nat
    BY <1>7, SMT DEF PreviewEdit, TypeOK, Doc
  <2> QED
    BY <1>7, <2>1 DEF PreviewEdit, TypeOK
<1> QED
  BY <1>1, <1>2, <1>3, <1>4, <1>5, <1>6, <1>7 DEF Exchange, Environment

\* Every step keeps the types.
LEMMA StepType == TypeOK /\ [Next]_vars => TypeOK'
<1>1. TypeOK /\ UNCHANGED vars => TypeOK'
  BY DEF vars, TypeOK
<1> QED
  BY <1>1, UserType, ExchangeType DEF Next

\* In every reachable state the draft, the editor and its saves are well
\* formed; a blank text is never kept as a draft.
THEOREM TypeCorrect == Spec => []TypeOK
  BY InitType, StepType, PTL DEF Spec

-----------------------------------------------------------------------------
(* The saves under way and the editor on the screen. *)

\* A save left by its editor is no open editor's, and holds what it held.
LEMMA OrphanedFacts ==
  ASSUME NEW ss \in SUBSET Save, NEW r \in Orphaned(ss)
  PROVE  /\ r.mount # "open"
         /\ \A w : (\A s \in ss : ~s.silent /\ s.mount # "gone" => w \in {None, s.text})
                  => (~r.silent /\ r.mount # "gone" => w \in {None, r.text})
<1>1. PICK s \in ss : r = [s EXCEPT !.mount = IF @ = "open" THEN "closed" ELSE @]
  BY DEF Orphaned
<1>2. /\ r.mount = IF s.mount = "open" THEN "closed" ELSE s.mount
      /\ r.text = s.text /\ r.silent = s.silent
  BY <1>1, SMT DEF Save
<1>3. r.mount # "open"
  BY <1>2
<1>4. ASSUME NEW w, ~s.silent /\ s.mount # "gone" => w \in {None, s.text}
      PROVE  ~r.silent /\ r.mount # "gone" => w \in {None, r.text}
  BY <1>2, <1>4
<1> QED
  BY <1>3, <1>4, Zenon

\* The end of a save: the editor stays with its other saves, none of them its
\* own if s was, or there is no editor left.
LEMMA EndedSaves ==
  ASSUME TypeOK, SavesInv, NEW s \in saves, NEW how, Ended(s, how), saves' = Rest(s)
  PROVE  SavesInv'
<1>0. saves \subseteq Save /\ saves \ {s} \subseteq Save
  BY DEF TypeOK
<1>1. CASE s.silent /\ s.mount = "open" /\ SavedQuietly(s)
  <2>1. \A r \in saves' : r.mount # "open" /\ r \in saves
    BY <1>1 DEF Rest, SavesInv
  <2> QED
    BY <1>1, <2>1 DEF SavesInv, SavedQuietly
<1>2. CASE s.silent /\ UNCHANGED <<tabVars, exit, foreign, faults>>
  BY <1>2 DEF SavesInv, Rest, tabVars
<1>3. CASE ~s.silent /\ SavedAndClosed(s, how)
  <2>1. \A r \in saves' : r.mount # "open"
    BY <1>0, <1>3, OrphanedFacts DEF Rest
  <2>2. place' # "edit" /\ pending' = None
    BY <1>3 DEF SavedAndClosed, Close, SavesInv, TypeOK
  <2> QED
    BY <2>1, <2>2 DEF SavesInv
<1> QED
  BY <1>1, <1>2, <1>3 DEF Ended

\* Initially nothing is under way.
LEMMA InitSaves == Init => SavesInv
  BY DEF Init, SavesInv

\* No step gives the open editor a second save, or a closed one a write.
LEMMA StepSaves == TypeOK /\ SavesInv /\ [Next]_vars => SavesInv'
<1> SUFFICES ASSUME TypeOK, SavesInv, [Next]_vars PROVE SavesInv'
  OBVIOUS
<1> USE DEF docVars, ghosts, tabVars
<1>0. saves \subseteq Save
  BY DEF TypeOK
<1>1. CASE Open
  BY <1>1 DEF Open, SavesInv, Mounted
<1>2. ASSUME NEW t \in Texts, Type(t) PROVE SavesInv'
  <2>1. editor'.saving = editor.saving
    BY <1>2, Zenon DEF Type, TypeOK, Editor
  <2> QED
    BY <1>2, <2>1 DEF Type, SavesInv
<1>3. CASE Debounced \/ Flush \/ Return \/ Refetch \/ ToggleAuto \/ Expire
  BY <1>3 DEF Debounced, Flush, Return, Refetch, ToggleAuto, Expire, SavesInv
<1>4. CASE Cancel \/ Leave
  <2>1. CASE saves' = Orphaned(saves) /\ place' # "edit" /\ pending' = None
    BY <1>0, <2>1, OrphanedFacts DEF SavesInv
  <2>2. CASE place = "preview" /\ place' = "away" /\ UNCHANGED <<editor, pending, saves>>
    BY <2>2 DEF SavesInv
  <2> QED
    BY <1>4, <2>1, <2>2 DEF Cancel, Leave, Close
<1>5. ASSUME NEW crash \in BOOLEAN, Reload(crash) PROVE SavesInv'
  <2>1. \A r \in saves' : r.mount = "gone"
    <3> SUFFICES ASSUME NEW r \in saves' PROVE r.mount = "gone"
      OBVIOUS
    <3>1. PICK s \in saves : r = [s EXCEPT !.mount = "gone"]
      BY <1>5 DEF Reload
    <3> QED
      BY <1>0, <3>1, SMT DEF Save
  <2>2. place' # "edit" /\ pending' = None
    BY <1>5 DEF Reload, Close, SavesInv
  <2> QED
    BY <2>1, <2>2 DEF SavesInv
<1>6. ASSUME NEW silent \in BOOLEAN, StartSave(silent) PROVE SavesInv'
  <2> DEFINE r == [mount |-> "open", silent |-> silent,
                   text |-> editor.text, stamp |-> editor.stamp, stage |-> "reading",
                   patch |-> {}]
  <2>1. r.mount = "open" /\ saves' = saves \cup {r}
    BY <1>6, Zenon DEF StartSave
  <2> HIDE DEF r
  <2>2. editor'.saving = TRUE
    BY <1>6, Zenon DEF StartSave, TypeOK, Editor
  <2>3. \A s \in saves : s.mount # "open"
    BY <1>6 DEF StartSave, CanSave, SavesInv
  <2> QED
    BY <1>6, <2>1, <2>2, <2>3 DEF StartSave, SavesInv
<1>7. ASSUME NEW s \in saves, NEW r, r.mount = s.mount, saves' = (saves \ {s}) \cup {r},
             UNCHANGED tabVars
      PROVE  SavesInv'
  BY <1>7 DEF SavesInv
<1>8. ASSUME NEW s \in saves, Read(s) PROVE SavesInv'
  <2>1. [s EXCEPT !.stage = "sent", !.patch = Mask(s)].mount = s.mount
    BY <1>0, SMT DEF Save
  <2> QED
    BY <1>7, <1>8, <2>1 DEF Read
<1>9. ASSUME NEW s \in saves, Land(s) PROVE SavesInv'
  <2>1. PICK stamp : saves' = (saves \ {s}) \cup
               IF s.mount = "gone" THEN {}
               ELSE {[s EXCEPT !.stage = "landed", !.stamp = stamp]}
    BY <1>9, Zenon DEF Land
  <2>2. [s EXCEPT !.stage = "landed", !.stamp = stamp].mount = s.mount
    BY <1>0, SMT DEF Save
  <2>3. CASE s.mount = "gone"
    BY <1>9, <2>1, <2>3 DEF Land, SavesInv
  <2>4. CASE s.mount # "gone"
    BY <1>7, <1>9, <2>1, <2>2, <2>4 DEF Land
  <2> QED
    BY <2>3, <2>4
<1>10. ASSUME NEW s \in saves, NoChanges(s) \/ Finish(s) PROVE SavesInv'
  BY <1>10, EndedSaves DEF NoChanges, Finish
<1>11. ASSUME NEW s \in saves, Fail(s) PROVE SavesInv'
  <2>1. CASE s.mount = "open"
    BY <1>11, <2>1 DEF Fail, SavesInv
  <2>2. CASE s.mount # "open"
    BY <1>11, <2>2 DEF Fail, SavesInv
  <2> QED
    BY <2>1, <2>2
<1>12. ASSUME NEW t \in Texts, OtherWrite(t) PROVE SavesInv'
  BY <1>12 DEF OtherWrite, SavesInv
<1>13. ASSUME NEW t \in Texts, NEW lands \in BOOLEAN, PreviewEdit(t, lands) PROVE SavesInv'
  BY <1>13 DEF PreviewEdit, SavesInv
<1>14. CASE UNCHANGED vars
  BY <1>14 DEF vars, SavesInv
<1> QED
  BY <1>1, <1>2, <1>3, <1>4, <1>5, <1>6, <1>8, <1>9, <1>10, <1>11, <1>12, <1>13, <1>14
  DEF Next, User, Browser, Tick, SaveNow, Exchange, Environment

-----------------------------------------------------------------------------
(* A discarded draft stays discarded. *)

\* No step brings back a draft that a save or Cancel has dropped.
LEMMA StepDiscard == TypeOK /\ SavesInv /\ DiscardSticks /\ [Next]_vars => DiscardSticks'
<1> SUFFICES ASSUME TypeOK, SavesInv, DiscardSticks, [Next]_vars PROVE DiscardSticks'
  OBVIOUS
<1> USE DEF docVars, ghosts, tabVars, DiscardSticks
<1>1. CASE Open \/ Flush \/ Return \/ Refetch \/ ToggleAuto \/ Expire \/ Debounced
  BY <1>1 DEF Open, Debounced, Flush, Return, Refetch, ToggleAuto, Expire, SavesInv
<1>2. ASSUME NEW t \in Texts, Type(t) PROVE DiscardSticks'
  BY <1>2 DEF Type
<1>3. CASE Cancel \/ Leave
  BY <1>3 DEF Cancel, Leave, Close, Dropped
<1>4. ASSUME NEW crash \in BOOLEAN, Reload(crash) PROVE DiscardSticks'
  BY <1>4 DEF Reload, Close
<1>5. ASSUME NEW silent \in BOOLEAN, StartSave(silent) PROVE DiscardSticks'
  BY <1>5 DEF StartSave
<1>6. ASSUME NEW s \in saves, NEW how, Ended(s, how) PROVE DiscardSticks'
  <2>1. CASE SavedQuietly(s)
    BY <1>6, <2>1 DEF SavedQuietly
  <2>2. CASE UNCHANGED <<tabVars, exit, foreign>>
    BY <2>2
  <2>3. CASE SavedAndClosed(s, how)
    BY <2>3 DEF SavedAndClosed, Close, Dropped
  <2> QED
    BY <1>6, <2>1, <2>2, <2>3 DEF Ended
<1>7. ASSUME NEW s \in saves, Read(s) \/ Land(s) \/ NoChanges(s) \/ Finish(s) \/ Fail(s)
      PROVE  DiscardSticks'
  BY <1>6, <1>7 DEF Read, Land, NoChanges, Finish, Fail
<1>8. ASSUME NEW t \in Texts, OtherWrite(t) PROVE DiscardSticks'
  BY <1>8 DEF OtherWrite
<1>9. ASSUME NEW t \in Texts, NEW lands \in BOOLEAN, PreviewEdit(t, lands) PROVE DiscardSticks'
  BY <1>9 DEF PreviewEdit
<1>10. CASE UNCHANGED vars
  BY <1>10 DEF vars
<1> QED
  BY <1>1, <1>2, <1>3, <1>4, <1>5, <1>7, <1>8, <1>9, <1>10
  DEF Next, User, Browser, Tick, SaveNow, Exchange, Environment

\* Once the user has saved or cancelled, no closed editor and no save still
\* under way leaves a draft that the next editor would restore.
THEOREM Discarded == Spec => []DiscardSticks
<1>1. Init => TypeOK /\ SavesInv /\ DiscardSticks
  BY InitType, InitSaves DEF Init, DiscardSticks
<1> QED
  BY <1>1, StepType, StepSaves, StepDiscard, PTL DEF Spec

-----------------------------------------------------------------------------
(* The open editor knows the time of its own writes. *)

\* The end of a save hands the editor the document's time.
LEMMA EndedSync ==
  ASSUME TypeOK, SavesInv, SyncInv, NEW s \in saves, NEW how, Ended(s, how),
         saves' = Rest(s), server' = server,
         s.stage = "landed" \/ s.stamp = server.stamp
  PROVE  SyncInv'
<1> USE DEF SyncInv, InSync
<1>1. CASE s.silent /\ s.mount = "open" /\ SavedQuietly(s)
  <2>1. editor'.stamp = s.stamp
    BY <1>1, Zenon DEF SavedQuietly, TypeOK, Editor
  <2>2. place = "edit"
    BY <1>1 DEF SavesInv
  <2>3. \A r \in saves' : r \in saves /\ r.mount # "open"
    BY <1>1 DEF Rest, SavesInv
  <2> QED
    BY <1>1, <2>1, <2>2, <2>3 DEF SavedQuietly
<1>2. CASE s.silent /\ s.mount = "closed" /\ UNCHANGED <<tabVars, exit, foreign, faults>>
  BY <1>2 DEF Rest, tabVars
<1>3. CASE ~s.silent /\ SavedAndClosed(s, how)
  <2>1. place' # "edit"
    BY <1>3 DEF SavedAndClosed, Close
  <2> QED
    BY <2>1
<1> QED
  BY <1>1, <1>2, <1>3 DEF Ended

\* No step of the open editor loses the time of its own writes.
LEMMA StepSync == TypeOK /\ SavesInv /\ SyncInv /\ [Next]_vars => SyncInv'
<1> SUFFICES ASSUME TypeOK, SavesInv, SyncInv, [Next]_vars PROVE SyncInv'
  OBVIOUS
<1> USE DEF docVars, ghosts, tabVars, SyncInv, InSync
<1>0. saves \subseteq Save
  BY DEF TypeOK
<1>1. CASE Open
  <2>1. editor'.stamp = memo.stamp /\ \A s \in saves : s.mount # "open"
    BY <1>1 DEF Open, Mounted, SavesInv
  <2> QED
    BY <1>1, <2>1 DEF Open
<1>2. ASSUME NEW t \in Texts, Type(t) PROVE SyncInv'
  <2>1. editor'.stamp = editor.stamp
    BY <1>2, Zenon DEF Type, TypeOK, Editor
  <2> QED
    BY <1>2, <2>1 DEF Type
<1>3. CASE Flush \/ Return \/ Refetch \/ ToggleAuto \/ Expire \/ Debounced
  BY <1>3 DEF Debounced, Flush, Return, Refetch, ToggleAuto, Expire
<1>4. CASE Cancel \/ Leave
  BY <1>4 DEF Cancel, Leave, Close
<1>5. ASSUME NEW crash \in BOOLEAN, Reload(crash) PROVE SyncInv'
  BY <1>5 DEF Reload, Close
<1>6. ASSUME NEW silent \in BOOLEAN, StartSave(silent) PROVE SyncInv'
  <2> DEFINE r == [mount |-> "open", silent |-> silent,
                   text |-> editor.text, stamp |-> editor.stamp, stage |-> "reading",
                   patch |-> {}]
  <2>1. r.stage = "reading" /\ saves' = saves \cup {r}
    BY <1>6, Zenon DEF StartSave
  <2>2. editor'.stamp = editor.stamp
    BY <1>6, Zenon DEF StartSave, TypeOK, Editor
  <2> HIDE DEF r
  <2> QED
    BY <1>6, <2>1, <2>2 DEF StartSave
<1>7. ASSUME NEW s \in saves, Read(s) PROVE SyncInv'
  <2> DEFINE r == [s EXCEPT !.stage = "sent", !.patch = Mask(s)]
  <2>1. r.stage = "sent" /\ saves' = (saves \ {s}) \cup {r} /\ s.stage = "reading"
    BY <1>0, <1>7, SMT DEF Read, Save
  <2> HIDE DEF r
  <2> QED
    BY <1>7, <2>1 DEF Read
<1>8. ASSUME NEW s \in saves, Land(s) PROVE SyncInv'
  <2>1. CASE s.mount = "open"
    <3>1. PICK stamp, text : /\ saves' = (saves \ {s}) \cup
                                           {[s EXCEPT !.stage = "landed", !.stamp = stamp]}
                             /\ server' = [text |-> text, stamp |-> stamp]
      BY <1>8, <2>1, Zenon DEF Land
    <3> DEFINE r == [s EXCEPT !.stage = "landed", !.stamp = stamp]
    <3>2. r.stage = "landed" /\ r.stamp = server'.stamp /\ r.mount = "open"
      BY <1>0, <2>1, <3>1, SMT DEF Save
    <3>3. \A q \in saves \ {s} : q.mount # "open"
      BY <2>1 DEF SavesInv
    <3>4. saves' = (saves \ {s}) \cup {r}
      BY <3>1
    <3> HIDE DEF r
    <3> QED
      BY <3>2, <3>3, <3>4
  <2>2. CASE s.mount # "open"
    BY <1>8, <2>2 DEF Land
  <2> QED
    BY <2>1, <2>2
<1>9. ASSUME NEW s \in saves, NoChanges(s) PROVE SyncInv'
  <2>1. s.stamp = server.stamp
    BY <1>9 DEF NoChanges, Mask
  <2> QED
    BY <1>9, <2>1, EndedSync DEF NoChanges
<1>10. ASSUME NEW s \in saves, Finish(s) PROVE SyncInv'
  BY <1>10, EndedSync DEF Finish
<1>11. ASSUME NEW s \in saves, Fail(s) PROVE SyncInv'
  <2>1. CASE s.mount = "open"
    <3>1. editor'.stamp = editor.stamp
      BY <1>11, <2>1, Zenon DEF Fail, TypeOK, Editor
    <3>2. \A q \in saves \ {s} : q.mount # "open"
      BY <2>1 DEF SavesInv
    <3> QED
      BY <1>11, <2>1, <3>1, <3>2 DEF Fail
  <2>2. CASE s.mount # "open"
    BY <1>11, <2>2 DEF Fail
  <2> QED
    BY <2>1, <2>2
<1>12. ASSUME NEW t \in Texts, OtherWrite(t) PROVE SyncInv'
  BY <1>12 DEF OtherWrite
<1>13. ASSUME NEW t \in Texts, NEW lands \in BOOLEAN, PreviewEdit(t, lands) PROVE SyncInv'
  BY <1>13 DEF PreviewEdit
<1>14. CASE UNCHANGED vars
  BY <1>14 DEF vars
<1> QED
  BY <1>1, <1>2, <1>3, <1>4, <1>5, <1>6, <1>7, <1>8, <1>9, <1>10, <1>11, <1>12, <1>13, <1>14
  DEF Next, User, Browser, Tick, SaveNow, Exchange, Environment

\* The open editor, unless others wrote or an answer was lost, knows the
\* document's update time: its timed saves cannot push the time back.
THEOREM TimeKnown == Spec => []InSync
<1>1. Init => TypeOK /\ SavesInv /\ SyncInv
  BY InitType, InitSaves DEF Init, SyncInv, InSync
<1>2. SyncInv => InSync
  BY DEF SyncInv
<1> QED
  BY <1>1, <1>2, StepType, StepSaves, StepSync, PTL DEF Spec

-----------------------------------------------------------------------------
(* No typed text is lost. *)

\* The end of a save settles the text it held before the draft is dropped.
LEMMA EndedWork ==
  ASSUME TypeOK, SavesInv, ButtonInv, WorkKept, NEW s \in saves, NEW how,
         Ended(s, how), saves' = Rest(s), work' = Settled(s)
  PROVE  (ButtonInv /\ WorkKept)'
<1> USE DEF ButtonInv, WorkKept
<1>1. CASE s.silent /\ s.mount = "open" /\ SavedQuietly(s)
  <2>1. editor'.text = editor.text
    BY <1>1, Zenon DEF SavedQuietly, TypeOK, Editor
  <2>2. saves' \subseteq saves /\ work' \in {None, work}
    BY <1>1 DEF Rest, Settled
  <2> QED
    BY <1>1, <2>1, <2>2 DEF SavedQuietly
<1>2. CASE s.silent /\ UNCHANGED <<tabVars, exit, foreign, faults>>
  BY <1>2 DEF Rest, Settled, tabVars
<1>3. CASE ~s.silent /\ SavedAndClosed(s, how)
  <2>1. work' = None
    BY <1>3 DEF Settled, SavedAndClosed
  <2>2. place' # "edit"
    BY <1>3 DEF SavedAndClosed, Close
  <2>3. \A r \in saves' : r.mount # "open"
    <3>1. saves' = Orphaned(saves \ {s})
      BY <1>3 DEF Rest
    <3> QED
      BY <3>1, OrphanedFacts DEF TypeOK
  <2> QED
    BY <2>1, <2>2, <2>3
<1> QED
  BY <1>1, <1>2, <1>3 DEF Ended

\* No step loses text typed while no save of the button is under way.
LEMMA StepWork ==
  ASSUME ~WhileSaving
  PROVE  TypeOK /\ SavesInv /\ ButtonInv /\ WorkKept /\ [Next]_vars => (ButtonInv /\ WorkKept)'
<1> SUFFICES ASSUME TypeOK, SavesInv, ButtonInv, WorkKept, [Next]_vars
             PROVE  (ButtonInv /\ WorkKept)'
  OBVIOUS
<1> USE DEF docVars, ghosts, tabVars
<1>0. saves \in SUBSET Save
  BY DEF TypeOK
<1>1. CASE Open
  <2>2. work # None => editor'.text = work
    BY <1>1 DEF Open, Mounted, Restored, Restorable, WorkKept
  <2> QED
    BY <1>1, <2>2 DEF Open, ButtonInv, WorkKept
<1>2. ASSUME NEW t \in Texts, Type(t) PROVE (ButtonInv /\ WorkKept)'
  <2>1. editor'.text = t
    BY <1>2, Zenon DEF Type, TypeOK, Editor
  <2>2. CASE work' = None
    BY <1>2, <2>2 DEF Type, ButtonInv, WorkKept
  <2>3. CASE work' # None
    <3>1. work' = t /\ ~ManualUnderWay
      BY <1>2, <2>3 DEF Type
    <3>2. \A s \in saves : s.silent \/ s.mount = "gone"
      BY <3>1, Zenon DEF ManualUnderWay
    <3>3. ButtonInv'
      BY <1>2, <3>2, Zenon DEF Type, ButtonInv
    <3> QED
      BY <1>2, <2>1, <3>1, <3>3 DEF Type, WorkKept
  <2> QED
    BY <2>2, <2>3
<1>3. CASE Return \/ Refetch \/ ToggleAuto \/ Expire
  BY <1>3 DEF Return, Refetch, ToggleAuto, Expire, ButtonInv, WorkKept
<1>4. CASE Debounced \/ Flush
  BY <1>4 DEF Debounced, Flush, SavesInv, ButtonInv, WorkKept
<1>5. CASE Cancel \/ (place = "edit" /\ Leave)
  <2>1. saves' = Orphaned(saves) /\ place' # "edit"
    BY <1>5 DEF Cancel, Leave, Close
  <2>2. work' = None \/ (work' = work /\ draft' = Flushed /\ place = "edit")
    BY <1>5 DEF Cancel, Leave, Close
  <2>3. WorkKept'
    BY <2>1, <2>2 DEF WorkKept, Flushed, Written, TypeOK
  <2>4. ButtonInv'
    <3> SUFFICES ASSUME NEW r \in Orphaned(saves)
                 PROVE  ~r.silent /\ r.mount # "gone" => work' \in {None, r.text}
      BY <2>1, Zenon DEF ButtonInv
    <3>1. \A s \in saves : ~s.silent /\ s.mount # "gone" => work \in {None, s.text}
      BY Zenon DEF ButtonInv
    <3>2. ~r.silent /\ r.mount # "gone" => work \in {None, r.text}
      BY <1>0, <3>1, OrphanedFacts, Zenon
    <3> QED
      BY <2>2, <3>2
  <2> QED
    BY <2>3, <2>4
<1>6. CASE place = "preview" /\ Leave
  BY <1>6 DEF Leave, ButtonInv, WorkKept
<1>7. ASSUME NEW crash \in BOOLEAN, Reload(crash) PROVE (ButtonInv /\ WorkKept)'
  <2>1. \A r \in saves' : r.mount = "gone"
    <3> SUFFICES ASSUME NEW r \in saves' PROVE r.mount = "gone"
      OBVIOUS
    <3>1. PICK s \in saves : r = [s EXCEPT !.mount = "gone"]
      BY <1>7 DEF Reload
    <3> QED
      BY <1>0, <3>1, SMT DEF Save
  <2>2. WorkKept'
    BY <1>7 DEF Reload, Close, WorkKept, Flushed, Written, TypeOK
  <2> QED
    BY <2>1, <2>2 DEF ButtonInv
<1>8. ASSUME NEW silent \in BOOLEAN, StartSave(silent) PROVE (ButtonInv /\ WorkKept)'
  <2> DEFINE r == [mount |-> "open", silent |-> silent,
                   text |-> editor.text, stamp |-> editor.stamp, stage |-> "reading",
                   patch |-> {}]
  <2>1. r.mount = "open" /\ r.text = editor.text /\ saves' = saves \cup {r}
    BY <1>8, Zenon DEF StartSave
  <2>2. editor'.text = editor.text
    BY <1>8, Zenon DEF StartSave, TypeOK, Editor
  <2> HIDE DEF r
  <2> QED
    BY <1>8, <2>1, <2>2 DEF StartSave, ButtonInv, WorkKept
<1>9. ASSUME NEW s \in saves, NEW r, r.mount = s.mount, r.silent = s.silent, r.text = s.text,
             saves' = (saves \ {s}) \cup {r}, UNCHANGED tabVars, work' \in {None, work}
      PROVE  (ButtonInv /\ WorkKept)'
  BY <1>9 DEF ButtonInv, WorkKept
<1>10. ASSUME NEW s \in saves, Read(s) PROVE (ButtonInv /\ WorkKept)'
  <2> DEFINE r == [s EXCEPT !.stage = "sent", !.patch = Mask(s)]
  <2>1. r.mount = s.mount /\ r.silent = s.silent /\ r.text = s.text
    BY <1>0, SMT DEF Save
  <2>2. saves' = (saves \ {s}) \cup {r}
    BY <1>10 DEF Read
  <2> HIDE DEF r
  <2> QED
    BY <1>9, <1>10, <2>1, <2>2 DEF Read
<1>11. ASSUME NEW s \in saves, Land(s) PROVE (ButtonInv /\ WorkKept)'
  <2>0. work' \in {None, work}
    BY <1>11 DEF Land, Settled
  <2>1. CASE s.mount = "gone"
    BY <1>11, <2>0, <2>1 DEF Land, ButtonInv, WorkKept
  <2>2. CASE s.mount # "gone"
    <3>0. PICK stamp : saves' = (saves \ {s}) \cup
               IF s.mount = "gone" THEN {}
               ELSE {[s EXCEPT !.stage = "landed", !.stamp = stamp]}
      BY <1>11, Zenon DEF Land
    <3>1. saves' = (saves \ {s}) \cup {[s EXCEPT !.stage = "landed", !.stamp = stamp]}
      BY <2>2, <3>0
    <3> DEFINE r == [s EXCEPT !.stage = "landed", !.stamp = stamp]
    <3>2. r.mount = s.mount /\ r.silent = s.silent /\ r.text = s.text
      BY <1>0, SMT DEF Save
    <3>3. saves' = (saves \ {s}) \cup {r}
      BY <3>1
    <3> HIDE DEF r
    <3> QED
      BY <1>9, <1>11, <2>0, <3>2, <3>3 DEF Land
  <2> QED
    BY <2>1, <2>2
<1>12. ASSUME NEW s \in saves, NoChanges(s) \/ Finish(s) PROVE (ButtonInv /\ WorkKept)'
  BY <1>12, EndedWork DEF NoChanges, Finish
<1>13. ASSUME NEW s \in saves, Fail(s) PROVE (ButtonInv /\ WorkKept)'
  <2>1. editor'.text = editor.text
    BY <1>13, Zenon DEF Fail, TypeOK, Editor
  <2> QED
    BY <1>13, <2>1 DEF Fail, ButtonInv, WorkKept
<1>14. ASSUME NEW t \in Texts, OtherWrite(t) PROVE (ButtonInv /\ WorkKept)'
  BY <1>14 DEF OtherWrite, ButtonInv, WorkKept
<1>15. ASSUME NEW t \in Texts, NEW lands \in BOOLEAN, PreviewEdit(t, lands)
       PROVE  (ButtonInv /\ WorkKept)'
  BY <1>15 DEF PreviewEdit, ButtonInv, WorkKept
<1>16. CASE UNCHANGED vars
  BY <1>16 DEF vars, ButtonInv, WorkKept
<1> QED
  BY <1>1, <1>2, <1>3, <1>4, <1>5, <1>6, <1>7, <1>8, <1>10, <1>11, <1>12, <1>13, <1>14, <1>15, <1>16
  DEF Next, User, Browser, Tick, SaveNow, Exchange, Environment, Leave

\* What is typed while no save of the Save button is under way is in the editor
\* or in the draft until it is saved or given up.
THEOREM WorkSafe ==
  ASSUME ~WhileSaving
  PROVE  Spec => []WorkKept
<1>1. Init => TypeOK /\ SavesInv /\ ButtonInv /\ WorkKept
  BY InitType, InitSaves DEF Init, ButtonInv, WorkKept
<1>2. TypeOK /\ SavesInv /\ ButtonInv /\ WorkKept /\ [Next]_vars
        => (TypeOK /\ SavesInv /\ ButtonInv /\ WorkKept)'
  BY StepType, StepSaves, StepWork
<1> QED
  BY <1>1, <1>2, PTL DEF Spec
=============================================================================
