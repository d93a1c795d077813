--------------------------- MODULE DocumentEditor ---------------------------
(***************************************************************************)
(* One document in one browser tab: the notebook's DocumentView, the       *)
(* MemoEditor it mounts in edit mode, the draft the editor keeps in        *)
(* localStorage, the saves it has under way (the Save button's and the     *)
(* timer's) and the document as the server holds it, which other people    *)
(* and agents write too.                                                   *)
(*                                                                         *)
(* A save is three exchanges with the server (memoService.save reads the   *)
(* document, diffs, and sends the difference) and a wait for the caches it *)
(* invalidates; everything else may happen between any two of them, the    *)
(* editor's own end included.                                              *)
(***************************************************************************)
EXTENDS Naturals

CONSTANTS
  Texts,      \* what a document can say
  Blank,      \* the text that trims to nothing
  None,
  WhileSaving,\* text typed while a save of the button is under way is owed too
  MaxTyped,   \* bound on changes of the text by typing
  MaxOthers,  \* bound on writes by others and edits made in the preview
  MaxFaults   \* bound on failed exchanges, reloads, crashes and saves whose
              \* editor is closed while they are under way

ASSUME TextsAssumption == Blank \in Texts /\ None \notin Texts
ASSUME WhileSavingAssumption == WhileSaving \in BOOLEAN

VARIABLES
  server,   \* the document: its text and update time
  memo,     \* the tab's cached copy, which DocumentView passes to the editor
  place,    \* the document previewed or edited, or another one open
  editor,   \* the mounted editor's store and refs
  saves,    \* saves under way, also those whose editor is gone
  draft,    \* the localStorage entry
  pending,  \* the debounced write of the draft
  auto,     \* usePeriodicSavePreference for this document
  now,      \* the server's clock: one tick per write
  \* What the user is owed, kept for the properties.
  work,     \* the text typed that neither a save nor the user has disposed of
  exit,     \* how the last editor closed
  foreign,  \* the document changed without the open editor being told
  typed, others, faults

docVars == <<server, now>>
tabVars == <<place, editor, draft, pending>>
ghosts == <<work, exit, foreign>>
vars == <<server, memo, place, editor, saves, draft, pending, auto, now,
          work, exit, foreign, typed, others, faults>>

Doc == [text : Texts, stamp : Nat]
Editor == [text : Texts, stamp : Nat, saving : BOOLEAN,
           last : Texts \cup {None}]
Save == [mount : {"open", "closed", "gone"}, silent : BOOLEAN,
         text : Texts, stamp : Nat, stage : {"reading", "sent", "landed"},
         patch : SUBSET {"text", "stamp"}]

TypeOK ==
  /\ server \in Doc
  /\ memo \in Doc
  /\ place \in {"preview", "edit", "away"}
  /\ editor \in Editor
  /\ saves \in SUBSET Save
  /\ draft \in (Texts \ {Blank}) \cup {None}
  /\ pending \in Texts \cup {None}
  /\ auto \in BOOLEAN
  /\ now \in Nat
  /\ work \in (Texts \ {Blank}) \cup {None}
  /\ exit \in {"left", "saved", "cancelled"}
  /\ foreign \in BOOLEAN
  /\ typed \in Nat /\ others \in Nat /\ faults \in Nat

-----------------------------------------------------------------------------
(* The draft: cacheService, useAutoSave and useMemoInit. *)

WrittenBlank(t) == t  \* a slip: a blank text is kept too
\* What writeEntry leaves in localStorage: no entry for a blank text.
Written(t) == IF t = Blank THEN None ELSE t

\* createInitialState, and the refs of an editor that has just mounted on a
\* document: useMemoInit takes the draft when it differs from the document.
Mounted(t, doc) ==
  [text |-> t, stamp |-> doc.stamp, saving |-> FALSE, last |-> None]

Unmounted == [text |-> Blank, stamp |-> 0, saving |-> FALSE, last |-> None]

Restorable == draft # None /\ draft # memo.text

Restored == IF Restorable THEN draft ELSE memo.text

\* The editor has saves of its own under way.
Deserts == \E s \in saves : s.mount = "open"

\* The saves of an editor that unmounts go on without it.
Orphaned(ss) == {[s EXCEPT !.mount = IF @ = "open" THEN "closed" ELSE @] : s \in ss}

FlushedLate == draft  \* a slip: the unmounting editor does not flush
\* The flush of an unmounting editor: it writes what the editor shows, unless
\* that is what discardDraft has just dropped.
Flushed == Written(editor.text)
DroppedFlushed == Flushed  \* a slip: the flush writes the dropped text back
Dropped == None

\* A step that closes the editor on saves of its own is bounded.
Bounded == faults' = (IF Deserts THEN faults + 1 ELSE faults) /\ faults' <= MaxFaults

\* The editor goes, leaving draft d behind.
Close(d, where, how) ==
  /\ place' = where
  /\ editor' = Unmounted
  /\ draft' = d
  /\ pending' = None
  /\ exit' = how
  /\ foreign' = FALSE

-----------------------------------------------------------------------------
(* The user, in DocumentView and in the editor. *)

ManualUnderWay == \E s \in saves : ~s.silent /\ s.mount # "gone"

Open ==
  /\ place = "preview"
  /\ place' = "edit"
  /\ editor' = Mounted(Restored, memo)
  /\ draft' = IF Restorable THEN draft ELSE None
  /\ pending' = Restored
  /\ foreign' = (memo.stamp # server.stamp)
  /\ UNCHANGED <<docVars, memo, saves, auto, work, exit, typed, others, faults>>

\* A keystroke: the reducer stores the text, useAutoSave's subscription starts
\* the debounce again. A blank text is never kept, a text the timer has already
\* saved is not owed any more, and what is typed while a save of the button is
\* under way goes when that save ends and closes the editor.
Type(t) ==
  /\ place = "edit"
  /\ typed < MaxTyped
  /\ t # editor.text
  /\ editor' = [editor EXCEPT !.text = t]
  /\ pending' = t
  /\ work' = IF t \in {Blank, editor.last} \/ (ManualUnderWay /\ ~WhileSaving)
             THEN None ELSE t
  /\ typed' = typed + 1
  /\ UNCHANGED <<docVars, memo, place, saves, draft, auto, exit, foreign,
                 others, faults>>

\* The debounce of cacheService.save runs out.
Debounced ==
  /\ pending # None
  /\ draft' = Written(pending)
  /\ pending' = None
  /\ UNCHANGED <<docVars, memo, place, editor, saves, auto, ghosts, typed,
                 others, faults>>

\* flushDraft: the tab is hidden or loses focus, or a minute has passed.
Flush ==
  /\ place = "edit"
  /\ draft' = Flushed
  /\ pending' = None
  /\ UNCHANGED <<docVars, memo, place, editor, saves, auto, ghosts, typed,
                 others, faults>>

\* handleCancel: the draft is dropped and the preview shown.
Cancel ==
  /\ place = "edit"
  /\ Close(Dropped, "preview", "cancelled")
  /\ saves' = Orphaned(saves)
  /\ Bounded
  /\ work' = None
  /\ UNCHANGED <<docVars, memo, auto, typed, others>>

\* Another document is opened in the notebook: the editor, keyed by the
\* document, unmounts.
Leave ==
  /\ place # "away"
  /\ \/ /\ place = "edit"
        /\ Close(Flushed, "away", "left")
        /\ saves' = Orphaned(saves)
        /\ Bounded
     \/ /\ place = "preview"
        /\ place' = "away"
        /\ UNCHANGED <<editor, draft, pending, saves, exit, foreign, faults>>
  /\ UNCHANGED <<docVars, memo, auto, work, typed, others>>

\* Back to this document: always in the preview first.
Return ==
  /\ place = "away"
  /\ place' = "preview"
  /\ UNCHANGED <<docVars, memo, editor, saves, draft, pending, auto, ghosts,
                 typed, others, faults>>

\* The page goes and comes back. Leaving it fires pagehide, which flushes the
\* draft; a crash does not, and loses what the debounce had not written. What
\* was sent may still reach the server.
Reload(crash) ==
  /\ faults < MaxFaults
  /\ faults' = faults + 1
  /\ IF place = "edit"
     THEN Close(IF crash THEN draft ELSE Flushed, "preview", "left")
     ELSE /\ place' = "preview"
          /\ UNCHANGED <<editor, draft, pending, exit, foreign>>
  /\ saves' = {[s EXCEPT !.mount = "gone"] : s \in {r \in saves : r.stage = "sent"}}
  /\ work' = IF crash /\ draft # work THEN None ELSE work
  /\ memo' = server
  /\ UNCHANGED <<docVars, auto, typed, others>>

\* An hour after it was last written a draft no longer loads.
Expire ==
  /\ place # "edit" /\ draft # None
  /\ draft' = None
  /\ work' = None
  /\ UNCHANGED <<docVars, memo, place, editor, saves, pending, auto, exit,
                 foreign, typed, others, faults>>

\* setPeriodicSaveEnabled: the toggle beside the Save button.
ToggleAuto ==
  /\ place = "edit"
  /\ auto' = ~auto
  /\ UNCHANGED <<docVars, memo, tabVars, saves, ghosts, typed, others, faults>>

-----------------------------------------------------------------------------
(* Saving: saveMemo and memoService.save. *)

\* validationService.canSave, without attachments.
CanSave == editor.text # Blank /\ ~editor.saving

StartSave(silent) ==
  /\ place = "edit"
  /\ CanSave
  /\ saves' = saves \cup
       {[mount |-> "open", silent |-> silent,
         text |-> editor.text, stamp |-> editor.stamp, stage |-> "reading",
         patch |-> {}]}
  /\ editor' = [editor EXCEPT !.saving = TRUE]
  /\ UNCHANGED <<docVars, memo, place, draft, pending, auto, ghosts, typed,
                 others, faults>>

\* The Save button.
SaveNow == StartSave(FALSE)

\* handlePeriodicSave on a tick of the timer, or when the tab is hidden: only
\* for a text the timer has not saved last.
Tick ==
  /\ auto
  /\ editor.last # editor.text
  /\ StartSave(TRUE)

\* buildUpdateMask: what differs from the document as the server holds it now.
Mask(s) == {f \in {"text", "stamp"} : s[f] # server[f]}

SavedQuietlyStale(s) ==  \* a slip: the answer's update time is not taken
  /\ editor' = [editor EXCEPT !.saving = FALSE, !.last = s.text]
  /\ UNCHANGED <<place, draft, pending, exit, foreign>>
\* A timed save has ended well: the editor stays as it is.
SavedQuietly(s) ==
  /\ editor' = [editor EXCEPT !.saving = FALSE, !.stamp = s.stamp,
                               !.last = s.text]
  /\ UNCHANGED <<place, draft, pending, exit, foreign>>

\* A save of the button has ended: the draft is dropped and DocumentView shows
\* the preview, whichever editor it has open by then.
SavedAndClosed(s, how) ==
  \/ /\ s.mount = "open"
     /\ Close(Dropped, "preview", how)
     /\ UNCHANGED faults
  \/ /\ s.mount = "closed"
     /\ Bounded
     /\ IF place = "edit"
        THEN Close(Flushed, "preview", "left")
        ELSE /\ draft' = Dropped
             /\ pending' = None
             /\ UNCHANGED <<place, editor, exit, foreign>>

\* The other saves, when s has ended: the button's closes whatever is open.
Rest(s) == IF s.silent THEN saves \ {s} ELSE Orphaned(saves \ {s})

\* What saveMemo does when memoService.save has returned.
Ended(s, how) ==
  \/ s.silent /\ s.mount = "open" /\ SavedQuietly(s) /\ UNCHANGED faults
  \/ s.silent /\ s.mount = "closed" /\ UNCHANGED <<tabVars, exit, foreign, faults>>
  \/ ~s.silent /\ SavedAndClosed(s, how)

\* Work is disposed of by a save of that very text.
Settled(s) == IF s.text = work THEN None ELSE work

\* getMemo answers and something differs: updateMemo is sent.
Read(s) ==
  /\ s.stage = "reading"
  /\ Mask(s) # {}
  /\ saves' = (saves \ {s}) \cup {[s EXCEPT !.stage = "sent", !.patch = Mask(s)]}
  /\ UNCHANGED <<docVars, memo, tabVars, auto, ghosts, typed, others, faults>>

\* getMemo answers and nothing differs: the button's save acts as Cancel.
NoChanges(s) ==
  /\ s.stage = "reading"
  /\ Mask(s) = {}
  /\ saves' = Rest(s)
  /\ Ended(s, "cancelled")
  /\ work' = Settled(s)
  /\ UNCHANGED <<docVars, memo, auto, typed, others>>

\* UpdateMemo: the masked fields only, and the time the request carries; a
\* text without a time gets the server's.
Land(s) ==
  /\ s.stage = "sent"
  /\ LET text == IF "text" \in s.patch THEN s.text ELSE server.text
         stamp == IF "stamp" \in s.patch THEN s.stamp ELSE now + 1
     IN /\ server' = [text |-> text, stamp |-> stamp]
        /\ now' = IF "stamp" \in s.patch THEN now ELSE now + 1
        /\ saves' = (saves \ {s}) \cup
             IF s.mount = "gone" THEN {}
             ELSE {[s EXCEPT !.stage = "landed", !.stamp = stamp]}
  /\ work' = Settled(s)
  /\ foreign' = (foreign \/ (place = "edit" /\ s.mount # "open"))
  /\ UNCHANGED <<memo, tabVars, auto, exit, typed, others, faults>>

\* The answer is in and the invalidated queries have been fetched again (the
\* document's own only while it is shown).
Finish(s) ==
  /\ s.stage = "landed"
  /\ saves' = Rest(s)
  /\ Ended(s, "saved")
  /\ memo' = IF place = "away" THEN memo ELSE server
  /\ work' = Settled(s)
  /\ UNCHANGED <<docVars, auto, typed, others>>

FailBusy(s) ==  \* a slip: the editor still counts as saving
  /\ faults < MaxFaults
  /\ s.mount # "gone"
  /\ saves' = saves \ {s}
  /\ foreign' = (foreign \/ (s.mount = "open" /\ s.stage = "landed"))
  /\ faults' = faults + 1
  /\ UNCHANGED <<docVars, memo, tabVars, auto, work, exit, typed, others>>
\* An exchange fails: the request or, once it has landed, its answer is lost.
Fail(s) ==
  /\ faults < MaxFaults
  /\ s.mount # "gone"
  /\ saves' = saves \ {s}
  /\ editor' = IF s.mount = "open" THEN [editor EXCEPT !.saving = FALSE] ELSE editor
  /\ foreign' = (foreign \/ (s.mount = "open" /\ s.stage = "landed"))
  /\ faults' = faults + 1
  /\ UNCHANGED <<docVars, memo, place, draft, pending, auto, work, exit, typed, others>>

-----------------------------------------------------------------------------
(* The other writers of the document, and the tab's query cache. *)

\* Someone else, another of the user's tabs or an agent writes the document.
OtherWrite(t) ==
  /\ others < MaxOthers
  /\ t # server.text
  /\ server' = [text |-> t, stamp |-> now + 1]
  /\ now' = now + 1
  /\ others' = others + 1
  /\ foreign' = (place = "edit")
  /\ UNCHANGED <<memo, tabVars, saves, auto, work, exit, typed, faults>>

\* A change made in the preview (a task ticked, a property set): useUpdateMemo
\* drops the document's draft before it sends the text it has computed.
PreviewEdit(t, lands) ==
  /\ place = "preview"
  /\ others < MaxOthers
  /\ t # memo.text
  /\ draft' = None
  /\ work' = None
  /\ IF lands THEN /\ server' = [text |-> t, stamp |-> now + 1]
                   /\ now' = now + 1
                   /\ memo' = server'
              ELSE UNCHANGED <<docVars, memo>>
  /\ others' = others + 1
  /\ UNCHANGED <<place, editor, saves, pending, auto, exit, foreign,
                 typed, faults>>

\* The detail query is fetched again (an event, focus, age): the editor, which
\* has initialised itself once, does not take the new text.
Refetch ==
  /\ memo # server
  /\ memo' = server
  /\ UNCHANGED <<docVars, tabVars, saves, auto, ghosts, typed, others, faults>>

-----------------------------------------------------------------------------

Init ==
  /\ \E t \in Texts : server = [text |-> t, stamp |-> 1]
  /\ memo = server
  /\ place = "preview"
  /\ editor = Unmounted
  /\ saves = {}
  /\ draft = None /\ pending = None
  /\ auto = FALSE
  /\ now = 1
  /\ work = None /\ exit = "left" /\ foreign = FALSE
  /\ typed = 0 /\ others = 0 /\ faults = 0

User ==
  \/ Open \/ Cancel \/ Leave \/ Return \/ SaveNow \/ ToggleAuto
  \/ \E t \in Texts : Type(t)

Browser ==
  \/ Debounced \/ Flush \/ Expire \/ Refetch
  \/ \E crash \in BOOLEAN : Reload(crash)

Exchange ==
  \E s \in saves : Read(s) \/ NoChanges(s) \/ Land(s) \/ Finish(s)

Environment ==
  \/ \E s \in saves : Fail(s)
  \/ \E t \in Texts : OtherWrite(t)
  \/ \E t \in Texts, lands \in BOOLEAN : PreviewEdit(t, lands)

Next == User \/ Browser \/ Tick \/ Exchange \/ Environment

Spec == Init /\ [][Next]_vars

\* The timer ticks and requests are answered or fail; nothing is asked of the user.
FairSpec == Spec /\ WF_vars(Tick) /\ WF_vars(Exchange)

-----------------------------------------------------------------------------

\* What the user has typed and neither saved, cancelled nor replaced is in the
\* editor while it is open, and in the draft once it is not: however the editor
\* went, whatever its saves did and whatever others wrote meanwhile. (What the
\* code gives up is no longer owed: a draft an hour old, one dropped by a change
\* in the preview, what a crash costs, which is all that was typed without a
\* pause of half a second, up to the flush of every minute, and, unless
\* WhileSaving, what is typed while a save of the button is under way.)
WorkKept ==
  work # None => IF place = "edit" THEN editor.text = work ELSE draft = work

\* A draft the user has disposed of, by saving or by cancelling, does not come
\* back: the flush of the closing editor leaves nothing to restore.
DiscardSticks ==
  place # "edit" /\ exit \in {"saved", "cancelled"} => draft = None /\ pending = None

\* As long as only the open editor has written the document and every answer
\* has reached it, it knows the document's update time (or is about to be
\* told): its timed saves never push the time back.
InSync ==
  place = "edit" /\ ~foreign =>
    \/ editor.stamp = server.stamp
    \/ \E s \in saves : s.mount = "open" /\ s.stage = "landed" /\ s.stamp = server.stamp

\* With the timer on, a text left in the editor is saved.
TimedSaves ==
  \A t \in Texts \ {Blank} :
    (work = t /\ place = "edit" /\ auto) ~> (work # t \/ place # "edit" \/ ~auto)
=============================================================================
