---------------------------- MODULE MemoVersions ----------------------------
(***************************************************************************)
(* The versions of one document: what is kept of it before a save nobody   *)
(* asked for, before an agent's write and when a person names or restores  *)
(* a version, and the payload bit that says who wrote the stored text.     *)
(* UpdateMemo (memo_service.go), snapshotAutoVersionIfNeeded,              *)
(* snapshotHumanBaselineIfNeeded, CreateMemoHistory, RestoreMemoHistory,   *)
(* AcknowledgeAgentEdit and PruneAutoMemoHistories.                        *)
(*                                                                         *)
(* Requests run concurrently in slots, and a step of a request is one SQL  *)
(* statement: the memo is loaded first, and everything later works on that *)
(* copy.  Texts and attachments are model values; HashMemoState compares a *)
(* text and a set of attachments.  Titles, which the hash leaves out, and  *)
(* everything else in a payload are left out.                              *)
(***************************************************************************)
EXTENDS Naturals, FiniteSets

CONSTANTS
  Texts,        \* contents of the document
  Atts,         \* its attachments
  Slots,        \* requests in flight at a time
  Kinds,        \* the requests that are made in each slot
  Keep,         \* AutoMemoHistoryMaxCount
  MaxAge,       \* AutoMemoHistoryMaxAge
  MinInterval,  \* autoVersionMinInterval
  MaxTime,      \* bound on the clock
  MaxRows       \* bound on the versions ever written

\* Saves a person asked for, the first and the periodic saves of an editor, an
\* agent's write; naming and restoring a version; acknowledging an agent's edit;
\* a write of any other payload field.
Writing  == {"save", "start", "periodic", "agent"}
AllKinds == Writing \cup {"version", "restore", "ack", "chrome"}

ASSUME KindAssumption == Kinds \in [Slots -> SUBSET AllKinds]
ASSUME SlotsAssumption == IsFiniteSet(Slots)
ASSUME KeepAssumption == Keep \in Nat \ {0}
ASSUME TimeAssumption == {MaxAge, MinInterval, MaxTime, MaxRows} \subseteq Nat

VARIABLES
  memo,     \* the stored text, agent_session_open and agent_edit_acknowledged
  linked,   \* attachments linked to the memo
  files,    \* attachments that exist
  hist,     \* memo_history
  next,     \* the next row's id
  now,      \* the clock
  req,      \* the request in each slot
  by,       \* history: who chose the stored text
  torn,     \* history: open was last written from a copy that was out of date
  handed,   \* history: any one thing a person wrote and an agent then overwrote
  unpruned  \* history: automatic versions inserted and not pruned after

stored == <<memo, linked, files>>
ghosts == <<by, torn, handed>>
vars == <<stored, hist, next, now, req, ghosts, unpruned>>

Authors == {"human", "agent"}
Sources == {"manual", "auto", "agent_baseline"}

Memos == [text: Texts, open: BOOLEAN, ack: BOOLEAN]
Rows  == [id: Nat, text: Texts, atts: SUBSET Atts, src: Sources, ts: Nat]
NoRow == [id |-> 0, src |-> "none"]
Free  == [pc |-> "free"]
Nothing == [text |-> "none"]

Autos(h)      == {r \in h : r.src = "auto"}
\* ORDER BY created_ts DESC, id DESC
Newer(r, s)   == r.ts > s.ts \/ (r.ts = s.ts /\ r.id > s.id)
Expired(r)    == r.ts + MaxAge < now
\* a slip: off by one
CrowdedLate(r, h) == Cardinality({s \in Autos(h) : Newer(s, r)}) > Keep
Crowded(r, h) == Cardinality({s \in Autos(h) : Newer(s, r)}) >= Keep
\* a slip: whatever made them
RetiredAny(h) == {r \in h : Expired(r) \/ Crowded(r, h)}
\* PruneAutoMemoHistories: the automatic rows retention no longer covers.
Retired(h)    == {r \in Autos(h) : Expired(r) \/ Crowded(r, h)}
\* a slip: the attachments are not hashed
MatchingByText(h, t, a) == {r \in h : r.text = t}
\* The versions HashMemoState cannot tell from text t with attachments a.
Matching(h, t, a) == {r \in h : r.text = t /\ r.atts = a}

Init ==
  /\ memo \in [text: Texts, open: BOOLEAN, ack: {FALSE}]
  /\ by = IF memo.open THEN "agent" ELSE "human"  \* CreateMemo sets the bit
  /\ linked = {} /\ files = Atts
  /\ hist = {} /\ next = 1 /\ now = 0
  /\ req = [i \in Slots |-> Free]
  /\ torn = FALSE /\ handed = Nothing /\ unpruned = 0

At(i, pc)   == req[i].pc = pc
Busy(i)     == ~At(i, "free")
Fresh(i, w) == w \in req[i].fresh
\* Slot i goes on as r; the copies other requests hold of w are out of date.
Outdate(w, i, r) ==
  req' = [j \in Slots |-> IF j = i THEN r
                          ELSE IF req[j].pc = "free" THEN req[j]
                          ELSE [req[j] EXCEPT !.fresh = @ \ w]]
Goto(i, pc) == req' = [req EXCEPT ![i].pc = pc]
End(i)      == req' = [req EXCEPT ![i] = Free]

\* a slip: the first save of an editor throttled like the others
FirstStepThrottled(k) ==
  CASE k = "save"                   -> "write"
    [] k \in {"start", "periodic"}  -> "throttle"
    [] k = "version"                -> "atts"
    [] k = "agent"                  -> IF memo.open THEN "write" ELSE "atts"
    [] k = "restore"                -> "list"
    [] k \in {"ack", "chrome"}      -> "payload"
\* The step after the load: what UpdateMemo snapshots and when, and what the
\* other requests read next.
FirstStep(k) ==
  CASE k = "save"                  -> "write"
    [] k = "periodic"              -> "throttle"
    [] k \in {"start", "version"}  -> "atts"
    [] k = "agent"                 -> IF memo.open THEN "write" ELSE "atts"
    [] k = "restore"               -> "list"
    [] k \in {"ack", "chrome"}     -> "payload"

\* A request arrives and loads the memo.  An acknowledgement of nothing pending
\* returns at once.
Load(i) ==
  /\ At(i, "free")
  /\ \E k \in Kinds[i] :
       /\ k = "ack" => memo.open /\ ~memo.ack
       /\ req' = [req EXCEPT ![i] = [pc |-> FirstStep(k), kind |-> k, memo |-> memo,
                                     atts |-> {}, row |-> NoRow, seen |-> {},
                                     fresh |-> IF k = "restore" THEN {"memo", "atts"} ELSE {"memo"}]]
  /\ UNCHANGED <<stored, hist, next, now, ghosts, unpruned>>

\* A periodic save within MinInterval of the last automatic version makes none.
Throttle(i) ==
  /\ At(i, "throttle")
  /\ Goto(i, IF \E r \in Autos(hist) : now < r.ts + MinInterval THEN "write" ELSE "atts")
  /\ UNCHANGED <<stored, hist, next, now, ghosts, unpruned>>

\* RestoreMemoHistory lists the versions, finds the one asked for and looks at
\* the others only to compare them with the loaded text.
List(i) ==
  /\ At(i, "list")
  /\ \E r \in hist :
       req' = [req EXCEPT ![i].pc = "atts", ![i].row = r,
                          ![i].seen = {s \in hist : s.text = req[i].memo.text}]
  /\ UNCHANGED <<stored, hist, next, now, ghosts, unpruned>>

\* The attachments linked now.  A restore goes on only if the state it loaded is
\* that of some version it listed.
ReadAtts(i) ==
  /\ At(i, "atts")
  /\ IF req[i].kind = "restore"
     THEN LET found == Matching(req[i].seen, req[i].memo.text, linked) IN
          IF found = {} THEN End(i)
          ELSE req' = [req EXCEPT ![i].pc = "write", ![i].atts = linked, ![i].seen = found]
     ELSE req' = [req EXCEPT ![i].atts = linked,
                             ![i].pc = IF req[i].kind = "version" THEN "insert" ELSE "match"]
  /\ UNCHANGED <<stored, hist, next, now, ghosts, unpruned>>

\* No snapshot of a state that some version already holds; row notes one, and
\* an automatic one only if there is no other.
Lasting(h) == IF h \subseteq Autos(h) THEN h ELSE h \ Autos(h)
Match(i) ==
  /\ At(i, "match")
  /\ LET found == Matching(hist, req[i].memo.text, req[i].atts) IN
       \/ /\ found = {}
          /\ Goto(i, "insert")
       \/ \E r \in Lasting(found) : req' = [req EXCEPT ![i].pc = "write", ![i].row = r]
  /\ UNCHANGED <<stored, hist, next, now, ghosts, unpruned>>

SourceNamed(k) == IF k \in {"version", "agent"} THEN k ELSE "auto"  \* a slip
Source(k) == CASE k = "version" -> "manual"
               [] k = "agent"   -> "agent_baseline"
               [] OTHER         -> "auto"
\* The snapshot is of the state as the request loaded it.
Snapshot(i) == [id |-> next, text |-> req[i].memo.text, atts |-> req[i].atts,
                src |-> Source(req[i].kind), ts |-> now]
Insert(i) ==
  /\ At(i, "insert") /\ next <= MaxRows
  /\ hist' = hist \cup {Snapshot(i)} /\ next' = next + 1
  /\ CASE req[i].kind = "version" -> End(i)
       [] req[i].kind = "agent"   -> req' = [req EXCEPT ![i].pc = "write", ![i].row = Snapshot(i)]
       [] OTHER                   -> req' = [req EXCEPT ![i].pc = "prune", ![i].row = Snapshot(i)]
  /\ UNCHANGED <<stored, now, ghosts, unpruned>>

\* Retention, after an automatic version; its failure is only logged.
Prune(i) ==
  /\ At(i, "prune") /\ Goto(i, "write")
  /\ \/ hist' = hist \ Retired(hist) /\ unpruned' = 0
     \/ hist' = hist /\ unpruned' = unpruned + 1
  /\ UNCHANGED <<stored, next, now, ghosts>>

\* What an agent overwrites when a person chose it, and whether the version that
\* holds it is one retention deletes.
HandOver(i) ==
  IF req[i].kind = "agent" /\ by = "human" /\ Fresh(i, "memo") /\ ~torn
  THEN {handed, [text |-> memo.text, atts |-> req[i].atts, auto |-> req[i].row.src = "auto"]}
  ELSE {handed}
\* a slip: a person's save leaves the bit
WrittenKeepsBit(i, t) == [text |-> t, open |-> memo.open \/ req[i].kind = "agent", ack |-> FALSE]
Written(i, t) == [text |-> t, open |-> req[i].kind = "agent", ack |-> FALSE]
\* The update of an authorship write: text and payload in one statement.
Write(i) ==
  /\ At(i, "write") /\ req[i].kind \in Writing
  /\ \E t \in Texts : memo' = Written(i, t)
  /\ by' = IF req[i].kind = "agent" THEN "agent" ELSE "human"
  /\ torn' = FALSE /\ handed' \in HandOver(i)
  /\ Outdate({"memo"}, i, Free)
  /\ UNCHANGED <<linked, files, hist, next, now, unpruned>>

\* The update of a restore: the text if it differs, and the whole payload with
\* the bit cleared if the loaded one had it set.
NewText(i)  == req[i].row.text # req[i].memo.text
Reopens(i)  == req[i].memo.open
\* a slip: "restoring only ever wrote Content"
RestoredText(i) == [memo EXCEPT !.text = IF NewText(i) THEN req[i].row.text ELSE @]
Restored(i) == [text |-> IF NewText(i) THEN req[i].row.text ELSE memo.text,
                open |-> IF Reopens(i) THEN FALSE ELSE memo.open,
                ack  |-> IF Reopens(i) THEN req[i].memo.ack ELSE memo.ack]
\* a slip: attachments are unlinked and none linked again
RelinkingNone(i) == [pc |-> "links", row |-> req[i].row, fresh |-> req[i].fresh,
                     todo |-> req[i].atts \ req[i].row.atts]
Relinking(i) == [pc |-> "links", row |-> req[i].row, fresh |-> req[i].fresh,
                 todo |-> (req[i].atts \ req[i].row.atts) \cup (req[i].row.atts \ req[i].atts)]
WriteRestored(i) ==
  /\ At(i, "write") /\ req[i].kind = "restore"
  /\ memo' = Restored(i)
  /\ IF NewText(i) \/ Reopens(i)
     THEN /\ by' = IF NewText(i) \/ Fresh(i, "memo") THEN "human" ELSE by
          /\ torn' = ~Fresh(i, "memo")
          /\ Outdate({"memo"}, i, Relinking(i))
     ELSE Outdate({}, i, Relinking(i)) /\ UNCHANGED <<by, torn>>
  /\ UNCHANGED <<linked, files, hist, next, now, handed, unpruned>>

\* The attachments of the version, one update each: those it lacks are unlinked,
\* then those it has are linked again if their files are still there.
Relink(i) ==
  /\ At(i, "links")
  /\ LET drop == req[i].todo \ req[i].row.atts IN
     \E a \in IF drop # {} THEN drop ELSE req[i].todo :
       /\ linked' = IF drop # {} THEN linked \ {a} ELSE linked \cup ({a} \cap files)
       /\ Outdate({"atts"}, i, [req[i] EXCEPT !.todo = @ \ {a}])
  /\ UNCHANGED <<memo, files, hist, next, now, ghosts, unpruned>>
EndRestore(i) ==
  /\ At(i, "links") /\ req[i].todo = {}
  /\ End(i)
  /\ UNCHANGED <<stored, hist, next, now, ghosts, unpruned>>

\* The whole payload, written back from the loaded copy.
WritePayload(i) ==
  /\ At(i, "payload")
  /\ LET changed == req[i].memo.open # memo.open IN
       /\ memo' = [memo EXCEPT !.open = req[i].memo.open,
                               !.ack = req[i].kind = "ack" \/ req[i].memo.ack]
       /\ torn' = (torn \/ changed)
       /\ Outdate(IF changed THEN {"memo"} ELSE {}, i, Free)
  /\ UNCHANGED <<linked, files, hist, next, now, by, handed, unpruned>>

\* A statement fails, the client goes away or the server stops.
Drop(i) ==
  /\ Busy(i) /\ End(i)
  /\ unpruned' = IF At(i, "prune") THEN unpruned + 1 ELSE unpruned
  /\ UNCHANGED <<stored, hist, next, now, ghosts>>

\* Uploading or linking, unlinking and deleting an attachment.
Attach(a) ==
  /\ a \in files \ linked
  /\ linked' = linked \cup {a} /\ files' = files
Detach(a) ==
  /\ a \in files
  /\ linked' = linked \ {a} /\ files' \in {files, files \ {a}}
Attachments ==
  /\ \E a \in Atts : Attach(a) \/ Detach(a)
  /\ req' = [j \in Slots |-> IF req[j].pc = "free" THEN req[j]
                             ELSE [req[j] EXCEPT !.fresh = @ \ {"atts"}]]
  /\ UNCHANGED <<memo, hist, next, now, ghosts, unpruned>>

Pass ==
  /\ now < MaxTime /\ now' = now + 1
  /\ UNCHANGED <<stored, hist, next, req, ghosts, unpruned>>

Request(i) ==
  \/ Load(i) \/ Throttle(i) \/ List(i) \/ ReadAtts(i) \/ Match(i)
  \/ Insert(i) \/ Prune(i) \/ Write(i) \/ WriteRestored(i)
  \/ Relink(i) \/ EndRestore(i) \/ WritePayload(i) \/ Drop(i)
Next == (\E i \in Slots : Request(i)) \/ Attachments \/ Pass
Spec == Init /\ [][Next]_vars

-----------------------------------------------------------------------------
Pcs == {"throttle", "list", "atts", "match", "insert", "prune", "write", "payload"}
Requests == [pc: Pcs, kind: AllKinds, memo: Memos, atts: SUBSET Atts, row: Rows \cup {NoRow},
             seen: SUBSET Rows, fresh: SUBSET {"memo", "atts"}]
Relinks  == [pc: {"links"}, row: Rows, fresh: SUBSET {"memo", "atts"}, todo: SUBSET Atts]
SlotStates == Requests \cup Relinks \cup {Free}
HandedOver == [text: Texts, atts: SUBSET Atts, auto: BOOLEAN]

\* The document, its versions and the requests in flight are well formed.
TypeOK ==
  /\ memo \in Memos /\ linked \subseteq Atts /\ files \subseteq Atts
  /\ hist \subseteq Rows /\ next \in Nat /\ now \in Nat
  /\ req \in [Slots -> SlotStates]
  /\ by \in Authors /\ torn \in BOOLEAN /\ handed \in HandedOver \cup {Nothing} /\ unpruned \in Nat

\* memo_service.go:686: agent_session_open "tracks who authored what is stored
\* now": it is set exactly while the stored text is an agent's, unless a restore
\* or a write of another payload field wrote it from an outdated copy.
BitTellsAuthor == torn \/ (memo.open <=> by = "agent")

\* memo_agent_baseline.go:61: "an agent overwriting human content snapshots
\* first".  The last state a person handed over is in a version retention never
\* deletes, unless an automatic version held it when the agent wrote.
Kept(t, a) == \E r \in hist : r.src # "auto" /\ r.text = t /\ r.atts = a
HandedKept == handed # Nothing => handed.auto \/ Kept(handed.text, handed.atts)

\* Why those two hold: a copy nobody overtook is what is stored, and an agent
\* about to write over a person's text has the version that holds it.  A restore
\* at work has the version it restores.
Copying(i) == Busy(i) /\ ~At(i, "links")
CopyInv == \A i \in Slots : Copying(i) /\ Fresh(i, "memo") =>
             req[i].memo.text = memo.text /\ req[i].memo.open = memo.open
PlaceInv == \A i \in Slots : At(i, "throttle") \/ At(i, "prune") => req[i].kind # "agent"
TargetInv == \A i \in Slots : Copying(i) /\ req[i].kind = "restore" =>
               At(i, "list") \/ ((At(i, "atts") \/ At(i, "write")) /\ req[i].row \in Rows)
Found(i) == /\ req[i].row.text = req[i].memo.text /\ req[i].row.atts = req[i].atts
            /\ req[i].row.src = "auto" \/ Kept(req[i].memo.text, req[i].atts)
FoundInv == \A i \in Slots : (At(i, "write") /\ req[i].kind = "agent" /\ ~req[i].memo.open) => Found(i)
VersionInv == BitTellsAuthor /\ HandedKept /\ CopyInv /\ PlaceInv /\ TargetInv /\ FoundInv

\* memo_history.go:37: the baseline is "kept forever like a manual version: once
\* the agent has overwritten it, this row is the only copy of what the human
\* wrote".  What a person handed over is in some version for ever.
HandedForever == handed # Nothing => Matching(hist, handed.text, handed.atts) # {}

\* memo_history.go:46: no document sits "on an unbounded pile" of automatic
\* versions: beyond Keep there are only those whose retention is still to run,
\* failed or never ran.
AutoBounded ==
  Cardinality(Autos(hist)) <= Keep + unpruned + Cardinality({i \in Slots : At(i, "prune")})

GoneBy(r) == r.src = "auto" /\ (Expired(r) \/ Crowded(r, hist))
\* The state request i overwrites is in a version, or was in an automatic one
\* that as many newer ones as are kept, or its age, have pushed out since.
Undoable(i) ==
  \/ Matching(hist, memo.text, req[i].atts) # {}
  \/ GoneBy(req[i].row)
Unasked(i) == \/ req[i].kind = "start"
              \/ req[i].kind = "agent" /\ ~req[i].memo.open
\* memo_auto_version.go:24, memo_agent_baseline.go:61, memo_history_service.go:175:
\* the first save of an editor, an agent's write over a person's text and a
\* restore leave what they overwrite recoverable, if it is what they loaded.
OverwritesUndoable ==
  [][\A i \in Slots :
       /\ Write(i) /\ Unasked(i) /\ Fresh(i, "memo") => Undoable(i)
       /\ WriteRestored(i) /\ Fresh(i, "memo") /\ Fresh(i, "atts") =>
            \E r \in req[i].seen : /\ r.text = memo.text /\ r.atts = linked
                                   /\ r \in hist \/ GoneBy(r)
    ]_vars

\* memo_history_service.go:192: a restore that ends, nothing else having changed
\* the document meanwhile, leaves the version's text, its attachments as far as
\* their files exist, and a session that is closed.
RestoreRestores ==
  [][\A i \in Slots : EndRestore(i) /\ req[i].fresh = {"memo", "atts"} =>
       /\ memo.text = req[i].row.text /\ ~memo.open
       /\ linked = req[i].row.atts \cap files]_vars
=============================================================================
