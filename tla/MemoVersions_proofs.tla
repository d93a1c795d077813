------------------------ MODULE MemoVersions_proofs ------------------------
(***************************************************************************)
(* Proofs about MemoVersions, for any number of requests in flight, of     *)
(* texts, attachments and versions, and whatever retention keeps.          *)
(***************************************************************************)
EXTENDS MemoVersions, FiniteSetTheorems, WellFoundedInduction, TLAPS

\* What is in a slot is told by its pc.
LEMMA SlotParts ==
  ASSUME NEW r \in SlotStates
  PROVE  /\ r.pc = "free" => r = Free
         /\ r.pc = "links" => r \in Relinks
         /\ r.pc \notin {"free", "links"} => r \in Requests
  BY DEF SlotStates, Requests, Relinks, Free, Pcs

\* Taking a copy for outdated leaves a slot well formed.
LEMMA Shrunk ==
  ASSUME NEW r \in SlotStates, r.pc # "free", NEW w
  PROVE  [r EXCEPT !.fresh = @ \ w] \in SlotStates
<1>1. CASE r \in Requests
  BY <1>1, SMT DEF Requests, SlotStates
<1>2. CASE r \in Relinks
  BY <1>2, SMT DEF Relinks, SlotStates
<1> QED
  BY <1>1, <1>2, SlotParts

\* A step of one slot, and one that also outdates the others' copies.
LEMMA SlotType ==
  ASSUME req \in [Slots -> SlotStates], NEW i \in Slots, NEW r \in SlotStates, NEW w
  PROVE  /\ req' = [req EXCEPT ![i] = r] => req' \in [Slots -> SlotStates]
         /\ Outdate(w, i, r) => req' \in [Slots -> SlotStates]
<1>1. req' = [req EXCEPT ![i] = r] => req' \in [Slots -> SlotStates]
  OBVIOUS
<1>2. ASSUME Outdate(w, i, r) PROVE req' \in [Slots -> SlotStates]
  <2>1. \A j \in Slots : req'[j] \in SlotStates
    BY <1>2, Shrunk DEF Outdate
  <2> QED
    BY <1>2, <2>1 DEF Outdate
<1> QED
  BY <1>1, <1>2

\* The same in the forms the steps use.
LEMMA MoveType ==
  ASSUME req \in [Slots -> SlotStates], NEW i \in Slots
  PROVE  /\ End(i) => req' \in [Slots -> SlotStates]
         /\ \A pc \in Pcs : At(i, pc) \/ req[i] \in Requests =>
              (Goto(i, pc) => req' \in [Slots -> SlotStates])
<1>1. End(i) => req' \in [Slots -> SlotStates]
  BY SlotType DEF End, SlotStates
<1>2. ASSUME NEW pc \in Pcs, At(i, pc) \/ req[i] \in Requests, Goto(i, pc)
      PROVE  req' \in [Slots -> SlotStates]
  <2>1. req[i] \in Requests
    BY <1>2, SlotParts DEF At, Pcs
  <2>2. [req[i] EXCEPT !.pc = pc] \in Requests
    BY <2>1 DEF Requests
  <2> QED
    BY <1>2, <2>2 DEF Goto, SlotStates
<1> QED
  BY <1>1, <1>2

-----------------------------------------------------------------------------
\* Loading and reading steps change one slot only.
LEMMA ReadingType ==
  ASSUME TypeOK, NEW i \in Slots, Load(i) \/ Throttle(i) \/ List(i) \/ ReadAtts(i) \/ Match(i)
  PROVE  req' \in [Slots -> SlotStates]
<1>0. req \in [Slots -> SlotStates] /\ memo \in Memos /\ linked \subseteq Atts /\ hist \subseteq Rows
  BY DEF TypeOK
<1>1. CASE Load(i)
  <2>1. PICK k \in Kinds[i] :
          req' = [req EXCEPT ![i] = [pc |-> FirstStep(k), kind |-> k, memo |-> memo,
                    atts |-> {}, row |-> NoRow, seen |-> {},
                    fresh |-> IF k = "restore" THEN {"memo", "atts"} ELSE {"memo"}]]
    BY <1>1 DEF Load
  <2>2. k \in AllKinds
    BY KindAssumption
  <2>3. FirstStep(k) \in Pcs
    BY <2>2 DEF FirstStep, Pcs, AllKinds, Writing
  <2>4. [pc |-> FirstStep(k), kind |-> k, memo |-> memo, atts |-> {}, row |-> NoRow, seen |-> {},
         fresh |-> IF k = "restore" THEN {"memo", "atts"} ELSE {"memo"}] \in Requests
    BY <1>0, <2>2, <2>3 DEF Requests
  <2> QED
    BY <1>0, <2>1, <2>4 DEF SlotStates
<1>2. CASE Throttle(i)
  <2>1. req[i] \in Requests
    BY <1>0, <1>2, SlotParts DEF Throttle, At
  <2>2. PICK pc \in Pcs : Goto(i, pc)
    BY <1>2 DEF Throttle, Pcs
  <2> QED
    BY <1>0, <2>1, <2>2, MoveType
<1>3. CASE List(i)
  <2>1. req[i] \in Requests
    BY <1>0, <1>3, SlotParts DEF List, At
  <2>2. PICK r \in hist : req' = [req EXCEPT ![i].pc = "atts", ![i].row = r,
                             ![i].seen = {s \in hist : s.text = req[i].memo.text}]
    BY <1>3 DEF List
  <2>3. [req[i] EXCEPT !.pc = "atts", !.row = r,
           !.seen = {s \in hist : s.text = req[i].memo.text}] \in Requests
    BY <1>0, <2>1 DEF Requests, Pcs
  <2> QED
    BY <1>0, <2>2, <2>3 DEF SlotStates
<1>4. CASE ReadAtts(i)
  <2>1. req[i] \in Requests
    BY <1>0, <1>4, SlotParts DEF ReadAtts, At
  <2>2. CASE End(i)
    BY <1>0, <2>2, MoveType
  <2>3. ASSUME NEW f \in SUBSET Rows,
               req' = [req EXCEPT ![i].pc = "write", ![i].atts = linked, ![i].seen = f]
        PROVE  req' \in [Slots -> SlotStates]
    <3>1. [req[i] EXCEPT !.pc = "write", !.atts = linked, !.seen = f] \in Requests
      BY <1>0, <2>1 DEF Requests, Pcs
    <3> QED
      BY <1>0, <2>3, <3>1 DEF SlotStates
  <2>4. ASSUME NEW pc \in Pcs, req' = [req EXCEPT ![i].atts = linked, ![i].pc = pc]
        PROVE  req' \in [Slots -> SlotStates]
    <3>1. [req[i] EXCEPT !.atts = linked, !.pc = pc] \in Requests
      BY <1>0, <2>1 DEF Requests
    <3> QED
      BY <1>0, <2>4, <3>1 DEF SlotStates
  <2>5. Matching(req[i].seen, req[i].memo.text, linked) \in SUBSET Rows
    BY <2>1 DEF Matching, Requests
  <2> QED
    BY <1>4, <2>2, <2>3, <2>4, <2>5 DEF ReadAtts, Pcs
<1>5. CASE Match(i)
  <2>1. req[i] \in Requests
    BY <1>0, <1>5, SlotParts DEF Match, At
  <2>2. CASE Goto(i, "insert")
    BY <1>0, <2>1, <2>2, MoveType DEF Pcs
  <2>3. ASSUME NEW r \in Rows, req' = [req EXCEPT ![i].pc = "write", ![i].row = r]
        PROVE  req' \in [Slots -> SlotStates]
    <3>1. [req[i] EXCEPT !.pc = "write", !.row = r] \in Requests
      BY <2>1 DEF Requests, Pcs
    <3> QED
      BY <1>0, <2>3, <3>1 DEF SlotStates
  <2> QED
    BY <1>0, <1>5, <2>2, <2>3 DEF Match, Lasting, Matching, Autos
<1> QED
  BY <1>1, <1>2, <1>3, <1>4, <1>5

\* Inserting a version, and what its request goes on as.
LEMMA InsertType ==
  ASSUME TypeOK, NEW i \in Slots, Insert(i)
  PROVE  hist' \subseteq Rows /\ next' \in Nat /\ req' \in [Slots -> SlotStates]
<1>0. req \in [Slots -> SlotStates] /\ hist \subseteq Rows /\ next \in Nat /\ now \in Nat
  BY DEF TypeOK
<1>1. req[i] \in Requests
  BY <1>0, SlotParts DEF Insert, At
<1>2. Snapshot(i) \in Rows
  BY <1>0, <1>1 DEF Snapshot, Rows, Requests, Memos, Source, Sources
<1>3. ASSUME NEW pc \in Pcs, req' = [req EXCEPT ![i].pc = pc, ![i].row = Snapshot(i)]
      PROVE  req' \in [Slots -> SlotStates]
  <2>1. [req[i] EXCEPT !.pc = pc, !.row = Snapshot(i)] \in Requests
    BY <1>1, <1>2 DEF Requests
  <2> QED
    BY <1>0, <1>3, <2>1 DEF SlotStates
<1>4. req' \in [Slots -> SlotStates]
  BY <1>0, <1>3, MoveType DEF Insert, Pcs
<1> QED
  BY <1>0, <1>2, <1>4 DEF Insert

\* The update of an authorship write.
LEMMA WriteType ==
  ASSUME TypeOK, NEW i \in Slots, Write(i)
  PROVE  /\ memo' \in Memos /\ by' \in Authors /\ torn' \in BOOLEAN
         /\ handed' \in HandedOver \cup {Nothing} /\ req' \in [Slots -> SlotStates]
<1>0. /\ req \in [Slots -> SlotStates] /\ memo \in Memos
      /\ handed \in HandedOver \cup {Nothing}
  BY DEF TypeOK
<1>1. req[i] \in Requests
  BY <1>0, SlotParts DEF Write, At
<1>2. memo' \in Memos
  BY DEF Write, Written, Memos
<1>3. handed' \in HandedOver \cup {Nothing}
  <2>1. [text |-> memo.text, atts |-> req[i].atts, auto |-> req[i].row.src = "auto"] \in HandedOver
    BY <1>0, <1>1 DEF HandedOver, Requests, Memos
  <2> QED
    BY <1>0, <2>1 DEF Write, HandOver
<1>4. req' \in [Slots -> SlotStates]
  BY <1>0, SlotType DEF Write, SlotStates
<1> QED
  BY <1>2, <1>3, <1>4 DEF Write, Authors

\* The update of a restore, and the attachments it then relinks.
LEMMA RestoreType ==
  ASSUME TypeOK, NEW i \in Slots, WriteRestored(i), req[i].row \in Rows
  PROVE  /\ memo' \in Memos /\ by' \in Authors /\ torn' \in BOOLEAN
         /\ req' \in [Slots -> SlotStates]
<1>0. req \in [Slots -> SlotStates] /\ memo \in Memos /\ by \in Authors /\ torn \in BOOLEAN
  BY DEF TypeOK
<1>1. req[i] \in Requests
  BY <1>0, SlotParts DEF WriteRestored, At
<1>2. memo' \in Memos
  BY <1>0, <1>1 DEF WriteRestored, Restored, Memos, Requests, Rows
<1>3. Relinking(i) \in SlotStates
  BY <1>1 DEF Relinking, Relinks, SlotStates, Requests, Rows
<1>4. req' \in [Slots -> SlotStates]
  BY <1>0, <1>3, SlotType DEF WriteRestored
<1>5. by' \in Authors /\ torn' \in BOOLEAN
  BY <1>0 DEF WriteRestored, Authors
<1> QED
  BY <1>2, <1>4, <1>5

-----------------------------------------------------------------------------
\* What a step of one slot leaves of another: everything but the freshness of
\* its copy, which goes when the stored text or its bit changes.
Same(j) == /\ req'[j].pc = req[j].pc
           /\ Copying(j) => /\ req'[j].kind = req[j].kind /\ req'[j].memo = req[j].memo
                            /\ req'[j].atts = req[j].atts /\ req'[j].row = req[j].row
Overtaken(j) == Copying(j) /\ Fresh(j, "memo")' =>
                  Fresh(j, "memo") /\ memo'.text = memo.text /\ memo'.open = memo.open

LEMMA OutdateSame ==
  ASSUME req \in [Slots -> SlotStates], NEW i \in Slots, NEW j \in Slots, i # j,
         NEW w, NEW r, Outdate(w, i, r)
  PROVE  Same(j) /\ (Copying(j) => req'[j].fresh = req[j].fresh \ w)
<1>1. CASE req[j].pc = "free"
  BY <1>1 DEF Outdate, Same, Copying, Busy, At
<1>2. CASE req[j].pc = "links"
  <2>1. req[j] \in Relinks
    BY <1>2, SlotParts
  <2> QED
    BY <1>2, <2>1 DEF Outdate, Same, Copying, Busy, At, Relinks
<1>3. CASE req[j].pc \notin {"free", "links"}
  <2>1. req[j] \in Requests
    BY <1>3, SlotParts
  <2>2. req'[j] = [req[j] EXCEPT !.fresh = @ \ w]
    BY <1>3 DEF Outdate
  <2> QED
    BY <2>1, <2>2 DEF Same, Requests
<1> QED
  BY <1>1, <1>2, <1>3

LEMMA OthersSame ==
  ASSUME TypeOK, NEW i \in Slots, Request(i), NEW j \in Slots, i # j
  PROVE  Same(j) /\ Overtaken(j)
<1>0. req \in [Slots -> SlotStates] /\ memo \in Memos
  BY DEF TypeOK
<1>1. CASE req'[j] = req[j] /\ memo' = memo
  BY <1>1 DEF Same, Overtaken, Fresh
<1>2. CASE Load(i) \/ Throttle(i) \/ List(i) \/ ReadAtts(i) \/ Match(i)
  <2>1. req'[j] = req[j] /\ memo' = memo
    BY <1>0, <1>2 DEF Load, Throttle, List, ReadAtts, Match, Goto, End, stored
  <2> QED
    BY <1>1, <2>1
<1>3. CASE Insert(i) \/ Prune(i) \/ EndRestore(i) \/ Drop(i)
  <2>1. req'[j] = req[j] /\ memo' = memo
    BY <1>0, <1>3 DEF Insert, Prune, EndRestore, Drop, Goto, End, stored
  <2> QED
    BY <1>1, <2>1
<1>4. CASE Write(i)
  <2>1. Outdate({"memo"}, i, Free)
    BY <1>4 DEF Write
  <2> QED
    BY <1>0, <2>1, OutdateSame DEF Overtaken, Fresh
<1>5. CASE WriteRestored(i)
  <2>1. CASE NewText(i) \/ Reopens(i)
    <3>1. Outdate({"memo"}, i, Relinking(i))
      BY <1>5, <2>1 DEF WriteRestored
    <3> QED
      BY <1>0, <3>1, OutdateSame DEF Overtaken, Fresh
  <2>2. CASE ~(NewText(i) \/ Reopens(i))
    <3>1. Outdate({}, i, Relinking(i)) /\ memo'.text = memo.text /\ memo'.open = memo.open
      BY <1>5, <2>2 DEF WriteRestored, Restored
    <3> QED
      BY <1>0, <3>1, OutdateSame DEF Overtaken, Fresh
  <2> QED
    BY <2>1, <2>2
<1>6. CASE Relink(i)
  <2>1. PICK a : Outdate({"atts"}, i, [req[i] EXCEPT !.todo = @ \ {a}])
    BY <1>6 DEF Relink
  <2>2. memo' = memo
    BY <1>6 DEF Relink
  <2> QED
    BY <1>0, <2>1, <2>2, OutdateSame DEF Overtaken, Fresh
<1>7. CASE WritePayload(i)
  <2>1. CASE req[i].memo.open # memo.open
    <3>1. Outdate({"memo"}, i, Free)
      BY <1>7, <2>1 DEF WritePayload
    <3> QED
      BY <1>0, <3>1, OutdateSame DEF Overtaken, Fresh
  <2>2. CASE req[i].memo.open = memo.open
    <3>1. Outdate({}, i, Free)
      BY <1>7, <2>2 DEF WritePayload
    <3>2. memo'.text = memo.text /\ memo'.open = memo.open
      BY <1>0, <1>7, <2>2 DEF WritePayload, Memos
    <3> QED
      BY <1>0, <3>1, <3>2, OutdateSame DEF Overtaken, Fresh
  <2> QED
    BY <2>1, <2>2
<1> QED
  BY <1>2, <1>3, <1>4, <1>5, <1>6, <1>7 DEF Request

LEMMA AttachmentsType ==
  ASSUME TypeOK, Attachments
  PROVE  req' \in [Slots -> SlotStates] /\ linked' \subseteq Atts /\ files' \subseteq Atts
<1>0. req \in [Slots -> SlotStates] /\ linked \subseteq Atts /\ files \subseteq Atts
  BY DEF TypeOK
<1>1. \A k \in Slots : req'[k] \in SlotStates
  BY <1>0, Shrunk DEF Attachments
<1>2. req' \in [Slots -> SlotStates]
  BY <1>1 DEF Attachments
<1>3. linked' \subseteq Atts /\ files' \subseteq Atts
  BY <1>0 DEF Attachments, Attach, Detach
<1> QED
  BY <1>2, <1>3

LEMMA AttachmentsSame ==
  ASSUME TypeOK, Attachments, NEW j \in Slots
  PROVE  Same(j) /\ Overtaken(j)
<1>0. req \in [Slots -> SlotStates] /\ memo' = memo
  BY DEF TypeOK, Attachments
<1>1. CASE req[j].pc = "free"
  BY <1>1 DEF Attachments, Same, Overtaken, Copying, Busy, At
<1>2. CASE req[j].pc = "links"
  <2>1. req[j] \in Relinks
    BY <1>0, <1>2, SlotParts
  <2>2. req'[j] = [req[j] EXCEPT !.fresh = @ \ {"atts"}]
    BY <1>2 DEF Attachments
  <2> QED
    BY <1>2, <2>1, <2>2 DEF Same, Overtaken, Copying, Busy, At, Relinks
<1>3. CASE req[j].pc \notin {"free", "links"}
  <2>1. req[j] \in Requests
    BY <1>0, <1>3, SlotParts
  <2>2. req'[j] = [req[j] EXCEPT !.fresh = @ \ {"atts"}]
    BY <1>3 DEF Attachments
  <2> QED
    BY <1>0, <2>1, <2>2 DEF Same, Overtaken, Fresh, Requests
<1> QED
  BY <1>1, <1>2, <1>3

\* Every step keeps the state well formed.  A restore needs the version it
\* restores to be one, so TargetInv is part of it.
LEMMA TypeStep ==
  ASSUME TypeOK, TargetInv, [Next]_vars
  PROVE  TypeOK'
<1>0. /\ req \in [Slots -> SlotStates] /\ memo \in Memos /\ hist \subseteq Rows
      /\ linked \subseteq Atts /\ files \subseteq Atts /\ next \in Nat /\ now \in Nat
      /\ by \in Authors /\ torn \in BOOLEAN /\ unpruned \in Nat
      /\ handed \in HandedOver \cup {Nothing}
  BY DEF TypeOK
<1>1. ASSUME NEW i \in Slots, Request(i) PROVE TypeOK'
  <2>1. CASE Load(i) \/ Throttle(i) \/ List(i) \/ ReadAtts(i) \/ Match(i)
    BY <1>0, <2>1, ReadingType DEF TypeOK, Load, Throttle, List, ReadAtts, Match, stored, ghosts
  <2>2. CASE Insert(i)
    BY <1>0, <2>2, InsertType DEF TypeOK, Insert, stored, ghosts
  <2>3. CASE Prune(i)
    <3>1. req[i] \in Requests
      BY <1>0, <2>3, SlotParts DEF Prune, At
    <3>2. req' \in [Slots -> SlotStates]
      BY <1>0, <2>3, <3>1, MoveType DEF Prune, Pcs
    <3>3. hist' \subseteq Rows /\ unpruned' \in Nat
      BY <1>0, <2>3 DEF Prune
    <3> QED
      BY <1>0, <2>3, <3>2, <3>3 DEF TypeOK, Prune, stored, ghosts
  <2>4. CASE Write(i)
    BY <1>0, <2>4, WriteType DEF TypeOK, Write
  <2>5. CASE WriteRestored(i)
    <3>1. req[i].row \in Rows
      BY <2>5 DEF WriteRestored, TargetInv, Copying, Busy, At
    <3> QED
      BY <1>0, <2>5, <3>1, RestoreType DEF TypeOK, WriteRestored
  <2>6. CASE Relink(i)
    <3>1. req[i] \in Relinks
      BY <1>0, <2>6, SlotParts DEF Relink, At
    <3>2. PICK a : /\ a \in req[i].todo
                   /\ linked' \subseteq linked \cup ({a} \cap files)
                   /\ Outdate({"atts"}, i, [req[i] EXCEPT !.todo = @ \ {a}])
      BY <2>6 DEF Relink
    <3>3. [req[i] EXCEPT !.todo = @ \ {a}] \in SlotStates
      BY <3>1 DEF Relinks, SlotStates
    <3>4. req' \in [Slots -> SlotStates]
      BY <1>0, <3>2, <3>3, SlotType
    <3> QED
      BY <1>0, <2>6, <3>2, <3>4 DEF TypeOK, Relink, ghosts
  <2>7. CASE EndRestore(i)
    BY <1>0, <2>7, MoveType DEF TypeOK, EndRestore, stored, ghosts
  <2>8. CASE WritePayload(i)
    <3>1. req[i] \in Requests
      BY <1>0, <2>8, SlotParts DEF WritePayload, At
    <3>2. memo' \in Memos /\ torn' \in BOOLEAN
      BY <1>0, <2>8, <3>1 DEF WritePayload, Memos, Requests
    <3>3. req' \in [Slots -> SlotStates]
      BY <1>0, <2>8, SlotType DEF WritePayload, SlotStates
    <3> QED
      BY <1>0, <2>8, <3>2, <3>3 DEF TypeOK, WritePayload
  <2>9. CASE Drop(i)
    BY <1>0, <2>9, MoveType DEF TypeOK, Drop, stored, ghosts
  <2> QED
    BY <1>1, <2>1, <2>2, <2>3, <2>4, <2>5, <2>6, <2>7, <2>8, <2>9 DEF Request
<1>2. CASE Attachments
  BY <1>0, <1>2, AttachmentsType DEF TypeOK, Attachments, ghosts
<1>3. CASE Pass
  BY <1>0, <1>3 DEF TypeOK, Pass, stored, ghosts
<1>4. CASE UNCHANGED vars
  BY <1>0, <1>4 DEF TypeOK, vars, stored, ghosts
<1> QED
  BY <1>1, <1>2, <1>3, <1>4 DEF Next

\* Who is in a slot while another acts: nothing but freshness changes there.
LEMMA Elsewhere ==
  ASSUME TypeOK, [Next]_vars, NEW j \in Slots, ~Request(j)
  PROVE  Same(j) /\ Overtaken(j)
<1>1. CASE \E i \in Slots : Request(i)
  BY <1>1, OthersSame
<1>2. CASE Attachments
  BY <1>2, AttachmentsSame
<1>3. CASE Pass \/ UNCHANGED vars
  <2>1. UNCHANGED <<req, memo>>
    BY <1>3 DEF Pass, vars, stored
  <2> QED
    BY <2>1 DEF Same, Overtaken, Fresh
<1> QED
  BY <1>1, <1>2, <1>3 DEF Next

-----------------------------------------------------------------------------
\* A step of a request that still holds its copy after it: the memo is as it
\* was, and the request has just loaded it or keeps what it had loaded.
Reading(j) == Throttle(j) \/ List(j) \/ ReadAtts(j) \/ Match(j) \/ Insert(j) \/ Prune(j)
Onward(j) == /\ Copying(j) /\ Reading(j)
             /\ req'[j].kind = req[j].kind /\ req'[j].memo = req[j].memo
             /\ req'[j].fresh = req[j].fresh

LEMMA Holding ==
  ASSUME TypeOK, NEW j \in Slots, Request(j), Copying(j)'
  PROVE  memo' = memo /\ (Load(j) \/ Onward(j))
<1>0. req \in [Slots -> SlotStates]
  BY DEF TypeOK
<1>1. CASE Load(j)
  BY <1>1 DEF Load, stored
<1>2. ASSUME req[j] \in Requests, Reading(j)
      PROVE  memo' = memo /\ Onward(j)
  <2>1. memo' = memo
    BY <1>2 DEF Reading, Throttle, List, Match, Prune, ReadAtts, Insert, stored
  <2>2. Copying(j)
    BY <1>2 DEF Copying, Busy, At, Requests, Pcs
  <2>3. ~End(j)
    BY <1>0 DEF End, Copying, Busy, At, Free
  <2>4. /\ req'[j].kind = req[j].kind /\ req'[j].memo = req[j].memo
        /\ req'[j].fresh = req[j].fresh
    <3>0. CASE Throttle(j)
      BY <1>0, <1>2, <3>0 DEF Throttle, Goto, Requests
    <3>1. CASE List(j)
      <4>1. PICK r \in hist : req' = [req EXCEPT ![j].pc = "atts", ![j].row = r,
                               ![j].seen = {s \in hist : s.text = req[j].memo.text}]
        BY <3>1 DEF List
      <4> DEFINE f == {s \in hist : s.text = req[j].memo.text}
      <4>2. req'[j] = [req[j] EXCEPT !.pc = "atts", !.row = r, !.seen = f]
        BY <1>0, <4>1
      <4> HIDE DEF f
      <4> QED
        BY <1>2, <4>2 DEF Requests
    <3>2. CASE Match(j) \/ Prune(j)
      BY <1>0, <1>2, <3>2 DEF Match, Prune, Goto, Requests
    <3>3. CASE ReadAtts(j)
      BY <1>0, <1>2, <2>3, <3>3 DEF ReadAtts, Requests
    <3>4. CASE Insert(j)
      <4>1. req[j].kind # "version"
        BY <2>3, <3>4 DEF Insert
      <4>2. \E pc \in Pcs : req'[j] = [req[j] EXCEPT !.pc = pc, !.row = Snapshot(j)]
        BY <1>0, <3>4, <4>1 DEF Insert, Pcs
      <4> QED
        BY <1>2, <4>2 DEF Requests
    <3> QED
      BY <1>2, <3>0, <3>1, <3>2, <3>3, <3>4 DEF Reading
  <2> QED
    BY <1>2, <2>1, <2>2, <2>4 DEF Onward
<1>3. Reading(j) => req[j] \in Requests
  BY <1>0, SlotParts DEF Reading, Throttle, List, Match, Prune, ReadAtts, Insert, At
<1>4. ~(EndRestore(j) \/ Drop(j))
  BY <1>0 DEF EndRestore, Drop, End, Copying, Busy, At, Free
<1>5. ~(Write(j) \/ WritePayload(j))
  BY DEF Write, WritePayload, Outdate, Copying, Busy, At, Free
<1>6. ~WriteRestored(j)
  BY DEF WriteRestored, Outdate, Relinking, Copying, Busy, At
<1>7. ~Relink(j)
  <2>1. ASSUME Relink(j) PROVE FALSE
    <3>1. PICK a : req'[j] = [req[j] EXCEPT !.todo = @ \ {a}]
      BY <2>1 DEF Relink, Outdate
    <3>2. req[j] \in Relinks /\ req[j].pc = "links"
      BY <1>0, <2>1, SlotParts DEF Relink, At
    <3>3. req'[j].pc = "links"
      BY <3>1, <3>2 DEF Relinks
    <3> QED
      BY <3>3 DEF Copying, At
  <2> QED
    BY <2>1
<1> QED
  BY <1>1, <1>2, <1>3, <1>4, <1>5, <1>6, <1>7 DEF Request, Reading

\* What a request has loaded stays what is stored until it is overtaken.
LEMMA CopyStep ==
  ASSUME TypeOK, CopyInv, [Next]_vars
  PROVE  CopyInv'
<1>0. req \in [Slots -> SlotStates]
  BY DEF TypeOK
<1> SUFFICES ASSUME NEW j \in Slots, Copying(j)', Fresh(j, "memo")'
             PROVE  req'[j].memo.text = memo'.text /\ req'[j].memo.open = memo'.open
  BY DEF CopyInv
<1>1. CASE ~Request(j)
  <2>1. Copying(j)
    BY <1>1, Elsewhere DEF Same, Copying, Busy, At
  <2>2. req'[j].memo = req[j].memo /\ Fresh(j, "memo") /\ memo'.text = memo.text /\ memo'.open = memo.open
    BY <1>1, <2>1, Elsewhere DEF Same, Overtaken
  <2> QED
    BY <2>1, <2>2 DEF CopyInv
<1>2. CASE Request(j)
  <2>1. CASE Load(j)
    BY <1>0, <2>1 DEF Load, stored
  <2>2. CASE Onward(j)
    BY <1>2, <2>2, Holding DEF Onward, CopyInv, Fresh
  <2> QED
    BY <1>2, <2>1, <2>2, Holding
<1> QED
  BY <1>1, <1>2

\* Where a request that has loaded goes next, and with which version.
LEMMA NextPlace ==
  ASSUME TypeOK, NEW j \in Slots, Onward(j), Copying(j)'
  PROVE  \/ At(j, "throttle") /\ (At(j, "write")' \/ At(j, "atts")') /\ req'[j].row = req[j].row
         \/ At(j, "list") /\ At(j, "atts")' /\ req'[j].row \in Rows
         \/ /\ At(j, "atts") /\ req'[j].row = req[j].row
            /\ \/ req[j].kind = "restore" /\ At(j, "write")'
               \/ req[j].kind # "restore" /\ (At(j, "match")' \/ At(j, "insert")')
         \/ At(j, "match") /\ (At(j, "insert")' \/ At(j, "write")')
         \/ At(j, "insert") /\ IF req[j].kind = "agent" THEN At(j, "write")' ELSE At(j, "prune")'
         \/ At(j, "prune") /\ At(j, "write")' /\ req'[j].row = req[j].row
<1>0. req \in [Slots -> SlotStates] /\ hist \subseteq Rows
  BY DEF TypeOK
<1>1. req[j] \in Requests
  BY <1>0, SlotParts DEF Onward, Copying, Busy, At
<1>2. ~End(j)
  BY <1>0 DEF End, Copying, Busy, At, Free
<1>3. CASE Throttle(j)
  BY <1>0, <1>1, <1>3 DEF Throttle, Goto, At, Requests
<1>4. CASE List(j)
  <2>1. PICK r \in hist : req' = [req EXCEPT ![j].pc = "atts", ![j].row = r,
                           ![j].seen = {s \in hist : s.text = req[j].memo.text}]
    BY <1>4 DEF List
  <2> DEFINE f == {s \in hist : s.text = req[j].memo.text}
  <2>2. req'[j] = [req[j] EXCEPT !.pc = "atts", !.row = r, !.seen = f]
    BY <1>0, <2>1
  <2> HIDE DEF f
  <2>3. req'[j].pc = "atts" /\ req'[j].row = r
    BY <1>1, <2>2 DEF Requests
  <2> QED
    BY <1>0, <1>4, <2>3 DEF List, At
<1>5. CASE ReadAtts(j)
  BY <1>0, <1>1, <1>2, <1>5 DEF ReadAtts, At, Requests
<1>6. CASE Match(j)
  BY <1>0, <1>1, <1>6 DEF Match, Goto, At, Requests
<1>7. CASE Insert(j)
  <2>1. req[j].kind # "version"
    BY <1>2, <1>7 DEF Insert
  <2> QED
    BY <1>0, <1>1, <1>7, <2>1 DEF Insert, At, Requests
<1>8. CASE Prune(j)
  BY <1>0, <1>1, <1>8 DEF Prune, Goto, At, Requests
<1> QED
  BY <1>3, <1>4, <1>5, <1>6, <1>7, <1>8 DEF Onward, Reading

\* A request that has just loaded is where FirstStep says.
LEMMA Loaded ==
  ASSUME TypeOK, NEW j \in Slots, Load(j)
  PROVE  /\ req'[j].kind \in AllKinds /\ req'[j].memo = memo
         /\ req'[j].pc = FirstStep(req'[j].kind)
<1>1. PICK k \in Kinds[j] : req'[j] = [pc |-> FirstStep(k), kind |-> k, memo |-> memo,
                    atts |-> {}, row |-> NoRow, seen |-> {},
                    fresh |-> IF k = "restore" THEN {"memo", "atts"} ELSE {"memo"}]
  BY DEF Load, TypeOK
<1>2. k \in AllKinds
  BY KindAssumption
<1> QED
  BY <1>1, <1>2

\* Only saves of people are throttled and prune, and a restore at work has the
\* version it restores.
LEMMA PlaceStep ==
  ASSUME TypeOK, PlaceInv, TargetInv, [Next]_vars
  PROVE  PlaceInv' /\ TargetInv'
<1> SUFFICES ASSUME NEW j \in Slots, Copying(j)'
             PROVE  /\ (At(j, "throttle") \/ At(j, "prune"))' => req'[j].kind # "agent"
                    /\ req'[j].kind = "restore" =>
                         \/ At(j, "list")'
                         \/ (At(j, "atts") \/ At(j, "write"))' /\ req'[j].row \in Rows
  BY DEF PlaceInv, TargetInv, Copying, Busy, At
<1>1. CASE ~Request(j)
  BY <1>1, Elsewhere DEF Same, Copying, Busy, At, PlaceInv, TargetInv
<1>2. CASE Request(j)
  <2>1. CASE Load(j)
    BY <2>1, Loaded DEF FirstStep, AllKinds, Writing, At
  <2>2. CASE Onward(j)
    <3>1. req'[j].kind = req[j].kind
      BY <2>2 DEF Onward
    <3>2. /\ At(j, "throttle") \/ At(j, "prune") => req[j].kind # "agent"
          /\ req[j].kind = "restore" =>
               \/ At(j, "list")
               \/ (At(j, "atts") \/ At(j, "write")) /\ req[j].row \in Rows
      BY <2>2 DEF Onward, PlaceInv, TargetInv
    <3> QED
      BY <2>2, <3>1, <3>2, NextPlace DEF At
  <2> QED
    BY <1>2, <2>1, <2>2, Holding
<1> QED
  BY <1>1, <1>2

-----------------------------------------------------------------------------
\* Retention deletes automatic versions only.
LEMMA KeptStays ==
  ASSUME TypeOK, [Next]_vars, NEW t, NEW a, Kept(t, a)
  PROVE  Kept(t, a)'
<1>1. PICK r \in hist : r.src # "auto" /\ r.text = t /\ r.atts = a
  BY DEF Kept
<1>2. r \in hist'
  <2>1. ASSUME NEW i \in Slots, Request(i) PROVE r \in hist'
    <3>1. CASE Insert(i)
      BY <3>1 DEF Insert
    <3>2. CASE Prune(i)
      BY <1>1, <3>2 DEF Prune, Retired, Autos
    <3>3. CASE ~Insert(i) /\ ~Prune(i)
      BY <2>1, <3>3 DEF Request, Load, Throttle, List, ReadAtts, Match, Write, WriteRestored,
                        Relink, EndRestore, WritePayload, Drop
    <3> QED
      BY <3>1, <3>2, <3>3
  <2>2. CASE Attachments \/ Pass \/ UNCHANGED vars
    BY <2>2 DEF Attachments, Pass, vars
  <2> QED
    BY <2>1, <2>2 DEF Next
<1> QED
  BY <1>1, <1>2 DEF Kept

\* An agent about to write over a text that is not an agent's has found or made
\* the version that holds it.
LEMMA FoundStep ==
  ASSUME TypeOK, PlaceInv, FoundInv, [Next]_vars
  PROVE  FoundInv'
<1>0. req \in [Slots -> SlotStates] /\ hist \subseteq Rows
  BY DEF TypeOK
<1> SUFFICES ASSUME NEW j \in Slots, At(j, "write")', req'[j].kind = "agent", ~req'[j].memo.open
             PROVE  Found(j)'
  BY DEF FoundInv
<1>1. Copying(j)'
  BY DEF Copying, Busy, At
<1>2. ASSUME At(j, "write"), Copying(j), Same(j) PROVE Found(j)'
  <2>1. Found(j)
    BY <1>2 DEF Same, FoundInv
  <2>2. \A t, a : Kept(t, a) => \E r \in hist' : r.src # "auto" /\ r.text = t /\ r.atts = a
    BY KeptStays DEF Kept
  <2>3. /\ req'[j].row = req[j].row /\ req'[j].memo = req[j].memo /\ req'[j].atts = req[j].atts
    BY <1>2 DEF Same
  <2>4. CASE req[j].row.src = "auto"
    BY <2>1, <2>3, <2>4 DEF Found
  <2>5. CASE Kept(req[j].memo.text, req[j].atts)
    <3>1. PICK r \in hist' : /\ r.src # "auto" /\ r.text = req[j].memo.text
                             /\ r.atts = req[j].atts
      BY <2>2, <2>5
    <3> QED
      BY <2>1, <2>3, <3>1 DEF Found, Kept
  <2> QED
    BY <2>1, <2>4, <2>5 DEF Found
<1>3. CASE ~Request(j)
  <2>1. Same(j)
    BY <1>3, Elsewhere
  <2>2. At(j, "write") /\ Copying(j)
    BY <2>1 DEF Same, Copying, Busy, At
  <2> QED
    BY <1>2, <2>1, <2>2
<1>4. CASE Request(j)
  <2>1. CASE Load(j)
    BY <2>1, Loaded DEF FirstStep, At
  <2>2. CASE Onward(j)
    <3>1. req'[j].kind = req[j].kind /\ req'[j].memo = req[j].memo /\ req[j].kind = "agent"
      BY <2>2 DEF Onward
    <3>2. req[j] \in Requests
      BY <1>0, <2>2, SlotParts DEF Onward, Copying, Busy, At
    <3>3. At(j, "match") \/ At(j, "insert")
      BY <1>1, <2>2, <3>1, NextPlace DEF PlaceInv, At
    <3>4. CASE Match(j)
      <4>1. PICK r \in Lasting(Matching(hist, req[j].memo.text, req[j].atts)) :
              req' = [req EXCEPT ![j].pc = "write", ![j].row = r]
        <5>1. ~Goto(j, "insert")
          BY <1>0, <3>2 DEF Goto, At, Requests
        <5> QED
          BY <3>4, <5>1 DEF Match
      <4>2. r \in hist /\ r.text = req[j].memo.text /\ r.atts = req[j].atts
        BY <4>1 DEF Lasting, Matching, Autos
      <4>3. req'[j].row = r /\ req'[j].atts = req[j].atts
        BY <1>0, <3>2, <4>1 DEF Requests
      <4>4. hist' = hist
        BY <3>4 DEF Match
      <4> QED
        BY <3>1, <4>2, <4>3, <4>4 DEF Found, Kept
    <3>5. CASE Insert(j)
      <4>1. req' = [req EXCEPT ![j].pc = "write", ![j].row = Snapshot(j)]
        BY <3>1, <3>5 DEF Insert
      <4>2. req'[j].row = Snapshot(j) /\ req'[j].atts = req[j].atts
        BY <1>0, <3>2, <4>1 DEF Requests
      <4>3. Snapshot(j) \in hist'
        BY <3>5 DEF Insert
      <4>4. /\ Snapshot(j).src = "agent_baseline" /\ Snapshot(j).text = req[j].memo.text
            /\ Snapshot(j).atts = req[j].atts
        BY <3>1 DEF Snapshot, Source
      <4>5. Kept(req[j].memo.text, req[j].atts)'
        BY <3>1, <4>2, <4>3, <4>4 DEF Kept
      <4> QED
        BY <3>1, <4>2, <4>4, <4>5 DEF Found
    <3>6. Match(j) \/ Insert(j)
      BY <2>2, <3>3 DEF Onward, Reading, At, Throttle, List, ReadAtts, Prune
    <3> QED
      BY <3>4, <3>5, <3>6
  <2> QED
    BY <1>1, <1>4, <2>1, <2>2, Holding
<1> QED
  BY <1>3, <1>4

-----------------------------------------------------------------------------
\* The bit tells the author after every step.
LEMMA BitStep ==
  ASSUME TypeOK, CopyInv, BitTellsAuthor, [Next]_vars
  PROVE  BitTellsAuthor'
<1>0. memo \in Memos /\ torn \in BOOLEAN /\ req \in [Slots -> SlotStates]
  BY DEF TypeOK
<1>1. ASSUME NEW i \in Slots, Write(i) PROVE BitTellsAuthor'
  <2> DEFINE b == req[i].kind = "agent"
  <2>1. PICK t : memo' = [text |-> t, open |-> b, ack |-> FALSE]
    BY <1>1 DEF Write, Written
  <2>2. b <=> by' = "agent"
    BY <1>1 DEF Write
  <2> HIDE DEF b
  <2>3. memo'.open = b
    BY <2>1
  <2> QED
    BY <2>2, <2>3 DEF BitTellsAuthor
<1>2. ASSUME NEW i \in Slots, WriteRestored(i) PROVE BitTellsAuthor'
  <2>1. Copying(i) /\ memo' = Restored(i)
    BY <1>2 DEF WriteRestored, Copying, Busy, At
  <2>2. CASE NewText(i) \/ Reopens(i)
    <3>1. torn' = ~Fresh(i, "memo")
          /\ by' = IF NewText(i) \/ Fresh(i, "memo") THEN "human" ELSE by
      BY <1>2, <2>2 DEF WriteRestored
    <3>2. Fresh(i, "memo") => req[i].memo.open = memo.open
      BY <2>1 DEF CopyInv
    <3>3. Fresh(i, "memo") => by' = "human" /\ ~memo'.open
      BY <1>0, <2>1, <3>1, <3>2 DEF Restored, Reopens, Memos
    <3>4. CASE Fresh(i, "memo")
      BY <3>3, <3>4 DEF BitTellsAuthor
    <3>5. CASE ~Fresh(i, "memo")
      BY <3>1, <3>5 DEF BitTellsAuthor
    <3> QED
      BY <3>4, <3>5
  <2>3. CASE ~(NewText(i) \/ Reopens(i))
    <3>1. UNCHANGED <<by, torn>>
      BY <1>2, <2>3 DEF WriteRestored
    <3>2. memo' = [text |-> memo.text, open |-> memo.open, ack |-> memo.ack]
      BY <2>1, <2>3, Zenon DEF Restored
    <3>3. memo'.open = memo.open
      BY <3>2
    <3> QED
      BY <3>1, <3>3 DEF BitTellsAuthor
  <2> QED
    BY <2>2, <2>3
<1>3. ASSUME NEW i \in Slots, WritePayload(i) PROVE BitTellsAuthor'
  <2>1. memo'.open = req[i].memo.open /\ by' = by
    <3> DEFINE a == req[i].kind = "ack" \/ req[i].memo.ack
    <3>1. memo' = [memo EXCEPT !.open = req[i].memo.open, !.ack = a] /\ by' = by
      BY <1>3 DEF WritePayload
    <3> HIDE DEF a
    <3> QED
      BY <1>0, <3>1 DEF Memos
  <2>2. torn' = (torn \/ req[i].memo.open # memo.open)
    BY <1>3 DEF WritePayload
  <2>3. CASE req[i].memo.open # memo.open
    BY <2>2, <2>3 DEF BitTellsAuthor
  <2>4. CASE req[i].memo.open = memo.open
    <3>1. torn' = torn /\ memo'.open = memo.open
      BY <1>0, <2>1, <2>2, <2>4
    <3> QED
      BY <2>1, <3>1 DEF BitTellsAuthor
  <2> QED
    BY <2>3, <2>4
<1>4. CASE UNCHANGED <<memo, by, torn>>
  BY <1>4 DEF BitTellsAuthor
<1>5. ASSUME NEW i \in Slots, Request(i), ~Write(i), ~WriteRestored(i), ~WritePayload(i)
      PROVE  UNCHANGED <<memo, by, torn>>
  BY <1>5 DEF Request, Load, Throttle, List, ReadAtts, Match, Insert, Prune, Relink, EndRestore,
              Drop, stored, ghosts
<1>6. CASE Attachments \/ Pass \/ UNCHANGED vars
  BY <1>4, <1>6 DEF Attachments, Pass, vars, stored, ghosts
<1> QED
  BY <1>1, <1>2, <1>3, <1>4, <1>5, <1>6 DEF Next

\* What a person handed over stays in a version retention does not delete.
LEMMA HandedStep ==
  ASSUME TypeOK, CopyInv, FoundInv, BitTellsAuthor, HandedKept, [Next]_vars
  PROVE  HandedKept'
<1>1. CASE handed' = handed
  <2>1. \A t, a : Kept(t, a) => \E r \in hist' : r.src # "auto" /\ r.text = t /\ r.atts = a
    BY KeptStays DEF Kept
  <2>2. CASE handed = Nothing \/ handed.auto
    BY <1>1, <2>2 DEF HandedKept
  <2>3. CASE Kept(handed.text, handed.atts)
    <3>1. PICK r \in hist' : r.src # "auto" /\ r.text = handed.text /\ r.atts = handed.atts
      BY <2>1, <2>3
    <3> QED
      BY <1>1, <3>1 DEF HandedKept, Kept
  <2> QED
    BY <2>2, <2>3 DEF HandedKept
<1>2. ASSUME NEW i \in Slots, Write(i), handed' # handed PROVE HandedKept'
  <2>1. /\ req[i].kind = "agent" /\ by = "human" /\ Fresh(i, "memo") /\ ~torn
        /\ handed' = [text |-> memo.text, atts |-> req[i].atts, auto |-> req[i].row.src = "auto"]
    BY <1>2 DEF Write, HandOver
  <2>2. At(i, "write") /\ Copying(i) /\ hist' = hist
    BY <1>2 DEF Write, Copying, Busy, At
  <2>3. ~memo.open
    BY <2>1 DEF BitTellsAuthor
  <2>4. req[i].memo.text = memo.text /\ ~req[i].memo.open
    BY <2>1, <2>2, <2>3 DEF CopyInv
  <2>5. req[i].row.src = "auto" \/ Kept(memo.text, req[i].atts)
    BY <2>1, <2>2, <2>4 DEF FoundInv, Found
  <2>6. CASE req[i].row.src = "auto"
    BY <2>1, <2>6 DEF HandedKept
  <2>7. CASE Kept(memo.text, req[i].atts)
    <3>1. PICK r \in hist : r.src # "auto" /\ r.text = memo.text /\ r.atts = req[i].atts
      BY <2>7 DEF Kept
    <3> QED
      BY <2>1, <2>2, <3>1 DEF HandedKept, Kept
  <2> QED
    BY <2>5, <2>6, <2>7
<1>3. ASSUME NEW i \in Slots, Request(i), ~Write(i) PROVE handed' = handed
  BY <1>3 DEF Request, Load, Throttle, List, ReadAtts, Match, Insert, Prune, WriteRestored,
              Relink, EndRestore, WritePayload, Drop, ghosts
<1>4. CASE Attachments \/ Pass \/ UNCHANGED vars
  BY <1>1, <1>4 DEF Attachments, Pass, vars, ghosts
<1> QED
  BY <1>1, <1>2, <1>3, <1>4 DEF Next

-----------------------------------------------------------------------------
LEMMA InitInv == Init => TypeOK /\ VersionInv
<1> SUFFICES ASSUME Init PROVE TypeOK /\ VersionInv
  OBVIOUS
<1>1. memo \in Memos /\ (memo.open <=> by = "agent") /\ by \in Authors
  BY DEF Init, Memos, Authors
<1>2. req \in [Slots -> SlotStates] /\ \A i \in Slots : req[i] = Free
  BY DEF Init, SlotStates
<1>3. TypeOK
  BY <1>1, <1>2 DEF Init, TypeOK
<1>4. BitTellsAuthor /\ HandedKept
  BY <1>1 DEF Init, BitTellsAuthor, HandedKept
<1>5. CopyInv /\ PlaceInv /\ TargetInv /\ FoundInv
  BY <1>2 DEF CopyInv, PlaceInv, TargetInv, FoundInv, Copying, Busy, At, Free
<1> QED
  BY <1>3, <1>4, <1>5 DEF VersionInv

\* Together they are inductive.
LEMMA Inductive == TypeOK /\ VersionInv /\ [Next]_vars => (TypeOK /\ VersionInv)'
  BY TypeStep, CopyStep, PlaceStep, FoundStep, BitStep, HandedStep DEF VersionInv

\* The document, its versions and the requests in flight stay well formed.
THEOREM TypeCorrect == Spec => []TypeOK
<1>1. TypeOK /\ VersionInv => TypeOK
  OBVIOUS
<1> QED
  BY <1>1, InitInv, Inductive, PTL DEF Spec

\* agent_session_open is set exactly while the stored text is an agent's, unless
\* a restore or a write of another payload field wrote it from an outdated copy.
THEOREM AuthorTold == Spec => []BitTellsAuthor
<1>1. TypeOK /\ VersionInv => BitTellsAuthor
  BY DEF VersionInv
<1> QED
  BY <1>1, InitInv, Inductive, PTL DEF Spec

\* What a person wrote and an agent overwrote is in a version retention never
\* deletes, unless an automatic one held it when the agent wrote.
THEOREM HandedSafe == Spec => []HandedKept
<1>1. TypeOK /\ VersionInv => HandedKept
  BY DEF VersionInv
<1> QED
  BY <1>1, InitInv, Inductive, PTL DEF Spec
-----------------------------------------------------------------------------
(***************************************************************************)
(* Automatic versions are bounded.                                         *)
(***************************************************************************)
\* Versions are written in the order of their ids and of the clock, so that by
\* id is also from the oldest to the newest.
RowsInv ==
  /\ IsFiniteSet(hist)
  /\ \A r \in hist : r.id < next /\ r.ts <= now
  /\ \A r, s \in hist : /\ r.id = s.id => r = s
                        /\ r.id < s.id => r.ts <= s.ts

Pruners == {i \in Slots : At(i, "prune")}

LEMMA LeastNat ==
  ASSUME NEW T \in SUBSET Nat, T # {}
  PROVE  \E x \in T : \A y \in T : x <= y
<1>1. PICK x \in T : \A y \in T : ~(<<y, x>> \in OpToRel(<, Nat))
  BY NatLessThanWellFounded, WFMin
<1>2. \A y \in T : ~(y < x)
  BY <1>1 DEF OpToRel
<1> QED
  BY <1>2

\* What retention leaves is no more than it keeps: all but the oldest row are
\* newer than that one, which is not crowded out.
LEMMA RetentionBounds ==
  ASSUME TypeOK, RowsInv
  PROVE  Cardinality(Autos(hist \ Retired(hist))) <= Keep
<1> DEFINE left == Autos(hist \ Retired(hist))
<1>0. IsFiniteSet(hist) /\ hist \subseteq Rows /\ left \subseteq Autos(hist) /\ Autos(hist) \subseteq hist
  BY DEF RowsInv, TypeOK, Autos
<1>1. IsFiniteSet(left) /\ Cardinality(left) \in Nat
  <2> HIDE DEF left
  <2>1. left \subseteq hist
    BY <1>0
  <2> QED
    BY <1>0, <2>1, FS_Subset, FS_CardinalityType
<1>2. CASE left = {}
  BY <1>2, FS_EmptySet, KeepAssumption
<1>3. CASE left # {}
  <2>1. PICK r \in left : \A s \in left : r.id <= s.id
    <3> DEFINE ids == {s.id : s \in left}
    <3>1. ids \in SUBSET Nat /\ ids # {}
      BY <1>0, <1>3 DEF Rows
    <3>2. PICK x \in ids : \A y \in ids : x <= y
      <4> HIDE DEF ids
      <4> QED
        BY <3>1, LeastNat
    <3> QED
      BY <3>2
  <2> DEFINE newer == {s \in Autos(hist) : Newer(s, r)}
  <2>2. left \ {r} \subseteq newer
    <3> SUFFICES ASSUME NEW s \in left, s # r PROVE Newer(s, r)
      BY <1>0
    <3>1. r \in hist /\ s \in hist /\ r.id \in Nat /\ s.id \in Nat /\ r.ts \in Nat /\ s.ts \in Nat
      BY <1>0, <2>1 DEF Rows
    <3>2. r.id <= s.id /\ r.id # s.id
      BY <2>1, <3>1 DEF RowsInv
    <3>3. r.ts <= s.ts
      BY <3>1, <3>2 DEF RowsInv
    <3> QED
      BY <3>1, <3>2, <3>3 DEF Newer
  <2>3. IsFiniteSet(newer) /\ Cardinality(newer) \in Nat
    <3>1. newer \subseteq hist
      BY <1>0
    <3> HIDE DEF newer
    <3> QED
      BY <1>0, <3>1, FS_Subset, FS_CardinalityType
  <2>4. Cardinality(newer) < Keep
    <3>1. ~Crowded(r, hist)
      BY <1>0 DEF Retired, Autos
    <3>2. ~(Cardinality(newer) >= Keep)
      BY <3>1 DEF Crowded
    <3> HIDE DEF newer
    <3> QED
      BY <3>2, <2>3, KeepAssumption
  <2>5. Cardinality(left) - 1 <= Cardinality(newer)
    <3> HIDE DEF left, newer
    <3>1. Cardinality(left \ {r}) = Cardinality(left) - 1
      BY <1>1, <2>1, FS_RemoveElement
    <3>2. Cardinality(left \ {r}) <= Cardinality(newer)
      BY <2>2, <2>3, FS_Subset
    <3> QED
      BY <3>1, <3>2
  <2> HIDE DEF left, newer
  <2>6. Cardinality(left) <= Keep
    BY <1>1, <2>3, <2>4, <2>5, KeepAssumption
  <2> QED
    BY <2>6 DEF left
<1> QED
  BY <1>2, <1>3

\* A row gets the highest id and the latest time.
LEMMA RowsStep ==
  ASSUME TypeOK, RowsInv, [Next]_vars
  PROVE  RowsInv'
<1>0. hist \subseteq Rows /\ next \in Nat /\ now \in Nat
  BY DEF TypeOK
<1>1. CASE \E i \in Slots : Insert(i)
  <2>1. PICK i \in Slots : Insert(i)
    BY <1>1
  <2>2. hist' = hist \cup {Snapshot(i)} /\ next' = next + 1 /\ now' = now
    BY <2>1 DEF Insert
  <2>3. Snapshot(i).id = next /\ Snapshot(i).ts = now
    BY DEF Snapshot
  <2>4. IsFiniteSet(hist')
    BY <2>2, FS_AddElement DEF RowsInv
  <2>5. \A r \in hist : r.id \in Nat /\ r.ts \in Nat
    BY <1>0 DEF Rows
  <2>6. \A r \in hist' : r.id < next' /\ r.ts <= now'
    BY <1>0, <2>2, <2>3, <2>5 DEF RowsInv
  <2>7. \A r, s \in hist' : (r.id = s.id => r = s) /\ (r.id < s.id => r.ts <= s.ts)
    BY <1>0, <2>2, <2>3, <2>5 DEF RowsInv
  <2> QED
    BY <2>4, <2>6, <2>7 DEF RowsInv
<1>2. CASE \A i \in Slots : ~Insert(i)
  <2>1. hist' \subseteq hist /\ next' = next
    BY <1>2 DEF Next, Request, Load, Throttle, List, ReadAtts, Match, Prune, Write, WriteRestored,
                Relink, EndRestore, WritePayload, Drop, Attachments, Pass, vars
  <2>2. now' \in Nat /\ now <= now'
    <3>1. CASE Pass
      BY <1>0, <3>1 DEF Pass
    <3>2. CASE ~Pass
      <4>1. now' = now
        BY <3>2 DEF Next, Request, Load, Throttle, List, ReadAtts, Match, Insert, Prune, Write,
                    WriteRestored, Relink, EndRestore, WritePayload, Drop, Attachments, vars
      <4> QED
        BY <1>0, <4>1
    <3> QED
      BY <3>1, <3>2
  <2>3. IsFiniteSet(hist')
    BY <2>1, FS_Subset DEF RowsInv
  <2>4. \A r \in hist : r.id \in Nat /\ r.ts \in Nat
    BY <1>0 DEF Rows
  <2> QED
    BY <1>0, <2>1, <2>2, <2>3, <2>4 DEF RowsInv
<1> QED
  BY <1>1, <1>2

\* Where a step leaves the request that takes it.
LEMMA PrunersBut ==
  ASSUME TypeOK, NEW i \in Slots, Request(i)
  PROVE  Pruners' \ {i} = Pruners \ {i}
<1>1. \A j \in Slots : i # j => req'[j].pc = req[j].pc
  BY OthersSame DEF Same
<1> QED
  BY <1>1 DEF Pruners, At

LEMMA CardinalitiesType ==
  ASSUME RowsInv
  PROVE  /\ IsFiniteSet(Autos(hist)) /\ Cardinality(Autos(hist)) \in Nat
         /\ IsFiniteSet(Pruners) /\ Cardinality(Pruners) \in Nat
<1>1. Autos(hist) \subseteq hist /\ Pruners \subseteq Slots
  BY DEF Autos, Pruners
<1> QED
  BY <1>1, SlotsAssumption, FS_Subset, FS_CardinalityType DEF RowsInv

LEMMA BoundStep ==
  ASSUME TypeOK, RowsInv, AutoBounded, [Next]_vars
  PROVE  AutoBounded'
<1> DEFINE autos == Autos(hist)
           held  == Cardinality(autos)
           due   == Cardinality(Pruners)
<1>0. /\ held \in Nat /\ due \in Nat /\ held' \in Nat /\ due' \in Nat
      /\ IsFiniteSet(autos) /\ IsFiniteSet(Pruners) /\ IsFiniteSet(Pruners')
      /\ unpruned \in Nat /\ Keep \in Nat
  <2>1. RowsInv'
    BY RowsStep
  <2>2. /\ IsFiniteSet(Autos(hist')) /\ Cardinality(Autos(hist')) \in Nat
        /\ IsFiniteSet(Pruners') /\ Cardinality(Pruners') \in Nat
    <3>1. Autos(hist') \subseteq hist' /\ Pruners' \subseteq Slots
      BY DEF Autos, Pruners
    <3> QED
      BY <2>1, <3>1, SlotsAssumption, FS_Subset, FS_CardinalityType DEF RowsInv
  <2> QED
    BY <2>2, CardinalitiesType, KeepAssumption DEF TypeOK, Autos
<1>1. held <= Keep + unpruned + due
  BY DEF AutoBounded, Pruners
<1> SUFFICES held' <= Keep + unpruned' + due'
  BY DEF AutoBounded, Pruners, Autos
<1>2. ASSUME hist' = hist, unpruned' = unpruned, Pruners \subseteq Pruners'
      PROVE  held' <= Keep + unpruned' + due'
  <2>1. held' = held
    BY <1>2
  <2>2. due <= due'
    BY <1>0, <1>2, FS_Subset
  <2> QED
    BY <1>0, <1>1, <1>2, <2>1, <2>2
<1>3. ASSUME NEW i \in Slots, Insert(i)
      PROVE  held' <= Keep + unpruned' + due'
  <2>1. hist' = hist \cup {Snapshot(i)} /\ unpruned' = unpruned /\ ~At(i, "prune")
    BY <1>3 DEF Insert, At
  <2>2. Pruners \subseteq Pruners' /\ (At(i, "prune")' => Pruners' = Pruners \cup {i})
    BY <1>3, <2>1, PrunersBut DEF Request, Pruners
  <2>3. CASE req[i].kind \in {"version", "agent"}
    <3>1. Snapshot(i).src # "auto"
      BY <2>3 DEF Snapshot, Source
    <3>2. Autos(hist') = Autos(hist)
      BY <2>1, <3>1 DEF Autos
    <3>3. held' = held
      BY <3>2 DEF Autos
    <3>4. due <= due'
      BY <1>0, <2>2, FS_Subset
    <3> QED
      BY <1>0, <1>1, <2>1, <3>3, <3>4
  <2>4. CASE req[i].kind \notin {"version", "agent"}
    <3>1. At(i, "prune")'
      <4>1. req[i] \in Requests
        BY <1>3, SlotParts DEF Insert, At, TypeOK
      <4>2. req' = [req EXCEPT ![i].pc = "prune", ![i].row = Snapshot(i)]
        BY <1>3, <2>4 DEF Insert
      <4> QED
        BY <4>1, <4>2 DEF At, TypeOK, Requests
    <3>2. due' = due + 1
      BY <1>0, <2>1, <2>2, <3>1, FS_AddElement DEF Pruners
    <3>3. Autos(hist') \subseteq autos \cup {Snapshot(i)}
      BY <2>1 DEF Autos
    <3>4. Cardinality(Autos(hist')) <= held + 1
      <4>1. /\ IsFiniteSet(autos \cup {Snapshot(i)})
            /\ Cardinality(autos \cup {Snapshot(i)}) <= held + 1
        <5>1. Cardinality(autos \cup {Snapshot(i)}) \in {held, held + 1}
          BY <1>0, FS_AddElement
        <5>2. IsFiniteSet(autos \cup {Snapshot(i)})
          BY <1>0, FS_AddElement
        <5> QED
          BY <1>0, <5>1, <5>2
      <4>2. Cardinality(Autos(hist')) <= Cardinality(autos \cup {Snapshot(i)})
        BY <3>3, <4>1, FS_Subset
      <4>3. Cardinality(Autos(hist')) \in Nat /\ Cardinality(autos \cup {Snapshot(i)}) \in Nat
        BY <3>3, <4>1, FS_Subset, FS_CardinalityType
      <4> QED
        BY <1>0, <4>1, <4>2, <4>3
    <3>5. held' <= held + 1
      BY <3>4 DEF Autos
    <3> QED
      BY <1>0, <1>1, <2>1, <3>2, <3>5
  <2> QED
    BY <2>3, <2>4
<1>4. ASSUME NEW i \in Slots, At(i, "prune"), Pruners' \ {i} = Pruners \ {i}, hist' = hist,
             unpruned' = unpruned + 1
      PROVE  held' <= Keep + unpruned' + due'
  <2>1. held' = held
    BY <1>4
  <2>2. Cardinality(Pruners \ {i}) = due - 1
    BY <1>0, <1>4, FS_RemoveElement DEF Pruners
  <2>3. Cardinality(Pruners' \ {i}) <= due'
    BY <1>0, FS_Subset
  <2>4. due - 1 <= due'
    BY <1>4, <2>2, <2>3
  <2> QED
    BY <1>0, <1>1, <1>4, <2>1, <2>4
<1>5. ASSUME NEW i \in Slots, Prune(i)
      PROVE  held' <= Keep + unpruned' + due'
  <2>1. At(i, "prune") /\ Pruners' \ {i} = Pruners \ {i}
    BY <1>5, PrunersBut DEF Request, Prune
  <2>2. CASE hist' = hist \ Retired(hist) /\ unpruned' = 0
    <3>1. held' <= Keep
      BY <2>2, RetentionBounds DEF Autos
    <3> QED
      BY <1>0, <2>2, <3>1
  <2>3. CASE hist' = hist /\ unpruned' = unpruned + 1
    BY <1>4, <2>1, <2>3
  <2> QED
    BY <1>5, <2>2, <2>3 DEF Prune
<1>6. ASSUME NEW i \in Slots, Drop(i)
      PROVE  held' <= Keep + unpruned' + due'
  <2>1. Pruners' \ {i} = Pruners \ {i} /\ hist' = hist
    BY <1>6, PrunersBut DEF Request, Drop
  <2>2. CASE At(i, "prune")
    BY <1>4, <1>6, <2>1, <2>2 DEF Drop
  <2>3. CASE ~At(i, "prune")
    BY <1>2, <1>6, <2>1, <2>3 DEF Drop, Pruners
  <2> QED
    BY <2>2, <2>3
<1>7. ASSUME NEW i \in Slots, Request(i), ~Insert(i), ~Prune(i), ~Drop(i)
      PROVE  held' <= Keep + unpruned' + due'
  <2>1. hist' = hist /\ unpruned' = unpruned /\ ~At(i, "prune")
    BY <1>7 DEF Request, Load, Throttle, List, ReadAtts, Match, Write, WriteRestored, Relink,
                EndRestore, WritePayload, At
  <2>2. Pruners' \ {i} = Pruners \ {i}
    BY <1>7, PrunersBut
  <2> QED
    BY <1>2, <2>1, <2>2 DEF Pruners
<1>8. CASE Attachments \/ Pass \/ UNCHANGED vars
  <2>1. hist' = hist /\ unpruned' = unpruned
    BY <1>8 DEF Attachments, Pass, vars
  <2>2. \A j \in Slots : req'[j].pc = req[j].pc
    BY <1>8, AttachmentsSame DEF Same, Pass, vars
  <2> QED
    BY <1>2, <2>1, <2>2 DEF Pruners, At
<1> QED
  BY <1>3, <1>5, <1>6, <1>7, <1>8 DEF Next

\* Beyond the automatic versions retention keeps there are only as many as there
\* are requests whose retention is still to run, failed or never ran.
THEOREM Bounded == Spec => []AutoBounded
<1>1. Init => TypeOK /\ VersionInv /\ RowsInv /\ AutoBounded
  <2> SUFFICES ASSUME Init PROVE TypeOK /\ VersionInv /\ RowsInv /\ AutoBounded
    OBVIOUS
  <2>1. hist = {} /\ Autos(hist) = {} /\ Pruners = {} /\ unpruned = 0
    BY DEF Init, Autos, Pruners, At, Free
  <2>2. RowsInv
    BY <2>1, FS_EmptySet DEF RowsInv
  <2>3. AutoBounded
    BY <2>1, FS_EmptySet, KeepAssumption DEF AutoBounded, Pruners
  <2> QED
    BY <2>2, <2>3, InitInv
<1>2. TypeOK /\ VersionInv /\ RowsInv /\ AutoBounded /\ [Next]_vars
      => (TypeOK /\ VersionInv /\ RowsInv /\ AutoBounded)'
  BY Inductive, RowsStep, BoundStep
<1> QED
  BY <1>1, <1>2, PTL DEF Spec
=============================================================================
