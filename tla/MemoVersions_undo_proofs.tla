---------------------- MODULE MemoVersions_undo_proofs ----------------------
(***************************************************************************)
(* Proofs about MemoVersions: what a restore leaves, and that what is      *)
(* overwritten unasked can be had back.  Both are about a request that has *)
(* read something and acts on it later, so both rest on what another step  *)
(* leaves of a request's copy (Overtaking).                                *)
(***************************************************************************)
EXTENDS MemoVersions_proofs

\* Slot j loses the copies in w, and nothing else.
Shrinks(j, w) ==
  req'[j] = IF req[j].pc = "free" THEN req[j] ELSE [req[j] EXCEPT !.fresh = @ \ w]
\* A step that changes what a copy is of takes the copy for outdated.
Outdates(w) == /\ "memo" \in w \/ (memo'.text = memo.text /\ memo'.open = memo.open)
               /\ "atts" \in w \/ UNCHANGED <<linked, files>>

LEMMA Overtaking ==
  ASSUME TypeOK, [Next]_vars, NEW j \in Slots, ~Request(j)
  PROVE  \E w : Shrinks(j, w) /\ Outdates(w)
<1>0. req \in [Slots -> SlotStates] /\ memo \in Memos
  BY DEF TypeOK
<1>1. ASSUME req'[j] = req[j], UNCHANGED stored
      PROVE  \E w : Shrinks(j, w) /\ Outdates(w)
  <2>1. Shrinks(j, {})
    <3>1. req[j].pc # "free" => [req[j] EXCEPT !.fresh = @ \ {}] = req[j]
      <4> SUFFICES ASSUME req[j].pc # "free"
                   PROVE  [req[j] EXCEPT !.fresh = @ \ {}] = req[j]
        OBVIOUS
      <4>1. CASE req[j] \in Requests
        <5>1. req[j].fresh \ {} = req[j].fresh
          OBVIOUS
        <5> QED
          BY <4>1, <5>1 DEF Requests
      <4>2. CASE req[j] \in Relinks
        <5>1. req[j].fresh \ {} = req[j].fresh
          OBVIOUS
        <5> QED
          BY <4>2, <5>1 DEF Relinks
      <4> QED
        BY <1>0, <4>1, <4>2, SlotParts
    <3> QED
      BY <1>1, <3>1 DEF Shrinks
  <2>2. Outdates({})
    BY <1>1 DEF Outdates, stored
  <2> QED
    BY <2>1, <2>2
<1>2. ASSUME NEW i \in Slots, NEW r, NEW w, i # j, Outdate(w, i, r), Outdates(w)
      PROVE  \E x : Shrinks(j, x) /\ Outdates(x)
  <2>1. Shrinks(j, w)
    BY <1>2 DEF Outdate, Shrinks
  <2> QED
    BY <1>2, <2>1
<1>3. ASSUME NEW i \in Slots, Request(i)
      PROVE  \E w : Shrinks(j, w) /\ Outdates(w)
  <2>0. i # j
    BY <1>3
  <2>1. CASE \/ Load(i) \/ Throttle(i) \/ List(i) \/ ReadAtts(i) \/ Match(i)
             \/ Insert(i) \/ Prune(i) \/ EndRestore(i) \/ Drop(i)
    <3>1. req'[j] = req[j] /\ UNCHANGED stored
      BY <1>0, <2>0, <2>1 DEF Load, Throttle, List, ReadAtts, Match, Insert, Prune, EndRestore,
                             Drop, Goto, End
    <3> QED
      BY <1>1, <3>1
  <2>2. CASE Write(i)
    <3>1. Outdate({"memo"}, i, Free) /\ Outdates({"memo"})
      BY <2>2 DEF Write, Outdates
    <3> QED
      BY <1>2, <2>0, <3>1
  <2>3. CASE WriteRestored(i)
    <3>1. CASE NewText(i) \/ Reopens(i)
      <4>1. Outdate({"memo"}, i, Relinking(i)) /\ Outdates({"memo"})
        BY <2>3, <3>1 DEF WriteRestored, Outdates
      <4> QED
        BY <1>2, <2>0, <4>1
    <3>2. CASE ~(NewText(i) \/ Reopens(i))
      <4>1. Outdate({}, i, Relinking(i)) /\ Outdates({})
        BY <2>3, <3>2 DEF WriteRestored, Outdates, Restored
      <4> QED
        BY <1>2, <2>0, <4>1
    <3> QED
      BY <3>1, <3>2
  <2>4. CASE Relink(i)
    <3>1. PICK a : Outdate({"atts"}, i, [req[i] EXCEPT !.todo = @ \ {a}])
      BY <2>4 DEF Relink
    <3>2. Outdates({"atts"})
      BY <2>4 DEF Relink, Outdates
    <3> QED
      BY <1>2, <2>0, <3>1, <3>2
  <2>5. CASE WritePayload(i)
    <3>1. CASE req[i].memo.open # memo.open
      <4>1. Outdate({"memo"}, i, Free) /\ Outdates({"memo"})
        BY <2>5, <3>1 DEF WritePayload, Outdates
      <4> QED
        BY <1>2, <2>0, <4>1
    <3>2. CASE req[i].memo.open = memo.open
      <4>1. Outdate({}, i, Free) /\ UNCHANGED <<linked, files>>
        BY <2>5, <3>2 DEF WritePayload
      <4>2. memo'.text = memo.text /\ memo'.open = memo.open
        BY <1>0, <2>5, <3>2 DEF WritePayload, Memos
      <4> QED
        BY <1>2, <2>0, <4>1, <4>2 DEF Outdates
    <3> QED
      BY <3>1, <3>2
  <2> QED
    BY <1>3, <2>1, <2>2, <2>3, <2>4, <2>5 DEF Request
<1>4. CASE Attachments
  <2>1. Shrinks(j, {"atts"})
    BY <1>4 DEF Attachments, Shrinks
  <2>2. Outdates({"atts"})
    BY <1>4 DEF Attachments, Outdates
  <2> QED
    BY <2>1, <2>2
<1>5. CASE Pass \/ UNCHANGED vars
  BY <1>1, <1>5 DEF Pass, vars
<1> QED
  BY <1>3, <1>4, <1>5 DEF Next

\* What that says of a request at work: of a copy that is current after the step
\* that it was before and that what it is of has not changed.
Undisturbed(j) ==
  /\ Fresh(j, "memo")' => Fresh(j, "memo") /\ memo'.text = memo.text /\ memo'.open = memo.open
  /\ Fresh(j, "atts")' => Fresh(j, "atts") /\ UNCHANGED <<linked, files>>

LEMMA CopyElsewhere ==
  ASSUME TypeOK, [Next]_vars, NEW j \in Slots, ~Request(j), Copying(j)'
  PROVE  /\ req[j] \in Requests /\ Undisturbed(j)
         /\ req'[j].pc = req[j].pc /\ req'[j].kind = req[j].kind /\ req'[j].memo = req[j].memo
         /\ req'[j].atts = req[j].atts /\ req'[j].row = req[j].row /\ req'[j].seen = req[j].seen
<1>1. PICK w : Shrinks(j, w) /\ Outdates(w)
  BY Overtaking
<1>2. req'[j].pc = req[j].pc /\ Copying(j)
  BY Elsewhere DEF Same, Copying, Busy, At
<1>3. req[j] \in Requests
  BY <1>2, SlotParts DEF Copying, Busy, At, TypeOK
<1>4. req'[j] = [req[j] EXCEPT !.fresh = @ \ w]
  BY <1>1, <1>2 DEF Shrinks, Copying, Busy, At
<1>5. req'[j].fresh = req[j].fresh \ w
  BY <1>3, <1>4 DEF Requests
<1>6. Undisturbed(j)
  BY <1>1, <1>5 DEF Undisturbed, Outdates, Fresh
<1> QED
  BY <1>3, <1>4, <1>6 DEF Requests

LEMMA LinksElsewhere ==
  ASSUME TypeOK, [Next]_vars, NEW j \in Slots, ~Request(j), At(j, "links")'
  PROVE  /\ At(j, "links") /\ req[j] \in Relinks /\ Undisturbed(j)
         /\ req'[j].row = req[j].row /\ req'[j].todo = req[j].todo
<1>1. PICK w : Shrinks(j, w) /\ Outdates(w)
  BY Overtaking
<1>2. At(j, "links")
  BY Elsewhere DEF Same, At
<1>3. req[j] \in Relinks
  BY <1>2, SlotParts DEF At, TypeOK
<1>4. req'[j] = [req[j] EXCEPT !.fresh = @ \ w]
  BY <1>1, <1>2 DEF Shrinks, At
<1>5. req'[j].fresh = req[j].fresh \ w
  BY <1>3, <1>4 DEF Relinks
<1>6. Undisturbed(j)
  BY <1>1, <1>5 DEF Undisturbed, Outdates, Fresh
<1> QED
  BY <1>2, <1>3, <1>4, <1>6 DEF Relinks

-----------------------------------------------------------------------------
(***************************************************************************)
(* What a restore leaves.                                                  *)
(***************************************************************************)
\* The attachments a restore compares are those linked, if they still are.
AttsInv == \A i \in Slots : At(i, "write") /\ req[i].kind = "restore" /\ Fresh(i, "atts") =>
             req[i].atts = linked

\* Once its text is written, and nothing else has changed the document since,
\* the memo is the version's and the attachments are but for those to relink.
LinkedBut(i) == \A a \in Atts \ req[i].todo : a \in linked <=> a \in req[i].row.atts \cap files
RestoreInv ==
  /\ linked \subseteq files
  /\ \A i \in Slots : At(i, "links") =>
       /\ Fresh(i, "memo") => memo.text = req[i].row.text /\ ~memo.open
       /\ Fresh(i, "atts") => LinkedBut(i)

LEMMA AttsStep ==
  ASSUME TypeOK, TargetInv, AttsInv, [Next]_vars
  PROVE  AttsInv'
<1> SUFFICES ASSUME NEW j \in Slots, At(j, "write")', req'[j].kind = "restore", Fresh(j, "atts")'
             PROVE  req'[j].atts = linked'
  BY DEF AttsInv
<1>0. Copying(j)' /\ req \in [Slots -> SlotStates]
  BY DEF Copying, Busy, At, TypeOK
<1>1. CASE ~Request(j)
  BY <1>0, <1>1, CopyElsewhere DEF AttsInv, Undisturbed, At
<1>2. CASE Request(j)
  <2>1. ~Load(j)
    BY Loaded DEF FirstStep, At
  <2>2. Onward(j) /\ req[j] \in Requests /\ req[j].kind = "restore"
    BY <1>0, <1>2, <2>1, Holding, SlotParts DEF Onward, Copying, Busy, At
  <2>3. At(j, "atts")
    BY <1>0, <2>2, NextPlace DEF TargetInv, Onward, At
  <2>4. ReadAtts(j) /\ ~End(j)
    BY <1>0, <2>2, <2>3 DEF Onward, Reading, Throttle, List, Match, Insert, Prune, At, End, Free
  <2>5. PICK f : req' = [req EXCEPT ![j].pc = "write", ![j].atts = linked, ![j].seen = f]
    BY <2>2, <2>4 DEF ReadAtts
  <2>6. req'[j].atts = linked
    BY <1>0, <2>2, <2>5 DEF Requests
  <2>7. linked' = linked
    BY <2>4 DEF ReadAtts, stored
  <2> QED
    BY <2>6, <2>7
<1> QED
  BY <1>1, <1>2

LEMMA LinkedStep ==
  ASSUME TypeOK, linked \subseteq files, [Next]_vars
  PROVE  linked' \subseteq files'
<1>1. ASSUME NEW i \in Slots, Request(i), ~Relink(i) PROVE UNCHANGED <<linked, files>>
  BY <1>1 DEF Request, Load, Throttle, List, ReadAtts, Match, Insert, Prune, Write, WriteRestored,
              EndRestore, WritePayload, Drop, stored
<1>2. ASSUME NEW i \in Slots, Relink(i) PROVE linked' \subseteq files'
  BY <1>2 DEF Relink
<1>3. CASE Attachments
  BY <1>3 DEF Attachments, Attach, Detach
<1>4. CASE Pass \/ UNCHANGED vars
  BY <1>4 DEF Pass, vars, stored
<1> QED
  BY <1>1, <1>2, <1>3, <1>4 DEF Next

LEMMA RestoreStep ==
  ASSUME TypeOK, CopyInv, TargetInv, AttsInv, RestoreInv, [Next]_vars
  PROVE  RestoreInv'
<1>0. req \in [Slots -> SlotStates] /\ memo \in Memos /\ linked \subseteq files /\ linked \subseteq Atts
  BY DEF TypeOK, RestoreInv
<1>1. linked' \subseteq files'
  BY <1>0, LinkedStep
<1> SUFFICES ASSUME NEW j \in Slots, At(j, "links")'
             PROVE  /\ Fresh(j, "memo")' => memo'.text = req'[j].row.text /\ ~memo'.open
                    /\ Fresh(j, "atts")' => LinkedBut(j)'
  BY <1>1 DEF RestoreInv
<1>2. CASE ~Request(j)
  <2>1. /\ At(j, "links") /\ Undisturbed(j)
        /\ req'[j].row = req[j].row /\ req'[j].todo = req[j].todo
    BY <1>2, LinksElsewhere
  <2> QED
    BY <2>1 DEF RestoreInv, Undisturbed, LinkedBut
<1>3. CASE WriteRestored(j)
  <2>1. /\ At(j, "write") /\ req[j].kind = "restore" /\ memo' = Restored(j)
        /\ UNCHANGED <<linked, files>>
    BY <1>3 DEF WriteRestored
  <2>2. req[j] \in Requests /\ req[j].row \in Rows /\ Copying(j)
    BY <1>0, <2>1, SlotParts DEF At, TargetInv, Copying, Busy
  <2>3. req'[j] = Relinking(j)
    BY <1>3 DEF WriteRestored, Outdate
  <2>4. /\ req'[j].row = req[j].row /\ req'[j].fresh = req[j].fresh
        /\ req'[j].todo = (req[j].atts \ req[j].row.atts) \cup (req[j].row.atts \ req[j].atts)
    BY <2>3 DEF Relinking
  <2>5. ASSUME Fresh(j, "memo")' PROVE memo'.text = req'[j].row.text /\ ~memo'.open
    <3>1. req[j].memo.text = memo.text /\ req[j].memo.open = memo.open
      BY <2>2, <2>4, <2>5 DEF CopyInv, Fresh
    <3> QED
      BY <1>0, <2>1, <2>4, <3>1 DEF Restored, NewText, Reopens, Memos
  <2>6. ASSUME Fresh(j, "atts")' PROVE LinkedBut(j)'
    <3>1. req[j].atts = linked
      BY <2>1, <2>4, <2>6 DEF AttsInv, Fresh
    <3> QED
      BY <1>0, <2>1, <2>4, <3>1 DEF LinkedBut
  <2> QED
    BY <2>5, <2>6
<1>4. CASE Relink(j)
  <2> DEFINE drop == req[j].todo \ req[j].row.atts
  <2>1. PICK a \in IF drop # {} THEN drop ELSE req[j].todo :
          /\ linked' = IF drop # {} THEN linked \ {a} ELSE linked \cup ({a} \cap files)
          /\ Outdate({"atts"}, j, [req[j] EXCEPT !.todo = @ \ {a}])
    BY <1>4 DEF Relink
  <2>2. At(j, "links") /\ UNCHANGED <<memo, files>>
    BY <1>4 DEF Relink
  <2>3. req[j] \in Relinks
    BY <1>0, <2>2, SlotParts DEF At
  <2>4. req'[j] = [req[j] EXCEPT !.todo = @ \ {a}]
    BY <2>1 DEF Outdate
  <2>5. /\ req'[j].row = req[j].row /\ req'[j].fresh = req[j].fresh
        /\ req'[j].todo = req[j].todo \ {a}
    BY <2>3, <2>4 DEF Relinks
  <2>6. a \in linked' <=> a \in req[j].row.atts \cap files
    BY <1>0, <2>1
  <2>7. \A b : b # a => (b \in linked' <=> b \in linked)
    BY <2>1
  <2> QED
    BY <2>2, <2>5, <2>6, <2>7 DEF RestoreInv, LinkedBut, Fresh
<1>5. CASE Request(j) /\ ~WriteRestored(j) /\ ~Relink(j)
  <2>1. CASE Load(j)
    BY <2>1, Loaded DEF FirstStep, AllKinds, Writing, At
  <2>2. CASE Write(j) \/ WritePayload(j) \/ EndRestore(j) \/ Drop(j)
    BY <1>0, <2>2 DEF Write, WritePayload, EndRestore, Drop, Outdate, End, At, Free
  <2>3. CASE Throttle(j) \/ List(j) \/ ReadAtts(j) \/ Match(j) \/ Insert(j) \/ Prune(j)
    <3>1. req[j] \in Requests
      BY <1>0, <2>3, SlotParts DEF Throttle, List, ReadAtts, Match, Insert, Prune, At
    <3>2. CASE List(j)
      <4>1. PICK r, f : req' = [req EXCEPT ![j].pc = "atts", ![j].row = r, ![j].seen = f]
        BY <3>2 DEF List
      <4> QED
        BY <1>0, <3>1, <4>1 DEF At, Requests
    <3>3. CASE Throttle(j) \/ Match(j) \/ Prune(j)
      BY <1>0, <3>1, <3>3 DEF Throttle, Match, Prune, Goto, At, Requests
    <3>4. CASE ReadAtts(j)
      BY <1>0, <3>1, <3>4 DEF ReadAtts, End, At, Free, Requests
    <3>5. CASE Insert(j)
      <4> DEFINE s == Snapshot(j)
      <4>1. End(j) \/ \E pc \in {"write", "prune"} : req' = [req EXCEPT ![j].pc = pc, ![j].row = s]
        BY <3>5 DEF Insert
      <4> HIDE DEF s
      <4> QED
        BY <1>0, <3>1, <4>1 DEF End, At, Free, Requests
    <3> QED
      BY <2>3, <3>2, <3>3, <3>4, <3>5
  <2> QED
    BY <1>5, <2>1, <2>2, <2>3 DEF Request
<1> QED
  BY <1>2, <1>3, <1>4, <1>5

AllInv == TypeOK /\ VersionInv /\ RowsInv /\ AttsInv /\ RestoreInv

LEMMA AllInit == Init => AllInv
<1> SUFFICES ASSUME Init PROVE RowsInv /\ AttsInv /\ RestoreInv
  BY InitInv DEF AllInv
<1>1. RowsInv
  BY FS_EmptySet DEF Init, RowsInv
<1>2. AttsInv /\ RestoreInv
  BY DEF Init, AttsInv, RestoreInv, At, Free
<1> QED
  BY <1>1, <1>2

LEMMA AllStep == AllInv /\ [Next]_vars => AllInv'
  BY Inductive, RowsStep, AttsStep, RestoreStep DEF AllInv, VersionInv

\* A restore that ends, nothing else having changed the document meanwhile,
\* leaves the version's text, its attachments as far as their files exist, and
\* a session that is closed.
THEOREM Restores == Spec => RestoreRestores
<1>1. AllInv /\ [Next]_vars =>
        [\A i \in Slots : EndRestore(i) /\ req[i].fresh = {"memo", "atts"} =>
           /\ memo.text = req[i].row.text /\ ~memo.open
           /\ linked = req[i].row.atts \cap files]_vars
  <2> SUFFICES ASSUME AllInv, NEW i \in Slots, EndRestore(i), req[i].fresh = {"memo", "atts"}
               PROVE  /\ memo.text = req[i].row.text /\ ~memo.open
                      /\ linked = req[i].row.atts \cap files
    OBVIOUS
  <2>1. At(i, "links") /\ req[i].todo = {} /\ Fresh(i, "memo") /\ Fresh(i, "atts")
    BY DEF EndRestore, Fresh
  <2>2. req[i] \in Relinks
    BY <2>1, SlotParts DEF At, AllInv, TypeOK
  <2>3. linked \subseteq Atts /\ req[i].row.atts \subseteq Atts
    BY <2>2 DEF AllInv, TypeOK, Relinks, Rows
  <2>4. memo.text = req[i].row.text /\ ~memo.open /\ LinkedBut(i)
    BY <2>1 DEF AllInv, RestoreInv
  <2> QED
    BY <2>1, <2>3, <2>4 DEF LinkedBut
<1> QED
  BY <1>1, AllInit, AllStep, PTL DEF Spec, RestoreRestores

-----------------------------------------------------------------------------
(***************************************************************************)
(* What is overwritten unasked can be had back.                            *)
(***************************************************************************)
LEMMA GreatestId ==
  ASSUME TypeOK, RowsInv, NEW T \in SUBSET hist, T # {}
  PROVE  \E g \in T : \A s \in T : s.id <= g.id
<1> DEFINE behind == {next - s.id : s \in T}
<1>0. next \in Nat /\ \A s \in T : s.id \in Nat /\ s.id < next
  BY DEF TypeOK, RowsInv, Rows
<1>1. behind \in SUBSET Nat /\ behind # {}
  BY <1>0
<1>2. PICK x \in behind : \A y \in behind : x <= y
  <2> HIDE DEF behind
  <2> QED
    BY <1>1, LeastNat
<1>3. PICK g \in T : x = next - g.id
  BY <1>2
<1>4. ASSUME NEW s \in T PROVE s.id <= g.id
  <2>1. next - g.id <= next - s.id
    BY <1>2, <1>3
  <2>2. s.id \in Nat /\ g.id \in Nat /\ next \in Nat
    BY <1>0
  <2> QED
    BY <2>1, <2>2
<1> QED
  BY <1>4

\* A row crowded out before retention runs is crowded out by what it leaves: of
\* the newer rows the last it deletes is crowded out itself, by rows it keeps.
LEMMA CrowdedStays ==
  ASSUME TypeOK, RowsInv, NEW r \in Rows, Crowded(r, hist), ~Expired(r)
  PROVE  Crowded(r, hist \ Retired(hist))
<1> DEFINE left == hist \ Retired(hist)
           over == {s \in Autos(hist) : Newer(s, r)}
           kept == {s \in Autos(left) : Newer(s, r)}
           out  == over \ left
<1>0. /\ IsFiniteSet(hist) /\ hist \subseteq Rows /\ Autos(hist) \subseteq hist
      /\ Autos(left) \subseteq left /\ now \in Nat /\ MaxAge \in Nat /\ Keep \in Nat
  BY TimeAssumption, KeepAssumption DEF RowsInv, TypeOK, Autos
<1>1. \A s \in hist \cup {r} : s.id \in Nat /\ s.ts \in Nat
  BY <1>0 DEF Rows
<1>2. \A s \in over : ~Expired(s)
  BY <1>0, <1>1 DEF Newer, Expired
<1>3. IsFiniteSet(kept) /\ Cardinality(kept) \in Nat
  <2>1. kept \subseteq hist
    BY <1>0
  <2> HIDE DEF kept
  <2> QED
    BY <1>0, <2>1, FS_Subset, FS_CardinalityType
<1>4. ASSUME NEW more \in SUBSET kept, Cardinality(more) >= Keep
      PROVE  Cardinality(kept) >= Keep
  <2> HIDE DEF kept
  <2>1. Cardinality(more) <= Cardinality(kept) /\ Cardinality(more) \in Nat
    BY <1>3, FS_Subset, FS_CardinalityType
  <2> QED
    BY <1>0, <1>3, <1>4, <2>1
<1>5. CASE out = {}
  <2>1. over \subseteq kept
    BY <1>5 DEF Autos
  <2>2. Cardinality(over) >= Keep
    BY DEF Crowded
  <2> HIDE DEF over, kept
  <2> QED
    BY <1>4, <2>1, <2>2 DEF Crowded, kept
<1>6. CASE out # {}
  <2>1. PICK g \in out : \A s \in out : s.id <= g.id
    <3>1. out \in SUBSET hist
      BY <1>0
    <3> HIDE DEF out
    <3> QED
      BY <1>6, <3>1, GreatestId
  <2> DEFINE newer == {s \in Autos(hist) : Newer(s, g)}
  <2>2. Cardinality(newer) >= Keep
    <3>1. g \in Retired(hist) /\ ~Expired(g)
      BY <1>0, <1>2, <2>1
    <3> QED
      BY <3>1 DEF Retired, Crowded
  <2>3. newer \subseteq kept
    <3> SUFFICES ASSUME NEW s \in Autos(hist), Newer(s, g) PROVE s \in kept
      OBVIOUS
    <3>1. s \in hist /\ g \in hist /\ Newer(g, r)
      BY <1>0, <2>1
    <3>2. Newer(s, r)
      BY <1>1, <3>1 DEF Newer
    <3>3. ~(s.id <= g.id)
      <4>1. s.ts > g.ts \/ s.id > g.id
        BY DEF Newer
      <4>2. /\ s.id = g.id => s.ts = g.ts
            /\ s.id < g.id => s.ts <= g.ts
        BY <3>1 DEF RowsInv
      <4> QED
        BY <1>1, <3>1, <4>1, <4>2
    <3>4. s \in left
      BY <2>1, <3>2, <3>3
    <3> QED
      BY <3>2, <3>4 DEF Autos
  <2> HIDE DEF kept, newer
  <2> QED
    BY <1>4, <2>2, <2>3 DEF Crowded, kept
<1> QED
  BY <1>5, <1>6

\* A version that is there, or that its age or newer ones have pushed out.
ThereOrGone(r) == r \in hist \/ GoneBy(r)

LEMMA GoneStays ==
  ASSUME TypeOK, RowsInv, [Next]_vars, NEW r \in Rows, ThereOrGone(r)
  PROVE  ThereOrGone(r)'
<1>0. RowsInv' /\ now \in Nat /\ MaxAge \in Nat /\ r.ts \in Nat /\ Keep \in Nat
  BY RowsStep, TimeAssumption, KeepAssumption DEF TypeOK, Rows
<1>1. /\ now' = now \/ now' = now + 1
      /\ hist \subseteq hist' \/ (hist' = hist \ Retired(hist) /\ now' = now)
  <2>1. ASSUME NEW i \in Slots, Request(i)
        PROVE  now' = now /\ (hist \subseteq hist' \/ hist' = hist \ Retired(hist))
    BY <2>1 DEF Request, Load, Throttle, List, ReadAtts, Match, Insert, Prune, Write, WriteRestored,
                Relink, EndRestore, WritePayload, Drop
  <2>2. CASE Attachments \/ Pass \/ UNCHANGED vars
    BY <2>2 DEF Attachments, Pass, vars
  <2> QED
    BY <2>1, <2>2 DEF Next
<1>2. Expired(r) => Expired(r)'
  BY <1>0, <1>1 DEF Expired
<1>3. CASE hist \subseteq hist'
  <2>1. ASSUME Crowded(r, hist) PROVE Crowded(r, hist')
    <3> DEFINE over == {s \in Autos(hist) : Newer(s, r)}
               more == {s \in Autos(hist') : Newer(s, r)}
    <3>1. over \subseteq more /\ more \subseteq hist'
      BY <1>3 DEF Autos
    <3>2. Cardinality(over) >= Keep
      BY <2>1 DEF Crowded
    <3>3. Cardinality(more) >= Keep
      <4> HIDE DEF over, more
      <4>1. IsFiniteSet(more)
        BY <1>0, <3>1, FS_Subset DEF RowsInv
      <4>2. Cardinality(over) <= Cardinality(more) /\ Cardinality(over) \in Nat
            /\ Cardinality(more) \in Nat
        BY <3>1, <4>1, FS_Subset, FS_CardinalityType
      <4> QED
        BY <1>0, <3>2, <4>2
    <3> QED
      BY <3>3 DEF Crowded
  <2> QED
    BY <1>2, <1>3, <2>1 DEF ThereOrGone, GoneBy, Crowded
<1>4. CASE hist' = hist \ Retired(hist)
  <2>1. CASE Expired(r) /\ r.src = "auto"
    BY <1>2, <2>1 DEF ThereOrGone, GoneBy
  <2>2. CASE Crowded(r, hist) /\ ~Expired(r) /\ r.src = "auto"
    <3>1. Crowded(r, hist')
      BY <1>4, <2>2, CrowdedStays
    <3> QED
      BY <2>2, <3>1 DEF ThereOrGone, GoneBy, Crowded
  <2>3. CASE ~GoneBy(r)
    BY <1>4, <2>3 DEF ThereOrGone, GoneBy, Retired, Autos
  <2> QED
    BY <2>1, <2>2, <2>3 DEF GoneBy
<1> QED
  BY <1>1, <1>3, <1>4

\* A version of the state request i loaded.
Holds(i, r) == /\ r \in Rows /\ r.text = req[i].memo.text /\ r.atts = req[i].atts
               /\ ThereOrGone(r)

\* A request about to overwrite what it was not asked to has noted such a version;
\* a restore's are those it listed, of which it then keeps the ones that match.
HeldInv == \A i \in Slots :
  /\ At(i, "throttle") => req[i].kind = "periodic"
  /\ (At(i, "write") \/ At(i, "prune")) /\ Unasked(i) => Holds(i, req[i].row)
  /\ req[i].kind = "restore" => /\ At(i, "atts") => \A s \in req[i].seen : ThereOrGone(s)
                                /\ At(i, "write") => /\ req[i].seen # {}
                                                     /\ \A s \in req[i].seen : Holds(i, s)

LEMMA HeldStep ==
  ASSUME TypeOK, RowsInv, PlaceInv, TargetInv, HeldInv, [Next]_vars
  PROVE  HeldInv'
<1> SUFFICES ASSUME NEW j \in Slots, Copying(j)'
             PROVE  /\ At(j, "throttle")' => req'[j].kind = "periodic"
                    /\ (At(j, "write") \/ At(j, "prune"))' /\ Unasked(j)' => Holds(j, req[j].row)'
                    /\ req'[j].kind = "restore" =>
                         /\ At(j, "atts")' => \A s \in req'[j].seen : ThereOrGone(s)'
                         /\ At(j, "write")' => /\ req'[j].seen # {}
                                               /\ \A s \in req'[j].seen : Holds(j, s)'
  BY DEF HeldInv, Copying, Busy, At
<1>0. req \in [Slots -> SlotStates] /\ hist \subseteq Rows
  BY DEF TypeOK
<1>1. CASE ~Request(j)
  <2>1. /\ req[j] \in Requests
        /\ req'[j].pc = req[j].pc /\ req'[j].kind = req[j].kind /\ req'[j].memo = req[j].memo
        /\ req'[j].atts = req[j].atts /\ req'[j].row = req[j].row /\ req'[j].seen = req[j].seen
    BY <1>1, CopyElsewhere
  <2>2. req[j].seen \subseteq Rows
    BY <2>1 DEF Requests
  <2>3. ASSUME NEW s \in Rows, ThereOrGone(s) PROVE ThereOrGone(s)'
    BY <2>3, GoneStays
  <2>4. ASSUME NEW s, Holds(j, s) PROVE Holds(j, s)'
    BY <2>1, <2>3, <2>4 DEF Holds
  <2> QED
    BY <2>1, <2>2, <2>3, <2>4 DEF HeldInv, Unasked, Holds, At
<1>2. CASE Load(j)
  <2>1. PICK k \in AllKinds : /\ req'[j].kind = k /\ req'[j].memo = memo
                              /\ req'[j].pc = FirstStep(k)
    BY <1>2, Loaded
  <2> QED
    BY <2>1 DEF FirstStep, AllKinds, Writing, At, Unasked
<1>3. CASE Onward(j)
  <2>1. /\ req[j] \in Requests /\ ~End(j)
        /\ req'[j].kind = req[j].kind /\ req'[j].memo = req[j].memo
    BY <1>0, <1>3, SlotParts DEF Onward, Copying, Busy, At, End, Free
  <2>2. CASE Throttle(j)
    <3>1. req[j].kind = "periodic"
      BY <2>2 DEF HeldInv, Throttle
    <3> QED
      BY <1>3, <2>1, <3>1 DEF Unasked
  <2>3. CASE List(j)
    <3>1. PICK r \in hist : req' = [req EXCEPT ![j].pc = "atts", ![j].row = r,
                                ![j].seen = {s \in hist : s.text = req[j].memo.text}]
      BY <2>3 DEF List
    <3> DEFINE f == {s \in hist : s.text = req[j].memo.text}
    <3>2. req'[j] = [req[j] EXCEPT !.pc = "atts", !.row = r, !.seen = f]
      BY <1>0, <3>1
    <3>3. \A s \in f : s \in hist'
      BY <2>3 DEF List
    <3> HIDE DEF f
    <3>4. req'[j].pc = "atts" /\ req'[j].seen = f
      BY <2>1, <3>2 DEF Requests
    <3> QED
      BY <3>3, <3>4 DEF ThereOrGone, At
  <2>4. CASE ReadAtts(j)
    <3>1. hist' = hist /\ now' = now
      BY <2>4 DEF ReadAtts
    <3>2. CASE req[j].kind = "restore"
      <4> DEFINE f == Matching(req[j].seen, req[j].memo.text, linked)
      <4>1. f # {} /\ req' = [req EXCEPT ![j].pc = "write", ![j].atts = linked, ![j].seen = f]
        BY <2>1, <2>4, <3>2 DEF ReadAtts
      <4>2. /\ req'[j].pc = "write" /\ req'[j].seen = f /\ req'[j].atts = linked
        <5> HIDE DEF f
        <5> QED
          BY <1>0, <2>1, <4>1 DEF Requests
      <4>3. \A s \in f : /\ s \in req[j].seen /\ s \in Rows
                         /\ s.text = req[j].memo.text /\ s.atts = linked
        BY <2>1 DEF Matching, Requests
      <4>4. \A s \in f : ThereOrGone(s)
        BY <2>4, <3>2, <4>3 DEF HeldInv, ReadAtts
      <4>5. ASSUME NEW s \in f PROVE Holds(j, s)'
        <5>1. ThereOrGone(s)'
          BY <4>3, <4>4, <4>5, GoneStays
        <5> QED
          BY <2>1, <4>2, <4>3, <4>5, <5>1 DEF Holds
      <4> HIDE DEF f
      <4> QED
        BY <2>1, <3>2, <4>1, <4>2, <4>5 DEF At, Unasked
    <3>3. CASE req[j].kind # "restore"
      <4>1. At(j, "match")' \/ At(j, "insert")'
        BY <1>3, <2>4, <3>3, NextPlace DEF ReadAtts, At
      <4> QED
        BY <2>1, <3>3, <4>1 DEF At
    <3> QED
      BY <3>2, <3>3
  <2>5. CASE Match(j)
    <3>0. req[j].kind # "restore"
      BY <2>1, <2>5 DEF TargetInv, Match, Copying, Busy, At
    <3>1. CASE Goto(j, "insert")
      <4>1. req'[j].pc = "insert"
        BY <1>0, <2>1, <3>1 DEF Goto, Requests
      <4> QED
        BY <4>1 DEF At
    <3>2. ASSUME NEW r \in Lasting(Matching(hist, req[j].memo.text, req[j].atts)),
                 req' = [req EXCEPT ![j].pc = "write", ![j].row = r]
          PROVE  /\ Holds(j, req[j].row)' /\ req'[j].pc = "write"
      <4>1. r \in hist /\ r.text = req[j].memo.text /\ r.atts = req[j].atts
        BY <3>2 DEF Lasting, Matching, Autos
      <4>2. req'[j].row = r /\ req'[j].atts = req[j].atts /\ req'[j].pc = "write"
        BY <1>0, <2>1, <3>2 DEF Requests
      <4>3. hist' = hist
        BY <2>5 DEF Match
      <4> QED
        BY <1>0, <2>1, <4>1, <4>2, <4>3 DEF Holds, ThereOrGone
    <3> QED
      BY <2>1, <2>5, <3>0, <3>1, <3>2 DEF Match, At
  <2>6. CASE Insert(j)
    <3>0. req[j].kind # "restore"
      BY <2>1, <2>6 DEF TargetInv, Insert, Copying, Busy, At
    <3> DEFINE s == Snapshot(j)
    <3>1. PICK pc \in {"write", "prune"} : req' = [req EXCEPT ![j].pc = pc, ![j].row = s]
      BY <2>1, <2>6 DEF Insert
    <3>2. s.text = req[j].memo.text /\ s.atts = req[j].atts /\ s \in hist' /\ s \in Rows
      <4>1. hist' \subseteq Rows
        BY <2>6, InsertType
      <4> QED
        BY <2>6, <4>1 DEF Insert, Snapshot
    <3> HIDE DEF s
    <3>3. req'[j].row = s /\ req'[j].atts = req[j].atts /\ req'[j].pc = pc
      BY <1>0, <2>1, <3>1 DEF Requests
    <3>4. Holds(j, req[j].row)'
      BY <2>1, <3>2, <3>3 DEF Holds, ThereOrGone
    <3> QED
      BY <2>1, <3>0, <3>3, <3>4 DEF At
  <2>7. CASE Prune(j)
    <3>0. req[j].kind # "restore" /\ At(j, "prune")
      BY <2>1, <2>7 DEF TargetInv, Prune, Copying, Busy, At
    <3>1. req'[j].row = req[j].row /\ req'[j].atts = req[j].atts /\ req'[j].pc = "write"
      BY <1>0, <2>1, <2>7 DEF Prune, Goto, Requests
    <3>2. ASSUME NEW s, Holds(j, s) PROVE Holds(j, s)'
      <4>1. s \in Rows /\ ThereOrGone(s)
        BY <3>2 DEF Holds
      <4>2. ThereOrGone(s)'
        BY <4>1, GoneStays
      <4> QED
        BY <2>1, <3>1, <3>2, <4>2 DEF Holds
    <3> QED
      BY <2>1, <3>0, <3>1, <3>2 DEF HeldInv, Unasked, At
  <2> QED
    BY <1>3, <2>2, <2>3, <2>4, <2>5, <2>6, <2>7 DEF Onward, Reading
<1> QED
  BY <1>1, <1>2, <1>3, Holding

LEMMA HeldInit == Init => HeldInv
  BY DEF Init, HeldInv, At, Free

\* The first save of an editor, an agent's write over a person's text and a
\* restore leave what they overwrite recoverable, if it is what they loaded: some
\* version holds it, or one did that its age or newer ones have pushed out since.
THEOREM Recoverable == Spec => OverwritesUndoable
<1>1. AllInv /\ HeldInv /\ [Next]_vars => (AllInv /\ HeldInv)'
  BY AllStep, HeldStep DEF AllInv, VersionInv
<1>2. AllInv /\ HeldInv /\ [Next]_vars =>
        [\A i \in Slots :
           /\ Write(i) /\ Unasked(i) /\ Fresh(i, "memo") => Undoable(i)
           /\ WriteRestored(i) /\ Fresh(i, "memo") /\ Fresh(i, "atts") =>
                \E r \in req[i].seen : /\ r.text = memo.text /\ r.atts = linked
                                       /\ r \in hist \/ GoneBy(r)]_vars
  <2> SUFFICES ASSUME AllInv, HeldInv, NEW i \in Slots
               PROVE  /\ Write(i) /\ Unasked(i) /\ Fresh(i, "memo") => Undoable(i)
                      /\ WriteRestored(i) /\ Fresh(i, "memo") /\ Fresh(i, "atts") =>
                           \E r \in req[i].seen : /\ r.text = memo.text /\ r.atts = linked
                                                  /\ r \in hist \/ GoneBy(r)
    OBVIOUS
  <2>1. ASSUME Write(i), Unasked(i), Fresh(i, "memo") PROVE Undoable(i)
    <3>1. At(i, "write") /\ Copying(i)
      BY <2>1 DEF Write, Copying, Busy, At
    <3>2. req[i].memo.text = memo.text
      BY <2>1, <3>1 DEF AllInv, VersionInv, CopyInv
    <3>3. Holds(i, req[i].row)
      BY <2>1, <3>1 DEF HeldInv
    <3> QED
      BY <3>2, <3>3 DEF Holds, ThereOrGone, Undoable, Matching
  <2>2. ASSUME WriteRestored(i), Fresh(i, "memo"), Fresh(i, "atts")
        PROVE  \E r \in req[i].seen : /\ r.text = memo.text /\ r.atts = linked
                                      /\ r \in hist \/ GoneBy(r)
    <3>1. At(i, "write") /\ Copying(i) /\ req[i].kind = "restore"
      BY <2>2 DEF WriteRestored, Copying, Busy, At
    <3>2. req[i].memo.text = memo.text /\ req[i].atts = linked
      BY <2>2, <3>1 DEF AllInv, VersionInv, CopyInv, AttsInv
    <3>3. PICK r \in req[i].seen : Holds(i, r)
      BY <3>1 DEF HeldInv
    <3> QED
      BY <3>2, <3>3 DEF Holds, ThereOrGone
  <2> QED
    BY <2>1, <2>2
<1> QED
  BY <1>1, <1>2, AllInit, HeldInit, PTL DEF Spec, OverwritesUndoable
=============================================================================
