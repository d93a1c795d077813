-------------------------- MODULE Memogit_proofs --------------------------
(***************************************************************************)
(* Proofs about Memogit, for every set of uids, paths and edits and for    *)
(* every choice of what users do: memos, files and records stay well       *)
(* formed, whatever the three parties do in whatever order.                *)
(***************************************************************************)
EXTENDS Memogit, TLAPS

\* The empty shapes and the ones built from a text.
LEMMA Shapes ==
  /\ {} \in Texts /\ NoMemo \in Memos /\ NoFile \in Files /\ NoBase \in Bases
  /\ \A u \in Uids \cup {NoUid}, t \in Texts : FileOf(u, t) \in Files
  /\ \A p \in Paths \cup {NoPath}, t \in Texts : Baseline(p, t) \in Bases
  /\ \A b \in Bases, t \in Texts : Flag(b, t) \in Bases
<1>1. {} \in Texts
  BY DEF Texts
<1>2. NoMemo \in Memos /\ NoFile \in Files /\ NoBase \in Bases
  BY <1>1 DEF NoMemo, NoFile, NoBase, Memos, Files, Bases
<1>3. \A u \in Uids \cup {NoUid}, t \in Texts : FileOf(u, t) \in Files
  BY SMT DEF FileOf, Files
<1>4. \A p \in Paths \cup {NoPath}, t \in Texts : Baseline(p, t) \in Bases
  BY <1>1, Zenon DEF Baseline, Bases
<1>5. \A b \in Bases, t \in Texts : Flag(b, t) \in Bases
  BY Zenon DEF Flag, Bases
<1> QED
  BY <1>1, <1>2, <1>3, <1>4, <1>5

\* Texts are closed under adding edits, merging and taking edits away.
LEMMA TextAlgebra ==
  /\ \A s, t \in Texts : s \cup t \in Texts
  /\ \A s \in Texts, e \in Edits : s \cup {e} \in Texts
  /\ \A e \in Edits : {e} \in Texts
  /\ \A u \in InitDocs : {u} \in Texts
  BY DEF Texts

\* The parts of a well-formed memo, file and record.
LEMMA Parts ==
  /\ \A m \in Memos : m.path \in Paths \cup {NoPath} /\ m.body \in Texts
  /\ \A f \in Files : f.mark \in Uids \cup {NoUid} /\ f.body \in Texts
  /\ \A b \in Bases : b.path \in Paths \cup {NoPath} /\ b.hash \in Texts
  BY DEF Memos, Files, Bases

\* A part of the state nobody touches stays well formed.
LEMMA Kept ==
  /\ ServerOK /\ UNCHANGED serverVars => ServerOK'
  /\ TreeOK /\ UNCHANGED treeVars => TreeOK'
  /\ RunOK /\ UNCHANGED runVars /\ StateOK /\ UNCHANGED base => RunOK' /\ StateOK'
  /\ NotesOK /\ UNCHANGED <<ghostVars, aborts>> => NotesOK'
  BY DEF ServerOK, TreeOK, StateOK, RunOK, NotesOK, serverVars, treeVars, runVars, ghostVars

\* A run that ends leaves a well-formed idle state.
LEMMA EndRunType ==
  ASSUME base' \in [Uids -> Bases], EndRun
  PROVE  RunOK' /\ StateOK'
<1>1. StateOK'
  BY DEF EndRun, StateOK
<1>2. docs' \in [Paths -> Files] /\ claim' \in [Paths -> Uids \cup {NoUid}]
  BY Shapes, SMT DEF EndRun
<1>3. live' \in [Uids -> Memos]
  BY Shapes, SMT DEF EndRun
<1>4. /\ cmd' = "idle" /\ pc' = "idle" /\ todoP' \subseteq Paths /\ todoU' \subseteq Uids
      /\ cur' \in Paths \cup {NoPath}
  BY DEF EndRun
<1> QED
  BY <1>1, <1>2, <1>3, <1>4 DEF RunOK

\* A listing holds memos of the server.
LEMMA ListingType ==
  ASSUME ServerOK, NEW us \in SUBSET Uids
  PROVE  Listing(us) \in [Uids -> Memos]
  BY Shapes, SMT DEF ServerOK, Listing

\* A fresh clone is well formed.
LEMMA InitType == Init => TypeOK
<1> SUFFICES ASSUME Init PROVE TypeOK
  OBVIOUS
<1>1. PICK at \in [InitDocs -> Paths] :
        /\ memo = [u \in Uids |-> IF u \in InitDocs
             THEN [st |-> "live", path |-> at[u], body |-> {u}] ELSE NoMemo]
        /\ file = [p \in Paths |-> IF \E u \in InitDocs : at[u] = p
             THEN LET u == CHOOSE u \in InitDocs : at[u] = p IN FileOf(u, {u})
             ELSE NoFile]
        /\ base = [u \in Uids |-> IF u \in InitDocs THEN Baseline(at[u], {u}) ELSE NoBase]
  BY DEF Init
<1>2. memo \in [Uids -> Memos]
  <2>1. \A u \in InitDocs : [st |-> "live", path |-> at[u], body |-> {u}] \in Memos
    BY TextAlgebra DEF Memos
  <2> QED
    BY <1>1, <2>1, Shapes
<1>3. file \in [Paths -> Files]
  <2>1. ASSUME NEW p \in Paths, \E u \in InitDocs : at[u] = p
        PROVE  LET u == CHOOSE u \in InitDocs : at[u] = p IN FileOf(u, {u}) \in Files
    <3>1. (CHOOSE u \in InitDocs : at[u] = p) \in InitDocs
      BY <2>1
    <3> QED
      BY <3>1, TextAlgebra, Shapes, DocsAssumption
  <2> QED
    BY <1>1, <2>1, Shapes
<1>4. base \in [Uids -> Bases]
  <2>1. \A u \in InitDocs : Baseline(at[u], {u}) \in Bases
    BY TextAlgebra, Shapes
  <2> QED
    BY <1>1, <2>1, Shapes
<1>5. side \in [Paths -> Files] /\ docs \in [Paths -> Files] /\ live \in [Uids -> Memos]
  BY Shapes DEF Init
<1>6. claim \in [Paths -> Uids \cup {NoUid}] /\ onServer \in Texts
  BY Shapes DEF Init, Texts
<1>7. mem = base /\ cmd = "idle" /\ pc = "idle" /\ cur = NoPath /\ aborts = 0
  BY DEF Init
<1>8. /\ recent = {} /\ todoP = {} /\ todoU = {}
      /\ used = {} /\ unpushed = {} /\ removed = {}
  BY DEF Init
<1> QED
  BY <1>2, <1>3, <1>4, <1>5, <1>6, <1>7, <1>8, SMT
  DEF TypeOK, ServerOK, TreeOK, StateOK, RunOK, NotesOK

-----------------------------------------------------------------------------
\* Web users keep the state well formed.
LEMMA WebType == TypeOK /\ Web => TypeOK'
<1> SUFFICES ASSUME TypeOK, Web PROVE TypeOK'
  OBVIOUS
<1> USE DEF TypeOK
<1>1. ASSUME NEW u \in Uids, WebEdit(u) PROVE TypeOK'
  <2>1. PICK e \in Edits : /\ memo' = [memo EXCEPT ![u].body = @ \cup {e}]
                           /\ used' = used \cup {e} /\ onServer' = onServer \cup {e}
    BY <1>1 DEF WebEdit
  <2>2. memo[u] \in Memos /\ memo[u].body \cup {e} \in Texts
    BY Parts, TextAlgebra DEF ServerOK
  <2>3. [memo[u] EXCEPT !.body = @ \cup {e}] \in Memos
    BY <2>2, Zenon DEF Memos
  <2>4. memo' \in [Uids -> Memos]
    BY <2>1, <2>3 DEF ServerOK
  <2>5. ServerOK'
    BY <1>1, <2>1, <2>4, TextAlgebra DEF ServerOK, WebEdit
  <2>6. NotesOK'
    BY <1>1, <2>1 DEF NotesOK, WebEdit
  <2> QED
    BY <1>1, <2>5, <2>6, Kept DEF WebEdit
<1>2. ASSUME NEW u \in Uids, NEW p \in Paths, WebCreate(u, p) PROVE TypeOK'
  <2>1. PICK e \in Edits :
          /\ memo' = [memo EXCEPT ![u] = [st |-> "live", path |-> p, body |-> {e}]]
          /\ used' = used \cup {e} /\ onServer' = onServer \cup {e}
    BY <1>2 DEF WebCreate
  <2>2. [st |-> "live", path |-> p, body |-> {e}] \in Memos
    BY TextAlgebra DEF Memos
  <2>3. ServerOK'
    BY <1>2, <2>1, <2>2, TextAlgebra DEF ServerOK, WebCreate
  <2>4. NotesOK'
    BY <1>2, <2>1 DEF NotesOK, WebCreate
  <2> QED
    BY <1>2, <2>3, <2>4, Kept DEF WebCreate
<1>3. ASSUME NEW u \in Uids, NEW p \in Paths, WebRename(u, p) PROVE TypeOK'
  <2>1. [memo[u] EXCEPT !.path = p] \in Memos
    BY Zenon DEF Memos, ServerOK
  <2>2. ServerOK'
    BY <1>3, <2>1 DEF ServerOK, WebRename
  <2> QED
    BY <1>3, <2>2, Kept DEF WebRename
<1>4. ASSUME NEW u \in Uids, WebArchive(u) PROVE TypeOK'
  <2>1. [memo[u] EXCEPT !.st = "archived"] \in Memos
    BY Zenon DEF Memos, ServerOK
  <2>2. ServerOK'
    BY <1>4, <2>1 DEF ServerOK, WebArchive
  <2> QED
    BY <1>4, <2>2, Kept DEF WebArchive
<1>5. ASSUME NEW u \in Uids, WebRestore(u) PROVE TypeOK'
  <2>1. [memo[u] EXCEPT !.st = "live"] \in Memos
    BY Zenon DEF Memos, ServerOK
  <2>2. ServerOK'
    BY <1>5, <2>1 DEF ServerOK, WebRestore
  <2> QED
    BY <1>5, <2>2, Kept DEF WebRestore
<1> QED
  BY <1>1, <1>2, <1>3, <1>4, <1>5 DEF Web

\* So does the person at the checkout, who touches the work tree only.
LEMMA UserType == TypeOK /\ User => TypeOK'
<1> SUFFICES ASSUME TypeOK, User PROVE TypeOK'
  OBVIOUS
<1> USE DEF TypeOK
<1>0. ASSUME UserNote, TreeOK', used' \subseteq Edits, unpushed' \subseteq Edits PROVE TypeOK'
  <2>1. NotesOK'
    BY <1>0 DEF NotesOK, UserNote
  <2> QED
    BY <1>0, <2>1, Kept DEF UserNote
<1>1. ASSUME NEW p \in Paths, UserEdit(p) PROVE TypeOK'
  <2>1. PICK e \in Edits : /\ file' = [file EXCEPT ![p].body = @ \cup {e}]
                           /\ used' = used \cup {e} /\ unpushed' = unpushed \cup {e}
    BY <1>1 DEF UserEdit
  <2>2. file[p].body \cup {e} \in Texts
    BY Parts, TextAlgebra DEF TreeOK
  <2>3. [file[p] EXCEPT !.body = @ \cup {e}] \in Files
    BY <2>2, Zenon DEF Files, TreeOK
  <2>4. TreeOK'
    BY <1>1, <2>1, <2>3 DEF TreeOK, UserEdit
  <2> QED
    BY <1>0, <1>1, <2>1, <2>4 DEF UserEdit, NotesOK
<1>2. ASSUME NEW p \in Paths, UserCreate(p) PROVE TypeOK'
  <2>1. PICK e \in Edits : /\ file' = [file EXCEPT ![p] = FileOf(NoUid, {e})]
                           /\ used' = used \cup {e} /\ unpushed' = unpushed \cup {e}
    BY <1>2 DEF UserCreate
  <2>2. TreeOK'
    BY <1>2, <2>1, Shapes, TextAlgebra DEF TreeOK, UserCreate
  <2> QED
    BY <1>0, <1>2, <2>1, <2>2 DEF UserCreate, NotesOK
<1>3. ASSUME NEW p \in Paths, UserDelete(p) PROVE TypeOK'
  <2>1. TreeOK'
    BY <1>3, Shapes DEF TreeOK, UserDelete
  <2> QED
    BY <1>0, <1>3, <2>1 DEF UserDelete, NotesOK
<1>4. ASSUME NEW p \in Paths, NEW q \in Paths, UserMove(p, q) PROVE TypeOK'
  <2>1. file' = [file EXCEPT ![q] = file[p], ![p] = NoFile]
    BY <1>4 DEF UserMove
  <2>2. TreeOK'
    BY <1>4, <2>1, Shapes DEF TreeOK, UserMove
  <2> QED
    BY <1>0, <1>4, <2>2 DEF UserMove, NotesOK
<1>5. ASSUME NEW p \in Paths, NEW q \in Paths, UserCopy(p, q) PROVE TypeOK'
  <2>1. TreeOK'
    BY <1>5 DEF TreeOK, UserCopy
  <2> QED
    BY <1>0, <1>5, <2>1 DEF UserCopy, NotesOK
<1>6. ASSUME NEW u \in Uids, UserRevert(u) PROVE TypeOK'
  <2>1. \A f \in Files : [f EXCEPT !.body = base[u].hash] \in Files
    <3>1. base[u].hash \in Texts
      BY Parts DEF StateOK
    <3> QED
      BY <3>1, Zenon DEF Files
  <2>2. file' = [file EXCEPT ![base[u].path].body = base[u].hash] /\ UNCHANGED side
    BY <1>6 DEF UserRevert
  <2>3. TreeOK'
    BY <2>1, <2>2 DEF TreeOK
  <2> QED
    BY <1>0, <1>6, <2>3 DEF UserRevert, NotesOK
<1>7. ASSUME NEW p \in Paths, UserMerge(p) PROVE TypeOK'
  <2>1. file[p].body \cup side[p].body \in Texts
    BY Parts, TextAlgebra DEF TreeOK
  <2>2. [file[p] EXCEPT !.body = @ \cup side[p].body] \in Files
    BY <2>1, Zenon DEF Files, TreeOK
  <2>3. TreeOK'
    BY <1>7, <2>2, Shapes DEF TreeOK, UserMerge
  <2> QED
    BY <1>0, <1>7, <2>3 DEF UserMerge, NotesOK
<1>8. ASSUME NEW p \in Paths, UserTake(p) PROVE TypeOK'
  <2>1. TreeOK'
    BY <1>8, Shapes DEF TreeOK, UserTake
  <2> QED
    BY <1>0, <1>8, <2>1 DEF UserTake, NotesOK
<1> QED
  BY <1>1, <1>2, <1>3, <1>4, <1>5, <1>6, <1>7, <1>8 DEF User

-----------------------------------------------------------------------------
\* So does every step of a push.
LEMMA PushType == TypeOK /\ Push => TypeOK'
<1> SUFFICES ASSUME TypeOK, Push PROVE TypeOK'
  OBVIOUS
<1> USE DEF TypeOK
<1>a. ASSUME NEW p \in Paths, NextDoc(p), KeepRun, live' = live,
             claim' \in [Paths -> Uids \cup {NoUid}]
      PROVE  RunOK'
  BY <1>a, Shapes DEF NextDoc, KeepRun, RunOK
<1>b. ASSUME NEW p \in Paths, NEW u \in Uids, base' = base,
             mem' = [mem EXCEPT ![u] = Baseline(p, memo[u].body)]
      PROVE  StateOK'
  <2>1. Baseline(p, memo[u].body) \in Bases
    BY Shapes, Parts DEF ServerOK
  <2> QED
    BY <1>b, <2>1 DEF StateOK
<1>1. CASE PushStart
  <2>1. claim' \in [Paths -> Uids \cup {NoUid}]
    BY <1>1 DEF PushStart
  <2>2. live' \in [Uids -> Memos]
    BY <1>1, ListingType DEF PushStart
  <2>3. RunOK'
    BY <1>1, <2>1, <2>2 DEF PushStart, RunOK, TreeOK
  <2>4. StateOK'
    BY <1>1 DEF PushStart, StateOK
  <2> QED
    BY <1>1, <2>3, <2>4, Kept DEF PushStart
<1>2. ASSUME NEW p \in Paths, NEW u \in Uids, PushCreate(p, u) PROVE TypeOK'
  <2>1. docs[p].body \in Texts
    BY Parts DEF RunOK
  <2>2. [st |-> "live", path |-> p, body |-> docs[p].body] \in Memos
    BY <2>1 DEF Memos
  <2>3. ServerOK'
    BY <1>2, <2>1, <2>2, TextAlgebra DEF PushCreate, ServerOK
  <2>4. StateOK'
    BY <1>2 DEF PushCreate, StateOK
  <2>5. RunOK'
    BY <1>2 DEF PushCreate, KeepRun, RunOK
  <2>6. NotesOK'
    BY <1>2 DEF PushCreate, NotesOK
  <2> QED
    BY <1>2, <2>3, <2>4, <2>5, <2>6, Kept DEF PushCreate
<1>c. ASSUME NEW p \in Paths, NEW u \in Uids, PushStamp(p, u) PROVE TypeOK'
  <2>1. FileOf(u, docs[p].body) \in Files /\ Baseline(p, docs[p].body) \in Bases
    BY Shapes, Parts DEF RunOK
  <2>2. TreeOK'
    BY <1>c, <2>1 DEF PushStamp, TreeOK
  <2>3. StateOK'
    BY <1>c, <2>1 DEF PushStamp, StateOK
  <2>4. RunOK'
    BY <1>c, <1>a DEF PushStamp, RunOK
  <2> QED
    BY <1>c, <2>2, <2>3, <2>4, Kept DEF PushStamp
<1>3. ASSUME NEW p \in Paths, NEW u \in Uids,
             PushOrphan(p, u) \/ PushNothing(p, u)
      PROVE TypeOK'
  <2>1. RunOK'
    BY <1>3, <1>a DEF PushOrphan, PushNothing, RunOK
  <2>2. StateOK'
    BY <1>3 DEF PushOrphan, PushNothing, StateOK
  <2> QED
    BY <1>3, <2>1, <2>2, Kept DEF PushOrphan, PushNothing
<1>4. ASSUME NEW p \in Paths, NEW u \in Uids, PushMove(p, u) PROVE TypeOK'
  <2>1. [memo[u] EXCEPT !.path = p] \in Memos
    BY Zenon DEF Memos, ServerOK
  <2>2. ServerOK'
    BY <1>4, <2>1 DEF PushMove, ServerOK
  <2>3. StateOK'
    BY <1>4, <1>b DEF PushMove
  <2>4. RunOK'
    BY <1>4 DEF PushMove, KeepRun, RunOK
  <2> QED
    BY <1>4, <2>2, <2>3, <2>4, Kept DEF PushMove
<1>5. ASSUME NEW p \in Paths, NEW u \in Uids \cup {NoUid}, PushRefused(p, u) PROVE TypeOK'
  <2>1. RunOK' /\ StateOK'
    BY <1>5, EndRunType DEF PushRefused, StateOK
  <2> QED
    BY <1>5, <2>1, Kept DEF PushRefused
<1>6. ASSUME NEW p \in Paths, NEW u \in Uids, PushConflict(p, u) PROVE TypeOK'
  <2>1. FileOf(u, memo[u].body) \in Files /\ Flag(mem[u], memo[u].body) \in Bases
    BY Shapes, Parts DEF ServerOK, StateOK
  <2>2. TreeOK'
    BY <1>6, <2>1 DEF PushConflict, TreeOK
  <2>3. StateOK'
    BY <1>6, <2>1 DEF PushConflict, StateOK
  <2>4. RunOK'
    BY <1>6, <1>a DEF PushConflict, RunOK
  <2> QED
    BY <1>6, <2>2, <2>3, <2>4, Kept DEF PushConflict
<1>7. ASSUME NEW p \in Paths, NEW u \in Uids, PushGet(p, u) PROVE TypeOK'
  <2>1. memo[u].body \in Texts
    BY Parts DEF ServerOK
  <2>2. RunOK'
    BY <1>7, <2>1 DEF PushGet, KeepRun, RunOK
  <2>3. StateOK'
    BY <1>7 DEF PushGet, StateOK
  <2> QED
    BY <1>7, <2>2, <2>3, Kept DEF PushGet
<1>8. ASSUME NEW p \in Paths, NEW u \in Uids, PushUpdate(p, u) PROVE TypeOK'
  <2>1. docs[p].body \in Texts
    BY Parts DEF RunOK
  <2>2. [memo[u] EXCEPT !.body = docs[p].body] \in Memos
    BY <2>1, Zenon DEF Memos, ServerOK
  <2>3. ServerOK'
    BY <1>8, <2>1, <2>2, TextAlgebra DEF PushUpdate, ServerOK
  <2>4. RunOK'
    BY <1>8 DEF PushUpdate, KeepRun, RunOK
  <2>5. StateOK'
    BY <1>8 DEF PushUpdate, StateOK
  <2>6. NotesOK'
    BY <1>8 DEF PushUpdate, NotesOK
  <2> QED
    BY <1>8, <2>3, <2>4, <2>5, <2>6, Kept DEF PushUpdate
<1>9. ASSUME NEW p \in Paths, NEW u \in Uids, PushReply(p, u) PROVE TypeOK'
  <2>1. StateOK'
    BY <1>9, <1>b DEF PushReply
  <2>2. RunOK'
    BY <1>9, <1>a DEF PushReply, RunOK
  <2> QED
    BY <1>9, <2>1, <2>2, Kept DEF PushReply
<1>10. CASE PushDocsDone
  <2>1. RunOK'
    BY <1>10 DEF PushDocsDone, Unclaimed, Tracked, RunOK
  <2>2. StateOK'
    BY <1>10 DEF PushDocsDone, StateOK
  <2> QED
    BY <1>10, <2>1, <2>2, Kept DEF PushDocsDone
<1>11. ASSUME NEW u \in Uids, PushArchive(u) PROVE TypeOK'
  <2>1. [memo[u] EXCEPT !.st = "archived"] \in Memos
    BY Zenon DEF Memos, ServerOK
  <2>2. ServerOK'
    BY <1>11, <2>1 DEF PushArchive, ServerOK
  <2>3. StateOK'
    BY <1>11, Shapes DEF PushArchive, StateOK
  <2>4. RunOK'
    BY <1>11 DEF PushArchive, RunOK
  <2> QED
    BY <1>11, <2>2, <2>3, <2>4, Kept DEF PushArchive
<1>12. CASE PushEnd
  <2>1. RunOK' /\ StateOK'
    BY <1>12, EndRunType DEF PushEnd, StateOK
  <2> QED
    BY <1>12, <2>1, Kept DEF PushEnd
<1> QED
  BY <1>1, <1>2, <1>3, <1>4, <1>5, <1>6, <1>7, <1>8, <1>9, <1>10, <1>11, <1>12, <1>c DEF Push

\* So does every step of a pull.
LEMMA PullType == TypeOK /\ Pull => TypeOK'
<1> SUFFICES ASSUME TypeOK, Pull PROVE TypeOK'
  OBVIOUS
<1> USE DEF TypeOK
<1>a. ASSUME NEW pass \in {"incremental", "reconcile", "adopt"}, NEW u \in Uids,
             PullRun(pass, u), TreeOK', mem' \in [Uids -> Bases]
      PROVE  TypeOK'
  <2>1. ServerOK' /\ StateOK'
    BY <1>a DEF PullRun, ServerOK, StateOK, serverVars
  <2>2. RunOK'
    BY <1>a DEF PullRun, RunOK
  <2>3. NotesOK'
    BY <1>a DEF PullRun, NotesOK
  <2> QED
    BY <1>a, <2>1, <2>2, <2>3
<1>b. ASSUME KeepAll PROVE TreeOK' /\ mem' \in [Uids -> Bases]
  BY <1>b, Kept DEF KeepAll, StateOK
<1>c. ASSUME NEW u \in Uids, NEW old, Write(u, old)
      PROVE  file' \in [Paths -> Files] /\ mem' \in [Uids -> Bases]
  <2>1. FileOf(u, live[u].body) \in Files /\ Baseline(live[u].path, live[u].body) \in Bases
    BY Shapes, Parts DEF RunOK
  <2> QED
    BY <1>c, <2>1, Shapes DEF Write, TreeOK, StateOK
<1>d. ASSUME NEW u \in Uids, Export(u) PROVE TreeOK' /\ mem' \in [Uids -> Bases]
  BY <1>c, <1>d DEF Export, TreeOK
<1>e. ASSUME NEW u \in Uids, Relocate(u) PROVE TreeOK' /\ mem' \in [Uids -> Bases]
  BY <1>c, <1>e, Shapes DEF Relocate, TreeOK
<1>f. ASSUME NEW u \in Uids, FlagConflict(u) PROVE TreeOK' /\ mem' \in [Uids -> Bases]
  <2>1. FileOf(u, live[u].body) \in Files /\ Flag(mem[u], live[u].body) \in Bases
    BY Shapes, Parts DEF RunOK, StateOK
  <2> QED
    BY <1>f, <2>1 DEF FlagConflict, TreeOK, StateOK
<1>1. CASE PullStart
  <2>1. live' \in [Uids -> Memos] /\ todoU' \subseteq Uids
    BY <1>1, ListingType DEF PullStart, ServerOK
  <2>2. RunOK'
    BY <1>1, <2>1 DEF PullStart, RunOK
  <2>3. StateOK'
    BY <1>1 DEF PullStart, StateOK
  <2> QED
    BY <1>1, <2>2, <2>3, Kept DEF PullStart
<1>2. ASSUME NEW u \in Uids, PullIncremental(u) PROVE TypeOK'
  BY <1>2, <1>a, <1>b, <1>d, <1>e, <1>f DEF PullIncremental
<1>3. CASE PullListing
  <2>1. live' \in [Uids -> Memos] /\ todoU' \subseteq Uids
    BY <1>3, ListingType DEF PullListing, Tracked
  <2>2. RunOK'
    BY <1>3, <2>1 DEF PullListing, RunOK
  <2>3. StateOK'
    BY <1>3 DEF PullListing, StateOK
  <2> QED
    BY <1>3, <2>2, <2>3, Kept DEF PullListing
<1>4. ASSUME NEW u \in Uids, PullReconcile(u) PROVE TypeOK'
  <2>1. ASSUME file' = [file EXCEPT ![mem[u].path] = NoFile],
               mem' = [mem EXCEPT ![u] = NoBase], UNCHANGED side
        PROVE  TreeOK' /\ mem' \in [Uids -> Bases]
    BY <2>1, Shapes DEF TreeOK, StateOK
  <2> QED
    BY <1>4, <1>a, <1>b, <1>e, <1>f, <2>1 DEF PullReconcile
<1>5. CASE PullReconciled
  <2>1. RunOK'
    BY <1>5 DEF PullReconciled, Listed, RunOK
  <2>2. StateOK'
    BY <1>5 DEF PullReconciled, StateOK
  <2> QED
    BY <1>5, <2>1, <2>2, Kept DEF PullReconciled
<1>6. ASSUME NEW u \in Uids, PullAdopt(u) PROVE TypeOK'
  BY <1>6, <1>a, <1>d DEF PullAdopt
<1>7. CASE PullEnd
  <2>1. PICK stamp \in [Paths -> Uids \cup {NoUid}] :
          file' = [p \in Paths |-> [file[p] EXCEPT !.mark = stamp[p]]]
    BY <1>7 DEF PullEnd
  <2>2. \A f \in Files, u \in Uids \cup {NoUid} : [f EXCEPT !.mark = u] \in Files
    BY Zenon DEF Files
  <2>3. TreeOK'
    BY <1>7, <2>1, <2>2 DEF PullEnd, TreeOK
  <2>4. RunOK' /\ StateOK'
    BY <1>7, EndRunType DEF PullEnd, StateOK
  <2>5. ServerOK'
    BY <1>7 DEF PullEnd, ServerOK
  <2> QED
    BY <1>7, <2>3, <2>4, <2>5, Kept DEF PullEnd
<1> QED
  BY <1>1, <1>2, <1>3, <1>4, <1>5, <1>6, <1>7 DEF Pull

\* And so does a run that is cut off.
LEMMA AbortType == TypeOK /\ Abort => TypeOK'
<1> SUFFICES ASSUME TypeOK, Abort PROVE TypeOK'
  OBVIOUS
<1>1. RunOK' /\ StateOK'
  BY EndRunType DEF Abort, TypeOK, StateOK
<1>2. NotesOK'
  BY SMT DEF Abort, TypeOK, NotesOK, ghostVars
<1> QED
  BY <1>1, <1>2, Kept DEF Abort, TypeOK

\* Memos, files and records are well formed in every reachable state.
THEOREM TypeCorrect == Spec => []TypeOK
<1>1. TypeOK /\ [Next]_vars => TypeOK'
  <2>1. TypeOK /\ UNCHANGED vars => TypeOK'
    BY Kept DEF TypeOK, vars, StateOK, runVars
  <2> QED
    BY <2>1, WebType, UserType, PushType, PullType, AbortType DEF Next
<1> QED
  BY InitType, <1>1, PTL DEF Spec
=============================================================================
