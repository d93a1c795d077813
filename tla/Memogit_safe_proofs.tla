------------------------ MODULE Memogit_safe_proofs ------------------------
(***************************************************************************)
(* Proofs about Memogit, for every set of documents, paths and edits.      *)
(* First, where the two sides keep apart (Apart): whatever is edited,      *)
(* created, moved, copied and deleted on either side, no local edit is     *)
(* lost, push archives only what was taken out of the work tree, and a     *)
(* completed pull reconciles, all from one invariant, SafeInv.  Then,      *)
(* where besides no file changes its place under its marker and the web    *)
(* leaves an update alone (Unmoved), no edit is lost on the server, from   *)
(* KnownInv on top of it.                                                 *)
(***************************************************************************)
EXTENDS Memogit_proofs, FiniteSetTheorems

Pushing == {"doc", "stamp", "content", "update", "reply"}
Pulling == {"incremental", "reconcile", "adopt"}

\* Where the two sides keep apart: nobody takes a path the other side uses, no
\* run is cut off, and web users do not act inside a pull.
Apart == Collide = {} /\ MaxAborts = 0 /\ WebWhen \cap Pulling = {}

PhaseInv ==
  /\ cmd = "idle" => pc = "idle" /\ base = mem
  /\ cmd = "push" => pc \in Pushing \cup {"archive"}
  /\ cmd = "pull" => pc \in Pulling

At(u, p)       == mem[u].tracked /\ mem[u].path = p
Stamping(u, p) == pc = "stamp" /\ cur = p /\ claim[p] = u

\* A document on record is one the server knows, in a text it has had.
RecordInv == \A u \in Uids :
  /\ memo[u].st = "none" <=> memo[u].path = NoPath
  /\ mem[u].conflict => mem[u].tracked
  /\ mem[u].tracked => /\ mem[u].path \in Paths /\ memo[u].st # "none"
                       /\ mem[u].hash \subseteq onServer

\* A path is one document's, on the server and on record.
Has(u, p) == At(u, p) \/ memo[u].path = p
PathInv == \A u, v \in Uids, p \in Paths : Has(u, p) /\ Has(v, p) => u = v

\* A file at a path some document has on the server is that document's file on
\* record, and one at a path some document has on record carries its marker.
FileInv == \A p \in Paths :
  IF file[p].present
  THEN \A u \in Uids : /\ memo[u].path = p => At(u, p) \/ Stamping(u, p)
                       /\ At(u, p) => file[p].mark = u
  ELSE file[p].body = {}

\* The sidecar of a conflict on record is that document's.
SideInv == \A u \in Uids :
  mem[u].conflict /\ side[mem[u].path].present => side[mem[u].path].mark = u

\* A document on record has a file with its marker somewhere, or was taken out.
StoodBy(u, p) == file[p].present /\ file[p].mark = u
StoodInv == \A u \in Uids : mem[u].tracked => u \in removed \/ \E p \in Paths : StoodBy(u, p)

\* Push has one file claim each document that has one, by its marker; the one
\* where it is recorded, if there is one.
ClaimInv ==
  /\ \A p \in Paths, u \in Uids : claim[p] = u =>
       file[p].present /\ (Stamping(u, p) \/ (StoodBy(u, p) /\ mem[u].tracked))
  /\ \A p, q \in Paths, u \in Uids : claim[p] = u /\ claim[q] = u => p = q
  /\ \A p \in Paths, u \in Uids : At(u, p) /\ file[p].present => claim[p] = u
  /\ \A p \in Paths, u \in Uids : StoodBy(u, p) /\ mem[u].tracked => \E q \in Paths : claim[q] = u
  /\ \A p \in todoP : file[p].present

\* Push works on the tree as it is, on the document its current file claims.
PushInv ==
  /\ cmd = "push" => ClaimInv /\ \A p \in Paths : docs[p].body = file[p].body
  /\ pc \in {"stamp", "content", "update", "reply"} => cur \in Paths /\ claim[cur] \in Uids
  /\ pc \in {"content", "update", "reply"} => At(claim[cur], cur)
  /\ pc = "stamp" => /\ ~mem[claim[cur]].tracked /\ memo[claim[cur]].st # "none"
                     /\ docs[cur].body \subseteq onServer
  /\ pc = "archive" => \A u \in todoU : mem[u].tracked /\ \A p \in Paths : claim[p] # u

\* Pull works on the server as it is, and what it has been through is reconciled.
Brought(u) ==
  LET b == mem[u]   f == file[b.path]   s == side[b.path] IN
  IF ~Live(memo, u) THEN f.present /\ f.body # b.hash
  ELSE f.present => \/ f.body = b.hash /\ b.hash = memo[u].body /\ b.path = memo[u].path
                    \/ f.body # b.hash /\ b.hash = memo[u].body
                    \/ /\ f.body # b.hash /\ b.conflict /\ b.chash = memo[u].body
                       /\ s.present /\ s.body = memo[u].body
PullInv ==
  /\ pc \in Pulling => \A u \in Uids : Live(live, u) => live[u] = memo[u]
  /\ pc \in {"incremental", "adopt"} => todoU \subseteq Listed
  /\ pc = "reconcile" => todoU \subseteq Tracked(mem)
  /\ pc \in {"reconcile", "adopt"} =>
       /\ \A u \in Uids : Live(memo, u) => Live(live, u)
       /\ \A u \in Tracked(mem) : (pc = "reconcile" => u \notin todoU) => Brought(u)
  /\ pc = "adopt" => todoU = Listed \ Tracked(mem)

\* An edit is new, and unpushed until the server has it.
EditInv ==
  /\ \A u \in Uids : memo[u].body \subseteq onServer
  /\ \A p \in Paths : side[p].body \subseteq onServer /\ file[p].body \cap Edits \subseteq used
  /\ onServer \cap Edits \subseteq used /\ unpushed \subseteq used /\ unpushed \cap onServer = {}

SafeInv == /\ PhaseInv /\ RecordInv /\ PathInv /\ FileInv /\ SideInv /\ StoodInv
           /\ PushInv /\ PullInv /\ EditInv /\ NoLocalEditLost

-----------------------------------------------------------------------------
\* Where a step of a web user may come.
LEMMA WebQuiet ==
  ASSUME Apart, TypeOK, PhaseInv, NEW op, WebMay(op)
  PROVE  /\ pc \notin Pulling /\ cmd # "pull"
         /\ \A p : WebPath(op, p) => /\ ~file[p].present
                                     /\ \A u \in Uids : mem[u].path # p
  BY DEF Apart, WebMay, WebPath, PhaseInv, TypeOK, RunOK, Pushing, Pulling

\* What web users leave alone, and what has to be shown of a step of theirs:
\* the documents that were on the server are, and their texts grow.
LEMMA WebRest ==
  ASSUME TypeOK, SafeInv, pc \notin Pulling,
         UNCHANGED <<file, side, base, cmd, pc, mem, docs, claim, live, todoP, todoU, cur,
                     unpushed, removed>>,
         \A v \in Uids : /\ memo[v].st # "none" => memo'[v].st # "none"
                         /\ memo'[v].st = "none" <=> memo'[v].path = NoPath,
         onServer \subseteq onServer'
  PROVE  /\ PhaseInv' /\ RecordInv' /\ SideInv' /\ StoodInv' /\ PushInv' /\ PullInv'
         /\ NoLocalEditLost'
<1> USE DEF SafeInv, At, Stamping, StoodBy
<1>1. PhaseInv'
  BY DEF PhaseInv
<1>2. RecordInv'
  BY DEF RecordInv
<1>3. SideInv' /\ StoodInv'
  BY DEF SideInv, StoodInv
<1>4. PushInv'
  BY DEF PushInv, ClaimInv
<1>5. PullInv'
  BY DEF PullInv, Pulling
<1>6. NoLocalEditLost'
  BY DEF NoLocalEditLost, InTree
<1> QED
  BY <1>1, <1>2, <1>3, <1>4, <1>5, <1>6

LEMMA WebEditSafe ==
  ASSUME Apart, TypeOK, SafeInv, NEW u \in Uids, WebEdit(u)
  PROVE  SafeInv'
<1>0. /\ UNCHANGED <<file, side, base, cmd, pc, mem, docs, claim, live, todoP, todoU, cur,
                     unpushed, removed>>
      /\ pc \notin Pulling
  BY WebQuiet DEF WebEdit, treeVars, runVars, SafeInv
<1>1. PICK e \in Edits \ used : /\ memo' = [memo EXCEPT ![u].body = @ \cup {e}]
                                /\ used' = used \cup {e} /\ onServer' = onServer \cup {e}
  BY DEF WebEdit
<1>2. /\ memo'[u].body = memo[u].body \cup {e}
      /\ \A v \in Uids : memo'[v].st = memo[v].st /\ memo'[v].path = memo[v].path
      /\ \A v \in Uids \ {u} : memo'[v] = memo[v]
  BY <1>1 DEF TypeOK, ServerOK, Memos
<1>3. /\ PhaseInv' /\ RecordInv' /\ SideInv' /\ StoodInv' /\ PushInv' /\ PullInv'
      /\ NoLocalEditLost'
  <2>1. \A v \in Uids : memo'[v].st = "none" <=> memo'[v].path = NoPath
    BY <1>2 DEF SafeInv, RecordInv
  <2> QED
    BY <1>0, <1>1, <1>2, <2>1, WebRest
<1> USE DEF SafeInv, At, Has, Stamping
<1>4. PathInv'
  BY <1>0, <1>2 DEF PathInv
<1>5. FileInv'
  BY <1>0, <1>2 DEF FileInv
<1>6. EditInv'
  <2>1. \A v \in Uids : memo'[v].body \subseteq onServer'
    BY <1>1, <1>2 DEF EditInv
  <2>2. e \notin unpushed
    BY <1>1 DEF EditInv
  <2> QED
    BY <1>0, <1>1, <2>1, <2>2 DEF EditInv
<1> QED
  BY <1>3, <1>4, <1>5, <1>6

LEMMA WebCreateSafe ==
  ASSUME Apart, TypeOK, SafeInv, NEW u \in Uids, NEW p \in Paths, WebCreate(u, p)
  PROVE  SafeInv'
<1>0. /\ UNCHANGED <<file, side, base, cmd, pc, mem, docs, claim, live, todoP, todoU, cur,
                     unpushed, removed>>
      /\ pc \notin Pulling
      /\ ~file[p].present /\ (\A v \in Uids : mem[v].path # p /\ (v # u => memo[v].path # p))
      /\ memo[u].st = "none"
  BY WebQuiet DEF WebCreate, treeVars, runVars, SafeInv, PathTaken, NextUid
<1>1. PICK e \in Edits \ used :
        /\ memo' = [memo EXCEPT ![u] = [st |-> "live", path |-> p, body |-> {e}]]
        /\ used' = used \cup {e} /\ onServer' = onServer \cup {e}
  BY DEF WebCreate
<1>2. /\ memo'[u] = [st |-> "live", path |-> p, body |-> {e}]
      /\ \A v \in Uids \ {u} : memo'[v] = memo[v]
  BY <1>1 DEF TypeOK, ServerOK
<1>2a. ~mem[u].tracked /\ p # NoPath
  BY <1>0, PathsAssumption DEF SafeInv, RecordInv
<1>3. /\ PhaseInv' /\ RecordInv' /\ SideInv' /\ StoodInv' /\ PushInv' /\ PullInv'
      /\ NoLocalEditLost'
  <2>1. \A v \in Uids : memo'[v].st = "none" <=> memo'[v].path = NoPath
    BY <1>2, <1>2a DEF SafeInv, RecordInv
  <2> QED
    BY <1>0, <1>1, <1>2, <2>1, WebRest
<1> USE DEF SafeInv, At, Has, Stamping
<1>4. PathInv'
  BY <1>0, <1>2, <1>2a DEF PathInv
<1>5. FileInv'
  BY <1>0, <1>2 DEF FileInv
<1>6. EditInv'
  <2>1. \A v \in Uids : memo'[v].body \subseteq onServer'
    BY <1>1, <1>2 DEF EditInv
  <2>2. e \notin unpushed
    BY <1>1 DEF EditInv
  <2> QED
    BY <1>0, <1>1, <2>1, <2>2 DEF EditInv
<1> QED
  BY <1>3, <1>4, <1>5, <1>6

LEMMA WebRenameSafe ==
  ASSUME Apart, TypeOK, SafeInv, NEW u \in Uids, NEW p \in Paths, WebRename(u, p)
  PROVE  SafeInv'
<1>0. /\ UNCHANGED <<file, side, base, cmd, pc, mem, docs, claim, live, todoP, todoU, cur,
                     used, unpushed, removed, onServer>>
      /\ pc \notin Pulling
      /\ ~file[p].present /\ (\A v \in Uids : mem[v].path # p /\ (v # u => memo[v].path # p))
      /\ memo[u].st = "live"
  BY WebQuiet DEF WebRename, treeVars, runVars, ghostVars, SafeInv, PathTaken, Live
<1>1. memo' = [memo EXCEPT ![u].path = p]
  BY DEF WebRename
<1>2. /\ memo'[u].path = p /\ p # NoPath
      /\ \A v \in Uids : memo'[v].st = memo[v].st /\ memo'[v].body = memo[v].body
      /\ \A v \in Uids \ {u} : memo'[v] = memo[v]
  BY <1>1, PathsAssumption DEF TypeOK, ServerOK, Memos
<1>3. /\ PhaseInv' /\ RecordInv' /\ SideInv' /\ StoodInv' /\ PushInv' /\ PullInv'
      /\ NoLocalEditLost'
  <2>1. \A v \in Uids : memo'[v].st = "none" <=> memo'[v].path = NoPath
    BY <1>0, <1>2 DEF SafeInv, RecordInv
  <2> QED
    BY <1>0, <1>2, <2>1, WebRest
<1> USE DEF SafeInv, At, Has, Stamping
<1>4. PathInv'
  BY <1>0, <1>2 DEF PathInv
<1>5. FileInv'
  BY <1>0, <1>2 DEF FileInv
<1>6. EditInv'
  BY <1>0, <1>2 DEF EditInv
<1> QED
  BY <1>3, <1>4, <1>5, <1>6

LEMMA WebArchiveSafe ==
  ASSUME Apart, TypeOK, SafeInv, NEW u \in Uids, WebArchive(u) \/ WebRestore(u)
  PROVE  SafeInv'
<1>0. /\ UNCHANGED <<file, side, base, cmd, pc, mem, docs, claim, live, todoP, todoU, cur,
                     used, unpushed, removed, onServer>>
      /\ pc \notin Pulling
      /\ memo[u].st # "none"
  BY WebQuiet DEF WebArchive, WebRestore, treeVars, runVars, ghostVars, SafeInv, Live
<1>1. \E st \in {"live", "archived"} : memo' = [memo EXCEPT ![u].st = st]
  BY DEF WebArchive, WebRestore
<1>2. /\ memo'[u].st # "none"
      /\ \A v \in Uids : memo'[v].path = memo[v].path /\ memo'[v].body = memo[v].body
      /\ \A v \in Uids \ {u} : memo'[v] = memo[v]
  BY <1>1 DEF TypeOK, ServerOK, Memos
<1>3. /\ PhaseInv' /\ RecordInv' /\ SideInv' /\ StoodInv' /\ PushInv' /\ PullInv'
      /\ NoLocalEditLost'
  <2>1. \A v \in Uids : memo'[v].st = "none" <=> memo'[v].path = NoPath
    BY <1>0, <1>2 DEF SafeInv, RecordInv
  <2> QED
    BY <1>0, <1>2, <2>1, WebRest
<1> USE DEF SafeInv, At, Has, Stamping
<1>4. PathInv'
  BY <1>0, <1>2 DEF PathInv
<1>5. FileInv'
  BY <1>0, <1>2 DEF FileInv
<1>6. EditInv'
  BY <1>0, <1>2 DEF EditInv
<1> QED
  BY <1>3, <1>4, <1>5, <1>6

LEMMA WebSafe == Apart /\ TypeOK /\ SafeInv /\ Web => SafeInv'
  BY WebEditSafe, WebCreateSafe, WebRenameSafe, WebArchiveSafe DEF Web

-----------------------------------------------------------------------------
\* What a step of the person at the checkout leaves alone.
LEMMA UserRest ==
  ASSUME TypeOK, SafeInv, UserNote, cmd = "idle"
  PROVE  /\ UNCHANGED <<memo, onServer, mem, cmd, pc, base, cur, claim>> /\ base = mem /\ pc = "idle"
         /\ PhaseInv' /\ RecordInv' /\ PathInv' /\ PushInv' /\ PullInv'
<1>0. /\ UNCHANGED <<memo, onServer, base, cmd, pc, mem, docs, claim, live, todoP, todoU, cur>>
      /\ base = mem /\ pc = "idle"
  BY DEF UserNote, serverVars, runVars, SafeInv, PhaseInv
<1>1. PhaseInv'
  BY <1>0 DEF PhaseInv
<1>2. RecordInv'
  BY <1>0 DEF SafeInv, RecordInv
<1>3. PathInv'
  BY <1>0 DEF SafeInv, PathInv, Has, At
<1>4. PushInv' /\ PullInv'
  BY <1>0 DEF PushInv, PullInv, Pushing, Pulling
<1> QED
  BY <1>0, <1>1, <1>2, <1>3, <1>4

\* A document on record none of whose files is left has been taken out.
LEMMA UserStood ==
  ASSUME TypeOK, SafeInv, UserNote, cmd = "idle", FileInv'
  PROVE  StoodInv'
<1>0. UNCHANGED <<mem, base>> /\ base = mem
  BY UserRest
<1> SUFFICES ASSUME NEW u \in Uids, mem[u].tracked, u \notin removed'
             PROVE  \E p \in Paths : StoodBy(u, p)'
  BY <1>0 DEF StoodInv
<1>1. PICK q \in Paths : file'[q].present /\ (file'[q].mark = u \/ (mem[u].path = q /\ file'[q].mark = NoUid))
  BY <1>0 DEF UserNote, Stands
<1>2. mem[u].path = q => file'[q].mark = u
  BY <1>0, <1>1 DEF FileInv, At
<1> QED
  BY <1>1, <1>2 DEF StoodBy

LEMMA UserEditSafe ==
  ASSUME TypeOK, SafeInv, NEW p \in Paths, UserEdit(p)
  PROVE  SafeInv'
<1>0. UserNote /\ cmd = "idle" /\ file[p].present /\ side' = side
  BY DEF UserEdit, UserMay
<1>1. /\ UNCHANGED <<memo, onServer, mem, cmd, pc, base, cur, claim>> /\ base = mem /\ pc = "idle"
      /\ PhaseInv' /\ RecordInv' /\ PathInv' /\ PushInv' /\ PullInv'
  BY <1>0, UserRest
<1>2. PICK e \in Edits \ used : /\ file' = [file EXCEPT ![p].body = @ \cup {e}]
                                /\ used' = used \cup {e} /\ unpushed' = unpushed \cup {e}
  BY DEF UserEdit
<1>3. /\ \A q \in Paths : file'[q].present = file[q].present /\ file'[q].mark = file[q].mark
      /\ \A q \in Paths \ {p} : file'[q] = file[q]
      /\ file'[p].body = file[p].body \cup {e}
  BY <1>2 DEF TypeOK, TreeOK, Files
<1> USE DEF SafeInv, At, Stamping
<1>5. FileInv'
  BY <1>0, <1>1, <1>3 DEF FileInv
<1>6. SideInv' /\ StoodInv'
  BY <1>0, <1>1, <1>5, UserStood DEF SideInv
<1>7. EditInv'
  <2>1. e \notin onServer
    BY <1>2 DEF EditInv
  <2> QED
    BY <1>0, <1>1, <1>2, <1>3, <2>1 DEF EditInv
<1>8. NoLocalEditLost'
  <2>1. \A q \in Paths : file[q].body \subseteq file'[q].body
    BY <1>3
  <2>2. InTree \cup {e} \subseteq InTree'
    BY <1>3, <2>1 DEF InTree
  <2> QED
    BY <1>2, <2>2 DEF NoLocalEditLost
<1> QED
  BY <1>1, <1>5, <1>6, <1>7, <1>8

LEMMA UserCreateSafe ==
  ASSUME Apart, TypeOK, SafeInv, NEW p \in Paths, UserCreate(p)
  PROVE  SafeInv'
<1>0. /\ UserNote /\ cmd = "idle" /\ ~file[p].present /\ side' = side
      /\ \A u \in Uids : memo[u].path # p /\ base[u].path # p
  BY DEF UserCreate, UserMay, UserPath, Untracked, Apart
<1>1. /\ UNCHANGED <<memo, onServer, mem, cmd, pc, base, cur, claim>> /\ base = mem /\ pc = "idle"
      /\ PhaseInv' /\ RecordInv' /\ PathInv' /\ PushInv' /\ PullInv'
  BY <1>0, UserRest
<1>2. PICK e \in Edits \ used : /\ file' = [file EXCEPT ![p] = FileOf(NoUid, {e})]
                                /\ used' = used \cup {e} /\ unpushed' = unpushed \cup {e}
  BY DEF UserCreate
<1>3. /\ file'[p].present /\ file'[p].mark = NoUid /\ file'[p].body = {e}
      /\ \A q \in Paths \ {p} : file'[q] = file[q]
  BY <1>2 DEF TypeOK, TreeOK, FileOf
<1> USE DEF SafeInv, At, Stamping
<1>5. FileInv'
  BY <1>0, <1>1, <1>3 DEF FileInv
<1>6. SideInv' /\ StoodInv'
  BY <1>0, <1>1, <1>5, UserStood DEF SideInv
<1>7. EditInv'
  <2>1. e \notin onServer
    BY <1>2 DEF EditInv
  <2> QED
    BY <1>0, <1>1, <1>2, <1>3, <2>1 DEF EditInv
<1>8. NoLocalEditLost'
  <2>1. \A q \in Paths : file[q].body \subseteq file'[q].body
    BY <1>0, <1>3 DEF FileInv
  <2>2. InTree \cup {e} \subseteq InTree'
    BY <1>3, <2>1 DEF InTree
  <2> QED
    BY <1>2, <2>2 DEF NoLocalEditLost
<1> QED
  BY <1>1, <1>5, <1>6, <1>7, <1>8

LEMMA UserDeleteSafe ==
  ASSUME TypeOK, SafeInv, NEW p \in Paths, UserDelete(p)
  PROVE  SafeInv'
<1>0. /\ UserNote /\ cmd = "idle" /\ side' = side /\ used' = used
      /\ unpushed' = unpushed \cap InTree' /\ file' = [file EXCEPT ![p] = NoFile]
  BY DEF UserDelete, UserMay
<1>1. /\ UNCHANGED <<memo, onServer, mem, cmd, pc, base, cur, claim>> /\ base = mem /\ pc = "idle"
      /\ PhaseInv' /\ RecordInv' /\ PathInv' /\ PushInv' /\ PullInv'
  BY <1>0, UserRest
<1>3. /\ ~file'[p].present /\ file'[p].body = {}
      /\ \A q \in Paths \ {p} : file'[q] = file[q]
  BY <1>0 DEF TypeOK, TreeOK, NoFile
<1> USE DEF SafeInv, At, Stamping
<1>5. FileInv'
  BY <1>1, <1>3 DEF FileInv
<1>6. SideInv' /\ StoodInv'
  BY <1>0, <1>1, <1>5, UserStood DEF SideInv
<1>7. EditInv'
  BY <1>0, <1>1, <1>3 DEF EditInv
<1>8. NoLocalEditLost'
  BY <1>0 DEF NoLocalEditLost
<1> QED
  BY <1>1, <1>5, <1>6, <1>7, <1>8

\* The file goes where no document is or was recorded, its marker with it.
LEMMA UserMoveSafe ==
  ASSUME Apart, TypeOK, SafeInv, NEW p \in Paths, NEW q \in Paths, UserMove(p, q)
  PROVE  SafeInv'
<1>0. /\ UserNote /\ cmd = "idle" /\ UNCHANGED <<side, used, unpushed>>
      /\ file[p].present /\ ~file[q].present
      /\ file' = [file EXCEPT ![q] = file[p], ![p] = NoFile]
      /\ \A u \in Uids : memo[u].path # q /\ base[u].path # q
  BY DEF UserMove, UserMay, UserPath, Untracked, Apart
<1>1. /\ UNCHANGED <<memo, onServer, mem, cmd, pc, base, cur, claim>> /\ base = mem /\ pc = "idle"
      /\ PhaseInv' /\ RecordInv' /\ PathInv' /\ PushInv' /\ PullInv'
  BY <1>0, UserRest
<1>3. /\ file'[q] = file[p] /\ ~file'[p].present /\ file'[p].body = {}
      /\ \A r \in Paths \ {p, q} : file'[r] = file[r]
  BY <1>0 DEF TypeOK, TreeOK, NoFile
<1> USE DEF SafeInv, At, Stamping
<1>5. FileInv'
  BY <1>0, <1>1, <1>3 DEF FileInv
<1>6. SideInv' /\ StoodInv'
  BY <1>0, <1>1, <1>5, UserStood DEF SideInv
<1>7. EditInv'
  BY <1>0, <1>1, <1>3 DEF EditInv
<1>8. NoLocalEditLost'
  <2>1. \A r \in Paths : \E t \in Paths : file[r].body \subseteq file'[t].body
    BY <1>0, <1>3 DEF FileInv
  <2>2. InTree \subseteq InTree'
    BY <2>1 DEF InTree
  <2> QED
    BY <1>0, <2>2 DEF NoLocalEditLost
<1> QED
  BY <1>1, <1>5, <1>6, <1>7, <1>8

LEMMA UserCopySafe ==
  ASSUME Apart, TypeOK, SafeInv, NEW p \in Paths, NEW q \in Paths, UserCopy(p, q)
  PROVE  SafeInv'
<1>0. /\ UserNote /\ cmd = "idle" /\ UNCHANGED <<side, used, unpushed>>
      /\ file[p].present /\ ~file[q].present
      /\ file' = [file EXCEPT ![q] = file[p]]
      /\ \A u \in Uids : memo[u].path # q /\ base[u].path # q
  BY DEF UserCopy, UserMay, UserPath, Untracked, Apart
<1>1. /\ UNCHANGED <<memo, onServer, mem, cmd, pc, base, cur, claim>> /\ base = mem /\ pc = "idle"
      /\ PhaseInv' /\ RecordInv' /\ PathInv' /\ PushInv' /\ PullInv'
  BY <1>0, UserRest
<1>3. file'[q] = file[p] /\ \A r \in Paths \ {q} : file'[r] = file[r]
  BY <1>0 DEF TypeOK, TreeOK
<1> USE DEF SafeInv, At, Stamping
<1>5. FileInv'
  BY <1>0, <1>1, <1>3 DEF FileInv
<1>6. SideInv' /\ StoodInv'
  BY <1>0, <1>1, <1>5, UserStood DEF SideInv
<1>7. EditInv'
  BY <1>0, <1>1, <1>3 DEF EditInv
<1>8. NoLocalEditLost'
  <2>1. \A r \in Paths : file[r].body \subseteq file'[r].body
    BY <1>0, <1>3 DEF FileInv
  <2>2. InTree \subseteq InTree'
    BY <2>1 DEF InTree
  <2> QED
    BY <1>0, <2>2 DEF NoLocalEditLost
<1> QED
  BY <1>1, <1>5, <1>6, <1>7, <1>8

LEMMA UserRevertSafe ==
  ASSUME TypeOK, SafeInv, NEW u \in Uids, UserRevert(u)
  PROVE  SafeInv'
<1> DEFINE p == base[u].path
<1>0. /\ UserNote /\ cmd = "idle" /\ side' = side /\ used' = used /\ unpushed' = unpushed \cap InTree'
      /\ base[u].tracked /\ file[p].present
      /\ file' = [file EXCEPT ![p].body = base[u].hash]
  BY DEF UserRevert, UserMay
<1>1. /\ UNCHANGED <<memo, onServer, mem, cmd, pc, base, cur, claim>> /\ base = mem /\ pc = "idle"
      /\ PhaseInv' /\ RecordInv' /\ PathInv' /\ PushInv' /\ PullInv'
  BY <1>0, UserRest
<1> USE DEF SafeInv, At, Stamping
<1>2. p \in Paths /\ base[u].hash \subseteq onServer
  BY <1>0, <1>1 DEF RecordInv
<1>3. /\ \A q \in Paths : file'[q].present = file[q].present /\ file'[q].mark = file[q].mark
      /\ \A q \in Paths \ {p} : file'[q] = file[q]
      /\ file'[p].body = base[u].hash
  BY <1>0, <1>2 DEF TypeOK, TreeOK, Files
<1> HIDE DEF p
<1>5. FileInv'
  BY <1>0, <1>1, <1>2, <1>3 DEF FileInv
<1>6. SideInv' /\ StoodInv'
  BY <1>0, <1>1, <1>5, UserStood DEF SideInv
<1>7. EditInv'
  BY <1>0, <1>1, <1>2, <1>3 DEF EditInv
<1>8. NoLocalEditLost'
  BY <1>0 DEF NoLocalEditLost
<1> QED
  BY <1>1, <1>5, <1>6, <1>7, <1>8

LEMMA UserMergeSafe ==
  ASSUME TypeOK, SafeInv, NEW p \in Paths, UserMerge(p)
  PROVE  SafeInv'
<1>0. /\ UserNote /\ cmd = "idle" /\ UNCHANGED <<used, unpushed>> /\ file[p].present
      /\ file' = [file EXCEPT ![p].body = @ \cup side[p].body]
      /\ side' = [side EXCEPT ![p] = NoFile]
  BY DEF UserMerge, UserMay, Open
<1>1. /\ UNCHANGED <<memo, onServer, mem, cmd, pc, base, cur, claim>> /\ base = mem /\ pc = "idle"
      /\ PhaseInv' /\ RecordInv' /\ PathInv' /\ PushInv' /\ PullInv'
  BY <1>0, UserRest
<1>3. /\ \A q \in Paths : file'[q].present = file[q].present /\ file'[q].mark = file[q].mark
      /\ \A q \in Paths \ {p} : file'[q] = file[q] /\ side'[q] = side[q]
      /\ file'[p].body = file[p].body \cup side[p].body
      /\ ~side'[p].present /\ side'[p].body = {}
  BY <1>0 DEF TypeOK, TreeOK, Files, NoFile
<1> USE DEF SafeInv, At, Stamping
<1>5. FileInv'
  BY <1>0, <1>1, <1>3 DEF FileInv
<1>6. SideInv' /\ StoodInv'
  <2>1. \A u \in Uids : mem[u].conflict => mem[u].path \in Paths
    BY DEF RecordInv
  <2> QED
    BY <1>0, <1>1, <1>3, <1>5, <2>1, UserStood DEF SideInv
<1>7. EditInv'
  BY <1>0, <1>1, <1>3 DEF EditInv
<1>8. NoLocalEditLost'
  <2>1. \A q \in Paths : file[q].body \subseteq file'[q].body
    BY <1>3
  <2>2. InTree \subseteq InTree'
    BY <2>1 DEF InTree
  <2> QED
    BY <1>0, <2>2 DEF NoLocalEditLost
<1> QED
  BY <1>1, <1>5, <1>6, <1>7, <1>8

\* The sidecar is the one of the document recorded there, with its marker.
LEMMA UserTakeSafe ==
  ASSUME TypeOK, SafeInv, NEW p \in Paths, UserTake(p)
  PROVE  SafeInv'
<1>0. /\ UserNote /\ cmd = "idle" /\ used' = used /\ unpushed' = unpushed \cap InTree'
      /\ file[p].present /\ side[p].present
      /\ file' = [file EXCEPT ![p] = side[p]] /\ side' = [side EXCEPT ![p] = NoFile]
  BY DEF UserTake, UserMay, Open
<1>1. /\ UNCHANGED <<memo, onServer, mem, cmd, pc, base, cur, claim>> /\ base = mem /\ pc = "idle"
      /\ PhaseInv' /\ RecordInv' /\ PathInv' /\ PushInv' /\ PullInv'
  BY <1>0, UserRest
<1>2. PICK u \in Uids : mem[u].conflict /\ mem[u].path = p
  BY <1>1 DEF UserTake, Open
<1>3. /\ \A q \in Paths \ {p} : file'[q] = file[q] /\ side'[q] = side[q]
      /\ file'[p] = side[p] /\ ~side'[p].present /\ side'[p].body = {}
  BY <1>0 DEF TypeOK, TreeOK, NoFile
<1> USE DEF SafeInv, At, Stamping
<1>4. side[p].mark = u /\ \A v \in Uids : At(v, p) => v = u
  BY <1>0, <1>2 DEF SideInv, RecordInv, PathInv, Has
<1>5. FileInv'
  BY <1>0, <1>1, <1>3, <1>4 DEF FileInv
<1>6. SideInv' /\ StoodInv'
  <2>1. \A v \in Uids : mem[v].conflict => mem[v].path \in Paths
    BY DEF RecordInv
  <2> QED
    BY <1>0, <1>1, <1>3, <1>5, <2>1, UserStood DEF SideInv
<1>7. EditInv'
  BY <1>0, <1>1, <1>3 DEF EditInv
<1>8. NoLocalEditLost'
  BY <1>0 DEF NoLocalEditLost
<1> QED
  BY <1>1, <1>5, <1>6, <1>7, <1>8

LEMMA UserSafe == Apart /\ TypeOK /\ SafeInv /\ User => SafeInv'
  BY UserEditSafe, UserCreateSafe, UserDeleteSafe, UserMoveSafe, UserCopySafe, UserRevertSafe,
     UserMergeSafe, UserTakeSafe DEF User

-----------------------------------------------------------------------------
\* A fresh clone satisfies the invariant.
LEMMA InitSafe == Init => SafeInv
<1> SUFFICES ASSUME Init PROVE SafeInv
  OBVIOUS
<1>1. PICK at \in [InitDocs -> Paths] :
        /\ \A u, v \in InitDocs : at[u] = at[v] => u = v
        /\ memo = [u \in Uids |-> IF u \in InitDocs
             THEN [st |-> "live", path |-> at[u], body |-> {u}] ELSE NoMemo]
        /\ file = [p \in Paths |-> IF \E u \in InitDocs : at[u] = p
             THEN LET u == CHOOSE u \in InitDocs : at[u] = p IN FileOf(u, {u})
             ELSE NoFile]
        /\ base = [u \in Uids |-> IF u \in InitDocs THEN Baseline(at[u], {u}) ELSE NoBase]
  BY DEF Init
<1>2. /\ cmd = "idle" /\ pc = "idle" /\ mem = base /\ side = [p \in Paths |-> NoFile]
      /\ used = {} /\ unpushed = {} /\ onServer = InitDocs
  BY DEF Init
<1>3. \A u \in InitDocs :
        /\ u \in Uids /\ memo[u].st = "live" /\ memo[u].path = at[u] /\ memo[u].body = {u}
        /\ mem[u].tracked /\ mem[u].path = at[u] /\ mem[u].hash = {u} /\ ~mem[u].conflict
        /\ u \in onServer
        /\ at[u] \in Paths /\ at[u] # NoPath
  BY <1>1, <1>2, PathsAssumption, DocsAssumption DEF Baseline
<1>3a. \A u \in Uids \ InitDocs :
         /\ memo[u].st = "none" /\ memo[u].path = NoPath /\ memo[u].body = {}
         /\ ~mem[u].tracked /\ ~mem[u].conflict
  BY <1>1, <1>2 DEF NoMemo, NoBase
<1>4. \A p \in Paths : \/ file[p] = NoFile /\ \A u \in InitDocs : at[u] # p
                       \/ \E u \in InitDocs : at[u] = p /\ file[p] = FileOf(u, {u})
  <2> SUFFICES ASSUME NEW p \in Paths, \E u \in InitDocs : at[u] = p
               PROVE  \E u \in InitDocs : at[u] = p /\ file[p] = FileOf(u, {u})
    BY <1>1
  <2> DEFINE w == CHOOSE u \in InitDocs : at[u] = p
  <2>1. w \in InitDocs /\ at[w] = p
    OBVIOUS
  <2>2. file[p] = FileOf(w, {w})
    BY <1>1
  <2> QED
    BY <2>1, <2>2
<1>5. PhaseInv
  BY <1>2 DEF PhaseInv
<1>6. RecordInv
  BY <1>3, <1>3a DEF RecordInv
<1>7. PathInv
  <2>1. \A u \in Uids, p \in Paths : Has(u, p) => u \in InitDocs /\ at[u] = p
    BY <1>3, <1>3a, PathsAssumption DEF Has, At
  <2> QED
    BY <1>1, <2>1 DEF PathInv
<1>8. \A u \in InitDocs : file[at[u]].present /\ file[at[u]].mark = u
  BY <1>1, <1>3, <1>4 DEF NoFile, FileOf
<1>9. FileInv
  <2>1. ASSUME NEW p \in Paths, file[p].present, NEW u \in Uids, memo[u].path = p \/ At(u, p)
        PROVE  At(u, p) /\ file[p].mark = u
    BY <1>3, <1>3a, <1>8, <2>1, PathsAssumption DEF At
  <2>2. ASSUME NEW p \in Paths, ~file[p].present PROVE file[p].body = {}
    <3>1. ASSUME file[p] = NoFile PROVE file[p].body = {}
      BY <3>1 DEF NoFile
    <3>2. ASSUME NEW u, file[p] = FileOf(u, {u}) PROVE file[p].present
      BY <3>2 DEF FileOf
    <3> QED
      BY <1>4, <2>2, <3>1, <3>2
  <2> QED
    BY <2>1, <2>2 DEF FileInv
<1>9a. SideInv /\ StoodInv
  BY <1>3, <1>3a, <1>8 DEF SideInv, StoodInv, StoodBy
<1>10. PushInv /\ PullInv
  BY <1>2 DEF PushInv, PullInv, Pushing, Pulling
<1>11. EditInv
  <2>1. \A u \in Uids : memo[u].body \subseteq onServer
    BY <1>2, <1>3, <1>3a
  <2>2. \A p \in Paths : side[p].body = {}
    BY <1>2 DEF NoFile
  <2>3. \A p \in Paths : file[p].body \subseteq InitDocs
    <3>1. ASSUME NEW p \in Paths, file[p] = NoFile PROVE file[p].body \subseteq InitDocs
      BY <3>1 DEF NoFile
    <3>2. ASSUME NEW p \in Paths, NEW u \in InitDocs, file[p] = FileOf(u, {u})
          PROVE  file[p].body \subseteq InitDocs
      BY <3>2 DEF FileOf
    <3> QED
      BY <1>4, <3>1, <3>2
  <2> QED
    BY <1>2, <2>1, <2>2, <2>3, EditsAssumption DEF EditInv
<1>12. NoLocalEditLost
  BY <1>2 DEF NoLocalEditLost
<1> QED
  BY <1>5, <1>6, <1>7, <1>9, <1>9a, <1>10, <1>11, <1>12 DEF SafeInv
-----------------------------------------------------------------------------
\* Whom a file resolves to: the winner of its marker, else who is recorded here.
LEMMA Identities ==
  ASSUME NEW p \in Paths
  PROVE  /\ \A c \in Identity(p) :
              \/ c = NoUid
              \/ c \in Uids /\ file[p].present /\ (Winner(c, p) \/ (base[c].tracked /\ base[c].path = p))
         /\ \A u \in Uids : /\ file[p].present /\ {v \in Uids : Winner(v, p)} = {}
                            /\ {v \in Uids : base[v].tracked /\ base[v].path = p} = {u} /\ Marked(u) = {}
                            => Identity(p) = {u}
         /\ file[p].present /\ {v \in Uids : Winner(v, p)} # {}
            => Identity(p) = {v \in Uids : Winner(v, p)}
<1> DEFINE mine == {v \in Uids : Winner(v, p)}
           here == {v \in Uids : base[v].tracked /\ base[v].path = p}
           fall == {IF Marked(v) = {} THEN v ELSE NoUid : v \in here}
<1>1. Identity(p) = IF ~file[p].present THEN {NoUid} ELSE IF mine # {} THEN mine
                    ELSE IF here = {} THEN {NoUid} ELSE fall
  BY DEF Identity
<1>2. \A c \in fall : c = NoUid \/ c \in here
  OBVIOUS
<1>3. \A u : here = {u} /\ Marked(u) = {} => fall = {u}
  OBVIOUS
<1>4. /\ \A c \in mine : c \in Uids /\ Winner(c, p)
      /\ \A c \in here : c \in Uids /\ base[c].tracked /\ base[c].path = p
  OBVIOUS
<1> HIDE DEF mine, here, fall
<1>5. \A c \in Identity(p) : c = NoUid \/ (file[p].present /\ (c \in mine \/ c \in here))
  BY <1>1, <1>2
<1>6. \A u \in Uids : file[p].present /\ mine = {} /\ here = {u} /\ Marked(u) = {} => Identity(p) = {u}
  BY <1>1, <1>3
<1>7. file[p].present /\ mine # {} => Identity(p) = mine
  BY <1>1
<1>8. \A c \in Identity(p) :
              \/ c = NoUid
              \/ c \in Uids /\ file[p].present /\ (Winner(c, p) \/ (base[c].tracked /\ base[c].path = p))
  BY <1>4, <1>5
<1> QED
  BY <1>6, <1>7, <1>8 DEF mine, here

\* Of several paths one is the first: as many numbers as there are lower bounds
\* of them, less one, is the greatest of the bounds.
LEMMA FirstOf ==
  ASSUME NEW S \in SUBSET Nat, NEW k \in S
  PROVE  \E m \in S : \A y \in S : m <= y
<1> DEFINE T == {n \in 0..k : \A y \in S : n <= y}
           c == Cardinality(T)
<1>1. IsFiniteSet(T) /\ c \in Nat
  <2>1. 0 \in Int /\ k \in Int /\ T \in SUBSET (0..k)
    OBVIOUS
  <2> HIDE DEF T
  <2>2. IsFiniteSet(0..k)
    BY <2>1, FS_Interval
  <2>3. IsFiniteSet(T)
    BY <2>1, <2>2, FS_Subset
  <2> QED
    BY <2>3, FS_CardinalityType
<1>2. 0 \in T /\ T \subseteq 0..k
  OBVIOUS
<1>3. \A t \in T, n \in Nat : n <= t => n \in T
  OBVIOUS
<1>4. k \in Nat /\ \A t \in T : t \in Nat
  OBVIOUS
<1>5. \A n \in Nat : n \notin T /\ n <= k => \E y \in S : y < n
  OBVIOUS
<1>6. \A t \in T, y \in S : t <= y
  OBVIOUS
<1> HIDE DEF T
<1>7. c # 0
  BY <1>1, <1>2, FS_EmptySet
<1>8. c - 1 \in T
  <2> SUFFICES ASSUME c - 1 \notin T PROVE FALSE
    OBVIOUS
  <2>1. c - 2 \in Int /\ T \subseteq 0..(c - 2)
    BY <1>1, <1>3, <1>4, <1>7
  <2> DEFINE d == c - 2
  <2>2. d \in Int /\ d < c - 1 /\ (0 > d => 0 < c) /\ (d - 0 + 1) < c
    BY <1>1, <1>7, <2>1
  <2>3. T \in SUBSET (0..d)
    BY <2>1
  <2> HIDE DEF d
  <2>4. IsFiniteSet(0..d) /\ Cardinality(0..d) = IF 0 > d THEN 0 ELSE d - 0 + 1
    BY <2>2, FS_Interval
  <2>5. c <= Cardinality(0..d)
    BY <2>3, <2>4, FS_Subset
  <2> HIDE DEF c
  <2> QED
    BY <1>1, <1>7, <2>2, <2>4, <2>5
<1>9. c \notin T
  <2> SUFFICES ASSUME c \in T PROVE FALSE
    OBVIOUS
  <2>1. 0..c \subseteq T
    BY <1>1, <1>3
  <2>2. IsFiniteSet(0..c) /\ Cardinality(0..c) = c + 1
    BY <1>1, FS_Interval
  <2> QED
    BY <1>1, <2>1, <2>2, FS_Subset
<1>10. c - 1 \in S
  <2>1. CASE c <= k
    <3>1. PICK y \in S : y < c
      BY <1>1, <1>5, <1>9, <2>1
    <3> QED
      BY <1>1, <1>6, <1>8, <3>1
  <2>2. CASE ~(c <= k)
    BY <1>1, <1>2, <1>4, <1>6, <1>8, <2>2
  <2> QED
    BY <2>1, <2>2
<1> QED
  BY <1>6, <1>8, <1>10

\* A push starts from an idle checkout: a document recorded where a file is has
\* that file, which has its marker, and so it wins.
LEMMA PushStartSafe ==
  ASSUME TypeOK, SafeInv, PushStart
  PROVE  SafeInv'
<1>0. /\ UNCHANGED <<memo, onServer, file, side, base, mem, cur, used, unpushed, removed>>
      /\ cmd' = "push" /\ pc' = "doc" /\ docs' = file /\ pc = "idle" /\ base = mem
      /\ (\A p \in Paths : claim'[p] \in Identity(p))
      /\ todoP' = {p \in Paths : file[p].present}
  BY DEF PushStart, serverVars, treeVars, ghostVars, SafeInv, PhaseInv
<1> USE DEF SafeInv, At, Stamping
<1>1. \A p \in Paths, u \in Uids : p \in Marked(u) <=> StoodBy(u, p) /\ mem[u].tracked
  BY <1>0 DEF Marked, StoodBy
<1>2. \A p \in Paths, u \in Uids : Winner(u, p) =>
        /\ p \in Marked(u)
        /\ p = mem[u].path \/ (mem[u].path \notin Marked(u) /\ \A q \in Marked(u) : p <= q)
  BY <1>0 DEF Winner
<1>3. \A p \in Paths, u \in Uids : At(u, p) /\ file[p].present => Winner(u, p)
  BY <1>0 DEF Winner, Marked, FileInv
<1>4. ASSUME NEW p \in Paths, NEW u \in Uids
      PROVE  claim'[p] = u <=> Winner(u, p)
  <2>1. ASSUME Winner(u, p) PROVE claim'[p] = u
    <3>1. {v \in Uids : Winner(v, p)} = {u}
      BY <1>1, <1>2, <2>1 DEF StoodBy
    <3>2. file[p].present
      BY <1>1, <1>2, <2>1 DEF StoodBy
    <3> QED
      BY <1>0, <3>1, <3>2, Identities
  <2>2. ASSUME claim'[p] = u PROVE Winner(u, p)
    <3>1. file[p].present /\ (Winner(u, p) \/ At(u, p))
      BY <1>0, <2>2, Identities, UidsAssumption
    <3> QED
      BY <1>3, <3>1
  <2> QED
    BY <2>1, <2>2
<1>5. ASSUME NEW p \in Paths, NEW u \in Uids, p \in Marked(u)
      PROVE  \E q \in Paths : Winner(u, q)
  <2>1. CASE mem[u].path \in Marked(u)
    BY <1>0, <2>1 DEF Winner, Marked
  <2>2. CASE mem[u].path \notin Marked(u)
    <3>1. Marked(u) \in SUBSET Nat
      BY PathsAssumption DEF Marked
    <3>2. PICK q \in Marked(u) : \A r \in Marked(u) : q <= r
      BY <1>5, <3>1, FirstOf
    <3> QED
      BY <1>0, <2>2, <3>2 DEF Winner, Marked
  <2> QED
    BY <2>1, <2>2
<1>6. \A p, q \in Paths, u \in Uids : Winner(u, p) /\ Winner(u, q) => p = q
  BY <1>2, PathsAssumption
<1>7. ClaimInv'
  <2>1. \A p \in Paths, u \in Uids : claim'[p] = u => StoodBy(u, p)' /\ mem'[u].tracked
    BY <1>0, <1>1, <1>2, <1>4 DEF StoodBy
  <2>2. \A p, q \in Paths, u \in Uids : claim'[p] = u /\ claim'[q] = u => p = q
    BY <1>4, <1>6
  <2>3. \A p \in Paths, u \in Uids : At(u, p)' /\ file'[p].present => claim'[p] = u
    BY <1>0, <1>3, <1>4
  <2>4. \A p \in Paths, u \in Uids : StoodBy(u, p)' /\ mem'[u].tracked => \E q \in Paths : claim'[q] = u
    BY <1>0, <1>1, <1>4, <1>5 DEF StoodBy
  <2>5. \A p \in Paths, u \in Uids : StoodBy(u, p)' => file'[p].present
    BY DEF StoodBy
  <2> QED
    BY <1>0, <2>1, <2>2, <2>3, <2>4, <2>5 DEF ClaimInv
<1>8. PhaseInv'
  BY <1>0 DEF PhaseInv, Pushing
<1>9. RecordInv' /\ PathInv'
  BY <1>0 DEF RecordInv, PathInv, Has
<1>10. FileInv' /\ SideInv' /\ StoodInv'
  BY <1>0 DEF FileInv, SideInv, StoodInv, StoodBy
<1>11. PushInv'
  BY <1>0, <1>7 DEF PushInv
<1>12. PullInv'
  BY <1>0 DEF PullInv, Pulling
<1>13. EditInv' /\ NoLocalEditLost'
  BY <1>0 DEF EditInv, NoLocalEditLost, InTree
<1> QED
  BY <1>8, <1>9, <1>10, <1>11, <1>12, <1>13

\* At the head of push's list is a file that is there; a document recorded at
\* its path, or that has its path on the server, is the one it claims.
LEMMA PushHere ==
  ASSUME TypeOK, SafeInv, NEW p \in Paths, cmd = "push", pc = "doc", FirstP(p)
  PROVE  /\ file[p].present /\ docs[p].body = file[p].body
         /\ \A u \in Uids : /\ claim[p] = u => StoodBy(u, p) /\ mem[u].tracked
                            /\ At(u, p) => claim[p] = u
                            /\ memo[u].path = p => claim[p] = u
<1>1. file[p].present /\ docs[p].body = file[p].body
  BY DEF SafeInv, PushInv, ClaimInv, FirstP
<1>2. \A u \in Uids : /\ claim[p] = u => StoodBy(u, p) /\ mem[u].tracked
                      /\ At(u, p) => claim[p] = u
  BY <1>1 DEF SafeInv, PushInv, ClaimInv, Stamping
<1> QED
  BY <1>1, <1>2 DEF SafeInv, FileInv, Stamping

\* So no push is refused for a path that is taken.
LEMMA PushUnrefused ==
  ASSUME TypeOK, SafeInv, NEW p \in Paths, NEW u \in Uids \cup {NoUid}
  PROVE  ~PushRefused(p, u)
<1> SUFFICES ASSUME PushAt(p, u), NEW v \in Uids \ {u}, memo[v].path = p PROVE FALSE
  BY DEF PushRefused, PathTaken
<1> QED
  BY PushHere DEF PushAt

\* Where pushDocContent is.
LEMMA ContentHere ==
  ASSUME TypeOK, SafeInv, NEW p \in Paths, NEW u \in Uids, ContentAt(p, u)
  PROVE  /\ cmd = "push" /\ pc \in {"doc", "content"} /\ claim[p] = u /\ At(u, p)
         /\ \A v \in Uids : At(v, p) => v = u
<1>1. At(u, p)
  <2>1. CASE pc = "doc" /\ FirstP(p)
    BY <2>1, PushHere DEF ContentAt, At
  <2>2. CASE pc = "content" /\ cur = p
    BY <2>2 DEF ContentAt, SafeInv, PushInv
  <2> QED
    BY <2>1, <2>2 DEF ContentAt
<1>2. \A v \in Uids : At(v, p) => v = u
  BY <1>1 DEF SafeInv, PathInv, Has
<1> QED
  BY <1>1, <1>2 DEF ContentAt

\* A step to the next document that changes nothing else but the sidecars and
\* what is on record of the text.
LEMMA NextDocRest ==
  ASSUME TypeOK, SafeInv, NEW p, NextDoc(p), KeepRun, cmd = "push", pc # "stamp",
         UNCHANGED <<memo, onServer, file, base, claim, live, used, unpushed, removed>>,
         \A u \in Uids : (mem'[u].tracked <=> mem[u].tracked) /\ mem'[u].path = mem[u].path
  PROVE  /\ PhaseInv' /\ PathInv' /\ FileInv' /\ StoodInv' /\ PushInv' /\ PullInv'
         /\ NoLocalEditLost'
<1>0. pc' = "doc" /\ cmd' = "push" /\ todoP' \subseteq todoP /\ docs' = docs /\ todoU' = todoU
  BY DEF NextDoc, KeepRun
<1> USE DEF SafeInv, At, Has, Stamping, StoodBy
<1>1. PhaseInv'
  BY <1>0 DEF PhaseInv, Pushing
<1>2. PathInv'
  BY <1>0 DEF PathInv
<1>3. FileInv' /\ StoodInv'
  BY <1>0 DEF FileInv, StoodInv
<1>4. PushInv'
  <2>1. ClaimInv
    BY DEF PushInv
  <2>2. ClaimInv'
    BY <1>0, <2>1 DEF ClaimInv
  <2>3. \A q \in Paths : docs'[q].body = file'[q].body
    BY <1>0 DEF PushInv
  <2> QED
    BY <1>0, <2>2, <2>3 DEF PushInv
<1>5. PullInv'
  BY <1>0 DEF PullInv, Pulling
<1>6. NoLocalEditLost'
  BY <1>0 DEF NoLocalEditLost, InTree
<1> QED
  BY <1>1, <1>2, <1>3, <1>4, <1>5, <1>6

\* Nothing is sent for an orphan, an unchanged text or an open conflict.
LEMMA PushSkipSafe ==
  ASSUME TypeOK, SafeInv, NEW p \in Paths, NEW u \in Uids, PushOrphan(p, u) \/ PushNothing(p, u)
  PROVE  SafeInv'
<1>0. /\ UNCHANGED <<memo, onServer, file, side, base, mem, claim, live, used, unpushed, removed>>
      /\ NextDoc(p) /\ KeepRun /\ cmd = "push" /\ pc # "stamp"
  BY DEF PushOrphan, PushNothing, PushAt, ContentAt, serverVars, treeVars, ghostVars
<1>1. PhaseInv' /\ PathInv' /\ FileInv' /\ StoodInv' /\ PushInv' /\ PullInv' /\ NoLocalEditLost'
  BY <1>0, NextDocRest
<1>2. RecordInv' /\ SideInv' /\ EditInv'
  BY <1>0 DEF SafeInv, RecordInv, SideInv, EditInv
<1> QED
  BY <1>1, <1>2 DEF SafeInv

\* A conflict sets the server's text beside the file.
LEMMA PushConflictSafe ==
  ASSUME TypeOK, SafeInv, NEW p \in Paths, NEW u \in Uids, PushConflict(p, u)
  PROVE  SafeInv'
<1>0. /\ UNCHANGED <<memo, onServer, file, base, claim, live, used, unpushed, removed>>
      /\ NextDoc(p) /\ KeepRun /\ ContentAt(p, u)
      /\ side' = [side EXCEPT ![p] = FileOf(u, memo[u].body)]
      /\ mem' = [mem EXCEPT ![u] = Flag(@, memo[u].body)]
  BY DEF PushConflict, serverVars, ghostVars
<1>1. /\ cmd = "push" /\ pc # "stamp" /\ At(u, p)
      /\ \A v \in Uids : At(v, p) => v = u
  BY <1>0, ContentHere
<1>2. mem[u] \in Bases /\ mem \in [Uids -> Bases] /\ side \in [Paths -> Files]
  BY DEF TypeOK, StateOK, TreeOK
<1>3. /\ \A v \in Uids \ {u} : mem'[v] = mem[v]
      /\ mem'[u].tracked = mem[u].tracked /\ mem'[u].path = mem[u].path /\ mem'[u].hash = mem[u].hash
  BY <1>0, <1>2 DEF Flag, Bases
<1>4. /\ \A q \in Paths \ {p} : side'[q] = side[q]
      /\ side'[p].body = memo[u].body /\ side'[p].mark = u
  BY <1>0, <1>2 DEF FileOf
<1>5. PhaseInv' /\ PathInv' /\ FileInv' /\ StoodInv' /\ PushInv' /\ PullInv' /\ NoLocalEditLost'
  BY <1>0, <1>1, <1>3, NextDocRest
<1> USE DEF SafeInv, At
<1>6. RecordInv'
  BY <1>0, <1>1, <1>3 DEF RecordInv
<1>7. SideInv'
  <2>1. \A v \in Uids : mem[v].conflict => mem[v].tracked /\ mem[v].path \in Paths
    BY DEF RecordInv
  <2> QED
    BY <1>0, <1>1, <1>3, <1>4, <2>1 DEF SideInv
<1>8. EditInv'
  BY <1>0, <1>4 DEF EditInv
<1> QED
  BY <1>5, <1>6, <1>7, <1>8

\* A step within one document of push: the tree and the claims stay.
LEMMA PushStayRest ==
  ASSUME TypeOK, SafeInv, cmd = "push", pc # "stamp", pc' \in {"content", "update", "reply"},
         UNCHANGED <<file, side, base, claim, live, todoP, cmd, docs, todoU, removed>>,
         NEW w \in Uids, cur' \in Paths, claim[cur'] = w, At(w, cur)',
         \A u \in Uids : /\ mem'[u].tracked <=> mem[u].tracked
                         /\ \A p \in Paths : At(u, p)' /\ file[p].present => claim[p] = u
  PROVE  PhaseInv' /\ StoodInv' /\ PushInv' /\ PullInv'
<1> USE DEF SafeInv, Stamping, StoodBy
<1>1. PhaseInv'
  BY DEF PhaseInv, Pushing
<1>2. StoodInv'
  BY DEF StoodInv
<1>3. ClaimInv'
  <2>1. ClaimInv
    BY DEF PushInv
  <2> QED
    BY <2>1 DEF ClaimInv
<1>4. PushInv'
  <2>1. claim'[cur'] = w
    OBVIOUS
  <2>2. At(claim[cur], cur)'
    BY <2>1
  <2> QED
    BY <1>3, <2>1, <2>2 DEF PushInv
<1>5. PullInv'
  BY DEF PullInv, Pulling
<1> QED
  BY <1>1, <1>2, <1>4, <1>5

\* The document follows its file, and the server's text becomes the baseline.
LEMMA PushMoveSafe ==
  ASSUME TypeOK, SafeInv, NEW p \in Paths, NEW u \in Uids, PushMove(p, u)
  PROVE  SafeInv'
<1>0. /\ UNCHANGED <<file, side, base, claim, live, todoP, cmd, docs, todoU, used, unpushed, removed,
                     onServer>>
      /\ cmd = "push" /\ pc = "doc" /\ FirstP(p) /\ claim[p] = u
      /\ (\A v \in Uids : v # u => memo[v].path # p)
      /\ memo' = [memo EXCEPT ![u].path = p]
      /\ mem' = [mem EXCEPT ![u] = Baseline(p, memo[u].body)]
      /\ pc' = "content" /\ cur' = p
  BY DEF PushMove, PushAt, PathTaken, KeepRun, treeVars, ghostVars
<1> USE DEF SafeInv, At, Has, Stamping
<1>1. /\ file[p].present /\ file[p].mark = u /\ mem[u].tracked
      /\ \A v \in Uids : At(v, p) => v = u
  BY <1>0, PushHere DEF StoodBy
<1>2. /\ \A v \in Uids \ {u} : mem'[v] = mem[v] /\ memo'[v] = memo[v]
      /\ mem'[u].tracked /\ mem'[u].path = p /\ mem'[u].hash = memo[u].body /\ ~mem'[u].conflict
      /\ memo'[u].path = p /\ memo'[u].st = memo[u].st /\ memo'[u].body = memo[u].body
  BY <1>0 DEF TypeOK, ServerOK, Memos, StateOK, Baseline
<1>3. memo[u].st # "none" /\ memo[u].body \subseteq onServer /\ p # NoPath
  BY <1>1, PathsAssumption DEF RecordInv, EditInv
<1>4. PhaseInv' /\ StoodInv' /\ PushInv' /\ PullInv'
  <2>1. \A v \in Uids, q \in Paths : At(v, q)' /\ file[q].present => claim[q] = v
    BY <1>0, <1>2 DEF PushInv, ClaimInv
  <2>2. At(u, cur)'
    BY <1>0, <1>2
  <2> QED
    BY <1>0, <1>1, <1>2, <2>1, <2>2, PushStayRest
<1>5. RecordInv'
  BY <1>0, <1>2, <1>3 DEF RecordInv
<1>6. PathInv'
  BY <1>0, <1>1, <1>2 DEF PathInv
<1>7. FileInv'
  BY <1>0, <1>1, <1>2 DEF FileInv
<1>8. SideInv'
  BY <1>0, <1>2 DEF SideInv
<1>9. EditInv' /\ NoLocalEditLost'
  BY <1>0, <1>2 DEF EditInv, NoLocalEditLost, InTree
<1> QED
  BY <1>4, <1>5, <1>6, <1>7, <1>8, <1>9

\* The re-check sees the text push expects.
LEMMA PushGetSafe ==
  ASSUME TypeOK, SafeInv, NEW p \in Paths, NEW u \in Uids, PushGet(p, u)
  PROVE  SafeInv'
<1>0. /\ UNCHANGED <<memo, onServer, file, side, base, mem, claim, live, todoP, cmd, docs, todoU,
                     used, unpushed, removed>>
      /\ ContentAt(p, u) /\ pc' = "update" /\ cur' = p
  BY DEF PushGet, KeepRun, serverVars, treeVars, ghostVars
<1>1. cmd = "push" /\ pc # "stamp" /\ At(u, p) /\ claim[p] = u
  BY <1>0, ContentHere
<1> USE DEF SafeInv, At, Has, Stamping
<1>2. PhaseInv' /\ StoodInv' /\ PushInv' /\ PullInv'
  <2>1. \A v \in Uids, q \in Paths : At(v, q)' /\ file[q].present => claim[q] = v
    BY <1>0, <1>1 DEF PushInv, ClaimInv
  <2>2. At(u, cur)'
    BY <1>0, <1>1
  <2> QED
    BY <1>0, <1>1, <2>1, <2>2, PushStayRest
<1>3. RecordInv' /\ PathInv' /\ SideInv'
  BY <1>0 DEF RecordInv, PathInv, SideInv
<1>4. FileInv'
  BY <1>0, <1>1 DEF FileInv
<1>5. EditInv' /\ NoLocalEditLost'
  BY <1>0 DEF EditInv, NoLocalEditLost, InTree
<1> QED
  BY <1>2, <1>3, <1>4, <1>5

\* The server stores the file's text, which was in no text of the server's.
LEMMA PushUpdateSafe ==
  ASSUME TypeOK, SafeInv, NEW p \in Paths, NEW u \in Uids, PushUpdate(p, u)
  PROVE  SafeInv'
<1>0. /\ UNCHANGED <<file, side, base, mem, claim, live, todoP, cur, cmd, docs, todoU, used, removed>>
      /\ cmd = "push" /\ pc = "update" /\ cur = p /\ claim[p] = u /\ pc' = "reply"
      /\ memo' = [memo EXCEPT ![u].body = docs[p].body]
      /\ onServer' = onServer \cup docs[p].body /\ unpushed' = unpushed \ docs[p].body
  BY DEF PushUpdate, KeepRun, treeVars
<1>1. /\ memo'[u].body = docs[p].body
      /\ \A v \in Uids : memo'[v].st = memo[v].st /\ memo'[v].path = memo[v].path
      /\ \A v \in Uids \ {u} : memo'[v] = memo[v]
  BY <1>0 DEF TypeOK, ServerOK, Memos
<1> USE DEF SafeInv, At, Has, Stamping
<1>2. docs[p].body = file[p].body /\ At(u, p)
  BY <1>0 DEF PushInv
<1>3. PhaseInv' /\ StoodInv' /\ PushInv' /\ PullInv'
  <2>1. \A v \in Uids, q \in Paths : At(v, q)' /\ file[q].present => claim[q] = v
    BY <1>0 DEF PushInv, ClaimInv
  <2>2. At(u, cur)'
    BY <1>0, <1>2
  <2> QED
    BY <1>0, <2>1, <2>2, PushStayRest
<1>4. RecordInv'
  BY <1>0, <1>1 DEF RecordInv
<1>5. PathInv' /\ SideInv'
  BY <1>0, <1>1 DEF PathInv, SideInv
<1>6. FileInv'
  BY <1>0, <1>1 DEF FileInv
<1>7. EditInv'
  <2>1. \A v \in Uids : memo'[v].body \subseteq onServer'
    BY <1>0, <1>1 DEF EditInv
  <2>2. onServer' \cap Edits \subseteq used'
    BY <1>0, <1>2 DEF EditInv
  <2> QED
    BY <1>0, <2>1, <2>2 DEF EditInv
<1>8. NoLocalEditLost'
  BY <1>0 DEF NoLocalEditLost, InTree
<1> QED
  BY <1>3, <1>4, <1>5, <1>6, <1>7, <1>8

\* The answer becomes the baseline.
LEMMA PushReplySafe ==
  ASSUME TypeOK, SafeInv, NEW p \in Paths, NEW u \in Uids, PushReply(p, u)
  PROVE  SafeInv'
<1>0. /\ UNCHANGED <<memo, onServer, file, side, base, claim, live, used, unpushed, removed>>
      /\ NextDoc(p) /\ KeepRun /\ cmd = "push" /\ pc = "reply" /\ cur = p /\ claim[p] = u
      /\ mem' = [mem EXCEPT ![u] = Baseline(p, memo[u].body)]
  BY DEF PushReply, serverVars, treeVars, ghostVars
<1> USE DEF SafeInv, At, Stamping
<1>1. mem[u].tracked /\ mem[u].path = p
  BY <1>0 DEF PushInv
<1>2. /\ \A v \in Uids \ {u} : mem'[v] = mem[v]
      /\ mem'[u].tracked /\ mem'[u].path = p /\ mem'[u].hash = memo[u].body /\ ~mem'[u].conflict
  BY <1>0 DEF TypeOK, StateOK, Baseline
<1>3. PhaseInv' /\ PathInv' /\ FileInv' /\ StoodInv' /\ PushInv' /\ PullInv' /\ NoLocalEditLost'
  BY <1>0, <1>1, <1>2, NextDocRest
<1>4. RecordInv'
  BY <1>0, <1>1, <1>2 DEF RecordInv, EditInv
<1>5. SideInv' /\ EditInv'
  BY <1>0, <1>2 DEF SideInv, EditInv
<1> QED
  BY <1>3, <1>4, <1>5

\* A file nobody claims becomes a document of its own.
LEMMA PushCreateSafe ==
  ASSUME TypeOK, SafeInv, NEW p \in Paths, NEW u \in Uids, PushCreate(p, u)
  PROVE  SafeInv'
<1>0. /\ UNCHANGED <<file, side, base, mem, live, todoP, used, removed, cmd, docs, todoU>>
      /\ cmd = "push" /\ pc = "doc" /\ FirstP(p) /\ claim[p] = NoUid
      /\ memo[u].st = "none" /\ (\A v \in Uids : v # u => memo[v].path # p)
      /\ memo' = [memo EXCEPT ![u] = [st |-> "live", path |-> p, body |-> docs[p].body]]
      /\ onServer' = onServer \cup docs[p].body /\ unpushed' = unpushed \ docs[p].body
      /\ claim' = [claim EXCEPT ![p] = u] /\ pc' = "stamp" /\ cur' = p
  BY DEF PushCreate, PushAt, KeepRun, NextUid, PathTaken, treeVars
<1> USE DEF SafeInv, At, Has, Stamping
<1>1. /\ file[p].present /\ docs[p].body = file[p].body
      /\ \A v \in Uids : ~At(v, p)
  BY <1>0, PushHere, UidsAssumption
<1>2. /\ memo'[u].st = "live" /\ memo'[u].path = p /\ memo'[u].body = docs[p].body
      /\ \A v \in Uids \ {u} : memo'[v] = memo[v]
      /\ claim'[p] = u /\ \A q \in Paths \ {p} : claim'[q] = claim[q]
  BY <1>0 DEF TypeOK, ServerOK, RunOK
<1>3. /\ ~mem[u].tracked /\ memo[u].path = NoPath /\ p # NoPath
      /\ \A q \in Paths : claim[q] # u
  BY <1>0, PathsAssumption DEF RecordInv, PushInv, ClaimInv
<1>4. PhaseInv'
  BY <1>0 DEF PhaseInv, Pushing
<1>5. RecordInv'
  BY <1>0, <1>2, <1>3 DEF RecordInv
<1>6. PathInv'
  BY <1>0, <1>1, <1>2, <1>3 DEF PathInv
<1>7. FileInv'
  BY <1>0, <1>1, <1>2, <1>3 DEF FileInv
<1>8. SideInv' /\ StoodInv'
  BY <1>0 DEF SideInv, StoodInv, StoodBy
<1>9. PushInv'
  <2> USE DEF StoodBy
  <2>1. ClaimInv
    BY <1>0 DEF PushInv
  <2>2. \A q \in Paths, v \in Uids : claim'[q] = v =>
          file'[q].present /\ (Stamping(v, q)' \/ (StoodBy(v, q)' /\ mem'[v].tracked))
    BY <1>0, <1>1, <1>2, <2>1 DEF ClaimInv
  <2>3. \A q, r \in Paths, v \in Uids : claim'[q] = v /\ claim'[r] = v => q = r
    BY <1>2, <1>3, <2>1 DEF ClaimInv
  <2>4. \A q \in Paths, v \in Uids : At(v, q)' /\ file'[q].present => claim'[q] = v
    BY <1>0, <1>1, <1>2, <2>1 DEF ClaimInv
  <2>5. \A q \in Paths, v \in Uids : StoodBy(v, q)' /\ mem'[v].tracked => \E r \in Paths : claim'[r] = v
    BY <1>0, <1>2, <2>1, UidsAssumption DEF ClaimInv
  <2>6. ClaimInv'
    BY <1>0, <2>1, <2>2, <2>3, <2>4, <2>5 DEF ClaimInv
  <2>7. \A q \in Paths : docs'[q].body = file'[q].body
    BY <1>0 DEF PushInv
  <2> QED
    BY <1>0, <1>2, <1>3, <2>6, <2>7 DEF PushInv
<1>10. PullInv'
  BY <1>0 DEF PullInv, Pulling
<1>11. EditInv'
  <2>1. \A v \in Uids : memo'[v].body \subseteq onServer'
    BY <1>0, <1>2 DEF EditInv
  <2>2. onServer' \cap Edits \subseteq used'
    BY <1>0, <1>1 DEF EditInv
  <2> QED
    BY <1>0, <2>1, <2>2 DEF EditInv
<1>12. NoLocalEditLost'
  BY <1>0 DEF NoLocalEditLost, InTree
<1> QED
  BY <1>4, <1>5, <1>6, <1>7, <1>8, <1>9, <1>10, <1>11, <1>12

\* With the answer it is on record, and its file carries its marker; a document
\* whose marker the file had has another file that claims it.
LEMMA PushStampSafe ==
  ASSUME TypeOK, SafeInv, NEW p \in Paths, NEW u \in Uids, PushStamp(p, u)
  PROVE  SafeInv'
<1>0. /\ UNCHANGED <<memo, onServer, side, base, claim, live, used, unpushed, removed, cmd, docs, todoU>>
      /\ cmd = "push" /\ pc = "stamp" /\ cur = p /\ claim[p] = u /\ pc' = "doc" /\ todoP' \subseteq todoP
      /\ mem' = [mem EXCEPT ![u] = Baseline(p, docs[p].body)]
      /\ file' = [file EXCEPT ![p] = FileOf(u, docs[p].body)]
  BY DEF PushStamp, NextDoc, KeepRun, serverVars, ghostVars
<1> USE DEF SafeInv, At, Has, Stamping, StoodBy
<1>1. /\ docs[p].body = file[p].body /\ file[p].present
      /\ ~mem[u].tracked /\ memo[u].st # "none" /\ docs[p].body \subseteq onServer
  BY <1>0 DEF PushInv, ClaimInv
<1>2. /\ \A v \in Uids \ {u} : mem'[v] = mem[v]
      /\ mem'[u].tracked /\ mem'[u].path = p /\ mem'[u].hash = docs[p].body /\ ~mem'[u].conflict
      /\ \A q \in Paths \ {p} : file'[q] = file[q]
      /\ file'[p].present /\ file'[p].mark = u /\ file'[p].body = docs[p].body
  BY <1>0 DEF TypeOK, StateOK, TreeOK, Baseline, FileOf
<1>3. \A v \in Uids : Has(v, p) => v = u
  BY <1>0, <1>1 DEF PushInv, ClaimInv, FileInv
<1>4. PhaseInv'
  BY <1>0 DEF PhaseInv, Pushing
<1>5. RecordInv'
  BY <1>0, <1>1, <1>2 DEF RecordInv
<1>6. PathInv'
  BY <1>0, <1>1, <1>2, <1>3 DEF PathInv
<1>7. FileInv'
  BY <1>0, <1>1, <1>2, <1>3 DEF FileInv
<1>8. SideInv'
  BY <1>0, <1>2 DEF SideInv
<1>9. \A v \in Uids \ {u}, q \in Paths : StoodBy(v, q) /\ mem[v].tracked =>
        \E r \in Paths : claim[r] = v /\ StoodBy(v, r)'
  <2> SUFFICES ASSUME NEW v \in Uids \ {u}, NEW q \in Paths, StoodBy(v, q), mem[v].tracked
               PROVE  \E r \in Paths : claim[r] = v /\ StoodBy(v, r)'
    OBVIOUS
  <2>1. PICK r \in Paths : claim[r] = v
    BY <1>0 DEF PushInv, ClaimInv
  <2>2. r # p /\ StoodBy(v, r)
    BY <1>0, <2>1 DEF PushInv, ClaimInv
  <2> QED
    BY <1>2, <2>1, <2>2
<1>10. StoodInv'
  BY <1>0, <1>2, <1>9 DEF StoodInv
<1>11. PushInv'
  <2>1. ClaimInv
    BY <1>0 DEF PushInv
  <2>2. \A q \in Paths, v \in Uids : claim'[q] = v =>
          file'[q].present /\ StoodBy(v, q)' /\ mem'[v].tracked
    BY <1>0, <1>2, <2>1 DEF ClaimInv
  <2>3. \A q \in Paths, v \in Uids : At(v, q)' /\ file'[q].present => claim'[q] = v
    BY <1>0, <1>2, <2>1 DEF ClaimInv
  <2>4. \A q \in Paths, v \in Uids : StoodBy(v, q)' /\ mem'[v].tracked => \E r \in Paths : claim'[r] = v
    BY <1>0, <1>2, <2>1 DEF ClaimInv
  <2>5. \A q \in todoP' : file'[q].present
    BY <1>0, <1>2, <2>1 DEF ClaimInv, TypeOK, RunOK
  <2>6. ClaimInv'
    BY <1>0, <2>1, <2>2, <2>3, <2>4, <2>5 DEF ClaimInv
  <2>7. \A q \in Paths : docs'[q].body = file'[q].body
    BY <1>0, <1>1, <1>2 DEF PushInv
  <2> QED
    BY <1>0, <2>6, <2>7 DEF PushInv
<1>12. PullInv'
  BY <1>0 DEF PullInv, Pulling
<1>13. \A q \in Paths : file'[q].body = file[q].body
  BY <1>1, <1>2
<1>14. EditInv' /\ NoLocalEditLost'
  BY <1>0, <1>13 DEF EditInv, NoLocalEditLost, InTree
<1> QED
  BY <1>4, <1>5, <1>6, <1>7, <1>8, <1>10, <1>11, <1>12, <1>14

LEMMA PushDocsDoneSafe ==
  ASSUME TypeOK, SafeInv, PushDocsDone
  PROVE  SafeInv'
<1>0. /\ UNCHANGED <<memo, onServer, file, side, base, mem, docs, claim, live, todoP, cur, cmd,
                     used, unpushed, removed>>
      /\ cmd = "push" /\ pc = "doc" /\ pc' = "archive"
      /\ \A u \in todoU' : mem[u].tracked /\ \A p \in Paths : claim[p] # u
  BY DEF PushDocsDone, Unclaimed, Tracked, serverVars, treeVars, ghostVars
<1> USE DEF SafeInv, At, Has, Stamping, StoodBy
<1>1. PhaseInv'
  BY <1>0 DEF PhaseInv
<1>2. RecordInv' /\ PathInv'
  BY <1>0 DEF RecordInv, PathInv
<1>3. FileInv' /\ SideInv' /\ StoodInv'
  BY <1>0 DEF FileInv, SideInv, StoodInv
<1>4. PushInv'
  <2>1. ClaimInv'
    BY <1>0 DEF PushInv, ClaimInv
  <2> QED
    BY <1>0, <2>1 DEF PushInv
<1>5. PullInv'
  BY <1>0 DEF PullInv, Pulling
<1>6. EditInv' /\ NoLocalEditLost'
  BY <1>0 DEF EditInv, NoLocalEditLost, InTree
<1> QED
  BY <1>1, <1>2, <1>3, <1>4, <1>5, <1>6

\* Archiving a document drops it from the record: there is no file of its.
LEMMA PushArchiveSafe ==
  ASSUME TypeOK, SafeInv, NEW u \in Uids, PushArchive(u)
  PROVE  SafeInv'
<1>0. /\ UNCHANGED <<onServer, file, side, base, cmd, pc, docs, claim, live, todoP, cur,
                     used, unpushed, removed>>
      /\ cmd = "push" /\ pc = "archive" /\ u \in todoU /\ todoU' = todoU \ {u}
      /\ mem' = [mem EXCEPT ![u] = NoBase]
      /\ memo' = memo \/ memo' = [memo EXCEPT ![u].st = "archived"]
  BY DEF PushArchive, treeVars, ghostVars
<1> USE DEF SafeInv, At, Has, Stamping, StoodBy
<1>1. mem[u].tracked /\ memo[u].st # "none" /\ (\A p \in Paths : claim[p] # u) /\ ClaimInv
  BY <1>0 DEF PushInv, RecordInv
<1>2. /\ ~mem'[u].tracked /\ ~mem'[u].conflict
      /\ \A v \in Uids \ {u} : mem'[v] = mem[v]
      /\ \A v \in Uids \ {u} : memo'[v] = memo[v]
      /\ memo'[u].st # "none" /\ memo'[u].path = memo[u].path /\ memo'[u].body = memo[u].body
  BY <1>0, <1>1 DEF TypeOK, ServerOK, StateOK, Memos, NoBase
<1>3. PhaseInv'
  BY <1>0 DEF PhaseInv
<1>4. RecordInv'
  BY <1>0, <1>1, <1>2 DEF RecordInv
<1>5. PathInv'
  BY <1>0, <1>2 DEF PathInv
<1>6. FileInv'
  BY <1>0, <1>1, <1>2 DEF FileInv, ClaimInv
<1>7. SideInv' /\ StoodInv'
  BY <1>0, <1>2 DEF SideInv, StoodInv
<1>8. PushInv'
  <2>1. ClaimInv'
    BY <1>0, <1>1, <1>2 DEF ClaimInv
  <2>2. \A v \in todoU' : mem'[v].tracked /\ \A p \in Paths : claim'[p] # v
    BY <1>0, <1>2 DEF PushInv, TypeOK, RunOK
  <2> QED
    BY <1>0, <2>1, <2>2 DEF PushInv
<1>9. PullInv'
  BY <1>0 DEF PullInv, Pulling
<1>10. EditInv' /\ NoLocalEditLost'
  BY <1>0, <1>2 DEF EditInv, NoLocalEditLost, InTree
<1> QED
  BY <1>3, <1>4, <1>5, <1>6, <1>7, <1>8, <1>9, <1>10

\* The record is saved.
LEMMA PushEndSafe ==
  ASSUME TypeOK, SafeInv, PushEnd
  PROVE  SafeInv'
<1>0. /\ UNCHANGED <<memo, onServer, file, side, used, unpushed, removed, mem>>
      /\ pc = "archive" /\ cmd' = "idle" /\ pc' = "idle" /\ base' = mem'
  BY DEF PushEnd, EndRun, serverVars, treeVars, ghostVars
<1> USE DEF SafeInv, At, Has, Stamping, StoodBy
<1>1. PhaseInv'
  BY <1>0 DEF PhaseInv
<1>2. RecordInv' /\ PathInv'
  BY <1>0 DEF RecordInv, PathInv
<1>3. FileInv' /\ SideInv' /\ StoodInv'
  BY <1>0 DEF FileInv, SideInv, StoodInv
<1>4. PushInv' /\ PullInv'
  BY <1>0 DEF PushInv, PullInv, Pulling
<1>5. EditInv' /\ NoLocalEditLost'
  BY <1>0 DEF EditInv, NoLocalEditLost, InTree
<1> QED
  BY <1>1, <1>2, <1>3, <1>4, <1>5

\* Every step of a push preserves the invariant.
LEMMA PushSafe == TypeOK /\ SafeInv /\ Push => SafeInv'
  BY PushStartSafe, PushUnrefused, PushSkipSafe, PushConflictSafe, PushMoveSafe, PushGetSafe,
     PushUpdateSafe, PushReplySafe, PushCreateSafe, PushStampSafe, PushDocsDoneSafe,
     PushArchiveSafe, PushEndSafe
  DEF Push


-----------------------------------------------------------------------------
\* A pull starts with the recent documents the server lists.
LEMMA PullStartSafe ==
  ASSUME TypeOK, SafeInv, PullStart
  PROVE  SafeInv'
<1>0. /\ UNCHANGED <<memo, onServer, file, side, base, mem, cur, docs, claim, todoP, used, unpushed, removed>>
      /\ cmd = "idle" /\ cmd' = "pull" /\ pc' = "incremental" /\ live' = Listing(recent)
      /\ todoU' = {u \in recent : Live(memo, u)} /\ pc = "idle"
  BY DEF PullStart, serverVars, treeVars, ghostVars, SafeInv, PhaseInv
<1> USE DEF SafeInv, At, Has, Stamping
<1>1. /\ \A u \in Uids : Live(live', u) => live'[u] = memo[u]
      /\ \A u \in todoU' : u \in Uids /\ Live(live', u)
  BY <1>0 DEF Listing, Live, NoMemo, TypeOK, ServerOK
<1>2. PhaseInv'
  BY <1>0 DEF PhaseInv, Pulling
<1>3. RecordInv' /\ PathInv'
  BY <1>0 DEF RecordInv, PathInv
<1>4. FileInv'
  BY <1>0 DEF FileInv
<1>5. SideInv' /\ StoodInv'
  BY <1>0 DEF SideInv, StoodInv, StoodBy
<1>6. PushInv'
  BY <1>0 DEF PushInv
<1>7. PullInv'
  BY <1>0, <1>1 DEF PullInv, Listed
<1>8. EditInv' /\ NoLocalEditLost'
  BY <1>0 DEF EditInv, NoLocalEditLost, InTree
<1> QED
  BY <1>2, <1>3, <1>4, <1>5, <1>6, <1>7, <1>8

\* A pass ends and the next one begins, with the full listing or what is left of it.
LEMMA PullPassSafe ==
  ASSUME TypeOK, SafeInv, PullListing \/ PullReconciled
  PROVE  SafeInv'
<1>0. /\ UNCHANGED <<memo, onServer, file, side, base, mem, cmd, cur, docs, claim, todoP, used, unpushed, removed>>
      /\ cmd = "pull" /\ todoU = {}
  BY DEF PullListing, PullReconciled, serverVars, treeVars, ghostVars
<1>1. \/ pc = "incremental" /\ pc' = "reconcile" /\ live' = Listing(Uids) /\ todoU' = Tracked(mem)
      \/ pc = "reconcile" /\ pc' = "adopt" /\ live' = live /\ todoU' = Listed \ Tracked(mem)
  BY DEF PullListing, PullReconciled
<1> USE DEF SafeInv, At, Has, Stamping
<1>2. PhaseInv'
  BY <1>0, <1>1 DEF PhaseInv, Pulling
<1>3. RecordInv' /\ PathInv'
  BY <1>0 DEF RecordInv, PathInv
<1>4. FileInv'
  BY <1>0, <1>1 DEF FileInv
<1>5. SideInv' /\ StoodInv'
  BY <1>0 DEF SideInv, StoodInv, StoodBy
<1>6. PushInv'
  BY <1>0, <1>1 DEF PushInv
<1>7. PullInv'
  <2>1. CASE pc = "incremental"
    <3>1. \A u \in Uids : /\ Live(live', u) => live'[u] = memo'[u]
                          /\ Live(memo', u) => Live(live', u)
      BY <1>0, <1>1, <2>1 DEF Listing, Live, NoMemo
    <3> QED
      BY <1>0, <1>1, <2>1, <3>1 DEF PullInv, Tracked
  <2>2. CASE pc = "reconcile"
    <3>1. Listed' = Listed /\ Tracked(mem)' = Tracked(mem)
      BY <1>0, <1>1, <2>2 DEF Listed, Tracked, Live
    <3>2. \A u \in Uids : Brought(u) <=> Brought(u)'
      BY <1>0 DEF Brought, Live
    <3>3. \A u \in Uids : (Live(live, u) <=> Live(live', u)) /\ (Live(memo, u) <=> Live(memo', u))
      BY <1>0, <1>1, <2>2 DEF Live
    <3> QED
      BY <1>0, <1>1, <2>2, <3>1, <3>2, <3>3 DEF PullInv, Pulling, Tracked
  <2> QED
    BY <1>1, <2>1, <2>2
<1>8. EditInv' /\ NoLocalEditLost'
  BY <1>0 DEF EditInv, NoLocalEditLost, InTree
<1> QED
  BY <1>2, <1>3, <1>4, <1>5, <1>6, <1>7, <1>8

\* What handling one document leaves alone, and what it must show to preserve
\* the invariant: the other documents keep their record, file and sidecar.
LEMMA PullRunRest ==
  ASSUME TypeOK, SafeInv, NEW pass \in Pulling, NEW u \in Uids, PullRun(pass, u)
  PROVE  /\ UNCHANGED <<memo, onServer, base, cmd, pc, docs, claim, live, todoP, cur, used, unpushed>>
         /\ cmd = "pull" /\ pc = pass /\ todoU' = todoU \ {u}
         /\ \A v \in Uids \ {u} : v \in removed <=> v \in removed'
         /\ mem[u].tracked => removed' = removed
         /\ Live(live, u) => live[u] = memo[u] /\ memo[u].path \in Paths
         /\ PhaseInv' /\ PushInv'
<1>0. /\ UNCHANGED <<memo, onServer, base, cmd, pc, docs, claim, live, todoP, cur, used, unpushed>>
      /\ cmd = "pull" /\ pc = pass /\ todoU' = todoU \ {u}
      /\ \A v \in Uids \ {u} : v \in removed <=> v \in removed'
      /\ mem[u].tracked => removed' = removed
  BY DEF PullRun, serverVars
<1>1. Live(live, u) => live[u] = memo[u] /\ memo[u].path \in Paths
  BY <1>0 DEF SafeInv, PullInv, RecordInv, Live, TypeOK, ServerOK, Memos
<1>2. PhaseInv'
  BY <1>0 DEF SafeInv, PhaseInv, Pulling
<1>3. PushInv'
  BY <1>0 DEF PushInv, Pulling
<1> QED
  BY <1>0, <1>1, <1>2, <1>3

\* The pass moves on when the document it handled is brought in step.
LEMMA PullInvStep ==
  ASSUME TypeOK, SafeInv, NEW pass \in Pulling, NEW u \in Uids, PullRun(pass, u),
         \A v \in Uids \ {u} : mem'[v] = mem[v] /\ (mem[v].tracked => (Brought(v) => Brought(v)')),
         pass # "incremental" => (mem'[u].tracked => Brought(u)') /\ (Live(live, u) => mem'[u].tracked)
  PROVE  PullInv'
<1>0. /\ UNCHANGED <<memo, pc, live>> /\ pc = pass /\ todoU' = todoU \ {u}
  BY PullRunRest
<1>1. \A v \in Uids : (Live(live, v) <=> Live(live', v)) /\ (Live(memo, v) <=> Live(memo', v))
  BY <1>0 DEF Live
<1>2. Listed' = Listed
  BY <1>1 DEF Listed
<1>3. todoU \subseteq Uids
  BY DEF TypeOK, RunOK
<1> USE DEF SafeInv, PullInv, Tracked
<1>4. pc' \in Pulling => \A v \in Uids : Live(live', v) => live'[v] = memo'[v]
  BY <1>0, <1>1
<1>5. pc' \in {"incremental", "adopt"} => todoU' \subseteq Listed'
  BY <1>0, <1>2
<1>6. pc' = "reconcile" => todoU' \subseteq Tracked(mem')
  BY <1>0, <1>3
<1>7. pc' \in {"reconcile", "adopt"} => \A v \in Uids : Live(memo', v) => Live(live', v)
  BY <1>0, <1>1
<1>8. pc' \in {"reconcile", "adopt"} =>
        \A v \in Tracked(mem') : (pc' = "reconcile" => v \notin todoU') => Brought(v)'
  BY <1>0
<1>9. pc' = "adopt" => todoU' = Listed' \ Tracked(mem')
  BY <1>0, <1>2 DEF Listed
<1> QED
  BY <1>4, <1>5, <1>6, <1>7, <1>8, <1>9

\* A document that is not handled keeps what was said of it.
LEMMA BroughtKept ==
  ASSUME NEW v, memo' = memo, mem'[v] = mem[v],
         file'[mem[v].path] = file[mem[v].path], side'[mem[v].path] = side[mem[v].path]
  PROVE  Brought(v) => Brought(v)'
  BY DEF Brought, Live

\* A document left as it is.
LEMMA PullKeepSafe ==
  ASSUME TypeOK, SafeInv, NEW pass \in Pulling, NEW u \in Uids, PullRun(pass, u), KeepAll,
         mem[u].tracked, pass # "incremental" => Brought(u)
  PROVE  SafeInv'
<1>0. /\ UNCHANGED <<memo, onServer, file, side, base, cmd, pc, docs, claim, live, todoP, cur, used,
                     unpushed, mem, removed>>
      /\ PhaseInv' /\ PushInv'
  BY PullRunRest DEF KeepAll, treeVars
<1> USE DEF SafeInv, At, Has, Stamping
<1>1. RecordInv' /\ PathInv'
  BY <1>0 DEF RecordInv, PathInv
<1>2. FileInv'
  BY <1>0 DEF FileInv
<1>3. SideInv' /\ StoodInv'
  BY <1>0 DEF SideInv, StoodInv, StoodBy
<1>4. PullInv'
  <2>1. \A v \in Uids : Brought(v) => Brought(v)'
    BY <1>0, BroughtKept
  <2> QED
    BY <1>0, <2>1, PullInvStep
<1>5. EditInv' /\ NoLocalEditLost'
  BY <1>0 DEF EditInv, NoLocalEditLost, InTree
<1> QED
  BY <1>0, <1>1, <1>2, <1>3, <1>4, <1>5

\* A document new to the checkout is written where no file is.
LEMMA ExportShape ==
  ASSUME TypeOK, SafeInv, NEW pass \in Pulling, NEW u \in Uids, PullRun(pass, u), Export(u),
         ~mem[u].tracked, Live(live, u), NEW new, new = memo[u].path
  PROVE  /\ UNCHANGED <<memo, onServer, side, base, cmd, pc, docs, claim, live, todoP, cur, used, unpushed>>
         /\ PhaseInv' /\ PushInv' /\ live[u] = memo[u] /\ new \in Paths /\ pc \in Pulling
         /\ \A v \in Uids \ {u} : v \in removed <=> v \in removed'
         /\ \A v \in Uids \ {u} : mem'[v] = mem[v]
         /\ mem'[u].tracked /\ mem'[u].path = new /\ mem'[u].hash = memo[u].body /\ ~mem'[u].conflict
         /\ \A q \in Paths \ {new} : file'[q] = file[q]
         /\ file'[new].present /\ file'[new].mark = u /\ file'[new].body = memo[u].body
         /\ memo[u].st # "none" /\ ~file[new].present /\ file[new].body = {}
         /\ \A v \in Uids : Has(v, new) => v = u
         /\ \A v \in Uids \ {u} : mem[v].tracked => mem[v].path \in Paths \ {new}
<1>0. /\ UNCHANGED <<memo, onServer, side, base, cmd, pc, docs, claim, live, todoP, cur, used, unpushed>>
      /\ PhaseInv' /\ PushInv' /\ live[u] = memo[u] /\ new \in Paths /\ pc \in Pulling
      /\ \A v \in Uids \ {u} : v \in removed <=> v \in removed'
  BY PullRunRest DEF Export
<1>1. /\ file' = [p \in Paths |-> IF p = new THEN FileOf(u, memo[u].body) ELSE file[p]]
      /\ mem' = [mem EXCEPT ![u] = Baseline(new, memo[u].body)]
  BY <1>0 DEF Export, Write, TypeOK, TreeOK
<1>2. /\ \A v \in Uids \ {u} : mem'[v] = mem[v]
      /\ mem'[u].tracked /\ mem'[u].path = new /\ mem'[u].hash = memo[u].body /\ ~mem'[u].conflict
      /\ \A q \in Paths \ {new} : file'[q] = file[q]
      /\ file'[new].present /\ file'[new].mark = u /\ file'[new].body = memo[u].body
  BY <1>0, <1>1 DEF TypeOK, StateOK, Baseline, FileOf
<1>3. memo[u].st # "none"
  BY <1>0 DEF Live
<1> USE DEF SafeInv, At, Has, Stamping
<1>4. ~file[new].present /\ file[new].body = {} /\ \A v \in Uids : Has(v, new) => v = u
  BY <1>0 DEF FileInv, PathInv, Pulling
<1>5. \A v \in Uids \ {u} : mem[v].tracked => mem[v].path \in Paths \ {new}
  BY <1>4 DEF RecordInv
<1> QED
  BY <1>0, <1>2, <1>3, <1>4, <1>5

LEMMA PullExportSafe ==
  ASSUME TypeOK, SafeInv, NEW pass \in Pulling, NEW u \in Uids, PullRun(pass, u), Export(u),
         ~mem[u].tracked, Live(live, u)
  PROVE  SafeInv'
<1> DEFINE new == memo[u].path
<1>0. /\ UNCHANGED <<memo, onServer, side, base, cmd, pc, docs, claim, live, todoP, cur, used, unpushed>>
      /\ PhaseInv' /\ PushInv' /\ live[u] = memo[u] /\ new \in Paths /\ pc \in Pulling
      /\ \A v \in Uids \ {u} : v \in removed <=> v \in removed'
  BY ExportShape
<1>2. /\ \A v \in Uids \ {u} : mem'[v] = mem[v]
      /\ mem'[u].tracked /\ mem'[u].path = new /\ mem'[u].hash = memo[u].body /\ ~mem'[u].conflict
      /\ \A q \in Paths \ {new} : file'[q] = file[q]
      /\ file'[new].present /\ file'[new].mark = u /\ file'[new].body = memo[u].body
  BY ExportShape
<1>3. memo[u].st # "none"
  BY ExportShape
<1>4. ~file[new].present /\ file[new].body = {} /\ \A v \in Uids : Has(v, new) => v = u
  BY ExportShape
<1>5. \A v \in Uids \ {u} : mem[v].tracked => mem[v].path \in Paths \ {new}
  BY ExportShape
<1> USE DEF SafeInv, At, Has, Stamping
<1> HIDE DEF new
<1>6. RecordInv'
  BY <1>0, <1>2, <1>3 DEF RecordInv, EditInv
<1>7. PathInv'
  <2>1. \A v \in Uids, p \in Paths : Has(v, p)' => Has(v, p)
    BY <1>0, <1>2 DEF new
  <2> QED
    BY <2>1 DEF PathInv
<1>8. FileInv'
  <2>1. \A v \in Uids, q \in Paths : /\ v = u => (At(v, q)' <=> q = new)
                                     /\ v # u => (At(v, q)' <=> At(v, q))
    BY <1>0, <1>2
  <2>2. ASSUME NEW q \in Paths \ {new}, file[q].present, NEW v \in Uids
        PROVE  (memo[v].path = q => At(v, q)') /\ (At(v, q)' => file[q].mark = v)
    <3>1. (memo[v].path = q => At(v, q)) /\ (At(v, q) => file[q].mark = v)
      BY <1>0, <2>2 DEF FileInv, Pulling
    <3> QED
      BY <1>0, <2>1, <3>1 DEF new
  <2>3. \A q \in Paths \ {new} : ~file[q].present => file[q].body = {}
    BY DEF FileInv
  <2>4. \A v \in Uids, q \in Paths : q = new =>
          (memo[v].path = q => v = u) /\ (At(v, q)' => v = u)
    BY <1>4, <2>1
  <2> QED
    BY <1>0, <1>2, <2>1, <2>2, <2>3, <2>4 DEF FileInv
<1>9. SideInv' /\ StoodInv'
  <2>1. SideInv'
    BY <1>0, <1>2 DEF SideInv
  <2>2. \E q \in Paths : StoodBy(u, q)'
    BY <1>0, <1>2 DEF StoodBy
  <2>3. \A v \in Uids, q \in Paths : StoodBy(v, q) => StoodBy(v, q)'
    BY <1>2, <1>4 DEF StoodBy
  <2>4. \A v \in Uids \ {u} : v \in removed => v \in removed'
    BY <1>0
  <2> QED
    BY <1>0, <1>2, <2>1, <2>2, <2>3, <2>4 DEF StoodInv
<1>10. PullInv'
  <2>1. \A v \in Uids \ {u} : mem[v].tracked => (Brought(v) => Brought(v)')
    BY <1>0, <1>2, <1>5, BroughtKept
  <2>2. Brought(u)'
    BY <1>0, <1>2 DEF Brought, Live, new
  <2> QED
    BY <1>2, <2>1, <2>2, PullInvStep
<1>11. EditInv'
  BY <1>0, <1>2 DEF EditInv
<1>12. NoLocalEditLost'
  <2>1. \A q \in Paths : file[q].body \subseteq file'[q].body
    BY <1>2, <1>4
  <2> QED
    BY <1>0, <2>1 DEF NoLocalEditLost, InTree
<1> QED
  BY <1>0, <1>6, <1>7, <1>8, <1>9, <1>10, <1>11, <1>12

\* A clean file is brought to the server's text, and to its path.
LEMMA RelocateShape ==
  ASSUME TypeOK, SafeInv, NEW pass \in Pulling, NEW u \in Uids, PullRun(pass, u), Relocate(u),
         mem[u].tracked, Live(live, u), LocalFile(u).present, ~Modified(u),
         NEW new, new = memo[u].path, NEW old, old = mem[u].path
  PROVE  /\ UNCHANGED <<memo, onServer, base, cmd, pc, docs, claim, live, todoP, cur, used, unpushed, removed>>
         /\ PhaseInv' /\ PushInv' /\ live[u] = memo[u] /\ new \in Paths /\ pc \in Pulling
         /\ \A v \in Uids \ {u} : mem'[v] = mem[v]
         /\ mem'[u].tracked /\ mem'[u].path = new /\ mem'[u].hash = memo[u].body /\ ~mem'[u].conflict
         /\ \A q \in Paths \ {new, old} : file'[q] = file[q] /\ side'[q] = side[q]
         /\ file'[new].present /\ file'[new].mark = u /\ file'[new].body = memo[u].body
         /\ old \in Paths /\ (old # new => ~file'[old].present /\ file'[old].body = {})
         /\ \A q \in {old, new} : side'[q].body = {}
         /\ memo[u].st # "none"
         /\ file[old].present /\ file[old].mark = u /\ file[old].body \subseteq onServer
         /\ (new # old => ~file[new].present /\ file[new].body = {})
         /\ \A v \in Uids : Has(v, new) \/ Has(v, old) => v = u
         /\ \A v \in Uids \ {u} : mem[v].tracked => mem[v].path \in Paths \ {new, old}
<1>0. /\ UNCHANGED <<memo, onServer, base, cmd, pc, docs, claim, live, todoP, cur, used, unpushed, removed>>
      /\ PhaseInv' /\ PushInv' /\ live[u] = memo[u] /\ new \in Paths /\ pc \in Pulling
  BY PullRunRest
<1> USE DEF SafeInv, At, Has, Stamping
<1>1. /\ file' = [p \in Paths |-> IF p = new THEN FileOf(u, memo[u].body)
                                  ELSE IF p = old THEN NoFile ELSE file[p]]
      /\ mem' = [mem EXCEPT ![u] = Baseline(new, memo[u].body)]
      /\ side' = [p \in Paths |-> IF p \in {old, new} THEN NoFile ELSE side[p]]
  BY <1>0 DEF Relocate, Write
<1>2. /\ \A v \in Uids \ {u} : mem'[v] = mem[v]
      /\ mem'[u].tracked /\ mem'[u].path = new /\ mem'[u].hash = memo[u].body /\ ~mem'[u].conflict
      /\ \A q \in Paths \ {new, old} : file'[q] = file[q] /\ side'[q] = side[q]
      /\ file'[new].present /\ file'[new].mark = u /\ file'[new].body = memo[u].body
      /\ old \in Paths /\ (old # new => ~file'[old].present /\ file'[old].body = {})
      /\ \A q \in {old, new} : side'[q].body = {}
  BY <1>0, <1>1 DEF TypeOK, StateOK, Baseline, FileOf, NoFile, RecordInv
<1>3. memo[u].st # "none"
  BY <1>0 DEF Live
<1>4. /\ file[old].present /\ file[old].mark = u /\ file[old].body \subseteq onServer
      /\ (new # old => ~file[new].present /\ file[new].body = {})
      /\ \A v \in Uids : Has(v, new) \/ Has(v, old) => v = u
  <2>1. file[old].present /\ file[old].mark = u /\ file[old].body \subseteq onServer
    BY DEF LocalFile, Modified, RecordInv, FileInv
  <2>2. new # old => ~file[new].present /\ file[new].body = {}
    BY <1>0 DEF FileInv, Pulling
  <2>3. \A v \in Uids : Has(v, new) \/ Has(v, old) => v = u
    BY <1>0, <1>2 DEF PathInv
  <2> QED
    BY <2>1, <2>2, <2>3
<1>5. \A v \in Uids \ {u} : mem[v].tracked => mem[v].path \in Paths \ {new, old}
  BY <1>4 DEF RecordInv
<1> QED
  BY <1>0, <1>2, <1>3, <1>4, <1>5

LEMMA PullRelocateSafe ==
  ASSUME TypeOK, SafeInv, NEW pass \in Pulling, NEW u \in Uids, PullRun(pass, u), Relocate(u),
         mem[u].tracked, Live(live, u), LocalFile(u).present, ~Modified(u)
  PROVE  SafeInv'
<1> DEFINE new == memo[u].path
           old == mem[u].path
<1>0. /\ UNCHANGED <<memo, onServer, base, cmd, pc, docs, claim, live, todoP, cur, used, unpushed, removed>>
      /\ PhaseInv' /\ PushInv' /\ live[u] = memo[u] /\ new \in Paths /\ pc \in Pulling
  BY RelocateShape, SMTT(60)
<1>2. /\ \A v \in Uids \ {u} : mem'[v] = mem[v]
      /\ mem'[u].tracked /\ mem'[u].path = new /\ mem'[u].hash = memo[u].body /\ ~mem'[u].conflict
      /\ \A q \in Paths \ {new, old} : file'[q] = file[q] /\ side'[q] = side[q]
      /\ file'[new].present /\ file'[new].mark = u /\ file'[new].body = memo[u].body
      /\ old \in Paths /\ (old # new => ~file'[old].present /\ file'[old].body = {})
      /\ \A q \in {old, new} : side'[q].body = {}
  BY RelocateShape, SMTT(60)
<1>3. memo[u].st # "none"
  BY RelocateShape
<1>4. /\ file[old].present /\ file[old].mark = u /\ file[old].body \subseteq onServer
      /\ (new # old => ~file[new].present /\ file[new].body = {})
      /\ \A v \in Uids : Has(v, new) \/ Has(v, old) => v = u
  BY RelocateShape
<1>5. \A v \in Uids \ {u} : mem[v].tracked => mem[v].path \in Paths \ {new, old}
  BY RelocateShape
<1> USE DEF SafeInv, At, Has, Stamping
<1>0a. new = memo[u].path /\ old = mem[u].path
  OBVIOUS
<1> HIDE DEF new, old
<1>6. RecordInv'
  BY <1>0, <1>2, <1>3 DEF RecordInv, EditInv
<1>7. PathInv'
  <2>1. \A v \in Uids, p \in Paths : Has(v, p)' => Has(v, p)
    BY <1>0, <1>0a, <1>2
  <2> QED
    BY <2>1 DEF PathInv
<1>8. FileInv'
  <2>1. \A v \in Uids, q \in Paths : /\ v = u => (At(v, q)' <=> q = new)
                                     /\ v # u => (At(v, q)' <=> At(v, q))
    BY <1>0, <1>2
  <2>2. ASSUME NEW q \in Paths \ {new, old}, file[q].present, NEW v \in Uids
        PROVE  (memo[v].path = q => At(v, q)') /\ (At(v, q)' => file[q].mark = v)
    <3>1. (memo[v].path = q => At(v, q)) /\ (At(v, q) => file[q].mark = v)
      BY <1>0, <2>2 DEF FileInv, Pulling
    <3> QED
      BY <1>0, <1>0a, <2>1, <3>1
  <2>3. \A q \in Paths \ {new, old} : ~file[q].present => file[q].body = {}
    BY DEF FileInv
  <2>4. \A v \in Uids, q \in Paths : q = new =>
          (memo[v].path = q => v = u) /\ (At(v, q)' => v = u)
    BY <1>4, <2>1
  <2> QED
    BY <1>0, <1>2, <2>1, <2>2, <2>3, <2>4 DEF FileInv
<1>9. SideInv' /\ StoodInv'
  <2>1. SideInv'
    BY <1>2, <1>5 DEF SideInv, RecordInv
  <2>2. \E q \in Paths : StoodBy(u, q)'
    BY <1>0, <1>2 DEF StoodBy
  <2>3. \A v \in Uids \ {u}, q \in Paths : StoodBy(v, q) => StoodBy(v, q)'
    BY <1>2, <1>4 DEF StoodBy
  <2> QED
    BY <1>0, <1>2, <2>1, <2>2, <2>3 DEF StoodInv
<1>10. PullInv'
  <2>1. \A v \in Uids \ {u} : mem[v].tracked => (Brought(v) => Brought(v)')
    BY <1>0, <1>2, <1>5, BroughtKept
  <2>2. Brought(u)'
    BY <1>0, <1>0a, <1>2 DEF Brought, Live
  <2> QED
    BY <1>2, <2>1, <2>2, PullInvStep
<1>11. EditInv'
  <2>1. \A q \in Paths : file'[q].body \cap Edits \subseteq used
    BY <1>2 DEF EditInv
  <2>2. \A q \in Paths : side'[q].body \subseteq onServer
    BY <1>2 DEF EditInv
  <2> QED
    BY <1>0, <2>1, <2>2 DEF EditInv
<1>12. NoLocalEditLost'
  <2>1. \A q \in Paths : file[q].body \subseteq file'[q].body \cup onServer
    BY <1>2, <1>4
  <2> QED
    BY <1>0, <2>1 DEF NoLocalEditLost, InTree, EditInv
<1> QED
  BY <1>0, <1>6, <1>7, <1>8, <1>9, <1>10, <1>11, <1>12

\* A modified file keeps its text and gets the server's beside it.
LEMMA PullFlagSafe ==
  ASSUME TypeOK, SafeInv, NEW pass \in Pulling, NEW u \in Uids, PullRun(pass, u), FlagConflict(u),
         mem[u].tracked, Live(live, u), Modified(u)
  PROVE  SafeInv'
<1> DEFINE old == mem[u].path
<1>0. /\ UNCHANGED <<memo, onServer, file, base, cmd, pc, docs, claim, live, todoP, cur, used, unpushed, removed>>
      /\ PhaseInv' /\ PushInv' /\ live[u] = memo[u] /\ pc \in Pulling
  BY PullRunRest DEF FlagConflict
<1> USE DEF SafeInv, At, Has, Stamping
<1>1. /\ side' = [side EXCEPT ![old] = FileOf(u, memo[u].body)]
      /\ mem' = [mem EXCEPT ![u] = Flag(@, memo[u].body)]
  BY <1>0 DEF FlagConflict
<1>2. /\ old \in Paths /\ file[old].present /\ file[old].body # mem[u].hash
      /\ \A v \in Uids \ {u} : mem[v].tracked => mem[v].path \in Paths \ {old}
  BY DEF Modified, LocalFile, RecordInv, PathInv
<1>3. /\ \A v \in Uids \ {u} : mem'[v] = mem[v]
      /\ (mem'[u].tracked <=> mem[u].tracked) /\ mem'[u].path = old /\ mem'[u].hash = mem[u].hash
      /\ mem'[u].conflict /\ mem'[u].chash = memo[u].body
  BY <1>1 DEF TypeOK, StateOK, Flag, Bases
<1>4. /\ \A q \in Paths \ {old} : side'[q] = side[q]
      /\ side'[old].present /\ side'[old].mark = u /\ side'[old].body = memo[u].body
  BY <1>1, <1>2 DEF TypeOK, TreeOK, FileOf
<1>0a. old = mem[u].path
  OBVIOUS
<1> HIDE DEF old
<1>6. RecordInv'
  BY <1>0, <1>0a, <1>3 DEF RecordInv
<1>7. PathInv'
  BY <1>0, <1>0a, <1>3 DEF PathInv
<1>8. FileInv'
  BY <1>0, <1>0a, <1>3 DEF FileInv
<1>9. SideInv' /\ StoodInv'
  BY <1>0, <1>2, <1>3, <1>4 DEF SideInv, StoodInv, StoodBy, RecordInv
<1>10. PullInv'
  <2>1. \A v \in Uids \ {u} : mem[v].tracked => (Brought(v) => Brought(v)')
    BY <1>0, <1>2, <1>3, <1>4, BroughtKept
  <2>2. Brought(u)'
    BY <1>0, <1>2, <1>3, <1>4 DEF Brought, Live
  <2> QED
    BY <1>3, <2>1, <2>2, PullInvStep
<1>11. EditInv'
  BY <1>0, <1>4 DEF EditInv
<1>12. NoLocalEditLost'
  BY <1>0 DEF NoLocalEditLost, InTree
<1> QED
  BY <1>0, <1>6, <1>7, <1>8, <1>9, <1>10, <1>11, <1>12

\* A document gone from the server goes from the checkout, if it is clean there.
LEMMA PullDropSafe ==
  ASSUME TypeOK, SafeInv, NEW pass \in Pulling, NEW u \in Uids, PullRun(pass, u),
         mem[u].tracked, ~Live(live, u), ~Modified(u),
         file' = [file EXCEPT ![mem[u].path] = NoFile], mem' = [mem EXCEPT ![u] = NoBase],
         UNCHANGED side
  PROVE  SafeInv'
<1> DEFINE old == mem[u].path
<1>0. /\ UNCHANGED <<memo, onServer, side, base, cmd, pc, docs, claim, live, todoP, cur, used, unpushed, removed>>
      /\ PhaseInv' /\ PushInv' /\ pc \in Pulling
  BY PullRunRest
<1> USE DEF SafeInv, At, Has, Stamping
<1>1. /\ old \in Paths
      /\ \A v \in Uids \ {u} : mem[v].tracked => mem[v].path \in Paths \ {old}
      /\ \A v \in Uids : memo[v].path = old => v = u
  BY DEF RecordInv, PathInv
<1>2. file[old].body \subseteq onServer /\ (file[old].present => file[old].mark = u)
  BY <1>1 DEF Modified, LocalFile, RecordInv, EditInv, FileInv
<1>3. /\ \A v \in Uids \ {u} : mem'[v] = mem[v]
      /\ ~mem'[u].tracked /\ ~mem'[u].conflict
      /\ \A q \in Paths \ {old} : file'[q] = file[q]
      /\ ~file'[old].present /\ file'[old].body = {}
  BY <1>1 DEF TypeOK, StateOK, TreeOK, NoBase, NoFile
<1>0a. old = mem[u].path
  OBVIOUS
<1> HIDE DEF old
<1>6. RecordInv'
  BY <1>0, <1>3 DEF RecordInv
<1>7. PathInv'
  BY <1>0, <1>3 DEF PathInv
<1>8. FileInv'
  BY <1>0, <1>0a, <1>3 DEF FileInv, Pulling
<1>9. SideInv' /\ StoodInv'
  BY <1>0, <1>1, <1>2, <1>3 DEF SideInv, StoodInv, StoodBy
<1>10. PullInv'
  <2>1. \A v \in Uids \ {u} : mem[v].tracked => (Brought(v) => Brought(v)')
    BY <1>0, <1>1, <1>3, BroughtKept
  <2> QED
    BY <1>3, <2>1, PullInvStep
<1>11. EditInv'
  BY <1>0, <1>3 DEF EditInv
<1>12. NoLocalEditLost'
  <2>1. \A q \in Paths : file[q].body \subseteq file'[q].body \cup onServer
    BY <1>2, <1>3
  <2> QED
    BY <1>0, <2>1 DEF NoLocalEditLost, InTree, EditInv
<1> QED
  BY <1>0, <1>6, <1>7, <1>8, <1>9, <1>10, <1>11, <1>12

\* The re-stamping finds the files on record with their markers.
LEMMA StampsKeep ==
  ASSUME TypeOK, SafeInv, PullEnd
  PROVE  \A p \in Paths : /\ file'[p].present = file[p].present /\ file'[p].body = file[p].body
                          /\ file'[p].mark = file[p].mark
<1>1. PICK stamp \in [Paths -> Uids \cup {NoUid}] :
        /\ \A p \in Paths : stamp[p] \in Stamps(p)
        /\ file' = [p \in Paths |-> [file[p] EXCEPT !.mark = stamp[p]]]
  BY DEF PullEnd
<1>2. \A p \in Paths : /\ file'[p].present = file[p].present /\ file'[p].body = file[p].body
                       /\ file'[p].mark = stamp[p]
  BY <1>1 DEF TypeOK, TreeOK, Files
<1>3. \A p \in Paths : stamp[p] = file[p].mark
  BY <1>1 DEF Stamps, Tracked, SafeInv, FileInv, At
<1> QED
  BY <1>2, <1>3

LEMMA PullEndSafe ==
  ASSUME TypeOK, SafeInv, PullEnd
  PROVE  SafeInv'
<1>0. /\ UNCHANGED <<memo, onServer, side, used, unpushed, removed, mem>>
      /\ pc = "adopt" /\ cmd' = "idle" /\ pc' = "idle" /\ base' = mem'
  BY DEF PullEnd, EndRun, ghostVars
<1>2. \A p \in Paths : /\ file'[p].present = file[p].present /\ file'[p].body = file[p].body
                       /\ file'[p].mark = file[p].mark
  BY StampsKeep
<1> USE DEF SafeInv, At, Has, Stamping
<1>4. PhaseInv'
  BY <1>0 DEF PhaseInv
<1>5. RecordInv' /\ PathInv'
  BY <1>0 DEF RecordInv, PathInv
<1>6. FileInv'
  BY <1>0, <1>2 DEF FileInv
<1>7. SideInv' /\ StoodInv'
  BY <1>0, <1>2 DEF SideInv, StoodInv, StoodBy
<1>8. PushInv' /\ PullInv'
  BY <1>0 DEF PushInv, PullInv, Pulling
<1>9. EditInv'
  BY <1>0, <1>2 DEF EditInv
<1>10. NoLocalEditLost'
  BY <1>0, <1>2 DEF NoLocalEditLost, InTree
<1> QED
  BY <1>4, <1>5, <1>6, <1>7, <1>8, <1>9, <1>10

\* Every step of a pull preserves the invariant.
LEMMA PullSafe == TypeOK /\ SafeInv /\ Pull => SafeInv'
<1> SUFFICES ASSUME TypeOK, SafeInv, Pull PROVE SafeInv'
  OBVIOUS
<1>0. \A u \in Uids : u \in Listed <=> Live(live, u)
  BY DEF Listed
<1>1. ASSUME NEW u \in Uids, PullIncremental(u) PROVE SafeInv'
  <2>1. PullRun("incremental", u) /\ u \in todoU /\ "incremental" \in Pulling
    BY <1>1 DEF PullIncremental, FirstU, Pulling
  <2>2. Live(live, u)
    BY <1>0, <2>1 DEF PullRun, SafeInv, PullInv
  <2>3. \/ ~mem[u].tracked /\ Export(u)
        \/ mem[u].tracked /\ KeepAll
        \/ mem[u].tracked /\ Modified(u) /\ FlagConflict(u)
        \/ mem[u].tracked /\ LocalFile(u).present /\ ~Modified(u) /\ Relocate(u)
    BY <1>1 DEF PullIncremental, Settled
  <2> QED
    BY <2>1, <2>2, <2>3, PullExportSafe, PullKeepSafe, PullFlagSafe, PullRelocateSafe
<1>2. ASSUME NEW u \in Uids, PullReconcile(u) PROVE SafeInv'
  <2>1. PullRun("reconcile", u) /\ u \in todoU /\ "reconcile" \in Pulling
    BY <1>2 DEF PullReconcile, Pulling
  <2>2. mem[u].tracked
    BY <2>1 DEF PullRun, SafeInv, PullInv, Tracked
  <2>3. (Live(live, u) => live[u] = memo[u]) /\ (Live(memo, u) <=> Live(live, u))
    BY <2>1, PullRunRest DEF PullRun, SafeInv, PullInv, Live
  <2>4. \/ ~Live(live, u) /\ Modified(u) /\ KeepAll
        \/ /\ ~Live(live, u) /\ ~Modified(u)
           /\ file' = [file EXCEPT ![mem[u].path] = NoFile] /\ mem' = [mem EXCEPT ![u] = NoBase]
           /\ UNCHANGED side
        \/ Live(live, u) /\ Settled(u) /\ KeepAll
        \/ Live(live, u) /\ LocalFile(u).present /\ ~Modified(u) /\ Relocate(u)
        \/ Live(live, u) /\ Modified(u) /\ SameText(u) /\ KeepAll
        \/ Live(live, u) /\ Modified(u) /\ FlagConflict(u)
    BY <1>0, <1>2 DEF PullReconcile, Settled
  <2>5. ~Live(live, u) /\ Modified(u) => Brought(u)
    BY <2>3 DEF Brought, Modified, LocalFile
  <2>6. Live(live, u) /\ (Settled(u) \/ (Modified(u) /\ SameText(u))) => Brought(u)
    BY <2>3 DEF Brought, Settled, Modified, LocalFile, SameText, SamePath
  <2> QED
    BY <2>1, <2>2, <2>4, <2>5, <2>6, PullKeepSafe, PullDropSafe, PullFlagSafe, PullRelocateSafe
<1>3. ASSUME NEW u \in Uids, PullAdopt(u) PROVE SafeInv'
  <2>1. PullRun("adopt", u) /\ u \in todoU /\ Export(u) /\ "adopt" \in Pulling
    BY <1>3 DEF PullAdopt, FirstU, Pulling
  <2>2. Live(live, u)
    BY <1>0, <2>1 DEF PullRun, SafeInv, PullInv
  <2>3. ~mem[u].tracked
    BY <2>1 DEF PullRun, SafeInv, PullInv, Tracked
  <2> QED
    BY <2>1, <2>2, <2>3, PullExportSafe
<1> QED
  BY <1>1, <1>2, <1>3, PullStartSafe, PullPassSafe, PullEndSafe DEF Pull

-----------------------------------------------------------------------------
\* The invariant holds throughout.
LEMMA AlwaysSafe ==
  ASSUME Apart
  PROVE  Spec => [](TypeOK /\ SafeInv)
<1>1. TypeOK /\ SafeInv /\ [Next]_vars => SafeInv'
  <2>1. SafeInv /\ UNCHANGED vars => SafeInv'
    <3> SUFFICES ASSUME SafeInv, UNCHANGED vars PROVE SafeInv'
      OBVIOUS
    <3>0. UNCHANGED <<memo, file, side, base, cmd, pc, mem, docs, claim, live, todoP, todoU, cur,
                      used, unpushed, onServer, removed>>
      BY DEF vars, serverVars, treeVars, runVars, ghostVars
    <3> USE DEF At, Has, Stamping
    <3>1. PhaseInv' /\ RecordInv' /\ PathInv'
      BY <3>0 DEF SafeInv, PhaseInv, RecordInv, PathInv
    <3>2. FileInv' /\ SideInv' /\ StoodInv'
      BY <3>0 DEF SafeInv, FileInv, SideInv, StoodInv, StoodBy
    <3>3. PushInv'
      BY <3>0 DEF SafeInv, PushInv, ClaimInv, StoodBy
    <3>4. PullInv'
      BY <3>0 DEF SafeInv, PullInv, Listed, Tracked, Live, Brought
    <3>5. EditInv' /\ NoLocalEditLost'
      BY <3>0 DEF SafeInv, EditInv, NoLocalEditLost, InTree
    <3> QED
      BY <3>1, <3>2, <3>3, <3>4, <3>5 DEF SafeInv
  <2>2. TypeOK => ~Abort
    BY DEF Apart, TypeOK, NotesOK, Abort
  <2> QED
    BY <2>1, <2>2, WebSafe, UserSafe, PushSafe, PullSafe DEF Next
<1> QED
  BY InitSafe, <1>1, TypeCorrect, PTL DEF Spec

\* pull.go:325, and what push owes too: where the two sides keep apart, every
\* edit made at the checkout, not given up there and not yet on the server, is in
\* some file of the work tree.
THEOREM LocalEditsKept ==
  ASSUME Apart
  PROVE  Spec => []NoLocalEditLost
  BY AlwaysSafe, PTL DEF SafeInv

\* push.go:217: there, what push archives is a document whose file the person
\* took out of the work tree.
THEOREM ArchivesRemoved ==
  ASSUME Apart
  PROVE  Spec => ArchiveOnlyRemoved
<1>1. TypeOK /\ SafeInv /\ [Next]_vars =>
        [\A u \in Uids : (Live(memo, u) /\ ~Live(memo, u)' /\ mem'[u] # mem[u]) => u \in removed]_vars
  <2> SUFFICES ASSUME TypeOK, SafeInv, Next, NEW u \in Uids, Live(memo, u), ~Live(memo, u)', mem'[u] # mem[u]
               PROVE  u \in removed
    BY DEF vars
  <2>1. ASSUME NEW v \in Uids, PushArchive(v) PROVE u \in removed
    <3>1. v = u
      BY <2>1 DEF PushArchive, Live, TypeOK, ServerOK
    <3>2. mem[u].tracked /\ (\A p \in Paths : claim[p] # u) /\ ClaimInv
      BY <2>1, <3>1 DEF PushArchive, SafeInv, PushInv
    <3>3. \A p \in Paths : ~StoodBy(u, p)
      BY <3>2 DEF ClaimInv
    <3> QED
      BY <3>2, <3>3 DEF SafeInv, StoodInv
  <2>2. mem' # mem /\ memo' # memo
    BY DEF Live
  <2>3. ~Web /\ ~User /\ ~Pull /\ ~Abort
    <3>1. ~Web
      BY <2>2 DEF Web, WebEdit, WebCreate, WebRename, WebArchive, WebRestore, runVars
    <3>2. ~User
      BY <2>2 DEF User, UserEdit, UserCreate, UserDelete, UserMove, UserCopy, UserRevert, UserMerge,
                  UserTake, UserNote, serverVars
    <3>3. ~Pull
      BY <2>2 DEF Pull, PullStart, PullListing, PullReconciled, PullEnd, PullIncremental, PullReconcile,
                  PullAdopt, PullRun, serverVars
    <3>4. ~Abort
      BY <2>2 DEF Abort, serverVars
    <3> QED
      BY <3>1, <3>2, <3>3, <3>4
  <2>4. Push
    BY <2>3 DEF Next
  <2>5. ~PushStart /\ ~PushDocsDone /\ ~PushEnd
    BY <2>2 DEF PushStart, PushDocsDone, PushEnd, serverVars
  <2>6. ASSUME NEW p \in Paths, NEW v \in Uids \cup {NoUid} PROVE ~PushRefused(p, v)
    BY <2>2 DEF PushRefused, serverVars
  <2>7. ASSUME NEW p \in Paths, NEW v \in Uids
        PROVE  ~PushStamp(p, v) /\ ~PushOrphan(p, v) /\ ~PushNothing(p, v) /\ ~PushConflict(p, v)
               /\ ~PushGet(p, v) /\ ~PushReply(p, v) /\ ~PushCreate(p, v) /\ ~PushUpdate(p, v)
    BY <2>2 DEF PushStamp, PushOrphan, PushNothing, PushConflict, PushGet, PushReply,
                PushCreate, PushUpdate, serverVars
  <2>8. ASSUME NEW p \in Paths, NEW v \in Uids, PushMove(p, v) PROVE memo'[u].st = memo[u].st
    BY <2>8 DEF PushMove, TypeOK, ServerOK, Memos
  <2> QED
    BY <2>1, <2>4, <2>5, <2>6, <2>7, <2>8 DEF Push, Live
<1> QED
  BY AlwaysSafe, <1>1, PTL DEF Spec, ArchiveOnlyRemoved

\* There, a completed pull leaves every live document tracked, and its file
\* either in step with the server or carrying unpushed work.
THEOREM PullsReconcile ==
  ASSUME Apart
  PROVE  Spec => PullReconciles
<1>1. TypeOK /\ SafeInv /\ [Next]_vars =>
        [(cmd = "pull" /\ cmd' = "idle" /\ aborts' = aborts) => \A u \in Uids : Reconciled(u)]_vars
  <2> SUFFICES ASSUME TypeOK, SafeInv, Next, cmd = "pull", cmd' = "idle", aborts' = aborts, NEW u \in Uids
               PROVE  Reconciled(u)
    BY DEF vars
  <2>1. PullEnd
    <3>1. ~Web /\ ~User /\ ~Push /\ ~Abort
      <4>1. ~Web
        BY DEF Web, WebEdit, WebCreate, WebRename, WebArchive, WebRestore, runVars
      <4>2. ~User
        BY DEF User, UserEdit, UserCreate, UserDelete, UserMove, UserCopy, UserRevert, UserMerge,
               UserTake, UserMay
      <4>3. ~Push
        BY DEF Push, PushStart, PushDocsDone, PushEnd, PushArchive, PushRefused, PushCreate, PushStamp,
               PushOrphan, PushMove, PushNothing, PushConflict, PushGet, PushUpdate, PushReply, PushAt,
               ContentAt
      <4>4. ~Abort
        BY DEF Abort, TypeOK, NotesOK
      <4> QED
        BY <4>1, <4>2, <4>3, <4>4
    <3> QED
      BY <3>1 DEF Next, Pull, PullStart, PullListing, PullReconciled, PullIncremental, PullReconcile,
                  PullAdopt, PullRun
  <2>2. /\ pc = "adopt" /\ todoU = {} /\ base' = mem /\ UNCHANGED <<memo, side>>
        /\ \A p \in Paths : file'[p].present = file[p].present /\ file'[p].body = file[p].body
    BY <2>1 DEF PullEnd, TypeOK, TreeOK, Files
  <2>3. Live(memo, u) => mem[u].tracked
    BY <2>2 DEF SafeInv, PullInv, Listed, Tracked
  <2>4. mem[u].tracked => mem[u].path \in Paths /\ Brought(u)
    BY <2>2 DEF SafeInv, PullInv, Tracked, RecordInv
  <2> QED
    BY <2>2, <2>3, <2>4 DEF Reconciled, Brought
<1> QED
  BY AlwaysSafe, <1>1, PTL DEF Spec, PullReconciles

-----------------------------------------------------------------------------
(***************************************************************************)
(* The server's edits.  A push of a document that was moved takes the text *)
(* the server holds for its own (MCMemogit_move_overwrites), and an update *)
(* overwrites a text it no longer is compared with: here no file changes   *)
(* its place under its marker, be it by a move or by a copy and the        *)
(* removal of the original, and the web leaves an update alone.            *)
(***************************************************************************)
Unmoved ==
  /\ Apart /\ "move" \notin UserOps /\ ("copy" \in UserOps => "delete" \notin UserOps)
  /\ WebWhen \subseteq {"idle", "doc", "stamp", "content", "archive"}

\* What is on record as known to the checkout is still in the server's text.
GrownInv == \A u \in Uids :
  /\ memo[u].st = "none" => memo[u].body = {}
  /\ mem[u].tracked => /\ mem[u].hash \subseteq memo[u].body
                       /\ mem[u].conflict => mem[u].chash \subseteq memo[u].body

\* It is in the file too; of a conflict, in its sidecar while that is there.
KeptInv == \A u \in Uids : mem[u].tracked =>
  LET b == mem[u]   f == file[b.path]   s == side[b.path] IN
  /\ b.conflict /\ s.present => b.chash \subseteq s.body
  /\ f.present => IF b.conflict THEN s.present \/ b.chash \subseteq f.body ELSE b.hash \subseteq f.body

\* No document on record has only a file elsewhere.
OwnInv ==
  /\ "copy" \notin UserOps => \A u \in Uids, p \in Paths : StoodBy(u, p) => At(u, p)
  /\ "copy" \in UserOps => \A u \in Uids : mem[u].tracked => file[mem[u].path].present

\* An update adds to the server's text, and its answer is what was sent.
StageInv ==
  /\ pc # "content"
  /\ pc = "stamp"  => docs[cur].body \subseteq memo[claim[cur]].body
  /\ pc = "update" => memo[claim[cur]].body \subseteq docs[cur].body
  /\ pc = "reply"  => memo[claim[cur]].body = docs[cur].body

KnownInv == GrownInv /\ KeptInv /\ OwnInv /\ StageInv /\ NoServerEditLost

\* Nothing is lost where every text grows and holds what comes to the server.
LEMMA Growing ==
  ASSUME NoServerEditLost, \A u \in Uids : memo[u].body \subseteq memo'[u].body,
         \A e \in onServer' : e \in onServer \/ \E u \in Uids : e \in memo'[u].body
  PROVE  NoServerEditLost'
  BY DEF NoServerEditLost

\* A step that changes neither the server's texts nor the record, the tree or
\* the document a push is at.
LEMMA KnownStill ==
  ASSUME KnownInv, UNCHANGED <<memo, onServer, file, side, mem>>,
         pc' # "content" /\ pc' \notin {"stamp", "update", "reply"}
  PROVE  KnownInv'
<1>1. GrownInv' /\ KeptInv' /\ OwnInv'
  BY DEF KnownInv, GrownInv, KeptInv, OwnInv, StoodBy, At
<1>2. StageInv' /\ NoServerEditLost'
  BY DEF KnownInv, StageInv, NoServerEditLost
<1> QED
  BY <1>1, <1>2 DEF KnownInv

\* A web user's step: no text shrinks, and none while an update is on its way.
LEMMA WebKnownRest ==
  ASSUME Unmoved, TypeOK, SafeInv, KnownInv, NEW op, WebMay(op),
         UNCHANGED <<treeVars, runVars>>,
         \A v \in Uids : /\ memo[v].body \subseteq memo'[v].body
                         /\ memo'[v].st = "none" => memo'[v].body = {},
         \A e \in onServer' : e \in onServer \/ \E v \in Uids : e \in memo'[v].body
  PROVE  KnownInv'
<1>0. UNCHANGED <<file, side, mem, pc, docs, claim, cur>> /\ pc \notin {"update", "reply"}
  BY DEF treeVars, runVars, Unmoved, WebMay
<1> USE DEF KnownInv
<1>1. GrownInv'
  BY <1>0 DEF GrownInv
<1>2. KeptInv' /\ OwnInv'
  BY <1>0 DEF KeptInv, OwnInv, StoodBy, At
<1>3. StageInv'
  <2>1. pc = "stamp" => claim[cur] \in Uids
    BY DEF SafeInv, PushInv
  <2> QED
    BY <1>0, <2>1 DEF StageInv
<1>4. NoServerEditLost'
  BY Growing
<1> QED
  BY <1>1, <1>2, <1>3, <1>4

LEMMA WebKnown ==
  ASSUME Unmoved, TypeOK, SafeInv, KnownInv, Web
  PROVE  KnownInv'
<1>1. ASSUME NEW u \in Uids, WebEdit(u) PROVE KnownInv'
  <2>1. PICK e \in Edits : memo' = [memo EXCEPT ![u].body = @ \cup {e}] /\ onServer' = onServer \cup {e}
    BY <1>1 DEF WebEdit
  <2>2. /\ memo'[u].body = memo[u].body \cup {e}
        /\ \A v \in Uids : memo'[v].st = memo[v].st
        /\ \A v \in Uids \ {u} : memo'[v] = memo[v]
    BY <2>1 DEF TypeOK, ServerOK, Memos
  <2>3. memo[u].st = "live" /\ WebMay("edit") /\ UNCHANGED <<treeVars, runVars>>
    BY <1>1 DEF WebEdit, Live
  <2>4. \A v \in Uids : /\ memo[v].body \subseteq memo'[v].body
                        /\ memo'[v].st = "none" => memo'[v].body = {}
    BY <2>2, <2>3 DEF KnownInv, GrownInv
  <2> QED
    BY <2>1, <2>2, <2>3, <2>4, WebKnownRest
<1>2. ASSUME NEW u \in Uids, NEW p \in Paths, WebCreate(u, p) PROVE KnownInv'
  <2>1. PICK e \in Edits : /\ memo' = [memo EXCEPT ![u] = [st |-> "live", path |-> p, body |-> {e}]]
                           /\ onServer' = onServer \cup {e}
    BY <1>2 DEF WebCreate
  <2>2. /\ memo'[u].st = "live" /\ memo'[u].body = {e}
        /\ \A v \in Uids \ {u} : memo'[v] = memo[v]
    BY <2>1 DEF TypeOK, ServerOK
  <2>3. memo[u].st = "none" /\ WebMay("create") /\ UNCHANGED <<treeVars, runVars>>
    BY <1>2 DEF WebCreate, NextUid
  <2>4. \A v \in Uids : /\ memo[v].body \subseteq memo'[v].body
                        /\ memo'[v].st = "none" => memo'[v].body = {}
    BY <2>2, <2>3 DEF KnownInv, GrownInv
  <2> QED
    BY <2>1, <2>2, <2>3, <2>4, WebKnownRest
<1>3. ASSUME NEW u \in Uids, WebArchive(u) \/ WebRestore(u) \/ \E p \in Paths : WebRename(u, p)
      PROVE  KnownInv'
  <2>1. /\ UNCHANGED <<treeVars, runVars, onServer>>
        /\ \E op : WebMay(op)
    BY <1>3 DEF WebArchive, WebRestore, WebRename
  <2>2. \A v \in Uids : memo'[v].body = memo[v].body /\ (memo'[v].st = "none" => memo[v].st = "none")
    BY <1>3 DEF WebArchive, WebRestore, WebRename, TypeOK, ServerOK, Memos
  <2>3. \A v \in Uids : /\ memo[v].body \subseteq memo'[v].body
                        /\ memo'[v].st = "none" => memo'[v].body = {}
    BY <2>2 DEF KnownInv, GrownInv
  <2> QED
    BY <2>1, <2>3, WebKnownRest
<1> QED
  BY <1>1, <1>2, <1>3 DEF Web

\* The person at the checkout changes neither the server nor the record.
LEMMA UserKnownRest ==
  ASSUME TypeOK, SafeInv, KnownInv, UserNote, cmd = "idle", KeptInv', OwnInv'
  PROVE  KnownInv'
<1>1. UNCHANGED <<memo, onServer, mem, pc>> /\ pc = "idle"
  BY DEF UserNote, serverVars, runVars, SafeInv, PhaseInv
<1>2. GrownInv' /\ StageInv' /\ NoServerEditLost'
  BY <1>1 DEF KnownInv, GrownInv, StageInv, NoServerEditLost
<1> QED
  BY <1>2 DEF KnownInv

LEMMA UserKnown ==
  ASSUME Unmoved, TypeOK, SafeInv, KnownInv, User
  PROVE  KnownInv'
<1> USE DEF StoodBy, At
<1>0. cmd = "idle" /\ UserNote /\ UNCHANGED mem /\ base = mem
  BY DEF User, UserEdit, UserCreate, UserDelete, UserMove, UserCopy, UserRevert, UserMerge, UserTake,
         UserMay, UserNote, runVars, SafeInv, PhaseInv
<1>a. /\ mem \in [Uids -> Bases] /\ file \in [Paths -> Files] /\ side \in [Paths -> Files]
      /\ \A u \in Uids : mem[u].tracked => mem[u].path \in Paths
      /\ \A u \in Uids : mem[u].conflict => mem[u].tracked
      /\ \A u, v \in Uids : mem[u].tracked /\ mem[v].tracked /\ mem[u].path = mem[v].path => u = v
  BY DEF TypeOK, StateOK, TreeOK, SafeInv, RecordInv, PathInv, Has
<1>b. KeptInv /\ OwnInv
  BY DEF KnownInv
<1>1. ASSUME NEW p \in Paths, UserEdit(p) PROVE KeptInv' /\ OwnInv'
  <2>1. /\ \A q \in Paths : /\ file'[q].present = file[q].present /\ file'[q].mark = file[q].mark
                            /\ file[q].body \subseteq file'[q].body
        /\ side' = side
    BY <1>1, <1>a DEF UserEdit, Files
  <2> QED
    BY <1>0, <1>a, <1>b, <2>1 DEF KeptInv, OwnInv
<1>2. ASSUME NEW p \in Paths, UserCreate(p) PROVE KeptInv' /\ OwnInv'
  <2>1. /\ file'[p].present /\ file'[p].mark = NoUid /\ side' = side
        /\ \A q \in Paths \ {p} : file'[q] = file[q]
        /\ \A u \in Uids : mem[u].path # p
    BY <1>0, <1>2, <1>a DEF UserCreate, FileOf, Untracked
  <2> QED
    BY <1>0, <1>a, <1>b, <2>1, UidsAssumption DEF KeptInv, OwnInv
<1>3. ASSUME NEW p \in Paths, UserDelete(p) PROVE KeptInv' /\ OwnInv'
  <2>1. /\ ~file'[p].present /\ side' = side /\ "copy" \notin UserOps
        /\ \A q \in Paths \ {p} : file'[q] = file[q]
    BY <1>3, <1>a DEF UserDelete, UserMay, NoFile, Unmoved
  <2> QED
    BY <1>0, <1>a, <1>b, <2>1 DEF KeptInv, OwnInv
<1>4. ASSUME NEW p \in Paths, NEW q \in Paths, UserMove(p, q) PROVE FALSE
  BY <1>4 DEF UserMove, UserMay, Unmoved
<1>5. ASSUME NEW p \in Paths, NEW q \in Paths, UserCopy(p, q) PROVE KeptInv' /\ OwnInv'
  <2>1. /\ "copy" \in UserOps /\ side' = side
        /\ \A r \in Paths \ {q} : file'[r] = file[r]
        /\ \A u \in Uids : mem[u].path # q
    BY <1>0, <1>5, <1>a DEF UserCopy, UserMay, Untracked
  <2> QED
    BY <1>0, <1>a, <1>b, <2>1 DEF KeptInv, OwnInv
<1>6. ASSUME NEW u \in Uids, UserRevert(u) PROVE KeptInv' /\ OwnInv'
  <2>1. /\ mem[u].tracked /\ (mem[u].conflict => side[mem[u].path].present) /\ side' = side
        /\ \A q \in Paths : file'[q].present = file[q].present /\ file'[q].mark = file[q].mark
        /\ \A q \in Paths \ {mem[u].path} : file'[q] = file[q]
        /\ file'[mem[u].path].body = mem[u].hash
    BY <1>0, <1>6, <1>a DEF UserRevert, Files
  <2> QED
    BY <1>0, <1>a, <1>b, <2>1 DEF KeptInv, OwnInv
<1>7. ASSUME NEW p \in Paths, UserMerge(p) PROVE KeptInv' /\ OwnInv'
  <2>1. PICK u \in Uids : mem[u].conflict /\ mem[u].path = p /\ side[p].present
    BY <1>0, <1>7 DEF UserMerge, Open
  <2>2. /\ \A q \in Paths : file'[q].present = file[q].present /\ file'[q].mark = file[q].mark
        /\ \A q \in Paths \ {p} : file'[q] = file[q] /\ side'[q] = side[q]
        /\ file'[p].body = file[p].body \cup side[p].body /\ ~side'[p].present
    BY <1>7, <1>a DEF UserMerge, Files, NoFile
  <2> QED
    BY <1>0, <1>a, <1>b, <2>1, <2>2 DEF KeptInv, OwnInv
<1>8. ASSUME NEW p \in Paths, UserTake(p) PROVE KeptInv' /\ OwnInv'
  <2>1. PICK u \in Uids : mem[u].conflict /\ mem[u].path = p /\ side[p].present
    BY <1>0, <1>8 DEF UserTake, Open
  <2>2. /\ \A q \in Paths \ {p} : file'[q] = file[q] /\ side'[q] = side[q]
        /\ file'[p] = side[p] /\ ~side'[p].present
    BY <1>8, <1>a DEF UserTake, NoFile
  <2>3. side[p].mark = u
    BY <2>1 DEF SafeInv, SideInv
  <2> QED
    BY <1>0, <1>a, <1>b, <2>1, <2>2, <2>3 DEF KeptInv, OwnInv
<1> QED
  BY <1>0, <1>1, <1>2, <1>3, <1>4, <1>5, <1>6, <1>7, <1>8, UserKnownRest DEF User

\* A push finds each document where it is recorded.
LEMMA PushOwn ==
  ASSUME TypeOK, SafeInv, KnownInv, NEW p \in Paths, NEW u \in Uids, cmd = "push", claim[p] = u,
         ~Stamping(u, p)
  PROVE  At(u, p)
<1>1. ClaimInv /\ StoodBy(u, p) /\ mem[u].tracked /\ mem[u].path \in Paths
  BY DEF SafeInv, PushInv, ClaimInv, RecordInv
<1>2. CASE "copy" \in UserOps
  <2>1. file[mem[u].path].present /\ At(u, mem[u].path)
    BY <1>1, <1>2 DEF KnownInv, OwnInv, At
  <2>2. claim[mem[u].path] = u
    BY <1>1, <2>1 DEF ClaimInv
  <2> QED
    BY <1>1, <2>1, <2>2 DEF ClaimInv
<1>3. CASE "copy" \notin UserOps
  BY <1>1, <1>3 DEF KnownInv, OwnInv
<1> QED
  BY <1>2, <1>3

\* So none is moved.
LEMMA PushNoMove ==
  ASSUME TypeOK, SafeInv, KnownInv, NEW p \in Paths, NEW u \in Uids
  PROVE  ~PushMove(p, u)
<1> SUFFICES ASSUME PushMove(p, u) PROVE FALSE
  OBVIOUS
<1>1. cmd = "push" /\ pc = "doc" /\ claim[p] = u /\ mem[u].path # p
  BY DEF PushMove, PushAt
<1> QED
  BY <1>1, PushOwn DEF Stamping, At

LEMMA PushConflictKnown ==
  ASSUME TypeOK, SafeInv, KnownInv, NEW p \in Paths, NEW u \in Uids, PushConflict(p, u)
  PROVE  KnownInv'
<1>0. /\ UNCHANGED <<memo, onServer, file>> /\ pc' = "doc" /\ ContentAt(p, u)
      /\ side' = [side EXCEPT ![p] = FileOf(u, memo[u].body)]
      /\ mem' = [mem EXCEPT ![u] = Flag(@, memo[u].body)]
  BY DEF PushConflict, NextDoc, serverVars
<1>1. At(u, p) /\ \A v \in Uids : At(v, p) => v = u
  BY <1>0, ContentHere
<1>2. /\ \A v \in Uids \ {u} : mem'[v] = mem[v]
      /\ mem'[u].tracked = mem[u].tracked /\ mem'[u].path = mem[u].path /\ mem'[u].hash = mem[u].hash
      /\ mem'[u].conflict /\ mem'[u].chash = memo[u].body
      /\ side'[p].present /\ side'[p].body = memo[u].body
      /\ \A q \in Paths \ {p} : side'[q] = side[q]
  BY <1>0 DEF TypeOK, StateOK, TreeOK, Flag, Bases, FileOf
<1>3. \A v \in Uids : mem[v].tracked => mem[v].path \in Paths
  BY DEF SafeInv, RecordInv
<1> USE DEF KnownInv, At, StoodBy
<1>4. GrownInv'
  BY <1>0, <1>2 DEF GrownInv
<1>5. KeptInv'
  BY <1>0, <1>1, <1>2, <1>3 DEF KeptInv
<1>6. OwnInv' /\ StageInv' /\ NoServerEditLost'
  BY <1>0, <1>2 DEF OwnInv, StageInv, NoServerEditLost
<1> QED
  BY <1>4, <1>5, <1>6

\* What the re-check saw is in the file.
LEMMA PushGetKnown ==
  ASSUME TypeOK, SafeInv, KnownInv, NEW p \in Paths, NEW u \in Uids, PushGet(p, u)
  PROVE  KnownInv'
<1>0. /\ UNCHANGED <<memo, onServer, file, side, mem, docs, claim>> /\ pc' = "update" /\ cur' = p
      /\ ContentAt(p, u) /\ ~Quiet(p, u) /\ memo[u].body = Expected(u)
  BY DEF PushGet, KeepRun, serverVars, treeVars
<1>1. cmd = "push" /\ pc = "doc" /\ FirstP(p) /\ claim[p] = u /\ At(u, p)
  BY <1>0, ContentHere DEF ContentAt, KnownInv, StageInv
<1>2. file[p].present /\ docs[p].body = file[p].body
  BY <1>1, PushHere
<1> USE DEF KnownInv, At, StoodBy
<1>3. memo[u].body \subseteq docs[p].body
  BY <1>0, <1>1, <1>2 DEF Quiet, Expected, KeptInv
<1>4. GrownInv' /\ KeptInv' /\ OwnInv'
  BY <1>0 DEF GrownInv, KeptInv, OwnInv
<1>5. StageInv' /\ NoServerEditLost'
  BY <1>0, <1>1, <1>3 DEF StageInv, NoServerEditLost
<1> QED
  BY <1>4, <1>5

LEMMA PushUpdateKnown ==
  ASSUME TypeOK, SafeInv, KnownInv, NEW p \in Paths, NEW u \in Uids, PushUpdate(p, u)
  PROVE  KnownInv'
<1>0. /\ UNCHANGED <<file, side, mem, docs, claim, cur>>
      /\ pc = "update" /\ cur = p /\ claim[p] = u /\ pc' = "reply"
      /\ memo' = [memo EXCEPT ![u].body = docs[p].body] /\ onServer' = onServer \cup docs[p].body
  BY DEF PushUpdate, KeepRun, treeVars
<1>1. /\ memo'[u].body = docs[p].body
      /\ \A v \in Uids : memo'[v].st = memo[v].st
      /\ \A v \in Uids \ {u} : memo'[v] = memo[v]
  BY <1>0 DEF TypeOK, ServerOK, Memos
<1> USE DEF KnownInv, At, StoodBy
<1>2. \A v \in Uids : memo[v].body \subseteq memo'[v].body
  BY <1>0, <1>1 DEF StageInv
<1>3. memo[u].st # "none"
  BY <1>0 DEF SafeInv, PushInv, RecordInv
<1>4. GrownInv'
  BY <1>0, <1>1, <1>2, <1>3 DEF GrownInv
<1>5. KeptInv' /\ OwnInv'
  BY <1>0 DEF KeptInv, OwnInv
<1>6. StageInv'
  BY <1>0, <1>1 DEF StageInv
<1>7. NoServerEditLost'
  BY <1>0, <1>1, <1>2, Growing
<1> QED
  BY <1>4, <1>5, <1>6, <1>7

LEMMA PushReplyKnown ==
  ASSUME TypeOK, SafeInv, KnownInv, NEW p \in Paths, NEW u \in Uids, PushReply(p, u)
  PROVE  KnownInv'
<1>0. /\ UNCHANGED <<memo, onServer, file, side>>
      /\ cmd = "push" /\ pc = "reply" /\ cur = p /\ claim[p] = u /\ pc' = "doc"
      /\ mem' = [mem EXCEPT ![u] = Baseline(p, memo[u].body)]
  BY DEF PushReply, NextDoc, serverVars, treeVars
<1>1. /\ \A v \in Uids \ {u} : mem'[v] = mem[v]
      /\ mem'[u].tracked /\ mem'[u].path = p /\ mem'[u].hash = memo[u].body /\ ~mem'[u].conflict
  BY <1>0 DEF TypeOK, StateOK, Baseline
<1> USE DEF KnownInv, At, StoodBy
<1>2. At(u, p) /\ docs[p].body = file[p].body
  BY <1>0 DEF SafeInv, PushInv
<1>3. memo[u].body = file[p].body
  BY <1>0, <1>2 DEF StageInv
<1>4. GrownInv'
  BY <1>0, <1>1 DEF GrownInv
<1>5. KeptInv'
  BY <1>0, <1>1, <1>3 DEF KeptInv
<1>6. OwnInv' /\ StageInv' /\ NoServerEditLost'
  BY <1>0, <1>1, <1>2 DEF OwnInv, StageInv, NoServerEditLost
<1> QED
  BY <1>4, <1>5, <1>6

LEMMA PushCreateKnown ==
  ASSUME TypeOK, SafeInv, KnownInv, NEW p \in Paths, NEW u \in Uids, PushCreate(p, u)
  PROVE  KnownInv'
<1>0. /\ UNCHANGED <<file, side, mem, docs>> /\ memo[u].st = "none"
      /\ memo' = [memo EXCEPT ![u] = [st |-> "live", path |-> p, body |-> docs[p].body]]
      /\ onServer' = onServer \cup docs[p].body
      /\ claim' = [claim EXCEPT ![p] = u] /\ pc' = "stamp" /\ cur' = p
  BY DEF PushCreate, KeepRun, NextUid, treeVars
<1>1. /\ memo'[u].st = "live" /\ memo'[u].body = docs[p].body
      /\ \A v \in Uids \ {u} : memo'[v] = memo[v]
      /\ claim'[p] = u
  BY <1>0 DEF TypeOK, ServerOK, RunOK
<1> USE DEF KnownInv, At, StoodBy
<1>2. ~mem[u].tracked /\ \A v \in Uids : memo[v].body \subseteq memo'[v].body
  BY <1>0, <1>1 DEF SafeInv, RecordInv, GrownInv
<1>3. GrownInv'
  BY <1>0, <1>1, <1>2 DEF GrownInv
<1>4. KeptInv' /\ OwnInv'
  BY <1>0 DEF KeptInv, OwnInv
<1>5. StageInv'
  BY <1>0, <1>1 DEF StageInv
<1>6. NoServerEditLost'
  BY <1>0, <1>1, <1>2, Growing
<1> QED
  BY <1>3, <1>4, <1>5, <1>6

LEMMA PushStampKnown ==
  ASSUME TypeOK, SafeInv, KnownInv, NEW p \in Paths, NEW u \in Uids, PushStamp(p, u)
  PROVE  KnownInv'
<1>0. /\ UNCHANGED <<memo, onServer, side>>
      /\ cmd = "push" /\ pc = "stamp" /\ cur = p /\ claim[p] = u /\ pc' = "doc"
      /\ mem' = [mem EXCEPT ![u] = Baseline(p, docs[p].body)]
      /\ file' = [file EXCEPT ![p] = FileOf(u, docs[p].body)]
  BY DEF PushStamp, NextDoc, serverVars
<1>1. /\ \A v \in Uids \ {u} : mem'[v] = mem[v]
      /\ mem'[u].tracked /\ mem'[u].path = p /\ mem'[u].hash = docs[p].body /\ ~mem'[u].conflict
      /\ \A q \in Paths \ {p} : file'[q] = file[q]
      /\ file'[p].present /\ file'[p].mark = u /\ file'[p].body = docs[p].body
  BY <1>0 DEF TypeOK, StateOK, TreeOK, Baseline, FileOf
<1> USE DEF KnownInv, At, StoodBy
<1>2. ~mem[u].tracked /\ docs[p].body \subseteq memo[u].body
  BY <1>0 DEF SafeInv, PushInv, StageInv
<1>3. \A v \in Uids : mem[v].tracked => mem[v].path \in Paths \ {p}
  <2>1. file[p].present /\ \A v \in Uids : At(v, p) => v = u
    BY <1>0 DEF SafeInv, PushInv, ClaimInv
  <2> QED
    BY <1>2, <2>1 DEF SafeInv, RecordInv
<1>4. GrownInv'
  BY <1>0, <1>1, <1>2 DEF GrownInv
<1>5. KeptInv'
  BY <1>0, <1>1, <1>3 DEF KeptInv
<1>6. OwnInv'
  BY <1>0, <1>1, <1>2, <1>3 DEF OwnInv
<1>7. StageInv' /\ NoServerEditLost'
  BY <1>0 DEF StageInv, NoServerEditLost
<1> QED
  BY <1>4, <1>5, <1>6, <1>7

LEMMA PushArchiveKnown ==
  ASSUME TypeOK, SafeInv, KnownInv, NEW u \in Uids, PushArchive(u)
  PROVE  KnownInv'
<1>0. /\ UNCHANGED <<onServer, file, side, pc>> /\ cmd = "push" /\ pc = "archive" /\ u \in todoU
      /\ mem' = [mem EXCEPT ![u] = NoBase]
      /\ memo' = memo \/ memo' = [memo EXCEPT ![u].st = "archived"]
  BY DEF PushArchive, treeVars
<1> USE DEF KnownInv, At, StoodBy
<1>1. memo[u].st # "none" /\ (\A p \in Paths : claim[p] # u) /\ ClaimInv /\ mem[u].tracked
  BY <1>0 DEF SafeInv, PushInv, RecordInv
<1>2. /\ ~mem'[u].tracked
      /\ \A v \in Uids \ {u} : mem'[v] = mem[v]
      /\ \A v \in Uids : memo'[v].body = memo[v].body /\ (memo'[v].st = "none" => memo[v].st = "none")
  BY <1>0, <1>1 DEF TypeOK, ServerOK, StateOK, Memos, NoBase
<1>3. GrownInv'
  BY <1>0, <1>2 DEF GrownInv
<1>4. KeptInv'
  BY <1>0, <1>2 DEF KeptInv
<1>5. OwnInv'
  <2>1. \A p \in Paths : ~StoodBy(u, p)
    BY <1>1 DEF ClaimInv
  <2> QED
    BY <1>0, <1>2, <2>1 DEF OwnInv
<1>6. StageInv'
  BY <1>0 DEF StageInv
<1>7. NoServerEditLost'
  BY <1>0, <1>2, Growing
<1> QED
  BY <1>3, <1>4, <1>5, <1>6, <1>7

LEMMA PushKnown ==
  ASSUME TypeOK, SafeInv, KnownInv, Push
  PROVE  KnownInv'
<1>1. ASSUME PushStart \/ PushDocsDone \/ PushEnd PROVE KnownInv'
  <2>1. UNCHANGED <<memo, onServer, file, side, mem>> /\ pc' \in {"doc", "archive", "idle"}
    BY <1>1 DEF PushStart, PushDocsDone, PushEnd, EndRun, serverVars, treeVars
  <2> QED
    BY <2>1, KnownStill
<1>2. ASSUME NEW p \in Paths, NEW u \in Uids, PushOrphan(p, u) \/ PushNothing(p, u)
      PROVE  KnownInv'
  <2>1. UNCHANGED <<memo, onServer, file, side, mem>> /\ pc' = "doc"
    BY <1>2 DEF PushOrphan, PushNothing, NextDoc, serverVars, treeVars
  <2> QED
    BY <2>1, KnownStill
<1> QED
  BY <1>1, <1>2, PushUnrefused, PushNoMove, PushConflictKnown, PushGetKnown, PushUpdateKnown,
     PushReplyKnown, PushCreateKnown, PushStampKnown, PushArchiveKnown DEF Push

\* Pull leaves the server alone: what is to be shown is what it does to the record and the tree.
LEMMA PullKnownRest ==
  ASSUME KnownInv, UNCHANGED <<memo, onServer, pc>>, pc \in Pulling, GrownInv', KeptInv', OwnInv'
  PROVE  KnownInv'
  BY DEF KnownInv, StageInv, NoServerEditLost, Pulling

LEMMA PullExportKnown ==
  ASSUME TypeOK, SafeInv, KnownInv, NEW pass \in Pulling, NEW u \in Uids, PullRun(pass, u), Export(u),
         ~mem[u].tracked, Live(live, u)
  PROVE  KnownInv'
<1>1. PICK new \in Paths :
        /\ UNCHANGED <<memo, onServer, side, pc>> /\ pc \in Pulling
        /\ \A v \in Uids \ {u} : mem'[v] = mem[v]
        /\ mem'[u].tracked /\ mem'[u].path = new /\ mem'[u].hash = memo[u].body /\ ~mem'[u].conflict
        /\ \A q \in Paths \ {new} : file'[q] = file[q]
        /\ file'[new].present /\ file'[new].mark = u /\ file'[new].body = memo[u].body
        /\ \A v \in Uids \ {u} : mem[v].tracked => mem[v].path \in Paths \ {new}
  <2> DEFINE new == memo[u].path
  <2> new \in Paths
    BY ExportShape
  <2> WITNESS new \in Paths
  <2> QED
    BY ExportShape
<1> USE DEF KnownInv, At, StoodBy
<1>2. GrownInv'
  BY <1>1 DEF GrownInv
<1>3. KeptInv'
  BY <1>1 DEF KeptInv
<1>4. OwnInv'
  BY <1>1 DEF OwnInv
<1> QED
  BY <1>1, <1>2, <1>3, <1>4, PullKnownRest

LEMMA PullRelocateKnown ==
  ASSUME TypeOK, SafeInv, KnownInv, NEW pass \in Pulling, NEW u \in Uids, PullRun(pass, u), Relocate(u),
         mem[u].tracked, Live(live, u), LocalFile(u).present, ~Modified(u)
  PROVE  KnownInv'
<1>1. PICK new \in Paths, old \in Paths :
        /\ UNCHANGED <<memo, onServer, pc>> /\ pc \in Pulling /\ mem[u].path = old
        /\ \A v \in Uids \ {u} : mem'[v] = mem[v]
        /\ mem'[u].tracked /\ mem'[u].path = new /\ mem'[u].hash = memo[u].body /\ ~mem'[u].conflict
        /\ \A q \in Paths \ {new, old} : file'[q] = file[q] /\ side'[q] = side[q]
        /\ file'[new].present /\ file'[new].mark = u /\ file'[new].body = memo[u].body
        /\ (old # new => ~file'[old].present)
        /\ \A v \in Uids \ {u} : mem[v].tracked => mem[v].path \in Paths \ {new, old}
  <2> DEFINE new == memo[u].path
             old == mem[u].path
  <2> new \in Paths /\ old \in Paths
    BY RelocateShape
  <2> WITNESS new \in Paths, old \in Paths
  <2> QED
    BY RelocateShape
<1> USE DEF KnownInv, At, StoodBy
<1>2. GrownInv'
  BY <1>1 DEF GrownInv
<1>3. KeptInv'
  BY <1>1 DEF KeptInv
<1>4. OwnInv'
  BY <1>1 DEF OwnInv
<1> QED
  BY <1>1, <1>2, <1>3, <1>4, PullKnownRest

LEMMA PullFlagKnown ==
  ASSUME TypeOK, SafeInv, KnownInv, NEW pass \in Pulling, NEW u \in Uids, PullRun(pass, u),
         FlagConflict(u), mem[u].tracked, Live(live, u)
  PROVE  KnownInv'
<1>0. /\ UNCHANGED <<memo, onServer, file, pc>> /\ live[u] = memo[u] /\ pc \in Pulling
  BY PullRunRest DEF FlagConflict
<1>a. /\ mem[u].path \in Paths
      /\ \A v \in Uids \ {u} : mem[v].tracked => mem[v].path \in Paths \ {mem[u].path}
  BY DEF SafeInv, RecordInv, PathInv, Has, At
<1>1. PICK old \in Paths :
        /\ mem[u].path = old
        /\ side' = [side EXCEPT ![old] = FileOf(u, memo[u].body)]
        /\ mem' = [mem EXCEPT ![u] = Flag(@, memo[u].body)]
        /\ \A v \in Uids \ {u} : mem[v].tracked => mem[v].path \in Paths \ {old}
  BY <1>0, <1>a DEF FlagConflict
<1>2. /\ \A v \in Uids \ {u} : mem'[v] = mem[v]
      /\ (mem'[u].tracked <=> mem[u].tracked) /\ mem'[u].path = old /\ mem'[u].hash = mem[u].hash
      /\ mem'[u].conflict /\ mem'[u].chash = memo[u].body
      /\ \A q \in Paths \ {old} : side'[q] = side[q]
      /\ side'[old].present /\ side'[old].body = memo[u].body
  BY <1>1 DEF TypeOK, StateOK, TreeOK, Flag, Bases, FileOf
<1> USE DEF KnownInv, At, StoodBy
<1>3. GrownInv'
  BY <1>0, <1>2 DEF GrownInv
<1>4. KeptInv'
  BY <1>0, <1>1, <1>2 DEF KeptInv
<1>5. OwnInv'
  BY <1>0, <1>1, <1>2 DEF OwnInv
<1> QED
  BY <1>0, <1>3, <1>4, <1>5, PullKnownRest

LEMMA PullDropKnown ==
  ASSUME TypeOK, SafeInv, KnownInv, NEW pass \in Pulling, NEW u \in Uids, PullRun(pass, u),
         mem[u].tracked, file' = [file EXCEPT ![mem[u].path] = NoFile],
         mem' = [mem EXCEPT ![u] = NoBase], UNCHANGED side
  PROVE  KnownInv'
<1>0. UNCHANGED <<memo, onServer, side, pc>> /\ pc \in Pulling
  BY PullRunRest
<1>1. PICK old \in Paths :
        /\ mem[u].path = old
        /\ \A v \in Uids \ {u} : mem[v].tracked => mem[v].path \in Paths \ {old}
  BY DEF SafeInv, RecordInv, PathInv, Has, At
<1>2. /\ \A v \in Uids \ {u} : mem'[v] = mem[v]
      /\ ~mem'[u].tracked
      /\ \A q \in Paths \ {old} : file'[q] = file[q]
      /\ ~file'[old].present
  BY <1>1 DEF TypeOK, StateOK, TreeOK, NoBase, NoFile
<1> USE DEF KnownInv, At, StoodBy
<1>3. GrownInv'
  BY <1>0, <1>2 DEF GrownInv
<1>4. KeptInv'
  BY <1>0, <1>1, <1>2 DEF KeptInv
<1>5. OwnInv'
  BY <1>0, <1>1, <1>2 DEF OwnInv
<1> QED
  BY <1>0, <1>3, <1>4, <1>5, PullKnownRest

LEMMA PullKnown ==
  ASSUME TypeOK, SafeInv, KnownInv, Pull
  PROVE  KnownInv'
<1>1. ASSUME NEW u \in Uids, NEW pass \in Pulling, PullRun(pass, u), KeepAll PROVE KnownInv'
  <2>1. UNCHANGED <<memo, onServer, file, side, mem, pc>> /\ pc \in Pulling
    BY <1>1 DEF PullRun, KeepAll, treeVars, serverVars
  <2> QED
    BY <2>1, KnownStill DEF Pulling
<1>2. ASSUME PullStart \/ PullListing \/ PullReconciled PROVE KnownInv'
  <2>1. UNCHANGED <<memo, onServer, file, side, mem>> /\ pc' \in Pulling
    BY <1>2 DEF PullStart, PullListing, PullReconciled, treeVars, serverVars, Pulling
  <2> QED
    BY <2>1, KnownStill DEF Pulling
<1>3. ASSUME PullEnd PROVE KnownInv'
  <2>1. UNCHANGED <<memo, onServer, side, mem>> /\ pc' = "idle"
    BY <1>3 DEF PullEnd, EndRun
  <2>2. \A p \in Paths : /\ file'[p].present = file[p].present /\ file'[p].body = file[p].body
                         /\ file'[p].mark = file[p].mark
    BY <1>3, StampsKeep
  <2>3. \A u \in Uids : mem[u].tracked => mem[u].path \in Paths
    BY DEF SafeInv, RecordInv
  <2>4. GrownInv' /\ KeptInv' /\ OwnInv'
    BY <2>1, <2>2, <2>3 DEF KnownInv, GrownInv, KeptInv, OwnInv, StoodBy, At
  <2> QED
    BY <2>1, <2>4 DEF KnownInv, StageInv, NoServerEditLost
<1>4. ASSUME NEW u \in Uids, PullIncremental(u) PROVE KnownInv'
  <2>1. PullRun("incremental", u) /\ "incremental" \in Pulling /\ Live(live, u)
    BY <1>4 DEF PullIncremental, FirstU, Pulling, PullRun, SafeInv, PullInv, Listed
  <2>2. \/ ~mem[u].tracked /\ Export(u)
        \/ KeepAll
        \/ mem[u].tracked /\ FlagConflict(u)
        \/ mem[u].tracked /\ LocalFile(u).present /\ ~Modified(u) /\ Relocate(u)
    BY <1>4 DEF PullIncremental, Settled
  <2> QED
    BY <1>1, <2>1, <2>2, PullExportKnown, PullFlagKnown, PullRelocateKnown
<1>5. ASSUME NEW u \in Uids, PullReconcile(u) PROVE KnownInv'
  <2>1. PullRun("reconcile", u) /\ "reconcile" \in Pulling /\ mem[u].tracked
    BY <1>5 DEF PullReconcile, Pulling, PullRun, SafeInv, PullInv, Tracked
  <2>2. \/ KeepAll
        \/ /\ file' = [file EXCEPT ![mem[u].path] = NoFile] /\ mem' = [mem EXCEPT ![u] = NoBase]
           /\ UNCHANGED side
        \/ Live(live, u) /\ LocalFile(u).present /\ ~Modified(u) /\ Relocate(u)
        \/ Live(live, u) /\ FlagConflict(u)
    BY <1>5 DEF PullReconcile, Settled, Listed
  <2> QED
    BY <1>1, <2>1, <2>2, PullDropKnown, PullFlagKnown, PullRelocateKnown
<1>6. ASSUME NEW u \in Uids, PullAdopt(u) PROVE KnownInv'
  <2>1. PullRun("adopt", u) /\ Export(u) /\ "adopt" \in Pulling /\ Live(live, u) /\ ~mem[u].tracked
    BY <1>6 DEF PullAdopt, FirstU, Pulling, PullRun, SafeInv, PullInv, Listed, Tracked
  <2> QED
    BY <2>1, PullExportKnown
<1> QED
  BY <1>2, <1>3, <1>4, <1>5, <1>6 DEF Pull

LEMMA InitKnown == Init => KnownInv
<1> SUFFICES ASSUME Init PROVE KnownInv
  OBVIOUS
<1>1. PICK at \in [InitDocs -> Paths] :
        /\ \A u, v \in InitDocs : at[u] = at[v] => u = v
        /\ memo = [u \in Uids |-> IF u \in InitDocs
             THEN [st |-> "live", path |-> at[u], body |-> {u}] ELSE NoMemo]
        /\ file = [p \in Paths |-> IF \E u \in InitDocs : at[u] = p
             THEN LET u == CHOOSE u \in InitDocs : at[u] = p IN FileOf(u, {u})
             ELSE NoFile]
        /\ base = [u \in Uids |-> IF u \in InitDocs THEN Baseline(at[u], {u}) ELSE NoBase]
  BY DEF Init
<1>2. pc = "idle" /\ mem = base /\ onServer = InitDocs
  BY DEF Init
<1>3. \A u \in InitDocs :
        /\ u \in Uids /\ memo[u].st = "live" /\ memo[u].body = {u}
        /\ mem[u].tracked /\ mem[u].path = at[u] /\ mem[u].hash = {u} /\ ~mem[u].conflict
        /\ at[u] \in Paths
  BY <1>1, <1>2, DocsAssumption DEF Baseline
<1>4. \A u \in Uids \ InitDocs : memo[u].body = {} /\ ~mem[u].tracked
  BY <1>1, <1>2 DEF NoMemo, NoBase
<1>5. \A u \in InitDocs : file[at[u]].present /\ file[at[u]].mark = u /\ file[at[u]].body = {u}
  <2> SUFFICES ASSUME NEW u \in InitDocs
               PROVE  file[at[u]].present /\ file[at[u]].mark = u /\ file[at[u]].body = {u}
    OBVIOUS
  <2> DEFINE w == CHOOSE v \in InitDocs : at[v] = at[u]
  <2>1. w \in InitDocs /\ at[w] = at[u]
    OBVIOUS
  <2>2. w = u /\ at[u] \in Paths
    BY <1>1, <1>3, <2>1
  <2>3. file[at[u]] = FileOf(w, {w})
    BY <1>1, <2>2
  <2> HIDE DEF w
  <2> QED
    BY <2>2, <2>3 DEF FileOf
<1>6. \A p \in Paths : file[p].present => \E u \in InitDocs : at[u] = p
  BY <1>1 DEF NoFile
<1>7. GrownInv
  BY <1>3, <1>4 DEF GrownInv
<1>8. KeptInv
  BY <1>3, <1>4, <1>5 DEF KeptInv
<1>9. OwnInv
  BY <1>3, <1>4, <1>5, <1>6 DEF OwnInv, StoodBy, At
<1>10. StageInv /\ NoServerEditLost
  BY <1>2, <1>3 DEF StageInv, NoServerEditLost
<1> QED
  BY <1>7, <1>8, <1>9, <1>10 DEF KnownInv

\* push.go:74: where no document changes its place in the checkout and the web
\* leaves an update alone, every edit that ever reached the server is still in
\* some document on it.
THEOREM ServerEditsKept ==
  ASSUME Unmoved
  PROVE  Spec => []NoServerEditLost
<1>0. Apart
  BY DEF Unmoved
<1>1. TypeOK /\ SafeInv /\ KnownInv /\ [Next]_vars => KnownInv'
  <2>1. KnownInv /\ UNCHANGED vars => KnownInv'
    <3> SUFFICES ASSUME KnownInv, UNCHANGED vars PROVE KnownInv'
      OBVIOUS
    <3>1. UNCHANGED <<memo, onServer, file, side, mem, pc, docs, claim, cur>>
      BY DEF vars, serverVars, treeVars, runVars
    <3>2. GrownInv' /\ KeptInv' /\ OwnInv'
      BY <3>1 DEF KnownInv, GrownInv, KeptInv, OwnInv, StoodBy, At
    <3>3. StageInv' /\ NoServerEditLost'
      BY <3>1 DEF KnownInv, StageInv, NoServerEditLost
    <3> QED
      BY <3>2, <3>3 DEF KnownInv
  <2>2. TypeOK => ~Abort
    BY <1>0 DEF Apart, TypeOK, NotesOK, Abort
  <2> QED
    BY <2>1, <2>2, WebKnown, UserKnown, PushKnown, PullKnown DEF Next
<1>2. KnownInv => NoServerEditLost
  BY DEF KnownInv
<1>3. Spec => [](TypeOK /\ SafeInv)
  BY <1>0, AlwaysSafe
<1> QED
  BY InitKnown, <1>1, <1>2, <1>3, PTL DEF Spec
=============================================================================
