------------------------------ MODULE Memogit ------------------------------
(***************************************************************************)
(* Two-way synchronisation between one knowledge base on the server and    *)
(* one memogit checkout of it: internal/memogit/push.go, pull.go, sync.go, *)
(* conflict.go, localid.go and state.go.                                   *)
(*                                                                         *)
(* Three parties share the state.  Web users change the server; the person *)
(* (or agent) at the checkout changes files; a run of the memogit command, *)
(* `push` or `pull`, is a sequence of steps with one RPC in each, so the   *)
(* other two can act between its steps, and an error or a crash can end it *)
(* after any of them.  WebWhen says at which steps web users do act, and   *)
(* not every property survives all of them: Memogit_server keeps the web   *)
(* out of pulls and out of an update (README, Conditions).                 *)
(*                                                                         *)
(* A text is the set of edits it contains.  An edit made by anybody adds a *)
(* fresh element, a merge is a union, and CanonicalHash is the identity on *)
(* texts: what the properties tell apart is whether a given edit is still  *)
(* in a given text.  Paths are numbered in the order listDocFiles sorts    *)
(* them and uids in the order the server creates them.  Documents are      *)
(* MARKDOWN with no attachments and no sub-documents, the checkout covers  *)
(* the whole knowledge base, and the user is an admin of it.               *)
(***************************************************************************)
EXTENDS Naturals, FiniteSets

CONSTANTS
  Uids,           \* memo uids the server may ever hand out
  Paths,          \* repo-relative document paths
  Edits,          \* edits anybody may make: the bound on editing
  InitDocs,       \* the uids of the documents the checkout was cloned with
  NoUid, NoPath,  \* "" of the Go code
  UserOps,        \* what the person at the checkout does
  WebOps,         \* what web users do
  WebWhen,        \* the steps of a run, or "idle", at which web users act
  Collide,        \* operations that may pick a path the other side already uses
  MaxAborts       \* how many runs may end in an error or a crash

ASSUME UidsAssumption  == Uids \subseteq Nat /\ NoUid \notin Uids
ASSUME PathsAssumption == Paths \subseteq Nat /\ NoPath \notin Paths
ASSUME DocsAssumption  == InitDocs \subseteq Uids
ASSUME EditsAssumption == Edits \cap InitDocs = {}  \* an edit is no initial text
ASSUME BoundAssumption == MaxAborts \in Nat

VARIABLES
  memo,    \* the server's memos, by uid
  file,    \* the work tree: document files, by path
  side,    \* the "<path>.remote" conflict sidecars, by the path they sit beside
  base,    \* the saved sync state, .memogit/state/<dir>.json, by uid
  recent,  \* uids whose updated_ts is past the saved LastSync watermark
  cmd,     \* the run in progress: "push", "pull" or "idle"
  pc,      \* where that run is
  mem,     \* the run's in-memory State; mirrors base while no run is on
  docs,    \* push: the work tree as loadLocalDocs read it
  claim,   \* push: the uid resolveIdentities gave each of docs
  live,    \* the server listing the run is working from
  todoP,   \* push: paths still to be pushed
  todoU,   \* uids still to be handled by the current pass
  cur,     \* push: the path whose content is being pushed
  used,    \* edits made so far
  unpushed,\* local edits that never reached the server nor were given up
  onServer,\* edits that reached the server
  removed, \* uids whose file the person took out of the work tree
  aborts   \* runs that ended early

serverVars == <<memo, recent, onServer>>
treeVars   == <<file, side>>
runVars    == <<cmd, pc, mem, docs, claim, live, todoP, todoU, cur>>
ghostVars  == <<used, unpushed, removed>>
vars == <<serverVars, treeVars, base, runVars, ghostVars, aborts>>

Texts == SUBSET (Edits \cup InitDocs)
NoMemo == [st |-> "none", path |-> NoPath, body |-> {}]
NoFile == [present |-> FALSE, body |-> {}, mark |-> NoUid]
NoBase == [tracked |-> FALSE, path |-> NoPath, hash |-> {},
           conflict |-> FALSE, chash |-> {}]

Memos == [st: {"none", "live", "archived"}, path: Paths \cup {NoPath}, body: Texts]
Files == [present: BOOLEAN, body: Texts, mark: Uids \cup {NoUid}]
Bases == [tracked: BOOLEAN, path: Paths \cup {NoPath}, hash: Texts,
          conflict: BOOLEAN, chash: Texts]

FileOf(u, body)   == [present |-> TRUE, body |-> body, mark |-> u]
\* memoState / rebaseState: a fresh baseline, with no conflict on record.
Baseline(p, body) == [tracked |-> TRUE, path |-> p, hash |-> body,
                      conflict |-> FALSE, chash |-> {}]
Flag(b, body)     == [b EXCEPT !.conflict = TRUE, !.chash = body]

Live(m, u)  == m[u].st = "live"
PathTaken(p, u) == \E v \in Uids \ {u} : memo[v].path = p  \* archived ones too
FirstP(p)   == p \in todoP /\ \A q \in todoP : p <= q
FirstU(u)   == u \in todoU /\ \A v \in todoU : u <= v
Spare       == Cardinality({u \in Uids : memo[u].st = "none"})  \* bound on creating
NextUid(u)  == memo[u].st = "none" /\ \A v \in Uids : v < u => memo[v].st # "none"
InTree      == UNION {file[p].body : p \in Paths}

\* A checkout just cloned: every initial document is tracked, marked and clean.
Init ==
  \E at \in [InitDocs -> Paths] :
    /\ \A u, v \in InitDocs : at[u] = at[v] => u = v
    /\ memo = [u \in Uids |-> IF u \in InitDocs
                 THEN [st |-> "live", path |-> at[u], body |-> {u}] ELSE NoMemo]
    /\ file = [p \in Paths |-> IF \E u \in InitDocs : at[u] = p
                 THEN LET u == CHOOSE u \in InitDocs : at[u] = p IN FileOf(u, {u})
                 ELSE NoFile]
    /\ base = [u \in Uids |-> IF u \in InitDocs THEN Baseline(at[u], {u}) ELSE NoBase]
    /\ side = [p \in Paths |-> NoFile]
    /\ recent = {}
    /\ cmd = "idle" /\ pc = "idle" /\ mem = base
    /\ docs = [p \in Paths |-> NoFile] /\ claim = [p \in Paths |-> NoUid]
    /\ live = [u \in Uids |-> NoMemo]
    /\ todoP = {} /\ todoU = {} /\ cur = NoPath
    /\ used = {} /\ unpushed = {} /\ onServer = InitDocs /\ removed = {}
    /\ aborts = 0

-----------------------------------------------------------------------------
(***************************************************************************)
(* Web users.  Each operation is one UpdateMemo or CreateMemo call.        *)
(***************************************************************************)
WebMay(op) == op \in WebOps /\ pc \in WebWhen
WebPath(op, p) == \/ op \in Collide
                  \/ ~file[p].present /\ \A u \in Uids : base[u].path # p /\ mem[u].path # p

WebEdit(u) ==
  /\ WebMay("edit") /\ Live(memo, u)
  /\ \E e \in Edits \ used :
       /\ memo' = [memo EXCEPT ![u].body = @ \cup {e}]
       /\ used' = used \cup {e}
       /\ onServer' = onServer \cup {e}
  /\ recent' = recent \cup {u}
  /\ UNCHANGED <<treeVars, base, runVars, unpushed, removed, aborts>>

WebCreate(u, p) ==
  /\ WebMay("create") /\ Spare > Cardinality({q \in todoP : claim[q] = NoUid})
  /\ NextUid(u) /\ ~PathTaken(p, u) /\ WebPath("create", p)
  /\ \E e \in Edits \ used :
       /\ memo' = [memo EXCEPT ![u] = [st |-> "live", path |-> p, body |-> {e}]]
       /\ used' = used \cup {e}
       /\ onServer' = onServer \cup {e}
  /\ recent' = recent \cup {u}
  /\ UNCHANGED <<treeVars, base, runVars, unpushed, removed, aborts>>

\* A rename or move.  UpdateMemo stamps updated_ts; a bulk folder rename may not.
WebRename(u, p) ==
  /\ WebMay("rename") /\ Live(memo, u) /\ memo[u].path # p
  /\ ~PathTaken(p, u) /\ WebPath("rename", p)
  /\ memo' = [memo EXCEPT ![u].path = p]
  /\ recent' \in {recent, recent \cup {u}}
  /\ UNCHANGED <<onServer, treeVars, base, runVars, ghostVars, aborts>>

\* Archiving and restoring leave updated_ts and the path alone.
WebArchive(u) ==
  /\ WebMay("archive") /\ Live(memo, u)
  /\ memo' = [memo EXCEPT ![u].st = "archived"]
  /\ UNCHANGED <<recent, onServer, treeVars, base, runVars, ghostVars, aborts>>

WebRestore(u) ==
  /\ WebMay("restore") /\ memo[u].st = "archived" /\ WebPath("restore", memo[u].path)
  /\ memo' = [memo EXCEPT ![u].st = "live"]
  /\ UNCHANGED <<recent, onServer, treeVars, base, runVars, ghostVars, aborts>>

Web == \E u \in Uids : \/ WebEdit(u) \/ WebArchive(u) \/ WebRestore(u)
                       \/ \E p \in Paths : WebCreate(u, p) \/ WebRename(u, p)

-----------------------------------------------------------------------------
(***************************************************************************)
(* The person at the checkout, between runs.                               *)
(***************************************************************************)
UserMay(op) == op \in UserOps /\ cmd = "idle"
UserPath(op, p) == ~file[p].present /\ (op \in Collide \/ \A u \in Uids : memo[u].path # p)
Untracked(p) == \A u \in Uids : base[u].path # p

\* Some file still stands for the document: it carries the marker, or it sits
\* where the document is recorded and carries none.
Stands(u) == \E p \in Paths :
  file[p].present /\ (file[p].mark = u \/ (base[u].path = p /\ file[p].mark = NoUid))

UserNote ==  \* bookkeeping: edits the person gave up, documents taken out
  /\ UNCHANGED <<serverVars, base, runVars, aborts>>
  /\ removed' = removed \cup {u \in Uids : base[u].tracked /\ ~Stands(u)'}

UserEdit(p) ==
  /\ UserMay("edit") /\ file[p].present
  /\ \E e \in Edits \ used :
       /\ file' = [file EXCEPT ![p].body = @ \cup {e}]
       /\ used' = used \cup {e}
       /\ unpushed' = unpushed \cup {e}
  /\ UNCHANGED side /\ UserNote

UserCreate(p) ==
  /\ UserMay("create") /\ UserPath("create", p) /\ Untracked(p)
  /\ \E e \in Edits \ used :
       /\ file' = [file EXCEPT ![p] = FileOf(NoUid, {e})]
       /\ used' = used \cup {e}
       /\ unpushed' = unpushed \cup {e}
  /\ UNCHANGED side /\ UserNote

UserDelete(p) ==
  /\ UserMay("delete") /\ file[p].present
  /\ file' = [file EXCEPT ![p] = NoFile]
  /\ unpushed' = unpushed \cap InTree'
  /\ UNCHANGED <<side, used>> /\ UserNote

\* mv: the marker travels with the file, a sidecar stays behind.
UserMove(p, q) ==
  /\ UserMay("move") /\ file[p].present /\ UserPath("move", q)
  /\ "move" \in Collide \/ Untracked(q)
  /\ file' = [file EXCEPT ![q] = file[p], ![p] = NoFile]
  /\ UNCHANGED <<side, used, unpushed>> /\ UserNote

\* cp: the copy carries the original's marker.
UserCopy(p, q) ==
  /\ UserMay("copy") /\ file[p].present /\ UserPath("copy", q) /\ Untracked(q)
  /\ file' = [file EXCEPT ![q] = file[p]]
  /\ UNCHANGED <<side, used, unpushed>> /\ UserNote

\* Back to the last synchronised text, as `git checkout` of the file does; not
\* once a conflict was declared resolved, which would undo the resolution.
UserRevert(u) ==
  LET p == base[u].path IN
  /\ UserMay("revert") /\ base[u].tracked /\ file[p].present
  /\ base[u].conflict => side[p].present
  /\ file' = [file EXCEPT ![p].body = base[u].hash]
  /\ unpushed' = unpushed \cap InTree'
  /\ UNCHANGED <<side, used>> /\ UserNote

\* An open conflict: on record, with its sidecar beside the file.
Open(p) == /\ side[p].present /\ file[p].present
           /\ \E u \in Uids : base[u].conflict /\ base[u].path = p

\* Resolving a conflict: merge the server's text in, then delete the sidecar.
UserMerge(p) ==
  /\ UserMay("merge") /\ Open(p)
  /\ file' = [file EXCEPT ![p].body = @ \cup side[p].body]
  /\ side' = [side EXCEPT ![p] = NoFile]
  /\ UNCHANGED <<used, unpushed>> /\ UserNote

\* Resolving a conflict the other way: take the server's text as it is.
UserTake(p) ==
  /\ UserMay("take") /\ Open(p)
  /\ file' = [file EXCEPT ![p] = side[p]]
  /\ side' = [side EXCEPT ![p] = NoFile]
  /\ unpushed' = unpushed \cap InTree'
  /\ UNCHANGED used /\ UserNote

User == \/ \E u \in Uids : UserRevert(u)
        \/ \E p \in Paths : \/ UserEdit(p) \/ UserCreate(p) \/ UserDelete(p)
                            \/ UserMerge(p) \/ UserTake(p)
                            \/ \E q \in Paths : UserMove(p, q) \/ UserCopy(p, q)

-----------------------------------------------------------------------------
(***************************************************************************)
(* A run, whichever command it is.                                         *)
(***************************************************************************)
Listing(us) == [u \in Uids |-> IF u \in us /\ Live(memo, u) THEN memo[u] ELSE NoMemo]
Listed      == {u \in Uids : Live(live, u)}
Tracked(b)  == {u \in Uids : b[u].tracked}

\* What a finished or failed run leaves behind: nothing but base.
EndRun ==
  /\ cmd' = "idle" /\ pc' = "idle" /\ mem' = base'
  /\ docs' = [p \in Paths |-> NoFile] /\ claim' = [p \in Paths |-> NoUid]
  /\ live' = [u \in Uids |-> NoMemo]
  /\ todoP' = {} /\ todoU' = {} /\ cur' = NoPath

\* An RPC or file error, Ctrl-C or a crash: the in-memory State is lost.
Abort ==
  /\ cmd # "idle" /\ aborts < MaxAborts
  /\ aborts' = aborts + 1
  /\ UNCHANGED <<serverVars, treeVars, base, ghostVars>>
  /\ EndRun

-----------------------------------------------------------------------------
(***************************************************************************)
(* resolveIdentities: the marker wins where it names a tracked memo; among *)
(* several files with one marker the file at the recorded path wins, else  *)
(* the first; a file no marker resolves falls back to the path index,      *)
(* which holds one of the uids recorded at the path.                       *)
(***************************************************************************)
MarkedNever(u) == {}  \* a slip: identity by path alone
Marked(u) == {p \in Paths : file[p].present /\ file[p].mark = u /\ base[u].tracked}
Winner(u, p) == /\ p \in Marked(u)
                /\ \/ p = base[u].path
                   \/ base[u].path \notin Marked(u) /\ \A q \in Marked(u) : p <= q
Identity(p) ==
  LET mine == {u \in Uids : Winner(u, p)}
      here == {u \in Uids : base[u].tracked /\ base[u].path = p}
  IN  IF ~file[p].present THEN {NoUid}
      ELSE IF mine # {} THEN mine
      ELSE IF here = {} THEN {NoUid}
      ELSE {IF Marked(u) = {} THEN u ELSE NoUid : u \in here}

PushStart ==
  /\ cmd = "idle"
  /\ cmd' = "push" /\ pc' = "doc"
  /\ docs' = file
  /\ claim' \in {c \in [Paths -> Uids \cup {NoUid}] : \A p \in Paths : c[p] \in Identity(p)}
  /\ live' = Listing(Uids)
  /\ todoP' = {p \in Paths : file[p].present}
  /\ Cardinality({p \in todoP' : claim'[p] = NoUid}) <= Spare
  /\ UNCHANGED <<serverVars, treeVars, base, mem, todoU, cur, ghostVars, aborts>>

\* The document at the head of the list, resolved to u.
PushAt(p, u) == cmd = "push" /\ pc = "doc" /\ FirstP(p) /\ claim[p] = u
\* a slip: back to a phase no step continues
NextDocLost(p) == pc' = "docs" /\ todoP' = todoP \ {p} /\ cur' = NoPath
NextDoc(p)   == pc' = "doc" /\ todoP' = todoP \ {p} /\ cur' = NoPath
KeepRun      == UNCHANGED <<cmd, docs, todoU>>

\* pushNewDoc: CreateMemo ...
PushCreate(p, u) ==
  /\ PushAt(p, NoUid) /\ NextUid(u) /\ ~PathTaken(p, u)
  /\ memo' = [memo EXCEPT ![u] = [st |-> "live", path |-> p, body |-> docs[p].body]]
  /\ recent' = recent \cup {u}
  /\ onServer' = onServer \cup docs[p].body
  /\ unpushed' = unpushed \ docs[p].body
  /\ claim' = [claim EXCEPT ![p] = u]
  /\ pc' = "stamp" /\ cur' = p
  /\ KeepRun
  /\ UNCHANGED <<treeVars, base, mem, live, todoP, used, removed, aborts>>

\* ... and, with its answer, the baseline and the marker in the file.
PushStamp(p, u) ==
  /\ cmd = "push" /\ pc = "stamp" /\ cur = p /\ claim[p] = u
  /\ mem' = [mem EXCEPT ![u] = Baseline(p, docs[p].body)]
  /\ file' = [file EXCEPT ![p] = FileOf(u, docs[p].body)]
  /\ NextDoc(p) /\ KeepRun
  /\ UNCHANGED <<serverVars, side, base, claim, live, ghostVars, aborts>>

\* Archived or deleted on the server: the file is kept and nothing is sent.
PushOrphan(p, u) ==
  /\ PushAt(p, u) /\ u \in Uids \ Listed
  /\ NextDoc(p) /\ KeepRun
  /\ UNCHANGED <<serverVars, treeVars, base, mem, claim, live, ghostVars, aborts>>

\* moveDoc, then rebaseState from the response: the new baseline takes the
\* text the server holds now, and any conflict on record is dropped.
PushMove(p, u) ==
  /\ PushAt(p, u) /\ u \in Listed /\ mem[u].path # p /\ ~PathTaken(p, u)
  /\ memo' = [memo EXCEPT ![u].path = p]
  /\ recent' = recent \cup {u}
  /\ mem' = [mem EXCEPT ![u] = Baseline(p, memo[u].body)]
  /\ pc' = "content" /\ cur' = p
  /\ KeepRun
  /\ UNCHANGED <<onServer, treeVars, base, claim, live, todoP, ghostVars, aborts>>

\* CreateMemo or MoveMemo onto a path the server already uses is refused, and
\* the error ends the run.
PushRefused(p, u) ==
  /\ PushAt(p, u)
  /\ u \in Uids => u \in Listed /\ mem[u].path # p
  /\ PathTaken(p, u)
  /\ UNCHANGED <<serverVars, treeVars, base, ghostVars, aborts>>
  /\ EndRun

\* pushDocContent.
ContentAt(p, u) ==
  /\ cmd = "push" /\ u \in Uids /\ claim[p] = u
  /\ \/ pc = "doc" /\ FirstP(p) /\ u \in Listed /\ mem[u].path = p
     \/ pc = "content" /\ cur = p

\* a slip: a resolved conflict goes out without the re-check
ExpectedUnchecked(u) == IF mem[u].conflict THEN memo[u].body ELSE mem[u].hash
Expected(u) == IF mem[u].conflict THEN mem[u].chash ELSE mem[u].hash
\* Neither an open conflict nor an unchanged text asks the server anything.
Quiet(p, u) == IF mem[u].conflict THEN side[p].present ELSE docs[p].body = mem[u].hash

PushNothing(p, u) ==
  /\ ContentAt(p, u) /\ Quiet(p, u)
  /\ NextDoc(p) /\ KeepRun
  /\ UNCHANGED <<serverVars, treeVars, base, mem, claim, live, ghostVars, aborts>>

\* GetMemo shows a text other than the expected one: write the sidecar.
PushConflict(p, u) ==
  /\ ContentAt(p, u) /\ ~Quiet(p, u) /\ memo[u].body # Expected(u)
  /\ side' = [side EXCEPT ![p] = FileOf(u, memo[u].body)]
  /\ mem' = [mem EXCEPT ![u] = Flag(@, memo[u].body)]
  /\ NextDoc(p) /\ KeepRun
  /\ UNCHANGED <<serverVars, file, base, claim, live, ghostVars, aborts>>

\* GetMemo shows the expected text: the update may go ahead.
PushGet(p, u) ==
  /\ ContentAt(p, u) /\ ~Quiet(p, u) /\ memo[u].body = Expected(u)
  /\ pc' = "update" /\ cur' = p
  /\ KeepRun
  /\ UNCHANGED <<serverVars, treeVars, base, mem, claim, live, todoP, ghostVars, aborts>>

\* UpdateMemoContent: the server stores the text whatever it holds by now ...
PushUpdate(p, u) ==
  /\ cmd = "push" /\ pc = "update" /\ cur = p /\ claim[p] = u
  /\ memo' = [memo EXCEPT ![u].body = docs[p].body]
  /\ recent' = recent \cup {u}
  /\ onServer' = onServer \cup docs[p].body
  /\ unpushed' = unpushed \ docs[p].body
  /\ pc' = "reply"
  /\ KeepRun
  /\ UNCHANGED <<treeVars, base, mem, claim, live, todoP, cur, used, removed, aborts>>

\* ... and answers with the memo as it reads it back, the new baseline.
PushReply(p, u) ==
  /\ cmd = "push" /\ pc = "reply" /\ cur = p /\ claim[p] = u
  /\ mem' = [mem EXCEPT ![u] = Baseline(p, memo[u].body)]
  /\ NextDoc(p) /\ KeepRun
  /\ UNCHANGED <<serverVars, treeVars, base, claim, live, ghostVars, aborts>>

\* a slip: a document counts as gone when its recorded path is
UnclaimedByPath == {u \in Tracked(mem) : ~docs[base[u].path].present}
\* The archive pass: tracked memos no file claims.
Unclaimed == {u \in Tracked(mem) : \A p \in Paths : claim[p] # u}

PushDocsDone ==
  /\ cmd = "push" /\ pc = "doc" /\ todoP = {}
  /\ pc' = "archive"
  /\ todoU' = Unclaimed
  /\ UNCHANGED <<serverVars, treeVars, base, cmd, mem, docs, claim, live, todoP, cur,
                 ghostVars, aborts>>

PushArchive(u) ==
  /\ cmd = "push" /\ pc = "archive" /\ u \in todoU
  /\ memo' = IF u \in Listed THEN [memo EXCEPT ![u].st = "archived"] ELSE memo
  /\ mem' = [mem EXCEPT ![u] = NoBase]
  /\ todoU' = todoU \ {u}
  /\ UNCHANGED <<recent, onServer, treeVars, base, cmd, pc, docs, claim, live, todoP, cur,
                 ghostVars, aborts>>

\* LastSync, and so recent, is left alone.
PushEnd ==
  /\ cmd = "push" /\ pc = "archive" /\ todoU = {}
  /\ base' = mem
  /\ EndRun
  /\ UNCHANGED <<serverVars, treeVars, ghostVars, aborts>>

Push == \/ PushStart \/ PushDocsDone \/ PushEnd
        \/ \E u \in Uids : PushArchive(u)
        \/ \E p \in Paths :
             \/ PushRefused(p, NoUid)
             \/ \E u \in Uids :
                  \/ PushCreate(p, u) \/ PushStamp(p, u)
                  \/ PushOrphan(p, u) \/ PushMove(p, u)
                  \/ PushRefused(p, u) \/ PushNothing(p, u) \/ PushConflict(p, u)
                  \/ PushGet(p, u) \/ PushUpdate(p, u) \/ PushReply(p, u)

-----------------------------------------------------------------------------
(***************************************************************************)
(* Pull: the incremental pass, the reconciliation with the full listing,   *)
(* the adoption of what is live but untracked, and the re-stamping.        *)
(***************************************************************************)
PullStart ==
  /\ cmd = "idle"
  /\ cmd' = "pull" /\ pc' = "incremental"
  /\ live' = Listing(recent)
  /\ todoU' = {u \in recent : Live(memo, u)}
  /\ UNCHANGED <<serverVars, treeVars, base, mem, docs, claim, todoP, cur, ghostVars, aborts>>

LocalFile(u) == file[mem[u].path]
ModifiedNever(u) == FALSE  \* a slip: the local text is not looked at
Modified(u)  == LocalFile(u).present /\ LocalFile(u).body # mem[u].hash
SameText(u)  == live[u].body = mem[u].hash
SamePath(u)  == live[u].path = mem[u].path
\* a slip: a rename alone is not followed
SettledByText(u) == SameText(u) \/ ~LocalFile(u).present
\* In step with the server, or with no local file to bring in step.
Settled(u)   == (SameText(u) /\ SamePath(u)) \/ ~LocalFile(u).present

KeepAll    == UNCHANGED <<treeVars, mem>>
\* exportMemo and relocateMemo: write the file, remove the one it replaces.
Write(u, old) ==
  LET new == live[u].path IN
  /\ file' = [p \in Paths |-> IF p = new THEN FileOf(u, live[u].body)
                              ELSE IF p = old THEN NoFile ELSE file[p]]
  /\ mem' = [mem EXCEPT ![u] = Baseline(new, live[u].body)]
Export(u)   == Write(u, live[u].path) /\ UNCHANGED side
Relocate(u) == /\ Write(u, mem[u].path)
               /\ side' = [p \in Paths |-> IF p \in {mem[u].path, live[u].path}
                                           THEN NoFile ELSE side[p]]
FlagOnly(u) ==  \* a slip: the conflict is recorded, its sidecar is not written
  /\ mem' = [mem EXCEPT ![u] = Flag(@, live[u].body)]
  /\ UNCHANGED treeVars
FlagConflict(u) ==
  /\ side' = [side EXCEPT ![mem[u].path] = FileOf(u, live[u].body)]
  /\ mem' = [mem EXCEPT ![u] = Flag(@, live[u].body)]
  /\ UNCHANGED file

PullRun(pass, u) ==
  /\ cmd = "pull" /\ pc = pass
  /\ todoU' = todoU \ {u}
  /\ removed' = IF mem[u].tracked THEN removed ELSE removed \ {u}
  /\ UNCHANGED <<serverVars, base, cmd, pc, docs, claim, live, todoP, cur,
                 used, unpushed, aborts>>

\* Oldest first.
PullIncremental(u) ==
  /\ PullRun("incremental", u) /\ FirstU(u)
  /\ IF ~mem[u].tracked THEN Export(u)
     ELSE IF Settled(u) THEN KeepAll
     ELSE IF Modified(u) THEN FlagConflict(u)
     ELSE Relocate(u)

PullListing ==
  /\ cmd = "pull" /\ pc = "incremental" /\ todoU = {}
  /\ pc' = "reconcile"
  /\ live' = Listing(Uids)
  /\ todoU' = Tracked(mem)
  /\ UNCHANGED <<serverVars, treeVars, base, cmd, mem, docs, claim, todoP, cur,
                 ghostVars, aborts>>

\* reconcileAgainst, reconcileDrifted.  Uids are random strings: any order.
PullReconcile(u) ==
  /\ PullRun("reconcile", u) /\ u \in todoU
  /\ IF u \notin Listed
     THEN IF Modified(u) THEN KeepAll
          ELSE /\ file' = [file EXCEPT ![mem[u].path] = NoFile]
               /\ mem' = [mem EXCEPT ![u] = NoBase]
               /\ UNCHANGED side
     ELSE IF Settled(u) THEN KeepAll
     ELSE IF ~Modified(u) THEN Relocate(u)
     ELSE IF SameText(u) THEN KeepAll ELSE FlagConflict(u)

PullReconciled ==
  /\ cmd = "pull" /\ pc = "reconcile" /\ todoU = {}
  /\ pc' = "adopt"
  /\ todoU' = Listed \ Tracked(mem)
  /\ UNCHANGED <<serverVars, treeVars, base, cmd, mem, docs, claim, live, todoP, cur,
                 ghostVars, aborts>>

PullAdopt(u) == PullRun("adopt", u) /\ FirstU(u) /\ Export(u)

Stamps(p) == LET here == {u \in Tracked(mem) : mem[u].path = p} IN
             IF file[p].present /\ here # {} THEN here ELSE {file[p].mark}

\* ensureLocalIDs re-stamps in uid order, so the last of several memos
\* recorded at one path has its way; then the state and the watermark are saved.
PullEnd ==
  /\ cmd = "pull" /\ pc = "adopt" /\ todoU = {}
  /\ \E stamp \in [Paths -> Uids \cup {NoUid}] :
       /\ \A p \in Paths : stamp[p] \in Stamps(p)
       /\ file' = [p \in Paths |-> [file[p] EXCEPT !.mark = stamp[p]]]
  /\ base' = mem
  /\ recent' = {}
  /\ EndRun
  /\ UNCHANGED <<memo, onServer, side, ghostVars, aborts>>

Pull == \/ PullStart \/ PullListing \/ PullReconciled \/ PullEnd
        \/ \E u \in Uids : PullIncremental(u) \/ PullReconcile(u) \/ PullAdopt(u)

Next == Web \/ User \/ Push \/ Pull \/ Abort
Spec == Init /\ [][Next]_vars

-----------------------------------------------------------------------------
(***************************************************************************)
(* Properties.                                                             *)
(***************************************************************************)
ServerOK == memo \in [Uids -> Memos] /\ recent \subseteq Uids /\ onServer \in Texts
TreeOK   == file \in [Paths -> Files] /\ side \in [Paths -> Files]
StateOK  == base \in [Uids -> Bases] /\ mem \in [Uids -> Bases]
RunOK ==
  /\ cmd \in {"idle", "push", "pull"}
  /\ pc \in {"idle", "doc", "stamp", "content", "update", "reply", "archive",
             "incremental", "reconcile", "adopt"}
  /\ docs \in [Paths -> Files] /\ claim \in [Paths -> Uids \cup {NoUid}]
  /\ live \in [Uids -> Memos] /\ todoP \subseteq Paths /\ todoU \subseteq Uids
  /\ cur \in Paths \cup {NoPath}
NotesOK ==
  /\ used \subseteq Edits /\ unpushed \subseteq Edits
  /\ removed \subseteq Uids /\ aborts \in Nat

\* Memos, files and records are well formed and a run is at one of its steps.
TypeOK == ServerOK /\ TreeOK /\ StateOK /\ RunOK /\ NotesOK

\* pull.go:325: "A locally modified file is never overwritten", and push has
\* no business losing one either.  An edit made at the checkout, not given up
\* there and not yet on the server is in some file of the work tree.
NoLocalEditLost == unpushed \subseteq InTree

\* push.go:74: a push over a server text that has moved on "is reported as a
\* conflict and left for manual resolution".  Every edit that ever reached the
\* server is still in some document there.
NoServerEditLost == onServer \subseteq UNION {memo[u].body : u \in Uids}

\* push.go:217: what push archives is a document whose file the person took
\* out of the work tree.
ArchiveOnlyRemoved ==
  [][\A u \in Uids : (Live(memo, u) /\ ~Live(memo, u)' /\ mem'[u] # mem[u]) => u \in removed]_vars

\* What a completed pull promises of a live document: it is tracked, and its
\* file either is the server's text at the server's path, or carries unpushed
\* work, with the server's text beside it if that has moved on too, or has been
\* taken out.  A document gone from the server is tracked only for the sake of
\* unpushed work.
Reconciled(u) ==
  LET b == base'[u]   f == file'[b.path]   s == side'[b.path] IN
  IF ~Live(memo, u) THEN b.tracked => f.present /\ f.body # b.hash
  ELSE /\ b.tracked
       /\ f.present => \/ f.body = b.hash /\ b.hash = memo[u].body /\ b.path = memo[u].path
                       \/ f.body # b.hash /\ b.hash = memo[u].body
                       \/ /\ f.body # b.hash /\ b.conflict /\ b.chash = memo[u].body
                          /\ s.present /\ s.body = memo[u].body
PullReconciles ==
  [][(cmd = "pull" /\ cmd' = "idle" /\ aborts' = aborts) => \A u \in Uids : Reconciled(u)]_vars
=============================================================================
