--------------------------- MODULE DocumentLinks ---------------------------
(***************************************************************************)
(* References between documents and their repair.  A document names others *)
(* by path -- from the root of its knowledge base, relative to its own     *)
(* folder, or within a named knowledge base ("@base/...") -- and the path  *)
(* is resolved each time the document is read, in the browser              *)
(* (web/src/components/MemoContent/DocumentLinkContext.tsx) and, by the    *)
(* same rules, when the server indexes and repairs links                   *)
(* (internal/linkindex, server/router/api/v1/link_index.go, link_repair.go).*)
(* Renaming or moving a document, a folder or a knowledge base therefore   *)
(* rewrites the links it would break, found through the index memo_link.   *)
(*                                                                         *)
(* A document holds one link by path and any number of "/memos/{uid}"      *)
(* links, which no move can break.  `means' is a history variable: what    *)
(* the author's link named when it was written.                            *)
(***************************************************************************)
EXTENDS Naturals, Sequences, FiniteSets

CONSTANTS
  Docs, NoDoc,
  Workspaces, WorkspaceTitles,
  Folders,        \* paths of folders, sequences of names; <<>> is the root
  Titles,         \* no two of them equal but for case or an extension
  Start, Named,   \* where documents are at first, and the workspaces' titles
  Listed,         \* the order in which the store lists documents
  Risks,          \* which of the moves that the repair does not cover are made
  MaxWrites, MaxMoves     \* bounds on the users

(* Paths in a link are not confined to the folders there are. *)
Paths == Seq(UNION {{f[i] : i \in DOMAIN f} : f \in Folders})

Places == [ws : Workspaces, folder : Folders, title : Titles]

ASSUME Layout == /\ <<>> \in Folders /\ Folders \subseteq Paths /\ NoDoc \notin Docs
                 /\ Start \in [Docs -> Places]
                 /\ \A d, e \in Docs : Start[d] = Start[e] => d = e
                 /\ Named \in [Workspaces -> WorkspaceTitles]
                 /\ \A v, w \in Workspaces : Named[v] = Named[w] => v = w
                 /\ Listed \in [Docs -> Nat]
                 /\ \A D \in SUBSET Docs :
                      D # {} => \E d \in D : \A e \in D : Listed[d] <= Listed[e]
ASSUME Limits == MaxWrites \in Nat /\ MaxMoves \in Nat

VARIABLES
  life,     \* life[d]: "gone" (not created, or deleted), "live" or "archived"
  place,    \* place[d]: workspace, folder and title
  name,     \* name[w]: the workspace's title
  ref,      \* ref[d]: the link by path in d's text
  also,     \* also[d]: the documents d's text links to by uid
  rows,     \* rows[d]: the targets memo_link has for d
  means,
  writes, moves

vars == <<life, place, name, ref, also, rows, means, writes, moves>>

---------------------------------------------------------------------------
(* Links. *)

NoLink == [form |-> "none"]
RootRelative(folder, title) == [form |-> "path", folder |-> folder, title |-> title]
Relative(up, folder, title) ==
  [form |-> "relative", up |-> up, folder |-> folder, title |-> title]
Qualified(base, folder, title) ==
  [form |-> "qualified", base |-> base, folder |-> folder, title |-> title]

InWorkspace(link) == link.form \in {"path", "relative"}

Under(folder, root) == /\ Len(root) <= Len(folder)
                       /\ SubSeq(folder, 1, Len(root)) = root

(* The folder and title an in-workspace link names, read in folder `base':  *)
(* none if its ".."s climb above the root.                                  *)
Spelled(base, link) ==
  CASE link.form = "path" -> {<<link.folder, link.title>>}
    [] link.form = "relative" /\ link.up <= Len(base) ->
         {<<SubSeq(base, 1, Len(base) - link.up) \o link.folder, link.title>>}
    [] OTHER -> {}

(* The relative links that name folder f and title n from folder `base':   *)
(* they climb to a folder that f is under, the nearest or one above it.     *)
RelativeTo(base, f, n) ==
  {Relative(up, SubSeq(f, Len(base) - up + 1, Len(f)), n) :
     up \in {u \in 0..Len(base) : Under(f, SubSeq(base, 1, Len(base) - u))}}

Links == {NoLink} \cup [form : {"path"}, folder : Paths, title : Titles]
                  \cup [form : {"relative"}, up : Nat, folder : Paths, title : Titles]
                  \cup [form : {"qualified"}, base : WorkspaceTitles,
                        folder : Paths, title : Titles]

---------------------------------------------------------------------------
(* Resolution, in a state s of the documents (a record of the variables).   *)

Now == [life |-> life, place |-> place, name |-> name,
        ref |-> ref, also |-> also, rows |-> rows]

Spot(s, d) == <<s.place[d].folder, s.place[d].title>>

(* A workspace's tree: where each of its live documents is. *)
Tree(s, w) ==
  [d \in {e \in Docs : s.life[e] = "live" /\ s.place[e].ws = w} |-> Spot(s, d)]

\* a slip: a document that has left the workspace is not put back
AsOfPresent(s, w, e, was) ==
  LET tree == Tree(s, w)
  IN IF e \in DOMAIN tree THEN [tree EXCEPT ![e] = was] ELSE tree

(* The tree with e put (back) where it was, last if it is there no more. *)
AsOf(s, w, e, was) ==
  LET tree == Tree(s, w)
  IN IF e \in DOMAIN tree \/ \A d \in DOMAIN tree : tree[d] # was
     THEN [d \in DOMAIN tree \cup {e} |-> IF d = e THEN was ELSE tree[d]]
     ELSE tree

Find(tree, spots) ==
  LET hits == {d \in DOMAIN tree : tree[d] \in spots}
  IN IF hits = {} THEN NoDoc
     ELSE CHOOSE d \in hits : \A e \in hits : Listed[d] <= Listed[e]

(* What a reader of d reaches through the link. *)
Reaches(s, d, link) ==
  IF link.form = "qualified"
  THEN LET named == {w \in Workspaces : s.name[w] = link.base}
       IN IF named = {} THEN NoDoc
          ELSE Find(Tree(s, CHOOSE w \in named : TRUE), {<<link.folder, link.title>>})
  ELSE Find(Tree(s, s.place[d].ws), Spelled(s.place[d].folder, link))

Resolve(s, d) == Reaches(s, d, s.ref[d])

\* a slip: links into other workspaces are not indexed
SyncedLocally(s, D) ==
  [s EXCEPT !.rows = [d \in Docs |->
     IF d \in D
     THEN ((IF InWorkspace(s.ref[d]) THEN {Resolve(s, d)} ELSE {}) \cup s.also[d]) \ {d, NoDoc}
     ELSE s.rows[d]]]

(* syncMemoLinkIndex for each document of D. *)
Synced(s, D) ==
  [s EXCEPT !.rows = [d \in Docs |-> IF d \in D
                                     THEN ({Resolve(s, d)} \cup s.also[d]) \ {d, NoDoc}
                                     ELSE s.rows[d]]]

(* Documents' links are rewritten, and those documents indexed again. *)
Rewritten(s, links) ==
  Synced([s EXCEPT !.ref = links], {d \in Docs : links[d] # s.ref[d]})

CanonicalHref(s, e) == RootRelative(s.place[e].folder, s.place[e].title)
CrossHref(s, e) == Qualified(s.name[s.place[e].ws], s.place[e].folder, s.place[e].title)

---------------------------------------------------------------------------
(* The repairs, applied to the state after the move has been committed. *)

\* a slip: whatever a referrer links to is taken for a link to e
InboundRepairedAll(s, moved, was) ==
  Rewritten(s, [d \in Docs |->
    LET named == {e \in moved \ {d} : e \in s.rows[d] /\ InWorkspace(s.ref[d])}
    IN IF named = {} THEN s.ref[d]
       ELSE LET e == CHOOSE x \in named : TRUE
            IN IF s.place[d].ws = s.place[e].ws THEN CanonicalHref(s, e) ELSE CrossHref(s, e)])

(* repairInboundLinks: the links of others that named e, for each moved e,  *)
(* where it was are rewritten to where it is.                               *)
InboundRepaired(s, moved, was) ==
  Rewritten(s, [d \in Docs |->
    LET named == {e \in moved \ {d} :
                    /\ e \in s.rows[d] /\ InWorkspace(s.ref[d])
                    /\ Find(AsOf(s, s.place[d].ws, e, was[e]),
                            Spelled(s.place[d].folder, s.ref[d])) = e}
    IN IF named = {} THEN s.ref[d]
       ELSE LET e == CHOOSE x \in named : TRUE
            IN IF s.place[d].ws = s.place[e].ws THEN CanonicalHref(s, e) ELSE CrossHref(s, e)])

(* fossilizeOutboundRelativeLinks: a moved document's own relative link,    *)
(* when it names something from the old folder and nothing from the new.    *)
Fossilized(s, w, oldFolder) ==
  Rewritten(s, [d \in Docs |->
    IF /\ d \in DOMAIN oldFolder /\ s.place[d].folder # oldFolder[d]
       /\ s.ref[d].form = "relative"
       /\ Find(Tree(s, w), Spelled(s.place[d].folder, s.ref[d])) = NoDoc
       /\ Find(Tree(s, w), Spelled(oldFolder[d], s.ref[d])) # NoDoc
    THEN LET spot == CHOOSE x \in Spelled(oldFolder[d], s.ref[d]) : TRUE
         IN RootRelative(spot[1], spot[2])
    ELSE s.ref[d]])

(* rewriteOutboundLinksAfterWorkspaceMove: a document that left w names     *)
(* what it left behind in w's qualified form.                               *)
OutboundRewritten(s, w, oldFolder, alongside) ==
  Rewritten(s, [d \in Docs |->
    LET target == IF d \in DOMAIN oldFolder
                  THEN Find(Tree(s, w), Spelled(oldFolder[d], s.ref[d])) ELSE NoDoc
    IN IF target = NoDoc \/ target \in alongside THEN s.ref[d] ELSE CrossHref(s, target)])

Rebased(folder, from, to) == to \o SubSeq(folder, Len(from) + 1, Len(folder))

(* repairFolderMoveReferences: whoever links into the moved subtree has the *)
(* folder's old path swapped for the new one; relative links within the     *)
(* subtree are left alone; then the subtree's own relative links.           *)
Swept(s, w, from, to) ==
  LET subtree == {d \in Docs : /\ s.life[d] # "gone" /\ s.place[d].ws = w
                               /\ Under(s.place[d].folder, to)}
      swap(d) ==
        LET spots == IF s.ref[d].form = "relative" /\ d \in subtree THEN {}
                     ELSE {x \in Spelled(s.place[d].folder, s.ref[d]) : Under(x[1], from)}
        IN IF spots = {} THEN s.ref[d]
           ELSE LET x == CHOOSE y \in spots : TRUE
                IN RootRelative(Rebased(x[1], from, to), x[2])
      swapped == Rewritten(s, [d \in Docs |->
                   IF s.place[d].ws = w /\ s.rows[d] \cap subtree # {}
                   THEN swap(d) ELSE s.ref[d]])
  IN Fossilized(swapped, w, [d \in subtree |-> Rebased(s.place[d].folder, to, from)])

---------------------------------------------------------------------------
(* Requests. *)

Become(s) == /\ life' = s.life /\ place' = s.place /\ name' = s.name
             /\ ref' = s.ref /\ also' = s.also /\ rows' = s.rows

\* a slip: an archived document's place counts as free
FreeOfLive(p) == \A d \in Docs : life[d] = "live" => place[d] # p

Free(p) == \A d \in Docs : life[d] # "gone" => place[d] # p

Init == /\ life = [d \in Docs |-> "live"]
        /\ place = Start /\ name = Named
        /\ ref = [d \in Docs |-> NoLink] /\ also = [d \in Docs |-> {}]
        /\ rows = [d \in Docs |-> {}] /\ means = [d \in Docs |-> NoDoc]
        /\ writes = 0 /\ moves = 0

Moved == moves < MaxMoves /\ moves' = moves + 1

Create(d, p) ==
  /\ Moved /\ life[d] = "gone" /\ Free(p)
  /\ Become([Now EXCEPT !.life[d] = "live", !.place[d] = p])
  /\ UNCHANGED <<means, writes>>

(* UpdateMemo with the content: d links to `link' and, by uid, to `others'. *)
Write(d, link, others) ==
  /\ writes < MaxWrites /\ writes' = writes + 1
  /\ life[d] = "live" /\ \A e \in others : life[e] # "gone"
  /\ LET s == Synced([Now EXCEPT !.ref[d] = link, !.also[d] = others], {d})
     IN /\ Become(s)
        /\ means' = [means EXCEPT ![d] = IF Resolve(s, d) = d THEN NoDoc ELSE Resolve(s, d)]
  /\ UNCHANGED moves

(* Moves the repair is not up to (README): they are made only if in Risks. *)
Accepted(risk, happens) == happens => risk \in Risks

ByName(targets) == \E d \in Docs : means[d] \in targets /\ ref[d].form = "qualified"
Shadowed(s, d) == /\ ref[d].form = "relative" /\ means[d] # NoDoc
                  /\ Find(Tree(s, s.place[d].ws), Spelled(s.place[d].folder, ref[d]))
                       \notin {NoDoc, means[d]}

\* Where e was, v has another document, or that is what the link of a
\* document that moves with it happens to spell from its new folder.
Doubled(s, targets, v) ==
  \E e \in targets :
    \/ \E d \in DOMAIN Tree(s, v) \ {e} : Spot(s, d) = Spot(Now, e)
    \/ \E d \in targets \ {e} : /\ means[d] \notin {NoDoc, e}
                                 /\ Spot(Now, e) \in Spelled(s.place[d].folder, ref[d])

\* A relative link within a folder that climbs out of it and in again.
Climbing(s, memos) ==
  \E d \in memos : /\ means[d] \in memos /\ ref[d].form = "relative"
                   /\ Spot(s, means[d]) \notin Spelled(s.place[d].folder, ref[d])

(* UpdateMemo with title, folder and workspace: rename or move a document. *)
Relocate(e, p) ==
  /\ Moved /\ life[e] # "gone" /\ Free(p)
  /\ LET old == place[e]
         s == [Now EXCEPT !.place[e] = p]
         inbound == InboundRepaired(s, {e}, [d \in {e} |-> Spot(Now, d)])
     IN /\ Become(IF p.ws # old.ws
                  THEN OutboundRewritten(inbound, old.ws, [d \in {e} |-> old.folder], {})
                  ELSE IF p.folder # old.folder
                       THEN Fossilized(inbound, p.ws, [d \in {e} |-> old.folder]) ELSE inbound)
        /\ Accepted("qualified", ByName({e}))
        /\ Accepted("shadowed", p.ws = old.ws /\ Shadowed(s, e))
        /\ Accepted("doubled", Doubled(s, {e}, p.ws))
  /\ UNCHANGED <<means, writes>>

Subtree(w, root) == {d \in Docs : /\ life[d] # "gone" /\ place[d].ws = w
                                  /\ Under(place[d].folder, root)}

(* The documents of w under `from' at their paths under v's folder `to':    *)
(* refused if one of those places is taken.                                 *)
Carried(w, from, v, to) ==
  [d \in Docs |-> IF d \in Subtree(w, from)
                  THEN [ws |-> v, folder |-> Rebased(place[d].folder, from, to),
                        title |-> place[d].title]
                  ELSE place[d]]

Carry(w, from, v, to) ==
  /\ Moved /\ Subtree(w, from) # {}
  /\ \A d \in Docs : Carried(w, from, v, to)[d].folder \in Folders
  /\ \A d \in Subtree(w, from), e \in Docs \ Subtree(w, from) :
       life[e] # "gone" => place[e] # Carried(w, from, v, to)[d]
  /\ Accepted("qualified", ByName(Subtree(w, from)))
  /\ Accepted("merged", Subtree(v, to) \ Subtree(w, from) # {})
  /\ Accepted("climbing", Climbing([Now EXCEPT !.place = Carried(w, from, v, to)],
                                   Subtree(w, from)))

RenameFolder(w, from, to) ==
  /\ from # <<>> /\ to # <<>> /\ ~Under(to, from)
  /\ Carry(w, from, w, to)
  /\ LET s == [Now EXCEPT !.place = Carried(w, from, w, to)]
     IN /\ Become(Swept(s, w, from, to))
        /\ Accepted("shadowed", \E d \in Subtree(w, from) : Shadowed(s, d))
  /\ UNCHANGED <<means, writes>>

(* MoveWorkspaceFolder: into another workspace's folder `parent'. *)
MoveFolder(w, from, v, parent) ==
  /\ from # <<>> /\ v # w
  /\ LET to == Append(parent, from[Len(from)])
         memos == Subtree(w, from)
         s == [Now EXCEPT !.place = Carried(w, from, v, to)]
         swept == IF from = to THEN s ELSE Swept(s, v, from, to)
         inbound == InboundRepaired(swept, memos, [d \in memos |-> Spot(Now, d)])
     IN /\ Carry(w, from, v, to)
        /\ Accepted("swept", from # to /\ Subtree(v, from) \cup (Subtree(w, to) \ memos) # {})
        /\ Accepted("doubled", Doubled(s, memos, v))
        /\ Become(OutboundRewritten(inbound, w, [d \in memos |-> place[d].folder], memos))
  /\ UNCHANGED <<means, writes>>

(* UpdateWorkspace with the title. *)
RenameWorkspace(w, title) ==
  /\ Moved /\ \A v \in Workspaces : name[v] # title
  /\ LET s == [Now EXCEPT !.name[w] = title]
         targets == {d \in Docs : life[d] # "gone" /\ place[d].ws = w}
     IN Become(Rewritten(s, [d \in Docs |->
          IF rows[d] \cap targets # {} /\ ref[d].form = "qualified" /\ ref[d].base = name[w]
          THEN [ref[d] EXCEPT !.base = title] ELSE ref[d]]))
  /\ UNCHANGED <<means, writes>>

(* Refused while another document links to e. *)
Unreferenced(e) == \A d \in Docs \ {e} : e \notin rows[d]

Archive(e) ==
  /\ Moved /\ life[e] = "live" /\ Unreferenced(e)
  /\ Become([Now EXCEPT !.life[e] = "archived"])
  /\ UNCHANGED <<means, writes>>

Restore(e) ==
  /\ Moved /\ life[e] = "archived"
  /\ Become([Now EXCEPT !.life[e] = "live"])
  /\ UNCHANGED <<means, writes>>

Delete(e) ==
  /\ Moved /\ life[e] # "gone" /\ Unreferenced(e)
  /\ Become([Now EXCEPT !.life[e] = "gone", !.ref[e] = NoLink,
                        !.also[e] = {}, !.rows[e] = {}])
  /\ means' = [means EXCEPT ![e] = NoDoc] /\ UNCHANGED writes

(* The server starts: every live document is indexed again. *)
BackfillMemoLinkIndex ==
  /\ Become(Synced(Now, {d \in Docs : life[d] = "live"}))
  /\ UNCHANGED <<means, writes, moves>>

Parents == {SubSeq(f, 1, Len(f) - 1) : f \in Folders \ {<<>>}}

(* What an author links to: a place in the own workspace, spelled from the  *)
(* root or from the document's folder, or any place by its workspace's title. *)
Written(d) ==
  UNION {{RootRelative(f, n)} \cup RelativeTo(place[d].folder, f, n) \cup
         {Qualified(name[w], f, n) : w \in Workspaces} : f \in Folders, n \in Titles}

Next ==
  \/ \E d \in Docs :
       \/ \E p \in Places : Create(d, p) \/ Relocate(d, p)
       \/ \E link \in Written(d), others \in SUBSET (Docs \ {d}) :
            Cardinality(others) <= 1 /\ Write(d, link, others)
       \/ Archive(d) \/ Restore(d) \/ Delete(d)
  \/ \E w \in Workspaces :
       \/ \E from, to \in Folders : RenameFolder(w, from, to)
       \/ \E from \in Folders, parent \in Parents, v \in Workspaces :
            MoveFolder(w, from, v, parent)
       \/ \E title \in WorkspaceTitles : RenameWorkspace(w, title)
  \/ BackfillMemoLinkIndex

Spec == Init /\ [][Next]_vars

---------------------------------------------------------------------------
(* Type invariant: no two documents share a place, no two workspaces a      *)
(* title.                                                                   *)
TypeOK ==
  /\ life \in [Docs -> {"gone", "live", "archived"}]
  /\ place \in [Docs -> Places] /\ name \in [Workspaces -> WorkspaceTitles]
  /\ ref \in [Docs -> Links] /\ also \in [Docs -> SUBSET Docs] /\ rows \in [Docs -> SUBSET Docs]
  /\ means \in [Docs -> Docs \cup {NoDoc}]
  /\ writes \in 0..MaxWrites /\ moves \in 0..MaxMoves
  /\ \A d, e \in Docs : d # e /\ "gone" \notin {life[d], life[e]} => place[d] # place[e]
  /\ \A v, w \in Workspaces : v # w => name[v] # name[w]

(* A link that named another document when it was written names the same    *)
(* document ever after, whatever is renamed, moved, carried to another      *)
(* knowledge base or archived, and in whatever order: as long as no move is *)
(* one of those that Risks names, of which each breaks it (Accepted).       *)
LinksKeepMeaning == \A d \in Docs : means[d] # NoDoc => Resolve(Now, d) = means[d]

(* The reverse index knows of every such link: what the refusal to archive  *)
(* or delete a referenced document, and the next repair, go by.             *)
IndexTells == \A d \in Docs : means[d] # NoDoc => means[d] \in rows[d]

(* A link is left as its author wrote it for as long as that still names    *)
(* the document, in a document that stays in its knowledge base.            *)
AsWritten ==
  [][\A d \in Docs :
       (/\ ref'[d] # ref[d] /\ means'[d] = means[d] /\ means[d] # NoDoc
        /\ place'[d].ws = place[d].ws /\ writes' = writes)
       => Reaches(Now', d, ref[d]) # means[d]]_vars
=============================================================================
