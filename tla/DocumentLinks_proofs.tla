----------------------- MODULE DocumentLinks_proofs -----------------------
(***************************************************************************)
(* Proofs about DocumentLinks, for any documents, knowledge bases, folders *)
(* and bounds: its type correctness -- with it that no two documents that  *)
(* exist share a place, through every rename and every carried subtree,    *)
(* and no two knowledge bases a title -- and, where users make none of the *)
(* moves that the repair is not up to, that links keep their meaning, that *)
(* the index has them, and that no repair rewrites one without need.       *)
(*                                                                         *)
(* The first half is about types: every repair leaves the documents where  *)
(* they are and writes links (the ...Same lemmas), so each request is      *)
(* judged by where it puts documents (the ...Keeps lemmas).  The second    *)
(* half reads a link without the trees (Reached: it spells the spot of a   *)
(* live document, and no other document is there), says once what each     *)
(* repair does to the link of one document (the ...Right lemmas), and then *)
(* goes through the requests (the ...Serves lemmas).                       *)
(***************************************************************************)
EXTENDS DocumentLinks, SequenceTheorems, TLAPS

\* The documents and what is kept about them, as a state of the repairs.
States == [life : [Docs -> {"gone", "live", "archived"}], place : [Docs -> Places],
           name : [Workspaces -> WorkspaceTitles], ref : [Docs -> Links],
           also : [Docs -> SUBSET Docs], rows : [Docs -> SUBSET Docs]]

Apart(s) ==
  /\ \A d, e \in Docs : d # e /\ "gone" \notin {s.life[d], s.life[e]} => s.place[d] # s.place[e]
  /\ \A v, w \in Workspaces : v # w => s.name[v] # s.name[w]

Good(s) == s \in States /\ Apart(s)

Bounded == /\ means \in [Docs -> Docs \cup {NoDoc}]
           /\ writes \in 0..MaxWrites /\ moves \in 0..MaxMoves

LEMMA Halves == TypeOK <=> Good(Now) /\ Bounded
  BY DEF TypeOK, Good, Apart, Bounded, States, Now

LEMMA HalvesNext == TypeOK' <=> Good(Now)' /\ Bounded'
  BY DEF TypeOK, Good, Apart, Bounded, States, Now

-----------------------------------------------------------------------------
(* Paths. *)

Names == UNION {{f[i] : i \in DOMAIN f} : f \in Folders}

LEMMA PathsAreSequences == Paths = Seq(Names)
  BY DEF Paths, Names

\* A part of a path is a path.
LEMMA PartOfPath ==
  ASSUME NEW f \in Paths, NEW m \in Nat \ {0}, NEW n \in Int, n <= Len(f)
  PROVE  SubSeq(f, m, n) \in Paths
<1>1. f \in Seq(Names) /\ Len(f) \in Nat
  BY PathsAreSequences, LenProperties
<1>2. \A i \in m..n : i \in 1..Len(f)
  BY <1>1
<1>3. \A i \in m..n : f[i] \in Names
  BY <1>1, <1>2, ElementOfSeq
<1>4. m \in Int
  OBVIOUS
<1> QED
  BY <1>3, <1>4, SubSeqProperties, PathsAreSequences

\* Swapping a leading folder for another gives a path.
LEMMA RebasedIsPath ==
  ASSUME NEW f \in Paths, NEW from \in Paths, NEW to \in Paths
  PROVE  Rebased(f, from, to) \in Paths
<1>1. Len(from) + 1 \in Nat \ {0} /\ Len(f) \in Int /\ Len(f) <= Len(f)
  BY PathsAreSequences, LenProperties
<1>2. SubSeq(f, Len(from) + 1, Len(f)) \in Paths
  BY <1>1, PartOfPath
<1> QED
  BY <1>2, PathsAreSequences, ConcatProperties DEF Rebased

LEMMA CancelLeft ==
  ASSUME NEW S, NEW r \in Seq(S), NEW s \in Seq(S), NEW t \in Seq(S), r \o s = r \o t
  PROVE  s = t
<1>1. Len(r) \in Nat /\ Len(s) \in Nat /\ Len(t) \in Nat
  BY LenProperties
<1>2. Len(s) = Len(t)
  BY <1>1, ConcatProperties
<1>3. ASSUME NEW i \in 1..Len(s)
      PROVE  s[i] = t[i]
  <2>1. Len(r) + i \in 1..Len(r) + Len(s) /\ ~(Len(r) + i <= Len(r))
        /\ (Len(r) + i) - Len(r) = i
    BY <1>1
  <2>2. (r \o s)[Len(r) + i] = s[i]
    BY <2>1, ConcatProperties
  <2>3. (r \o t)[Len(r) + i] = t[i]
    BY <1>2, <2>1, ConcatProperties
  <2> QED
    BY <2>2, <2>3
<1> QED
  BY <1>2, <1>3, SeqEqual

\* A folder that is under another one is that one and what comes after it.
LEMMA UnderIs ==
  ASSUME NEW f \in Paths, NEW from \in Paths, Under(f, from)
  PROVE  f = Rebased(f, from, from)
<1>1. f \in Seq(Names) /\ Len(f) \in Nat /\ Len(from) \in Nat
  BY PathsAreSequences, LenProperties
<1>2. Len(from) <= Len(f) /\ SubSeq(f, 1, Len(from)) = from
  BY DEF Under
<1>3. Len(f) \in 0..Len(f) /\ 1 \in 1..Len(f) + 1 /\ Len(from) \in 1 - 1..Len(f)
      /\ Len(f) \in Len(from)..Len(f)
  BY <1>1, <1>2
<1>4. SubSeq(f, 1, Len(from)) \o SubSeq(f, Len(from) + 1, Len(f)) = SubSeq(f, 1, Len(f))
  BY <1>1, <1>3, ConcatAdjacentSubSeq
<1>5. SubSeq(f, 1, Len(f)) = f
  BY <1>1, SubSeqFull
<1> QED
  BY <1>2, <1>4, <1>5 DEF Rebased

\* The parts of a path that is put together.
LEMMA PutTogether ==
  ASSUME NEW g \in Paths, NEW t \in Paths
  PROVE  /\ SubSeq(g \o t, 1, Len(g)) = g /\ Len(g) <= Len(g \o t)
         /\ SubSeq(g \o t, Len(g) + 1, Len(g \o t)) = t
         /\ Len(g) \in Nat /\ Len(t) \in Nat /\ Len(g \o t) = Len(g) + Len(t)
         /\ g \o t \in Paths
<1>1. /\ g \in Seq(Names) /\ t \in Seq(Names) /\ Len(g) \in Nat /\ Len(t) \in Nat
  BY PathsAreSequences, LenProperties
<1>2. /\ g \o t \in Seq(Names) /\ Len(g \o t) = Len(g) + Len(t)
      /\ \A i \in 1..Len(g) + Len(t) : (g \o t)[i] = IF i <= Len(g) THEN g[i] ELSE t[i - Len(g)]
  BY <1>1, ConcatProperties
<1>3. SubSeq(g \o t, 1, Len(g)) = g
  <2>1. /\ SubSeq(g \o t, 1, Len(g)) \in Seq(Names)
        /\ Len(SubSeq(g \o t, 1, Len(g))) = Len(g)
        /\ \A i \in 1..Len(g) : SubSeq(g \o t, 1, Len(g))[i] = (g \o t)[i]
    <3>1. \A i \in 1..Len(g) : (g \o t)[i] \in Names
      BY <1>1, <1>2, ElementOfSeq
    <3>2. 1 \in Int /\ Len(g) \in Int
      BY <1>1
    <3>3. /\ SubSeq(g \o t, 1, Len(g)) \in Seq(Names)
          /\ Len(SubSeq(g \o t, 1, Len(g))) = IF 1 <= Len(g) THEN Len(g) - 1 + 1 ELSE 0
          /\ \A i \in 1..Len(g) - 1 + 1 : SubSeq(g \o t, 1, Len(g))[i] = (g \o t)[1 + i - 1]
      BY <3>1, <3>2, SubSeqProperties
    <3>4. \A i \in 1..Len(g) : 1 + i - 1 = i /\ i \in 1..Len(g) - 1 + 1
      BY <1>1
    <3> QED
      BY <1>1, <3>3, <3>4
  <2>2. \A i \in 1..Len(g) : (g \o t)[i] = g[i]
    BY <1>1, <1>2
  <2> QED
    BY <1>1, <2>1, <2>2, SeqEqual
<1>4. SubSeq(g \o t, Len(g) + 1, Len(g \o t)) = t
  <2> DEFINE m == Len(g) + 1
             n == Len(g) + Len(t)
  <2>1. \A i \in m..n : (g \o t)[i] \in Names
    <3> SUFFICES ASSUME NEW i \in m..n PROVE (g \o t)[i] \in Names
      OBVIOUS
    <3>1. i \in 1..Len(g) + Len(t)
      BY <1>1
    <3> QED
      BY <1>2, <3>1, ElementOfSeq
  <2>2. m \in Int /\ n \in Int
    BY <1>1
  <2>3. /\ SubSeq(g \o t, m, n) \in Seq(Names)
        /\ Len(SubSeq(g \o t, m, n)) = IF m <= n THEN n - m + 1 ELSE 0
        /\ \A i \in 1..n - m + 1 : SubSeq(g \o t, m, n)[i] = (g \o t)[m + i - 1]
    BY <2>1, <2>2, SubSeqProperties
  <2>4. Len(SubSeq(g \o t, m, n)) = Len(t)
    BY <1>1, <2>3
  <2>5. ASSUME NEW i \in 1..Len(t) PROVE SubSeq(g \o t, m, n)[i] = t[i]
    <3>1. i \in 1..n - m + 1 /\ m + i - 1 \in 1..Len(g) + Len(t) /\ ~(m + i - 1 <= Len(g))
          /\ (m + i - 1) - Len(g) = i
      BY <1>1
    <3> QED
      BY <1>2, <2>3, <3>1
  <2> QED
    BY <1>1, <1>2, <2>3, <2>4, <2>5, SeqEqual
<1> QED
  BY <1>1, <1>2, <1>3, <1>4, PathsAreSequences

\* A folder whose leading part is swapped is under the new one, swapped back
\* it is as it was, and unless the parts are equal it is another folder.
LEMMA RebasedIs ==
  ASSUME NEW f \in Paths, NEW from \in Paths, NEW to \in Paths, Under(f, from)
  PROVE  /\ Rebased(f, from, to) \in Paths /\ Under(Rebased(f, from, to), to)
         /\ Rebased(Rebased(f, from, to), to, from) = f
         /\ from # to => Rebased(f, from, to) # f
<1> DEFINE t == SubSeq(f, Len(from) + 1, Len(f))
<1>1. t \in Paths
  <2>1. Len(from) + 1 \in Nat \ {0} /\ Len(f) \in Int /\ Len(f) <= Len(f)
    BY PathsAreSequences, LenProperties
  <2> QED
    BY <2>1, PartOfPath
<1>2. Rebased(f, from, to) = to \o t /\ f = from \o t
  BY UnderIs DEF Rebased
<1> HIDE DEF t
<1>3. /\ SubSeq(to \o t, 1, Len(to)) = to /\ Len(to) <= Len(to \o t)
      /\ SubSeq(to \o t, Len(to) + 1, Len(to \o t)) = t
      /\ Len(to) \in Nat /\ Len(t) \in Nat /\ Len(to \o t) = Len(to) + Len(t)
      /\ to \o t \in Paths
  BY <1>1, PutTogether
<1>4. /\ SubSeq(from \o t, 1, Len(from)) = from
      /\ Len(from) \in Nat /\ Len(from \o t) = Len(from) + Len(t)
  BY <1>1, PutTogether
<1>5. Rebased(Rebased(f, from, to), to, from) = f
  BY <1>2, <1>3 DEF Rebased
<1>6. Under(Rebased(f, from, to), to)
  BY <1>2, <1>3 DEF Under
<1>7. ASSUME Rebased(f, from, to) = f PROVE from = to
  <2>1. to \o t = from \o t
    BY <1>2, <1>7
  <2>3. Len(to) + Len(t) = Len(from) + Len(t)
    BY <1>3, <1>4, <2>1, Zenon
  <2>4. \A a, b, c \in Nat : a + c = b + c => a = b
    OBVIOUS
  <2>2. Len(to) = Len(from)
    BY <1>3, <1>4, <2>3, <2>4, Zenon
  <2> QED
    BY <1>3, <1>4, <2>1, <2>2
<1> QED
  BY <1>2, <1>3, <1>5, <1>6, <1>7

\* Folders under the one that is swapped stay apart.
LEMMA RebasedApart ==
  ASSUME NEW f \in Paths, NEW g \in Paths, NEW from \in Paths, NEW to \in Paths,
         Under(f, from), Under(g, from), Rebased(f, from, to) = Rebased(g, from, to)
  PROVE  f = g
<1> DEFINE tail(h) == SubSeq(h, Len(from) + 1, Len(h))
<1>1. \A h \in Paths : h \in Seq(Names) /\ Len(h) \in Nat
  BY PathsAreSequences, LenProperties
<1>2. tail(f) \in Seq(Names) /\ tail(g) \in Seq(Names)
  BY <1>1, PartOfPath, PathsAreSequences
<1>3. to \o tail(f) = to \o tail(g)
  BY DEF Rebased
<1>4. tail(f) = tail(g)
  BY <1>2, <1>3, PathsAreSequences, CancelLeft
<1>5. f = from \o tail(f) /\ g = from \o tail(g)
  BY UnderIs DEF Rebased
<1> QED
  BY <1>4, <1>5

-----------------------------------------------------------------------------
(* Resolution. *)

LEMMA PlacesTyped ==
  ASSUME NEW p \in Places
  PROVE  /\ p.ws \in Workspaces /\ p.folder \in Folders /\ p.folder \in Paths
         /\ p.title \in Titles
  BY Layout DEF Places

\* A link read from some folder names at most one folder and title.
LEMMA SpelledTyped ==
  ASSUME NEW base \in Paths, NEW link \in Links
  PROVE  Spelled(base, link) \subseteq Paths \X Titles
<1>1. CASE link.form = "path"
  <2>1. link.folder \in Paths /\ link.title \in Titles
    BY <1>1 DEF Links, NoLink
  <2> QED
    BY <1>1, <2>1 DEF Spelled
<1>2. CASE link.form = "relative" /\ link.up <= Len(base)
  <2>1. link.up \in Nat /\ link.folder \in Paths /\ link.title \in Titles
    BY <1>2 DEF Links, NoLink
  <2>2. Len(base) \in Nat /\ 1 \in Nat \ {0}
    BY PathsAreSequences, LenProperties
  <2>3. Len(base) - link.up \in Int /\ Len(base) - link.up <= Len(base)
    BY <2>1, <2>2
  <2>4. SubSeq(base, 1, Len(base) - link.up) \in Paths
    BY <2>2, <2>3, PartOfPath
  <2>5. SubSeq(base, 1, Len(base) - link.up) \o link.folder \in Paths
    BY <2>1, <2>4, PathsAreSequences, ConcatProperties
  <2>6. Spelled(base, link) =
          {<<SubSeq(base, 1, Len(base) - link.up) \o link.folder, link.title>>}
    BY <1>2, Zenon DEF Spelled
  <2> HIDE DEF Spelled
  <2>7. ASSUME NEW f \in Paths, NEW t \in Titles PROVE {<<f, t>>} \subseteq Paths \X Titles
    OBVIOUS
  <2> QED
    BY <2>1, <2>5, <2>6, <2>7
<1>3. CASE ~(link.form = "path") /\ ~(link.form = "relative" /\ link.up <= Len(base))
  BY <1>3 DEF Spelled
<1> QED
  BY <1>1, <1>2, <1>3

\* What a link is found to name is one of the documents of the tree, or none.
LEMMA FindTyped ==
  ASSUME NEW tree, DOMAIN tree \subseteq Docs, NEW spots
  PROVE  Find(tree, spots) \in Docs \cup {NoDoc}
<1> DEFINE hits == {d \in DOMAIN tree : tree[d] \in spots}
<1>1. CASE hits = {}
  BY <1>1 DEF Find
<1>2. CASE hits # {}
  <2>1. hits \in SUBSET Docs
    OBVIOUS
  <2>2. \E d \in hits : \A e \in hits : Listed[d] <= Listed[e]
    BY <1>2, <2>1, Layout
  <2> HIDE DEF hits
  <2>3. (CHOOSE d \in hits : \A e \in hits : Listed[d] <= Listed[e]) \in hits
    BY <2>2
  <2>4. Find(tree, spots) = CHOOSE d \in hits : \A e \in hits : Listed[d] <= Listed[e]
    BY <1>2 DEF Find, hits
  <2> QED
    BY <2>1, <2>3, <2>4
<1> QED
  BY <1>1, <1>2

LEMMA TreeTyped == \A s, w : DOMAIN Tree(s, w) \subseteq Docs
  BY DEF Tree

LEMMA ResolveTyped ==
  ASSUME NEW s, NEW d
  PROVE  Resolve(s, d) \in Docs \cup {NoDoc}
<1>1. ASSUME NEW w, NEW spots
      PROVE  Find(Tree(s, w), spots) \in Docs \cup {NoDoc}
  BY TreeTyped, FindTyped
<1> QED
  BY <1>1, Zenon DEF Resolve, Reaches

-----------------------------------------------------------------------------
(* Indexing and rewriting keep the documents where they are. *)

\* What a repair leaves alone.
Same(s, t) == /\ t \in States
              /\ t.life = s.life /\ t.place = s.place /\ t.name = s.name

LEMMA SyncedSame ==
  ASSUME NEW s \in States, NEW D
  PROVE  Same(s, Synced(s, D))
<1> DEFINE now == [d \in Docs |-> IF d \in D
                                  THEN ({Resolve(s, d)} \cup s.also[d]) \ {d, NoDoc}
                                  ELSE s.rows[d]]
<1>1. ASSUME NEW d \in Docs
      PROVE  /\ ({Resolve(s, d)} \cup s.also[d]) \ {d, NoDoc} \in SUBSET Docs
             /\ s.rows[d] \in SUBSET Docs
  <2>1. s.also[d] \in SUBSET Docs /\ s.rows[d] \in SUBSET Docs
    BY DEF States
  <2> QED
    BY <2>1, ResolveTyped
<1>2. now \in [Docs -> SUBSET Docs]
  BY <1>1
<1>3. Synced(s, D) = [s EXCEPT !.rows = now]
  BY DEF Synced
<1> HIDE DEF now
<1> QED
  BY <1>2, <1>3 DEF Same, States

LEMMA RewrittenSame ==
  ASSUME NEW s \in States, NEW links \in [Docs -> Links]
  PROVE  Same(s, Rewritten(s, links))
<1> DEFINE t == [s EXCEPT !.ref = links]
<1>1. Same(s, t)
  BY DEF Same, States
<1>2. Rewritten(s, links) = Synced(t, {d \in Docs : links[d] # s.ref[d]})
  BY DEF Rewritten
<1> HIDE DEF t
<1>3. Same(t, Synced(t, {d \in Docs : links[d] # s.ref[d]}))
  BY <1>1, SyncedSame DEF Same
<1> QED
  BY <1>1, <1>2, <1>3 DEF Same

\* The links that repairs write.
LEMMA WrittenLinks ==
  ASSUME NEW s \in States, NEW d \in Docs
  PROVE  s.ref[d] \in Links /\ CanonicalHref(s, d) \in Links /\ CrossHref(s, d) \in Links
<1>1. s.ref[d] \in Links /\ s.place[d] \in Places /\ s.name \in [Workspaces -> WorkspaceTitles]
  BY DEF States
<1>2. /\ s.place[d].ws \in Workspaces /\ s.place[d].folder \in Paths
      /\ s.place[d].title \in Titles
  BY <1>1, PlacesTyped
<1>3. s.name[s.place[d].ws] \in WorkspaceTitles
  BY <1>1, <1>2
<1> QED
  BY <1>1, <1>2, <1>3 DEF CanonicalHref, CrossHref, RootRelative, Qualified, Links

-----------------------------------------------------------------------------
(* So does each repair. *)

\* The moved documents that repairInboundLinks takes d's link to name, and
\* what it makes of the link.
Naming(s, moved, was, d) ==
  {e \in moved \ {d} : /\ e \in s.rows[d] /\ InWorkspace(s.ref[d])
                       /\ Find(AsOf(s, s.place[d].ws, e, was[e]),
                               Spelled(s.place[d].folder, s.ref[d])) = e}

InboundLink(s, moved, was, d) ==
  LET named == Naming(s, moved, was, d)
  IN IF named = {} THEN s.ref[d]
     ELSE LET e == CHOOSE x \in named : TRUE
          IN IF s.place[d].ws = s.place[e].ws THEN CanonicalHref(s, e) ELSE CrossHref(s, e)

LEMMA InboundIs ==
  ASSUME NEW s \in States, NEW moved \in SUBSET Docs, NEW was
  PROVE  /\ InboundRepaired(s, moved, was)
               = Rewritten(s, [d \in Docs |-> InboundLink(s, moved, was, d)])
         /\ [d \in Docs |-> InboundLink(s, moved, was, d)] \in [Docs -> Links]
<1> DEFINE named(d) == Naming(s, moved, was, d)
           link(d) == InboundLink(s, moved, was, d)
<1>1. ASSUME NEW d \in Docs
      PROVE  link(d) \in Links
  <2>1. CASE named(d) = {}
    BY <2>1, WrittenLinks DEF InboundLink
  <2>2. CASE named(d) # {}
    <3>1. named(d) \subseteq Docs
      BY DEF Naming
    <3> DEFINE e == CHOOSE x \in named(d) : TRUE
    <3>2. link(d) = IF s.place[d].ws = s.place[e].ws THEN CanonicalHref(s, e) ELSE CrossHref(s, e)
      BY <2>2 DEF InboundLink
    <3> HIDE DEF named
    <3>3. e \in Docs
      BY <2>2, <3>1
    <3> HIDE DEF e, link
    <3> QED
      BY <3>2, <3>3, WrittenLinks
  <2> QED
    BY <2>1, <2>2
<1>2. InboundRepaired(s, moved, was) = Rewritten(s, [d \in Docs |-> link(d)])
  BY DEF InboundRepaired, InboundLink, Naming
<1> HIDE DEF link
<1>3. [d \in Docs |-> link(d)] \in [Docs -> Links]
  BY <1>1
<1> QED
  BY <1>2, <1>3 DEF link

LEMMA InboundSame ==
  ASSUME NEW s \in States, NEW moved \in SUBSET Docs, NEW was
  PROVE  Same(s, InboundRepaired(s, moved, was))
  BY InboundIs, RewrittenSame

\* Folders that documents are remembered to have been in.
Remembered(oldFolder) == \A d \in DOMAIN oldFolder : oldFolder[d] \in Paths

LEMMA NothingSpelled == \A tree : Find(tree, {}) = NoDoc
  BY DEF Find

\* A relative link that its document's move leaves without a document, and
\* what fossilizeOutboundRelativeLinks makes of it.
Stranded(s, w, oldFolder, d) ==
  /\ d \in DOMAIN oldFolder /\ s.place[d].folder # oldFolder[d]
  /\ s.ref[d].form = "relative"
  /\ Find(Tree(s, w), Spelled(s.place[d].folder, s.ref[d])) = NoDoc
  /\ Find(Tree(s, w), Spelled(oldFolder[d], s.ref[d])) # NoDoc

FossilLink(s, w, oldFolder, d) ==
  IF Stranded(s, w, oldFolder, d)
  THEN LET spot == CHOOSE x \in Spelled(oldFolder[d], s.ref[d]) : TRUE
       IN RootRelative(spot[1], spot[2])
  ELSE s.ref[d]

LEMMA FossilizedIs ==
  ASSUME NEW s \in States, NEW w, NEW oldFolder, Remembered(oldFolder)
  PROVE  /\ Fossilized(s, w, oldFolder)
               = Rewritten(s, [d \in Docs |-> FossilLink(s, w, oldFolder, d)])
         /\ [d \in Docs |-> FossilLink(s, w, oldFolder, d)] \in [Docs -> Links]
<1> DEFINE spots(d) == Spelled(oldFolder[d], s.ref[d])
           spot(d) == CHOOSE x \in spots(d) : TRUE
           stranded(d) == Stranded(s, w, oldFolder, d)
           link(d) == FossilLink(s, w, oldFolder, d)
<1>1. ASSUME NEW d \in Docs
      PROVE  link(d) \in Links
  <2>1. CASE ~stranded(d)
    BY <2>1, WrittenLinks DEF FossilLink
  <2>2. CASE stranded(d)
    <3>1. oldFolder[d] \in Paths
      BY <2>2 DEF Remembered, Stranded
    <3>2. spots(d) \subseteq Paths \X Titles
      BY <3>1, WrittenLinks, SpelledTyped
    <3>3. spots(d) # {}
      BY <2>2, NothingSpelled DEF Stranded
    <3>5. link(d) = RootRelative(spot(d)[1], spot(d)[2])
      BY <2>2 DEF FossilLink
    <3> HIDE DEF spots
    <3>4. spot(d) \in Paths \X Titles
      BY <3>2, <3>3
    <3> HIDE DEF spot, link
    <3> QED
      BY <3>4, <3>5 DEF RootRelative, Links
  <2> QED
    BY <2>1, <2>2
<1>2. Fossilized(s, w, oldFolder) = Rewritten(s, [d \in Docs |-> link(d)])
  BY DEF Fossilized, FossilLink, Stranded
<1> HIDE DEF link
<1>3. [d \in Docs |-> link(d)] \in [Docs -> Links]
  BY <1>1
<1> QED
  BY <1>2, <1>3 DEF link

LEMMA FossilizedSame ==
  ASSUME NEW s \in States, NEW w, NEW oldFolder, Remembered(oldFolder)
  PROVE  Same(s, Fossilized(s, w, oldFolder))
  BY FossilizedIs, RewrittenSame

\* What rewriteOutboundLinksAfterWorkspaceMove makes of d's link.
LeftBehind(s, w, oldFolder, d) ==
  IF d \in DOMAIN oldFolder THEN Find(Tree(s, w), Spelled(oldFolder[d], s.ref[d])) ELSE NoDoc

OutboundLink(s, w, oldFolder, alongside, d) ==
  IF LeftBehind(s, w, oldFolder, d) = NoDoc \/ LeftBehind(s, w, oldFolder, d) \in alongside
  THEN s.ref[d] ELSE CrossHref(s, LeftBehind(s, w, oldFolder, d))

LEMMA OutboundIs ==
  ASSUME NEW s \in States, NEW w, NEW oldFolder, NEW alongside
  PROVE  /\ OutboundRewritten(s, w, oldFolder, alongside)
               = Rewritten(s, [d \in Docs |-> OutboundLink(s, w, oldFolder, alongside, d)])
         /\ [d \in Docs |-> OutboundLink(s, w, oldFolder, alongside, d)] \in [Docs -> Links]
<1> DEFINE link(d) == OutboundLink(s, w, oldFolder, alongside, d)
<1>1. ASSUME NEW d \in Docs
      PROVE  link(d) \in Links
  <2>1. LeftBehind(s, w, oldFolder, d) \in Docs \cup {NoDoc}
    BY TreeTyped, FindTyped DEF LeftBehind
  <2> QED
    BY <2>1, WrittenLinks DEF OutboundLink
<1>2. OutboundRewritten(s, w, oldFolder, alongside) = Rewritten(s, [d \in Docs |-> link(d)])
  BY DEF OutboundRewritten, OutboundLink, LeftBehind
<1> HIDE DEF link
<1>3. [d \in Docs |-> link(d)] \in [Docs -> Links]
  BY <1>1
<1> QED
  BY <1>2, <1>3 DEF link

LEMMA OutboundSame ==
  ASSUME NEW s \in States, NEW w, NEW oldFolder, NEW alongside
  PROVE  Same(s, OutboundRewritten(s, w, oldFolder, alongside))
  BY OutboundIs, RewrittenSame

\* What repairFolderMoveReferences makes of d's link before it turns to the
\* relative links of the subtree.
Beneath(s, w, to) == {d \in Docs : /\ s.life[d] # "gone" /\ s.place[d].ws = w
                                   /\ Under(s.place[d].folder, to)}

Swapping(s, w, from, to, d) ==
  IF s.ref[d].form = "relative" /\ d \in Beneath(s, w, to) THEN {}
  ELSE {x \in Spelled(s.place[d].folder, s.ref[d]) : Under(x[1], from)}

SwappedLink(s, w, from, to, d) ==
  IF /\ s.place[d].ws = w /\ s.rows[d] \cap Beneath(s, w, to) # {}
     /\ Swapping(s, w, from, to, d) # {}
  THEN LET x == CHOOSE y \in Swapping(s, w, from, to, d) : TRUE
       IN RootRelative(Rebased(x[1], from, to), x[2])
  ELSE s.ref[d]

Swapped(s, w, from, to) == Rewritten(s, [d \in Docs |-> SwappedLink(s, w, from, to, d)])

WasIn(s, w, from, to) == [d \in Beneath(s, w, to) |-> Rebased(s.place[d].folder, to, from)]

LEMMA SweptIs ==
  ASSUME NEW s \in States, NEW w, NEW from \in Paths, NEW to \in Paths
  PROVE  /\ Swept(s, w, from, to) = Fossilized(Swapped(s, w, from, to), w, WasIn(s, w, from, to))
         /\ [d \in Docs |-> SwappedLink(s, w, from, to, d)] \in [Docs -> Links]
         /\ Remembered(WasIn(s, w, from, to))
<1> DEFINE spots(d) == Swapping(s, w, from, to, d)
           spot(d) == CHOOSE y \in spots(d) : TRUE
           link(d) == SwappedLink(s, w, from, to, d)
<1>1. \A d \in Docs : s.place[d].folder \in Paths /\ s.ref[d] \in Links
  BY PlacesTyped, WrittenLinks DEF States
<1>2. ASSUME NEW d \in Docs
      PROVE  link(d) \in Links
  <2>1. CASE link(d) = s.ref[d]
    BY <1>1, <2>1
  <2>2. CASE link(d) # s.ref[d]
    <3>0. spots(d) # {} /\ link(d) = RootRelative(Rebased(spot(d)[1], from, to), spot(d)[2])
      BY <2>2 DEF SwappedLink
    <3>1. Spelled(s.place[d].folder, s.ref[d]) \subseteq Paths \X Titles
      BY <1>1, SpelledTyped
    <3>2. spots(d) \subseteq Paths \X Titles
      BY <3>1 DEF Swapping
    <3> HIDE DEF spots
    <3>4. spot(d) \in Paths \X Titles
      BY <3>0, <3>2
    <3> HIDE DEF spot, link
    <3>5. Rebased(spot(d)[1], from, to) \in Paths /\ spot(d)[2] \in Titles
      BY <3>4, RebasedIsPath
    <3> QED
      BY <3>0, <3>5 DEF RootRelative, Links
  <2> QED
    BY <2>1, <2>2
<1>3. Remembered(WasIn(s, w, from, to))
  <2> SUFFICES ASSUME NEW d \in Beneath(s, w, to)
               PROVE  Rebased(s.place[d].folder, to, from) \in Paths
    BY Zenon DEF Remembered, WasIn
  <2>1. d \in Docs
    BY DEF Beneath
  <2> QED
    BY <1>1, <2>1, RebasedIsPath
<1>4. Swept(s, w, from, to) = Fossilized(Swapped(s, w, from, to), w, WasIn(s, w, from, to))
  <2> DEFINE subtree == Beneath(s, w, to)
             swap(d) ==
               LET found == IF s.ref[d].form = "relative" /\ d \in subtree THEN {}
                            ELSE {x \in Spelled(s.place[d].folder, s.ref[d]) : Under(x[1], from)}
               IN IF found = {} THEN s.ref[d]
                  ELSE LET x == CHOOSE y \in found : TRUE
                       IN RootRelative(Rebased(x[1], from, to), x[2])
             swapping(d) == IF s.place[d].ws = w /\ s.rows[d] \cap subtree # {}
                            THEN swap(d) ELSE s.ref[d]
  <2>1. Swept(s, w, from, to) = Fossilized(Rewritten(s, [d \in Docs |-> swapping(d)]), w,
                                  [d \in subtree |-> Rebased(s.place[d].folder, to, from)])
    BY DEF Swept, Beneath
  <2>2. ASSUME NEW d \in Docs PROVE swapping(d) = SwappedLink(s, w, from, to, d)
    BY DEF SwappedLink, Swapping
  <2> HIDE DEF swapping
  <2>3. [d \in Docs |-> swapping(d)] = [d \in Docs |-> SwappedLink(s, w, from, to, d)]
    BY <2>2
  <2> QED
    BY <2>1, <2>3, Zenon DEF Swapped, WasIn
<1> HIDE DEF link
<1>5. [d \in Docs |-> link(d)] \in [Docs -> Links]
  BY <1>2
<1> QED
  BY <1>3, <1>4, <1>5 DEF link

LEMMA SweptSame ==
  ASSUME NEW s \in States, NEW w, NEW from \in Paths, NEW to \in Paths
  PROVE  Same(s, Swapped(s, w, from, to)) /\ Same(s, Swept(s, w, from, to))
<1>1. Same(s, Swapped(s, w, from, to))
  BY SweptIs, RewrittenSame DEF Swapped
<1>2. Same(Swapped(s, w, from, to),
           Fossilized(Swapped(s, w, from, to), w, WasIn(s, w, from, to)))
  BY <1>1, SweptIs, FossilizedSame DEF Same
<1> QED
  BY <1>1, <1>2, SweptIs DEF Same

-----------------------------------------------------------------------------
(* The requests. *)

LEMMA SameGood ==
  ASSUME NEW s, Good(s), NEW t, Same(s, t)
  PROVE  Good(t)
  BY DEF Good, Apart, Same

LEMMA Becomes ==
  ASSUME NEW STATE s, Good(s), Become(s)
  PROVE  Good(Now)'
<1>1. Now' = [life |-> s.life, place |-> s.place, name |-> s.name,
              ref |-> s.ref, also |-> s.also, rows |-> s.rows]
  BY DEF Become, Now
<1>2. Now' = s
  BY <1>1 DEF Good, States
<1> QED
  BY <1>2 DEF Good, Apart, States

\* A request but Write changes the documents and at most counts a move.
LEMMA Settles ==
  ASSUME TypeOK, NEW STATE s, Good(s), Become(s), Moved \/ UNCHANGED moves,
         means' \in [Docs -> Docs \cup {NoDoc}], UNCHANGED writes
  PROVE  TypeOK'
<1>1. Good(Now)'
  BY Becomes
<1>2. Bounded'
  BY Halves, Limits DEF Bounded, Moved
<1> QED
  BY <1>1, <1>2, HalvesNext

LEMMA CreateKeeps ==
  ASSUME TypeOK, NEW d \in Docs, NEW p \in Places, Create(d, p)
  PROVE  TypeOK'
<1> DEFINE s == [Now EXCEPT !.life[d] = "live", !.place[d] = p]
<1>1. Good(Now) /\ Bounded
  BY Halves
<1>2. s \in States
  BY <1>1 DEF Good, States, Now
<1>3. Apart(s)
  BY <1>1 DEF Good, Apart, States, Now, Create, Free
<1>4. Become(s) /\ Moved /\ UNCHANGED <<means, writes>>
  BY DEF Create
<1> HIDE DEF s
<1> QED
  BY <1>1, <1>2, <1>3, <1>4, Settles DEF Good, Bounded

\* A document in another life, its links gone if it is deleted.
LEMMA LifeKeeps ==
  ASSUME TypeOK, NEW e \in Docs, Archive(e) \/ Restore(e) \/ Delete(e)
  PROVE  TypeOK'
<1>1. Good(Now) /\ Bounded
  BY Halves
<1>2. CASE Archive(e)
  <2> DEFINE s == [Now EXCEPT !.life[e] = "archived"]
  <2>1. s \in States
    BY <1>1 DEF Good, States, Now
  <2>2. Apart(s)
    BY <1>1, <1>2 DEF Good, Apart, States, Now, Archive
  <2>3. Become(s) /\ Moved /\ UNCHANGED <<means, writes>>
    BY <1>2 DEF Archive
  <2> HIDE DEF s
  <2> QED
    BY <1>1, <2>1, <2>2, <2>3, Settles DEF Good, Bounded
<1>3. CASE Restore(e)
  <2> DEFINE s == [Now EXCEPT !.life[e] = "live"]
  <2>1. s \in States
    BY <1>1 DEF Good, States, Now
  <2>2. Apart(s)
    BY <1>1, <1>3 DEF Good, Apart, States, Now, Restore
  <2>3. Become(s) /\ Moved /\ UNCHANGED <<means, writes>>
    BY <1>3 DEF Restore
  <2> HIDE DEF s
  <2> QED
    BY <1>1, <2>1, <2>2, <2>3, Settles DEF Good, Bounded
<1>4. CASE Delete(e)
  <2> DEFINE s == [Now EXCEPT !.life[e] = "gone", !.ref[e] = NoLink,
                              !.also[e] = {}, !.rows[e] = {}]
  <2>1. s \in States
    BY <1>1 DEF Good, States, Now, Links
  <2>2. Apart(s)
    BY <1>1, <1>4 DEF Good, Apart, States, Now
  <2>3. Become(s) /\ Moved /\ means' \in [Docs -> Docs \cup {NoDoc}] /\ UNCHANGED writes
    BY <1>1, <1>4 DEF Delete, Bounded
  <2> HIDE DEF s
  <2> QED
    BY <2>1, <2>2, <2>3, Settles DEF Good
<1> QED
  BY <1>2, <1>3, <1>4

LEMMA PartOfFolder ==
  ASSUME NEW f \in Folders
  PROVE  f \in Paths /\ Len(f) \in Nat
         /\ \A n \in Int : n <= Len(f) => SubSeq(f, 1, n) \in Paths
         /\ \A m \in Nat \ {0} : SubSeq(f, m, Len(f)) \in Paths
<1>1. f \in Paths /\ Len(f) \in Nat
  BY Layout, PathsAreSequences, LenProperties
<1> QED
  BY <1>1, PartOfPath

LEMMA LinksWritten ==
  ASSUME TypeOK, NEW d \in Docs
  PROVE  Written(d) \subseteq Links
<1>1. place[d].folder \in Folders /\ name \in [Workspaces -> WorkspaceTitles]
  BY PlacesTyped DEF TypeOK
<1>2. ASSUME NEW f \in Folders, NEW n \in Titles
      PROVE  /\ RootRelative(f, n) \in Links
             /\ RelativeTo(place[d].folder, f, n) \subseteq Links
             /\ \A w \in Workspaces : Qualified(name[w], f, n) \in Links
  <2>1. f \in Paths /\ Len(place[d].folder) \in Nat
    BY <1>1, PartOfFolder
  <2>2. ASSUME NEW up \in 0..Len(place[d].folder)
        PROVE  Relative(up, SubSeq(f, Len(place[d].folder) - up + 1, Len(f)), n) \in Links
    <3>1. Len(place[d].folder) - up + 1 \in Nat \ {0} /\ up \in Nat
      BY <2>1
    <3>2. SubSeq(f, Len(place[d].folder) - up + 1, Len(f)) \in Paths
      BY <3>1, PartOfFolder
    <3> QED
      BY <3>1, <3>2 DEF Relative, Links
  <2>3. RootRelative(f, n) \in Links
    BY <2>1 DEF RootRelative, Links
  <2>4. \A w \in Workspaces : Qualified(name[w], f, n) \in Links
    BY <1>1, <2>1 DEF Qualified, Links
  <2> QED
    BY <2>2, <2>3, <2>4 DEF RelativeTo
<1> QED
  BY <1>2 DEF Written

LEMMA WriteKeeps ==
  ASSUME TypeOK, NEW d \in Docs, NEW link \in Written(d), NEW others \in SUBSET Docs,
         Write(d, link, others)
  PROVE  TypeOK'
<1> DEFINE t == [Now EXCEPT !.ref[d] = link, !.also[d] = others]
           s == Synced(t, {d})
<1>1. Good(Now) /\ Bounded
  BY Halves
<1>2. Good(t)
  BY <1>1, LinksWritten DEF Good, Apart, States, Now
<1>3. /\ Become(s) /\ writes < MaxWrites /\ writes' = writes + 1 /\ UNCHANGED moves
      /\ means' = [means EXCEPT ![d] = IF Resolve(s, d) = d THEN NoDoc ELSE Resolve(s, d)]
  BY DEF Write
<1> HIDE DEF t
<1>4. Good(s)
  BY <1>2, SyncedSame, SameGood DEF Good
<1> HIDE DEF s
<1>5. Good(Now)'
  BY <1>3, <1>4, Becomes
<1>6. Bounded'
  BY <1>1, <1>3, ResolveTyped, Limits DEF Bounded
<1> QED
  BY <1>5, <1>6, HalvesNext

LEMMA BackfillKeeps ==
  ASSUME TypeOK, BackfillMemoLinkIndex
  PROVE  TypeOK'
<1> DEFINE s == Synced(Now, {d \in Docs : life[d] = "live"})
<1>1. Good(Now) /\ Bounded
  BY Halves
<1>2. Good(s)
  BY <1>1, SyncedSame, SameGood DEF Good
<1>3. Become(s) /\ UNCHANGED <<means, writes, moves>>
  BY DEF BackfillMemoLinkIndex
<1> HIDE DEF s
<1> QED
  BY <1>1, <1>2, <1>3, Settles DEF Bounded

LEMMA RenameWorkspaceKeeps ==
  ASSUME TypeOK, NEW w \in Workspaces, NEW title \in WorkspaceTitles, RenameWorkspace(w, title)
  PROVE  TypeOK'
<1> DEFINE s == [Now EXCEPT !.name[w] = title]
           targets == {d \in Docs : life[d] # "gone" /\ place[d].ws = w}
           link(d) == IF rows[d] \cap targets # {} /\ ref[d].form = "qualified"
                         /\ ref[d].base = name[w]
                      THEN [ref[d] EXCEPT !.base = title] ELSE ref[d]
           t == Rewritten(s, [d \in Docs |-> link(d)])
<1>1. Good(Now) /\ Bounded
  BY Halves
<1>2. Good(s)
  BY <1>1 DEF Good, Apart, States, Now, RenameWorkspace
<1>3. ASSUME NEW d \in Docs
      PROVE  link(d) \in Links
  <2>1. ref[d] \in Links
    BY DEF TypeOK
  <2>2. ref[d].form = "qualified" => [ref[d] EXCEPT !.base = title] \in Links
    BY <2>1 DEF Links, NoLink
  <2> QED
    BY <2>1, <2>2
<1>4. Become(t) /\ Moved /\ UNCHANGED <<means, writes>>
  BY DEF RenameWorkspace
<1> HIDE DEF link, s
<1>5. [d \in Docs |-> link(d)] \in [Docs -> Links]
  BY <1>3
<1>6. Good(t)
  BY <1>2, <1>5, RewrittenSame, SameGood DEF Good
<1> HIDE DEF t
<1> QED
  BY <1>1, <1>4, <1>6, Settles DEF Bounded

LEMMA RelocateKeeps ==
  ASSUME TypeOK, NEW e \in Docs, NEW p \in Places, Relocate(e, p)
  PROVE  TypeOK'
<1> DEFINE old == place[e]
           s == [Now EXCEPT !.place[e] = p]
           was == [d \in {e} |-> Spot(Now, d)]
           inbound == InboundRepaired(s, {e}, was)
           folder == [d \in {e} |-> old.folder]
           t == IF p.ws # old.ws THEN OutboundRewritten(inbound, old.ws, folder, {})
                ELSE IF p.folder # old.folder THEN Fossilized(inbound, p.ws, folder)
                ELSE inbound
<1>1. Good(Now) /\ Bounded
  BY Halves
<1>2. Good(s)
  BY <1>1 DEF Good, Apart, States, Now, Relocate, Free
<1>3. Become(t) /\ Moved /\ UNCHANGED <<means, writes>>
  BY DEF Relocate
<1>4. Remembered(folder)
  BY PlacesTyped DEF Remembered, TypeOK
<1> HIDE DEF s, was, folder
<1>5. Good(inbound)
  BY <1>2, InboundSame, SameGood DEF Good
<1> HIDE DEF inbound
<1>6. Good(OutboundRewritten(inbound, old.ws, folder, {}))
  BY <1>5, OutboundSame, SameGood DEF Good
<1>7. Good(Fossilized(inbound, p.ws, folder))
  BY <1>4, <1>5, FossilizedSame, SameGood DEF Good
<1>8. Good(t)
  BY <1>5, <1>6, <1>7
<1> HIDE DEF t
<1> QED
  BY <1>1, <1>3, <1>8, Settles DEF Bounded

\* The documents that are carried stay apart from each other, because their
\* folders were, and from the rest, by the refusal.
LEMMA CarriedGood ==
  ASSUME TypeOK, NEW w \in Workspaces, NEW v \in Workspaces,
         NEW from \in Paths, NEW to \in Paths, Carry(w, from, v, to)
  PROVE  Good([Now EXCEPT !.place = Carried(w, from, v, to)])
<1> DEFINE new == Carried(w, from, v, to)
           memos == Subtree(w, from)
           s == [Now EXCEPT !.place = new]
<1>1. Good(Now)
  BY Halves
<1>2. \A d \in Docs : place[d] \in Places
  BY DEF TypeOK
<1>3. \A d \in Docs : new[d] = IF d \in memos
                              THEN [ws |-> v, folder |-> Rebased(place[d].folder, from, to),
                                    title |-> place[d].title]
                              ELSE place[d]
  BY DEF Carried
<1>4. memos \subseteq Docs
      /\ \A d \in memos : place[d].ws = w /\ Under(place[d].folder, from)
  BY DEF Subtree
<1>5. /\ \A d \in Docs : new[d].folder \in Folders
      /\ \A d \in memos, e \in Docs \ memos : life[e] # "gone" => place[e] # new[d]
  BY DEF Carry
<1>0. new = [d \in Docs |-> new[d]]
  BY DEF Carried
<1> HIDE DEF new, memos
<1>6. new \in [Docs -> Places]
  <2>1. ASSUME NEW d \in memos
        PROVE  new[d] \in Places
    <3>1. d \in Docs
      BY <1>4
    <3>2. place[d].title \in Titles
      BY <1>2, <3>1, PlacesTyped
    <3>3. new[d] = [ws |-> v, folder |-> Rebased(place[d].folder, from, to),
                    title |-> place[d].title]
      BY <1>3, <3>1
    <3>4. Rebased(place[d].folder, from, to) \in Folders
      BY <1>5, <3>1, <3>3
    <3> QED
      BY <3>2, <3>3, <3>4 DEF Places
  <2> QED
    BY <1>2, <1>3, <1>0, <2>1
<1>7. ASSUME NEW d \in Docs, NEW e \in Docs, d # e, life[d] # "gone", life[e] # "gone"
      PROVE  new[d] # new[e]
  <2>1. place[d] # place[e]
    BY <1>7 DEF TypeOK
  <2>2. CASE d \in memos /\ e \in memos
    <3>1. place[d].folder \in Paths /\ place[e].folder \in Paths
      BY <1>2, PlacesTyped
    <3>2. Rebased(place[d].folder, from, to) = Rebased(place[e].folder, from, to)
            => place[d].folder = place[e].folder
      BY <1>4, <2>2, <3>1, RebasedApart
    <3>3. place[d].folder # place[e].folder \/ place[d].title # place[e].title
      BY <1>2, <1>4, <2>1, <2>2 DEF Places
    <3>4. ASSUME NEW x \in memos
          PROVE  /\ new[x].folder = Rebased(place[x].folder, from, to)
                 /\ new[x].title = place[x].title
      <4>1. new[x] = [ws |-> v, folder |-> Rebased(place[x].folder, from, to),
                      title |-> place[x].title]
        BY <1>3, <1>4
      <4> QED
        BY <4>1
    <3>5. /\ new[d].folder = Rebased(place[d].folder, from, to)
          /\ new[e].folder = Rebased(place[e].folder, from, to)
          /\ new[d].title = place[d].title /\ new[e].title = place[e].title
      BY <2>2, <3>4
    <3> QED
      BY <3>2, <3>3, <3>5
  <2>3. CASE d \in memos /\ e \notin memos
    BY <1>3, <1>5, <1>7, <2>3
  <2>4. CASE d \notin memos /\ e \in memos
    BY <1>3, <1>5, <1>7, <2>4
  <2>5. CASE d \notin memos /\ e \notin memos
    BY <1>3, <2>1, <2>5
  <2> QED
    BY <2>2, <2>3, <2>4, <2>5
<1>8. s \in States
  BY <1>1, <1>6 DEF Good, States, Now
<1>9. Apart(s)
  BY <1>1, <1>7 DEF Good, Apart, Now
<1> QED
  BY <1>8, <1>9 DEF Good, new

LEMMA RenameFolderKeeps ==
  ASSUME TypeOK, NEW w \in Workspaces, NEW from \in Folders, NEW to \in Folders,
         RenameFolder(w, from, to)
  PROVE  TypeOK'
<1> DEFINE s == [Now EXCEPT !.place = Carried(w, from, w, to)]
           t == Swept(s, w, from, to)
<1>1. from \in Paths /\ to \in Paths
  BY Layout
<1>2. Carry(w, from, w, to) /\ Become(t) /\ UNCHANGED <<means, writes>>
  BY DEF RenameFolder
<1>3. Good(s)
  BY <1>1, <1>2, CarriedGood
<1> HIDE DEF s
<1>4. Good(t)
  BY <1>1, <1>3, SweptSame, SameGood DEF Good
<1> HIDE DEF t
<1>5. Moved
  BY <1>2 DEF Carry
<1> QED
  BY <1>2, <1>4, <1>5, Settles, Halves DEF Bounded

\* The path of a folder that is moved under another one.
LEMMA MovedPath ==
  ASSUME NEW from \in Folders, from # <<>>, NEW parent \in Parents
  PROVE  from \in Paths /\ Append(parent, from[Len(from)]) \in Paths
<1>1. from \in Seq(Names) /\ from # <<>>
  BY Layout, PathsAreSequences
<1>2. Len(from) \in Nat \ {0}
  BY <1>1, EmptySeq
<1>3. from[Len(from)] \in Names
  BY <1>1, <1>2, ElementOfSeq
<1>4. parent \in Paths
  <2>1. PICK f \in Folders : parent = SubSeq(f, 1, Len(f) - 1)
    BY DEF Parents
  <2>2. Len(f) - 1 \in Int /\ Len(f) - 1 <= Len(f)
    BY PartOfFolder
  <2> QED
    BY <2>1, <2>2, PartOfFolder
<1> QED
  BY <1>1, <1>3, <1>4, PathsAreSequences, AppendProperties

LEMMA MoveFolderKeeps ==
  ASSUME TypeOK, NEW w \in Workspaces, NEW v \in Workspaces, NEW from \in Folders,
         NEW parent \in Parents, MoveFolder(w, from, v, parent)
  PROVE  TypeOK'
<1> DEFINE to == Append(parent, from[Len(from)])
           memos == Subtree(w, from)
           s == [Now EXCEPT !.place = Carried(w, from, v, to)]
           swept == IF from = to THEN s ELSE Swept(s, v, from, to)
           was == [d \in memos |-> Spot(Now, d)]
           inbound == InboundRepaired(swept, memos, was)
           folder == [d \in memos |-> place[d].folder]
           t == OutboundRewritten(inbound, w, folder, memos)
<1>1. from \in Paths /\ to \in Paths
  BY MovedPath DEF MoveFolder
<1>2. Carry(w, from, v, to) /\ Become(t) /\ UNCHANGED <<means, writes>>
  BY DEF MoveFolder
<1> HIDE DEF to
<1>3. Good(s)
  BY <1>1, <1>2, CarriedGood
<1> HIDE DEF s
<1>4. Good(swept)
  BY <1>1, <1>3, SweptSame, SameGood DEF Good
<1>5. memos \in SUBSET Docs
  BY DEF Subtree
<1> HIDE DEF swept, memos, was, folder
<1>6. Good(inbound)
  BY <1>4, <1>5, InboundSame, SameGood DEF Good
<1> HIDE DEF inbound
<1>7. Good(t)
  BY <1>6, OutboundSame, SameGood DEF Good
<1> HIDE DEF t
<1>8. Moved
  BY <1>2 DEF Carry
<1> QED
  BY <1>2, <1>7, <1>8, Settles, Halves DEF Bounded

-----------------------------------------------------------------------------
LEMMA InitTyped == Init => TypeOK
<1>1. ASSUME Init PROVE TypeOK
  <2>1. NoLink \in Links
    BY DEF Links
  <2> QED
    BY <1>1, <2>1, Layout, Limits DEF Init, TypeOK
<1> QED
  BY <1>1

LEMMA StepTyped == TypeOK /\ [Next]_vars => TypeOK'
<1> SUFFICES ASSUME TypeOK, [Next]_vars
             PROVE  TypeOK'
  OBVIOUS
<1>1. CASE \E d \in Docs, p \in Places : Create(d, p) \/ Relocate(d, p)
  BY <1>1, CreateKeeps, RelocateKeeps
<1>2. CASE \E d \in Docs : \E link \in Written(d), others \in SUBSET (Docs \ {d}) :
             Write(d, link, others)
  BY <1>2, WriteKeeps
<1>3. CASE \E d \in Docs : Archive(d) \/ Restore(d) \/ Delete(d)
  BY <1>3, LifeKeeps
<1>4. CASE \E w \in Workspaces, from, to \in Folders : RenameFolder(w, from, to)
  BY <1>4, RenameFolderKeeps
<1>5. CASE \E w, v \in Workspaces, from \in Folders, parent \in Parents :
             MoveFolder(w, from, v, parent)
  BY <1>5, MoveFolderKeeps
<1>6. CASE \E w \in Workspaces, title \in WorkspaceTitles : RenameWorkspace(w, title)
  BY <1>6, RenameWorkspaceKeeps
<1>7. CASE BackfillMemoLinkIndex
  BY <1>7, BackfillKeeps
<1>8. CASE UNCHANGED vars
  BY <1>8 DEF vars, TypeOK
<1> QED
  BY <1>1, <1>2, <1>3, <1>4, <1>5, <1>6, <1>7, <1>8, Zenon DEF Next

(* Whatever is written, moved, renamed, carried and deleted, no two         *)
(* documents that exist are ever at one place and no two knowledge bases    *)
(* have one title: a path names at most one document, and a knowledge       *)
(* base's title one base, as resolution takes for granted.                  *)
THEOREM TypeCorrect == Spec => []TypeOK
<1> QED
  BY InitTyped, StepTyped, PTL DEF Spec

-----------------------------------------------------------------------------
(* What a link reaches, told without the trees. *)

In(s, w, e) == s.life[e] = "live" /\ s.place[e].ws = w

Reached(s, d, link, e) ==
  IF link.form = "qualified"
  THEN /\ s.life[e] = "live" /\ s.name[s.place[e].ws] = link.base
       /\ Spot(s, e) = <<link.folder, link.title>>
  ELSE In(s, s.place[d].ws, e) /\ Spot(s, e) \in Spelled(s.place[d].folder, link)

\* The link d has reaches x, and the index knows.
Right(s, d, x) == Reached(s, d, s.ref[d], x) /\ x \in s.rows[d]

LEMMA OneSpelled ==
  ASSUME NEW base, NEW link, NEW x \in Spelled(base, link), NEW y \in Spelled(base, link)
  PROVE  x = y
<1>1. CASE link.form = "path"
  BY <1>1 DEF Spelled
<1>2. CASE link.form = "relative" /\ link.up <= Len(base)
  BY <1>2 DEF Spelled
<1>3. CASE ~(link.form = "path") /\ ~(link.form = "relative" /\ link.up <= Len(base))
  BY <1>3 DEF Spelled
<1> QED
  BY <1>1, <1>2, <1>3

LEMMA SpelledQualified ==
  ASSUME NEW base, NEW link, ~InWorkspace(link)
  PROVE  Spelled(base, link) = {}
<1>1. ~(link.form = "path") /\ ~(link.form = "relative" /\ link.up <= Len(base))
  BY DEF InWorkspace
<1> QED
  BY <1>1 DEF Spelled

\* What is found is in the tree, at one of the spots.
LEMMA FoundThere ==
  ASSUME NEW tree, DOMAIN tree \subseteq Docs, NEW spots, NEW e \in Docs, Find(tree, spots) = e
  PROVE  e \in DOMAIN tree /\ tree[e] \in spots
<1> DEFINE hits == {d \in DOMAIN tree : tree[d] \in spots}
<1>1. CASE hits = {}
  BY <1>1, Layout DEF Find
<1>2. CASE hits # {}
  <2>1. hits \in SUBSET Docs
    OBVIOUS
  <2>2. \E d \in hits : \A f \in hits : Listed[d] <= Listed[f]
    BY <1>2, <2>1, Layout
  <2>4. Find(tree, spots) = CHOOSE d \in hits : \A f \in hits : Listed[d] <= Listed[f]
    BY <1>2 DEF Find, hits
  <2>5. e \in hits
    <3> HIDE DEF hits
    <3> QED
      BY <2>2, <2>4
  <2> QED
    BY <2>5
<1> QED
  BY <1>1, <1>2

\* A document at one of the spots is found when no other is there.
LEMMA FoundAlone ==
  ASSUME NEW tree, DOMAIN tree \subseteq Docs, NEW spots, NEW e \in DOMAIN tree, tree[e] \in spots,
         \A d \in DOMAIN tree : tree[d] \in spots => d = e
  PROVE  Find(tree, spots) = e
<1> DEFINE hits == {d \in DOMAIN tree : tree[d] \in spots}
<1>1. hits = {e}
  OBVIOUS
<1>2. hits \in SUBSET Docs
  OBVIOUS
<1>3. \E d \in hits : \A f \in hits : Listed[d] <= Listed[f]
  BY <1>1, <1>2, Layout
<1>4. Find(tree, spots) = CHOOSE d \in hits : \A f \in hits : Listed[d] <= Listed[f]
  BY <1>1 DEF Find, hits
<1> HIDE DEF hits
<1> QED
  BY <1>1, <1>3, <1>4

\* Two documents of a knowledge base are at two places.
LEMMA OneThere ==
  ASSUME NEW s, Good(s), NEW d \in Docs, NEW e \in Docs,
         s.life[d] # "gone", s.life[e] # "gone", s.place[d].ws = s.place[e].ws,
         Spot(s, d) = Spot(s, e)
  PROVE  d = e
<1>1. s.place[d] \in Places /\ s.place[e] \in Places
  BY DEF Good, States
<1>2. s.place[d].folder = s.place[e].folder /\ s.place[d].title = s.place[e].title
  BY DEF Spot
<1>3. s.place[d] = s.place[e]
  BY <1>1, <1>2 DEF Places
<1> QED
  BY <1>3 DEF Good, Apart

LEMMA TreeIs ==
  ASSUME NEW s, NEW w, NEW e
  PROVE  /\ e \in DOMAIN Tree(s, w) <=> e \in Docs /\ In(s, w, e)
         /\ e \in DOMAIN Tree(s, w) => Tree(s, w)[e] = Spot(s, e)
  BY DEF Tree, In

\* So a link is found to name the document at the spot it spells.
LEMMA FoundIs ==
  ASSUME NEW s, Good(s), NEW w, NEW e \in Docs, NEW base, NEW link
  PROVE  Find(Tree(s, w), Spelled(base, link)) = e
           <=> In(s, w, e) /\ Spot(s, e) \in Spelled(base, link)
<1>1. ASSUME Find(Tree(s, w), Spelled(base, link)) = e
      PROVE  In(s, w, e) /\ Spot(s, e) \in Spelled(base, link)
  BY <1>1, FoundThere, TreeTyped, TreeIs
<1>2. ASSUME In(s, w, e), Spot(s, e) \in Spelled(base, link)
      PROVE  Find(Tree(s, w), Spelled(base, link)) = e
  <2>1. ASSUME NEW d \in DOMAIN Tree(s, w), Tree(s, w)[d] \in Spelled(base, link)
        PROVE  d = e
    <3>1. d \in Docs /\ In(s, w, d) /\ Spot(s, d) = Spot(s, e)
      BY <1>2, <2>1, TreeIs, OneSpelled
    <3> QED
      BY <1>2, <3>1, OneThere DEF In
  <2>2. e \in DOMAIN Tree(s, w) /\ Tree(s, w)[e] \in Spelled(base, link)
    BY <1>2, TreeIs
  <2> QED
    BY <2>1, <2>2, FoundAlone, TreeTyped
<1> QED
  BY <1>1, <1>2

\* A knowledge base's title names one.
LEMMA FoundQualified ==
  ASSUME NEW s, Good(s), NEW w \in Workspaces, NEW e \in Docs, NEW spot
  PROVE  Find(Tree(s, w), {spot}) = e <=> In(s, w, e) /\ Spot(s, e) = spot
<1>1. ASSUME Find(Tree(s, w), {spot}) = e
      PROVE  In(s, w, e) /\ Spot(s, e) = spot
  BY <1>1, FoundThere, TreeTyped, TreeIs
<1>2. ASSUME In(s, w, e), Spot(s, e) = spot
      PROVE  Find(Tree(s, w), {spot}) = e
  <2>1. ASSUME NEW d \in DOMAIN Tree(s, w), Tree(s, w)[d] \in {spot}
        PROVE  d = e
    <3>1. d \in Docs /\ In(s, w, d) /\ Spot(s, d) = Spot(s, e)
      BY <1>2, <2>1, TreeIs
    <3> QED
      BY <1>2, <3>1, OneThere DEF In
  <2>2. e \in DOMAIN Tree(s, w) /\ Tree(s, w)[e] \in {spot}
    BY <1>2, TreeIs
  <2> QED
    BY <2>1, <2>2, FoundAlone, TreeTyped
<1> QED
  BY <1>1, <1>2

LEMMA ReachesIs ==
  ASSUME NEW s, Good(s), NEW d \in Docs, NEW link, NEW e \in Docs
  PROVE  Reaches(s, d, link) = e <=> Reached(s, d, link, e)
<1>1. CASE link.form = "qualified"
  <2> DEFINE named == {w \in Workspaces : s.name[w] = link.base}
             spot == <<link.folder, link.title>>
  <2>1. s.place[e].ws \in Workspaces
    BY PlacesTyped DEF Good, States
  <2>2. CASE named = {}
    <3>1. Reaches(s, d, link) = NoDoc
      BY <1>1, <2>2 DEF Reaches
    <3>2. ~Reached(s, d, link, e)
      BY <1>1, <2>1, <2>2 DEF Reached
    <3> QED
      BY <3>1, <3>2, Layout
  <2>3. CASE named # {}
    <3> DEFINE w == CHOOSE v \in named : TRUE
    <3>1. w \in Workspaces /\ s.name[w] = link.base
      BY <2>3
    <3>2. Reaches(s, d, link) = Find(Tree(s, w), {spot})
      BY <1>1, <2>3 DEF Reaches
    <3> HIDE DEF w
    <3>3. s.name[s.place[e].ws] = link.base <=> s.place[e].ws = w
      BY <2>1, <3>1 DEF Good, Apart
    <3>4. Find(Tree(s, w), {spot}) = e <=> In(s, w, e) /\ Spot(s, e) = spot
      <4> HIDE DEF spot
      <4> QED
        BY <3>1, FoundQualified
    <3> QED
      BY <1>1, <3>2, <3>3, <3>4 DEF Reached, In
  <2> QED
    BY <2>2, <2>3
<1>2. CASE link.form # "qualified"
  <2>1. Reaches(s, d, link) = Find(Tree(s, s.place[d].ws), Spelled(s.place[d].folder, link))
    BY <1>2 DEF Reaches
  <2> QED
    BY <1>2, <2>1, FoundIs DEF Reached
<1> QED
  BY <1>1, <1>2

\* The links that repairs write reach the document they are written for.
LEMMA HrefsReach ==
  ASSUME NEW s, NEW d, NEW e, s.life[e] = "live"
  PROVE  /\ s.place[d].ws = s.place[e].ws => Reached(s, d, CanonicalHref(s, e), e)
         /\ Reached(s, d, CrossHref(s, e), e)
<1>1. /\ CanonicalHref(s, e).form = "path"
      /\ CanonicalHref(s, e).folder = s.place[e].folder
      /\ CanonicalHref(s, e).title = s.place[e].title
  BY DEF CanonicalHref, RootRelative
<1>2. /\ CrossHref(s, e).form = "qualified"
      /\ CrossHref(s, e).base = s.name[s.place[e].ws]
      /\ CrossHref(s, e).folder = s.place[e].folder
      /\ CrossHref(s, e).title = s.place[e].title
  BY DEF CrossHref, Qualified
<1>3. Spelled(s.place[d].folder, CanonicalHref(s, e)) = {Spot(s, e)}
  BY <1>1 DEF Spelled, Spot
<1>4. s.place[d].ws = s.place[e].ws => Reached(s, d, CanonicalHref(s, e), e)
  BY <1>1, <1>3 DEF Reached, In
<1>5. Reached(s, d, CrossHref(s, e), e)
  BY <1>2 DEF Reached, Spot
<1> QED
  BY <1>4, <1>5

\* What is reached depends on where documents are only.
LEMMA SameReached ==
  ASSUME NEW s, NEW t, Same(s, t), NEW d, NEW link, NEW e
  PROVE  Reached(t, d, link, e) <=> Reached(s, d, link, e)
  BY DEF Same, Reached, In, Spot

LEMMA SameTree ==
  ASSUME NEW s, NEW t, Same(s, t), NEW w
  PROVE  Tree(t, w) = Tree(s, w)
  BY DEF Same, Tree, Spot

-----------------------------------------------------------------------------
(* What the repairs do to the link of one document. *)

\* Links rewritten: the others, and their rows, stay, and one that reaches x
\* is indexed.
LEMMA RewrittenIs ==
  ASSUME NEW s, Good(s), NEW links \in [Docs -> Links], NEW d \in Docs, NEW x \in Docs, x # d
  PROVE  LET t == Rewritten(s, links)
         IN /\ Same(s, t) /\ Good(t) /\ t.ref[d] = links[d]
            /\ links[d] = s.ref[d] => t.rows[d] = s.rows[d]
            /\ Reached(s, d, links[d], x) /\ (links[d] # s.ref[d] \/ x \in s.rows[d])
                 => Right(t, d, x)
<1> DEFINE r == [s EXCEPT !.ref = links]
           D == {e \in Docs : links[e] # s.ref[e]}
           t == Rewritten(s, links)
<1>1. s \in States
  BY DEF Good
<1>2. Same(s, t) /\ Good(t)
  BY <1>1, RewrittenSame, SameGood
<1>3. Same(s, r) /\ Good(r) /\ r.ref = links /\ r.rows = s.rows
  <2>1. Same(s, r) /\ r.ref = links /\ r.rows = s.rows
    BY <1>1 DEF Same, States
  <2> QED
    BY <2>1, SameGood
<1>4. t = [r EXCEPT !.rows = [e \in Docs |-> IF e \in D
                                 THEN ({Resolve(r, e)} \cup r.also[e]) \ {e, NoDoc}
                                 ELSE r.rows[e]]]
  BY DEF Rewritten, Synced
<1> HIDE DEF r, t, D
<1>5. /\ t.ref = r.ref
      /\ t.rows[d] = IF d \in D THEN ({Resolve(r, d)} \cup r.also[d]) \ {d, NoDoc} ELSE r.rows[d]
  BY <1>3, <1>4 DEF Good, States
<1>6. t.ref[d] = links[d]
  BY <1>3, <1>5
<1>7. ASSUME links[d] = s.ref[d] PROVE t.rows[d] = s.rows[d]
  BY <1>3, <1>5, <1>7 DEF D
<1>8. ASSUME Reached(s, d, links[d], x), links[d] # s.ref[d] \/ x \in s.rows[d]
      PROVE  Right(t, d, x)
  <2>1. Reached(t, d, t.ref[d], x)
    BY <1>2, <1>6, <1>8, SameReached
  <2>2. x \in t.rows[d]
    <3>1. CASE links[d] = s.ref[d]
      BY <1>7, <1>8, <3>1
    <3>2. CASE links[d] # s.ref[d]
      <4>1. Reached(r, d, r.ref[d], x)
        BY <1>3, <1>8, SameReached
      <4>2. Resolve(r, d) = x
        BY <1>3, <4>1, ReachesIs DEF Resolve
      <4> QED
        BY <1>5, <3>2, <4>2, Layout DEF D
    <3> QED
      BY <3>1, <3>2
  <2> QED
    BY <2>1, <2>2 DEF Right
<1> QED
  BY <1>2, <1>6, <1>7, <1>8 DEF t

LEMMA AsOfTyped == \A s, w, e, was : e \in Docs => DOMAIN AsOf(s, w, e, was) \subseteq Docs
  BY TreeTyped DEF AsOf

\* In a tree as of earlier, e is found only where it was, and not where
\* another document has taken the place of one that has left.
LEMMA AsOfMisses ==
  ASSUME NEW s, NEW w, NEW e \in Docs, NEW was, NEW spots, Find(AsOf(s, w, e, was), spots) = e
  PROVE  /\ was \in spots
         /\ In(s, w, e) \/ \A d \in Docs : In(s, w, d) => Spot(s, d) # was
<1> DEFINE tree == Tree(s, w)
           put == [d \in DOMAIN tree \cup {e} |-> IF d = e THEN was ELSE tree[d]]
<1>1. e \in DOMAIN AsOf(s, w, e, was) /\ AsOf(s, w, e, was)[e] \in spots
  BY AsOfTyped, FoundThere
<1>2. CASE e \in DOMAIN tree \/ \A d \in DOMAIN tree : tree[d] # was
  <2>1. AsOf(s, w, e, was) = put
    BY <1>2 DEF AsOf
  <2>2. put[e] = was
    OBVIOUS
  <2> QED
    BY <1>1, <1>2, <2>1, <2>2, TreeIs
<1>3. CASE ~(e \in DOMAIN tree \/ \A d \in DOMAIN tree : tree[d] # was)
  <2>1. AsOf(s, w, e, was) = tree
    BY <1>3 DEF AsOf
  <2> QED
    BY <1>1, <1>3, <2>1
<1> QED
  BY <1>2, <1>3

\* Where it was, it is found if no other document is there.
LEMMA AsOfHits ==
  ASSUME NEW s, NEW w, NEW e \in Docs, NEW base, NEW link, NEW was \in Spelled(base, link),
         \A d \in Docs : In(s, w, d) /\ d # e => Spot(s, d) # was
  PROVE  Find(AsOf(s, w, e, was), Spelled(base, link)) = e
<1> DEFINE tree == Tree(s, w)
           put == [d \in DOMAIN tree \cup {e} |-> IF d = e THEN was ELSE tree[d]]
<1>1. AsOf(s, w, e, was) = put
  <2>1. e \in DOMAIN tree \/ \A d \in DOMAIN tree : tree[d] # was
    BY TreeIs
  <2> QED
    BY <2>1 DEF AsOf
<1>2. e \in DOMAIN put /\ put[e] = was
  OBVIOUS
<1>3. ASSUME NEW d \in DOMAIN put, put[d] \in Spelled(base, link)
      PROVE  d = e
  <2>1. put[d] = was
    BY <1>3, OneSpelled
  <2>2. CASE d # e
    <3>1. d \in DOMAIN tree /\ put[d] = tree[d]
      BY <2>2
    <3> QED
      BY <2>1, <2>2, <3>1, TreeIs
  <2> QED
    BY <2>2
<1>4. DOMAIN put \subseteq Docs
  BY TreeTyped
<1> HIDE DEF put
<1> QED
  BY <1>1, <1>2, <1>3, <1>4, FoundAlone

\* It takes the link to name none of the moved documents, or x only.
Unnamed(s, moved, was, d) == Naming(s, moved, was, d) = {}

OnlyNamed(s, moved, was, d, x) == Naming(s, moved, was, d) = {x}

\* repairInboundLinks leaves a link it takes to name no moved document, and
\* writes one it takes to name x for x.
LEMMA InboundRight ==
  ASSUME NEW s, Good(s), NEW moved \in SUBSET Docs, NEW was,
         NEW d \in Docs, NEW x \in Docs, x # d, NEW t, t = InboundRepaired(s, moved, was)
  PROVE  /\ Same(s, t) /\ Good(t)
         /\ Unnamed(s, moved, was, d) => t.ref[d] = s.ref[d] /\ t.rows[d] = s.rows[d]
         /\ OnlyNamed(s, moved, was, d, x) /\ s.life[x] = "live"
              => /\ Right(t, d, x)
                 /\ t.ref[d] = IF s.place[d].ws = s.place[x].ws THEN CanonicalHref(s, x)
                                                               ELSE CrossHref(s, x)
<1> DEFINE links == [e \in Docs |-> InboundLink(s, moved, was, e)]
<1>1. s \in States
  BY DEF Good
<1>2. t = Rewritten(s, links) /\ links \in [Docs -> Links]
  BY <1>1, InboundIs
<1>3. links[d] = InboundLink(s, moved, was, d)
  OBVIOUS
<1> HIDE DEF links
<1>4. /\ Same(s, t) /\ Good(t) /\ t.ref[d] = links[d]
      /\ links[d] = s.ref[d] => t.rows[d] = s.rows[d]
      /\ Reached(s, d, links[d], x) /\ (links[d] # s.ref[d] \/ x \in s.rows[d])
           => Right(t, d, x)
  BY <1>2, RewrittenIs
<1>5. Unnamed(s, moved, was, d) => t.ref[d] = s.ref[d] /\ t.rows[d] = s.rows[d]
  BY <1>3, <1>4 DEF InboundLink, Unnamed
<1>6. ASSUME OnlyNamed(s, moved, was, d, x), s.life[x] = "live"
      PROVE  /\ Right(t, d, x)
             /\ t.ref[d] = IF s.place[d].ws = s.place[x].ws THEN CanonicalHref(s, x)
                                                           ELSE CrossHref(s, x)
  <2>1. (CHOOSE y \in {x} : TRUE) = x
    OBVIOUS
  <2>2. links[d] = IF s.place[d].ws = s.place[x].ws THEN CanonicalHref(s, x) ELSE CrossHref(s, x)
    BY <1>3, <1>6, <2>1 DEF InboundLink, OnlyNamed
  <2>3. Reached(s, d, links[d], x)
    BY <1>6, <2>2, HrefsReach
  <2>4. x \in s.rows[d]
    BY <1>6 DEF Naming, OnlyNamed
  <2> QED
    BY <1>4, <2>2, <2>3, <2>4
<1> QED
  BY <1>4, <1>5, <1>6

\* fossilizeOutboundRelativeLinks leaves every link that reaches something,
\* and writes one that its document's move stranded for what it named.
LEMMA FossilizedRight ==
  ASSUME NEW s, Good(s), NEW w, NEW oldFolder, Remembered(oldFolder),
         NEW d \in Docs, NEW x \in Docs, x # d
  PROVE  LET t == Fossilized(s, w, oldFolder)
         IN /\ Same(s, t) /\ Good(t)
            /\ ~Stranded(s, w, oldFolder, d) => t.ref[d] = s.ref[d] /\ t.rows[d] = s.rows[d]
            /\ Stranded(s, w, oldFolder, d) /\ Spot(s, x) \in Spelled(oldFolder[d], s.ref[d])
                 => t.ref[d] = CanonicalHref(s, x)
            /\ Stranded(s, w, oldFolder, d) /\ s.place[d].ws = w /\ In(s, w, x)
                 /\ Spot(s, x) \in Spelled(oldFolder[d], s.ref[d])
                 => Right(t, d, x)
<1> DEFINE t == Fossilized(s, w, oldFolder)
           links == [e \in Docs |-> FossilLink(s, w, oldFolder, e)]
<1>1. s \in States
  BY DEF Good
<1>2. t = Rewritten(s, links) /\ links \in [Docs -> Links]
  BY <1>1, FossilizedIs
<1>3. links[d] = FossilLink(s, w, oldFolder, d)
  OBVIOUS
<1> HIDE DEF t, links
<1>4. /\ Same(s, t) /\ Good(t) /\ t.ref[d] = links[d]
      /\ links[d] = s.ref[d] => t.rows[d] = s.rows[d]
      /\ Reached(s, d, links[d], x) /\ (links[d] # s.ref[d] \/ x \in s.rows[d])
           => Right(t, d, x)
  BY <1>2, RewrittenIs
<1>5. ~Stranded(s, w, oldFolder, d) => t.ref[d] = s.ref[d] /\ t.rows[d] = s.rows[d]
  BY <1>3, <1>4 DEF FossilLink
<1>6. ASSUME Stranded(s, w, oldFolder, d), Spot(s, x) \in Spelled(oldFolder[d], s.ref[d])
      PROVE  links[d] = CanonicalHref(s, x) /\ links[d] # s.ref[d]
  <2>1. (CHOOSE y \in Spelled(oldFolder[d], s.ref[d]) : TRUE) = Spot(s, x)
    BY <1>6, OneSpelled
  <2>4. links[d] = RootRelative(Spot(s, x)[1], Spot(s, x)[2])
    BY <1>3, <1>6, <2>1 DEF FossilLink
  <2>5. Spot(s, x)[1] = s.place[x].folder /\ Spot(s, x)[2] = s.place[x].title
    BY DEF Spot
  <2>2. links[d] = CanonicalHref(s, x)
    BY <2>4, <2>5 DEF CanonicalHref
  <2>3. links[d].form = "path"
    BY <2>2 DEF CanonicalHref, RootRelative
  <2> QED
    BY <1>6, <2>2, <2>3 DEF Stranded
<1>7. ASSUME Stranded(s, w, oldFolder, d), s.place[d].ws = w, In(s, w, x),
             Spot(s, x) \in Spelled(oldFolder[d], s.ref[d])
      PROVE  Right(t, d, x)
  <2>1. Reached(s, d, links[d], x)
    BY <1>6, <1>7, HrefsReach DEF In
  <2> QED
    BY <1>4, <1>6, <1>7, <2>1
<1> QED
  BY <1>4, <1>5, <1>6, <1>7 DEF t

\* rewriteOutboundLinksAfterWorkspaceMove writes a link that named x in the
\* knowledge base its document has left in that base's qualified form.
LEMMA OutboundRight ==
  ASSUME NEW s, Good(s), NEW w, NEW oldFolder, NEW alongside,
         NEW d \in Docs, NEW x \in Docs, x # d
  PROVE  LET t == OutboundRewritten(s, w, oldFolder, alongside)
         IN /\ Same(s, t) /\ Good(t)
            /\ \/ d \notin DOMAIN oldFolder
               \/ \A e \in Docs : In(s, w, e) => Spot(s, e) \notin Spelled(oldFolder[d], s.ref[d])
               => t.ref[d] = s.ref[d] /\ t.rows[d] = s.rows[d]
            /\ d \in DOMAIN oldFolder /\ In(s, w, x) /\ x \notin alongside
                 /\ Spot(s, x) \in Spelled(oldFolder[d], s.ref[d])
                 => Right(t, d, x)
<1> DEFINE t == OutboundRewritten(s, w, oldFolder, alongside)
           links == [e \in Docs |-> OutboundLink(s, w, oldFolder, alongside, e)]
<1>1. s \in States
  BY DEF Good
<1>2. t = Rewritten(s, links) /\ links \in [Docs -> Links]
  BY <1>1, OutboundIs
<1>3. links[d] = OutboundLink(s, w, oldFolder, alongside, d)
  OBVIOUS
<1> HIDE DEF t, links
<1>4. /\ Same(s, t) /\ Good(t) /\ t.ref[d] = links[d]
      /\ links[d] = s.ref[d] => t.rows[d] = s.rows[d]
      /\ Reached(s, d, links[d], x) /\ (links[d] # s.ref[d] \/ x \in s.rows[d])
           => Right(t, d, x)
  BY <1>2, RewrittenIs
<1>5. ASSUME \/ d \notin DOMAIN oldFolder
             \/ \A e \in Docs : In(s, w, e) => Spot(s, e) \notin Spelled(oldFolder[d], s.ref[d])
      PROVE  t.ref[d] = s.ref[d] /\ t.rows[d] = s.rows[d]
  <2>1. LeftBehind(s, w, oldFolder, d) = NoDoc
    <3>1. CASE d \notin DOMAIN oldFolder
      BY <3>1 DEF LeftBehind
    <3>2. CASE d \in DOMAIN oldFolder
      <4>1. Find(Tree(s, w), Spelled(oldFolder[d], s.ref[d])) \in Docs \cup {NoDoc}
        BY TreeTyped, FindTyped
      <4>2. \A e \in Docs : Find(Tree(s, w), Spelled(oldFolder[d], s.ref[d])) # e
        BY <1>5, <3>2, FoundIs
      <4> QED
        BY <3>2, <4>1, <4>2 DEF LeftBehind
    <3> QED
      BY <3>1, <3>2
  <2> QED
    BY <1>3, <1>4, <2>1 DEF OutboundLink
<1>6. ASSUME d \in DOMAIN oldFolder, In(s, w, x), x \notin alongside,
             Spot(s, x) \in Spelled(oldFolder[d], s.ref[d])
      PROVE  Right(t, d, x)
  <2>1. LeftBehind(s, w, oldFolder, d) = x
    BY <1>6, FoundIs DEF LeftBehind
  <2>2. links[d] = CrossHref(s, x)
    BY <1>3, <1>6, <2>1, Layout DEF OutboundLink
  <2>3. links[d].form = "qualified" /\ Reached(s, d, links[d], x)
    BY <1>6, <2>2, HrefsReach DEF CrossHref, Qualified, In
  <2>4. s.ref[d].form # "qualified"
    BY <1>6, SpelledQualified DEF InWorkspace
  <2> QED
    BY <1>4, <2>3, <2>4
<1> QED
  BY <1>4, <1>5, <1>6 DEF t

-----------------------------------------------------------------------------
(* The invariant, and what a request owes to the author of a link. *)

LinkInv ==
  /\ TypeOK
  /\ \A d \in Docs : means[d] # NoDoc =>
       means[d] # d /\ life[d] # "gone" /\ Right(Now, d, means[d])

\* The link reaches what it did, and if it had to be rewritten, in a document
\* that stays in its knowledge base, then the old one does not any more.
Served(t, d, x) ==
  /\ Right(t, d, x)
  /\ t.ref[d] # ref[d] /\ t.place[d].ws = place[d].ws => ~Reached(t, d, ref[d], x)

LeftAlone ==
  \A d \in Docs :
    (/\ ref'[d] # ref[d] /\ means'[d] = means[d] /\ means[d] # NoDoc
     /\ place'[d].ws = place[d].ws /\ writes' = writes)
    => Reaches(Now', d, ref[d]) # means[d]

LEMMA NowNext ==
  ASSUME NEW STATE t, Good(t), Become(t)
  PROVE  Now' = t
<1>1. Now' = [life |-> t.life, place |-> t.place, name |-> t.name,
              ref |-> t.ref, also |-> t.also, rows |-> t.rows]
  BY DEF Become, Now
<1> QED
  BY <1>1 DEF Good, States

LEMMA KeptRight ==
  ASSUME TypeOK', NEW STATE t, Good(t), Become(t),
         \A d \in Docs : means'[d] # NoDoc =>
           means'[d] # d /\ t.life[d] # "gone" /\ Right(t, d, means'[d])
  PROVE  LinkInv'
<1>1. Now' = t /\ life' = t.life
  BY NowNext DEF Become
<1>2. ASSUME NEW d \in Docs
      PROVE  Right(Now, d, means[d])' <=> Right(t, d, means'[d])
  BY <1>1 DEF Right, Reached, In, Spot, Now, Spelled
<1> QED
  BY <1>1, <1>2 DEF LinkInv

LEMMA Kept ==
  ASSUME LinkInv, TypeOK', NEW STATE t, Good(t), Become(t),
         \A d \in Docs : means'[d] # NoDoc => means'[d] = means[d],
         \A d \in Docs : means'[d] # NoDoc => t.life[d] # "gone" /\ Served(t, d, means[d])
  PROVE  LinkInv' /\ LeftAlone
<1>1. LinkInv'
  BY KeptRight DEF LinkInv, Served
<1>2. LeftAlone
  <2> SUFFICES ASSUME NEW d \in Docs, ref'[d] # ref[d], means'[d] = means[d], means[d] # NoDoc,
                      place'[d].ws = place[d].ws
               PROVE  Reaches(Now', d, ref[d]) # means[d]
    BY DEF LeftAlone
  <2>1. Now' = t /\ t.ref[d] # ref[d] /\ t.place[d].ws = place[d].ws
    BY NowNext DEF Become
  <2>2. ~Reached(t, d, ref[d], means[d])
    BY <2>1 DEF Served
  <2>3. means[d] \in Docs
    BY DEF LinkInv, TypeOK
  <2>4. Reaches(t, d, ref[d]) # means[d]
    BY <2>2, <2>3, ReachesIs
  <2> QED
    BY <2>1, <2>4
<1> QED
  BY <1>1, <1>2

\* A link reaches what it did where nothing has moved.
LEMMA StillReached ==
  ASSUME NEW s, NEW t, NEW d, NEW link, NEW x, Reached(s, d, link, x),
         t.life[x] = s.life[x], t.place[x] = s.place[x], t.place[d] = s.place[d],
         t.name = s.name
  PROVE  Reached(t, d, link, x)
  BY DEF Reached, In, Spot

\* What the invariant says of one link.
LEMMA Meant ==
  ASSUME LinkInv, NEW d \in Docs, means[d] # NoDoc
  PROVE  /\ means[d] \in Docs /\ means[d] # d /\ life[d] # "gone"
         /\ life[means[d]] = "live" /\ means[d] \in rows[d]
         /\ Right(Now, d, means[d]) /\ Reached(Now, d, ref[d], means[d])
<1>1. means[d] \in Docs /\ means[d] # d /\ life[d] # "gone" /\ Right(Now, d, means[d])
  BY DEF LinkInv, TypeOK
<1> QED
  BY <1>1 DEF Right, Reached, In, Now

LEMMA Unmoved ==
  ASSUME LinkInv, NEW t, NEW d \in Docs, means[d] # NoDoc,
         t.life[means[d]] = life[means[d]], t.place[means[d]] = place[means[d]],
         t.place[d] = place[d], t.name = name, t.ref[d] = ref[d], means[d] \in t.rows[d]
  PROVE  Served(t, d, means[d])
<1>1. Reached(t, d, ref[d], means[d])
  BY Meant, StillReached DEF Now
<1> QED
  BY <1>1 DEF Served, Right

LEMMA CreateServes ==
  ASSUME LinkInv, NEW e \in Docs, NEW p \in Places, Create(e, p)
  PROVE  LinkInv' /\ LeftAlone
<1> DEFINE s == [Now EXCEPT !.life[e] = "live", !.place[e] = p]
<1>1. TypeOK /\ TypeOK' /\ Good(Now)
  BY CreateKeeps, Halves DEF LinkInv
<1>2. Good(s)
  BY <1>1 DEF Good, Apart, States, Now, Create, Free
<1>3. Become(s) /\ UNCHANGED means /\ life[e] = "gone"
  BY DEF Create
<1>4. \A d \in Docs \ {e} : s.life[d] = life[d] /\ s.place[d] = place[d]
  BY <1>1 DEF TypeOK, Now
<1>5. s.name = name /\ s.ref = ref /\ s.rows = rows
  BY DEF Now
<1> HIDE DEF s
<1>6. ASSUME NEW d \in Docs, means'[d] # NoDoc
      PROVE  s.life[d] # "gone" /\ Served(s, d, means[d])
  <2>1. means[d] # NoDoc
    BY <1>3, <1>6
  <2>2. d # e /\ means[d] # e
    BY <1>3, <2>1, Meant
  <2> QED
    BY <1>4, <1>5, <2>1, <2>2, Meant, Unmoved
<1> QED
  BY <1>1, <1>2, <1>3, <1>6, Kept

LEMMA ArchiveServes ==
  ASSUME LinkInv, NEW e \in Docs, Archive(e)
  PROVE  LinkInv' /\ LeftAlone
<1> DEFINE s == [Now EXCEPT !.life[e] = "archived"]
<1>1. TypeOK /\ TypeOK' /\ Good(Now)
  BY LifeKeeps, Halves DEF LinkInv
<1>2. Good(s)
  BY <1>1 DEF Good, Apart, States, Now, Archive
<1>3. Become(s) /\ UNCHANGED means /\ Unreferenced(e)
  BY DEF Archive
<1>4. /\ \A d \in Docs \ {e} : s.life[d] = life[d]
      /\ s.life[e] = "archived"
  BY <1>1 DEF TypeOK, Now
<1>5. s.place = place /\ s.name = name /\ s.ref = ref /\ s.rows = rows
  BY DEF Now
<1> HIDE DEF s
<1>6. ASSUME NEW d \in Docs, means'[d] # NoDoc
      PROVE  s.life[d] # "gone" /\ Served(s, d, means[d])
  <2>1. means[d] # NoDoc
    BY <1>3, <1>6
  <2>2. means[d] # e
    BY <1>3, <2>1, Meant DEF Unreferenced
  <2> QED
    BY <1>4, <1>5, <2>1, <2>2, Meant, Unmoved
<1> QED
  BY <1>1, <1>2, <1>3, <1>6, Kept

LEMMA RestoreServes ==
  ASSUME LinkInv, NEW e \in Docs, Restore(e)
  PROVE  LinkInv' /\ LeftAlone
<1> DEFINE s == [Now EXCEPT !.life[e] = "live"]
<1>1. TypeOK /\ TypeOK' /\ Good(Now)
  BY LifeKeeps, Halves DEF LinkInv
<1>2. Good(s)
  BY <1>1 DEF Good, Apart, States, Now, Restore
<1>3. Become(s) /\ UNCHANGED means /\ life[e] = "archived"
  BY DEF Restore
<1>4. /\ \A d \in Docs \ {e} : s.life[d] = life[d]
      /\ s.life[e] = "live"
  BY <1>1 DEF TypeOK, Now
<1>5. s.place = place /\ s.name = name /\ s.ref = ref /\ s.rows = rows
  BY DEF Now
<1> HIDE DEF s
<1>6. ASSUME NEW d \in Docs, means'[d] # NoDoc
      PROVE  s.life[d] # "gone" /\ Served(s, d, means[d])
  <2>1. means[d] # NoDoc
    BY <1>3, <1>6
  <2>2. means[d] # e
    BY <1>3, <2>1, Meant
  <2> QED
    BY <1>4, <1>5, <2>1, <2>2, Meant, Unmoved
<1> QED
  BY <1>1, <1>2, <1>3, <1>6, Kept

LEMMA DeleteServes ==
  ASSUME LinkInv, NEW e \in Docs, Delete(e)
  PROVE  LinkInv' /\ LeftAlone
<1> DEFINE s == [Now EXCEPT !.life[e] = "gone", !.ref[e] = NoLink,
                            !.also[e] = {}, !.rows[e] = {}]
<1>1. TypeOK /\ TypeOK' /\ Good(Now)
  BY LifeKeeps, Halves DEF LinkInv
<1>2. Good(s)
  <2>1. s \in States
    BY <1>1 DEF Good, States, Now, Links
  <2>2. Apart(s)
    BY <1>1 DEF Good, Apart, States, Now
  <2> QED
    BY <2>1, <2>2 DEF Good
<1>3. Become(s) /\ means' = [means EXCEPT ![e] = NoDoc] /\ Unreferenced(e)
  BY DEF Delete
<1>4. \A d \in Docs \ {e} : s.life[d] = life[d] /\ s.ref[d] = ref[d] /\ s.rows[d] = rows[d]
  BY <1>1 DEF TypeOK, Now
<1>5. s.place = place /\ s.name = name
  BY DEF Now
<1> HIDE DEF s
<1>6. ASSUME NEW d \in Docs, means'[d] # NoDoc
      PROVE  means'[d] = means[d] /\ s.life[d] # "gone" /\ Served(s, d, means[d])
  <2>1. means[d] # NoDoc /\ d # e /\ means'[d] = means[d]
    BY <1>1, <1>3, <1>6 DEF TypeOK
  <2>2. means[d] # e
    BY <1>3, <2>1, Meant DEF Unreferenced
  <2> QED
    BY <1>4, <1>5, <2>1, <2>2, Meant, Unmoved
<1> QED
  BY <1>1, <1>2, <1>3, <1>6, Kept

\* A document that is indexed has what its link reaches in its rows.
LEMMA SyncedIs ==
  ASSUME NEW s, Good(s), NEW D, NEW d \in Docs, NEW x \in Docs, x # d
  PROVE  LET t == Synced(s, D)
         IN /\ Same(s, t) /\ Good(t) /\ t.ref = s.ref
            /\ d \notin D => t.rows[d] = s.rows[d]
            /\ Reached(s, d, s.ref[d], x) /\ (d \in D \/ x \in s.rows[d]) => Right(t, d, x)
            /\ Resolve(t, d) = Resolve(s, d)
<1> DEFINE t == Synced(s, D)
<1>1. s \in States
  BY DEF Good
<1>2. Same(s, t) /\ Good(t)
  BY <1>1, SyncedSame, SameGood
<1>3. /\ t.ref = s.ref
      /\ t.rows[d] = IF d \in D THEN ({Resolve(s, d)} \cup s.also[d]) \ {d, NoDoc} ELSE s.rows[d]
  BY <1>1 DEF Synced, States
<1> HIDE DEF t
<1>4. ASSUME Reached(s, d, s.ref[d], x), d \in D \/ x \in s.rows[d]
      PROVE  Right(t, d, x)
  <2>1. Resolve(s, d) = x
    BY <1>4, ReachesIs DEF Resolve
  <2>2. x \in t.rows[d]
    BY <1>3, <1>4, <2>1, Layout
  <2> QED
    BY <1>2, <1>3, <1>4, <2>2, SameReached DEF Right
<1>5. Resolve(t, d) = Resolve(s, d)
  BY <1>2, <1>3, SameTree DEF Same, Resolve, Reaches
<1> QED
  BY <1>2, <1>3, <1>4, <1>5 DEF t

LEMMA BackfillServes ==
  ASSUME LinkInv, BackfillMemoLinkIndex
  PROVE  LinkInv' /\ LeftAlone
<1> DEFINE D == {d \in Docs : life[d] = "live"}
           s == Synced(Now, D)
<1>1. TypeOK /\ TypeOK' /\ Good(Now)
  BY BackfillKeeps, Halves DEF LinkInv
<1>2. Good(s) /\ Same(Now, s)
  BY <1>1, SyncedSame, SameGood DEF Good
<1>3. Become(s) /\ UNCHANGED means
  BY DEF BackfillMemoLinkIndex
<1> HIDE DEF D
<1>4. ASSUME NEW d \in Docs, means'[d] # NoDoc
      PROVE  s.life[d] # "gone" /\ Served(s, d, means[d])
  <2>1. means[d] # NoDoc
    BY <1>3, <1>4
  <2>2. /\ means[d] \in Docs /\ means[d] # d /\ life[d] # "gone"
        /\ Right(Now, d, means[d])
    BY <2>1, Meant
  <2>3. /\ s.ref = Now.ref /\ (Reached(Now, d, Now.ref[d], means[d])
             /\ (d \in D \/ means[d] \in Now.rows[d]) => Right(s, d, means[d]))
    BY <1>1, <2>2, SyncedIs
  <2> HIDE DEF s
  <2>4. s.ref = ref /\ s.life = life
    BY <1>2, <2>3 DEF Now, Same
  <2> QED
    BY <2>2, <2>3, <2>4 DEF Served, Right
<1> HIDE DEF s
<1> QED
  BY <1>1, <1>2, <1>3, <1>4, Kept

LEMMA WriteServes ==
  ASSUME LinkInv, NEW e \in Docs, NEW link \in Written(e), NEW others \in SUBSET Docs,
         Write(e, link, others)
  PROVE  LinkInv' /\ LeftAlone
<1> DEFINE r == [Now EXCEPT !.ref[e] = link, !.also[e] = others]
           s == Synced(r, {e})
<1>1. TypeOK /\ TypeOK' /\ Good(Now)
  BY WriteKeeps, Halves DEF LinkInv
<1>2. Good(r)
  BY <1>1, LinksWritten DEF Good, Apart, States, Now
<1>3. /\ Become(s) /\ writes' = writes + 1
      /\ means' = [means EXCEPT ![e] = IF Resolve(s, e) = e THEN NoDoc ELSE Resolve(s, e)]
      /\ life[e] = "live"
  BY DEF Write
<1>4. /\ r.life = life /\ r.place = place /\ r.name = name /\ r.rows = rows
      /\ \A d \in Docs \ {e} : r.ref[d] = ref[d]
  BY <1>1 DEF Now, TypeOK
<1> HIDE DEF r
<1>5. Good(s) /\ Same(r, s)
  BY <1>2, SyncedSame, SameGood DEF Good
<1>6. ASSUME NEW d \in Docs, means'[d] # NoDoc
      PROVE  means'[d] # d /\ s.life[d] # "gone" /\ Right(s, d, means'[d])
  <2>0. means'[d] \in Docs
    BY <1>1, <1>6 DEF TypeOK
  <2>1. CASE d = e
    <3>1. means'[d] = Resolve(s, d) /\ means'[d] # d
      BY <1>1, <1>3, <1>6, <2>1 DEF TypeOK
    <3>2. /\ Reached(r, d, r.ref[d], means'[d]) /\ (d \in {e} \/ means'[d] \in r.rows[d])
               => Right(s, d, means'[d])
          /\ Resolve(s, d) = Resolve(r, d)
      BY <1>2, <2>0, <3>1, SyncedIs
    <3>3. Reached(r, d, r.ref[d], means'[d])
      BY <1>2, <2>0, <3>1, <3>2, ReachesIs DEF Resolve
    <3> HIDE DEF s
    <3> QED
      BY <1>3, <1>4, <1>5, <2>1, <3>1, <3>2, <3>3 DEF Same
  <2>2. CASE d # e
    <3>1. means'[d] = means[d]
      BY <1>1, <1>3, <2>2 DEF TypeOK
    <3>2. /\ means[d] \in Docs /\ means[d] # d /\ life[d] # "gone"
          /\ Right(Now, d, means[d])
      BY <1>6, <3>1, Meant
    <3>3. Reached(r, d, r.ref[d], means[d]) /\ (d \in {e} \/ means[d] \in r.rows[d])
            => Right(s, d, means[d])
      BY <1>2, <3>2, SyncedIs
    <3>4. Reached(r, d, r.ref[d], means[d]) /\ means[d] \in r.rows[d]
      BY <1>4, <2>2, <3>2, StillReached DEF Right, Now
    <3> HIDE DEF s
    <3> QED
      BY <1>4, <1>5, <3>1, <3>2, <3>3, <3>4 DEF Same
  <2> QED
    BY <2>1, <2>2
<1>7. writes' # writes
  BY <1>1, <1>3, Limits DEF TypeOK
<1> HIDE DEF s
<1> QED
  BY <1>1, <1>3, <1>5, <1>6, <1>7, KeptRight DEF LeftAlone

LEMMA RenameWorkspaceServes ==
  ASSUME LinkInv, NEW w \in Workspaces, NEW title \in WorkspaceTitles, RenameWorkspace(w, title)
  PROVE  LinkInv' /\ LeftAlone
<1> DEFINE s == [Now EXCEPT !.name[w] = title]
           targets == {d \in Docs : life[d] # "gone" /\ place[d].ws = w}
           link(d) == IF rows[d] \cap targets # {} /\ ref[d].form = "qualified"
                         /\ ref[d].base = name[w]
                      THEN [ref[d] EXCEPT !.base = title] ELSE ref[d]
           links == [d \in Docs |-> link(d)]
           t == Rewritten(s, links)
<1>1. TypeOK /\ TypeOK' /\ Good(Now)
  BY RenameWorkspaceKeeps, Halves DEF LinkInv
<1>2. Good(s)
  BY <1>1 DEF Good, Apart, States, Now, RenameWorkspace
<1>3. /\ s.life = life /\ s.place = place /\ s.rows = rows /\ s.ref = ref
      /\ \A v \in Workspaces : s.name[v] = IF v = w THEN title ELSE name[v]
      /\ \A v \in Workspaces : name[v] # title
  BY <1>1 DEF Now, TypeOK, RenameWorkspace
<1>4. Become(t) /\ UNCHANGED means
  BY DEF RenameWorkspace
<1> HIDE DEF s
<1>5. ASSUME NEW d \in Docs
      PROVE  link(d) \in Links
  <2>1. ref[d] \in Links
    BY <1>1 DEF TypeOK
  <2>2. ref[d].form = "qualified" => [ref[d] EXCEPT !.base = title] \in Links
    BY <2>1 DEF Links, NoLink
  <2> QED
    BY <2>1, <2>2
<1>6. \A d \in Docs : links[d] = link(d)
  OBVIOUS
<1>7. links \in [Docs -> Links]
  <2> HIDE DEF link
  <2> QED
    BY <1>5
<1> HIDE DEF links
<1>8. Good(t) /\ Same(s, t)
  BY <1>2, <1>7, RewrittenSame, SameGood DEF Good
<1>9. ASSUME NEW d \in Docs, means'[d] # NoDoc
      PROVE  t.life[d] # "gone" /\ Served(t, d, means[d])
  <2> DEFINE x == means[d]
  <2>1. means[d] # NoDoc
    BY <1>4, <1>9
  <2>2. /\ x \in Docs /\ x # d /\ life[d] # "gone" /\ life[x] = "live"
        /\ x \in rows[d] /\ Reached(Now, d, ref[d], x)
    BY <2>1, Meant
  <2>3. /\ t.ref[d] = links[d]
        /\ Reached(s, d, links[d], x) /\ (links[d] # s.ref[d] \/ x \in s.rows[d])
             => Right(t, d, x)
    <3> HIDE DEF t, x
    <3> QED
      BY <1>2, <1>7, <2>2, RewrittenIs DEF t
  <2>4. place[x].ws \in Workspaces
    BY <1>1, <2>2, PlacesTyped DEF TypeOK
  <2>5. Reached(s, d, links[d], x) /\ (links[d] # ref[d] => ~Reached(s, d, ref[d], x))
    <3>1. CASE ref[d].form # "qualified"
      <4>1. links[d] = ref[d]
        BY <1>6, <3>1
      <4> QED
        BY <1>3, <2>2, <3>1, <4>1 DEF Reached, In, Spot, Now
    <3>2. CASE ref[d].form = "qualified"
      <4>1. /\ name[place[x].ws] = ref[d].base
            /\ Spot(Now, x) = <<ref[d].folder, ref[d].title>>
        BY <2>2, <3>2 DEF Reached, Now
      <4>2. Spot(s, x) = Spot(Now, x)
        BY <1>3 DEF Spot, Now
      <4>3. CASE place[x].ws = w
        <5>1. x \in rows[d] \cap targets
          BY <2>2, <4>3
        <5>2. links[d] = [ref[d] EXCEPT !.base = title]
          BY <1>6, <3>2, <4>1, <4>3, <5>1
        <5>3. ref[d] \in Links
          BY <1>1 DEF TypeOK
        <5>4. /\ links[d].form = "qualified" /\ links[d].base = title
              /\ links[d].folder = ref[d].folder /\ links[d].title = ref[d].title
          BY <3>2, <5>2, <5>3 DEF Links, NoLink
        <5>5. s.name[place[x].ws] = title /\ title # ref[d].base
          BY <1>3, <2>4, <4>1, <4>3
        <5> QED
          BY <1>3, <2>2, <3>2, <4>1, <4>2, <5>4, <5>5 DEF Reached
      <4>4. CASE place[x].ws # w
        <5>1. ref[d].base # name[w]
          BY <1>1, <2>4, <4>1, <4>4 DEF TypeOK
        <5>2. links[d] = ref[d]
          BY <1>6, <5>1
        <5> QED
          BY <1>3, <2>2, <2>4, <3>2, <4>1, <4>2, <4>4, <5>2 DEF Reached
      <4> QED
        BY <4>3, <4>4
    <3> QED
      BY <3>1, <3>2
  <2>6. Reached(t, d, ref[d], x) <=> Reached(s, d, ref[d], x)
    <3> HIDE DEF t
    <3> QED
      BY <1>8, SameReached
  <2> HIDE DEF t
  <2> QED
    BY <1>3, <1>8, <2>2, <2>3, <2>5, <2>6 DEF Served, Same
<1> HIDE DEF t
<1> QED
  BY <1>1, <1>4, <1>8, <1>9, Kept

-----------------------------------------------------------------------------
(* A document is renamed or moved. *)

LEMMA SpelledAnywhere ==
  ASSUME NEW base, NEW other, NEW link, link.form # "relative"
  PROVE  Spelled(base, link) = Spelled(other, link)
  BY DEF Spelled

\* A link in the document's own knowledge base spells the spot of what it
\* reaches.
LEMMA ReachedWithin ==
  ASSUME NEW s, NEW d, NEW link, NEW x, Reached(s, d, link, x), link.form # "qualified"
  PROVE  /\ In(s, s.place[d].ws, x) /\ Spot(s, x) \in Spelled(s.place[d].folder, link)
         /\ InWorkspace(link)
  BY SpelledQualified DEF Reached

LEMMA RightStays ==
  ASSUME NEW s, NEW t, Same(s, t), NEW d, NEW x, t.ref[d] = s.ref[d], t.rows[d] = s.rows[d],
         Right(s, d, x)
  PROVE  Right(t, d, x)
  BY SameReached DEF Right

LEMMA SameSame ==
  ASSUME NEW s, NEW t, NEW u, Same(s, t), Same(t, u)
  PROVE  Same(s, u)
  BY DEF Same

\* Served, after repairs that leave the documents where state s has them.
LEMMA ServedIn ==
  ASSUME NEW s, NEW t, Same(s, t), NEW d, NEW x, Right(t, d, x),
         t.ref[d] # ref[d] /\ s.place[d].ws = place[d].ws => ~Reached(s, d, ref[d], x)
  PROVE  Served(t, d, x)
<1>1. t.place = s.place
  BY DEF Same
<1>2. Reached(t, d, ref[d], x) <=> Reached(s, d, ref[d], x)
  BY SameReached
<1> QED
  BY <1>1, <1>2 DEF Served

\* The state in which e is at p.
Moves(s, e, p) == s = [Now EXCEPT !.place[e] = p]

Placed(s, e, p) ==
  /\ Good(s) /\ s.life = life /\ s.name = name /\ s.ref = ref /\ s.rows = rows
  /\ s.place[e] = p /\ \A d \in Docs \ {e} : s.place[d] = place[d]

LEMMA PlacedAt ==
  ASSUME LinkInv, NEW e \in Docs, NEW p \in Places, Relocate(e, p)
  PROVE  Placed([Now EXCEPT !.place[e] = p], e, p)
<1>1. TypeOK /\ Good(Now)
  BY Halves DEF LinkInv
<1>2. Good([Now EXCEPT !.place[e] = p])
  BY <1>1 DEF Good, Apart, States, Now, Relocate, Free
<1> QED
  BY <1>1, <1>2 DEF Placed, Now, TypeOK

\* What the repairs may rely on where none of the risks is run.
LEMMA SafeRelocation ==
  ASSUME Risks = {}, LinkInv, NEW e \in Docs, NEW p \in Places, Relocate(e, p),
         NEW s, Moves(s, e, p)
  PROVE  /\ \A d \in Docs : means[d] = e => ref[d].form # "qualified"
         /\ p.ws = place[e].ws => ~Shadowed(s, e)
         /\ \A d \in Docs : In(s, p.ws, d) /\ d # e => Spot(s, d) # Spot(Now, e)
         /\ p # place[e] /\ life[e] # "gone" /\ UNCHANGED means
<1>1. ~ByName({e}) /\ ~(p.ws = place[e].ws /\ Shadowed(s, e)) /\ ~Doubled(s, {e}, p.ws)
  BY DEF Relocate, Accepted, Moves
<1>2. \A d \in Docs : means[d] = e => ref[d].form # "qualified"
  BY <1>1 DEF ByName
<1>3. \A d \in DOMAIN Tree(s, p.ws) \ {e} : Spot(s, d) # Spot(Now, e)
  BY <1>1 DEF Doubled
<1>4. \A d \in Docs : In(s, p.ws, d) => d \in DOMAIN Tree(s, p.ws)
  BY TreeIs
<1> QED
  BY <1>1, <1>2, <1>3, <1>4 DEF Relocate, Free

\* Links of other documents: repairInboundLinks rewrites those that named e,
\* and takes no other for one of them.
LEMMA OthersServed ==
  ASSUME Risks = {}, LinkInv, NEW e \in Docs, NEW p \in Places, Relocate(e, p),
         NEW s, Moves(s, e, p),
         NEW d \in Docs, d # e, means[d] # NoDoc
  PROVE  LET t == InboundRepaired(s, {e}, [f \in {e} |-> Spot(Now, f)])
         IN /\ Right(t, d, means[d])
            /\ t.ref[d] # ref[d] /\ s.place[d].ws = place[d].ws => ~Reached(s, d, ref[d], means[d])
<1> DEFINE x == means[d]
           was == [f \in {e} |-> Spot(Now, f)]
           t == InboundRepaired(s, {e}, was)
<1>1. Good(Now) /\ Placed(s, e, p)
  BY Halves, PlacedAt DEF LinkInv, Moves
<1>2. /\ x \in Docs /\ x # d /\ life[x] = "live" /\ x \in rows[d]
      /\ Reached(Now, d, ref[d], x)
  BY Meant
<1>3. /\ \A f \in Docs : means[f] = e => ref[f].form # "qualified"
      /\ \A f \in Docs : In(s, p.ws, f) /\ f # e => Spot(s, f) # Spot(Now, e)
      /\ p # place[e] /\ life[e] # "gone"
  BY SafeRelocation
<1>4. was[e] = Spot(Now, e)
  OBVIOUS
<1> HIDE DEF was, t
<1>5. /\ Same(s, t)
      /\ Unnamed(s, {e}, was, d) => t.ref[d] = s.ref[d] /\ t.rows[d] = s.rows[d]
      /\ OnlyNamed(s, {e}, was, d, x) /\ s.life[x] = "live" => Right(t, d, x)
  <2> DEFINE moved == {e}
  <2>1. moved \in SUBSET Docs /\ Good(s)
    BY <1>1 DEF Placed
  <2> HIDE DEF x, moved
  <2>3. t = InboundRepaired(s, moved, was)
    BY DEF t, moved
  <2>2. /\ Same(s, t)
        /\ Unnamed(s, moved, was, d) => t.ref[d] = s.ref[d] /\ t.rows[d] = s.rows[d]
        /\ OnlyNamed(s, moved, was, d, x) /\ s.life[x] = "live" => Right(t, d, x)
    <3>1. x \in Docs /\ x # d
      BY <1>2
    <3> QED
      BY <2>1, <2>3, <3>1, InboundRight
  <2> QED
    BY <2>2 DEF t, moved
<1>6. /\ Now.place = place /\ Now.life = life /\ Now.name = name
      /\ s.ref = ref /\ s.life = life /\ s.name = name /\ s.rows = rows
      /\ s.place[d] = place[d] /\ s.place[e] = p
  BY <1>1 DEF Now, Placed
<1>7. CASE x = e
  <2>1. ref[d].form # "qualified"
    BY <1>3, <1>7
  <2>2. /\ In(Now, place[d].ws, e) /\ Spot(Now, e) \in Spelled(place[d].folder, ref[d])
        /\ InWorkspace(ref[d])
    BY <1>2, <1>6, <1>7, <2>1, ReachedWithin
  <2>3. ASSUME NEW f \in Docs, In(s, place[d].ws, f), f # e
        PROVE  Spot(s, f) # Spot(Now, e)
    <3>1. /\ life[f] = "live" /\ life[e] = "live" /\ place[f].ws = place[e].ws
          /\ Spot(s, f) = Spot(Now, f)
      BY <1>1, <1>6, <2>2, <2>3 DEF In, Placed, Spot
    <3> QED
      BY <1>1, <1>6, <2>3, <3>1, OneThere
  <2>4. Find(AsOf(s, place[d].ws, e, was[e]), Spelled(place[d].folder, ref[d])) = e
    BY <1>4, <2>2, <2>3, AsOfHits
  <2>5. OnlyNamed(s, {e}, was, d, x)
    BY <1>2, <1>6, <1>7, <2>2, <2>4 DEF Naming, OnlyNamed
  <2>6. ~Reached(s, d, ref[d], e)
    <3>1. SUFFICES ASSUME Reached(s, d, ref[d], e) PROVE FALSE
      OBVIOUS
    <3>2. In(s, place[d].ws, e) /\ Spot(s, e) \in Spelled(place[d].folder, ref[d])
      BY <1>6, <2>1, <3>1, ReachedWithin
    <3>3. Spot(s, e) = Spot(Now, e)
      BY <2>2, <3>2, OneSpelled
    <3>4. p.ws = place[e].ws /\ p.folder = place[e].folder /\ p.title = place[e].title
      BY <1>6, <2>2, <3>2, <3>3 DEF In, Spot
    <3>5. place[e] \in Places
      BY DEF LinkInv, TypeOK
    <3> QED
      BY <1>3, <3>4, <3>5 DEF Places
  <2> QED
    BY <1>2, <1>5, <1>6, <1>7, <2>5, <2>6 DEF t, was
<1>8. CASE x # e
  <2>1. Reached(s, d, ref[d], x)
    BY <1>1, <1>2, <1>6, <1>8, StillReached DEF Placed
  <2>2. e \notin Naming(s, {e}, was, d)
    <3>1. SUFFICES ASSUME e \in Naming(s, {e}, was, d) PROVE FALSE
      OBVIOUS
    <3>2. /\ InWorkspace(ref[d])
          /\ Find(AsOf(s, place[d].ws, e, was[e]), Spelled(place[d].folder, ref[d])) = e
      BY <1>6, <3>1 DEF Naming
    <3>3. In(s, place[d].ws, x) /\ Spot(s, x) \in Spelled(place[d].folder, ref[d])
      BY <1>6, <2>1, <3>2, ReachedWithin DEF InWorkspace
    <3>4. /\ was[e] \in Spelled(place[d].folder, ref[d])
          /\ In(s, place[d].ws, e) \/ \A f \in Docs : In(s, place[d].ws, f) => Spot(s, f) # was[e]
      BY <3>2, AsOfMisses
    <3>5. Spot(s, x) = Spot(Now, e)
      BY <1>4, <3>3, <3>4, OneSpelled
    <3>6. In(s, place[d].ws, e)
      BY <1>2, <1>4, <3>3, <3>4, <3>5
    <3> QED
      BY <1>2, <1>3, <1>6, <1>8, <3>3, <3>5, <3>6 DEF In
  <2>3. Unnamed(s, {e}, was, d)
    BY <2>2 DEF Naming, Unnamed
  <2>4. t.ref[d] = ref[d] /\ t.rows[d] = rows[d]
    BY <1>5, <1>6, <2>3
  <2>5. Right(t, d, x)
    BY <1>2, <1>5, <2>1, <2>4, SameReached DEF Right
  <2> QED
    BY <2>4, <2>5 DEF t, was
<1> QED
  BY <1>7, <1>8

\* The moved document's own link is left to the repairs that follow.
LEMMA OwnInbound ==
  ASSUME NEW s, Good(s), NEW e \in Docs, NEW was, NEW x \in Docs, x # e
  PROVE  LET t == InboundRepaired(s, {e}, was)
         IN Same(s, t) /\ Good(t) /\ t.ref[e] = s.ref[e] /\ t.rows[e] = s.rows[e]
<1> DEFINE moved == {e}
           t == InboundRepaired(s, moved, was)
<1>1. moved \in SUBSET Docs /\ Unnamed(s, moved, was, e)
  BY DEF Naming, Unnamed
<1> HIDE DEF moved, t
<1>2. t = InboundRepaired(s, moved, was)
  BY DEF t
<1>3. Same(s, t) /\ Good(t) /\ t.ref[e] = s.ref[e] /\ t.rows[e] = s.rows[e]
  BY <1>1, <1>2, InboundRight
<1> QED
  BY <1>3 DEF t, moved

LEMMA RelocateServes ==
  ASSUME Risks = {}, LinkInv, NEW e \in Docs, NEW p \in Places, Relocate(e, p)
  PROVE  LinkInv' /\ LeftAlone
<1> DEFINE old == place[e]
           s == [Now EXCEPT !.place[e] = p]
           was == [d \in {e} |-> Spot(Now, d)]
           inbound == InboundRepaired(s, {e}, was)
           folder == [d \in {e} |-> old.folder]
           t == IF p.ws # old.ws THEN OutboundRewritten(inbound, old.ws, folder, {})
                ELSE IF p.folder # old.folder THEN Fossilized(inbound, p.ws, folder)
                ELSE inbound
<1>1. TypeOK /\ TypeOK' /\ Good(Now)
  BY RelocateKeeps, Halves DEF LinkInv
<1>2. Become(t) /\ UNCHANGED means
  BY DEF Relocate
<1>3. /\ Placed(s, e, p)
      /\ \A d \in Docs : means[d] = e => ref[d].form # "qualified"
      /\ p.ws = old.ws => ~Shadowed(s, e)
      /\ p # old /\ life[e] # "gone"
  BY PlacedAt, SafeRelocation DEF Moves
<1>4. ASSUME NEW d \in Docs, d # e, means[d] # NoDoc
      PROVE  /\ Right(inbound, d, means[d])
             /\ inbound.ref[d] # ref[d] /\ s.place[d].ws = place[d].ws
                  => ~Reached(s, d, ref[d], means[d])
  <2> HIDE DEF s
  <2>1. Moves(s, e, p)
    BY DEF s, Moves
  <2> QED
    BY <1>4, <2>1, OthersServed
<1> HIDE DEF s
<1>5. {e} \in SUBSET Docs /\ Good(s) /\ s \in States
  BY <1>3 DEF Placed, Good
<1>6. Same(s, inbound) /\ Good(inbound)
  BY <1>5, InboundSame, SameGood
<1>7. Remembered(folder) /\ DOMAIN folder = {e} /\ folder[e] = old.folder
  BY <1>1, PlacesTyped DEF Remembered, TypeOK
<1> HIDE DEF was, folder
<1>8. /\ Now.place = place /\ Now.life = life /\ Now.name = name
      /\ s.ref = ref /\ s.life = life /\ s.name = name /\ s.rows = rows /\ s.place[e] = p
      /\ \A d \in Docs \ {e} : s.place[d] = place[d]
  BY <1>3 DEF Now, Placed
<1>9. ASSUME NEW x \in Docs, x # e
      PROVE  inbound.ref[e] = ref[e] /\ inbound.rows[e] = rows[e]
  BY <1>5, <1>8, <1>9, OwnInbound
<1> HIDE DEF inbound
\* The repairs that follow are about e's own link only.
<1>10. ASSUME NEW d \in Docs, d # e, means[d] # NoDoc
       PROVE  Same(s, t) /\ Served(t, d, means[d])
  <2>1. means[d] \in Docs /\ means[d] # d
    BY <1>10, Meant
  <2>2. /\ Same(inbound, OutboundRewritten(inbound, old.ws, folder, {}))
        /\ OutboundRewritten(inbound, old.ws, folder, {}).ref[d] = inbound.ref[d]
        /\ OutboundRewritten(inbound, old.ws, folder, {}).rows[d] = inbound.rows[d]
    BY <1>6, <1>7, <1>10, <2>1, OutboundRight
  <2>3. /\ Same(inbound, Fossilized(inbound, p.ws, folder))
        /\ Fossilized(inbound, p.ws, folder).ref[d] = inbound.ref[d]
        /\ Fossilized(inbound, p.ws, folder).rows[d] = inbound.rows[d]
    <3>1. ~Stranded(inbound, p.ws, folder, d)
      BY <1>7, <1>10 DEF Stranded
    <3> QED
      BY <1>6, <1>7, <2>1, <3>1, FossilizedRight
  <2>4. Same(inbound, inbound)
    BY <1>6 DEF Same
  <2>5. Same(inbound, t) /\ t.ref[d] = inbound.ref[d] /\ t.rows[d] = inbound.rows[d]
    BY <2>2, <2>3, <2>4
  <2> HIDE DEF t
  <2>6. Right(t, d, means[d])
    BY <1>4, <1>10, <2>5, RightStays
  <2>7. Same(s, t)
    BY <1>6, <2>5, SameSame
  <2> QED
    BY <1>4, <1>10, <2>5, <2>6, <2>7, ServedIn
<1>11. ASSUME means[e] # NoDoc
       PROVE  Same(s, t) /\ Served(t, e, means[e])
  <2> DEFINE x == means[e]
  <2>1. /\ x \in Docs /\ x # e /\ life[x] = "live" /\ x \in rows[e] /\ Reached(Now, e, ref[e], x)
    BY <1>11, Meant
  <2>2. inbound.ref[e] = ref[e] /\ inbound.rows[e] = rows[e]
    BY <1>9, <2>1
  <2>3. s.place[x] = place[x] /\ Spot(s, x) = Spot(Now, x) /\ Spot(inbound, x) = Spot(s, x)
    BY <1>6, <1>8, <2>1 DEF Spot, Same
  <2>4. \A w : (In(Now, w, x) <=> In(s, w, x)) /\ (In(s, w, x) <=> In(inbound, w, x))
    BY <1>6, <1>8, <2>3 DEF In, Same
  \* Where its link does not depend on its folder, it need not be rewritten.
  <2>5. ASSUME \/ ref[e].form = "qualified"
               \/ p.ws = old.ws /\ (ref[e].form # "relative" \/ p.folder = old.folder)
        PROVE  Reached(s, e, ref[e], x)
    <3>1. CASE ref[e].form = "qualified"
      BY <1>8, <2>1, <2>3, <3>1 DEF Reached
    <3>2. CASE ref[e].form # "qualified"
      <4>1. In(Now, old.ws, x) /\ Spot(Now, x) \in Spelled(old.folder, ref[e])
        BY <1>8, <2>1, <3>2, ReachedWithin
      <4>2. Spelled(p.folder, ref[e]) = Spelled(old.folder, ref[e])
        BY <2>5, <3>2, SpelledAnywhere
      <4> QED
        BY <1>8, <2>3, <2>4, <2>5, <3>2, <4>1, <4>2 DEF Reached
    <3> QED
      BY <3>1, <3>2
  <2> HIDE DEF x
  <2>6. CASE p.ws # old.ws
    <3> DEFINE u == OutboundRewritten(inbound, old.ws, folder, {})
    <3>1. t = u
      BY <2>6
    <3>2. /\ Same(inbound, u)
          /\ (\A d \in Docs : In(inbound, old.ws, d)
                => Spot(inbound, d) \notin Spelled(folder[e], inbound.ref[e]))
               => u.ref[e] = inbound.ref[e] /\ u.rows[e] = inbound.rows[e]
          /\ In(inbound, old.ws, x) /\ Spot(inbound, x) \in Spelled(folder[e], inbound.ref[e])
               => Right(u, e, x)
      BY <1>6, <1>7, <2>1, OutboundRight
    <3> HIDE DEF t, u
    <3>3. Right(u, e, x)
      <4>1. CASE ref[e].form = "qualified"
        <5>1. Spelled(folder[e], inbound.ref[e]) = {}
          BY <2>2, <4>1, SpelledQualified DEF InWorkspace
        <5>2. u.ref[e] = ref[e] /\ u.rows[e] = rows[e]
          BY <2>2, <3>2, <5>1
        <5>3. Reached(u, e, ref[e], x)
          BY <1>6, <2>5, <3>2, <4>1, SameReached, SameSame
        <5> QED
          BY <2>1, <5>2, <5>3 DEF Right
      <4>2. CASE ref[e].form # "qualified"
        <5>1. In(Now, old.ws, x) /\ Spot(Now, x) \in Spelled(old.folder, ref[e])
          BY <1>8, <2>1, <4>2, ReachedWithin
        <5> QED
          BY <1>7, <2>2, <2>3, <2>4, <3>2, <5>1
      <4> QED
        BY <4>1, <4>2
    <3>4. Same(s, u)
      BY <1>6, <3>2, SameSame
    <3> QED
      BY <1>8, <2>6, <3>1, <3>3, <3>4, ServedIn DEF x
  <2>7. CASE p.ws = old.ws /\ p.folder # old.folder
    <3> DEFINE u == Fossilized(inbound, p.ws, folder)
    <3>1. t = u
      BY <2>7
    <3>2. /\ Same(inbound, u)
          /\ ~Stranded(inbound, p.ws, folder, e)
               => u.ref[e] = inbound.ref[e] /\ u.rows[e] = inbound.rows[e]
          /\ Stranded(inbound, p.ws, folder, e) /\ inbound.place[e].ws = p.ws
               /\ In(inbound, p.ws, x) /\ Spot(inbound, x) \in Spelled(folder[e], inbound.ref[e])
               => Right(u, e, x)
      BY <1>6, <1>7, <2>1, FossilizedRight
    <3> HIDE DEF t, u
    <3>3. Same(s, u)
      BY <1>6, <3>2, SameSame
    <3>4. CASE Reached(s, e, ref[e], x)
      <4>1. ~Stranded(inbound, p.ws, folder, e)
        <5>1. SUFFICES ASSUME Stranded(inbound, p.ws, folder, e) PROVE FALSE
          OBVIOUS
        <5>2. /\ ref[e].form = "relative"
              /\ Find(Tree(inbound, p.ws), Spelled(p.folder, ref[e])) = NoDoc
          BY <1>6, <1>8, <2>2, <5>1 DEF Stranded, Same
        <5>3. In(s, p.ws, x) /\ Spot(s, x) \in Spelled(p.folder, ref[e])
          BY <1>8, <3>4, <5>2, ReachedWithin
        <5>4. Find(Tree(s, p.ws), Spelled(p.folder, ref[e])) = x
          BY <1>5, <2>1, <5>3, FoundIs
        <5> QED
          BY <1>6, <2>1, <5>2, <5>4, SameTree, Layout
      <4>2. u.ref[e] = ref[e] /\ u.rows[e] = rows[e]
        BY <2>2, <3>2, <4>1
      <4>3. Reached(u, e, ref[e], x)
        BY <3>3, <3>4, SameReached
      <4>4. Right(u, e, x)
        BY <2>1, <4>2, <4>3 DEF Right
      <4> QED
        BY <3>1, <3>3, <4>2, <4>4, ServedIn DEF x
    <3>5. CASE ~Reached(s, e, ref[e], x)
      <4>1. ref[e].form = "relative"
        BY <2>5, <2>7, <3>5
      <4>2. In(Now, old.ws, x) /\ Spot(Now, x) \in Spelled(old.folder, ref[e])
        BY <1>8, <2>1, <4>1, ReachedWithin
      <4>3. Find(Tree(s, p.ws), Spelled(p.folder, ref[e])) \in {NoDoc, x}
        BY <1>3, <1>8, <1>11, <2>7, <4>1 DEF Shadowed, x
      <4>4. Find(Tree(s, p.ws), Spelled(p.folder, ref[e])) # x
        <5>1. ~(In(s, p.ws, x) /\ Spot(s, x) \in Spelled(p.folder, ref[e]))
          BY <1>8, <3>5, <4>1 DEF Reached
        <5> QED
          BY <1>5, <2>1, <5>1, FoundIs
      <4>5. In(inbound, p.ws, x) /\ Spot(inbound, x) \in Spelled(folder[e], inbound.ref[e])
        BY <1>7, <2>2, <2>3, <2>4, <2>7, <4>2
      <4>6. Find(Tree(inbound, p.ws), Spelled(folder[e], inbound.ref[e])) = x
        BY <1>6, <2>1, <4>5, FoundIs
      <4>7. Tree(inbound, p.ws) = Tree(s, p.ws) /\ inbound.place[e] = p
        BY <1>6, <1>8, SameTree DEF Same
      <4>8. Stranded(inbound, p.ws, folder, e)
        BY <1>7, <2>1, <2>2, <2>7, <4>1, <4>3, <4>4, <4>6, <4>7, Layout DEF Stranded
      <4>9. Right(u, e, x)
        BY <2>7, <3>2, <4>5, <4>7, <4>8
      <4> QED
        BY <3>1, <3>3, <3>5, <4>9, ServedIn DEF x
    <3> QED
      BY <3>4, <3>5
  <2>8. CASE p.ws = old.ws /\ p.folder = old.folder
    <3>1. t = inbound
      BY <2>8
    <3> HIDE DEF t
    <3>2. Reached(inbound, e, ref[e], x)
      BY <1>6, <2>5, <2>8, SameReached
    <3>3. Right(inbound, e, x)
      BY <2>1, <2>2, <3>2 DEF Right
    <3> QED
      BY <1>6, <2>2, <3>1, <3>3, ServedIn DEF x
  <2> HIDE DEF t
  <2> QED
    BY <2>6, <2>7, <2>8
<1>12. Good(t)
  <2>1. Good(OutboundRewritten(inbound, old.ws, folder, {}))
    BY <1>6, OutboundSame, SameGood DEF Good
  <2>2. Good(Fossilized(inbound, p.ws, folder))
    BY <1>6, <1>7, FossilizedSame, SameGood DEF Good
  <2> QED
    BY <1>6, <2>1, <2>2
<1> HIDE DEF t
<1>13. ASSUME NEW d \in Docs, means'[d] # NoDoc
       PROVE  t.life[d] # "gone" /\ Served(t, d, means[d])
  <2>1. means[d] # NoDoc /\ life[d] # "gone"
    BY <1>2, <1>13, Meant
  <2>2. Same(s, t) /\ Served(t, d, means[d])
    BY <1>10, <1>11, <2>1
  <2> QED
    BY <1>8, <2>1, <2>2 DEF Same
<1>14. \A d \in Docs : means'[d] # NoDoc => means'[d] = means[d]
  BY <1>2
<1> QED
  BY <1>1, <1>2, <1>12, <1>13, <1>14, Kept

-----------------------------------------------------------------------------
(* A folder is renamed or moved. *)

\* The swap of a folder's path passes d's link by, or makes of it one to x.
Unswapped(s, w, from, to, d) == s.place[d].ws # w \/ Swapping(s, w, from, to, d) = {}

SwappedFor(s, w, from, to, d, x) ==
  /\ In(s, w, x) /\ s.place[d].ws = w /\ x \in s.rows[d] /\ x \in Beneath(s, w, to)
  /\ ~(s.ref[d].form = "relative" /\ d \in Beneath(s, w, to))
  /\ \E spot \in Spelled(s.place[d].folder, s.ref[d]) :
       /\ Under(spot[1], from) /\ Rebased(spot[1], from, to) = s.place[x].folder
       /\ spot[2] = s.place[x].title

LEMMA SwappedRight ==
  ASSUME NEW s, Good(s), NEW w, NEW from \in Paths, NEW to \in Paths,
         NEW d \in Docs, NEW x \in Docs, x # d, NEW t, t = Swapped(s, w, from, to)
  PROVE  /\ Same(s, t) /\ Good(t)
         /\ Unswapped(s, w, from, to, d) => t.ref[d] = s.ref[d] /\ t.rows[d] = s.rows[d]
         /\ SwappedFor(s, w, from, to, d, x) => Right(t, d, x) /\ t.ref[d] = CanonicalHref(s, x)
<1> DEFINE links == [e \in Docs |-> SwappedLink(s, w, from, to, e)]
<1>1. t = Rewritten(s, links) /\ links \in [Docs -> Links]
  BY SweptIs DEF Swapped, Good
<1>2. links[d] = SwappedLink(s, w, from, to, d)
  OBVIOUS
<1> HIDE DEF links
<1>3. /\ Same(s, t) /\ Good(t) /\ t.ref[d] = links[d]
      /\ links[d] = s.ref[d] => t.rows[d] = s.rows[d]
      /\ Reached(s, d, links[d], x) /\ (links[d] # s.ref[d] \/ x \in s.rows[d])
           => Right(t, d, x)
  BY <1>1, RewrittenIs
<1>4. Unswapped(s, w, from, to, d) => t.ref[d] = s.ref[d] /\ t.rows[d] = s.rows[d]
  BY <1>2, <1>3 DEF Unswapped, SwappedLink
<1>5. ASSUME SwappedFor(s, w, from, to, d, x)
      PROVE  Right(t, d, x) /\ t.ref[d] = CanonicalHref(s, x)
  <2>1. PICK spot \in Spelled(s.place[d].folder, s.ref[d]) :
               /\ Under(spot[1], from) /\ Rebased(spot[1], from, to) = s.place[x].folder
               /\ spot[2] = s.place[x].title
    BY <1>5 DEF SwappedFor
  <2>2. /\ s.place[d].ws = w /\ x \in s.rows[d] /\ x \in Beneath(s, w, to) /\ In(s, w, x)
        /\ ~(s.ref[d].form = "relative" /\ d \in Beneath(s, w, to))
    BY <1>5 DEF SwappedFor
  <2> DEFINE spots == Swapping(s, w, from, to, d)
             it == CHOOSE y \in spots : TRUE
  <2>3. spot \in spots /\ spots \subseteq Spelled(s.place[d].folder, s.ref[d])
    BY <2>1, <2>2 DEF Swapping
  <2>4. links[d] = RootRelative(Rebased(it[1], from, to), it[2])
    BY <1>2, <2>2, <2>3 DEF SwappedLink
  <2> HIDE DEF spots
  <2>5. it \in spots
    BY <2>3
  <2>6. it = spot
    BY <2>3, <2>5, OneSpelled
  <2> HIDE DEF it
  <2>7. links[d] = CanonicalHref(s, x)
    BY <2>1, <2>4, <2>6 DEF CanonicalHref
  <2>8. Reached(s, d, links[d], x)
    BY <2>2, <2>7, HrefsReach DEF In
  <2> QED
    BY <1>3, <2>2, <2>7, <2>8
<1> QED
  BY <1>3, <1>4, <1>5

\* What repairFolderMoveReferences does to one document's link.
LEMMA SweptRight ==
  ASSUME NEW s, Good(s), NEW w, NEW from \in Paths, NEW to \in Paths,
         NEW d \in Docs, NEW x \in Docs, x # d, NEW t, t = Swept(s, w, from, to),
         NEW was, was = WasIn(s, w, from, to)
  PROVE  /\ Same(s, t) /\ Good(t)
         /\ Unswapped(s, w, from, to, d) /\ ~Stranded(s, w, was, d)
              => t.ref[d] = s.ref[d] /\ t.rows[d] = s.rows[d]
         /\ Unswapped(s, w, from, to, d) /\ Stranded(s, w, was, d)
              /\ Spot(s, x) \in Spelled(was[d], s.ref[d])
              => /\ t.ref[d] = CanonicalHref(s, x)
                 /\ s.place[d].ws = w /\ In(s, w, x) => Right(t, d, x)
         /\ SwappedFor(s, w, from, to, d, x) => Right(t, d, x) /\ t.ref[d] = CanonicalHref(s, x)
<1> DEFINE u == Swapped(s, w, from, to)
<1>1. t = Fossilized(u, w, was) /\ Remembered(was)
  BY SweptIs DEF Good
<1>0. u = Swapped(s, w, from, to)
  OBVIOUS
<1> HIDE DEF u
<1>2. /\ Same(s, u) /\ Good(u)
      /\ Unswapped(s, w, from, to, d) => u.ref[d] = s.ref[d] /\ u.rows[d] = s.rows[d]
      /\ SwappedFor(s, w, from, to, d, x) => Right(u, d, x) /\ u.ref[d] = CanonicalHref(s, x)
  BY <1>0, SwappedRight
<1>3. /\ Same(u, t) /\ Good(t)
      /\ ~Stranded(u, w, was, d) => t.ref[d] = u.ref[d] /\ t.rows[d] = u.rows[d]
      /\ Stranded(u, w, was, d) /\ Spot(u, x) \in Spelled(was[d], u.ref[d])
           => t.ref[d] = CanonicalHref(u, x)
      /\ Stranded(u, w, was, d) /\ u.place[d].ws = w /\ In(u, w, x)
           /\ Spot(u, x) \in Spelled(was[d], u.ref[d])
           => Right(t, d, x)
  BY <1>1, <1>2, FossilizedRight
<1>4. Same(s, t)
  BY <1>2, <1>3, SameSame
<1>5. /\ u.place = s.place /\ Spot(u, x) = Spot(s, x) /\ (In(u, w, x) <=> In(s, w, x))
      /\ CanonicalHref(u, x) = CanonicalHref(s, x) /\ Tree(u, w) = Tree(s, w)
  BY <1>2, SameTree DEF Same, Spot, In, CanonicalHref
<1>6. u.ref[d] = s.ref[d] => (Stranded(u, w, was, d) <=> Stranded(s, w, was, d))
  BY <1>5 DEF Stranded
<1>7. ASSUME SwappedFor(s, w, from, to, d, x)
      PROVE  Right(t, d, x) /\ t.ref[d] = CanonicalHref(s, x)
  <2>1. u.ref[d].form = "path"
    BY <1>2, <1>7 DEF CanonicalHref, RootRelative
  <2>2. ~Stranded(u, w, was, d)
    BY <2>1 DEF Stranded
  <2> QED
    BY <1>2, <1>3, <1>7, <2>2, RightStays
<1> QED
  BY <1>2, <1>3, <1>4, <1>5, <1>6, <1>7

\* The state in which w's documents under `from' are in v's folder `to'.
CarriedTo(s, w, from, v, to) ==
  /\ Good(s) /\ s.life = life /\ s.name = name /\ s.ref = ref /\ s.rows = rows
  /\ \A d \in Subtree(w, from) :
       /\ s.place[d].ws = v /\ s.place[d].folder = Rebased(place[d].folder, from, to)
       /\ s.place[d].title = place[d].title
  /\ \A d \in Docs \ Subtree(w, from) : s.place[d] = place[d]

LEMMA CarriedIs ==
  ASSUME LinkInv, NEW w \in Workspaces, NEW v \in Workspaces,
         NEW from \in Paths, NEW to \in Paths, Carry(w, from, v, to)
  PROVE  CarriedTo([Now EXCEPT !.place = Carried(w, from, v, to)], w, from, v, to)
<1> DEFINE s == [Now EXCEPT !.place = Carried(w, from, v, to)]
<1>1. Good(s)
  BY CarriedGood DEF LinkInv
<1>2. /\ s.place = Carried(w, from, v, to)
      /\ s.life = life /\ s.name = name /\ s.ref = ref /\ s.rows = rows
  BY DEF Now
<1>3. ASSUME NEW d \in Docs
      PROVE  Carried(w, from, v, to)[d] = IF d \in Subtree(w, from)
                    THEN [ws |-> v, folder |-> Rebased(place[d].folder, from, to),
                          title |-> place[d].title]
                    ELSE place[d]
  BY DEF Carried
<1> HIDE DEF s
<1>4. ASSUME NEW d \in Subtree(w, from)
      PROVE  /\ s.place[d].ws = v /\ s.place[d].folder = Rebased(place[d].folder, from, to)
             /\ s.place[d].title = place[d].title
  <2>1. d \in Docs
    BY DEF Subtree
  <2>2. s.place[d] = [ws |-> v, folder |-> Rebased(place[d].folder, from, to),
                      title |-> place[d].title]
    BY <1>2, <1>3, <2>1
  <2> QED
    BY <2>2
<1>5. \A d \in Docs \ Subtree(w, from) : s.place[d] = place[d]
  BY <1>2, <1>3
<1> QED
  BY <1>1, <1>2, <1>4, <1>5 DEF CarriedTo, s

\* What the repairs may rely on where none of the risks is run.
SafelyCarried(s, w, from, v, to) ==
  /\ CarriedTo(s, w, from, v, to)
  /\ \A d \in Docs : means[d] \in Subtree(w, from) => ref[d].form # "qualified"
  /\ Subtree(v, to) \subseteq Subtree(w, from)
  /\ \A d \in Subtree(w, from) :
       means[d] \in Subtree(w, from) /\ ref[d].form = "relative"
         => Spot(s, means[d]) \in Spelled(s.place[d].folder, ref[d])

LEMMA SafeCarry ==
  ASSUME Risks = {}, LinkInv, NEW w \in Workspaces, NEW v \in Workspaces,
         NEW from \in Paths, NEW to \in Paths, Carry(w, from, v, to)
  PROVE  SafelyCarried([Now EXCEPT !.place = Carried(w, from, v, to)], w, from, v, to)
<1> DEFINE s == [Now EXCEPT !.place = Carried(w, from, v, to)]
<1>1. /\ ~ByName(Subtree(w, from)) /\ Subtree(v, to) \ Subtree(w, from) = {}
      /\ ~Climbing(s, Subtree(w, from))
  BY DEF Carry, Accepted
<1>2. CarriedTo(s, w, from, v, to)
  BY CarriedIs
<1> HIDE DEF s
<1>3. \A d \in Docs : means[d] \in Subtree(w, from) => ref[d].form # "qualified"
  BY <1>1 DEF ByName
<1>4. \A d \in Subtree(w, from) :
        means[d] \in Subtree(w, from) /\ ref[d].form = "relative"
          => Spot(s, means[d]) \in Spelled(s.place[d].folder, ref[d])
  BY <1>1 DEF Climbing
<1> QED
  BY <1>1, <1>2, <1>3, <1>4 DEF SafelyCarried, s

LEMMA MemosAre ==
  ASSUME LinkInv, NEW w, NEW from
  PROVE  /\ Subtree(w, from) \in SUBSET Docs
         /\ \A d \in Subtree(w, from) :
              /\ d \in Docs /\ life[d] # "gone" /\ place[d].ws = w
              /\ Under(place[d].folder, from) /\ place[d].folder \in Paths
         /\ \A d \in Docs : life[d] # "gone" /\ place[d].ws = w /\ Under(place[d].folder, from)
              => d \in Subtree(w, from)
<1>1. \A d \in Docs : place[d].folder \in Paths
  BY PlacesTyped DEF LinkInv, TypeOK
<1> QED
  BY <1>1 DEF Subtree

\* The documents that repairFolderMoveReferences takes for the subtree are
\* those that were carried, and it knows where they were.
LEMMA SubtreeCarried ==
  ASSUME LinkInv, NEW w, NEW v, NEW from \in Paths, NEW to \in Paths,
         NEW s, SafelyCarried(s, w, from, v, to)
  PROVE  /\ Beneath(s, v, to) = Subtree(w, from)
         /\ DOMAIN WasIn(s, v, from, to) = Subtree(w, from)
         /\ \A d \in Subtree(w, from) : WasIn(s, v, from, to)[d] = place[d].folder
<1>1. /\ CarriedTo(s, w, from, v, to) /\ Subtree(v, to) \subseteq Subtree(w, from)
  BY DEF SafelyCarried
<1>2. ASSUME NEW d \in Subtree(w, from)
      PROVE  d \in Beneath(s, v, to) /\ Rebased(s.place[d].folder, to, from) = place[d].folder
  <2>1. d \in Docs /\ life[d] # "gone" /\ Under(place[d].folder, from) /\ place[d].folder \in Paths
    BY MemosAre
  <2>2. s.place[d].ws = v /\ s.place[d].folder = Rebased(place[d].folder, from, to) /\ s.life = life
    BY <1>1 DEF CarriedTo
  <2>3. Under(s.place[d].folder, to) /\ Rebased(s.place[d].folder, to, from) = place[d].folder
    BY <2>1, <2>2, RebasedIs
  <2> QED
    BY <2>1, <2>2, <2>3 DEF Beneath
<1>3. ASSUME NEW d \in Beneath(s, v, to)
      PROVE  d \in Subtree(w, from)
  <2>1. d \in Docs /\ s.life[d] # "gone" /\ s.place[d].ws = v /\ Under(s.place[d].folder, to)
    BY DEF Beneath
  <2>2. CASE d \notin Subtree(w, from)
    <3>1. life[d] # "gone" /\ s.place[d] = place[d]
      BY <1>1, <2>1, <2>2 DEF CarriedTo
    <3>2. d \in Subtree(v, to)
      BY <2>1, <3>1 DEF Subtree
    <3> QED
      BY <1>1, <3>2
  <2> QED
    BY <2>2
<1>4. Beneath(s, v, to) = Subtree(w, from)
  BY <1>2, <1>3
<1> QED
  BY <1>2, <1>4, Zenon DEF WasIn

LEMMA RenamedServed ==
  ASSUME LinkInv, NEW w \in Workspaces, NEW from \in Paths, NEW to \in Paths, from # to,
         NEW s, SafelyCarried(s, w, from, w, to),
         \A e \in Subtree(w, from) : ~Shadowed(s, e),
         NEW d \in Docs, means[d] # NoDoc, NEW t, t = Swept(s, w, from, to)
  PROVE  Same(s, t) /\ Served(t, d, means[d])
<1> DEFINE x == means[d]
           memos == Subtree(w, from)
           was == WasIn(s, w, from, to)
<1>1. /\ x \in Docs /\ x # d /\ life[d] # "gone" /\ life[x] = "live" /\ x \in rows[d]
      /\ Reached(Now, d, ref[d], x) /\ Good(Now)
  BY Meant, Halves DEF LinkInv
<1>2. CarriedTo(s, w, from, w, to)
  BY DEF SafelyCarried
<1>3. /\ Good(s) /\ s.life = life /\ s.name = name /\ s.ref = ref /\ s.rows = rows
      /\ Now.place = place /\ Now.life = life /\ Now.name = name
  BY <1>2 DEF CarriedTo, Now
<1>4. /\ \A e \in memos : /\ s.place[e].ws = w /\ s.place[e].title = place[e].title
                          /\ s.place[e].folder = Rebased(place[e].folder, from, to)
      /\ \A e \in Docs \ memos : s.place[e] = place[e]
  BY <1>2 DEF CarriedTo
<1>5. /\ Beneath(s, w, to) = memos /\ DOMAIN was = memos
      /\ \A e \in memos : was[e] = place[e].folder
  BY SubtreeCarried
<1>6. /\ \A e \in memos : /\ e \in Docs /\ life[e] # "gone" /\ place[e].ws = w
                          /\ Under(place[e].folder, from) /\ place[e].folder \in Paths
      /\ \A e \in Docs : life[e] # "gone" /\ place[e].ws = w /\ Under(place[e].folder, from)
           => e \in memos
  BY MemosAre
<1>7. /\ x \in memos => ref[d].form # "qualified"
      /\ d \in memos /\ x \in memos /\ ref[d].form = "relative"
           => Spot(s, x) \in Spelled(s.place[d].folder, ref[d])
      /\ d \in memos => ~Shadowed(s, d)
  BY DEF SafelyCarried
<1> HIDE DEF memos
<1>0. was = WasIn(s, w, from, to)
  OBVIOUS
<1> HIDE DEF x, was
<1>8. /\ Same(s, t)
      /\ Unswapped(s, w, from, to, d) /\ ~Stranded(s, w, was, d)
           => t.ref[d] = s.ref[d] /\ t.rows[d] = s.rows[d]
      /\ Unswapped(s, w, from, to, d) /\ Stranded(s, w, was, d)
           /\ Spot(s, x) \in Spelled(was[d], s.ref[d])
           => (s.place[d].ws = w /\ In(s, w, x) => Right(t, d, x))
      /\ SwappedFor(s, w, from, to, d, x) => Right(t, d, x)
  BY <1>0, <1>1, <1>3, SweptRight
<1>9. \A e \in memos : s.place[e].folder # place[e].folder
  BY <1>4, <1>6, RebasedIs
\* A link that still reaches x and is left alone is all right.
<1>10. ASSUME Reached(s, d, ref[d], x), Unswapped(s, w, from, to, d), ~Stranded(s, w, was, d)
       PROVE  Served(t, d, x)
  <2>1. t.ref[d] = ref[d] /\ t.rows[d] = rows[d]
    BY <1>3, <1>8, <1>10
  <2>2. Right(t, d, x)
    BY <1>1, <1>8, <1>10, <2>1, SameReached DEF Right
  <2> QED
    BY <1>8, <2>1, <2>2, ServedIn
\* A link that still reaches something is not stranded.
<1>11. ASSUME Reached(s, d, ref[d], x)
       PROVE  ~Stranded(s, w, was, d)
  <2>1. SUFFICES ASSUME Stranded(s, w, was, d) PROVE FALSE
    OBVIOUS
  <2>2. /\ d \in memos /\ ref[d].form = "relative"
        /\ Find(Tree(s, w), Spelled(s.place[d].folder, ref[d])) = NoDoc
    BY <1>3, <1>5, <2>1 DEF Stranded
  <2>3. In(s, w, x) /\ Spot(s, x) \in Spelled(s.place[d].folder, ref[d])
    BY <1>4, <1>11, <2>2, ReachedWithin
  <2>4. Find(Tree(s, w), Spelled(s.place[d].folder, ref[d])) = x
    BY <1>1, <1>3, <2>3, FoundIs
  <2> QED
    BY <1>1, <2>2, <2>4, Layout
<1>12. ASSUME NEW e \in Docs
       PROVE  /\ e \notin memos => Spot(s, e) = Spot(Now, e)
              /\ Spot(Now, e)[1] = place[e].folder /\ Spot(Now, e)[2] = place[e].title
              /\ Spot(s, e)[1] = s.place[e].folder /\ Spot(s, e)[2] = s.place[e].title
  BY <1>3, <1>4 DEF Spot
<1>13. CASE ref[d].form = "qualified"
  <2>1. x \notin memos
    BY <1>7, <1>13
  <2>2. Spelled(s.place[d].folder, ref[d]) = {}
    BY <1>13, SpelledQualified DEF InWorkspace
  <2>3. Unswapped(s, w, from, to, d)
    BY <1>3, <2>2 DEF Unswapped, Swapping
  <2>4. Reached(s, d, ref[d], x)
    BY <1>1, <1>3, <1>4, <1>12, <1>13, <2>1 DEF Reached
  <2> QED
    BY <1>8, <1>10, <1>11, <2>3, <2>4 DEF x
<1>14. CASE ref[d].form # "qualified"
  <2>1. In(Now, place[d].ws, x) /\ Spot(Now, x) \in Spelled(place[d].folder, ref[d])
    BY <1>1, <1>3, <1>14, ReachedWithin
  <2>2. place[x].ws = place[d].ws
    BY <1>3, <2>1 DEF In
  <2>3. d \notin memos \/ ref[d].form # "relative"
          => Spelled(s.place[d].folder, ref[d]) = Spelled(place[d].folder, ref[d])
    BY <1>4, SpelledAnywhere
  <2>4. s.place[d].ws = place[d].ws
    BY <1>4, <1>6
  <2>5. CASE x \in memos
    <3>1. place[d].ws = w /\ In(s, w, x)
      BY <1>1, <1>3, <1>4, <1>6, <2>2, <2>5 DEF In
    <3>2. CASE d \in memos /\ ref[d].form = "relative"
      <4>1. Reached(s, d, ref[d], x)
        BY <1>7, <1>14, <2>4, <2>5, <3>1, <3>2 DEF Reached
      <4>2. Unswapped(s, w, from, to, d)
        BY <1>3, <1>5, <3>2 DEF Unswapped, Swapping
      <4> QED
        BY <1>8, <1>10, <1>11, <4>1, <4>2 DEF x
    <3>3. CASE ~(d \in memos /\ ref[d].form = "relative")
      <4>1. Spot(Now, x) \in Spelled(s.place[d].folder, s.ref[d])
        BY <1>3, <2>1, <2>3, <3>3
      <4>2. /\ Under(Spot(Now, x)[1], from)
            /\ Rebased(Spot(Now, x)[1], from, to) = s.place[x].folder
            /\ Spot(Now, x)[2] = s.place[x].title
        BY <1>1, <1>4, <1>6, <1>12, <2>5
      <4>3. SwappedFor(s, w, from, to, d, x)
        BY <1>1, <1>3, <1>5, <2>4, <2>5, <3>1, <3>3, <4>1, <4>2 DEF SwappedFor
      <4>4. ~Reached(s, d, ref[d], x)
        <5>1. SUFFICES ASSUME Reached(s, d, ref[d], x) PROVE FALSE
          OBVIOUS
        <5>2. Spot(s, x) \in Spelled(s.place[d].folder, s.ref[d])
          BY <1>3, <1>14, <5>1, ReachedWithin
        <5>3. Spot(s, x) = Spot(Now, x)
          BY <4>1, <5>2, OneSpelled
        <5> QED
          BY <1>1, <1>9, <1>12, <2>5, <5>3
      <4>5. Right(t, d, x)
        BY <1>8, <4>3
      <4> QED
        BY <1>8, <4>4, <4>5, ServedIn DEF x
    <3> QED
      BY <3>2, <3>3
  <2>6. CASE x \notin memos
    <3>1. In(s, place[d].ws, x) /\ Spot(s, x) \in Spelled(place[d].folder, ref[d])
      BY <1>1, <1>3, <1>4, <1>12, <2>1, <2>6 DEF In
    <3>2. Unswapped(s, w, from, to, d)
      <4>1. CASE s.place[d].ws # w
        BY <4>1 DEF Unswapped
      <4>2. CASE s.place[d].ws = w /\ d \in memos /\ ref[d].form = "relative"
        BY <1>3, <1>5, <4>2 DEF Unswapped, Swapping
      <4>3. CASE s.place[d].ws = w /\ ~(d \in memos /\ ref[d].form = "relative")
        <5>1. ~Under(place[x].folder, from)
          BY <1>1, <1>6, <2>2, <2>4, <2>6, <4>3
        <5>2. ASSUME NEW y \in Spelled(s.place[d].folder, s.ref[d]) PROVE ~Under(y[1], from)
          <6>1. y = Spot(Now, x)
            BY <1>3, <2>1, <2>3, <4>3, <5>2, OneSpelled
          <6> QED
            BY <1>1, <1>12, <5>1, <6>1
        <5>3. Swapping(s, w, from, to, d) = {}
          BY <5>2 DEF Swapping
        <5> QED
          BY <5>3 DEF Unswapped
      <4> QED
        BY <4>1, <4>2, <4>3
    <3>3. CASE Reached(s, d, ref[d], x)
      BY <1>8, <1>10, <1>11, <3>2, <3>3 DEF x
    <3>4. CASE ~Reached(s, d, ref[d], x)
      <4>1. d \in memos /\ ref[d].form = "relative"
        BY <1>14, <2>3, <2>4, <3>1, <3>4 DEF Reached
      <4>2. place[d].ws = w /\ s.place[d].ws = w /\ was[d] = place[d].folder
        BY <1>5, <1>6, <2>4, <4>1
      <4>3. Find(Tree(s, w), Spelled(s.place[d].folder, ref[d])) \in {NoDoc, x}
        BY <1>7, <4>1, <4>2 DEF Shadowed, x
      <4>4. Find(Tree(s, w), Spelled(s.place[d].folder, ref[d])) # x
        <5>1. ~(In(s, w, x) /\ Spot(s, x) \in Spelled(s.place[d].folder, ref[d]))
          BY <1>14, <3>4, <4>2 DEF Reached
        <5> QED
          BY <1>1, <1>3, <5>1, FoundIs
      <4>5. Find(Tree(s, w), Spelled(was[d], ref[d])) = x
        BY <1>1, <1>3, <3>1, <4>2, FoundIs
      <4>6. Stranded(s, w, was, d)
        BY <1>1, <1>3, <1>5, <1>9, <4>1, <4>2, <4>3, <4>4, <4>5, Layout DEF Stranded
      <4>7. Right(t, d, x)
        BY <1>3, <1>8, <3>1, <3>2, <4>2, <4>6
      <4> QED
        BY <1>8, <3>4, <4>7, ServedIn DEF x
    <3> QED
      BY <3>3, <3>4
  <2> QED
    BY <2>5, <2>6
<1> QED
  BY <1>13, <1>14

LEMMA RenameFolderServes ==
  ASSUME Risks = {}, LinkInv, NEW w \in Workspaces, NEW from \in Folders, NEW to \in Folders,
         RenameFolder(w, from, to)
  PROVE  LinkInv' /\ LeftAlone
<1> DEFINE s == [Now EXCEPT !.place = Carried(w, from, w, to)]
           t == Swept(s, w, from, to)
<1>1. from \in Paths /\ to \in Paths /\ from # to
  <2>1. from \in Paths /\ to \in Paths /\ ~Under(to, from)
    BY Layout DEF RenameFolder
  <2>2. Len(from) \in Nat /\ SubSeq(from, 1, Len(from)) = from
    BY <2>1, PathsAreSequences, LenProperties, SubSeqFull
  <2>3. Under(from, from)
    BY <2>2 DEF Under
  <2> QED
    BY <2>1, <2>3
<1>2. Carry(w, from, w, to) /\ Become(t) /\ UNCHANGED means
  BY DEF RenameFolder
<1>3. \A e \in Subtree(w, from) : ~Shadowed(s, e)
  BY DEF RenameFolder, Accepted
<1>4. SafelyCarried(s, w, from, w, to) /\ TypeOK'
  BY <1>1, <1>2, SafeCarry, RenameFolderKeeps DEF LinkInv
<1>0. t = Swept(s, w, from, to)
  OBVIOUS
<1> HIDE DEF s, t
<1>5. Good(s) /\ s.life = life
  BY <1>4 DEF SafelyCarried, CarriedTo
<1>6. Good(t) /\ Same(s, t)
  BY <1>0, <1>1, <1>5, SweptSame, SameGood DEF Good
<1>7. ASSUME NEW d \in Docs, means'[d] # NoDoc
      PROVE  t.life[d] # "gone" /\ Served(t, d, means[d])
  <2>1. means[d] # NoDoc /\ life[d] # "gone"
    BY <1>2, <1>7, Meant
  <2>2. Served(t, d, means[d])
    BY <1>0, <1>1, <1>3, <1>4, <2>1, RenamedServed
  <2> QED
    BY <1>5, <1>6, <2>1, <2>2 DEF Same
<1>8. \A d \in Docs : means'[d] # NoDoc => means'[d] = means[d]
  BY <1>2
<1> QED
  BY <1>2, <1>4, <1>6, <1>7, <1>8, Kept

\* Beside what every carried subtree may rely on, for one that leaves its
\* knowledge base.
SafelyMoved(s, w, from, v, to) ==
  /\ SafelyCarried(s, w, from, v, to) /\ v # w
  /\ from # to => /\ \A e \in Docs : e \notin Subtree(v, from)
                  /\ Subtree(w, to) \subseteq Subtree(w, from)
  /\ \A e \in Subtree(w, from) :
       /\ \A d \in Docs : In(s, v, d) /\ d # e => Spot(s, d) # Spot(Now, e)
       /\ \A d \in Subtree(w, from) : d # e /\ means[d] \notin {NoDoc, e}
            => Spot(Now, e) \notin Spelled(s.place[d].folder, ref[d])

\* After the swap: whoever stays has the link it had, a link within the
\* subtree is right, and one out of it spells what it did, from the old folder.
LEMMA SweptInto ==
  ASSUME LinkInv, NEW w \in Workspaces, NEW v \in Workspaces,
         NEW from \in Paths, NEW to \in Paths, NEW s, SafelyMoved(s, w, from, v, to),
         NEW d \in Docs, NEW x \in Docs, means[d] = x,
         NEW t, from = to => t = s, from # to => t = Swept(s, v, from, to)
  PROVE  /\ Same(s, t) /\ Good(t)
         /\ d \notin Subtree(w, from) => t.ref[d] = ref[d] /\ t.rows[d] = rows[d]
         /\ d \in Subtree(w, from) /\ x \in Subtree(w, from)
              => Right(t, d, x) /\ (t.ref[d] = ref[d] \/ t.ref[d] = CanonicalHref(s, x))
         /\ d \in Subtree(w, from) /\ x \notin Subtree(w, from)
              => \/ t.ref[d] = ref[d] /\ t.rows[d] = rows[d]
                 \/ t.ref[d] = CanonicalHref(s, x) /\ ref[d].form = "relative"
<1> DEFINE memos == Subtree(w, from)
           was == WasIn(s, v, from, to)
<1>1. /\ x # d /\ life[d] # "gone" /\ life[x] = "live" /\ x \in rows[d]
      /\ Reached(Now, d, ref[d], x) /\ Good(Now)
  BY Meant, Layout, Halves DEF LinkInv
<1>2. CarriedTo(s, w, from, v, to) /\ SafelyCarried(s, w, from, v, to)
  BY DEF SafelyCarried, SafelyMoved
<1>3. /\ Good(s) /\ s.life = life /\ s.name = name /\ s.ref = ref /\ s.rows = rows
      /\ Now.place = place /\ Now.life = life /\ Now.name = name
  BY <1>2 DEF CarriedTo, Now
<1>4. /\ \A e \in memos : /\ s.place[e].ws = v /\ s.place[e].title = place[e].title
                          /\ s.place[e].folder = Rebased(place[e].folder, from, to)
      /\ \A e \in Docs \ memos : s.place[e] = place[e]
  BY <1>2 DEF CarriedTo
<1>5. /\ Beneath(s, v, to) = memos /\ DOMAIN was = memos
      /\ \A e \in memos : was[e] = place[e].folder
  BY <1>2, SubtreeCarried
<1>6. /\ \A e \in memos : /\ e \in Docs /\ life[e] # "gone" /\ place[e].ws = w
                          /\ Under(place[e].folder, from) /\ place[e].folder \in Paths
      /\ \A e \in Docs : life[e] # "gone" /\ place[e].ws = w /\ Under(place[e].folder, from)
           => e \in memos
  BY MemosAre
<1>7. /\ x \in memos => ref[d].form # "qualified"
      /\ d \in memos /\ x \in memos /\ ref[d].form = "relative"
           => Spot(s, x) \in Spelled(s.place[d].folder, ref[d])
      /\ from # to => \A e \in Docs : life[e] # "gone" /\ place[e].ws = v
                        => ~Under(place[e].folder, from)
  <2>1. \A e \in Docs : life[e] # "gone" /\ place[e].ws = v /\ Under(place[e].folder, from)
          => e \in Subtree(v, from)
    BY MemosAre
  <2> QED
    BY <1>2, <2>1 DEF SafelyCarried, SafelyMoved
<1> HIDE DEF memos
<1>0. was = WasIn(s, v, from, to)
  OBVIOUS
<1> HIDE DEF was
<1>8. ASSUME NEW e \in Docs
      PROVE  /\ e \notin memos => Spot(s, e) = Spot(Now, e)
             /\ Spot(Now, e)[1] = place[e].folder /\ Spot(Now, e)[2] = place[e].title
             /\ Spot(s, e)[1] = s.place[e].folder /\ Spot(s, e)[2] = s.place[e].title
  BY <1>3, <1>4 DEF Spot
<1>9. ASSUME ref[d].form # "qualified"
      PROVE  /\ In(Now, place[d].ws, x) /\ Spot(Now, x) \in Spelled(place[d].folder, ref[d])
             /\ place[x].ws = place[d].ws
  BY <1>1, <1>3, <1>9, ReachedWithin DEF In
<1>10. CASE from = to
  <2>1. t = s
    BY <1>10
  <2>2. ASSUME d \in memos, x \in memos PROVE Right(s, d, x)
    <3>1. s.place[d].folder = place[d].folder /\ s.place[x].folder = place[x].folder
      BY <1>4, <1>6, <1>10, <2>2, UnderIs
    <3>2. Spot(s, x) = Spot(Now, x)
      BY <1>3, <1>4, <2>2, <3>1 DEF Spot
    <3>3. Reached(s, d, ref[d], x)
      BY <1>1, <1>3, <1>4, <1>7, <1>9, <2>2, <3>1, <3>2 DEF Reached, In
    <3> QED
      BY <1>1, <1>3, <3>3 DEF Right
  <2>3. Same(s, s)
    BY <1>3 DEF Same, Good
  <2> QED
    BY <1>3, <2>1, <2>2, <2>3 DEF memos
<1>11. CASE from # to
  <2>1. t = Swept(s, v, from, to)
    BY <1>11
  <2>2. /\ Same(s, t) /\ Good(t)
        /\ Unswapped(s, v, from, to, d) /\ ~Stranded(s, v, was, d)
             => t.ref[d] = s.ref[d] /\ t.rows[d] = s.rows[d]
        /\ Unswapped(s, v, from, to, d) /\ Stranded(s, v, was, d)
             /\ Spot(s, x) \in Spelled(was[d], s.ref[d])
             => t.ref[d] = CanonicalHref(s, x)
        /\ SwappedFor(s, v, from, to, d, x) => Right(t, d, x) /\ t.ref[d] = CanonicalHref(s, x)
    BY <1>0, <1>1, <1>3, <2>1, SweptRight
  <2>3. ASSUME d \notin memos
        PROVE  t.ref[d] = ref[d] /\ t.rows[d] = rows[d]
    <3>1. ~Stranded(s, v, was, d)
      BY <1>5, <2>3 DEF Stranded
    <3>2. Unswapped(s, v, from, to, d)
      <4>1. CASE s.place[d].ws # v
        BY <4>1 DEF Unswapped
      <4>2. CASE ref[d].form = "qualified"
        <5>1. Spelled(s.place[d].folder, s.ref[d]) = {}
          BY <1>3, <4>2, SpelledQualified DEF InWorkspace
        <5> QED
          BY <5>1 DEF Unswapped, Swapping
      <4>3. CASE s.place[d].ws = v /\ ref[d].form # "qualified"
        <5>1. place[x].ws = v /\ ~Under(Spot(Now, x)[1], from)
          BY <1>1, <1>4, <1>7, <1>8, <1>9, <1>11, <2>3, <4>3
        <5>2. ASSUME NEW y \in Spelled(s.place[d].folder, s.ref[d]) PROVE ~Under(y[1], from)
          <6>1. y = Spot(Now, x)
            BY <1>3, <1>4, <1>9, <2>3, <4>3, <5>2, OneSpelled
          <6> QED
            BY <5>1, <6>1
        <5>3. Swapping(s, v, from, to, d) = {}
          BY <5>2 DEF Swapping
        <5> QED
          BY <5>3 DEF Unswapped
      <4> QED
        BY <4>1, <4>2, <4>3
    <3> QED
      BY <1>3, <2>2, <3>1, <3>2
  <2>4. ASSUME d \in memos, x \in memos
        PROVE  Right(t, d, x) /\ (t.ref[d] = ref[d] \/ t.ref[d] = CanonicalHref(s, x))
    <3>1. In(s, v, x) /\ s.place[d].ws = v /\ ref[d].form # "qualified"
      BY <1>1, <1>3, <1>4, <1>7, <2>4 DEF In
    <3>2. CASE ref[d].form = "relative"
      <4>1. Spot(s, x) \in Spelled(s.place[d].folder, ref[d])
        BY <1>7, <2>4, <3>2
      <4>2. Reached(s, d, ref[d], x)
        BY <3>1, <4>1 DEF Reached
      <4>3. Find(Tree(s, v), Spelled(s.place[d].folder, ref[d])) = x
        BY <1>3, <3>1, <4>1, FoundIs
      <4>4. ~Stranded(s, v, was, d)
        BY <1>3, <4>3, Layout DEF Stranded
      <4>5. Unswapped(s, v, from, to, d)
        BY <1>3, <1>5, <2>4, <3>2 DEF Unswapped, Swapping
      <4>6. t.ref[d] = ref[d] /\ t.rows[d] = rows[d]
        BY <1>3, <2>2, <4>4, <4>5
      <4> QED
        BY <1>1, <2>2, <4>2, <4>6, SameReached DEF Right
    <3>3. CASE ref[d].form # "relative"
      <4>1. Spot(Now, x) \in Spelled(s.place[d].folder, s.ref[d])
        BY <1>3, <1>9, <3>1, <3>3, SpelledAnywhere
      <4>2. /\ Under(Spot(Now, x)[1], from)
            /\ Rebased(Spot(Now, x)[1], from, to) = s.place[x].folder
            /\ Spot(Now, x)[2] = s.place[x].title
        BY <1>4, <1>6, <1>8, <2>4
      <4>3. SwappedFor(s, v, from, to, d, x)
        BY <1>1, <1>3, <1>5, <2>4, <3>1, <3>3, <4>1, <4>2 DEF SwappedFor
      <4> QED
        BY <2>2, <4>3
    <3> QED
      BY <3>2, <3>3
  <2>5. ASSUME d \in memos, x \notin memos
        PROVE  \/ t.ref[d] = ref[d] /\ t.rows[d] = rows[d]
               \/ t.ref[d] = CanonicalHref(s, x) /\ ref[d].form = "relative"
    <3>1. Unswapped(s, v, from, to, d)
      <4>1. CASE ref[d].form = "qualified"
        <5>1. Spelled(s.place[d].folder, s.ref[d]) = {}
          BY <1>3, <4>1, SpelledQualified DEF InWorkspace
        <5> QED
          BY <5>1 DEF Unswapped, Swapping
      <4>2. CASE ref[d].form = "relative"
        BY <1>3, <1>5, <2>5, <4>2 DEF Unswapped, Swapping
      <4>3. CASE ref[d].form \notin {"qualified", "relative"}
        <5>1. Spot(Now, x) \in Spelled(s.place[d].folder, s.ref[d])
          BY <1>3, <1>9, <4>3, SpelledAnywhere
        <5>2. place[x].ws = w /\ ~Under(Spot(Now, x)[1], from)
          BY <1>1, <1>6, <1>8, <1>9, <2>5, <4>3
        <5>3. ASSUME NEW y \in Spelled(s.place[d].folder, s.ref[d]) PROVE ~Under(y[1], from)
          <6>1. y = Spot(Now, x)
            BY <5>1, <5>3, OneSpelled
          <6> QED
            BY <5>2, <6>1
        <5>4. Swapping(s, v, from, to, d) = {}
          BY <5>3 DEF Swapping
        <5> QED
          BY <5>4 DEF Unswapped
      <4> QED
        BY <4>1, <4>2, <4>3
    <3>2. CASE ~Stranded(s, v, was, d)
      BY <1>3, <2>2, <3>1, <3>2
    <3>3. CASE Stranded(s, v, was, d)
      <4>1. ref[d].form = "relative"
        BY <1>3, <3>3 DEF Stranded
      <4>2. Spot(s, x) \in Spelled(was[d], s.ref[d])
        BY <1>3, <1>5, <1>8, <1>9, <2>5, <4>1
      <4> QED
        BY <2>2, <3>1, <3>3, <4>1, <4>2
    <3> QED
      BY <3>2, <3>3
  <2> QED
    BY <2>2, <2>3, <2>4, <2>5 DEF memos
<1> QED
  BY <1>10, <1>11

\* Where the folder keeps its path there is nothing to swap.
Followed(r, s, v, from, to) == IF from = to THEN r = s ELSE r = Swept(s, v, from, to)

\* After repairInboundLinks, which takes a link to name x only if it does:
\* links into the subtree are right, all the others are as they were.
LEMMA InboundMoved ==
  ASSUME LinkInv, NEW w \in Workspaces, NEW v \in Workspaces,
         NEW from \in Paths, NEW to \in Paths, NEW s, SafelyMoved(s, w, from, v, to),
         NEW d \in Docs, NEW x \in Docs, means[d] = x,
         NEW r, Followed(r, s, v, from, to),
         NEW was, \A e \in Subtree(w, from) : was[e] = Spot(Now, e),
         NEW t, t = InboundRepaired(r, Subtree(w, from), was)
  PROVE  /\ Same(s, t) /\ Good(t)
         /\ d \notin Subtree(w, from) /\ x \notin Subtree(w, from)
              => t.ref[d] = ref[d] /\ t.rows[d] = rows[d]
         /\ x \in Subtree(w, from) => Right(t, d, x)
         /\ d \in Subtree(w, from) /\ x \in Subtree(w, from)
              => t.ref[d] = ref[d] \/ t.ref[d] = CanonicalHref(s, x)
         /\ d \in Subtree(w, from) /\ x \notin Subtree(w, from)
              => \/ t.ref[d] = ref[d] /\ t.rows[d] = rows[d]
                 \/ t.ref[d] = CanonicalHref(s, x) /\ ref[d].form = "relative"
<1> DEFINE memos == Subtree(w, from)
<1>1. /\ x # d /\ life[d] # "gone" /\ life[x] = "live" /\ x \in rows[d]
      /\ Reached(Now, d, ref[d], x) /\ Good(Now)
  BY Meant, Layout, Halves DEF LinkInv
<1>2. CarriedTo(s, w, from, v, to)
  BY DEF SafelyCarried, SafelyMoved
<1>3. /\ Good(s) /\ s.life = life /\ s.name = name /\ s.ref = ref /\ s.rows = rows
      /\ Now.place = place /\ Now.life = life /\ Now.name = name
  BY <1>2 DEF CarriedTo, Now
<1>4. /\ \A e \in memos : /\ s.place[e].ws = v /\ s.place[e].title = place[e].title
                          /\ s.place[e].folder = Rebased(place[e].folder, from, to)
      /\ \A e \in Docs \ memos : s.place[e] = place[e]
  BY <1>2 DEF CarriedTo
<1>6. /\ \A e \in memos : /\ e \in Docs /\ life[e] # "gone" /\ place[e].ws = w
                          /\ Under(place[e].folder, from) /\ place[e].folder \in Paths
      /\ \A e \in Docs : life[e] # "gone" /\ place[e].ws = w /\ Under(place[e].folder, from)
           => e \in memos
  BY MemosAre
<1>7. /\ x \in memos => ref[d].form # "qualified"
      /\ v # w
      /\ \A e \in memos : \A f \in Docs : In(s, v, f) /\ f # e => Spot(s, f) # Spot(Now, e)
      /\ \A e \in memos : \A f \in memos : f # e /\ means[f] \notin {NoDoc, e}
            => Spot(Now, e) \notin Spelled(s.place[f].folder, ref[f])
  BY DEF SafelyCarried, SafelyMoved
<1>5. memos \in SUBSET Docs /\ \A e \in memos : was[e] = Spot(Now, e)
  BY <1>6
<1>0. t = InboundRepaired(r, memos, was)
  OBVIOUS
<1>8. /\ Same(s, r) /\ Good(r)
      /\ d \notin memos => r.ref[d] = ref[d] /\ r.rows[d] = rows[d]
      /\ d \in memos /\ x \in memos
           => Right(r, d, x) /\ (r.ref[d] = ref[d] \/ r.ref[d] = CanonicalHref(s, x))
      /\ d \in memos /\ x \notin memos
           => \/ r.ref[d] = ref[d] /\ r.rows[d] = rows[d]
              \/ r.ref[d] = CanonicalHref(s, x) /\ ref[d].form = "relative"
  BY SweptInto DEF Followed
<1> HIDE DEF memos
<1>9. /\ Same(r, t) /\ Good(t)
      /\ Unnamed(r, memos, was, d) => t.ref[d] = r.ref[d] /\ t.rows[d] = r.rows[d]
      /\ OnlyNamed(r, memos, was, d, x) /\ r.life[x] = "live"
           => /\ Right(t, d, x)
              /\ t.ref[d] = IF r.place[d].ws = r.place[x].ws THEN CanonicalHref(r, x)
                                                            ELSE CrossHref(r, x)
  BY <1>0, <1>1, <1>5, <1>8, InboundRight
<1>10. Same(s, t)
  BY <1>8, <1>9, SameSame
<1>11. /\ r.place = s.place /\ r.life = s.life
       /\ \A e : Spot(r, e) = Spot(s, e) /\ CanonicalHref(r, e) = CanonicalHref(s, e)
       /\ \A e, u : In(r, u, e) <=> In(s, u, e)
  BY <1>8 DEF Same, Spot, In, CanonicalHref
<1>12. ASSUME NEW e \in Docs
       PROVE  e \notin memos => Spot(s, e) = Spot(Now, e)
  BY <1>3, <1>4 DEF Spot
<1>13. ASSUME ref[d].form # "qualified"
       PROVE  /\ In(Now, place[d].ws, x) /\ Spot(Now, x) \in Spelled(place[d].folder, ref[d])
              /\ place[x].ws = place[d].ws /\ InWorkspace(ref[d])
  BY <1>1, <1>3, <1>13, ReachedWithin DEF In
\* Two documents of w were at two places.
<1>14. ASSUME NEW e \in Docs, life[e] # "gone", place[e].ws = place[x].ws, Spot(Now, e) = Spot(Now, x)
       PROVE  e = x
  BY <1>1, <1>3, <1>14, OneThere
<1>15. ASSUME NEW e \in Naming(r, memos, was, d)
       PROVE  /\ e \in memos /\ e # d /\ e \in r.rows[d] /\ InWorkspace(r.ref[d])
              /\ Spot(Now, e) \in Spelled(s.place[d].folder, r.ref[d])
              /\ \/ In(s, s.place[d].ws, e)
                 \/ \A f \in Docs : In(s, s.place[d].ws, f) => Spot(s, f) # Spot(Now, e)
  <2>1. /\ e \in memos /\ e # d /\ e \in r.rows[d] /\ InWorkspace(r.ref[d])
        /\ Find(AsOf(r, s.place[d].ws, e, was[e]), Spelled(s.place[d].folder, r.ref[d])) = e
    BY <1>11 DEF Naming
  <2>2. /\ was[e] \in Spelled(s.place[d].folder, r.ref[d])
        /\ \/ In(r, s.place[d].ws, e)
           \/ \A f \in Docs : In(r, s.place[d].ws, f) => Spot(r, f) # was[e]
    <3>1. e \in Docs /\ was[e] = Spot(Now, e)
      BY <1>5, <2>1
    <3> QED
      BY <2>1, <3>1, AsOfMisses
  <2> QED
    BY <1>5, <1>11, <2>1, <2>2
<1>16. CASE d \notin memos
  <2>1. /\ s.place[d] = place[d] /\ r.ref[d] = ref[d] /\ r.rows[d] = rows[d]
    BY <1>4, <1>8, <1>16
  <2>2. CASE x \in memos
    <3>1. ref[d].form # "qualified" /\ place[x].ws = w /\ place[d].ws = w
      BY <1>6, <1>7, <1>13, <2>2
    <3>2. Spot(Now, x) \in Spelled(s.place[d].folder, ref[d])
      BY <1>13, <2>1, <3>1
    <3>3. ASSUME NEW f \in Docs, In(r, w, f), f # x
          PROVE  Spot(r, f) # Spot(Now, x)
      <4>1. life[f] = "live" /\ f \notin memos
        BY <1>3, <1>4, <1>7, <1>11, <3>3 DEF In
      <4>2. place[f].ws = w /\ Spot(r, f) = Spot(Now, f)
        BY <1>4, <1>11, <1>12, <3>3, <4>1 DEF In
      <4> QED
        BY <1>14, <3>1, <3>3, <4>1, <4>2
    <3>4. Find(AsOf(r, w, x, was[x]), Spelled(s.place[d].folder, ref[d])) = x
      BY <1>5, <2>2, <3>2, <3>3, AsOfHits
    <3>5. x \in Naming(r, memos, was, d)
      BY <1>1, <1>11, <1>13, <2>1, <2>2, <3>1, <3>4 DEF Naming
    <3>6. ASSUME NEW e \in Naming(r, memos, was, d) PROVE e = x
      <4>1. e \in memos /\ Spot(Now, e) = Spot(Now, x)
        BY <1>15, <2>1, <3>2, OneSpelled
      <4> QED
        BY <1>6, <1>14, <3>1, <4>1
    <3>7. OnlyNamed(r, memos, was, d, x)
      BY <3>5, <3>6 DEF OnlyNamed
    <3> QED
      BY <1>1, <1>3, <1>9, <1>10, <1>11, <1>16, <2>2, <3>7 DEF memos
  <2>3. CASE x \notin memos
    <3>1. ASSUME NEW e \in Naming(r, memos, was, d) PROVE FALSE
      <4>1. /\ e \in memos /\ InWorkspace(ref[d])
            /\ Spot(Now, e) \in Spelled(place[d].folder, ref[d])
            /\ \/ In(s, place[d].ws, e)
               \/ \A f \in Docs : In(s, place[d].ws, f) => Spot(s, f) # Spot(Now, e)
        BY <1>15, <2>1
      <4>2. ref[d].form # "qualified"
        BY <4>1 DEF InWorkspace
      <4>3. Spot(s, x) = Spot(Now, e) /\ In(s, place[d].ws, x)
        <5>1. Spot(Now, x) = Spot(Now, e)
          BY <1>13, <4>1, <4>2, OneSpelled
        <5> QED
          BY <1>1, <1>3, <1>4, <1>12, <1>13, <2>3, <4>2, <5>1 DEF In
      <4>4. In(s, place[d].ws, e)
        BY <4>1, <4>3
      <4>5. place[d].ws = v
        BY <1>4, <4>1, <4>4 DEF In
      <4> QED
        BY <1>7, <2>3, <4>1, <4>3, <4>5
    <3>2. Unnamed(r, memos, was, d)
      BY <3>1 DEF Unnamed
    <3> QED
      BY <1>9, <1>10, <1>16, <2>1, <2>3, <3>2 DEF memos
  <2> QED
    BY <2>2, <2>3
<1>17. CASE d \in memos /\ x \in memos
  <2>1. Right(r, d, x) /\ (r.ref[d] = ref[d] \/ r.ref[d] = CanonicalHref(s, x))
    BY <1>8, <1>17
  <2>2. /\ s.place[d].ws = v /\ s.place[x].ws = v /\ s.life[x] = "live"
        /\ d \in Docs /\ ref[d].form # "qualified"
    BY <1>1, <1>3, <1>4, <1>7, <1>17
  <2>3. r.ref[d].form # "qualified"
    BY <2>1, <2>2 DEF CanonicalHref, RootRelative
  <2>4. Spot(s, x) \in Spelled(s.place[d].folder, r.ref[d])
    BY <1>11, <2>1, <2>3, ReachedWithin DEF Right
  <2>5. ASSUME NEW e \in Naming(r, memos, was, d) PROVE e = x
    <3>1. e \in memos /\ Spot(Now, e) = Spot(s, x)
      BY <1>15, <2>4, OneSpelled
    <3>2. In(s, v, x)
      BY <2>2 DEF In
    <3> QED
      BY <1>7, <3>1, <3>2
  <2>6. CASE Naming(r, memos, was, d) = {}
    <3>1. t.ref[d] = r.ref[d] /\ t.rows[d] = r.rows[d]
      BY <1>9, <2>6 DEF Unnamed
    <3>2. Right(t, d, x)
      BY <1>9, <2>1, <3>1, RightStays
    <3> QED
      BY <1>9, <1>10, <1>17, <2>1, <3>1, <3>2 DEF memos
  <2>7. CASE Naming(r, memos, was, d) # {}
    <3>1. OnlyNamed(r, memos, was, d, x)
      BY <2>5, <2>7 DEF OnlyNamed
    <3>2. Right(t, d, x) /\ t.ref[d] = CanonicalHref(s, x)
      BY <1>9, <1>11, <2>2, <3>1
    <3> QED
      BY <1>9, <1>10, <1>17, <3>2 DEF memos
  <2> QED
    BY <2>6, <2>7
<1>18. CASE d \in memos /\ x \notin memos
  <2>1. \/ r.ref[d] = ref[d] /\ r.rows[d] = rows[d]
        \/ r.ref[d] = CanonicalHref(s, x) /\ ref[d].form = "relative"
    BY <1>8, <1>18
  <2>2. ASSUME NEW e \in Naming(r, memos, was, d) PROVE FALSE
    <3>1. /\ e \in memos /\ e # d /\ InWorkspace(r.ref[d])
          /\ Spot(Now, e) \in Spelled(s.place[d].folder, r.ref[d])
      BY <1>15
    <3>2. e # x
      BY <1>18, <3>1
    <3>3. CASE r.ref[d] = ref[d]
      BY <1>1, <1>7, <1>18, <3>1, <3>2, <3>3, Meant, Layout
    <3>4. CASE r.ref[d] = CanonicalHref(s, x) /\ ref[d].form = "relative"
      <4>1. Spelled(s.place[d].folder, r.ref[d]) = {Spot(s, x)}
        BY <3>4 DEF Spelled, CanonicalHref, RootRelative, Spot
      <4>2. Spot(Now, e) = Spot(Now, x) /\ place[x].ws = w
        BY <1>6, <1>12, <1>13, <1>18, <3>1, <3>4, <4>1
      <4> QED
        BY <1>6, <1>14, <3>1, <3>2, <4>2
    <3> QED
      BY <2>1, <3>3, <3>4
  <2>3. Unnamed(r, memos, was, d)
    BY <2>2 DEF Unnamed
  <2> QED
    BY <1>9, <1>10, <1>18, <2>1, <2>3 DEF memos
<1> QED
  BY <1>16, <1>17, <1>18

\* And what left w names what it left behind there by w's title.
LEMMA MovedServed ==
  ASSUME LinkInv, NEW w \in Workspaces, NEW v \in Workspaces,
         NEW from \in Paths, NEW to \in Paths, NEW s, SafelyMoved(s, w, from, v, to),
         NEW d \in Docs, NEW x \in Docs, means[d] = x,
         NEW r, Followed(r, s, v, from, to),
         NEW was, \A e \in Subtree(w, from) : was[e] = Spot(Now, e),
         NEW u, u = InboundRepaired(r, Subtree(w, from), was),
         NEW folder, DOMAIN folder = Subtree(w, from),
         \A e \in Subtree(w, from) : folder[e] = place[e].folder,
         NEW t, t = OutboundRewritten(u, w, folder, Subtree(w, from))
  PROVE  Same(s, t) /\ Good(t) /\ Served(t, d, x)
<1> DEFINE memos == Subtree(w, from)
<1>1. /\ x # d /\ life[d] # "gone" /\ life[x] = "live" /\ x \in rows[d]
      /\ Reached(Now, d, ref[d], x) /\ Good(Now)
  BY Meant, Layout, Halves DEF LinkInv
<1>2. CarriedTo(s, w, from, v, to)
  BY DEF SafelyCarried, SafelyMoved
<1>3. /\ Good(s) /\ s.life = life /\ s.name = name /\ s.ref = ref /\ s.rows = rows
      /\ Now.place = place /\ Now.life = life /\ Now.name = name
  BY <1>2 DEF CarriedTo, Now
<1>4. /\ \A e \in memos : /\ s.place[e].ws = v /\ s.place[e].title = place[e].title
                          /\ s.place[e].folder = Rebased(place[e].folder, from, to)
      /\ \A e \in Docs \ memos : s.place[e] = place[e]
  BY <1>2 DEF CarriedTo
<1>5. /\ \A e \in memos : /\ e \in Docs /\ life[e] # "gone" /\ place[e].ws = w
                          /\ Under(place[e].folder, from) /\ place[e].folder \in Paths
      /\ \A e \in Docs : life[e] # "gone" /\ place[e].ws = w /\ Under(place[e].folder, from)
           => e \in memos
  BY MemosAre
<1>6. /\ x \in memos => ref[d].form # "qualified"
      /\ v # w
      /\ from # to => Subtree(w, to) \subseteq memos
  BY DEF SafelyCarried, SafelyMoved
<1>7. /\ Same(s, u) /\ Good(u)
      /\ d \notin memos /\ x \notin memos => u.ref[d] = ref[d] /\ u.rows[d] = rows[d]
      /\ x \in memos => Right(u, d, x)
      /\ d \in memos /\ x \in memos => u.ref[d] = ref[d] \/ u.ref[d] = CanonicalHref(s, x)
      /\ d \in memos /\ x \notin memos
           => \/ u.ref[d] = ref[d] /\ u.rows[d] = rows[d]
              \/ u.ref[d] = CanonicalHref(s, x) /\ ref[d].form = "relative"
  BY InboundMoved
<1>8. DOMAIN folder = memos /\ \A e \in memos : folder[e] = place[e].folder
  OBVIOUS
<1>0. t = OutboundRewritten(u, w, folder, memos)
  OBVIOUS
<1>15. \A e \in Docs : life[e] # "gone" /\ place[e].ws = w /\ Under(place[e].folder, to)
         => e \in Subtree(w, to)
  BY MemosAre
<1> HIDE DEF memos
<1>9. /\ Same(u, t) /\ Good(t)
      /\ d \notin memos \/ (\A e \in Docs : In(u, w, e) => Spot(u, e) \notin Spelled(folder[d], u.ref[d]))
           => t.ref[d] = u.ref[d] /\ t.rows[d] = u.rows[d]
      /\ d \in memos /\ In(u, w, x) /\ x \notin memos /\ Spot(u, x) \in Spelled(folder[d], u.ref[d])
           => Right(t, d, x)
  BY <1>0, <1>1, <1>7, <1>8, OutboundRight
<1>10. Same(s, t)
  BY <1>7, <1>9, SameSame
<1>11. /\ u.place = s.place /\ u.life = s.life
       /\ \A e : Spot(u, e) = Spot(s, e)
       /\ \A e, a : In(u, a, e) <=> In(s, a, e)
  BY <1>7 DEF Same, Spot, In
<1>12. ASSUME NEW e \in Docs
       PROVE  e \notin memos => Spot(s, e) = Spot(Now, e)
  BY <1>3, <1>4 DEF Spot
<1>13. ASSUME ref[d].form # "qualified"
       PROVE  /\ In(Now, place[d].ws, x) /\ Spot(Now, x) \in Spelled(place[d].folder, ref[d])
              /\ place[x].ws = place[d].ws
  BY <1>1, <1>3, <1>13, ReachedWithin DEF In
<1>14. ASSUME NEW e \in Docs, life[e] # "gone", place[e].ws = place[x].ws, Spot(Now, e) = Spot(Now, x)
       PROVE  e = x
  BY <1>1, <1>3, <1>14, OneThere
<1>16. CASE d \notin memos
  <2>1. t.ref[d] = u.ref[d] /\ t.rows[d] = u.rows[d] /\ s.place[d] = place[d]
    BY <1>4, <1>9, <1>16
  <2>2. CASE x \in memos
    <3>1. Right(t, d, x)
      BY <1>7, <1>9, <2>1, <2>2, RightStays
    <3>2. ~Reached(s, d, ref[d], x)
      <4>1. ref[d].form # "qualified" /\ place[d].ws = w /\ s.place[x].ws = v
        BY <1>4, <1>5, <1>6, <1>13, <2>2
      <4> QED
        BY <1>6, <2>1, <4>1 DEF Reached, In
    <3> QED
      BY <1>9, <1>10, <3>1, <3>2, ServedIn
  <2>3. CASE x \notin memos
    <3>1. t.ref[d] = ref[d] /\ t.rows[d] = rows[d]
      BY <1>7, <1>16, <2>1, <2>3
    <3>2. Reached(s, d, ref[d], x)
      BY <1>1, <1>3, <1>4, <2>1, <2>3, StillReached
    <3>3. Right(t, d, x)
      BY <1>1, <1>10, <3>1, <3>2, SameReached DEF Right
    <3> QED
      BY <1>9, <1>10, <3>1, <3>3, ServedIn
  <2> QED
    BY <2>2, <2>3
<1>17. CASE d \in memos
  <2>1. s.place[d].ws = v /\ s.place[d].ws # place[d].ws /\ place[d].ws = w /\ folder[d] = place[d].folder
    BY <1>4, <1>5, <1>6, <1>8, <1>17
  <2>2. Right(t, d, x)
    <3>1. CASE x \in memos
      <4>1. Right(u, d, x) /\ ref[d].form # "qualified" /\ place[x].ws = w
        BY <1>5, <1>6, <1>7, <3>1
      <4>2. ASSUME NEW e \in Docs, In(u, w, e)
            PROVE  Spot(u, e) \notin Spelled(folder[d], u.ref[d])
        <5>1. e \notin memos /\ life[e] = "live" /\ place[e].ws = w
          BY <1>3, <1>4, <1>6, <1>11, <4>2 DEF In
        <5>2. Spot(u, e) = Spot(Now, e) /\ e # x
          BY <1>11, <1>12, <3>1, <5>1
        <5>3. CASE u.ref[d] = ref[d]
          <6>1. Spot(Now, x) \in Spelled(folder[d], u.ref[d])
            BY <1>13, <2>1, <4>1, <5>3
          <6> QED
            BY <1>14, <4>1, <5>1, <5>2, <6>1, OneSpelled
        <5>4. CASE u.ref[d] = CanonicalHref(s, x)
          <6>1. Spelled(folder[d], u.ref[d]) = {Spot(s, x)}
            BY <5>4 DEF Spelled, CanonicalHref, RootRelative, Spot
          <6>2. s.place[x].folder = Rebased(place[x].folder, from, to)
            BY <1>4, <3>1
          <6>3. Spot(Now, e) # Spot(s, x)
            <7>1. CASE from = to
              <8>1. s.place[x].folder = place[x].folder
                BY <1>5, <3>1, <6>2, <7>1, UnderIs
              <8>2. Spot(s, x) = Spot(Now, x)
                BY <1>3, <1>4, <3>1, <8>1 DEF Spot
              <8> QED
                BY <1>14, <4>1, <5>1, <5>2, <8>2
            <7>2. CASE from # to
              <8>1. e \notin Subtree(w, to)
                BY <1>6, <5>1, <7>2
              <8>2. ~Under(place[e].folder, to)
                BY <1>15, <5>1, <8>1
              <8>3. Under(s.place[x].folder, to)
                BY <1>5, <3>1, <6>2, RebasedIs
              <8> QED
                BY <1>3, <8>2, <8>3 DEF Spot
            <7> QED
              BY <7>1, <7>2
          <6> QED
            BY <5>2, <6>1, <6>3
        <5> QED
          BY <1>7, <1>17, <3>1, <5>3, <5>4
      <4>3. t.ref[d] = u.ref[d] /\ t.rows[d] = u.rows[d]
        BY <1>9, <4>2
      <4> QED
        BY <1>9, <4>1, <4>3, RightStays
    <3>2. CASE x \notin memos /\ ref[d].form = "qualified"
      <4>1. u.ref[d] = ref[d] /\ u.rows[d] = rows[d]
        BY <1>7, <1>17, <3>2
      <4>2. Spelled(folder[d], u.ref[d]) = {}
        BY <3>2, <4>1, SpelledQualified DEF InWorkspace
      <4>3. t.ref[d] = ref[d] /\ t.rows[d] = rows[d]
        BY <1>9, <4>1, <4>2
      <4>4. Reached(s, d, ref[d], x)
        BY <1>1, <1>3, <1>4, <1>12, <3>2 DEF Reached
      <4> QED
        BY <1>1, <1>10, <4>3, <4>4, SameReached DEF Right
    <3>3. CASE x \notin memos /\ ref[d].form # "qualified"
      <4>1. /\ In(u, w, x) /\ Spot(u, x) = Spot(Now, x)
            /\ Spot(Now, x) \in Spelled(folder[d], ref[d])
        BY <1>1, <1>3, <1>4, <1>11, <1>12, <1>13, <2>1, <3>3 DEF In
      <4>2. CASE u.ref[d] = ref[d]
        BY <1>9, <1>17, <3>3, <4>1, <4>2
      <4>3. CASE u.ref[d] = CanonicalHref(s, x)
        <5>1. Spelled(folder[d], u.ref[d]) = {Spot(s, x)}
          BY <4>3 DEF Spelled, CanonicalHref, RootRelative, Spot
        <5> QED
          BY <1>9, <1>11, <1>17, <3>3, <4>1, <5>1
      <4> QED
        BY <1>7, <1>17, <3>3, <4>2, <4>3
    <3> QED
      BY <3>1, <3>2, <3>3
  <2> QED
    BY <1>9, <1>10, <2>1, <2>2, ServedIn
<1> QED
  BY <1>9, <1>10, <1>16, <1>17

LEMMA MoveFolderServes ==
  ASSUME Risks = {}, LinkInv, NEW w \in Workspaces, NEW v \in Workspaces, NEW from \in Folders,
         NEW parent \in Parents, MoveFolder(w, from, v, parent)
  PROVE  LinkInv' /\ LeftAlone
<1> DEFINE to == Append(parent, from[Len(from)])
           memos == Subtree(w, from)
           s == [Now EXCEPT !.place = Carried(w, from, v, to)]
           r == IF from = to THEN s ELSE Swept(s, v, from, to)
           was == [d \in memos |-> Spot(Now, d)]
           u == InboundRepaired(r, memos, was)
           folder == [d \in memos |-> place[d].folder]
           t == OutboundRewritten(u, w, folder, memos)
<1>1. from \in Paths /\ to \in Paths
  BY MovedPath DEF MoveFolder
<1>2. /\ Carry(w, from, v, to) /\ Become(t) /\ UNCHANGED means /\ v # w
      /\ ~(from # to /\ Subtree(v, from) \cup (Subtree(w, to) \ memos) # {})
      /\ ~Doubled(s, memos, v)
  BY DEF MoveFolder, Accepted
<1>3. TypeOK'
  BY MoveFolderKeeps DEF LinkInv
<1> HIDE DEF to
<1>4. SafelyCarried(s, w, from, v, to)
  BY <1>1, <1>2, SafeCarry
<1> HIDE DEF s
<1>5. SafelyMoved(s, w, from, v, to)
  <2>1. from # to => /\ \A e \in Docs : e \notin Subtree(v, from)
                     /\ Subtree(w, to) \subseteq Subtree(w, from)
    BY <1>2
  <2>2. ASSUME NEW e \in memos
        PROVE  /\ \A d \in Docs : In(s, v, d) /\ d # e => Spot(s, d) # Spot(Now, e)
               /\ \A d \in memos : d # e /\ means[d] \notin {NoDoc, e}
                    => Spot(Now, e) \notin Spelled(s.place[d].folder, ref[d])
    <3>1. \A d \in DOMAIN Tree(s, v) \ {e} : Spot(s, d) # Spot(Now, e)
      BY <1>2 DEF Doubled
    <3>2. \A d \in Docs : In(s, v, d) => d \in DOMAIN Tree(s, v)
      BY TreeIs
    <3>3. \A d \in memos : d # e /\ means[d] \notin {NoDoc, e}
            => Spot(Now, e) \notin Spelled(s.place[d].folder, ref[d])
      BY <1>2 DEF Doubled
    <3> QED
      BY <3>1, <3>2, <3>3
  <2> QED
    BY <1>2, <1>4, <2>1, <2>2 DEF SafelyMoved
<1>6. memos \in SUBSET Docs /\ \A e \in memos : was[e] = Spot(Now, e)
  BY MemosAre
<1>7. DOMAIN folder = memos /\ \A e \in memos : folder[e] = place[e].folder
  OBVIOUS
<1>8. Followed(r, s, v, from, to)
  BY DEF Followed
<1>9. u = InboundRepaired(r, memos, was) /\ t = OutboundRewritten(u, w, folder, memos)
  OBVIOUS
<1>10. Good(s) /\ s.life = life
  BY <1>4 DEF SafelyCarried, CarriedTo
<1>11. Good(t)
  <2>1. Good(r)
    BY <1>1, <1>10, SweptSame, SameGood DEF Good
  <2> HIDE DEF r, was
  <2>2. Good(u)
    BY <1>6, <2>1, InboundSame, SameGood DEF Good
  <2> HIDE DEF u, folder
  <2> QED
    BY <2>2, OutboundSame, SameGood DEF Good
<1> HIDE DEF r, was, u, folder, t
<1>12. ASSUME NEW d \in Docs, means'[d] # NoDoc
       PROVE  t.life[d] # "gone" /\ Served(t, d, means[d])
  <2>1. means[d] # NoDoc /\ life[d] # "gone" /\ means[d] \in Docs
    BY <1>2, <1>12, Meant
  <2>2. Same(s, t) /\ Served(t, d, means[d])
    BY <1>1, <1>5, <1>6, <1>7, <1>8, <1>9, <2>1, MovedServed
  <2> QED
    BY <1>10, <2>1, <2>2 DEF Same
<1>13. \A d \in Docs : means'[d] # NoDoc => means'[d] = means[d]
  BY <1>2
<1> QED
  BY <1>2, <1>3, <1>11, <1>12, <1>13, Kept

-----------------------------------------------------------------------------
LEMMA LinkStart == Init => LinkInv
<1>1. Init => TypeOK
  BY InitTyped
<1>2. Init => \A d \in Docs : means[d] = NoDoc
  BY DEF Init
<1> QED
  BY <1>1, <1>2 DEF LinkInv

LEMMA LinkStep ==
  ASSUME Risks = {}, LinkInv, [Next]_vars
  PROVE  LinkInv' /\ (LeftAlone \/ UNCHANGED vars)
<1>1. CASE \E d \in Docs, p \in Places : Create(d, p) \/ Relocate(d, p)
  BY <1>1, CreateServes, RelocateServes
<1>2. CASE \E d \in Docs : \E link \in Written(d), others \in SUBSET (Docs \ {d}) :
             Write(d, link, others)
  <2>0. PICK d \in Docs : \E link \in Written(d), others \in SUBSET (Docs \ {d}) :
               Write(d, link, others)
    BY <1>2
  <2>1. PICK link \in Written(d), others \in SUBSET (Docs \ {d}) : Write(d, link, others)
    BY <2>0
  <2>2. others \in SUBSET Docs
    OBVIOUS
  <2> QED
    BY <2>1, <2>2, WriteServes
<1>3. CASE \E d \in Docs : Archive(d) \/ Restore(d) \/ Delete(d)
  BY <1>3, ArchiveServes, RestoreServes, DeleteServes
<1>4. CASE \E w \in Workspaces, from, to \in Folders : RenameFolder(w, from, to)
  BY <1>4, RenameFolderServes
<1>5. CASE \E w, v \in Workspaces, from \in Folders, parent \in Parents :
             MoveFolder(w, from, v, parent)
  BY <1>5, MoveFolderServes
<1>6. CASE \E w \in Workspaces, title \in WorkspaceTitles : RenameWorkspace(w, title)
  BY <1>6, RenameWorkspaceServes
<1>7. CASE BackfillMemoLinkIndex
  BY <1>7, BackfillServes
<1>8. CASE UNCHANGED vars
  <2>1. life' = life /\ Now' = Now /\ means' = means
    BY <1>8 DEF vars, Now
  <2>2. TypeOK'
    BY <1>8, StepTyped DEF LinkInv
  <2>3. LinkInv'
    <3>1. ASSUME NEW d \in Docs
          PROVE  Right(Now, d, means[d])' <=> Right(Now, d, means[d])
      BY <1>8 DEF vars, Right, Reached, In, Spot, Now, Spelled
    <3> QED
      BY <2>1, <2>2, <3>1 DEF LinkInv
  <2> QED
    BY <1>8, <2>3
<1> QED
  BY <1>1, <1>2, <1>3, <1>4, <1>5, <1>6, <1>7, <1>8, Zenon DEF Next

LEMMA LinkInvShows == LinkInv => LinksKeepMeaning /\ IndexTells
<1> SUFFICES ASSUME LinkInv PROVE LinksKeepMeaning /\ IndexTells
  OBVIOUS
<1>1. Good(Now)
  BY Halves DEF LinkInv
<1>2. ASSUME NEW d \in Docs, means[d] # NoDoc
      PROVE  Resolve(Now, d) = means[d] /\ means[d] \in rows[d]
  <2>1. means[d] \in Docs /\ means[d] \in rows[d] /\ Reached(Now, d, ref[d], means[d])
    BY <1>2, Meant
  <2>2. Reaches(Now, d, ref[d]) = means[d]
    BY <1>1, <2>1, ReachesIs
  <2> QED
    BY <2>1, <2>2 DEF Resolve, Now
<1> QED
  BY <1>2 DEF LinksKeepMeaning, IndexTells

LEMMA LinksRight == ASSUME Risks = {} PROVE Spec => []LinkInv
<1>1. LinkInv /\ [Next]_vars => LinkInv'
  BY LinkStep
<1> QED
  BY <1>1, LinkStart, PTL DEF Spec

(* Where users make only the moves that the repair is up to, a link that    *)
(* named another document when it was written names it ever after, over     *)
(* every rename and move of documents, folders and knowledge bases, every   *)
(* archiving and every restart of the server.                               *)
THEOREM LinksKept == ASSUME Risks = {} PROVE Spec => []LinksKeepMeaning
<1> QED
  BY LinksRight, LinkInvShows, PTL

(* And the index that the refusals and the repairs go by has every one of   *)
(* these links, after every write, every repair and every restart.          *)
THEOREM IndexKept == ASSUME Risks = {} PROVE Spec => []IndexTells
<1> QED
  BY LinksRight, LinkInvShows, PTL

(* No repair rewrites a link, in a document that stays in its knowledge     *)
(* base, that would still have named its document as its author wrote it.   *)
THEOREM LinksAsWritten == ASSUME Risks = {} PROVE Spec => AsWritten
<1>1. LinkInv /\ [Next]_vars => LeftAlone \/ UNCHANGED vars
  BY LinkStep
<1>2. Spec => [][LeftAlone]_vars
  BY <1>1, LinksRight, PTL DEF Spec
<1> QED
  BY <1>2 DEF AsWritten, LeftAlone
=============================================================================
