------------------------ MODULE LiveRefresh_proofs ------------------------
(***************************************************************************)
(* Proofs about LiveRefresh, for any tabs, queries, kinds of change and    *)
(* bounds: its type correctness -- with it that only the holder of the     *)
(* lock has a stream and that there is one holder at most -- that no change *)
(* is lost, that outages are bridged, that every behaviour of it is one that*)
(* Freshness, the promise, allows, and that menus follow the holder's.      *)
(***************************************************************************)
EXTENDS LiveRefresh, TLAPS

\* The two halves of TypeOK: the types, and who may have a stream.
Types ==
  /\ life \in [Tabs -> {"out", "waiting", "holding"}]
  /\ conn \in [Tabs -> Phases]
  /\ earlier \in [Tabs -> BOOLEAN] /\ once \in [Tabs -> BOOLEAN]
  /\ status \in [Tabs -> Statuses]
  /\ inbox \in [Tabs -> Seq(Messages)]
  /\ sub \in [Tabs -> {"none", "answered", "subscribed"}]
  /\ buffer \in [Tabs -> Seq(Kinds)]
  /\ unsent \subseteq Happening
  /\ stale \in [Tabs -> SUBSET Shown] /\ invalid \in [Tabs -> SUBSET Shown]
  /\ missed \in [Tabs -> SUBSET Shown]
  /\ changes \in 0..MaxChanges /\ faults \in 0..MaxFaults /\ mounts \in 0..MaxMounts

Streams ==
  /\ \A t \in Tabs : /\ conn[t] # "none" <=> life[t] = "holding"
                     /\ sub[t] # "none" => conn[t] \in {"asking", "open"}
                     /\ Len(buffer[t]) <= Cap
  /\ \A t, u \in Holders : t = u

LEMMA Halves == TypeOK <=> Types /\ Streams
  BY DEF TypeOK, Types, Streams

LEMMA HalvesNext == TypeOK' <=> Types' /\ Streams'
  BY DEF TypeOK, Types, Streams

-----------------------------------------------------------------------------
(* What the operators return. *)

\* Affected and invalidated queries are queries on the screen.
LEMMA QueriesShown == \A k : Invalidated(k) \subseteq Shown /\ Affected(k) \subseteq Shown
  BY DEF Invalidated, Affected

\* So are those that messages are about.
LEMMA AboutShown == ASSUME NEW messages PROVE About(messages) \subseteq Shown
  BY QueriesShown DEF About

\* The statuses and events a tab posts or keeps are messages.
LEMMA MessagesKnown ==
  /\ \A s \in Statuses : <<s>> \in Seq(Messages) /\ <<s>> \o <<"resync">> \in Seq(Messages)
  /\ \A k \in Kinds : <<k>> \in Seq(Messages)
  /\ <<"hello">> \in Seq(Messages)
<1>1. Statuses \subseteq Messages /\ Kinds \subseteq Messages /\ {"resync", "hello"} \subseteq Messages
  BY DEF Messages
<1>2. \A m \in Messages : <<m>> \in Seq(Messages)
  OBVIOUS
<1>3. \A m, n \in Messages : <<m>> \o <<n>> \in Seq(Messages)
  OBVIOUS
<1> QED
  BY <1>1, <1>2, <1>3

\* Posting appends messages to inboxes.
LEMMA PostedType ==
  ASSUME Types, NEW t \in Tabs, NEW messages \in Seq(Messages)
  PROVE  Posted(t, messages) \in [Tabs -> Seq(Messages)]
<1>1. \A u \in Tabs : inbox[u] \in Seq(Messages) /\ inbox[u] \o messages \in Seq(Messages)
  BY DEF Types
<1> QED
  BY <1>1 DEF Posted

\* So does publishing a status, alone or with the resync.
LEMMA PublishType ==
  ASSUME Types, NEW t \in Tabs, NEW s \in Statuses, NEW more \in {<<>>, <<"resync">>},
         Publish(t, s, more)
  PROVE  status' \in [Tabs -> Statuses] /\ inbox' \in [Tabs -> Seq(Messages)]
<1>1. status' \in [Tabs -> Statuses]
  BY DEF Publish, Types
<1>2. <<s>> \o more \in Seq(Messages)
  <2>1. CASE more = <<>>
    BY <2>1, MessagesKnown
  <2>2. CASE more = <<"resync">>
    BY <2>2, MessagesKnown
  <2> QED
    BY <2>1, <2>2
<1>3. inbox' \in [Tabs -> Seq(Messages)]
  BY <1>2, PostedType DEF Publish
<1> QED
  BY <1>1, <1>3

\* What is missed is on the screen.
LEMMA MissingType ==
  ASSUME Types, Missing, stale' \in [Tabs -> SUBSET Shown]
  PROVE  missed' \in [Tabs -> SUBSET Shown]
  BY DEF Types, Missing

-----------------------------------------------------------------------------
(* Type correctness. *)

\* The tabs' first state is well typed.
LEMMA InitTypes == Init => TypeOK
<1> SUFFICES ASSUME Init PROVE TypeOK
  OBVIOUS
<1>1. Types
  BY Sizes DEF Init, Types, Phases, Statuses
<1>2. Streams
  BY Sizes DEF Init, Streams, Holders
<1> QED
  BY <1>1, <1>2, Halves

\* A step of the life of a tab keeps the types.
LEMMA LifeTypes ==
  ASSUME Types, Streams, NEW t \in Tabs
  PROVE  /\ Mount(t) => Types' /\ Streams'
         /\ HoldStream(t) => Types' /\ Streams'
         /\ (\E stays \in BOOLEAN : Leave(t, stays)) => Types' /\ Streams'
<1>1. ASSUME Mount(t) PROVE Types' /\ Streams'
  <2>1. inbox' \in [Tabs -> Seq(Messages)]
    BY <1>1, MessagesKnown, PostedType DEF Mount
  <2>2. Types'
    BY <1>1, <2>1, Sizes DEF Mount, Types, serverVars, cacheVars
  <2>3. Streams'
    BY <1>1 DEF Mount, Types, Streams, Holders, serverVars
  <2> QED
    BY <2>2, <2>3
<1>2. ASSUME HoldStream(t) PROVE Types' /\ Streams'
  <2>1. missed' \in [Tabs -> SUBSET Shown]
    BY <1>2, MissingType DEF HoldStream, Types
  <2>2. Types'
    BY <1>2, <2>1 DEF HoldStream, Types, serverVars, bounds, Phases
  <2>3. Streams'
    BY <1>2 DEF HoldStream, Types, Streams, Holders, serverVars
  <2> QED
    BY <2>2, <2>3
<1>3. ASSUME NEW stays \in BOOLEAN, Leave(t, stays) PROVE Types' /\ Streams'
  <2>1. Types'
    BY <1>3 DEF Leave, Types, bounds, Phases, Statuses
  <2>2. Streams'
    BY <1>3, Sizes DEF Leave, Types, Streams, Holders
  <2> QED
    BY <2>1, <2>2
<1> QED
  BY <1>1, <1>2, <1>3

\* A step of connect() keeps the types.
LEMMA ConnectTypes ==
  ASSUME Types, Streams, NEW t \in Tabs,
         GotToken(t) \/ NoToken(t) \/ LateToken(t) \/ Connected(t) \/ Fail(t) \/ Lose(t) \/ Retry(t)
  PROVE  Types' /\ Streams'
<1>0. "connected" \in Statuses /\ "connecting" \in Statuses /\ "disconnected" \in Statuses
  BY DEF Statuses
<1>1. CASE GotToken(t)
  <2>1. status' \in [Tabs -> Statuses] /\ inbox' \in [Tabs -> Seq(Messages)]
    BY <1>0, <1>1, PublishType DEF GotToken
  <2>2. Types'
    BY <1>1, <2>1 DEF GotToken, Types, tabVars, serverVars, cacheVars, bounds, Phases
  <2>3. Streams'
    BY <1>1 DEF GotToken, Types, Streams, Holders, tabVars, serverVars
  <2> QED
    BY <2>2, <2>3
<1>2. CASE NoToken(t)
  <2>1. status' \in [Tabs -> Statuses] /\ inbox' \in [Tabs -> Seq(Messages)]
    BY <1>0, <1>2, PublishType DEF NoToken
  <2>2. missed' \in [Tabs -> SUBSET Shown]
    BY <1>2, MissingType DEF NoToken, Types
  <2>0. conn' \in [Tabs -> Phases] /\ faults' \in 0..MaxFaults
    BY <1>2, Sizes DEF NoToken, Types, Phases
  <2>3. Types'
    BY <1>2, <2>0, <2>1, <2>2 DEF NoToken, Types, tabVars, serverVars
  <2>4. Streams'
    BY <1>2 DEF NoToken, Types, Streams, Holders, tabVars, serverVars
  <2> QED
    BY <2>3, <2>4
<1>3. CASE LateToken(t)
  <2>1. status' \in [Tabs -> Statuses]
    BY <1>0, <1>3 DEF LateToken, Types
  <2>2. Types'
    BY <1>3, <2>1 DEF LateToken, Types, serverVars, cacheVars, bounds
  <2>3. Streams'
    BY <1>3 DEF LateToken, Types, Streams, Holders, serverVars
  <2> QED
    BY <2>2, <2>3
<1>4. CASE Connected(t)
  <2>1. status' \in [Tabs -> Statuses] /\ inbox' \in [Tabs -> Seq(Messages)]
    BY <1>0, <1>4, PublishType DEF Connected
  <2>2. invalid' \in [Tabs -> SUBSET Shown]
    BY <1>4 DEF Connected, Types
  <2>3. Types'
    BY <1>4, <2>1, <2>2 DEF Connected, Types, serverVars, bounds, Phases
  <2>4. Streams'
    BY <1>4 DEF Connected, Types, Streams, Holders, serverVars
  <2> QED
    BY <2>3, <2>4
<1>5. CASE Fail(t)
  <2>1. status' \in [Tabs -> Statuses] /\ inbox' \in [Tabs -> Seq(Messages)]
    BY <1>0, <1>5, PublishType DEF Fail
  <2>2. missed' \in [Tabs -> SUBSET Shown]
    BY <1>5, MissingType DEF Fail, Types
  <2>0. /\ conn' \in [Tabs -> Phases] /\ faults' \in 0..MaxFaults
        /\ sub' \in [Tabs -> {"none", "answered", "subscribed"}]
        /\ buffer' \in [Tabs -> Seq(Kinds)]
    BY <1>5, Sizes DEF Fail, Types, Phases
  <2>3. Types'
    BY <1>5, <2>0, <2>1, <2>2 DEF Fail, Types, tabVars
  <2>4. Streams'
    BY <1>5, Sizes DEF Fail, Types, Streams, Holders, tabVars
  <2> QED
    BY <2>3, <2>4
<1>6. CASE Lose(t)
  <2>1. status' \in [Tabs -> Statuses] /\ inbox' \in [Tabs -> Seq(Messages)]
    BY <1>0, <1>6, PublishType DEF Lose
  <2>2. Types'
    BY <1>6, <2>1 DEF Lose, Types, tabVars, serverVars, cacheVars, bounds, Phases
  <2>3. Streams'
    BY <1>6 DEF Lose, Types, Streams, Holders, tabVars, serverVars
  <2> QED
    BY <2>2, <2>3
<1>7. CASE Retry(t)
  <2>1. Types'
    BY <1>7 DEF Retry, Types, tabVars, serverVars, cacheVars, bounds, Phases
  <2>2. Streams'
    BY <1>7 DEF Retry, Types, Streams, Holders, tabVars, serverVars
  <2> QED
    BY <2>1, <2>2
<1> QED
  BY <1>1, <1>2, <1>3, <1>4, <1>5, <1>6, <1>7

\* A message, an event, a fetch or the user's return keeps the types.
LEMMA HearTypes ==
  ASSUME Types, Streams, NEW t \in Tabs,
         Hear(t) \/ Deliver(t) \/ (\E q \in Shown : Fetch(t, q)) \/ Focus(t)
  PROVE  Types' /\ Streams'
<1>1. CASE Hear(t)
  <2>1. buffer[t] \in Seq(Kinds) /\ Head(buffer[t]) \in Kinds /\ Tail(buffer[t]) \in Seq(Kinds)
        /\ Len(Tail(buffer[t])) <= Len(buffer[t])
    BY <1>1 DEF Hear, Types
  <2>2. inbox' \in [Tabs -> Seq(Messages)]
    BY <1>1, <2>1, MessagesKnown, PostedType DEF Hear
  <2>3. invalid' \in [Tabs -> SUBSET Shown] /\ buffer' \in [Tabs -> Seq(Kinds)]
    BY <1>1, <2>1, QueriesShown DEF Hear, Types
  <2>4. Types'
    BY <1>1, <2>2, <2>3 DEF Hear, Types, tabVars, bounds
  <2>5. Streams'
    BY <1>1, <2>1, Sizes DEF Hear, Types, Streams, Holders, tabVars
  <2> QED
    BY <2>4, <2>5
<1>2. CASE Deliver(t)
  <2> DEFINE message == Head(inbox[t])
             rest == [inbox EXCEPT ![t] = Tail(@)]
  <2>1. message \in Messages /\ rest \in [Tabs -> Seq(Messages)]
    BY <1>2 DEF Deliver, Types
  <2>2. status[t] \in Messages
    BY DEF Types, Messages
  <2>3. inbox' \in [Tabs -> Seq(Messages)]
    <3>1. \A u \in Tabs : Append(rest[u], status[t]) \in Seq(Messages)
      BY <2>1, <2>2
    <3>2. CASE inbox' = rest
      BY <2>1, <3>2
    <3>3. CASE inbox' = [u \in Tabs |-> IF u # t /\ Mounted(u)
                                        THEN Append(rest[u], status[t]) ELSE rest[u]]
      BY <2>1, <3>1, <3>3
    <3> QED
      BY <1>2, <3>2, <3>3 DEF Deliver
  <2>4. status' \in [Tabs -> Statuses]
    BY <1>2 DEF Deliver, Types
  <2>5. invalid' \in [Tabs -> SUBSET Shown]
    BY <1>2, AboutShown DEF Deliver, Types
  <2>6. Types'
    BY <1>2, <2>3, <2>4, <2>5 DEF Deliver, Types, tabVars, serverVars, bounds
  <2>7. Streams'
    BY <1>2 DEF Deliver, Types, Streams, Holders, tabVars, serverVars
  <2> QED
    BY <2>6, <2>7
<1>3. ASSUME NEW q \in Shown, Fetch(t, q) PROVE Types' /\ Streams'
  <2>1. Types'
    BY <1>3 DEF Fetch, Types, tabVars, serverVars, bounds
  <2>2. Streams'
    BY <1>3 DEF Fetch, Types, Streams, Holders, tabVars, serverVars
  <2> QED
    BY <2>1, <2>2
<1>4. CASE Focus(t)
  <2>1. Types'
    BY <1>4 DEF Focus, Types, tabVars, serverVars, bounds
  <2>2. Streams'
    BY <1>4 DEF Focus, Types, Streams, Holders, tabVars, serverVars
  <2> QED
    BY <2>1, <2>2
<1> QED
  BY <1>1, <1>2, <1>3, <1>4

\* A step of the server or the network keeps the types.
LEMMA ServerTypes ==
  ASSUME Types, Streams
  PROVE  /\ \A t \in Tabs : Answer(t) \/ Subscribe(t) \/ Sever(t) => Types' /\ Streams'
         /\ \A k \in Happening : Commit(k) \/ Broadcast(k) => Types' /\ Streams'
         /\ Restart => Types' /\ Streams'
<1>1. ASSUME NEW t \in Tabs, Answer(t) \/ Subscribe(t) PROVE Types' /\ Streams'
  <2>1. Types'
    BY <1>1 DEF Answer, Subscribe, Types, tabVars, cacheVars, bounds
  <2>2. Streams'
    BY <1>1 DEF Answer, Subscribe, Types, Streams, Holders, tabVars
  <2> QED
    BY <2>1, <2>2
<1>2. ASSUME NEW t \in Tabs, Sever(t) PROVE Types' /\ Streams'
  <2>1. Types'
    BY <1>2, Sizes DEF Sever, Types, tabVars, cacheVars
  <2>2. Streams'
    BY <1>2, Sizes DEF Sever, Types, Streams, Holders, tabVars
  <2> QED
    BY <2>1, <2>2
<1>3. ASSUME NEW k \in Happening, Commit(k) PROVE Types' /\ Streams'
  <2>1. stale' \in [Tabs -> SUBSET Shown]
    BY <1>3, QueriesShown DEF Commit, Types
  <2>2. missed' \in [Tabs -> SUBSET Shown]
    BY <1>3, <2>1, MissingType DEF Commit
  <2>3. unsent' \subseteq Happening /\ changes' \in 0..MaxChanges
    BY <1>3, Sizes DEF Commit, Types
  <2>4. Types'
    BY <1>3, <2>1, <2>2, <2>3 DEF Commit, Types, tabVars
  <2>5. Streams'
    BY <1>3 DEF Commit, Types, Streams, Holders, tabVars
  <2> QED
    BY <2>4, <2>5
<1>4. ASSUME NEW k \in Happening, Broadcast(k) PROVE Types' /\ Streams'
  <2>1. missed' \in [Tabs -> SUBSET Shown]
    BY <1>4, MissingType DEF Broadcast, Types
  <2>2. \A t \in Tabs : /\ Append(buffer[t], k) \in Seq(Kinds)
                        /\ Len(Append(buffer[t], k)) = Len(buffer[t]) + 1
                        /\ Len(buffer[t]) \in Nat
    BY Views DEF Types
  <2>3. buffer' \in [Tabs -> Seq(Kinds)]
    BY <1>4, <2>2 DEF Broadcast, Types
  <2>4. Types'
    BY <1>4, <2>1, <2>3 DEF Broadcast, Types, tabVars, bounds
  <2>5. \A t \in Tabs : Len(buffer'[t]) <= Cap
    BY <1>4, <2>2, Sizes DEF Broadcast, Streams
  <2>6. Streams'
    BY <1>4, <2>5 DEF Broadcast, Streams, Holders, tabVars
  <2> QED
    BY <2>4, <2>6
<1>5. ASSUME Restart PROVE Types' /\ Streams'
  <2>1. missed' \in [Tabs -> SUBSET Shown]
    BY <1>5, MissingType DEF Restart, Types
  <2>2. Types'
    BY <1>5, <2>1, Sizes DEF Restart, Types, tabVars
  <2>3. Streams'
    BY <1>5, Sizes DEF Restart, Types, Streams, Holders, tabVars
  <2> QED
    BY <2>2, <2>3
<1> QED
  BY <1>1, <1>2, <1>3, <1>4, <1>5

\* Every step keeps the types.
LEMMA StepTypes == TypeOK /\ [Next]_vars => TypeOK'
<1> SUFFICES ASSUME TypeOK, [Next]_vars PROVE Types' /\ Streams'
  BY HalvesNext
<1>0. Types /\ Streams
  BY Halves
<1>1. ASSUME NEW t \in Tabs, Running(t) PROVE Types' /\ Streams'
  BY <1>0, <1>1, LifeTypes, ConnectTypes, HearTypes, ServerTypes DEF Running
<1>2. ASSUME NEW t \in Tabs, Mount(t) \/ NoToken(t) \/ Fail(t) \/ Focus(t) \/ Sever(t)
      PROVE  Types' /\ Streams'
  BY <1>0, <1>2, LifeTypes, ConnectTypes, HearTypes, ServerTypes
<1>3. ASSUME NEW t \in Tabs, \E stays \in BOOLEAN : Leave(t, stays) PROVE Types' /\ Streams'
  BY <1>0, <1>3, LifeTypes
<1>4. ASSUME NEW t \in Tabs, \E q \in Shown : Fetch(t, q) PROVE Types' /\ Streams'
  BY <1>0, <1>4, HearTypes
<1>5. ASSUME NEW k \in Happening, Commit(k) \/ Broadcast(k) PROVE Types' /\ Streams'
  BY <1>0, <1>5, ServerTypes
<1>6. CASE Restart
  BY <1>0, <1>6, ServerTypes
<1>7. CASE UNCHANGED vars
  BY <1>0, <1>7 DEF vars, Types, Streams, Holders
<1> QED
  BY <1>1, <1>2, <1>3, <1>4, <1>5, <1>6, <1>7 DEF Next

\* The refresh is well typed; only the tab that holds the lock has a stream,
\* and only one tab ever holds it (useLiveMemoRefresh.ts, navigator.locks).
THEOREM TypeCorrect == Spec => []TypeOK
  BY InitTypes, StepTypes, PTL DEF Spec

-----------------------------------------------------------------------------
(* What messages are about. *)

\* A query messages are about, and the message it is named by.
LEMMA AboutIn ==
  ASSUME NEW messages, NEW q
  PROVE  q \in About(messages) <=>
           \E i \in DOMAIN messages :
             \/ messages[i] = "resync" /\ q \in Shown
             \/ messages[i] \in Kinds /\ q \in Invalidated(messages[i])
<1>1. "resync" \notin Kinds
  BY DEF Kinds
<1> QED
  BY <1>1 DEF About

\* A single message.
LEMMA AboutOne ==
  /\ \A s \in Statuses : About(<<s>>) = {}
  /\ About(<<"hello">>) = {}
  /\ About(<<"resync">>) = Shown
  /\ \A k \in Kinds : About(<<k>>) = Invalidated(k)
<1>1. \A m, q : q \in About(<<m>>) <=> \/ m = "resync" /\ q \in Shown
                                       \/ m \in Kinds /\ q \in Invalidated(m)
  <2> TAKE m, q
  <2>1. DOMAIN <<m>> = {1} /\ <<m>>[1] = m
    OBVIOUS
  <2> QED
    BY <2>1, AboutIn
<1>2. "resync" \notin Kinds /\ "hello" \notin Kinds
  BY DEF Kinds
<1>3. \A s \in Statuses : s \notin Kinds /\ s # "resync"
  BY DEF Kinds, Statuses
<1> QED
  BY <1>1, <1>2, <1>3

\* Messages after messages are about both.
LEMMA AboutBoth ==
  ASSUME NEW m \in Seq(Messages \cup Kinds), NEW n \in Seq(Messages \cup Kinds)
  PROVE  About(m \o n) = About(m) \cup About(n)
<1>1. \A q : q \in About(m) => q \in About(m \o n)
  <2> SUFFICES ASSUME NEW q, q \in About(m) PROVE q \in About(m \o n)
    OBVIOUS
  <2>1. PICK i \in DOMAIN m : \/ m[i] = "resync" /\ q \in Shown
                              \/ m[i] \in Kinds /\ q \in Invalidated(m[i])
    BY AboutIn
  <2>2. i \in DOMAIN (m \o n) /\ (m \o n)[i] = m[i]
    OBVIOUS
  <2> QED
    BY <2>1, <2>2, AboutIn
<1>2. \A q : q \in About(n) => q \in About(m \o n)
  <2> SUFFICES ASSUME NEW q, q \in About(n) PROVE q \in About(m \o n)
    OBVIOUS
  <2>1. PICK i \in DOMAIN n : \/ n[i] = "resync" /\ q \in Shown
                              \/ n[i] \in Kinds /\ q \in Invalidated(n[i])
    BY AboutIn
  <2>2. Len(m) + i \in DOMAIN (m \o n) /\ (m \o n)[Len(m) + i] = n[i]
    OBVIOUS
  <2> QED
    BY <2>1, <2>2, AboutIn
<1>3. \A q : q \in About(m \o n) => q \in About(m) \/ q \in About(n)
  <2> SUFFICES ASSUME NEW q, q \in About(m \o n) PROVE q \in About(m) \/ q \in About(n)
    OBVIOUS
  <2>1. PICK i \in DOMAIN (m \o n) : \/ (m \o n)[i] = "resync" /\ q \in Shown
                                     \/ (m \o n)[i] \in Kinds /\ q \in Invalidated((m \o n)[i])
    BY AboutIn
  <2>2. CASE i <= Len(m)
    <3>1. i \in DOMAIN m /\ (m \o n)[i] = m[i]
      BY <2>2
    <3> QED
      BY <2>1, <3>1, AboutIn
  <2>3. CASE i > Len(m)
    <3>1. i - Len(m) \in DOMAIN n /\ (m \o n)[i] = n[i - Len(m)]
      BY <2>3
    <3> QED
      BY <2>1, <3>1, AboutIn
  <2> QED
    BY <2>2, <2>3
<1> QED
  BY <1>1, <1>2, <1>3

\* The first message and the others.
LEMMA AboutFirst ==
  ASSUME NEW m \in Seq(Messages \cup Kinds), m # <<>>
  PROVE  About(m) = About(<<Head(m)>>) \cup About(Tail(m))
<1>1. m = <<Head(m)>> \o Tail(m)
  OBVIOUS
<1>2. <<Head(m)>> \in Seq(Messages \cup Kinds) /\ Tail(m) \in Seq(Messages \cup Kinds)
  OBVIOUS
<1> QED
  BY <1>1, <1>2, AboutBoth

\* No messages are about nothing.
LEMMA AboutNone == About(<<>>) = {}
  BY AboutIn

-----------------------------------------------------------------------------
(* Nothing is lost on its way. *)

\* A tab that is signed out shows nothing, and a stream was opened before.
KnowInv ==
  /\ TypeOK
  /\ ComesToKnow
  /\ \A t \in Tabs : life[t] = "out" => stale[t] = {}
  /\ \A t \in Tabs : conn[t] = "open" => once[t]

\* The stream, once it is open or to be resynced, is about queries shown.
LEMMA StreamedShown == ASSUME NEW h PROVE Streamed(h) \subseteq Shown
  BY AboutShown DEF Streamed

\* The changes that are stored and yet to be announced.
Announced == UNION {Invalidated(k) : k \in unsent}

\* What is coming to a tab, by its part: to the holder over the stream, to a
\* tab that waits through its inbox and the holder.
LEMMA ComingTo ==
  ASSUME TypeOK, NEW t \in Tabs
  PROVE  /\ life[t] = "holding" => Coming(t) = invalid[t] \cup Announced \cup Streamed(t)
         /\ life[t] = "waiting" /\ Holders = {} => Shown \subseteq Coming(t)
         /\ \A h \in Tabs : life[t] = "waiting" /\ life[h] = "holding"
              => Coming(t) = invalid[t] \cup Announced \cup About(inbox[t]) \cup Streamed(h)
<1>1. life[t] = "holding" => Coming(t) = invalid[t] \cup Announced \cup Streamed(t)
  BY DEF Coming, Announced
<1>2. life[t] = "waiting" /\ Holders = {} => Shown \subseteq Coming(t)
  BY DEF Coming
<1>3. ASSUME NEW h \in Tabs, life[t] = "waiting", life[h] = "holding"
      PROVE  Coming(t) = invalid[t] \cup Announced \cup About(inbox[t]) \cup Streamed(h)
  <2>1. Holders = {h}
    BY <1>3 DEF Holders, TypeOK
  <2> QED
    BY <1>3, <2>1 DEF Coming, Announced
<1> QED
  BY <1>1, <1>2, <1>3

\* The same in the next state.
LEMMA ComingToNext ==
  ASSUME TypeOK', NEW t \in Tabs
  PROVE  /\ life'[t] = "holding" => Coming(t)' = invalid'[t] \cup Announced' \cup Streamed(t)'
         /\ life'[t] = "waiting" /\ Holders' = {} => Shown \subseteq Coming(t)'
         /\ \A h \in Tabs : life'[t] = "waiting" /\ life'[h] = "holding"
              => Coming(t)' = invalid'[t] \cup Announced' \cup About(inbox'[t]) \cup Streamed(h)'
<1>1. life'[t] = "holding" => Coming(t)' = invalid'[t] \cup Announced' \cup Streamed(t)'
  BY DEF Coming, Announced
<1>2. life'[t] = "waiting" /\ Holders' = {} => Shown \subseteq Coming(t)'
  BY DEF Coming
<1>3. ASSUME NEW h \in Tabs, life'[t] = "waiting", life'[h] = "holding"
      PROVE  Coming(t)' = invalid'[t] \cup Announced' \cup About(inbox'[t]) \cup Streamed(h)'
  <2>1. Holders' = {h}
    BY <1>3 DEF Holders, TypeOK
  <2> QED
    BY <1>3, <2>1 DEF Coming, Announced
<1> QED
  BY <1>1, <1>2, <1>3

\* Initially nothing is out of date.
LEMMA InitKnow == Init => KnowInv
<1> SUFFICES ASSUME Init PROVE KnowInv
  OBVIOUS
<1>1. TypeOK
  BY InitTypes
<1> QED
  BY <1>1 DEF Init, KnowInv, ComesToKnow

\* A step that accounts for what it misses misses nothing else.
LEMMA MissingKnows == ASSUME TypeOK, Missing PROVE ComesToKnow'
  BY DEF Missing, ComesToKnow

\* A step at which no tab comes, leaves or fetches loses nothing when what a
\* tab would have heard of it still will, or has invalidated.
LEMMA Passes ==
  ASSUME TypeOK, TypeOK', ComesToKnow,
         life' = life, stale' = stale, missed' = missed, unsent' = unsent,
         \A t \in Tabs : invalid[t] \subseteq invalid'[t],
         \A t \in Tabs : life[t] = "holding" => Streamed(t) \subseteq Streamed(t)' \cup invalid'[t],
         \A t, h \in Tabs : life[t] = "waiting" /\ life[h] = "holding"
           => About(inbox[t]) \cup Streamed(h)
                \subseteq About(inbox'[t]) \cup Streamed(h)' \cup invalid'[t]
  PROVE  ComesToKnow'
<1>1. SUFFICES ASSUME NEW t \in Tabs PROVE stale[t] \subseteq Coming(t)' \cup missed[t]
  BY DEF ComesToKnow
<1>2. stale[t] \subseteq Coming(t) \cup missed[t] /\ stale[t] \subseteq Shown
  BY DEF ComesToKnow, TypeOK
<1>3. Announced' = Announced
  BY DEF Announced
<1>4. CASE life[t] = "holding"
  BY <1>2, <1>3, <1>4, ComingTo, ComingToNext
<1>5. CASE life[t] = "waiting" /\ Holders = {}
  <2>1. Holders' = {}
    BY <1>5 DEF Holders
  <2> QED
    BY <1>2, <1>5, <2>1, ComingToNext
<1>6. CASE life[t] = "waiting" /\ Holders # {}
  <2>1. PICK h \in Tabs : life[h] = "holding"
    BY <1>6 DEF Holders
  <2>2. Coming(t) = invalid[t] \cup Announced \cup About(inbox[t]) \cup Streamed(h)
    BY <1>6, <2>1, ComingTo
  <2>3. Coming(t)' = invalid'[t] \cup Announced \cup About(inbox'[t]) \cup Streamed(h)'
    BY <1>3, <1>6, <2>1, ComingToNext
  <2>4. About(inbox[t]) \cup Streamed(h) \subseteq About(inbox'[t]) \cup Streamed(h)' \cup invalid'[t]
    BY <1>6, <2>1
  <2> QED
    BY <1>2, <2>2, <2>3, <2>4
<1>7. CASE life[t] = "out"
  <2>1. Coming(t) = invalid[t] \cup Announced /\ Coming(t)' = invalid'[t] \cup Announced'
    BY <1>7 DEF Coming, Announced
  <2> QED
    BY <1>2, <1>3, <2>1
<1> QED
  BY <1>4, <1>5, <1>6, <1>7 DEF TypeOK

\* Tabs see each other's messages: inboxes grow by what is posted.
LEMMA PostedAbout ==
  ASSUME TypeOK, NEW t \in Tabs, NEW messages \in Seq(Messages),
         inbox' = Posted(t, messages)
  PROVE  \A u \in Tabs : /\ u # t /\ life[u] = "waiting"
                               => About(inbox'[u]) = About(inbox[u]) \cup About(messages)
                         /\ u = t \/ ~Mounted(u) => inbox'[u] = inbox[u]
<1>1. \A u \in Tabs : inbox[u] \in Seq(Messages \cup Kinds)
  BY DEF TypeOK
<1>2. messages \in Seq(Messages \cup Kinds)
  OBVIOUS
<1> QED
  BY <1>1, <1>2, AboutBoth DEF Posted, Mounted, TypeOK

\* A posted message that is about nothing tells the others nothing.
LEMMA PostedNothing ==
  ASSUME TypeOK, NEW t \in Tabs, NEW m \in Statuses \cup {"hello"}, inbox' = Posted(t, <<m>>),
         NEW u \in Tabs, life[u] = "waiting"
  PROVE  About(inbox'[u]) = About(inbox[u])
<1>1. <<m>> \in Seq(Messages) /\ About(<<m>>) = {}
  BY MessagesKnown, AboutOne
<1>2. u # t => About(inbox'[u]) = About(inbox[u]) \cup About(<<m>>)
  BY <1>1, PostedAbout
<1>3. u = t => inbox'[u] = inbox[u]
  BY <1>1, PostedAbout
<1> QED
  BY <1>1, <1>2, <1>3

\* A posted event tells the others of what it is about.
LEMMA PostedKind ==
  ASSUME TypeOK, NEW t \in Tabs, NEW k \in Kinds, inbox' = Posted(t, <<k>>),
         NEW u \in Tabs, u # t, life[u] = "waiting"
  PROVE  About(inbox'[u]) = About(inbox[u]) \cup Invalidated(k)
<1>1. <<k>> \in Seq(Messages) /\ About(<<k>>) = Invalidated(k)
  BY MessagesKnown, AboutOne
<1>2. PICK m \in Seq(Messages) : m = <<k>>
  BY <1>1
<1>3. About(inbox'[u]) = About(inbox[u]) \cup About(m)
  BY <1>2, PostedAbout
<1> QED
  BY <1>1, <1>2, <1>3

\* Mounting, as nothing is on the new tab's screen that is not current.
LEMMA MountKnows ==
  ASSUME KnowInv, TypeOK', NEW t \in Tabs, Mount(t)
  PROVE  ComesToKnow'
<1> USE DEF KnowInv
<1>1. SUFFICES ASSUME NEW u \in Tabs PROVE stale'[u] \subseteq Coming(u)' \cup missed'[u]
  BY DEF ComesToKnow
<1>2. /\ stale' = stale /\ missed' = missed /\ invalid' = invalid /\ unsent' = unsent
      /\ conn' = conn /\ sub' = sub /\ buffer' = buffer /\ once' = once
      /\ life' = [life EXCEPT ![t] = "waiting"] /\ life[t] = "out"
      /\ inbox' = Posted(t, <<"hello">>)
  BY DEF Mount, cacheVars, serverVars
<1>3. CASE u = t
  BY <1>2, <1>3
<1>4. CASE u # t
  <2>1. stale[u] \subseteq Coming(u) \cup missed[u] /\ stale[u] \subseteq Shown
    BY DEF ComesToKnow, TypeOK
  <2>2. life'[u] = life[u] /\ Announced' = Announced /\ Holders' = Holders
    BY <1>2, <1>4 DEF Announced, Holders, TypeOK
  <2>3. \A h : Streamed(h)' = Streamed(h)
    BY <1>2 DEF Streamed, WillResync
  <2>4. CASE life[u] = "holding"
    BY <1>2, <2>1, <2>2, <2>3, <2>4, ComingTo, ComingToNext
  <2>5. CASE life[u] = "waiting" /\ Holders = {}
    BY <1>2, <2>1, <2>2, <2>5, ComingToNext
  <2>6. CASE life[u] = "waiting" /\ Holders # {}
    <3>1. PICK h \in Tabs : life[h] = "holding"
      BY <2>6 DEF Holders
    <3>2. life'[h] = "holding"
      BY <1>2, <3>1 DEF TypeOK
    <3>3. About(inbox'[u]) = About(inbox[u])
      BY <1>2, <2>6, PostedNothing
    <3>4. Coming(u) = invalid[u] \cup Announced \cup About(inbox[u]) \cup Streamed(h)
      BY <2>6, <3>1, ComingTo
    <3>5. Coming(u)' = invalid'[u] \cup Announced' \cup About(inbox'[u]) \cup Streamed(h)'
      BY <2>2, <2>6, <3>2, ComingToNext
    <3> QED
      BY <1>2, <2>1, <2>2, <2>3, <3>3, <3>4, <3>5
  <2> QED
    BY <1>2, <2>4, <2>5, <2>6 DEF TypeOK
<1> QED
  BY <1>3, <1>4

\* Leaving: whoever waits now is resynced by the next holder or told so.
LEMMA LeaveKnows ==
  ASSUME KnowInv, TypeOK', NEW t \in Tabs, NEW stays \in BOOLEAN, Leave(t, stays)
  PROVE  ComesToKnow'
<1> USE DEF KnowInv
<1>1. SUFFICES ASSUME NEW u \in Tabs PROVE stale'[u] \subseteq Coming(u)' \cup missed'[u]
  BY DEF ComesToKnow
<1>2. CASE u = t
  BY <1>2 DEF Leave, TypeOK
<1>3. CASE u # t
  <2>1. /\ stale'[u] = stale[u] /\ missed'[u] = missed[u] /\ invalid'[u] = invalid[u]
        /\ inbox'[u] = inbox[u] /\ life'[u] = life[u] /\ unsent' = unsent
    BY <1>3 DEF Leave, TypeOK
  <2>2. \A h \in Tabs : h # t => Streamed(h)' = Streamed(h) /\ life'[h] = life[h]
    BY DEF Leave, Streamed, WillResync, TypeOK
  <2>3. stale[u] \subseteq Coming(u) \cup missed[u] /\ stale[u] \subseteq Shown
    BY DEF ComesToKnow, TypeOK
  <2>4. Announced' = Announced /\ life'[t] = "out"
    BY <2>1 DEF Announced, Leave, TypeOK
  <2>5. CASE life[u] = "holding"
    BY <1>3, <2>1, <2>2, <2>3, <2>4, <2>5, ComingTo, ComingToNext
  <2>6. CASE life[u] = "waiting" /\ Holders' = {}
    BY <2>1, <2>3, <2>6, ComingToNext
  <2>7. CASE life[u] = "waiting" /\ Holders' # {}
    <3>1. PICK h \in Tabs : life'[h] = "holding"
      BY <2>7 DEF Holders
    <3>2. h # t /\ life[h] = "holding"
      BY <2>2, <2>4, <3>1
    <3>3. Coming(u) = invalid[u] \cup Announced \cup About(inbox[u]) \cup Streamed(h)
      BY <2>7, <3>2, ComingTo
    <3>4. Coming(u)' = invalid'[u] \cup Announced' \cup About(inbox'[u]) \cup Streamed(h)'
      BY <2>1, <2>7, <3>1, ComingToNext
    <3> QED
      BY <2>1, <2>2, <2>3, <2>4, <3>2, <3>3, <3>4
  <2>8. CASE life[u] = "out"
    BY <2>1, <2>8
  <2> QED
    BY <2>5, <2>6, <2>7, <2>8 DEF TypeOK
<1> QED
  BY <1>2, <1>3

\* Streams being set up: a status for the others, and nothing else changes
\* in what the stream will bring.
LEMMA SetUpKnows ==
  ASSUME KnowInv, TypeOK', NEW t \in Tabs, GotToken(t) \/ Lose(t)
  PROVE  ComesToKnow'
<1> USE DEF KnowInv
<1>1. /\ life' = life /\ stale' = stale /\ missed' = missed /\ unsent' = unsent
      /\ invalid' = invalid /\ once' = once /\ sub' = sub /\ buffer' = buffer
  BY DEF GotToken, Lose, tabVars, serverVars, cacheVars
<1>2. PICK s \in Statuses : inbox' = Posted(t, <<s>>)
  <2>1. \A s \in Statuses : <<s>> \o <<>> = <<s>>
    OBVIOUS
  <2>2. "connecting" \in Statuses /\ "disconnected" \in Statuses
    BY DEF Statuses
  <2> QED
    BY <2>1, <2>2 DEF GotToken, Lose, Publish
<1>3. ASSUME NEW h \in Tabs PROVE WillResync(h)' = WillResync(h)
  BY <1>1 DEF GotToken, Lose, WillResync, TypeOK
<1>4. \A h \in Tabs : Streamed(h)' = Streamed(h)
  BY <1>1, <1>3 DEF Streamed
<1>5. \A u \in Tabs : life[u] = "waiting" => About(inbox'[u]) = About(inbox[u])
  BY <1>2, PostedNothing
<1> QED
  BY <1>1, <1>4, <1>5, Passes

\* Steps of the stream that the other tabs hear nothing of.
LEMMA QuietKnows ==
  ASSUME KnowInv, TypeOK', NEW t \in Tabs,
         LateToken(t) \/ Retry(t) \/ Answer(t) \/ Subscribe(t) \/ Sever(t) \/ Focus(t)
  PROVE  ComesToKnow'
<1> USE DEF KnowInv
<1>1. /\ life' = life /\ stale' = stale /\ missed' = missed /\ unsent' = unsent
      /\ inbox' = inbox /\ once' = once
  BY DEF LateToken, Retry, Answer, Subscribe, Sever, Focus, tabVars, serverVars, cacheVars
<1>2. \A u \in Tabs : invalid[u] \subseteq invalid'[u]
  <2>1. invalid' = invalid \/ invalid' = [invalid EXCEPT ![t] = Shown]
    BY DEF LateToken, Retry, Answer, Subscribe, Sever, Focus, cacheVars
  <2>2. invalid \in [Tabs -> SUBSET Shown]
    BY DEF TypeOK
  <2> QED
    BY <2>1, <2>2
<1>3. ASSUME NEW h \in Tabs, WillResync(h) PROVE WillResync(h)'
  <2>1. CASE LateToken(t) \/ Focus(t)
    BY <1>1, <1>3, <2>1 DEF LateToken, Focus, WillResync, serverVars
  <2>2. CASE Retry(t)
    BY <1>1, <1>3, <2>2 DEF Retry, WillResync, serverVars, TypeOK
  <2>3. CASE Answer(t) \/ Subscribe(t)
    BY <1>1, <1>3, <2>3 DEF Answer, Subscribe, WillResync, TypeOK
  <2>4. CASE Sever(t)
    BY <1>1, <1>3, <2>4 DEF Sever, WillResync, TypeOK
  <2> QED
    BY <2>1, <2>2, <2>3, <2>4
<1>4. \A h \in Tabs : buffer'[h] = buffer[h] \/ WillResync(h)'
  BY <1>1 DEF LateToken, Retry, Answer, Subscribe, Sever, Focus, WillResync, serverVars, TypeOK
<1>5. \A h \in Tabs : Streamed(h) \subseteq Streamed(h)'
  BY <1>3, <1>4, AboutShown DEF Streamed
<1> QED
  BY <1>1, <1>2, <1>5, Passes

\* Connecting again: the resync is the holder's own and everyone else's.
LEMMA ConnectedKnows ==
  ASSUME KnowInv, TypeOK', NEW t \in Tabs, Connected(t)
  PROVE  ComesToKnow'
<1> USE DEF KnowInv
<1>1. /\ life' = life /\ stale' = stale /\ missed' = missed /\ unsent' = unsent
      /\ sub' = sub /\ buffer' = buffer /\ conn[t] = "asking" /\ sub[t] # "none"
      /\ life[t] = "holding"
  BY DEF Connected, serverVars, TypeOK
<1>2. \A u \in Tabs : invalid[u] \subseteq invalid'[u]
  BY DEF Connected, TypeOK
<1>3. \A h \in Tabs : h # t => Streamed(h)' = Streamed(h)
  BY <1>1 DEF Connected, Streamed, WillResync, TypeOK
<1>4. \A h \in Tabs : life[h] = "holding" => h = t
  BY <1>1 DEF Holders, TypeOK
<1>5. CASE once[t]
  <2>1. invalid'[t] = Shown /\ inbox' = Posted(t, <<"connected">> \o <<"resync">>)
    BY <1>5 DEF Connected, Publish, TypeOK
  <2>2. About(<<"connected">> \o <<"resync">>) = Shown
    <3>1. <<"connected">> \in Seq(Messages \cup Kinds) /\ <<"resync">> \in Seq(Messages \cup Kinds)
      BY DEF Messages, Statuses
    <3>2. About(<<"connected">> \o <<"resync">>) = About(<<"connected">>) \cup About(<<"resync">>)
      BY <3>1, AboutBoth
    <3>3. About(<<"connected">>) = {} /\ About(<<"resync">>) = Shown
      BY AboutOne DEF Statuses
    <3> QED
      BY <3>2, <3>3
  <2>3. <<"connected">> \o <<"resync">> \in Seq(Messages)
    BY MessagesKnown DEF Statuses
  <2>4. \A u \in Tabs : life[u] = "waiting" => Shown \subseteq About(inbox'[u])
    <3> DEFINE both == <<"connected">> \o <<"resync">>
    <3> HIDE DEF both
    <3>1. both \in Seq(Messages) /\ inbox' = Posted(t, both) /\ About(both) = Shown
      BY <2>1, <2>2, <2>3 DEF both
    <3>2. \A u \in Tabs : u # t /\ life[u] = "waiting"
            => About(inbox'[u]) = About(inbox[u]) \cup About(both)
      BY <3>1, PostedAbout
    <3> QED
      BY <1>1, <3>1, <3>2
  <2>5. \A m : About(m) \subseteq Shown
    BY AboutShown
  <2>6. \A h : Streamed(h) \subseteq Shown
    BY StreamedShown
  <2> QED
    BY <1>1, <1>2, <1>4, <2>1, <2>4, <2>5, <2>6, Passes
<1>6. CASE ~once[t]
  <2>1. inbox' = Posted(t, <<"connected">>)
    BY <1>6 DEF Connected, Publish
  <2>2. Streamed(t)' = Streamed(t)
    BY <1>1, <1>6 DEF Connected, Streamed, WillResync, TypeOK
  <2>3. "connected" \in Statuses
    BY DEF Statuses
  <2>4. \A u \in Tabs : life[u] = "waiting" => About(inbox'[u]) = About(inbox[u])
    BY <2>1, <2>3, PostedNothing
  <2> QED
    BY <1>1, <1>2, <1>3, <2>2, <2>4, Passes
<1> QED
  BY <1>5, <1>6

\* An event leaves the stream for the holder's queries and for every inbox.
LEMMA HearKnows ==
  ASSUME KnowInv, TypeOK', NEW t \in Tabs, Hear(t)
  PROVE  ComesToKnow'
<1> USE DEF KnowInv
<1> DEFINE k == Head(buffer[t])
<1>1. /\ life' = life /\ stale' = stale /\ missed' = missed /\ unsent' = unsent
      /\ sub' = sub /\ conn' = conn /\ once' = once /\ conn[t] = "open"
      /\ buffer[t] # <<>> /\ buffer' = [buffer EXCEPT ![t] = Tail(@)]
      /\ inbox' = Posted(t, <<k>>) /\ life[t] = "holding"
  BY DEF Hear, tabVars, TypeOK
<1>2. buffer[t] \in Seq(Kinds) /\ k \in Kinds /\ Tail(buffer[t]) \in Seq(Kinds)
  BY <1>1 DEF TypeOK
<1>3. \A u \in Tabs : invalid[u] \subseteq invalid'[u]
  BY DEF Hear, TypeOK
<1>4. Invalidated(k) \subseteq invalid'[t]
  BY DEF Hear, TypeOK
<1>5. About(<<k>>) = Invalidated(k) /\ <<k>> \in Seq(Messages)
  BY <1>2, AboutOne, MessagesKnown
<1>6. buffer[t] \in Seq(Messages \cup Kinds)
  BY <1>2
<1>7. About(buffer[t]) = Invalidated(k) \cup About(Tail(buffer[t]))
  BY <1>1, <1>5, <1>6, AboutFirst
<1>8. Streamed(t) \subseteq Streamed(t)' \cup Invalidated(k)
  BY <1>1, <1>7 DEF Streamed, WillResync, TypeOK
<1>9. \A h \in Tabs : life[h] = "holding" => h = t
  BY <1>1 DEF Holders, TypeOK
<1>10. \A u \in Tabs : life[u] = "waiting"
         => About(inbox'[u]) = About(inbox[u]) \cup Invalidated(k)
  BY <1>1, <1>2, PostedKind
<1> HIDE DEF k
<1> QED
  BY <1>1, <1>3, <1>4, <1>8, <1>9, <1>10, Passes

\* A message leaves an inbox for the tab's queries.
LEMMA DeliverKnows ==
  ASSUME KnowInv, TypeOK', NEW t \in Tabs, Deliver(t)
  PROVE  ComesToKnow'
<1> USE DEF KnowInv
<1>1. /\ life' = life /\ stale' = stale /\ missed' = missed /\ unsent' = unsent
      /\ sub' = sub /\ conn' = conn /\ once' = once /\ buffer' = buffer
      /\ inbox[t] # <<>> /\ (life[t] = "holding" \/ life[t] = "waiting")
  BY DEF Deliver, tabVars, serverVars
<1>2. \A h \in Tabs : Streamed(h)' = Streamed(h)
  BY <1>1 DEF Streamed, WillResync
<1>3. \A u \in Tabs : invalid[u] \subseteq invalid'[u]
  <2>1. \/ invalid' = invalid
        \/ invalid' = [invalid EXCEPT ![t] = @ \cup About(<<Head(inbox[t])>>)]
    BY DEF Deliver
  <2>2. invalid \in [Tabs -> SUBSET Shown]
    BY DEF TypeOK
  <2> QED
    BY <2>1, <2>2
<1>4. ASSUME NEW u \in Tabs, life[u] = "waiting"
      PROVE  About(inbox[u]) \subseteq About(inbox'[u]) \cup invalid'[u]
  <2>1. inbox[u] \in Seq(Messages \cup Kinds) /\ inbox[t] \in Seq(Messages \cup Kinds)
    BY DEF TypeOK
  <2>2. CASE life[t] = "waiting" /\ u = t
    <3>1. inbox'[t] = Tail(inbox[t]) /\ About(<<Head(inbox[t])>>) \subseteq invalid'[t]
      <4>1. /\ inbox' = [inbox EXCEPT ![t] = Tail(@)]
            /\ invalid' = [invalid EXCEPT ![t] = @ \cup About(<<Head(inbox[t])>>)]
        BY <2>2 DEF Deliver
      <4>2. invalid \in [Tabs -> SUBSET Shown] /\ inbox \in [Tabs -> Seq(Messages)]
        BY DEF TypeOK
      <4> QED
        BY <4>1, <4>2
    <3> QED
      BY <1>1, <2>1, <2>2, <3>1, AboutFirst
  <2>3. CASE life[t] = "waiting" /\ u # t
    BY <2>3 DEF Deliver, TypeOK
  <2>4. CASE life[t] = "holding"
    <3>1. u # t /\ status[t] \in Statuses
      BY <1>4, <2>4 DEF TypeOK
    <3>2. inbox'[u] = inbox[u] \/ inbox'[u] = Append(inbox[u], status[t])
      BY <2>4, <3>1 DEF Deliver, TypeOK
    <3>3. Append(inbox[u], status[t]) = inbox[u] \o <<status[t]>>
      BY <2>1
    <3>4. <<status[t]>> \in Seq(Messages \cup Kinds)
      BY <3>1 DEF Messages
    <3>5. About(inbox[u]) \subseteq About(Append(inbox[u], status[t]))
      <4>1. About(inbox[u] \o <<status[t]>>) = About(inbox[u]) \cup About(<<status[t]>>)
        BY <2>1, <3>4, AboutBoth
      <4> QED
        BY <3>3, <4>1
    <3> QED
      BY <3>2, <3>5
  <2> QED
    BY <1>1, <2>2, <2>3, <2>4
<1> QED
  BY <1>1, <1>2, <1>3, <1>4, Passes

\* A query fetched again is current, and no longer coming to its tab.
LEMMA FetchKnows ==
  ASSUME KnowInv, TypeOK', NEW t \in Tabs, NEW q \in Shown, Fetch(t, q)
  PROVE  ComesToKnow'
<1> USE DEF KnowInv
<1>1. SUFFICES ASSUME NEW u \in Tabs, NEW p \in stale'[u], p \notin missed'[u]
               PROVE  p \in Coming(u)'
  BY DEF ComesToKnow
<1>2. /\ life' = life /\ unsent' = unsent /\ inbox' = inbox /\ sub' = sub
      /\ conn' = conn /\ once' = once /\ buffer' = buffer
  BY DEF Fetch, tabVars, serverVars
<1>3. p \in stale[u] /\ p \notin missed[u] /\ (u = t => p # q)
  BY <1>1 DEF Fetch, TypeOK
<1>4. p \in invalid[u] => p \in invalid'[u]
  BY <1>3 DEF Fetch, TypeOK
<1>5. p \in Coming(u)
  BY <1>3 DEF ComesToKnow
<1>6. \A h : Streamed(h)' = Streamed(h)
  BY <1>2 DEF Streamed, WillResync
<1>7. Announced' = Announced /\ Holders' = Holders
  BY <1>2 DEF Announced, Holders
<1>8. p \in Shown
  BY <1>3 DEF TypeOK
<1>9. CASE life[u] = "holding"
  BY <1>2, <1>4, <1>5, <1>6, <1>7, <1>9, ComingTo, ComingToNext
<1>10. CASE life[u] = "waiting" /\ Holders = {}
  BY <1>2, <1>7, <1>8, <1>10, ComingToNext
<1>11. CASE life[u] = "waiting" /\ Holders # {}
  <2>1. PICK h \in Tabs : life[h] = "holding"
    BY <1>11 DEF Holders
  <2>2. Coming(u) = invalid[u] \cup Announced \cup About(inbox[u]) \cup Streamed(h)
    BY <1>11, <2>1, ComingTo
  <2>3. Coming(u)' = invalid'[u] \cup Announced' \cup About(inbox'[u]) \cup Streamed(h)'
    BY <1>2, <1>11, <2>1, ComingToNext
  <2> QED
    BY <1>2, <1>4, <1>5, <1>6, <1>7, <2>2, <2>3
<1> QED
  BY <1>3, <1>9, <1>10, <1>11 DEF TypeOK

\* A tab that is signed out shows nothing, whatever changes.
LEMMA StepQuiet ==
  ASSUME KnowInv, [Next]_vars
  PROVE  \A u \in Tabs : life'[u] = "out" => stale'[u] = {}
<1> USE DEF KnowInv
<1>1. ASSUME NEW t \in Tabs,
             \/ Running(t) \/ Mount(t) \/ NoToken(t) \/ Fail(t) \/ Focus(t) \/ Sever(t)
             \/ (\E stays \in BOOLEAN : Leave(t, stays)) \/ (\E q \in Shown : Fetch(t, q))
      PROVE  \A u \in Tabs : life'[u] = "out" => stale'[u] = {}
  <2>1. CASE Running(t) \/ NoToken(t) \/ Fail(t) \/ Focus(t) \/ Sever(t)
    BY <2>1 DEF Running, HoldStream, GotToken, LateToken, Connected, Hear, Lose, Retry, Deliver,
                Answer, Subscribe, NoToken, Fail, Focus, Sever, tabVars, cacheVars, TypeOK
  <2>2. CASE Mount(t)
    BY <2>2 DEF Mount, cacheVars, TypeOK
  <2>3. CASE \E stays \in BOOLEAN : Leave(t, stays)
    BY <2>3 DEF Leave, TypeOK
  <2>4. CASE \E q \in Shown : Fetch(t, q)
    BY <2>4 DEF Fetch, tabVars, TypeOK
  <2> QED
    BY <1>1, <2>1, <2>2, <2>3, <2>4
<1>2. ASSUME NEW k \in Happening, Commit(k) \/ Broadcast(k)
      PROVE  \A u \in Tabs : life'[u] = "out" => stale'[u] = {}
  BY <1>2 DEF Commit, Broadcast, tabVars, Mounted
<1>3. CASE Restart
  BY <1>3 DEF Restart, tabVars
<1>4. CASE UNCHANGED vars
  BY <1>4 DEF vars
<1> QED
  BY <1>1, <1>2, <1>3, <1>4 DEF Next

\* A stream that is open has been opened before, and signing out ends it.
LEMMA StepOnce ==
  ASSUME KnowInv, [Next]_vars
  PROVE  \A u \in Tabs : conn'[u] = "open" => once'[u]
<1> USE DEF KnowInv
<1>1. ASSUME NEW t \in Tabs,
             \/ Running(t) \/ Mount(t) \/ NoToken(t) \/ Fail(t) \/ Focus(t) \/ Sever(t)
             \/ (\E stays \in BOOLEAN : Leave(t, stays)) \/ (\E q \in Shown : Fetch(t, q))
      PROVE  \A u \in Tabs : conn'[u] = "open" => once'[u]
  <2>1. CASE Running(t) /\ ~Connected(t)
    BY <2>1 DEF Running, HoldStream, GotToken, LateToken, Hear, Lose, Retry, Deliver,
                Answer, Subscribe, tabVars, TypeOK
  <2>2. CASE Connected(t)
    BY <2>2 DEF Connected, TypeOK
  <2>3. CASE NoToken(t) \/ Fail(t) \/ Focus(t) \/ Sever(t) \/ Mount(t)
    BY <2>3 DEF NoToken, Fail, Focus, Sever, Mount, tabVars, TypeOK
  <2>4. CASE \E stays \in BOOLEAN : Leave(t, stays)
    BY <2>4 DEF Leave, TypeOK
  <2>5. CASE \E q \in Shown : Fetch(t, q)
    BY <2>5 DEF Fetch, tabVars
  <2> QED
    BY <1>1, <2>1, <2>2, <2>3, <2>4, <2>5
<1>2. ASSUME NEW k \in Happening, Commit(k) \/ Broadcast(k)
      PROVE  \A u \in Tabs : conn'[u] = "open" => once'[u]
  BY <1>2 DEF Commit, Broadcast, tabVars
<1>3. CASE Restart
  BY <1>3 DEF Restart, tabVars
<1>4. CASE UNCHANGED vars
  BY <1>4 DEF vars
<1> QED
  BY <1>1, <1>2, <1>3, <1>4 DEF Next

\* Every step keeps the invariant.
LEMMA StepKnows == KnowInv /\ [Next]_vars => KnowInv'
<1> SUFFICES ASSUME KnowInv, [Next]_vars PROVE KnowInv'
  OBVIOUS
<1>0. TypeOK /\ TypeOK'
  BY StepTypes DEF KnowInv
<1>1. ComesToKnow'
  <2>1. ASSUME NEW t \in Tabs, Running(t) PROVE ComesToKnow'
    BY <1>0, <2>1, MissingKnows, SetUpKnows, QuietKnows, ConnectedKnows, HearKnows, DeliverKnows
      DEF Running, HoldStream
  <2>2. ASSUME NEW t \in Tabs, Mount(t) \/ NoToken(t) \/ Fail(t) \/ Focus(t) \/ Sever(t)
        PROVE  ComesToKnow'
    BY <1>0, <2>2, MissingKnows, MountKnows, QuietKnows DEF NoToken, Fail
  <2>3. ASSUME NEW t \in Tabs, \E stays \in BOOLEAN : Leave(t, stays) PROVE ComesToKnow'
    BY <1>0, <2>3, LeaveKnows
  <2>4. ASSUME NEW t \in Tabs, \E q \in Shown : Fetch(t, q) PROVE ComesToKnow'
    BY <1>0, <2>4, FetchKnows
  <2>5. ASSUME NEW k \in Happening, Commit(k) \/ Broadcast(k) PROVE ComesToKnow'
    BY <1>0, <2>5, MissingKnows DEF Commit, Broadcast
  <2>6. CASE Restart
    BY <1>0, <2>6, MissingKnows DEF Restart
  <2>7. CASE UNCHANGED vars
    <3>1. \A t \in Tabs : Coming(t)' = Coming(t)
      BY <2>7 DEF vars, Coming, Streamed, WillResync, Holders
    <3> QED
      BY <2>7, <3>1 DEF KnowInv, ComesToKnow, vars
  <2> QED
    BY <2>1, <2>2, <2>3, <2>4, <2>5, <2>6, <2>7 DEF Next
<1>2. \A t \in Tabs : life'[t] = "out" => stale'[t] = {}
  BY StepQuiet
<1>3. \A t \in Tabs : conn'[t] = "open" => once'[t]
  BY StepOnce
<1> QED
  BY <1>0, <1>1, <1>2, <1>3 DEF KnowInv

\* However tabs come and go, streams break and the server restarts, what is
\* out of date on a screen is being fetched, will be named by an event, a
\* relay or a resync on its way, or was openly missed (useLiveMemoRefresh.ts,
\* resync and relay).
THEOREM NothingLost == Spec => []ComesToKnow
<1>1. KnowInv => ComesToKnow
  BY DEF KnowInv
<1> QED
  BY <1>1, InitKnow, StepKnows, PTL DEF Spec

-----------------------------------------------------------------------------
(* What a holder that has connected before makes of a fault. *)

\* Queries that some event should name and does not.
Unnamed == UNION {Affected(k) \ Invalidated(k) : k \in Happening}

\* With a resync to come, every tab hears of everything it shows.
LEMMA ResyncReaches ==
  ASSUME TypeOK', NEW h \in Tabs, life'[h] = "holding", WillResync(h)',
         NEW t \in Tabs, life'[t] # "out"
  PROVE  Shown \subseteq Coming(t)'
<1>1. Streamed(h)' = Shown
  BY DEF Streamed
<1>2. CASE life'[t] = "holding"
  <2>1. t = h
    BY <1>2 DEF Holders, TypeOK
  <2> QED
    BY <1>1, <1>2, <2>1, ComingToNext
<1>3. CASE life'[t] = "waiting"
  BY <1>1, <1>3, ComingToNext
<1> QED
  BY <1>2, <1>3 DEF TypeOK

\* A connection that fails is made again, and resyncs.
LEMMA FailGaps ==
  ASSUME KnowInv, TypeOK', NEW h \in Tabs, life[h] = "holding", once[h],
         NEW x \in Tabs, Fail(x), NEW t \in Tabs
  PROVE  missed'[t] \subseteq missed[t]
<1> USE DEF KnowInv
<1>1. x = h /\ life' = life /\ stale' = stale
  BY DEF Fail, Holders, TypeOK, tabVars
<1>2. WillResync(h)'
  BY <1>1 DEF Fail, WillResync, TypeOK, tabVars
<1>3. stale'[t] \subseteq Shown /\ (life[t] = "out" => stale'[t] = {})
  BY <1>1 DEF TypeOK
<1>4. stale'[t] \subseteq Coming(t)'
  BY <1>1, <1>2, <1>3, ResyncReaches
<1> QED
  BY <1>4 DEF Fail, Missing

\* So it is when the server restarts, whatever was unannounced.
LEMMA RestartGaps ==
  ASSUME KnowInv, TypeOK', NEW h \in Tabs, life[h] = "holding", once[h],
         conn'[h] \notin {"none", "idle"}, Restart, NEW t \in Tabs
  PROVE  missed'[t] \subseteq missed[t]
<1> USE DEF KnowInv
<1>1. life' = life /\ stale' = stale /\ conn' = conn /\ once' = once
  BY DEF Restart, tabVars
<1>2. WillResync(h)'
  BY <1>1 DEF Restart, WillResync, TypeOK, Phases
<1>3. stale'[t] \subseteq Shown /\ (life[t] = "out" => stale'[t] = {})
  BY <1>1 DEF TypeOK
<1>4. stale'[t] \subseteq Coming(t)'
  BY <1>1, <1>2, <1>3, ResyncReaches
<1> QED
  BY <1>4 DEF Restart, Missing

\* A change that is stored will be announced, under the name its event gives.
LEMMA CommitGaps ==
  ASSUME KnowInv, TypeOK', NEW h \in Tabs, life[h] = "holding",
         NEW k \in Happening, Commit(k), NEW t \in Tabs
  PROVE  missed'[t] \subseteq missed[t] \cup Unnamed
<1> USE DEF KnowInv
<1>1. /\ life' = life /\ inbox' = inbox /\ invalid' = invalid /\ unsent' = unsent \cup {k}
      /\ conn' = conn /\ once' = once /\ sub' = sub /\ buffer' = buffer
  BY DEF Commit, tabVars
<1>2. \A u \in Tabs : Streamed(u)' = Streamed(u)
  BY <1>1 DEF Streamed, WillResync
<1>3. Announced \cup Invalidated(k) \subseteq Announced'
  BY <1>1 DEF Announced
<1>4. stale'[t] \subseteq stale[t] \cup Affected(k) /\ (life[t] = "out" => stale'[t] = {})
  BY DEF Commit, Mounted, TypeOK
<1>5. Affected(k) \subseteq Invalidated(k) \cup Unnamed
  BY DEF Unnamed
<1>6. stale[t] \subseteq Coming(t) \cup missed[t]
  BY DEF ComesToKnow
<1>7. life[t] # "out" => Coming(t) \cup Invalidated(k) \subseteq Coming(t)'
  <2>1. CASE life[t] = "holding"
    BY <1>1, <1>2, <1>3, <2>1, ComingTo, ComingToNext
  <2>2. CASE life[t] = "waiting"
    <3>1. Coming(t) = invalid[t] \cup Announced \cup About(inbox[t]) \cup Streamed(h)
      BY <2>2, ComingTo
    <3>2. Coming(t)' = invalid'[t] \cup Announced' \cup About(inbox'[t]) \cup Streamed(h)'
      BY <1>1, <2>2, ComingToNext
    <3> QED
      BY <1>1, <1>2, <1>3, <3>1, <3>2
  <2> QED
    BY <2>1, <2>2 DEF TypeOK
<1>8. stale'[t] \subseteq Coming(t)' \cup missed[t] \cup Unnamed
  BY <1>4, <1>5, <1>6, <1>7
<1> QED
  BY <1>8 DEF Commit, Missing

\* An event reaches the stream, if it has room, or the resync makes up for it.
LEMMA BroadcastGaps ==
  ASSUME KnowInv, TypeOK', NEW h \in Tabs, life[h] = "holding", once[h],
         ~(conn[h] = "open" /\ sub[h] = "answered"), Len(buffer[h]) < Cap,
         conn'[h] \notin {"none", "idle"},
         NEW k \in Happening, Broadcast(k), NEW t \in Tabs
  PROVE  missed'[t] \subseteq missed[t]
<1> USE DEF KnowInv
<1>1. /\ life' = life /\ stale' = stale /\ inbox' = inbox /\ invalid' = invalid
      /\ unsent' = unsent \ {k} /\ conn' = conn /\ once' = once /\ sub' = sub
  BY DEF Broadcast, tabVars
<1>2. stale[t] \subseteq Coming(t) \cup missed[t] /\ stale[t] \subseteq Shown
      /\ (life[t] = "out" => stale[t] = {})
  BY DEF ComesToKnow, TypeOK
<1>3. stale'[t] \subseteq Coming(t)' \cup missed[t]
  <2>1. CASE WillResync(h)
    <3>1. WillResync(h)'
      BY <1>1, <2>1 DEF WillResync
    <3> QED
      BY <1>1, <1>2, <3>1, ResyncReaches
  <2>2. CASE ~WillResync(h)
    <3>1. sub[h] = "subscribed"
      BY <1>1, <2>2 DEF WillResync, TypeOK, Phases
    <3>2. buffer'[h] = Append(buffer[h], k)
      BY <3>1 DEF Broadcast
    <3>3. k \in Kinds /\ buffer[h] \in Seq(Messages \cup Kinds) /\ buffer[h] \in Seq(Kinds)
      BY Views DEF TypeOK
    <3>4. Append(buffer[h], k) = buffer[h] \o <<k>> /\ <<k>> \in Seq(Messages \cup Kinds)
      BY <3>3
    <3>5. About(buffer[h] \o <<k>>) = About(buffer[h]) \cup About(<<k>>)
      BY <3>3, <3>4, AboutBoth
    <3>6. About(buffer'[h]) = About(buffer[h]) \cup Invalidated(k)
      BY <3>2, <3>3, <3>4, <3>5, AboutOne
    <3>7. Streamed(h)' = Streamed(h) \cup Invalidated(k)
      BY <1>1, <2>2, <3>6 DEF Streamed, WillResync
    <3>8. Announced \subseteq Announced' \cup Invalidated(k)
      BY <1>1 DEF Announced
    <3>9. CASE life[t] = "holding"
      <4>1. t = h
        BY <3>9 DEF Holders, TypeOK
      <4> QED
        BY <1>1, <1>2, <3>7, <3>8, <3>9, <4>1, ComingTo, ComingToNext
    <3>10. CASE life[t] = "waiting"
      <4>1. Coming(t) = invalid[t] \cup Announced \cup About(inbox[t]) \cup Streamed(h)
        BY <3>10, ComingTo
      <4>2. Coming(t)' = invalid'[t] \cup Announced' \cup About(inbox'[t]) \cup Streamed(h)'
        BY <1>1, <3>10, ComingToNext
      <4> QED
        BY <1>1, <1>2, <3>7, <3>8, <4>1, <4>2
    <3>11. CASE life[t] = "out"
      BY <1>1, <1>2, <3>11
    <3> QED
      BY <3>9, <3>10, <3>11 DEF TypeOK
  <2> QED
    BY <2>1, <2>2
<1> QED
  BY <1>3 DEF Broadcast, Missing

\* Every step, with such a holder, misses at most what is unnamed.
LEMMA StepGaps ==
  ASSUME KnowInv, [Next]_vars, NEW h \in Holders, once[h],
         ~(conn[h] = "open" /\ sub[h] = "answered"), Len(buffer[h]) < Cap,
         conn'[h] \notin {"none", "idle"}, NEW t \in Tabs
  PROVE  missed'[t] \subseteq missed[t] \cup Unnamed
<1>0. TypeOK /\ TypeOK' /\ h \in Tabs /\ life[h] = "holding"
  BY StepTypes DEF KnowInv, Holders
<1>1. ASSUME NEW x \in Tabs, Running(x) \/ Mount(x) \/ NoToken(x) \/ Fail(x) \/ Focus(x) \/ Sever(x)
      PROVE  missed'[t] \subseteq missed[t] \cup Unnamed
  <2>1. CASE HoldStream(x)
    BY <2>1 DEF HoldStream
  <2>2. CASE NoToken(x)
    <3>1. x = h
      BY <1>0, <2>2 DEF NoToken, Holders, TypeOK
    <3> QED
      BY <1>0, <2>2, <3>1 DEF NoToken, TypeOK
  <2>3. CASE Fail(x)
    BY <1>0, <2>3, FailGaps
  <2>4. CASE ~(HoldStream(x) \/ NoToken(x) \/ Fail(x))
    <3>1. missed' = missed
      BY <1>1, <2>4 DEF Running, Mount, GotToken, LateToken, Connected, Hear, Lose, Retry,
           Deliver, Answer, Subscribe, Focus, Sever, cacheVars
    <3> QED
      BY <3>1
  <2> QED
    BY <2>1, <2>2, <2>3, <2>4
<1>2. ASSUME NEW x \in Tabs, NEW stays \in BOOLEAN, Leave(x, stays)
      PROVE  missed'[t] \subseteq missed[t]
  BY <1>0, <1>2 DEF Leave, TypeOK
<1>3. ASSUME NEW x \in Tabs, NEW q \in Shown, Fetch(x, q)
      PROVE  missed'[t] \subseteq missed[t]
  BY <1>0, <1>3 DEF Fetch, TypeOK
<1>4. ASSUME NEW k \in Happening, Commit(k) \/ Broadcast(k)
      PROVE  missed'[t] \subseteq missed[t] \cup Unnamed
  BY <1>0, <1>4, CommitGaps, BroadcastGaps
<1>5. CASE Restart
  BY <1>0, <1>5, RestartGaps
<1>6. CASE UNCHANGED vars
  BY <1>6 DEF vars
<1> QED
  BY <1>1, <1>2, <1>3, <1>4, <1>5, <1>6 DEF Next

\* With a holder that has connected before and whose stream is in place or
\* being made again, no tab misses a change its event names: not in an outage
\* however long, not across a restart (useLiveMemoRefresh.ts, hasConnectedOnce).
THEOREM OutagesBridged == Spec => NoGaps
<1>1. ASSUME KnowInv, [Next]_vars
      PROVE  [(\E h \in Holders : /\ once[h] /\ ~(conn[h] = "open" /\ sub[h] = "answered")
                                  /\ Len(buffer[h]) < Cap /\ conn'[h] \notin {"none", "idle"})
                => \A t \in Tabs : missed'[t] \subseteq missed[t] \cup
                     UNION {Affected(k) \ Invalidated(k) : k \in Happening}]_vars
  BY <1>1, StepGaps DEF Unnamed
<1> QED
  BY <1>1, InitKnow, StepKnows, PTL DEF Spec, NoGaps

-----------------------------------------------------------------------------
(* The refresh implements its promise, as far as safety goes. *)

\* What is due: out of date and not missed.
Due == [t \in Tabs |-> stale[t] \ missed[t]]

\* A step that changes nothing on any screen.
LEMMA Unseen == ASSUME UNCHANGED <<stale, missed>> PROVE UNCHANGED Promise!vars
  BY DEF Promise!vars

\* A step that puts queries out of date, or misses some, is an Age.
LEMMA Ages ==
  ASSUME TypeOK', \A t \in Tabs : stale[t] \cup missed[t] \subseteq stale'[t] \cup missed'[t]
  PROVE  Promise!Age
<1>1. \A t \in Tabs : Due[t] \cup missed[t] \subseteq Due'[t] \cup missed'[t]
  BY DEF Due
<1>2. Due' \in [Tabs -> SUBSET Shown] /\ missed' \in [Tabs -> SUBSET Shown]
  BY DEF Due, TypeOK
<1>3. \A t \in Tabs : Due'[t] \cap missed'[t] = {}
  BY DEF Due
<1> QED
  BY <1>1, <1>2, <1>3 DEF Promise!Age, Due

\* A step of the refresh is a step of the promise, or changes nothing of it.
LEMMA StepKeeps ==
  ASSUME KnowInv, [Next]_vars
  PROVE  [Promise!Next]_(Promise!vars)
<1>0. TypeOK /\ TypeOK' /\ (\A t \in Tabs : life[t] = "out" => stale[t] = {})
  BY StepTypes DEF KnowInv
<1>1. ASSUME NEW t \in Tabs, Running(t) \/ Mount(t) \/ NoToken(t) \/ Fail(t) \/ Focus(t) \/ Sever(t)
      PROVE  [Promise!Next]_(Promise!vars)
  <2>1. CASE HoldStream(t) \/ NoToken(t) \/ Fail(t)
    <3>1. \A u \in Tabs : stale'[u] = stale[u] /\ missed[u] \subseteq missed'[u]
      BY <1>0, <2>1 DEF HoldStream, NoToken, Fail, Missing, TypeOK
    <3> QED
      BY <1>0, <3>1, Ages DEF Promise!Next
  <2>2. CASE ~(HoldStream(t) \/ NoToken(t) \/ Fail(t))
    <3>1. UNCHANGED <<stale, missed>>
      BY <1>1, <2>2 DEF Running, Mount, GotToken, LateToken, Connected, Hear, Lose, Retry,
           Deliver, Answer, Subscribe, Focus, Sever, cacheVars
    <3> QED
      BY <3>1, Unseen
  <2> QED
    BY <2>1, <2>2
<1>2. ASSUME NEW t \in Tabs, NEW stays \in BOOLEAN, Leave(t, stays) PROVE Promise!Clear(t)
  <2>1. stale' = [stale EXCEPT ![t] = {}] /\ missed' = [missed EXCEPT ![t] = {}]
    BY <1>2 DEF Leave
  <2>2. Due' = [Due EXCEPT ![t] = {}]
    BY <1>0, <2>1 DEF Due, TypeOK
  <2> QED
    BY <2>1, <2>2 DEF Promise!Clear, Due
<1>3. ASSUME NEW t \in Tabs, NEW q \in Shown, Fetch(t, q) PROVE Promise!Fetch(t, q)
  <2>1. stale' = [stale EXCEPT ![t] = @ \ {q}] /\ missed' = [missed EXCEPT ![t] = @ \ {q}]
    BY <1>3 DEF Fetch
  <2>2. Due' = [Due EXCEPT ![t] = @ \ {q}]
    <3>1. Due[t] \ {q} = (stale[t] \ {q}) \ (missed[t] \ {q})
      BY DEF Due
    <3>2. \A u \in Tabs : Due'[u] = IF u = t THEN Due[t] \ {q} ELSE Due[u]
      BY <1>0, <2>1, <3>1 DEF Due, TypeOK
    <3> QED
      BY <3>2 DEF Due
  <2> QED
    BY <2>1, <2>2 DEF Promise!Fetch, Due
<1>4. ASSUME NEW k \in Happening, Commit(k) PROVE Promise!Age
  <2>1. \A t \in Tabs : stale[t] \subseteq stale'[t]
    BY <1>0, <1>4 DEF Commit, Mounted
  <2>2. \A t \in Tabs : missed[t] \subseteq missed'[t]
    BY <1>4 DEF Commit, Missing
  <2> QED
    BY <1>0, <2>1, <2>2, Ages
<1>5. ASSUME NEW k \in Happening, Broadcast(k) PROVE Promise!Age
  <2>1. stale' = stale /\ \A t \in Tabs : missed[t] \subseteq missed'[t]
    BY <1>5 DEF Broadcast, Missing
  <2> QED
    BY <1>0, <2>1, Ages
<1>6. CASE Restart
  <2>1. stale' = stale /\ \A t \in Tabs : missed[t] \subseteq missed'[t]
    BY <1>6 DEF Restart, Missing
  <2> QED
    BY <1>0, <2>1, Ages DEF Promise!Next
<1>7. CASE UNCHANGED vars
  BY <1>7, Unseen DEF vars
<1> QED
  BY <1>1, <1>2, <1>3, <1>4, <1>5, <1>6, <1>7 DEF Next, Promise!Next

\* The refresh keeps the promise of Freshness: a query out of date stays due
\* until it is fetched, its tab closes, or it comes to be openly missed.
THEOREM KeepsPromise == Spec => Promise!Init /\ [][Promise!Next]_(Promise!vars)
<1>1. Init => Promise!Init
  BY DEF Init, Promise!Init
<1> QED
  BY <1>1, InitKnow, StepKnows, StepKeeps, PTL DEF Spec

-----------------------------------------------------------------------------
(* The menus follow the holder's status. *)

\* No status is among the messages, or the last one among them is s.
Quiet(messages) == \A i \in DOMAIN messages : messages[i] \notin Statuses

Latest(messages, s) ==
  \E i \in DOMAIN messages : /\ messages[i] = s
                             /\ \A j \in DOMAIN messages : j > i => messages[j] \notin Statuses

\* The status t is going to show is h's.
Told(t, h) == Latest(inbox[t], status[h]) \/ (Quiet(inbox[t]) /\ status[t] = status[h])

Greeted(h) == \E i \in DOMAIN inbox[h] : inbox[h][i] = "hello"

\* A holder past its token has told its status.
Past(h) == life[h] = "holding" /\ conn[h] \in {"asking", "open", "backoff"}

\* The invariant: a waiting tab has been told the holder's status, or the
\* holder has yet to answer a greeting, which tells it to everyone.
FollowInv ==
  /\ TypeOK
  /\ \A t \in Tabs : earlier[t] => life[t] = "out"
  /\ \A t, h \in Tabs : life[t] = "waiting" /\ Past(h) => Told(t, h) \/ Greeted(h)

\* A message appended: a status is the last one from then on, anything else
\* leaves the last one what it was.
LEMMA Appended ==
  ASSUME NEW m \in Seq(Messages), NEW x \in Messages
  PROVE  /\ x \in Statuses => Latest(m \o <<x>>, x)
         /\ x \notin Statuses => /\ Quiet(m) => Quiet(m \o <<x>>)
                                 /\ \A s : Latest(m, s) => Latest(m \o <<x>>, s)
         /\ (\E i \in DOMAIN m : m[i] = "hello")
              => \E i \in DOMAIN (m \o <<x>>) : (m \o <<x>>)[i] = "hello"
         /\ x = "hello" => \E i \in DOMAIN (m \o <<x>>) : (m \o <<x>>)[i] = "hello"
<1> DEFINE n == m \o <<x>>
<1>1. n \in Seq(Messages) /\ Len(n) = Len(m) + 1 /\ n[Len(m) + 1] = x
  OBVIOUS
<1>2. \A i \in DOMAIN m : i \in 1 .. Len(m) /\ i \in DOMAIN n /\ n[i] = m[i]
  OBVIOUS
<1>3. DOMAIN n = 1 .. Len(m) + 1 /\ DOMAIN m = 1 .. Len(m) /\ Len(m) \in Nat
  BY <1>1
<1> HIDE DEF n
<1>4. ASSUME x \in Statuses PROVE Latest(n, x)
  BY <1>1, <1>3 DEF Latest
<1>5. ASSUME x \notin Statuses, Quiet(m) PROVE Quiet(n)
  BY <1>1, <1>2, <1>3, <1>5 DEF Quiet
<1>6. ASSUME x \notin Statuses, NEW s, Latest(m, s) PROVE Latest(n, s)
  <2>1. PICK i \in DOMAIN m : m[i] = s /\ \A j \in DOMAIN m : j > i => m[j] \notin Statuses
    BY <1>6 DEF Latest
  <2>2. \A j \in DOMAIN n : j \in DOMAIN m \/ j = Len(m) + 1
    BY <1>3
  <2> QED
    BY <1>1, <1>2, <1>6, <2>1, <2>2 DEF Latest
<1> QED
  BY <1>1, <1>2, <1>3, <1>4, <1>5, <1>6 DEF n

\* The first message handled: what remains is as quiet, and the last status
\* in it is what it was unless it was the one handled.
LEMMA Handled ==
  ASSUME NEW m \in Seq(Messages), m # <<>>
  PROVE  /\ Quiet(m) => Quiet(Tail(m)) /\ Head(m) \notin Statuses
         /\ \A s : Latest(m, s) => Latest(Tail(m), s) \/ (Head(m) = s /\ Quiet(Tail(m)))
         /\ (\E i \in DOMAIN m : m[i] = "hello") /\ Head(m) # "hello"
              => \E i \in DOMAIN Tail(m) : Tail(m)[i] = "hello"
<1>1. /\ Len(m) \in Nat \ {0} /\ DOMAIN m = 1 .. Len(m) /\ Head(m) = m[1]
      /\ DOMAIN Tail(m) = 1 .. Len(m) - 1
      /\ \A i \in 1 .. Len(m) - 1 : Tail(m)[i] = m[i + 1]
  OBVIOUS
<1>2. ASSUME Quiet(m) PROVE Quiet(Tail(m)) /\ Head(m) \notin Statuses
  BY <1>1, <1>2 DEF Quiet
<1>3. ASSUME NEW s, Latest(m, s) PROVE Latest(Tail(m), s) \/ (Head(m) = s /\ Quiet(Tail(m)))
  <2>1. PICK i \in DOMAIN m : m[i] = s /\ \A j \in DOMAIN m : j > i => m[j] \notin Statuses
    BY <1>3 DEF Latest
  <2>2. CASE i = 1
    <3>1. \A j \in DOMAIN Tail(m) : j + 1 \in DOMAIN m /\ j + 1 > 1 /\ Tail(m)[j] = m[j + 1]
      BY <1>1
    <3> QED
      BY <1>1, <2>1, <2>2, <3>1 DEF Quiet
  <2>3. CASE i > 1
    <3>1. i - 1 \in DOMAIN Tail(m) /\ Tail(m)[i - 1] = s
      BY <1>1, <2>1, <2>3
    <3>2. \A j \in DOMAIN Tail(m) : j > i - 1 => /\ j + 1 \in DOMAIN m /\ j + 1 > i
                                                 /\ Tail(m)[j] = m[j + 1]
      BY <1>1
    <3> QED
      BY <2>1, <3>1, <3>2 DEF Latest
  <2> QED
    BY <1>1, <2>2, <2>3
<1>4. ASSUME NEW i \in DOMAIN m, m[i] = "hello", Head(m) # "hello"
      PROVE  \E j \in DOMAIN Tail(m) : Tail(m)[j] = "hello"
  <2>1. i - 1 \in DOMAIN Tail(m) /\ Tail(m)[i - 1] = m[i]
    BY <1>1, <1>4
  <2> QED
    BY <1>4, <2>1
<1> QED
  BY <1>2, <1>3, <1>4

\* Publishing a status makes it the last one every other mounted tab has.
LEMMA Published ==
  ASSUME TypeOK, NEW h \in Tabs, NEW s \in Statuses, NEW more \in {<<>>, <<"resync">>},
         Publish(h, s, more), NEW t \in Tabs, t # h, Mounted(t)
  PROVE  Latest(inbox'[t], status'[h])
<1>1. inbox[t] \in Seq(Messages) /\ s \in Messages /\ "resync" \in Messages
  BY DEF TypeOK, Messages
<1>2. status'[h] = s /\ inbox'[t] = inbox[t] \o (<<s>> \o more)
  BY DEF Publish, Posted, TypeOK
<1>3. Latest(inbox[t] \o <<s>>, s)
  BY <1>1, Appended
<1>4. CASE more = <<>>
  <2>1. <<s>> \o more = <<s>>
    BY <1>4
  <2> QED
    BY <1>2, <1>3, <2>1
<1>5. CASE more = <<"resync">>
  <2>1. inbox[t] \o <<s>> \in Seq(Messages)
    BY <1>1
  <2>2. inbox[t] \o (<<s>> \o more) = (inbox[t] \o <<s>>) \o <<"resync">>
    BY <1>1, <1>5
  <2>3. "resync" \notin Statuses
    BY DEF Statuses
  <2>4. Latest((inbox[t] \o <<s>>) \o <<"resync">>, s)
    BY <1>1, <1>3, <2>1, <2>3, Appended
  <2> QED
    BY <1>2, <2>2, <2>4
<1> QED
  BY <1>4, <1>5

\* A message that is no status, posted or not.
LEMMA StillTold ==
  ASSUME TypeOK, NEW x \in Messages \ Statuses, NEW t \in Tabs, NEW h \in Tabs,
         inbox'[t] \in {inbox[t], inbox[t] \o <<x>>},
         inbox'[h] \in {inbox[h], inbox[h] \o <<x>>},
         status'[t] = status[t], status'[h] = status[h]
  PROVE  /\ Told(t, h) => Told(t, h)'
         /\ Greeted(h) => Greeted(h)'
<1>1. inbox[t] \in Seq(Messages) /\ inbox[h] \in Seq(Messages) /\ x \in Messages /\ x \notin Statuses
  BY DEF TypeOK
<1>2. /\ Quiet(inbox[t]) => Quiet(inbox[t] \o <<x>>)
      /\ \A s : Latest(inbox[t], s) => Latest(inbox[t] \o <<x>>, s)
  BY <1>1, Appended
<1>3. (\E i \in DOMAIN inbox[h] : inbox[h][i] = "hello")
        => \E i \in DOMAIN (inbox[h] \o <<x>>) : (inbox[h] \o <<x>>)[i] = "hello"
  BY <1>1, Appended
<1>4. ASSUME Told(t, h) PROVE Told(t, h)'
  <2>1. CASE inbox'[t] = inbox[t]
    BY <1>4, <2>1 DEF Told, Latest, Quiet
  <2>2. CASE inbox'[t] = inbox[t] \o <<x>>
    <3>1. Latest(inbox[t] \o <<x>>, status[h])
            \/ (Quiet(inbox[t] \o <<x>>) /\ status[t] = status[h])
      BY <1>2, <1>4 DEF Told
    <3> QED
      BY <2>2, <3>1 DEF Told, Latest, Quiet
  <2> QED
    BY <2>1, <2>2
<1>5. ASSUME Greeted(h) PROVE Greeted(h)'
  <2>1. CASE inbox'[h] = inbox[h]
    BY <1>5, <2>1 DEF Greeted
  <2>2. CASE inbox'[h] = inbox[h] \o <<x>>
    BY <1>3, <1>5, <2>2 DEF Greeted
  <2> QED
    BY <2>1, <2>2
<1> QED
  BY <1>4, <1>5

\* The steps that say nothing on the channel and leave every status alone.
LEMMA SilentFollows ==
  ASSUME FollowInv, TypeOK', inbox' = inbox, status' = status,
         \A u \in Tabs : earlier'[u] => life'[u] = "out",
         \A u \in Tabs : /\ life'[u] = "waiting" => life[u] = "waiting"
                         /\ Past(u)' => Past(u)
  PROVE  FollowInv'
<1>1. ASSUME NEW t \in Tabs, NEW h \in Tabs, life'[t] = "waiting", Past(h)'
      PROVE  Told(t, h)' \/ Greeted(h)'
  BY <1>1 DEF FollowInv, Told, Greeted, Latest, Quiet
<1> QED
  BY <1>1 DEF FollowInv

\* The steps with which the holder publishes its status.
LEMMA PublishFollows ==
  ASSUME FollowInv, TypeOK', NEW h \in Tabs, life[h] = "holding",
         NEW s \in Statuses, NEW more \in {<<>>, <<"resync">>}, Publish(h, s, more),
         life' = life, earlier' = earlier
  PROVE  FollowInv'
<1>1. ASSUME NEW t \in Tabs, NEW g \in Tabs, life'[t] = "waiting", Past(g)'
      PROVE  Told(t, g)' \/ Greeted(g)'
  <2>1. life'[g] = "holding"
    BY <1>1 DEF Past
  <2>2. g = h /\ t # h /\ Mounted(t)
    BY <1>1, <2>1 DEF FollowInv, TypeOK, Holders, Mounted
  <2>3. Latest(inbox'[t], status'[h])
    BY <2>2, Published DEF FollowInv
  <2> QED
    BY <2>2, <2>3 DEF Told, Latest
<1> QED
  BY <1>1 DEF FollowInv

\* A tab that mounts greets the holder.
LEMMA MountFollows ==
  ASSUME FollowInv, TypeOK', ~Overlap, NEW t \in Tabs, Mount(t)
  PROVE  FollowInv'
<1> USE DEF FollowInv
<1>1. "hello" \in Messages \ Statuses
  BY DEF Messages, Statuses
<1>2. \A u \in Tabs : /\ life'[u] = IF u = t THEN "waiting" ELSE life[u]
                      /\ inbox'[u] = IF u # t /\ Mounted(u) THEN inbox[u] \o <<"hello">>
                                                            ELSE inbox[u]
  BY DEF Mount, Posted, TypeOK
<1>3. ASSUME NEW u \in Tabs, NEW h \in Tabs, life'[u] = "waiting", Past(h)'
      PROVE  Told(u, h)' \/ Greeted(h)'
  <2>1. h # t /\ Past(h) /\ Mounted(h)
    BY <1>2, <1>3 DEF Mount, Past, Mounted, TypeOK
  <2>2. CASE u = t
    <3>1. inbox'[h] = inbox[h] \o <<"hello">> /\ inbox[h] \in Seq(Messages)
      BY <1>2, <2>1 DEF TypeOK
    <3>2. \E i \in DOMAIN inbox'[h] : inbox'[h][i] = "hello"
      BY <1>1, <3>1, Appended
    <3> QED
      BY <3>2 DEF Greeted
  <2>3. CASE u # t
    <3>1. Told(u, h) \/ Greeted(h)
      BY <1>2, <1>3, <2>1, <2>3
    <3>2. /\ inbox'[u] \in {inbox[u], inbox[u] \o <<"hello">>}
          /\ inbox'[h] \in {inbox[h], inbox[h] \o <<"hello">>}
          /\ status'[u] = status[u] /\ status'[h] = status[h]
      BY <1>2 DEF Mount
    <3> QED
      BY <1>1, <3>1, <3>2, StillTold
  <2> QED
    BY <2>2, <2>3
<1>4. \A u \in Tabs : earlier'[u] => life'[u] = "out"
  BY <1>2 DEF Mount
<1> QED
  BY <1>3, <1>4

\* A tab that leaves: the others have what they had, and if it was the
\* holder there is none.
LEMMA LeaveFollows ==
  ASSUME FollowInv, TypeOK', NEW t \in Tabs, NEW stays \in BOOLEAN, Leave(t, stays)
  PROVE  FollowInv'
<1> USE DEF FollowInv
<1>1. \A u \in Tabs : u # t => /\ life'[u] = life[u] /\ conn'[u] = conn[u] /\ inbox'[u] = inbox[u]
                               /\ status'[u] = status[u] /\ (earlier'[u] => earlier[u])
  BY DEF Leave, TypeOK
<1>2. life'[t] = "out"
  BY DEF Leave, TypeOK
<1>3. ASSUME NEW u \in Tabs, NEW h \in Tabs, life'[u] = "waiting", Past(h)'
      PROVE  Told(u, h)' \/ Greeted(h)'
  <2>1. u # t /\ h # t
    BY <1>2, <1>3 DEF Past
  <2>2. life[u] = "waiting" /\ Past(h)
    BY <1>1, <1>3, <2>1 DEF Past
  <2> QED
    BY <1>1, <2>1, <2>2 DEF Told, Greeted, Latest, Quiet
<1>4. \A u \in Tabs : earlier'[u] => life'[u] = "out"
  BY <1>1, <1>2
<1> QED
  BY <1>3, <1>4

\* A late token sets the status of a tab that is signed out.
LEMMA LateTokenFollows ==
  ASSUME FollowInv, TypeOK', NEW t \in Tabs, LateToken(t)
  PROVE  FollowInv'
<1> USE DEF FollowInv
<1>1. life' = life /\ conn' = conn /\ inbox' = inbox /\ life[t] = "out"
  BY DEF LateToken
<1>2. \A u \in Tabs : u # t => status'[u] = status[u] /\ earlier'[u] = earlier[u]
  BY DEF LateToken, TypeOK
<1>3. ASSUME NEW u \in Tabs, NEW h \in Tabs, life'[u] = "waiting", Past(h)'
      PROVE  Told(u, h)' \/ Greeted(h)'
  BY <1>1, <1>2, <1>3 DEF Told, Greeted, Latest, Quiet, Past
<1> QED
  BY <1>1, <1>2, <1>3

\* The holder relays an event.
LEMMA HearFollows ==
  ASSUME FollowInv, TypeOK', NEW t \in Tabs, Hear(t)
  PROVE  FollowInv'
<1> USE DEF FollowInv
<1> DEFINE k == Head(buffer[t])
<1>1. k \in Messages \ Statuses
  <2>1. buffer[t] \in Seq(Kinds) /\ buffer[t] # <<>>
    BY DEF Hear, TypeOK
  <2>2. k \in Kinds
    BY <2>1
  <2> QED
    BY <2>2 DEF Messages, Kinds, Statuses
<1>2. \A u \in Tabs : inbox'[u] \in {inbox[u], inbox[u] \o <<k>>}
  BY DEF Hear, Posted
<1>3. UNCHANGED <<tabVars, conn, status>>
  BY DEF Hear
<1> HIDE DEF k
<1>4. ASSUME NEW u \in Tabs, NEW h \in Tabs, life'[u] = "waiting", Past(h)'
      PROVE  Told(u, h)' \/ Greeted(h)'
  <2>1. Told(u, h) \/ Greeted(h)
    BY <1>3, <1>4 DEF tabVars, Past
  <2> QED
    BY <1>1, <1>2, <1>3, <2>1, StillTold
<1> QED
  BY <1>3, <1>4 DEF tabVars

\* A message is handled.
LEMMA DeliverFollows ==
  ASSUME FollowInv, TypeOK', NEW t \in Tabs, Deliver(t)
  PROVE  FollowInv'
<1> USE DEF FollowInv
<1> DEFINE m == Head(inbox[t])
<1>1. inbox[t] \in Seq(Messages) /\ inbox[t] # <<>> /\ m \in Messages
  BY DEF Deliver, TypeOK
<1>2. life' = life /\ conn' = conn /\ earlier' = earlier
  BY DEF Deliver, tabVars
<1>3. ASSUME NEW u \in Tabs, NEW h \in Tabs, life[u] = "waiting", Past(h)
      PROVE  Told(u, h)' \/ Greeted(h)'
  <2>1. u # h /\ life[h] = "holding" /\ Mounted(u) /\ (Told(u, h) \/ Greeted(h))
    BY <1>3 DEF Past, Mounted
  <2>2. inbox[u] \in Seq(Messages) /\ inbox[h] \in Seq(Messages) /\ status[h] \in Statuses
        /\ status[h] \in Messages
    BY DEF TypeOK, Messages
  <2>3. CASE t = h /\ m = "hello"
    <3>1. inbox'[u] = Append(inbox[u], status[h]) /\ status' = status
      BY <2>1, <2>3 DEF Deliver, TypeOK
    <3>2. inbox'[u] = inbox[u] \o <<status[h]>>
      BY <2>2, <3>1
    <3>3. Latest(inbox[u] \o <<status[h]>>, status[h])
      BY <2>2, Appended
    <3> QED
      BY <3>1, <3>2, <3>3 DEF Told, Latest
  <2>4. CASE t = h /\ m # "hello"
    <3>1. inbox'[u] = inbox[u] /\ inbox'[h] = Tail(inbox[h]) /\ status' = status
      BY <2>1, <2>4 DEF Deliver, TypeOK
    <3>2. CASE Told(u, h)
      BY <3>1, <3>2 DEF Told, Latest, Quiet
    <3>3. CASE Greeted(h)
      <4>1. \E i \in DOMAIN Tail(inbox[h]) : Tail(inbox[h])[i] = "hello"
        BY <1>1, <2>4, <3>3, Handled DEF Greeted
      <4> QED
        BY <3>1, <4>1 DEF Greeted
    <3> QED
      BY <2>1, <3>2, <3>3
  <2>5. CASE t = u
    <3>1. /\ inbox'[h] = inbox[h] /\ inbox'[u] = Tail(inbox[u]) /\ status'[h] = status[h]
          /\ m \in Statuses => status'[u] = m
          /\ m \notin Statuses => status'[u] = status[u]
      BY <1>3, <2>1, <2>5 DEF Deliver, TypeOK
    <3>2. CASE Told(u, h)
      <4>1. /\ Quiet(inbox[u]) => Quiet(Tail(inbox[u])) /\ m \notin Statuses
            /\ Latest(inbox[u], status[h])
                 => Latest(Tail(inbox[u]), status[h]) \/ (m = status[h] /\ Quiet(Tail(inbox[u])))
        BY <1>1, <2>5, Handled
      <4>2. \/ Latest(Tail(inbox[u]), status[h])
            \/ Quiet(Tail(inbox[u])) /\ status'[u] = status[h]
        BY <2>2, <3>1, <3>2, <4>1 DEF Told
      <4> QED
        BY <3>1, <4>2 DEF Told, Latest, Quiet
    <3>3. CASE Greeted(h)
      BY <3>1, <3>3 DEF Greeted
    <3> QED
      BY <2>1, <3>2, <3>3
  <2>6. CASE t # u /\ t # h
    <3>1. life[t] # "holding"
      BY <2>1, <2>6 DEF TypeOK, Holders
    <3>2. inbox'[h] = inbox[h] /\ inbox'[u] = inbox[u] /\ status'[h] = status[h]
          /\ status'[u] = status[u]
      BY <2>6, <3>1 DEF Deliver, TypeOK
    <3> QED
      BY <2>1, <3>2 DEF Told, Greeted, Latest, Quiet
  <2> QED
    BY <2>3, <2>4, <2>5, <2>6
<1> QED
  BY <1>2, <1>3 DEF Past

\* Every step keeps the invariant.
LEMMA StepFollows == ~Overlap /\ FollowInv /\ [Next]_vars => FollowInv'
<1> SUFFICES ASSUME ~Overlap, FollowInv, [Next]_vars PROVE FollowInv'
  OBVIOUS
<1>0. TypeOK /\ TypeOK'
  BY StepTypes DEF FollowInv
<1>1. \A u \in Tabs : earlier[u] => life[u] = "out"
  BY DEF FollowInv
<1>2. ASSUME NEW t \in Tabs, Running(t) PROVE FollowInv'
  <2>1. CASE HoldStream(t)
    BY <1>0, <1>1, <2>1, SilentFollows DEF HoldStream, Past, TypeOK
  <2>2. CASE GotToken(t)
    BY <1>0, <2>2, PublishFollows DEF GotToken, tabVars, TypeOK, Statuses
  <2>3. CASE LateToken(t)
    BY <1>0, <2>3, LateTokenFollows
  <2>4. CASE Connected(t)
    <3>1. life[t] = "holding" /\ "connected" \in Statuses
      BY <1>0, <2>4 DEF Connected, TypeOK, Statuses
    <3>2. PICK more \in {<<>>, <<"resync">>} : Publish(t, "connected", more)
      BY <2>4 DEF Connected
    <3> QED
      BY <1>0, <2>4, <3>1, <3>2, PublishFollows DEF Connected
  <2>5. CASE Hear(t)
    BY <1>0, <2>5, HearFollows
  <2>6. CASE Lose(t)
    BY <1>0, <2>6, PublishFollows DEF Lose, tabVars, TypeOK, Statuses
  <2>7. CASE Retry(t)
    BY <1>0, <1>1, <2>7, SilentFollows DEF Retry, Past, TypeOK, tabVars
  <2>8. CASE Deliver(t)
    BY <1>0, <2>8, DeliverFollows
  <2>9. CASE Answer(t) \/ Subscribe(t)
    BY <1>0, <1>1, <2>9, SilentFollows DEF Answer, Subscribe, Past, tabVars
  <2> QED
    BY <1>2, <2>1, <2>2, <2>3, <2>4, <2>5, <2>6, <2>7, <2>8, <2>9 DEF Running
<1>3. ASSUME NEW t \in Tabs, Mount(t) \/ NoToken(t) \/ Fail(t) \/ Focus(t) \/ Sever(t)
      PROVE  FollowInv'
  <2>1. CASE Mount(t)
    BY <1>0, <2>1, MountFollows
  <2>2. CASE NoToken(t)
    BY <1>0, <2>2, PublishFollows DEF NoToken, tabVars, TypeOK, Statuses
  <2>3. CASE Fail(t)
    BY <1>0, <2>3, PublishFollows DEF Fail, tabVars, TypeOK, Statuses
  <2>4. CASE Focus(t) \/ Sever(t)
    BY <1>0, <1>1, <2>4, SilentFollows DEF Focus, Sever, Past, tabVars
  <2> QED
    BY <1>3, <2>1, <2>2, <2>3, <2>4
<1>4. ASSUME NEW t \in Tabs, NEW stays \in BOOLEAN, Leave(t, stays) PROVE FollowInv'
  BY <1>0, <1>4, LeaveFollows
<1>5. ASSUME NEW t \in Tabs, NEW q \in Shown, Fetch(t, q) PROVE FollowInv'
  BY <1>0, <1>1, <1>5, SilentFollows DEF Fetch, Past, tabVars
<1>6. ASSUME NEW k \in Happening, Commit(k) \/ Broadcast(k) PROVE FollowInv'
  BY <1>0, <1>1, <1>6, SilentFollows DEF Commit, Broadcast, Past, tabVars
<1>7. CASE Restart
  BY <1>0, <1>1, <1>7, SilentFollows DEF Restart, Past, tabVars
<1>8. CASE UNCHANGED vars
  BY <1>0, <1>1, <1>8, SilentFollows DEF vars, Past
<1> QED
  BY <1>2, <1>3, <1>4, <1>5, <1>6, <1>7, <1>8 DEF Next

\* Whoever holds the stream and however the relay's messages interleave, a
\* waiting tab with nothing about it under way shows the holder's status
\* (useLiveMemoRefresh.ts, publishStatus and onmessage), as long as no tab
\* signs in again while its last session still waits for a token: that token
\* sets a status and tells no one.
THEOREM MenusFollow == ASSUME ~Overlap PROVE Spec => []StatusFollows
<1>1. Init => FollowInv
  <2>1. Init => TypeOK
    BY InitTypes
  <2> QED
    BY <2>1 DEF Init, FollowInv
<1>2. FollowInv /\ [Next]_vars => FollowInv'
  BY StepFollows
<1>3. FollowInv => StatusFollows
  <2> SUFFICES ASSUME FollowInv, NEW t \in Tabs, NEW h \in Tabs,
                      life[t] = "waiting", life[h] = "holding",
                      conn[h] \in {"asking", "open", "backoff"},
                      \A i \in DOMAIN inbox[t] : inbox[t][i] \notin Statuses,
                      \A i \in DOMAIN inbox[h] : inbox[h][i] # "hello"
               PROVE  status[t] = status[h]
    BY DEF StatusFollows
  <2>1. Told(t, h) \/ Greeted(h)
    BY DEF FollowInv, Past
  <2>2. ~Greeted(h) /\ ~Latest(inbox[t], status[h])
    <3>1. status[h] \in Statuses
      BY DEF FollowInv, TypeOK
    <3> QED
      BY <3>1 DEF Greeted, Latest
  <2> QED
    BY <2>1, <2>2 DEF Told
<1> QED
  BY <1>1, <1>2, <1>3, PTL DEF Spec
=============================================================================
