---------------------------- MODULE LiveRefresh ----------------------------
(***************************************************************************)
(* The live refresh of the web client (web/src/hooks/useLiveMemoRefresh.ts)*)
(* with the server's event hub (server/router/api/v1/sse_hub.go).  One tab *)
(* of the browser wins a lock and holds the only event stream; it relays   *)
(* what it hears, its connection status and its resyncs to the other tabs  *)
(* over a broadcast channel.  Every tab answers an event by invalidating   *)
(* the queries the event is about, which are then fetched again.           *)
(*                                                                         *)
(* The document on screen has a comment thread; Queries are the kinds of   *)
(* query the client caches about them.  `missed' is a history variable: a  *)
(* query a tab shows that is out of date with nothing on its way to say so.*)
(***************************************************************************)
EXTENDS Naturals, FiniteSets, Sequences

CONSTANTS Tabs,          \* tabs of one browser, one account
          Shown,         \* the queries a tab has on screen
          Happening,     \* the kinds of change that other clients make
          Cap,           \* events the hub buffers for a client (32 in the code)
          Overlap,       \* whether a tab may sign in again while a connection
                         \* attempt of its last session still waits for a token
          MaxChanges, MaxFaults, MaxMounts    \* bounds on the environment

Queries == {"lists", "detail", "comments", "trees", "stats"}

Kinds == {"memoCreated", "memoUpdated", "memoDeleted", "commentCreated",
          "commentUpdated", "commentDeleted", "reactionChanged"}

ASSUME Sizes == /\ Cap \in Nat \ {0} /\ Overlap \in BOOLEAN
                /\ MaxChanges \in Nat /\ MaxFaults \in Nat /\ MaxMounts \in Nat
ASSUME Views == Shown \subseteq Queries /\ Happening \subseteq Kinds

VARIABLES
  life,      \* life[t]: "out" (signed out or closed), "waiting" for the lock, "holding" it
  conn,      \* conn[t]: how far the stream of t's effect has come
  earlier,   \* earlier[t]: connect() of an effect that is gone still awaits its token
  once,      \* once[t]: hasConnectedOnceRef
  status,    \* status[t]: the connection status t's menu shows
  inbox,     \* inbox[t]: messages of the broadcast channel t has yet to handle
  sub,       \* sub[t]: the server's side of t's request
  buffer,    \* buffer[t]: events the hub has queued for t
  unsent,    \* changes stored by requests that have yet to broadcast them
  stale,     \* stale[t]: queries on t's screen that the server has since changed
  invalid,   \* invalid[t]: queries t has invalidated and is fetching again
  missed,    \* missed[t]: stale queries that nothing on its way will tell t about
  changes, faults, mounts

tabVars == <<life, earlier, once>>
serverVars == <<sub, buffer, unsent>>
cacheVars == <<stale, invalid, missed>>
bounds == <<changes, faults, mounts>>
vars == <<life, conn, earlier, once, status, inbox, sub, buffer, unsent,
          stale, invalid, missed, changes, faults, mounts>>

Statuses == {"connected", "disconnected", "connecting"}
Messages == Statuses \cup Kinds \cup {"resync", "hello"}
Phases == {"none", "token", "asking", "open", "backoff", "idle"}

---------------------------------------------------------------------------
(* What a change puts out of date, and what a tab that hears of it          *)
(* invalidates: a deleted comment's event does not name its parent.         *)

Affected(k) == Shown \cap
  CASE k = "memoCreated"     -> {"lists", "trees", "stats"}
    [] k = "memoUpdated"     -> {"detail", "lists", "trees"}
    [] k = "memoDeleted"     -> {"detail", "lists", "trees", "stats"}
    [] k = "commentCreated"  -> {"comments", "detail"}
    [] k = "commentUpdated"  -> {"comments"}
    [] k = "commentDeleted"  -> {"comments", "detail"}
    [] k = "reactionChanged" -> {"detail", "lists"}

Invalidated(k) == Shown \cap
  CASE k = "memoCreated"     -> {"lists", "trees", "stats"}
    [] k = "memoUpdated"     -> {"detail", "lists", "trees"}
    [] k = "memoDeleted"     -> {"detail", "lists", "trees", "stats"}
    [] k = "commentCreated"  -> {"comments", "detail"}
    [] k = "commentUpdated"  -> {"comments", "lists"}
    [] k = "commentDeleted"  -> {"lists", "trees", "stats"}
    [] k = "reactionChanged" -> {"detail", "lists"}

Mounted(t) == life[t] # "out"
Holders == {t \in Tabs : life[t] = "holding"}

(* postMessage: every other mounted tab gets the messages, in order. *)
Posted(t, messages) ==
  [u \in Tabs |-> IF u # t /\ Mounted(u) THEN inbox[u] \o messages ELSE inbox[u]]

(* publishStatus, followed by the messages `more', as the holder. *)
Publish(t, s, more) == /\ status' = [status EXCEPT ![t] = s]
                       /\ inbox' = Posted(t, <<s>> \o more)

---------------------------------------------------------------------------
(* What is on its way to a tab. *)

(* Connected will resync everyone, for this holder has connected before. *)
WillResync(h) == /\ once[h]
                 /\ \/ conn[h] \in {"token", "asking", "backoff"}
                    \/ conn[h] = "open" /\ sub[h] = "none"

About(messages) ==
  UNION {IF messages[i] = "resync" THEN Shown ELSE Invalidated(messages[i]) :
           i \in {j \in DOMAIN messages : messages[j] \in Kinds \cup {"resync"}}}

Streamed(h) == IF WillResync(h) THEN Shown ELSE About(buffer[h])

Coming(t) ==
  invalid[t] \cup (UNION {Invalidated(k) : k \in unsent}) \cup
  CASE life[t] = "holding" -> Streamed(t)
    [] life[t] = "waiting" -> IF Holders = {} THEN Shown
                              ELSE About(inbox[t]) \cup UNION {Streamed(h) : h \in Holders}
    [] life[t] = "out"     -> {}

(* The steps the code makes no arrangements for end in this: what is then   *)
(* out of date with nothing on its way is missed.                           *)
Missing == missed' = [t \in Tabs |-> missed[t] \cup (stale'[t] \ Coming(t)')]

---------------------------------------------------------------------------
(* The life of a tab. *)

Init ==
  /\ life = [t \in Tabs |-> "out"] /\ conn = [t \in Tabs |-> "none"]
  /\ earlier = [t \in Tabs |-> FALSE] /\ once = [t \in Tabs |-> FALSE]
  /\ status = [t \in Tabs |-> "disconnected"] /\ inbox = [t \in Tabs |-> <<>>]
  /\ sub = [t \in Tabs |-> "none"] /\ buffer = [t \in Tabs |-> <<>>]
  /\ unsent = {}
  /\ stale = [t \in Tabs |-> {}] /\ invalid = [t \in Tabs |-> {}]
  /\ missed = [t \in Tabs |-> {}]
  /\ changes = 0 /\ faults = 0 /\ mounts = 0

(* A signed-in tab mounts the hook: it greets the holder and queues for the *)
(* lock.  What it shows it has just fetched.                                *)
Mount(t) ==
  /\ life[t] = "out" /\ (earlier[t] => Overlap)
  /\ mounts < MaxMounts /\ mounts' = mounts + 1
  /\ life' = [life EXCEPT ![t] = "waiting"]
  /\ inbox' = Posted(t, <<"hello">>)
  /\ UNCHANGED <<conn, earlier, once, status, serverVars, cacheVars, changes, faults>>

(* The lock is free and t is next: it holds the stream and connects. *)
HoldStream(t) ==
  /\ life[t] = "waiting" /\ Holders = {}
  /\ life' = [life EXCEPT ![t] = "holding"]
  /\ conn' = [conn EXCEPT ![t] = "token"]
  /\ UNCHANGED <<earlier, once, status, inbox, serverVars, stale, invalid, bounds>>
  /\ Missing

\* a slip: the cleanup does not abort the request
LeaveStreaming(t, stays) ==
  /\ Mounted(t)
  /\ life' = [life EXCEPT ![t] = "out"]
  /\ conn' = [conn EXCEPT ![t] = "none"]
  /\ earlier' = [earlier EXCEPT ![t] = stays /\ (@ \/ conn[t] = "token")]
  /\ once' = [once EXCEPT ![t] = @ /\ stays]
  /\ status' = [status EXCEPT ![t] = "disconnected"]
  /\ inbox' = [inbox EXCEPT ![t] = <<>>]
  /\ stale' = [stale EXCEPT ![t] = {}]
  /\ invalid' = [invalid EXCEPT ![t] = {}]
  /\ missed' = [missed EXCEPT ![t] = {}]
  /\ UNCHANGED <<serverVars, bounds>>

(* The effect is cleaned up, on signing out (the tab stays) or because the  *)
(* tab is closed: the stream is aborted and the lock released.              *)
Leave(t, stays) ==
  /\ Mounted(t)
  /\ life' = [life EXCEPT ![t] = "out"]
  /\ conn' = [conn EXCEPT ![t] = "none"]
  /\ earlier' = [earlier EXCEPT ![t] = stays /\ (@ \/ conn[t] = "token")]
  /\ once' = [once EXCEPT ![t] = @ /\ stays]
  /\ status' = [status EXCEPT ![t] = "disconnected"]
  /\ inbox' = [inbox EXCEPT ![t] = <<>>]
  /\ sub' = [sub EXCEPT ![t] = "none"]
  /\ buffer' = [buffer EXCEPT ![t] = <<>>]
  /\ stale' = [stale EXCEPT ![t] = {}]
  /\ invalid' = [invalid EXCEPT ![t] = {}]
  /\ missed' = [missed EXCEPT ![t] = {}]
  /\ UNCHANGED <<unsent, bounds>>

---------------------------------------------------------------------------
(* connect(): token, request, stream. *)

GotToken(t) ==
  /\ conn[t] = "token"
  /\ conn' = [conn EXCEPT ![t] = "asking"]
  /\ Publish(t, "connecting", <<>>)
  /\ UNCHANGED <<tabVars, serverVars, cacheVars, bounds>>

(* The session has just been cleared: connect() gives up, keeping the lock  *)
(* until the effect is cleaned up.                                          *)
NoToken(t) ==
  /\ conn[t] = "token" /\ faults < MaxFaults /\ faults' = faults + 1
  /\ conn' = [conn EXCEPT ![t] = "idle"]
  /\ Publish(t, "disconnected", <<>>)
  /\ UNCHANGED <<tabVars, serverVars, stale, invalid, changes, mounts>>
  /\ Missing

(* A token for an effect that is gone: its status is set, and posting it on *)
(* the closed channel throws, which ends that connect().                    *)
LateToken(t) ==
  /\ earlier[t]
  /\ earlier' = [earlier EXCEPT ![t] = FALSE]
  /\ \E s \in {"connecting", "disconnected"} : status' = [status EXCEPT ![t] = s]
  /\ UNCHANGED <<life, conn, once, inbox, serverVars, cacheVars, bounds>>

\* a slip: the holder resyncs itself and tells no one
ConnectedAlone(t) ==
  /\ conn[t] = "asking" /\ sub[t] # "none"
  /\ conn' = [conn EXCEPT ![t] = "open"]
  /\ once' = [once EXCEPT ![t] = TRUE]
  /\ Publish(t, "connected", <<>>)
  /\ invalid' = IF once[t] THEN [invalid EXCEPT ![t] = Shown] ELSE invalid
  /\ UNCHANGED <<life, earlier, serverVars, stale, missed, bounds>>

(* The response's headers are in: resync, except on the first connection. *)
Connected(t) ==
  /\ conn[t] = "asking" /\ sub[t] # "none"
  /\ conn' = [conn EXCEPT ![t] = "open"]
  /\ once' = [once EXCEPT ![t] = TRUE]
  /\ Publish(t, "connected", IF once[t] THEN <<"resync">> ELSE <<>>)
  /\ invalid' = IF once[t] THEN [invalid EXCEPT ![t] = Shown] ELSE invalid
  /\ UNCHANGED <<life, earlier, serverVars, stale, missed, bounds>>

\* a slip: a failed request counts as never having connected
FailForgets(t) ==
  /\ conn[t] = "asking" /\ faults < MaxFaults /\ faults' = faults + 1
  /\ conn' = [conn EXCEPT ![t] = "backoff"]
  /\ once' = [once EXCEPT ![t] = FALSE]
  /\ sub' = [sub EXCEPT ![t] = "none"]
  /\ buffer' = [buffer EXCEPT ![t] = <<>>]
  /\ Publish(t, "disconnected", <<>>)
  /\ UNCHANGED <<life, earlier, unsent, stale, invalid, changes, mounts>>
  /\ Missing

(* The request fails: back off. *)
Fail(t) ==
  /\ conn[t] = "asking" /\ faults < MaxFaults /\ faults' = faults + 1
  /\ conn' = [conn EXCEPT ![t] = "backoff"]
  /\ sub' = [sub EXCEPT ![t] = "none"]
  /\ buffer' = [buffer EXCEPT ![t] = <<>>]
  /\ Publish(t, "disconnected", <<>>)
  /\ UNCHANGED <<tabVars, unsent, stale, invalid, changes, mounts>>
  /\ Missing

(* The holder reads an event of the stream, obeys it and relays it. *)
Hear(t) ==
  /\ conn[t] = "open" /\ buffer[t] # <<>>
  /\ buffer' = [buffer EXCEPT ![t] = Tail(@)]
  /\ invalid' = [invalid EXCEPT ![t] = @ \cup Invalidated(Head(buffer[t]))]
  /\ inbox' = Posted(t, <<Head(buffer[t])>>)
  /\ UNCHANGED <<tabVars, conn, status, sub, unsent, stale, missed, bounds>>

(* The reader finds the stream ended. *)
Lose(t) ==
  /\ conn[t] = "open" /\ sub[t] = "none"
  /\ conn' = [conn EXCEPT ![t] = "backoff"]
  /\ Publish(t, "disconnected", <<>>)
  /\ UNCHANGED <<tabVars, serverVars, cacheVars, bounds>>

\* a slip: the retry is set only until the first connection is made
RetryFirst(t) ==
  /\ conn[t] = "backoff" /\ ~once[t]
  /\ conn' = [conn EXCEPT ![t] = "token"]
  /\ UNCHANGED <<tabVars, status, inbox, serverVars, cacheVars, bounds>>

Retry(t) ==
  /\ conn[t] = "backoff"
  /\ conn' = [conn EXCEPT ![t] = "token"]
  /\ UNCHANGED <<tabVars, status, inbox, serverVars, cacheVars, bounds>>

---------------------------------------------------------------------------
(* channel.onmessage: the holder answers greetings; the others obey. *)

\* a slip: the holder does not answer greetings
DeliverCurt(t) ==
  /\ inbox[t] # <<>>
  /\ inbox' = [inbox EXCEPT ![t] = Tail(@)]
  /\ LET message == Head(inbox[t])
     IN \/ life[t] = "holding" /\ UNCHANGED <<status, invalid>>
        \/ /\ life[t] = "waiting"
           /\ status' = IF message \in Statuses THEN [status EXCEPT ![t] = message] ELSE status
           /\ invalid' = [invalid EXCEPT ![t] = @ \cup About(<<message>>)]
  /\ UNCHANGED <<tabVars, conn, serverVars, stale, missed, bounds>>

Deliver(t) ==
  /\ inbox[t] # <<>>
  /\ LET message == Head(inbox[t])
         rest == [inbox EXCEPT ![t] = Tail(@)]
     IN \/ /\ life[t] = "holding" /\ message = "hello"
           /\ inbox' = [u \in Tabs |-> IF u # t /\ Mounted(u)
                                       THEN Append(rest[u], status[t]) ELSE rest[u]]
           /\ UNCHANGED <<status, invalid>>
        \/ /\ life[t] = "holding" /\ message # "hello"
           /\ inbox' = rest /\ UNCHANGED <<status, invalid>>
        \/ /\ life[t] = "waiting"
           /\ inbox' = rest
           /\ status' = IF message \in Statuses THEN [status EXCEPT ![t] = message] ELSE status
           /\ invalid' = [invalid EXCEPT ![t] = @ \cup About(<<message>>)]
  /\ UNCHANGED <<tabVars, conn, serverVars, stale, missed, bounds>>

(* React Query has fetched an invalidated query again. *)
Fetch(t, q) ==
  /\ q \in invalid[t]
  /\ stale' = [stale EXCEPT ![t] = @ \ {q}]
  /\ invalid' = [invalid EXCEPT ![t] = @ \ {q}]
  /\ missed' = [missed EXCEPT ![t] = @ \ {q}]
  /\ UNCHANGED <<tabVars, conn, status, inbox, serverVars, bounds>>

(* refetchOnWindowFocus: a tab that was away refetches what it shows. *)
Focus(t) ==
  /\ Mounted(t)
  /\ invalid' = [invalid EXCEPT ![t] = Shown]
  /\ UNCHANGED <<tabVars, conn, status, inbox, serverVars, stale, missed, bounds>>

---------------------------------------------------------------------------
(* The server. *)

(* A request stores its change ... *)
Commit(k) ==
  /\ k \notin unsent /\ changes < MaxChanges /\ changes' = changes + 1
  /\ unsent' = unsent \cup {k}
  /\ stale' = [t \in Tabs |-> IF Mounted(t) THEN stale[t] \cup Affected(k) ELSE {}]
  /\ UNCHANGED <<tabVars, conn, status, inbox, sub, buffer, invalid, faults, mounts>>
  /\ Missing

(* ... and then broadcasts it: to whoever is subscribed and has room. *)
Broadcast(k) ==
  /\ k \in unsent
  /\ unsent' = unsent \ {k}
  /\ buffer' = [t \in Tabs |-> IF sub[t] = "subscribed" /\ Len(buffer[t]) < Cap
                               THEN Append(buffer[t], k) ELSE buffer[t]]
  /\ UNCHANGED <<tabVars, conn, status, inbox, sub, stale, invalid, bounds>>
  /\ Missing

(* handleSSE flushes the headers before it subscribes to the hub. *)
Answer(t) ==
  /\ conn[t] = "asking" /\ sub[t] = "none"
  /\ sub' = [sub EXCEPT ![t] = "answered"]
  /\ UNCHANGED <<tabVars, conn, status, inbox, buffer, unsent, cacheVars, bounds>>

Subscribe(t) ==
  /\ sub[t] = "answered"
  /\ sub' = [sub EXCEPT ![t] = "subscribed"]
  /\ UNCHANGED <<tabVars, conn, status, inbox, buffer, unsent, cacheVars, bounds>>

(* The network drops the stream; the client has yet to notice. *)
Sever(t) ==
  /\ conn[t] = "open" /\ sub[t] # "none" /\ faults < MaxFaults /\ faults' = faults + 1
  /\ sub' = [sub EXCEPT ![t] = "none"]
  /\ buffer' = [buffer EXCEPT ![t] = <<>>]
  /\ UNCHANGED <<tabVars, conn, status, inbox, unsent, cacheVars, changes, mounts>>

(* The server restarts: streams end, stored changes stay unannounced. *)
Restart ==
  /\ faults < MaxFaults /\ faults' = faults + 1
  /\ sub' = [t \in Tabs |-> "none"] /\ buffer' = [t \in Tabs |-> <<>>] /\ unsent' = {}
  /\ UNCHANGED <<tabVars, conn, status, inbox, stale, invalid, changes, mounts>>
  /\ Missing

---------------------------------------------------------------------------
Running(t) == \/ HoldStream(t) \/ GotToken(t) \/ LateToken(t) \/ Connected(t)
              \/ Hear(t) \/ Lose(t) \/ Retry(t) \/ Deliver(t) \/ Answer(t) \/ Subscribe(t)

Next ==
  \/ \E t \in Tabs :
       \/ Running(t) \/ Mount(t) \/ NoToken(t) \/ Fail(t) \/ Focus(t) \/ Sever(t)
       \/ (\E stays \in BOOLEAN : Leave(t, stays))
       \/ (\E q \in Shown : Fetch(t, q))
  \/ \E k \in Happening : Commit(k) \/ Broadcast(k)
  \/ Restart

Spec == Init /\ [][Next]_vars

(* Handlers, timers and requests run; a fetch ends; a request that stored a *)
(* change announces it; a tab whose session is gone cleans its effect up.   *)
Fairness ==
  /\ \A t \in Tabs : /\ WF_vars(HoldStream(t)) /\ WF_vars(GotToken(t))
                     /\ WF_vars(Connected(t)) /\ WF_vars(Hear(t)) /\ WF_vars(Lose(t))
                     /\ WF_vars(Retry(t)) /\ WF_vars(Deliver(t))
                     /\ WF_vars(Answer(t)) /\ WF_vars(Subscribe(t))
                     /\ WF_vars(conn[t] = "idle" /\ \E stays \in BOOLEAN : Leave(t, stays))
                     /\ \A q \in Shown : WF_vars(Fetch(t, q))
  /\ \A k \in Happening : WF_vars(Broadcast(k))

FairSpec == Spec /\ Fairness

---------------------------------------------------------------------------
(* Type invariant: only the holder of the lock has a stream, and the hub    *)
(* never holds more than its buffer for it.                                 *)
TypeOK ==
  /\ life \in [Tabs -> {"out", "waiting", "holding"}]
  /\ conn \in [Tabs -> Phases]
  /\ earlier \in [Tabs -> BOOLEAN] /\ once \in [Tabs -> BOOLEAN]
  /\ status \in [Tabs -> Statuses]
  /\ inbox \in [Tabs -> Seq(Messages)]
  /\ sub \in [Tabs -> {"none", "answered", "subscribed"}]
  /\ buffer \in [Tabs -> Seq(Kinds)]
  /\ unsent \subseteq Happening
  /\ stale \in [Tabs -> SUBSET Shown] /\ invalid \in [Tabs -> SUBSET Shown]
  /\ missed \in [Tabs -> SUBSET Shown]
  /\ changes \in 0..MaxChanges /\ faults \in 0..MaxFaults /\ mounts \in 0..MaxMounts
  /\ \A t \in Tabs : /\ conn[t] # "none" <=> life[t] = "holding"
                     /\ sub[t] # "none" => conn[t] \in {"asking", "open"}
                     /\ Len(buffer[t]) <= Cap
  /\ \A t, u \in Holders : t = u

(* Whatever is out of date on a screen is being fetched, or an event, a     *)
(* relay or a resync that will have it fetched is on its way, or it was     *)
(* openly missed: no interleaving of reconnections, relays, restarts and    *)
(* tabs coming and going loses a change in any other way.                   *)
ComesToKnow == \A t \in Tabs : stale[t] \subseteq Coming(t) \cup missed[t]

(* With a holder that has connected before, its subscription in place or    *)
(* being re-established, nothing new is missed by any tab: not in an outage *)
(* however long, not across a restart.  The cases left out are a full       *)
(* buffer, a session that ends, an event that does not name what it changes,*)
(* and the moment between a response's headers and its subscription.        *)
NoGaps ==
  [][(\E h \in Holders : /\ once[h] /\ ~(conn[h] = "open" /\ sub[h] = "answered")
                         /\ Len(buffer[h]) < Cap /\ conn'[h] \notin {"none", "idle"})
       => \A t \in Tabs : missed'[t] \subseteq missed[t] \cup
                            UNION {Affected(k) \ Invalidated(k) : k \in Happening}]_vars

(* A waiting tab's menu shows the holder's connection status, once the      *)
(* holder has come past its token and nothing about it is under way.        *)
StatusFollows ==
  \A t, h \in Tabs :
    (/\ life[t] = "waiting" /\ life[h] = "holding"
     /\ conn[h] \in {"asking", "open", "backoff"}
     /\ \A i \in DOMAIN inbox[t] : inbox[t][i] \notin Statuses
     /\ \A i \in DOMAIN inbox[h] : inbox[h][i] # "hello")
    => status[t] = status[h]

(* The refresh implements the promise of Freshness: what is out of date and *)
(* not missed is due, and is fetched.                                       *)
Promise == INSTANCE Freshness WITH due <- [t \in Tabs |-> stale[t] \ missed[t]]

Refreshed == Promise!Spec
=============================================================================
