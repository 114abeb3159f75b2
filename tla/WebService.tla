----------------------------- MODULE WebService -----------------------------
(***************************************************************************)
(* WebService: local clients register endpoints, which are kept in memory  *)
(* and in a file that the next start restores; whatever the features       *)
(* publish is kept per channel and posted to every endpoint.  Three        *)
(* mutexes of the process are taken by the handlers of the requests, by    *)
(* those who publish and by the tasks they spawn, and some of them are     *)
(* held while an endpoint is awaited.                                      *)
(***************************************************************************)
EXTENDS Naturals

CONSTANTS
  Endpoint, Handler,  \* endpoints, requests that are handled at a time
  Channel,            \* channels, each with one who publishes on it
  Hanging,            \* endpoints that accept a post and never answer it
  MaxValue, MaxRequests, MaxFaults  \* bounds

ASSUME HangingAssumption == Hanging \subseteq Endpoint
ASSUME BoundsAssumption ==
  /\ MaxValue \in Nat /\ MaxRequests \in Nat
  /\ MaxFaults \in Nat

VARIABLES
  published,   \* values this process published so far, per channel
  publisher,   \* how far the call of publish is
  channelMap,  \* PUBLISH_CHANNEL_MAP, and PUBLISH_STATUS_MAP; 0 is no entry
  endpoints,   \* PUBLISH_ENDPOINTS
  file,        \* publish_endpoints.json: its entries, whether it can be parsed
  unsaved,     \* the last save failed
  held,        \* the mutexes that are held across an await
  handler,     \* the requests
  tasks,       \* the spawned posts
  newest,      \* the newest of them each endpoint received
  missed,      \* posts that failed
  up, requests, faults  \* faults: failed calls and ends of the process

pubVars == <<published, publisher, channelMap>>
fileVars == <<endpoints, file, unsaved>>
postVars == <<tasks, newest, missed>>
bounds == <<up, requests, faults>>
vars == <<pubVars, fileVars, held, handler, postVars, bounds>>

Post == [ep : Endpoint, ch : Channel, val : 1..MaxValue]
Idle == [pc |-> "idle"]
Serving ==
  [pc : {"start", "save", "write", "map", "post", "send"}, ep : Endpoint,
   kind : {"register", "unregister", "republish"}, todo : SUBSET Channel]
Mutex == {"endpoints", "map", "client"}

TypeOK ==
  /\ published \in [Channel -> 0..MaxValue]
  /\ publisher \in [Channel -> {"idle", "spawn"}]
  /\ channelMap \in [Channel -> 0..MaxValue]
  /\ endpoints \subseteq Endpoint
  /\ file \in [parses : BOOLEAN, eps : SUBSET Endpoint]
  /\ unsaved \in BOOLEAN
  /\ held \subseteq Mutex
  /\ handler \in [Handler -> {Idle} \cup Serving]
  /\ tasks \in [waiting : SUBSET Post, sending : SUBSET Post]
  /\ newest \in [Endpoint -> [Channel -> 0..MaxValue]]
  /\ missed \subseteq Post
  /\ up \in BOOLEAN
  /\ requests \in 0..MaxRequests /\ faults \in 0..MaxFaults

NoTasks == [waiting |-> {}, sending |-> {}]
Nothing == [c \in Channel |-> 0]

Init ==
  /\ published = Nothing
  /\ publisher = [c \in Channel |-> "idle"]
  /\ channelMap = Nothing
  /\ endpoints = {} /\ file = [parses |-> TRUE, eps |-> {}] /\ unsaved = FALSE
  /\ held = {}
  /\ handler = [h \in Handler |-> Idle]
  /\ tasks = NoTasks
  /\ newest = [e \in Endpoint |-> Nothing]
  /\ missed = {}
  /\ up = TRUE /\ requests = 0 /\ faults = 0

Free(m) == m \notin held
At(h, pc) == handler[h].pc = pc
Is(h, kind) == ~At(h, "idle") /\ handler[h].kind = kind
Goto(h, pc) == handler' = [handler EXCEPT ![h].pc = pc]

\* The request is answered; what its handler holds is released.
Answer(h, locks) ==
  /\ handler' = [handler EXCEPT ![h] = Idle]
  /\ held' = held \ locks

\* What a handler that posts holds: republish keeps the endpoints locked.
Held(h) == {"map"} \cup (IF Is(h, "republish") THEN {"endpoints"} ELSE {})

Receive(e, c, v) ==
  newest' = [newest EXCEPT ![e][c] = IF v > @ THEN v ELSE @]

-----------------------------------------------------------------------------
(* publish                                                                 *)

\* Mutant: a value nobody listens to is not kept.
PublishMutant(c) ==
  /\ up /\ publisher[c] = "idle" /\ Free("map") /\ published[c] < MaxValue
  /\ published' = [published EXCEPT ![c] = @ + 1]
  /\ channelMap' = IF endpoints = {} THEN channelMap
                   ELSE [channelMap EXCEPT ![c] = published'[c]]
  /\ publisher' = [publisher EXCEPT ![c] = "spawn"]
  /\ UNCHANGED <<fileVars, held, handler, postVars, bounds>>

\* The value goes to the map new endpoints are served from, and to the one that
\* /status shows, which nobody holds for longer than a read.
Publish(c) ==
  /\ up /\ publisher[c] = "idle" /\ Free("map") /\ published[c] < MaxValue
  /\ published' = [published EXCEPT ![c] = @ + 1]
  /\ channelMap' = [channelMap EXCEPT ![c] = published'[c]]
  /\ publisher' = [publisher EXCEPT ![c] = "spawn"]
  /\ UNCHANGED <<fileVars, held, handler, postVars, bounds>>

\* One task per endpoint.
SpawnPosts(c) ==
  /\ publisher[c] = "spawn" /\ Free("endpoints")
  /\ tasks' = [tasks EXCEPT !.waiting =
                 @ \cup {[ep |-> e, ch |-> c, val |-> published[c]] : e \in endpoints}]
  /\ publisher' = [publisher EXCEPT ![c] = "idle"]
  /\ UNCHANGED <<published, channelMap, fileVars, held, handler, newest, missed,
                 bounds>>

\* publish_to_endpoint of a task.
TaskPosts(p) ==
  /\ p \in tasks.waiting /\ Free("client")
  /\ held' = held \cup {"client"}
  /\ tasks' = [waiting |-> tasks.waiting \ {p}, sending |-> {p}]
  /\ UNCHANGED <<pubVars, fileVars, handler, newest, missed, bounds>>

TaskDone(p) ==
  /\ p \in tasks.sending
  /\ held' = held \ {"client"}
  /\ tasks' = [tasks EXCEPT !.sending = {}]
  /\ Receive(p.ep, p.ch, p.val)
  /\ UNCHANGED <<pubVars, fileVars, handler, missed, bounds>>

\* The error is logged, nothing is tried again after the client's retries.
TaskFails(p) ==
  /\ p \in tasks.sending /\ faults < MaxFaults
  /\ held' = held \ {"client"}
  /\ tasks' = [tasks EXCEPT !.sending = {}]
  /\ missed' = missed \cup {p}
  /\ faults' = faults + 1
  /\ UNCHANGED <<pubVars, fileVars, handler, newest, up, requests>>

-----------------------------------------------------------------------------
(* The requests                                                            *)

Request(h) ==
  /\ up /\ At(h, "idle") /\ requests < MaxRequests
  /\ requests' = requests + 1
  /\ \E kind \in {"register", "unregister", "republish"}, e \in Endpoint :
       handler' = [handler EXCEPT ![h] =
                     [pc |-> "start", kind |-> kind, ep |-> e, todo |-> {}]]
  /\ UNCHANGED <<pubVars, fileVars, held, postVars, up, faults>>

\* Mutant: the lock is kept for the save.
InsertMutant(h) ==
  /\ Is(h, "register") /\ At(h, "start") /\ Free("endpoints")
  /\ endpoints' = endpoints \cup {handler[h].ep}
  /\ held' = held \cup {"endpoints"}
  /\ Goto(h, "save")
  /\ UNCHANGED <<pubVars, file, unsaved, postVars, bounds>>

\* register_publish_endpoint releases the endpoints and locks them anew to save.
Insert(h) ==
  /\ Is(h, "register") /\ At(h, "start") /\ Free("endpoints")
  /\ endpoints' = endpoints \cup {handler[h].ep}
  /\ Goto(h, "save")
  /\ UNCHANGED <<pubVars, file, unsaved, held, postVars, bounds>>

\* Mutant: the removal is not saved.
RemoveMutant(h) ==
  /\ Is(h, "unregister") /\ At(h, "start") /\ Free("endpoints")
  /\ endpoints' = endpoints \ {handler[h].ep}
  /\ Answer(h, {})
  /\ UNCHANGED <<pubVars, file, unsaved, postVars, bounds>>

\* unregister_publish_endpoint saves only if there was something to remove.
Remove(h) ==
  /\ Is(h, "unregister") /\ At(h, "start") /\ Free("endpoints")
  /\ endpoints' = endpoints \ {handler[h].ep}
  /\ IF handler[h].ep \in endpoints THEN Goto(h, "save") /\ UNCHANGED held
                                    ELSE Answer(h, {})
  /\ UNCHANGED <<pubVars, file, unsaved, postVars, bounds>>

\* republish keeps the endpoints locked until it has posted everything.
Lookup(h) ==
  /\ Is(h, "republish") /\ At(h, "start") /\ Free("endpoints")
  /\ IF handler[h].ep \in endpoints
     THEN Goto(h, "map") /\ held' = held \cup {"endpoints"}
     ELSE Answer(h, {})
  /\ UNCHANGED <<pubVars, fileVars, postVars, bounds>>

\* save_publish_endpoints truncates the file ...
SaveOpens(h) ==
  /\ At(h, "save") /\ Free("endpoints")
  /\ held' = held \cup {"endpoints"}
  /\ file' = [parses |-> FALSE, eps |-> {}]
  /\ Goto(h, "write")
  /\ UNCHANGED <<pubVars, endpoints, unsaved, postVars, bounds>>

\* ... and writes what is registered by now.
SaveWrites(h) ==
  /\ At(h, "write")
  /\ file' = [parses |-> TRUE, eps |-> endpoints] /\ unsaved' = FALSE
  /\ IF Is(h, "register") THEN Goto(h, "map") /\ held' = held \ {"endpoints"}
                          ELSE Answer(h, {"endpoints"})
  /\ UNCHANGED <<pubVars, endpoints, postVars, bounds>>

\* What an endpoint is not sent because a request for it failed.
Missed(h, channels) ==
  missed' = missed \cup {[ep |-> handler[h].ep, ch |-> c, val |-> channelMap[c]] : c \in channels}

InMap == {c \in Channel : channelMap[c] # 0}

\* Registered, but neither saved nor told.
SaveFails(h) ==
  /\ \/ At(h, "save") /\ Free("endpoints")
     \/ At(h, "write")
  /\ faults < MaxFaults /\ faults' = faults + 1
  /\ unsaved' = TRUE
  /\ Answer(h, IF At(h, "write") THEN {"endpoints"} ELSE {})
  /\ IF Is(h, "register") THEN Missed(h, InMap) ELSE UNCHANGED missed
  /\ UNCHANGED <<pubVars, endpoints, file, tasks, newest, up, requests>>

\* Mutant: channels that were never published are posted, too.
LockMapMutant(h) ==
  /\ At(h, "map") /\ Free("map")
  /\ held' = held \cup {"map"}
  /\ handler' = [handler EXCEPT ![h].pc = "post", ![h].todo = Channel]
  /\ UNCHANGED <<pubVars, fileVars, postVars, bounds>>

\* republish_to_endpoint keeps the map locked while it posts.
LockMap(h) ==
  /\ At(h, "map") /\ Free("map")
  /\ held' = held \cup {"map"}
  /\ handler' = [handler EXCEPT ![h].pc = "post", ![h].todo = InMap]
  /\ UNCHANGED <<pubVars, fileVars, postVars, bounds>>

LockClient(h) ==
  /\ At(h, "post") /\ handler[h].todo # {} /\ Free("client")
  /\ held' = held \cup {"client"}
  /\ Goto(h, "send")
  /\ UNCHANGED <<pubVars, fileVars, postVars, bounds>>

SendDone(h) ==
  /\ At(h, "send")
  /\ held' = held \ {"client"}
  /\ \E c \in handler[h].todo :
       /\ Receive(handler[h].ep, c, channelMap[c])
       /\ handler' = [handler EXCEPT ![h].pc = "post", ![h].todo = @ \ {c}]
  /\ UNCHANGED <<pubVars, fileVars, tasks, missed, bounds>>

\* The first error ends the republishing.
SendFails(h) ==
  /\ At(h, "send")
  /\ faults < MaxFaults /\ faults' = faults + 1
  /\ Missed(h, handler[h].todo)
  /\ Answer(h, {"client"} \cup Held(h))
  /\ UNCHANGED <<pubVars, fileVars, tasks, newest, up, requests>>

Republished(h) ==
  /\ At(h, "post") /\ handler[h].todo = {}
  /\ Answer(h, Held(h))
  /\ UNCHANGED <<pubVars, fileVars, postVars, bounds>>

-----------------------------------------------------------------------------
(* The process                                                             *)

\* The process ends: a signal, the watchdog, an error of the loop.
Kill ==
  /\ up /\ faults < MaxFaults /\ faults' = faults + 1
  /\ up' = FALSE
  /\ published' = Nothing /\ channelMap' = Nothing
  /\ publisher' = [c \in Channel |-> "idle"]
  /\ endpoints' = {} /\ held' = {} /\ unsaved' = FALSE
  /\ handler' = [h \in Handler |-> Idle]
  /\ tasks' = NoTasks
  /\ newest' = [e \in Endpoint |-> Nothing] /\ missed' = {}
  /\ UNCHANGED <<file, requests>>

\* run restores the endpoints; a file it cannot parse ends the process again.
Start ==
  /\ ~up /\ file.parses
  /\ up' = TRUE
  /\ endpoints' = file.eps
  /\ UNCHANGED <<pubVars, file, unsaved, held, handler, postVars, requests, faults>>

Handle(h) ==
  \/ Insert(h) \/ Remove(h) \/ Lookup(h)
  \/ SaveOpens(h) \/ SaveWrites(h)
  \/ LockMap(h) \/ LockClient(h) \/ Republished(h)
  \/ (handler[h] # Idle /\ handler[h].ep \notin Hanging /\ SendDone(h))

Task ==
  \/ \E p \in tasks.waiting : TaskPosts(p)
  \/ \E p \in tasks.sending : p.ep \notin Hanging /\ TaskDone(p)

Next ==
  \/ \E c \in Channel : Publish(c) \/ SpawnPosts(c)
  \/ Task
  \/ \E p \in tasks.sending : TaskFails(p)
  \/ \E h \in Handler : Request(h) \/ Handle(h) \/ SaveFails(h) \/ SendFails(h)
  \/ Kill \/ Start

Spec == Init /\ [][Next]_vars

\* Tokio's mutexes are first come, first served; an endpoint that does not hang
\* answers, or its post fails after the retries.
FairSpec ==
  /\ Spec
  /\ SF_vars(\E c \in Channel : SpawnPosts(c))
  /\ SF_vars(Task)
  /\ \A h \in Handler : SF_vars(Handle(h))
  /\ WF_vars(Start)

-----------------------------------------------------------------------------
(* Properties                                                              *)

\* An endpoint that registers while a value is published gets the value, from
\* its registration or from a task of its own: the newest value
\* has been posted to every endpoint, or is about to be, or its post failed.
NothingMissed ==
  \A e \in endpoints, c \in Channel :
    publisher[c] = "idle" /\ published[c] # 0 =>
      \/ newest[e][c] = published[c]
      \/ [ep |-> e, ch |-> c, val |-> published[c]] \in
           tasks.waiting \cup tasks.sending \cup missed
      \/ \E h \in Handler :
           /\ Is(h, "register") /\ handler[h].ep = e
           /\ handler[h].pc \in {"save", "write", "map"} \/ c \in handler[h].todo

\* Registrations and removals at the same time save each other's changes: with
\* no save under way the file is what is registered, unless a save failed.
RegistrationsSaved ==
  up /\ ~unsaved /\ (\A h \in Handler : handler[h].pc \notin {"save", "write"}) =>
    file = [parses |-> TRUE, eps |-> endpoints]

AtRest ==
  (\A h \in Handler : handler[h] = Idle) /\ (\A c \in Channel : publisher[c] = "idle")

\* The locks that are taken in a row by republish, publish and the posts never
\* wait for each other: as long as the endpoints answer and requests do not
\* come without end, all requests are answered and all publishing ends.
Served == ~AtRest ~> AtRest

\* "As a result of registration, the current status is published to the
\* registered endpoint": whatever the other endpoints do.
RegistrationServed ==
  \A h \in Handler :
    handler[h] # Idle /\ Is(h, "register") /\ handler[h].ep \notin Hanging
      ~> handler[h] = Idle
=============================================================================
