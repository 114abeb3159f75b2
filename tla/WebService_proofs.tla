-------------------------- MODULE WebService_proofs --------------------------
(***************************************************************************)
(* Proofs about WebService, for all sets of endpoints, channels and        *)
(* requests, whichever endpoints hang: type correctness, that each of the  *)
(* three mutexes has at most one holder, that registrations and removals   *)
(* save each other's changes, and that no endpoint misses a value.         *)
(***************************************************************************)
EXTENDS WebService, TLAPS

\* Who holds a mutex across an await.
HoldsEndpoints(h) ==
  At(h, "write") \/ (Is(h, "republish") /\ handler[h].pc \in {"map", "post", "send"})
HoldsMap(h) == handler[h].pc \in {"post", "send"}
HoldsClient(h) == At(h, "send")

\* A mutex is held exactly if it has a holder, and it has at most one.
LockInv ==
  /\ "endpoints" \in held <=> \E h \in Handler : HoldsEndpoints(h)
  /\ "map" \in held <=> \E h \in Handler : HoldsMap(h)
  /\ "client" \in held <=> (\E h \in Handler : HoldsClient(h)) \/ tasks.sending # {}
  /\ \A g, h \in Handler : HoldsEndpoints(g) /\ HoldsEndpoints(h) => g = h
  /\ \A g, h \in Handler : HoldsMap(g) /\ HoldsMap(h) => g = h
  /\ \A g, h \in Handler : HoldsClient(g) /\ HoldsClient(h) => g = h
  /\ \A h \in Handler : HoldsClient(h) => tasks.sending = {}
  /\ \A p, q \in tasks.sending : p = q

\* How far a request can be, by its kind, and what it has still to post.
HandlerInv ==
  \A h \in Handler : handler[h] # Idle =>
    /\ handler[h].kind = "unregister" => handler[h].pc \in {"start", "save", "write"}
    /\ handler[h].kind = "republish" => handler[h].pc \notin {"save", "write"}
    /\ handler[h].pc \notin {"post", "send"} => handler[h].todo = {}
    /\ \A c \in handler[h].todo : published[c] # 0

\* The map holds what was published last, and nobody received what was not.
PublishInv ==
  /\ channelMap = published
  /\ ~up => published = Nothing
  /\ \A c \in Channel : publisher[c] = "spawn" => published[c] # 0
  /\ \A e \in Endpoint, c \in Channel : newest[e][c] <= published[c]
  /\ \A p \in tasks.waiting \cup tasks.sending : p.val <= published[p.ch]

IInv == TypeOK /\ LockInv /\ HandlerInv /\ PublishInv /\ RegistrationsSaved /\ NothingMissed

-----------------------------------------------------------------------------
USE HangingAssumption, BoundsAssumption

\* A request has the fields of one, an idle slot has not.
LEMMA Requests ==
  /\ Idle \notin Serving /\ Idle.pc = "idle"
  /\ \A r \in Serving :
       /\ r.pc \in {"start", "save", "write", "map", "post", "send"}
       /\ r.kind \in {"register", "unregister", "republish"}
       /\ r.ep \in Endpoint /\ r.todo \subseteq Channel
BY DEF Idle, Serving

Becomes(h, q) == handler' = [handler EXCEPT ![h] = q]

\* The request goes on at x and has the channels in S still to post.
Moves(h, x, S) ==
  /\ handler[h] \in Serving
  /\ \E q \in Serving : /\ Becomes(h, q)
                        /\ q.pc = x /\ q.todo = S
                        /\ q.kind = handler[h].kind /\ q.ep = handler[h].ep

\* The request is answered.
Ends(h) == handler[h] \in Serving /\ Becomes(h, Idle)

\* A request that arrives.
Arrives(h) ==
  /\ handler[h] = Idle
  /\ \E q \in Serving : Becomes(h, q) /\ q.pc = "start" /\ q.todo = {}

\* What the steps of a request do to it.
LEMMA HandlerEffects ==
  ASSUME TypeOK, NEW h \in Handler
  PROVE  /\ Request(h) => Arrives(h)
         /\ Insert(h) => Moves(h, "save", handler[h].todo)
         /\ Remove(h) => IF handler[h].ep \in endpoints
                         THEN Moves(h, "save", handler[h].todo) ELSE Ends(h)
         /\ Lookup(h) => IF handler[h].ep \in endpoints
                         THEN Moves(h, "map", handler[h].todo) ELSE Ends(h)
         /\ SaveOpens(h) => Moves(h, "write", handler[h].todo)
         /\ SaveWrites(h) => IF Is(h, "register")
                             THEN Moves(h, "map", handler[h].todo) ELSE Ends(h)
         /\ SaveFails(h) \/ SendFails(h) \/ Republished(h) => Ends(h)
         /\ LockMap(h) => Moves(h, "post", InMap)
         /\ LockClient(h) => Moves(h, "send", handler[h].todo)
         /\ SendDone(h) =>
              \E c \in handler[h].todo :
                /\ Moves(h, "post", handler[h].todo \ {c})
                /\ Receive(handler[h].ep, c, channelMap[c])
<1>1. handler[h] = Idle \/ handler[h] \in Serving
  BY DEF TypeOK
<1>2. ASSUME ~At(h, "idle")
      PROVE  handler[h] \in Serving
  BY <1>1, <1>2, Requests DEF At
<1>3. ASSUME NEW x \in {"start", "save", "write", "map", "post", "send"},
             ~At(h, "idle"), Goto(h, x)
      PROVE  Moves(h, x, handler[h].todo)
  <2> DEFINE q == [handler[h] EXCEPT !.pc = x]
  <2>1. Becomes(h, q)
    BY <1>3 DEF Goto, Becomes
  <2>2. q \in Serving /\ q.pc = x /\ q.todo = handler[h].todo
        /\ q.kind = handler[h].kind /\ q.ep = handler[h].ep
    <3>1. handler[h] \in Serving /\ {} \subseteq Channel
      BY <1>2, <1>3
    <3> QED
      BY <1>3, <3>1 DEF Serving
  <2> QED
    BY <1>2, <1>3, <2>1, <2>2 DEF Moves
<1>4. ASSUME NEW x \in {"start", "save", "write", "map", "post", "send"},
             NEW S \in SUBSET Channel, ~At(h, "idle"),
             handler' = [handler EXCEPT ![h].pc = x, ![h].todo = S]
      PROVE  Moves(h, x, S)
  <2> DEFINE q == [handler[h] EXCEPT !.pc = x, !.todo = S]
  <2>1. Becomes(h, q)
    BY <1>4 DEF Becomes, TypeOK
  <2>2. q \in Serving /\ q.pc = x /\ q.todo = S
        /\ q.kind = handler[h].kind /\ q.ep = handler[h].ep
    <3>1. handler[h] \in Serving /\ S \subseteq Channel
      BY <1>2, <1>4
    <3> QED
      BY <1>4, <3>1 DEF Serving
  <2> QED
    BY <1>2, <1>4, <2>1, <2>2 DEF Moves
<1>5. ASSUME NEW locks, ~At(h, "idle"), Answer(h, locks)
      PROVE  Ends(h)
  BY <1>2, <1>5 DEF Ends, Answer, Becomes
<1>6. Request(h) => Arrives(h)
  <2> SUFFICES ASSUME Request(h) PROVE Arrives(h)
    OBVIOUS
  <2>1. PICK kind \in {"register", "unregister", "republish"}, e \in Endpoint :
          Becomes(h, [pc |-> "start", kind |-> kind, ep |-> e, todo |-> {}])
    BY DEF Request, Becomes
  <2> DEFINE q == [pc |-> "start", kind |-> kind, ep |-> e, todo |-> {}]
  <2>2. q \in Serving /\ q.pc = "start" /\ q.todo = {}
    BY DEF Serving
  <2>3. handler[h] = Idle
    BY <1>1, Requests DEF Request, At
  <2> QED
    BY <2>1, <2>2, <2>3 DEF Arrives
<1>7. Insert(h) => Moves(h, "save", handler[h].todo)
  BY <1>3 DEF Insert, Is
<1>8. Remove(h) => IF handler[h].ep \in endpoints
                   THEN Moves(h, "save", handler[h].todo) ELSE Ends(h)
  BY <1>3, <1>5 DEF Remove, Is
<1>9. Lookup(h) => IF handler[h].ep \in endpoints
                   THEN Moves(h, "map", handler[h].todo) ELSE Ends(h)
  BY <1>3, <1>5 DEF Lookup, Is
<1>10. SaveOpens(h) => Moves(h, "write", handler[h].todo)
  BY <1>3 DEF SaveOpens, At
<1>11. SaveWrites(h) => IF Is(h, "register")
                        THEN Moves(h, "map", handler[h].todo) ELSE Ends(h)
  BY <1>3, <1>5 DEF SaveWrites, At
<1>12. SaveFails(h) \/ SendFails(h) \/ Republished(h) => Ends(h)
  BY <1>5 DEF SaveFails, SendFails, Republished, At
<1>13. LockMap(h) => Moves(h, "post", InMap)
  BY <1>4 DEF LockMap, At, InMap
<1>14. LockClient(h) => Moves(h, "send", handler[h].todo)
  BY <1>3 DEF LockClient, At
<1>15. SendDone(h) =>
         \E c \in handler[h].todo :
           /\ Moves(h, "post", handler[h].todo \ {c})
           /\ Receive(handler[h].ep, c, channelMap[c])
  <2> SUFFICES ASSUME SendDone(h)
               PROVE  \E c \in handler[h].todo :
                        /\ Moves(h, "post", handler[h].todo \ {c})
                        /\ Receive(handler[h].ep, c, channelMap[c])
    OBVIOUS
  <2>1. ~At(h, "idle") /\ handler[h] \in Serving
    BY <1>2 DEF SendDone, At
  <2>2. PICK c \in handler[h].todo :
          /\ Receive(handler[h].ep, c, channelMap[c])
          /\ handler' = [handler EXCEPT ![h].pc = "post", ![h].todo = @ \ {c}]
    BY DEF SendDone
  <2>3. handler' = [handler EXCEPT ![h].pc = "post", ![h].todo = handler[h].todo \ {c}]
    BY <2>1, <2>2 DEF TypeOK, Serving
  <2>4. Moves(h, "post", handler[h].todo \ {c})
    BY <1>4, <2>1, <2>3, Requests
  <2> QED
    BY <2>2, <2>4
<1> QED
  BY <1>6, <1>7, <1>8, <1>9, <1>10, <1>11, <1>12, <1>13, <1>14, <1>15

\* The requests stay typed, whatever happens to one.
LEMMA HandlersTyped ==
  ASSUME TypeOK, NEW h \in Handler, NEW x, NEW S, Arrives(h) \/ Ends(h) \/ Moves(h, x, S)
  PROVE  handler' \in [Handler -> {Idle} \cup Serving]
BY DEF TypeOK, Arrives, Ends, Moves, Becomes

\* What is posted are published values.
LEMMA Posts ==
  /\ \A p \in Post : p.ep \in Endpoint /\ p.ch \in Channel /\ p.val \in 1..MaxValue
  /\ \A e \in Endpoint, c \in Channel, v \in 1..MaxValue :
       [ep |-> e, ch |-> c, val |-> v] \in Post
BY DEF Post

\* Types are kept by each step.
LEMMA TypeOKStep ==
  ASSUME TypeOK, HandlerInv, PublishInv, [Next]_vars
  PROVE  TypeOK'
<1> USE DEF TypeOK
<1>1. ASSUME NEW c \in Channel, Publish(c) PROVE TypeOK'
  BY <1>1 DEF Publish, fileVars, postVars, bounds
<1>2. ASSUME NEW c \in Channel, SpawnPosts(c) PROVE TypeOK'
  <2> DEFINE new == {[ep |-> e, ch |-> c, val |-> published[c]] : e \in endpoints}
  <2>1. published[c] \in 1..MaxValue
    BY <1>2 DEF SpawnPosts, PublishInv
  <2>2. new \subseteq Post
    BY <2>1, Posts
  <2>3. tasks' \in [waiting : SUBSET Post, sending : SUBSET Post]
    BY <1>2, <2>2 DEF SpawnPosts
  <2> QED
    BY <1>2, <2>3 DEF SpawnPosts, fileVars, bounds
<1>3. ASSUME NEW p \in tasks.waiting, TaskPosts(p) PROVE TypeOK'
  BY <1>3 DEF TaskPosts, pubVars, fileVars, bounds, Mutex
<1>4. ASSUME NEW e \in Endpoint, NEW c \in Channel, NEW v \in 0..MaxValue, Receive(e, c, v)
      PROVE  newest' \in [Endpoint -> [Channel -> 0..MaxValue]]
  BY <1>4 DEF Receive
<1>5. ASSUME NEW p \in tasks.sending, TaskDone(p) PROVE TypeOK'
  <2>1. newest' \in [Endpoint -> [Channel -> 0..MaxValue]]
    BY <1>4, <1>5, Posts DEF TaskDone
  <2> QED
    BY <1>5, <2>1 DEF TaskDone, pubVars, fileVars, bounds
<1>6. ASSUME NEW p \in tasks.sending, TaskFails(p) PROVE TypeOK'
  BY <1>6 DEF TaskFails, pubVars, fileVars
<1>7. ASSUME NEW h \in Handler, Request(h) PROVE TypeOK'
  <2>1. handler' \in [Handler -> {Idle} \cup Serving]
    BY <1>7, HandlerEffects, HandlersTyped
  <2> QED
    BY <1>7, <2>1 DEF Request, pubVars, fileVars, postVars
<1>8. ASSUME NEW h \in Handler, Handle(h) PROVE TypeOK'
  <2>1. handler' \in [Handler -> {Idle} \cup Serving]
    BY <1>8, HandlerEffects, HandlersTyped DEF Handle
  <2>2. handler[h] # Idle => handler[h].ep \in Endpoint /\ handler[h].todo \subseteq Channel
    BY Requests
  <2>3. CASE Insert(h)
    BY <2>1, <2>2, <2>3, Requests DEF Insert, Is, At, pubVars, postVars, bounds
  <2>4. CASE Remove(h)
    BY <2>1, <2>4 DEF Remove, Answer, pubVars, postVars, bounds
  <2>5. CASE Lookup(h)
    BY <2>1, <2>5 DEF Lookup, Answer, pubVars, fileVars, postVars, bounds, Mutex
  <2>6. CASE SaveOpens(h)
    BY <2>1, <2>6 DEF SaveOpens, pubVars, postVars, bounds, Mutex
  <2>7. CASE SaveWrites(h)
    BY <2>1, <2>7 DEF SaveWrites, Answer, pubVars, postVars, bounds
  <2>8. CASE LockMap(h)
    BY <2>1, <2>8 DEF LockMap, pubVars, fileVars, postVars, bounds, Mutex
  <2>9. CASE LockClient(h)
    BY <2>1, <2>9 DEF LockClient, pubVars, fileVars, postVars, bounds, Mutex
  <2>10. CASE Republished(h)
    BY <2>1, <2>10 DEF Republished, Answer, pubVars, fileVars, postVars, bounds
  <2>11. CASE handler[h] # Idle /\ SendDone(h)
    <3>1. newest' \in [Endpoint -> [Channel -> 0..MaxValue]]
      BY <1>4, <2>2, <2>11 DEF SendDone
    <3> QED
      BY <2>1, <2>11, <3>1 DEF SendDone, pubVars, fileVars, bounds
  <2> QED
    BY <1>8, <2>3, <2>4, <2>5, <2>6, <2>7, <2>8, <2>9, <2>10, <2>11 DEF Handle
<1>9. ASSUME NEW h \in Handler, handler[h] \in Serving, NEW S \in SUBSET Channel,
             \A c \in S : channelMap[c] # 0, Missed(h, S)
      PROVE  missed' \subseteq Post
  <2>1. \A c \in S : channelMap[c] \in 1..MaxValue
    BY <1>9
  <2>2. {[ep |-> handler[h].ep, ch |-> c, val |-> channelMap[c]] : c \in S} \subseteq Post
    BY <1>9, <2>1, Requests, Posts
  <2> QED
    BY <1>9, <2>2 DEF Missed
<1>10. ASSUME NEW h \in Handler, SaveFails(h) PROVE TypeOK'
  <2>1. handler' \in [Handler -> {Idle} \cup Serving] /\ handler[h] \in Serving
    BY <1>10, HandlerEffects, HandlersTyped DEF Ends
  <2>2. missed' \subseteq Post
    BY <1>9, <1>10, <2>1 DEF SaveFails, InMap
  <2> QED
    BY <1>10, <2>1, <2>2 DEF SaveFails, Answer, pubVars
<1>11. ASSUME NEW h \in Handler, SendFails(h) PROVE TypeOK'
  <2>1. handler' \in [Handler -> {Idle} \cup Serving] /\ handler[h] \in Serving
    BY <1>11, HandlerEffects, HandlersTyped DEF Ends
  <2>2. handler[h].todo \subseteq Channel /\ \A c \in handler[h].todo : channelMap[c] # 0
    BY <2>1, Requests DEF HandlerInv, PublishInv
  <2>3. missed' \subseteq Post
    BY <1>9, <1>11, <2>1, <2>2 DEF SendFails
  <2> QED
    BY <1>11, <2>1, <2>3 DEF SendFails, Answer, pubVars, fileVars
<1>12. ASSUME Kill PROVE TypeOK'
  <2>1. NoTasks \in [waiting : SUBSET Post, sending : SUBSET Post]
    BY DEF NoTasks
  <2>2. Nothing \in [Channel -> 0..MaxValue]
    BY DEF Nothing
  <2>3. newest' \in [Endpoint -> [Channel -> 0..MaxValue]]
    BY <1>12, <2>2 DEF Kill
  <2>4. handler' \in [Handler -> {Idle} \cup Serving]
    BY <1>12 DEF Kill
  <2>5. publisher' \in [Channel -> {"idle", "spawn"}]
    BY <1>12 DEF Kill
  <2>6. faults' \in 0..MaxFaults /\ requests' \in 0..MaxRequests
    BY <1>12 DEF Kill
  <2>7. /\ published' = Nothing /\ channelMap' = Nothing /\ tasks' = NoTasks
        /\ up' = FALSE /\ endpoints' = {} /\ held' = {} /\ unsaved' = FALSE
        /\ missed' = {} /\ file' = file
    BY <1>12 DEF Kill
  <2> QED
    BY <2>1, <2>2, <2>3, <2>4, <2>5, <2>6, <2>7
<1>13. ASSUME Start PROVE TypeOK'
  BY <1>13 DEF Start, pubVars, postVars
<1>14. ASSUME UNCHANGED vars PROVE TypeOK'
  BY <1>14 DEF vars, pubVars, fileVars, postVars, bounds
<1> QED
  BY <1>1, <1>2, <1>3, <1>5, <1>6, <1>7, <1>8, <1>10, <1>11, <1>12, <1>13, <1>14
     DEF Next, Task

\* The holders of the mutexes after a step of a request.
LEMMA HoldersMove ==
  ASSUME TypeOK, NEW h \in Handler, NEW x, NEW S, Moves(h, x, S)
  PROVE  \A g \in Handler :
           /\ HoldsEndpoints(g)' <=>
                IF g = h THEN \/ x = "write"
                              \/ handler[h].kind = "republish" /\ x \in {"map", "post", "send"}
                         ELSE HoldsEndpoints(g)
           /\ HoldsMap(g)' <=> IF g = h THEN x \in {"post", "send"} ELSE HoldsMap(g)
           /\ HoldsClient(g)' <=> IF g = h THEN x = "send" ELSE HoldsClient(g)
<1>1. PICK q \in Serving : Becomes(h, q) /\ q.pc = x /\ q.kind = handler[h].kind
  BY DEF Moves
<1>2. \A g \in Handler : handler'[g] = IF g = h THEN q ELSE handler[g]
  BY <1>1 DEF Becomes, TypeOK
<1>3. x # "idle"
  BY <1>1, Requests
<1> QED
  BY <1>1, <1>2, <1>3 DEF HoldsEndpoints, HoldsMap, HoldsClient, At, Is

\* A slot that gets idle, or a request that has just arrived, holds none.
LEMMA HoldersEnd ==
  ASSUME TypeOK, NEW h \in Handler, Arrives(h) \/ Ends(h)
  PROVE  \A g \in Handler :
           /\ HoldsEndpoints(g)' <=> g # h /\ HoldsEndpoints(g)
           /\ HoldsMap(g)' <=> g # h /\ HoldsMap(g)
           /\ HoldsClient(g)' <=> g # h /\ HoldsClient(g)
<1>1. PICK q : Becomes(h, q) /\ q.pc \in {"start", "idle"}
  BY Requests DEF Arrives, Ends
<1>2. \A g \in Handler : handler'[g] = IF g = h THEN q ELSE handler[g]
  BY <1>1 DEF Becomes, TypeOK
<1> QED
  BY <1>1, <1>2 DEF HoldsEndpoints, HoldsMap, HoldsClient, At, Is

\* Each mutex has at most one holder after each step, too.
LEMMA LockInvStep ==
  ASSUME TypeOK, LockInv, HandlerInv, [Next]_vars
  PROVE  LockInv'
<1>1. ASSUME UNCHANGED handler, UNCHANGED held, UNCHANGED tasks.sending
      PROVE  LockInv'
  BY <1>1 DEF LockInv, HoldsEndpoints, HoldsMap, HoldsClient, At, Is
<1>2. ASSUME NEW c \in Channel, Publish(c) \/ SpawnPosts(c) PROVE LockInv'
  BY <1>1, <1>2 DEF Publish, SpawnPosts, postVars, TypeOK
<1>3. ASSUME NEW p \in tasks.waiting, TaskPosts(p) PROVE LockInv'
  <2>1. UNCHANGED handler /\ held' = held \cup {"client"} /\ tasks'.sending = {p}
    BY <1>3 DEF TaskPosts
  <2>2. "client" \notin held
    BY <1>3 DEF TaskPosts, Free
  <2> QED
    BY <2>1, <2>2 DEF LockInv, HoldsEndpoints, HoldsMap, HoldsClient, At, Is
<1>4. ASSUME NEW p \in tasks.sending, TaskDone(p) \/ TaskFails(p) PROVE LockInv'
  <2>1. UNCHANGED handler /\ held' = held \ {"client"} /\ tasks'.sending = {}
    BY <1>4 DEF TaskDone, TaskFails, TypeOK
  <2> QED
    BY <1>4, <2>1 DEF LockInv, HoldsEndpoints, HoldsMap, HoldsClient, At, Is
<1>5. ASSUME NEW h \in Handler, Request(h) PROVE LockInv'
  <2>1. Arrives(h) /\ UNCHANGED held /\ UNCHANGED tasks
    BY <1>5, HandlerEffects DEF Request, postVars
  <2>2. ~HoldsEndpoints(h) /\ ~HoldsMap(h) /\ ~HoldsClient(h)
    BY <2>1, Requests DEF Arrives, HoldsEndpoints, HoldsMap, HoldsClient, At, Is
  <2> QED
    BY <2>1, <2>2, HoldersEnd DEF LockInv
<1>6. ASSUME NEW h \in Handler, Handle(h) PROVE LockInv'
  <2>1. CASE Insert(h)
    <3>1. Moves(h, "save", handler[h].todo) /\ UNCHANGED held /\ UNCHANGED tasks
      BY <2>1, HandlerEffects DEF Insert, postVars
    <3>2. ~HoldsEndpoints(h) /\ ~HoldsMap(h) /\ ~HoldsClient(h)
      BY <2>1 DEF Insert, HoldsEndpoints, HoldsMap, HoldsClient, At, Is
    <3> QED
      BY <3>1, <3>2, HoldersMove DEF LockInv
  <2>2. CASE Remove(h)
    <3>1. UNCHANGED held /\ UNCHANGED tasks
      BY <2>2 DEF Remove, Answer, postVars
    <3>2. ~HoldsEndpoints(h) /\ ~HoldsMap(h) /\ ~HoldsClient(h)
      BY <2>2 DEF Remove, HoldsEndpoints, HoldsMap, HoldsClient, At, Is
    <3>3. CASE Moves(h, "save", handler[h].todo)
      BY <3>1, <3>2, <3>3, HoldersMove DEF LockInv
    <3>4. CASE Ends(h)
      BY <3>1, <3>2, <3>4, HoldersEnd DEF LockInv
    <3> QED
      BY <2>2, <3>3, <3>4, HandlerEffects
  <2>3. CASE Lookup(h)
    <3>1. UNCHANGED tasks /\ "endpoints" \notin held /\ handler[h].kind = "republish"
      BY <2>3 DEF Lookup, Free, Is, postVars
    <3>2. ~HoldsEndpoints(h) /\ ~HoldsMap(h) /\ ~HoldsClient(h)
      BY <2>3 DEF Lookup, HoldsEndpoints, HoldsMap, HoldsClient, At, Is
    <3>3. CASE handler[h].ep \in endpoints
      <4>1. Moves(h, "map", handler[h].todo) /\ held' = held \cup {"endpoints"}
        BY <2>3, <3>3, HandlerEffects DEF Lookup
      <4> QED
        BY <3>1, <3>2, <4>1, HoldersMove DEF LockInv
    <3>4. CASE handler[h].ep \notin endpoints
      <4>1. Ends(h) /\ UNCHANGED held
        BY <2>3, <3>4, HandlerEffects DEF Lookup, Answer
      <4> QED
        BY <3>1, <3>2, <4>1, HoldersEnd DEF LockInv
    <3> QED
      BY <3>3, <3>4
  <2>4. CASE SaveOpens(h)
    <3>1. /\ Moves(h, "write", handler[h].todo) /\ UNCHANGED tasks
          /\ "endpoints" \notin held /\ held' = held \cup {"endpoints"}
      BY <2>4, HandlerEffects DEF SaveOpens, Free, postVars
    <3>2. ~HoldsEndpoints(h) /\ ~HoldsMap(h) /\ ~HoldsClient(h)
      BY <2>4 DEF SaveOpens, HoldsEndpoints, HoldsMap, HoldsClient, At, Is
    <3> QED
      BY <3>1, <3>2, HoldersMove DEF LockInv
  <2>5. CASE SaveWrites(h)
    <3>1. /\ UNCHANGED tasks /\ held' = held \ {"endpoints"}
          /\ HoldsEndpoints(h) /\ ~HoldsMap(h) /\ ~HoldsClient(h)
      BY <2>5 DEF SaveWrites, Answer, HoldsEndpoints, HoldsMap, HoldsClient, At, postVars
    <3>2. CASE Is(h, "register")
      <4>1. Moves(h, "map", handler[h].todo) /\ handler[h].kind # "republish"
        BY <2>5, <3>2, HandlerEffects DEF Is
      <4> QED
        BY <3>1, <4>1, HoldersMove DEF LockInv
    <3>3. CASE ~Is(h, "register")
      <4>1. Ends(h)
        BY <2>5, <3>3, HandlerEffects
      <4> QED
        BY <3>1, <4>1, HoldersEnd DEF LockInv
    <3> QED
      BY <3>2, <3>3
  <2>6. CASE LockMap(h)
    <3>1. /\ Moves(h, "post", InMap) /\ UNCHANGED tasks
          /\ "map" \notin held /\ held' = held \cup {"map"}
      BY <2>6, HandlerEffects DEF LockMap, Free, postVars
    <3>2. /\ HoldsEndpoints(h) <=> handler[h].kind = "republish"
          /\ ~HoldsMap(h) /\ ~HoldsClient(h)
      BY <2>6 DEF LockMap, HoldsEndpoints, HoldsMap, HoldsClient, At, Is
    <3> QED
      BY <3>1, <3>2, HoldersMove DEF LockInv
  <2>7. CASE LockClient(h)
    <3>1. /\ Moves(h, "send", handler[h].todo) /\ UNCHANGED tasks
          /\ "client" \notin held /\ held' = held \cup {"client"}
      BY <2>7, HandlerEffects DEF LockClient, Free, postVars
    <3>2. /\ HoldsEndpoints(h) <=> handler[h].kind = "republish"
          /\ HoldsMap(h) /\ ~HoldsClient(h)
      BY <2>7 DEF LockClient, HoldsEndpoints, HoldsMap, HoldsClient, At, Is
    <3> QED
      BY <3>1, <3>2, HoldersMove DEF LockInv
  <2>8. CASE SendDone(h)
    <3>1. PICK c : Moves(h, "post", handler[h].todo \ {c})
      BY <2>8, HandlerEffects
    <3>2. UNCHANGED tasks /\ held' = held \ {"client"}
      BY <2>8 DEF SendDone
    <3>3. /\ HoldsEndpoints(h) <=> handler[h].kind = "republish"
          /\ HoldsMap(h) /\ HoldsClient(h)
      BY <2>8 DEF SendDone, HoldsEndpoints, HoldsMap, HoldsClient, At, Is
    <3> QED
      BY <3>1, <3>2, <3>3, HoldersMove DEF LockInv
  <2>9. CASE Republished(h)
    <3>1. Ends(h) /\ UNCHANGED tasks /\ held' = held \ Held(h)
      BY <2>9, HandlerEffects DEF Republished, Answer, postVars
    <3>2. /\ HoldsEndpoints(h) <=> "endpoints" \in Held(h)
          /\ HoldsMap(h) /\ ~HoldsClient(h)
          /\ "map" \in Held(h) /\ "client" \notin Held(h)
      BY <2>9 DEF Republished, Held, HoldsEndpoints, HoldsMap, HoldsClient, At, Is
    <3> QED
      BY <3>1, <3>2, HoldersEnd DEF LockInv
  <2> QED
    BY <1>6, <2>1, <2>2, <2>3, <2>4, <2>5, <2>6, <2>7, <2>8, <2>9 DEF Handle
<1>7. ASSUME NEW h \in Handler, SaveFails(h) PROVE LockInv'
  <2> DEFINE locks == IF At(h, "write") THEN {"endpoints"} ELSE {}
  <2>1. Ends(h) /\ UNCHANGED tasks /\ held' = held \ locks
    BY <1>7, HandlerEffects DEF SaveFails, Answer
  <2>2. /\ HoldsEndpoints(h) <=> "endpoints" \in locks
        /\ ~HoldsMap(h) /\ ~HoldsClient(h)
        /\ "map" \notin locks /\ "client" \notin locks
    BY <1>7 DEF SaveFails, HoldsEndpoints, HoldsMap, HoldsClient, At, Is
  <2> HIDE DEF locks
  <2> QED
    BY <2>1, <2>2, HoldersEnd DEF LockInv
<1>8. ASSUME NEW h \in Handler, SendFails(h) PROVE LockInv'
  <2> DEFINE locks == {"client"} \cup Held(h)
  <2>1. Ends(h) /\ UNCHANGED tasks /\ held' = held \ locks
    BY <1>8, HandlerEffects DEF SendFails, Answer
  <2>2. /\ HoldsEndpoints(h) <=> "endpoints" \in locks
        /\ HoldsMap(h) /\ HoldsClient(h)
        /\ "map" \in locks /\ "client" \in locks
    BY <1>8 DEF SendFails, Held, HoldsEndpoints, HoldsMap, HoldsClient, At, Is
  <2> HIDE DEF locks
  <2> QED
    BY <2>1, <2>2, HoldersEnd DEF LockInv
<1>9. ASSUME Kill PROVE LockInv'
  <2>1. held' = {} /\ tasks'.sending = {} /\ \A h \in Handler : handler'[h] = Idle
    BY <1>9 DEF Kill, NoTasks
  <2> QED
    BY <2>1, Requests DEF LockInv, HoldsEndpoints, HoldsMap, HoldsClient, At, Is
<1>10. ASSUME Start \/ UNCHANGED vars PROVE LockInv'
  BY <1>1, <1>10 DEF Start, vars, postVars
<1> QED
  BY <1>2, <1>3, <1>4, <1>5, <1>6, <1>7, <1>8, <1>9, <1>10 DEF Next, Task

\* The other requests are as they were.
LEMMA OneMoves ==
  ASSUME TypeOK, NEW h \in Handler
  PROVE  /\ \A x, S : Moves(h, x, S) =>
              /\ handler[h] \in Serving /\ handler'[h] \in Serving
              /\ handler'[h].pc = x /\ handler'[h].todo = S
              /\ handler'[h].kind = handler[h].kind /\ handler'[h].ep = handler[h].ep
              /\ \A g \in Handler : g # h => handler'[g] = handler[g]
         /\ Arrives(h) =>
              /\ handler[h] = Idle /\ handler'[h] \in Serving
              /\ handler'[h].pc = "start" /\ handler'[h].todo = {}
              /\ \A g \in Handler : g # h => handler'[g] = handler[g]
         /\ Ends(h) =>
              /\ handler[h] \in Serving /\ handler'[h] = Idle
              /\ \A g \in Handler : g # h => handler'[g] = handler[g]
BY DEF TypeOK, Moves, Arrives, Ends, Becomes

\* Where a request is when it takes a step.
LEMMA HandlerEnabled ==
  ASSUME NEW h \in Handler
  PROVE  /\ Insert(h) => handler[h].pc = "start" /\ handler[h].kind = "register"
         /\ Remove(h) => handler[h].pc = "start" /\ handler[h].kind = "unregister"
         /\ Lookup(h) => handler[h].pc = "start" /\ handler[h].kind = "republish"
         /\ SaveOpens(h) => handler[h].pc = "save"
         /\ SaveWrites(h) => handler[h].pc = "write"
         /\ SaveFails(h) => handler[h].pc \in {"save", "write"}
         /\ LockMap(h) => handler[h].pc = "map"
         /\ LockClient(h) => handler[h].pc = "post"
         /\ SendDone(h) \/ SendFails(h) => handler[h].pc = "send"
         /\ Republished(h) => handler[h].pc = "post" /\ handler[h].todo = {}
BY DEF Insert, Remove, Lookup, SaveOpens, SaveWrites, SaveFails, LockMap, LockClient,
       SendDone, SendFails, Republished, Is, At

\* No request gets to where its kind does not go.
LEMMA HandlerInvStep ==
  ASSUME TypeOK, PublishInv, HandlerInv, [Next]_vars
  PROVE  HandlerInv'
<1>1. ASSUME UNCHANGED handler, \A c \in Channel : published[c] # 0 => published'[c] # 0
      PROVE  HandlerInv'
  <2>1. \A h \in Handler : handler[h] # Idle => handler[h].todo \subseteq Channel
    BY Requests DEF TypeOK
  <2> QED
    BY <1>1, <2>1 DEF HandlerInv
<1>2. ASSUME NEW c \in Channel, Publish(c) PROVE HandlerInv'
  <2>1. published' = [published EXCEPT ![c] = @ + 1] /\ UNCHANGED handler
    BY <1>2 DEF Publish
  <2>2. \A d \in Channel : published[d] # 0 => published'[d] # 0
    BY <2>1 DEF TypeOK
  <2> QED
    BY <1>1, <2>1, <2>2
<1>3. ASSUME \/ \E c \in Channel : SpawnPosts(c)
             \/ Task
             \/ \E p \in tasks.sending : TaskFails(p)
             \/ Start \/ UNCHANGED vars
      PROVE  HandlerInv'
  BY <1>1, <1>3 DEF SpawnPosts, Task, TaskPosts, TaskDone, TaskFails, Start, vars, pubVars
<1>4. ASSUME NEW h \in Handler, UNCHANGED pubVars,
             \/ Arrives(h) \/ Ends(h)
             \/ \E x, S : /\ Moves(h, x, S)
                          /\ handler[h].kind = "unregister" => x \in {"start", "save", "write"}
                          /\ handler[h].kind = "republish" => x \notin {"save", "write"}
                          /\ x \notin {"post", "send"} => S = {}
                          /\ \A c \in S : published[c] # 0
      PROVE  HandlerInv'
  BY <1>4, OneMoves DEF HandlerInv, pubVars
<1>5. ASSUME NEW h \in Handler, Request(h) \/ SaveFails(h) \/ SendFails(h) PROVE HandlerInv'
  BY <1>4, <1>5, HandlerEffects DEF Request, SaveFails, SendFails
<1>6. ASSUME NEW h \in Handler, Handle(h) PROVE HandlerInv'
  <2>1. UNCHANGED pubVars
    BY <1>6 DEF Handle, Insert, Remove, Lookup, SaveOpens, SaveWrites, LockMap, LockClient,
                SendDone, Republished
  <2>2. /\ handler[h].kind = "unregister" => handler[h].pc \in {"start", "save", "write"}
        /\ handler[h].kind = "republish" => handler[h].pc \notin {"save", "write"}
        /\ handler[h].pc \notin {"post", "send"} => handler[h].todo = {}
        /\ \A c \in handler[h].todo : published[c] # 0
    <3>1. handler[h].pc # "idle"
      BY <1>6, HandlerEnabled, Requests DEF Handle, TypeOK
    <3> QED
      BY <3>1, Requests DEF HandlerInv
  <2>3. ASSUME Ends(h) PROVE HandlerInv'
    BY <1>4, <2>1, <2>3
  <2>4. CASE Insert(h)
    BY <1>4, <2>1, <2>2, <2>4, HandlerEffects, HandlerEnabled
  <2>5. CASE Remove(h)
    BY <1>4, <2>1, <2>2, <2>3, <2>5, HandlerEffects, HandlerEnabled
  <2>6. CASE Lookup(h)
    BY <1>4, <2>1, <2>2, <2>3, <2>6, HandlerEffects, HandlerEnabled
  <2>7. CASE SaveOpens(h)
    BY <1>4, <2>1, <2>2, <2>7, HandlerEffects, HandlerEnabled
  <2>8. CASE SaveWrites(h)
    <3>1. CASE Is(h, "register")
      <4>1. Moves(h, "map", handler[h].todo) /\ handler[h].kind = "register"
        BY <2>8, <3>1, HandlerEffects DEF Is
      <4> QED
        BY <1>4, <2>1, <2>2, <2>8, <4>1, HandlerEnabled
    <3> QED
      BY <2>3, <2>8, <3>1, HandlerEffects
  <2>9. CASE LockMap(h)
    <3>1. \A c \in InMap : published[c] # 0
      BY DEF InMap, PublishInv
    <3> QED
      BY <1>4, <2>1, <2>2, <2>9, <3>1, HandlerEffects, HandlerEnabled
  <2>10. CASE LockClient(h)
    BY <1>4, <2>1, <2>2, <2>10, HandlerEffects, HandlerEnabled
  <2>11. CASE SendDone(h)
    <3>1. PICK c : Moves(h, "post", handler[h].todo \ {c})
      BY <2>11, HandlerEffects
    <3> QED
      BY <1>4, <2>1, <2>2, <2>11, <3>1, HandlerEnabled
  <2>12. CASE Republished(h)
    BY <2>3, <2>12, HandlerEffects
  <2> QED
    BY <1>6, <2>4, <2>5, <2>6, <2>7, <2>8, <2>9, <2>10, <2>11, <2>12 DEF Handle
<1>7. ASSUME Kill PROVE HandlerInv'
  BY <1>7 DEF Kill, HandlerInv
<1> QED
  BY <1>2, <1>3, <1>5, <1>6, <1>7 DEF Next

\* The map, what was published and what was received stay together.
LEMMA PublishInvStep ==
  ASSUME TypeOK, HandlerInv, PublishInv, [Next]_vars
  PROVE  PublishInv'
<1> USE DEF PublishInv
<1>1. ASSUME UNCHANGED pubVars, up' = up, UNCHANGED newest,
             tasks'.waiting \cup tasks'.sending \subseteq tasks.waiting \cup tasks.sending
      PROVE  PublishInv'
  BY <1>1 DEF pubVars
<1>2. ASSUME NEW c \in Channel, Publish(c) PROVE PublishInv'
  <2>1. /\ published' = [published EXCEPT ![c] = published[c] + 1]
        /\ channelMap' = published'
    BY <1>2 DEF Publish, TypeOK
  <2>2. \A d \in Channel : published[d] <= published'[d] /\ (d = c => published'[d] # 0)
    BY <2>1 DEF TypeOK
  <2>3. \A e \in Endpoint, d \in Channel : newest'[e][d] <= published'[d]
    BY <1>2, <2>1, <2>2 DEF Publish, postVars, TypeOK
  <2>4. \A p \in tasks'.waiting \cup tasks'.sending : p.val <= published'[p.ch]
    <3>1. \A p \in Post : p.val <= published[p.ch] => p.val <= published'[p.ch]
      BY <2>1, <2>2, Posts DEF TypeOK
    <3> QED
      BY <1>2, <3>1 DEF Publish, postVars, TypeOK
  <2>5. up' /\ \A d \in Channel : publisher'[d] = "spawn" => published'[d] # 0
    BY <1>2, <2>2 DEF Publish, bounds, TypeOK
  <2> QED
    BY <2>1, <2>3, <2>4, <2>5
<1>3. ASSUME NEW c \in Channel, SpawnPosts(c) PROVE PublishInv'
  <2> DEFINE new == {[ep |-> e, ch |-> c, val |-> published[c]] : e \in endpoints}
  <2>1. tasks'.waiting \cup tasks'.sending = tasks.waiting \cup tasks.sending \cup new
    BY <1>3 DEF SpawnPosts, TypeOK
  <2>2. \A p \in new : p.val <= published[p.ch]
    BY DEF TypeOK
  <2> HIDE DEF new
  <2>3. \A p \in tasks'.waiting \cup tasks'.sending : p.val <= published[p.ch]
    BY <2>1, <2>2
  <2> QED
    BY <1>3, <2>3 DEF SpawnPosts, bounds, TypeOK
<1>4. ASSUME NEW p \in tasks.waiting, TaskPosts(p) PROVE PublishInv'
  BY <1>1, <1>4 DEF TaskPosts, bounds
<1>5. ASSUME NEW e \in Endpoint, NEW c \in Channel, NEW v \in 0..MaxValue,
             Receive(e, c, v), v <= published[c]
      PROVE  \A d \in Endpoint, b \in Channel : newest'[d][b] <= published[b]
  BY <1>5 DEF Receive, TypeOK
<1>6. ASSUME NEW p \in tasks.sending, TaskDone(p) PROVE PublishInv'
  <2>1. p \in Post /\ p.val <= published[p.ch]
    BY DEF TypeOK
  <2>2. \A d \in Endpoint, b \in Channel : newest'[d][b] <= published[b]
    BY <1>5, <1>6, <2>1, Posts DEF TaskDone
  <2>3. tasks'.waiting \cup tasks'.sending \subseteq tasks.waiting \cup tasks.sending
    BY <1>6 DEF TaskDone, TypeOK
  <2> QED
    BY <1>6, <2>2, <2>3 DEF TaskDone, pubVars, bounds
<1>7. ASSUME NEW p \in tasks.sending, TaskFails(p) PROVE PublishInv'
  <2>1. tasks'.waiting \cup tasks'.sending \subseteq tasks.waiting \cup tasks.sending
    BY <1>7 DEF TaskFails, TypeOK
  <2> QED
    BY <1>1, <1>7, <2>1 DEF TaskFails
<1>8. ASSUME NEW h \in Handler, SendDone(h) PROVE PublishInv'
  <2>1. PICK c \in handler[h].todo : /\ Moves(h, "post", handler[h].todo \ {c})
                                     /\ Receive(handler[h].ep, c, channelMap[c])
    BY <1>8, HandlerEffects
  <2>2. handler[h].ep \in Endpoint /\ c \in Channel
    BY <2>1, Requests DEF Moves
  <2>3. \A d \in Endpoint, b \in Channel : newest'[d][b] <= published[b]
    BY <1>5, <2>1, <2>2 DEF TypeOK
  <2> QED
    BY <1>8, <2>3 DEF SendDone, pubVars, bounds
<1>9. ASSUME NEW h \in Handler, \/ Request(h) \/ Insert(h) \/ Remove(h) \/ Lookup(h)
                                \/ SaveOpens(h) \/ SaveWrites(h) \/ LockMap(h)
                                \/ LockClient(h) \/ Republished(h)
                                \/ SaveFails(h) \/ SendFails(h)
      PROVE  PublishInv'
  BY <1>1, <1>9 DEF Request, Insert, Remove, Lookup, SaveOpens, SaveWrites, LockMap,
                    LockClient, Republished, SaveFails, SendFails, postVars, bounds
<1>10. ASSUME Kill PROVE PublishInv'
  <2>1. /\ published' = Nothing /\ channelMap' = Nothing
        /\ \A c \in Channel : publisher'[c] = "idle"
    BY <1>10 DEF Kill
  <2>2. \A e \in Endpoint, c \in Channel : newest'[e][c] = 0 /\ Nothing[c] = 0
    BY <1>10 DEF Kill, Nothing
  <2>3. tasks'.waiting \cup tasks'.sending = {}
    BY <1>10 DEF Kill, NoTasks
  <2> QED
    BY <2>1, <2>2, <2>3
<1>11. ASSUME Start PROVE PublishInv'
  BY <1>11 DEF Start, pubVars, postVars
<1>12. ASSUME UNCHANGED vars PROVE PublishInv'
  BY <1>1, <1>12 DEF vars, postVars, bounds
<1> QED
  BY <1>2, <1>3, <1>4, <1>6, <1>7, <1>8, <1>9, <1>10, <1>11, <1>12 DEF Next, Task, Handle

-----------------------------------------------------------------------------
(* The file                                                                *)

Saving(h) == handler[h].pc \in {"save", "write"}

\* Every step that changes what is registered goes on to save it, and every save
\* writes what is registered by then.
LEMMA RegistrationsSavedStep ==
  ASSUME TypeOK, PublishInv, RegistrationsSaved, [Next]_vars
  PROVE  RegistrationsSaved'
<1> USE DEF RegistrationsSaved
<1>1. ASSUME UNCHANGED <<fileVars, up>>,
             \A h \in Handler : Saving(h) => Saving(h)'
      PROVE  RegistrationsSaved'
  BY <1>1 DEF fileVars, Saving
<1>2. ASSUME NEW h \in Handler, Saving(h)'
      PROVE  RegistrationsSaved'
  BY <1>2 DEF Saving
<1>3. ASSUME UNCHANGED handler, UNCHANGED <<fileVars, up>>
      PROVE  RegistrationsSaved'
  BY <1>1, <1>3 DEF Saving
<1>4. ASSUME \/ \E c \in Channel : Publish(c) \/ SpawnPosts(c)
             \/ Task
             \/ \E p \in tasks.sending : TaskFails(p)
             \/ UNCHANGED vars
      PROVE  RegistrationsSaved'
  BY <1>3, <1>4 DEF Publish, SpawnPosts, Task, TaskPosts, TaskDone, TaskFails, vars, bounds
<1>5. ASSUME NEW h \in Handler, UNCHANGED <<fileVars, up>>, ~Saving(h),
             Arrives(h) \/ Ends(h) \/ \E x, S : Moves(h, x, S)
      PROVE  RegistrationsSaved'
  <2>1. \A g \in Handler : g # h => handler'[g] = handler[g]
    BY <1>5, OneMoves
  <2> QED
    BY <1>1, <1>5, <2>1 DEF Saving
<1>6. ASSUME NEW h \in Handler, Request(h) PROVE RegistrationsSaved'
  <2>1. Arrives(h) /\ ~Saving(h) /\ UNCHANGED <<fileVars, up>>
    BY <1>6, HandlerEffects DEF Request, At, Saving
  <2> QED
    BY <1>5, <2>1
<1>7. ASSUME NEW h \in Handler, Insert(h) \/ SaveOpens(h) PROVE RegistrationsSaved'
  <2>1. Saving(h)'
    BY <1>7, HandlerEffects, OneMoves DEF Saving
  <2> QED
    BY <1>2, <2>1
<1>8. ASSUME NEW h \in Handler, Remove(h) PROVE RegistrationsSaved'
  <2>1. CASE handler[h].ep \in endpoints
    <3>1. Saving(h)'
      BY <1>8, <2>1, HandlerEffects, OneMoves DEF Saving
    <3> QED
      BY <1>2, <3>1
  <2>2. CASE handler[h].ep \notin endpoints
    <3>1. Ends(h) /\ ~Saving(h) /\ UNCHANGED <<fileVars, up>>
      BY <1>8, <2>2, HandlerEffects, HandlerEnabled DEF Remove, fileVars, bounds, Saving
    <3> QED
      BY <1>5, <3>1
  <2> QED
    BY <2>1, <2>2
<1>9. ASSUME NEW h \in Handler, SaveWrites(h) PROVE RegistrationsSaved'
  BY <1>9 DEF SaveWrites
<1>10. ASSUME NEW h \in Handler, SaveFails(h) PROVE RegistrationsSaved'
  BY <1>10 DEF SaveFails
<1>11. ASSUME NEW h \in Handler, \/ Lookup(h) \/ LockMap(h) \/ LockClient(h)
                                 \/ SendDone(h) \/ Republished(h) \/ SendFails(h)
      PROVE  RegistrationsSaved'
  <2>1. ~Saving(h)
    BY <1>11, HandlerEnabled DEF Saving
  <2>2. UNCHANGED <<fileVars, up>>
    BY <1>11 DEF Lookup, LockMap, LockClient, SendDone, Republished, SendFails, bounds
  <2>3. Ends(h) \/ \E x, S : Moves(h, x, S)
    BY <1>11, HandlerEffects
  <2> QED
    BY <1>5, <2>1, <2>2, <2>3
<1>12. ASSUME Kill PROVE RegistrationsSaved'
  BY <1>12 DEF Kill
<1>13. ASSUME Start PROVE RegistrationsSaved'
  <2>1. file' = [parses |-> TRUE, eps |-> endpoints']
    BY <1>13 DEF Start, TypeOK
  <2> QED
    BY <2>1
<1> QED
  BY <1>4, <1>6, <1>7, <1>8, <1>9, <1>10, <1>11, <1>12, <1>13 DEF Next, Handle

-----------------------------------------------------------------------------
(* The values the endpoints receive                                        *)

Newest(e, c) == [ep |-> e, ch |-> c, val |-> published[c]]

\* The posts that are made or failed.
Spawned == tasks.waiting \cup tasks.sending \cup missed

\* Endpoint e has received the newest value, a post of it is on its way or failed.
Posted(e, c) == newest[e][c] = published[c] \/ Newest(e, c) \in Spawned

\* The registration of e is going to post the value.
Pending(h, e, c) ==
  /\ Is(h, "register") /\ handler[h].ep = e
  /\ handler[h].pc \in {"save", "write", "map"} \/ c \in handler[h].todo

\* What NothingMissed says of one endpoint and one channel.
Reaches(e, c) == Posted(e, c) \/ \E h \in Handler : Pending(h, e, c)

Reached == \A e \in endpoints, c \in Channel :
             publisher[c] = "idle" /\ published[c] # 0 => Reaches(e, c)

\* A registration goes on to post what it has to, as long as it goes on.
LEMMA PendingKept ==
  ASSUME TypeOK, NEW h \in Handler
  PROVE  /\ \A e, c : \A g \in Handler :
              (Arrives(h) \/ Ends(h) \/ \E x, S : Moves(h, x, S)) /\ g # h /\ Pending(g, e, c)
                => Pending(g, e, c)'
         /\ \A e, c, x, S :
              Moves(h, x, S) /\ Pending(h, e, c) /\ (x \in {"save", "write", "map"} \/ c \in S)
                => Pending(h, e, c)'
         /\ \A e, c : Arrives(h) => ~Pending(h, e, c)
<1>1. handler[h] = Idle => At(h, "idle")
  BY Requests DEF At
<1>2. handler'[h] \in Serving => ~At(h, "idle")'
  BY Requests DEF At
<1> QED
  BY <1>1, <1>2, OneMoves DEF Pending, Is, At

\* What is spawned, sent or noted as failed stays so, or is received.
LEMMA PostedKept ==
  ASSUME UNCHANGED <<published, newest>>, Spawned \subseteq Spawned'
  PROVE  \A e, c : Posted(e, c) => Posted(e, c)'
BY DEF Posted, Newest

\* A step that spawns the newest value of c for e, or notes it as failed.
Told(e, c) == Newest(e, c) \in Spawned'

\* Then the value has reached the endpoint in the sense of NothingMissed.
LEMMA ToldReaches ==
  ASSUME UNCHANGED published
  PROVE  \A e, c : Told(e, c) => Reaches(e, c)'
BY DEF Told, Reaches, Posted, Newest

\* A post that is received leaves no endpoint with an older value.
LEMMA PostedReceived ==
  ASSUME TypeOK, PublishInv, UNCHANGED published,
         NEW e \in Endpoint, NEW c \in Channel, NEW v \in 0..MaxValue, v <= published[c],
         Receive(e, c, v),
         Spawned \subseteq Spawned' \cup {[ep |-> e, ch |-> c, val |-> v]}
  PROVE  \A d \in Endpoint, b \in Channel :
           Posted(d, b) \/ (d = e /\ b = c /\ v = published[c]) => Posted(d, b)'
<1> SUFFICES ASSUME NEW d \in Endpoint, NEW b \in Channel,
                    Posted(d, b) \/ (d = e /\ b = c /\ v = published[c])
             PROVE  Posted(d, b)'
  OBVIOUS
<1>1. newest[d][b] \in Nat /\ newest[d][b] <= published[b] /\ published[b] \in Nat /\ v \in Nat
  BY DEF TypeOK, PublishInv
<1>2. newest'[d][b] = IF d = e /\ b = c /\ v > newest[d][b] THEN v ELSE newest[d][b]
  BY DEF Receive, TypeOK
<1>3. CASE newest[d][b] = published[b] \/ (d = e /\ b = c /\ v = published[c])
  <2>1. newest'[d][b] = published[b]
    BY <1>1, <1>2, <1>3
  <2> QED
    BY <2>1 DEF Posted
<1>4. CASE Newest(d, b) \in Spawned'
  BY <1>4 DEF Posted, Newest
<1>5. CASE Newest(d, b) = [ep |-> e, ch |-> c, val |-> v]
  <2>1. d = e /\ b = c /\ v = published[c]
    BY <1>5 DEF Newest
  <2> QED
    BY <1>3, <2>1
<1> QED
  BY <1>3, <1>4, <1>5 DEF Posted

\* No step leaves a registered endpoint without a value.
LEMMA NothingMissedStep ==
  ASSUME TypeOK, LockInv, HandlerInv, PublishInv, NothingMissed, [Next]_vars
  PROVE  NothingMissed'
<1>1. Reached /\ (Reached' => NothingMissed')
  BY DEF NothingMissed, Reached, Reaches, Posted, Pending, Newest, Spawned
<1>2. ASSUME UNCHANGED <<published, publisher>>, endpoints' \subseteq endpoints,
             \A e \in endpoints, c \in Channel :
               published[c] # 0 /\ Reaches(e, c) => Reaches(e, c)'
      PROVE  NothingMissed'
  BY <1>1, <1>2 DEF Reached
<1>3. ASSUME UNCHANGED handler
      PROVE  \A h \in Handler : \A e, c : Pending(h, e, c) => Pending(h, e, c)'
  BY <1>3 DEF Pending, Is, At
<1>4. ASSUME NEW c \in Channel, Publish(c) PROVE NothingMissed'
  <2>1. /\ \A d \in Channel : d # c => publisher'[d] = publisher[d] /\ published'[d] = published[d]
        /\ publisher'[c] = "spawn" /\ UNCHANGED <<endpoints, handler, newest, tasks, missed>>
    BY <1>4 DEF Publish, fileVars, postVars, TypeOK
  <2>2. \A e \in endpoints, d \in Channel : d # c /\ Reaches(e, d) => Reaches(e, d)'
    BY <1>3, <2>1 DEF Reaches, Posted, Newest, Spawned
  <2>3. Reached'
    BY <1>1, <2>1, <2>2 DEF Reached
  <2> QED
    BY <1>1, <2>3
<1>5. ASSUME NEW c \in Channel, SpawnPosts(c) PROVE NothingMissed'
  <2>1. Spawned' = Spawned \cup {Newest(e, c) : e \in endpoints}
    BY <1>5 DEF SpawnPosts, TypeOK, Spawned, Newest
  <2>2. /\ UNCHANGED <<published, newest, endpoints, handler>>
        /\ \A d \in Channel : d # c => publisher'[d] = publisher[d]
    BY <1>5 DEF SpawnPosts, TypeOK, fileVars
  <2>3. \A e \in endpoints, d \in Channel : Reaches(e, d) => Reaches(e, d)'
    BY <1>3, <2>1, <2>2, PostedKept DEF Reaches
  <2>4. \A e \in endpoints : Reaches(e, c)'
    BY <2>1, <2>2 DEF Reaches, Posted, Newest
  <2>5. Reached'
    BY <1>1, <2>2, <2>3, <2>4 DEF Reached
  <2> QED
    BY <1>1, <2>5
<1>6. ASSUME NEW p \in tasks.waiting, TaskPosts(p) PROVE NothingMissed'
  <2>1. tasks.sending = {}
    BY <1>6 DEF TaskPosts, Free, LockInv
  <2>2. Spawned' = Spawned
    BY <1>6, <2>1 DEF TaskPosts, Spawned
  <2>3. UNCHANGED <<published, publisher, newest, endpoints, handler>>
    BY <1>6 DEF TaskPosts, pubVars, fileVars
  <2> QED
    BY <1>2, <1>3, <2>2, <2>3, PostedKept DEF Reaches
<1>7. ASSUME NEW p \in tasks.sending, TaskDone(p) PROVE NothingMissed'
  <2>1. p \in Post /\ p.val <= published[p.ch]
    BY DEF TypeOK, PublishInv
  <2>2. Spawned \subseteq Spawned' \cup {[ep |-> p.ep, ch |-> p.ch, val |-> p.val]}
    <3>1. tasks.sending = {p}
      BY DEF LockInv
    <3>2. p = [ep |-> p.ep, ch |-> p.ch, val |-> p.val]
      BY <2>1 DEF Post
    <3>3. tasks'.waiting = tasks.waiting /\ missed' = missed
      BY <1>7 DEF TaskDone, TypeOK
    <3> QED
      BY <3>1, <3>2, <3>3 DEF Spawned
  <2>3. UNCHANGED <<published, publisher, endpoints, handler>>
    BY <1>7 DEF TaskDone, pubVars, fileVars
  <2>4. \A e \in endpoints, c \in Channel : Posted(e, c) => Posted(e, c)'
    <3>1. p.ep \in Endpoint /\ p.ch \in Channel /\ p.val \in 0..MaxValue
      BY <2>1, Posts
    <3>2. Receive(p.ep, p.ch, p.val)
      BY <1>7 DEF TaskDone
    <3>3. \A e \in Endpoint, c \in Channel : Posted(e, c) => Posted(e, c)'
      BY <2>1, <2>2, <2>3, <3>1, <3>2, PostedReceived
    <3> QED
      BY <3>3 DEF TypeOK
  <2> QED
    BY <1>2, <1>3, <2>3, <2>4 DEF Reaches
<1>8. ASSUME NEW p \in tasks.sending, TaskFails(p) PROVE NothingMissed'
  <2>1. tasks.sending = {p}
    BY DEF LockInv
  <2>2. Spawned' = Spawned
    BY <1>8, <2>1 DEF TaskFails, Spawned, TypeOK
  <2>3. UNCHANGED <<published, publisher, newest, endpoints, handler>>
    BY <1>8 DEF TaskFails, pubVars, fileVars
  <2> QED
    BY <1>2, <1>3, <2>2, <2>3, PostedKept DEF Reaches
<1>9. ASSUME NEW h \in Handler, UNCHANGED <<published, publisher, newest, endpoints>>,
             Spawned \subseteq Spawned',
             Arrives(h) \/ Ends(h) \/ \E x, S : Moves(h, x, S),
             \A e \in endpoints, c \in Channel :
               published[c] # 0 /\ Pending(h, e, c) => Reaches(e, c)'
      PROVE  NothingMissed'
  <2>1. \A e, c : \A g \in Handler : g # h /\ Pending(g, e, c) => Pending(g, e, c)'
    BY <1>9, PendingKept
  <2> QED
    BY <1>2, <1>9, <2>1, PostedKept DEF Reaches
<1>10. ASSUME NEW h \in Handler, Request(h) PROVE NothingMissed'
  <2>1. Arrives(h) /\ UNCHANGED <<published, publisher, newest, endpoints, tasks, missed>>
    BY <1>10, HandlerEffects DEF Request, pubVars, fileVars, postVars
  <2> QED
    BY <1>9, <2>1, PendingKept DEF Spawned
<1>11. ASSUME NEW h \in Handler, Handle(h) PROVE NothingMissed'
  <2>1. UNCHANGED <<published, publisher, missed, tasks>>
    BY <1>11 DEF Handle, Insert, Remove, Lookup, SaveOpens, SaveWrites, LockMap, LockClient,
                 SendDone, Republished, pubVars, postVars
  <2>2. Spawned' = Spawned
    BY <2>1 DEF Spawned
  <2>3. ASSUME UNCHANGED <<newest, endpoints>>, handler[h].kind # "register",
               Ends(h) \/ \E x, S : Moves(h, x, S)
        PROVE  NothingMissed'
    BY <1>9, <2>1, <2>2, <2>3 DEF Pending, Is
  <2>4. ASSUME UNCHANGED <<newest, endpoints>>, NEW x, NEW S, Moves(h, x, S),
               \/ x \in {"save", "write", "map"}
               \/ \A c \in Channel : published[c] # 0 => c \in S
               \/ handler[h].todo \subseteq S /\ handler[h].pc \notin {"save", "write", "map"}
        PROVE  NothingMissed'
    <3>1. \A e \in endpoints, c \in Channel :
            published[c] # 0 /\ Pending(h, e, c) => Pending(h, e, c)'
      <4>1. \A e, c : published[c] # 0 /\ c \in Channel /\ Pending(h, e, c)
                        => x \in {"save", "write", "map"} \/ c \in S
        BY <2>4 DEF Pending
      <4> QED
        BY <2>4, <4>1, PendingKept
    <3> QED
      BY <1>9, <2>1, <2>2, <2>4, <3>1 DEF Reaches
  <2>5. CASE Insert(h)
    <3>1. Moves(h, "save", handler[h].todo) /\ Is(h, "register")
      BY <2>5, HandlerEffects DEF Insert
    <3>2. /\ UNCHANGED newest
          /\ endpoints' = endpoints \cup {handler[h].ep}
      BY <2>5 DEF Insert, postVars
    <3>3. \A g \in Handler : \A e, c : Pending(g, e, c) => Pending(g, e, c)'
      BY <3>1, PendingKept
    <3>4. \A e, c : e = handler[h].ep => Pending(h, e, c)'
      BY <3>1, OneMoves, Requests DEF Pending, Is, At
    <3>5. \A e, c : Reaches(e, c) => Reaches(e, c)'
      BY <2>1, <2>2, <3>2, <3>3, PostedKept DEF Reaches
    <3>6. ASSUME NEW e \in endpoints', NEW c \in Channel, (publisher[c] = "idle")',
                 (published[c] # 0)'
          PROVE  Reaches(e, c)'
      <4>1. CASE e \in endpoints
        BY <1>1, <2>1, <3>5, <3>6, <4>1 DEF Reached
      <4>2. CASE e = handler[h].ep
        BY <3>4, <4>2 DEF Reaches
      <4> QED
        BY <3>2, <4>1, <4>2
    <3>7. Reached'
      BY <3>6 DEF Reached
    <3> QED
      BY <1>1, <3>7
  <2>6. CASE Remove(h)
    <3>1. handler[h].kind # "register" /\ (Ends(h) \/ \E x, S : Moves(h, x, S))
      BY <2>6, HandlerEffects, HandlerEnabled
    <3>2. UNCHANGED newest /\ endpoints' \subseteq endpoints
      BY <2>6 DEF Remove, postVars
    <3>3. \A g \in Handler : \A e, c : Pending(g, e, c) => Pending(g, e, c)'
      BY <3>1, PendingKept DEF Pending, Is
    <3> QED
      BY <1>2, <2>1, <2>2, <3>2, <3>3, PostedKept DEF Reaches
  <2>7. CASE Lookup(h)
    <3>1. handler[h].kind # "register" /\ (Ends(h) \/ \E x, S : Moves(h, x, S))
      BY <2>7, HandlerEffects, HandlerEnabled
    <3> QED
      BY <2>3, <2>7, <3>1 DEF Lookup, fileVars, postVars
  <2>8. CASE SaveOpens(h)
    BY <2>4, <2>8, HandlerEffects DEF SaveOpens, postVars
  <2>9. CASE SaveWrites(h)
    <3>1. UNCHANGED <<newest, endpoints>>
      BY <2>9 DEF SaveWrites, postVars
    <3>2. CASE Is(h, "register")
      BY <2>4, <2>9, <3>1, <3>2, HandlerEffects
    <3>3. CASE ~Is(h, "register")
      BY <1>9, <2>1, <2>2, <2>9, <3>1, <3>3, HandlerEffects DEF Pending
    <3> QED
      BY <3>2, <3>3
  <2>10. CASE LockMap(h)
    <3>1. \A c \in Channel : published[c] # 0 => c \in InMap
      BY DEF InMap, PublishInv
    <3> QED
      BY <2>4, <2>10, <3>1, HandlerEffects DEF LockMap, fileVars, postVars
  <2>11. CASE LockClient(h)
    <3>1. Moves(h, "send", handler[h].todo) /\ handler[h].pc = "post"
      BY <2>11, HandlerEffects, HandlerEnabled
    <3> QED
      BY <2>4, <2>11, <3>1 DEF LockClient, fileVars, postVars
  <2>12. CASE Republished(h)
    <3>1. Ends(h) /\ \A e, c : ~Pending(h, e, c)
      BY <2>12, HandlerEffects, HandlerEnabled DEF Pending
    <3> QED
      BY <1>9, <2>1, <2>2, <2>12, <3>1 DEF Republished, fileVars, postVars
  <2>13. CASE SendDone(h)
    <3>1. PICK c \in handler[h].todo : /\ Moves(h, "post", handler[h].todo \ {c})
                                       /\ Receive(handler[h].ep, c, channelMap[c])
      BY <2>13, HandlerEffects
    <3>2. handler[h].ep \in Endpoint /\ c \in Channel /\ handler[h].pc = "send"
      BY <2>13, <3>1, HandlerEnabled, Requests DEF Moves
    <3>3. channelMap[c] = published[c] /\ channelMap[c] \in 0..MaxValue
      BY <3>2 DEF PublishInv, TypeOK
    <3>4. \A d \in Endpoint, b \in Channel :
            Posted(d, b) \/ (d = handler[h].ep /\ b = c) => Posted(d, b)'
      <4>1. channelMap[c] <= published[c]
        BY <3>2, <3>3
      <4> QED
        BY <2>1, <2>2, <3>1, <3>2, <3>3, <4>1, PostedReceived
    <3>5. UNCHANGED endpoints
      BY <2>13 DEF SendDone, fileVars
    <3>6. \A e, b : Pending(h, e, b) => (e = handler[h].ep /\ b = c) \/ Pending(h, e, b)'
      <4>1. \A e, b : Pending(h, e, b) =>
              e = handler[h].ep /\ (b = c \/ b \in handler[h].todo \ {c})
        BY <3>2 DEF Pending
      <4> QED
        BY <3>1, <4>1, PendingKept
    <3>7. \A e, b : \A g \in Handler : g # h /\ Pending(g, e, b) => Pending(g, e, b)'
      BY <3>1, PendingKept
    <3>8. endpoints \subseteq Endpoint
      BY DEF TypeOK
    <3> QED
      BY <1>2, <2>1, <3>4, <3>5, <3>6, <3>7, <3>8 DEF Reaches
  <2> QED
    BY <1>11, <2>5, <2>6, <2>7, <2>8, <2>9, <2>10, <2>11, <2>12, <2>13 DEF Handle
<1>12. ASSUME NEW h \in Handler, NEW C, Missed(h, C), UNCHANGED <<pubVars, tasks, newest>>
       PROVE  /\ Spawned \subseteq Spawned'
              /\ \A c \in C \cap Channel : Told(handler[h].ep, c)
  <2>1. missed' = missed \cup {[ep |-> handler[h].ep, ch |-> c, val |-> channelMap[c]] : c \in C}
    BY <1>12 DEF Missed
  <2>2. \A c \in C \cap Channel : Newest(handler[h].ep, c) \in missed'
    BY <2>1 DEF Newest, PublishInv
  <2>3. Spawned \subseteq Spawned'
    BY <1>12, <2>1 DEF Spawned
  <2>4. \A c \in C \cap Channel : (Newest(handler[h].ep, c) \in missed')
                                  => Newest(handler[h].ep, c) \in Spawned'
    BY DEF Spawned
  <2>5. ASSUME NEW c \in C \cap Channel
        PROVE  Told(handler[h].ep, c)
    <3>1. Newest(handler[h].ep, c) \in Spawned'
      BY <2>2, <2>4
    <3> QED
      BY <3>1 DEF Told
  <2> QED
    BY <2>3, <2>5
<1>13. ASSUME NEW h \in Handler, SaveFails(h) PROVE NothingMissed'
  <2>1. Ends(h) /\ UNCHANGED <<published, publisher, newest, endpoints, tasks>>
    BY <1>13, HandlerEffects DEF SaveFails, pubVars
  <2>2. CASE Is(h, "register")
    <3>1. Missed(h, InMap) /\ UNCHANGED <<pubVars, tasks, newest>>
      BY <1>13, <2>2 DEF SaveFails
    <3>2. \A c \in Channel : published[c] # 0 => c \in InMap
      BY DEF InMap, PublishInv
    <3>3. /\ Spawned \subseteq Spawned'
          /\ \A c \in Channel : published[c] # 0 => Told(handler[h].ep, c)
      BY <1>12, <3>1, <3>2
    <3>4. \A e \in endpoints, c \in Channel :
            published[c] # 0 /\ Pending(h, e, c) => Reaches(e, c)'
      BY <2>1, <3>3, ToldReaches DEF Pending
    <3> QED
      BY <1>9, <2>1, <3>3, <3>4
  <2>3. CASE ~Is(h, "register")
    <3>1. UNCHANGED missed
      BY <1>13, <2>3 DEF SaveFails
    <3> QED
      BY <1>9, <2>1, <2>3, <3>1 DEF Pending, Spawned
  <2> QED
    BY <2>2, <2>3
<1>14. ASSUME NEW h \in Handler, SendFails(h) PROVE NothingMissed'
  <2>1. /\ Ends(h) /\ UNCHANGED <<published, publisher, newest, endpoints, tasks>>
        /\ Missed(h, handler[h].todo) /\ UNCHANGED <<pubVars, tasks, newest>>
        /\ handler[h].pc = "send"
    BY <1>14, HandlerEffects, HandlerEnabled DEF SendFails, pubVars, fileVars
  <2>2. /\ Spawned \subseteq Spawned'
        /\ \A c \in handler[h].todo \cap Channel : Told(handler[h].ep, c)
    BY <1>12, <2>1
  <2>3. \A e \in endpoints, c \in Channel :
          published[c] # 0 /\ Pending(h, e, c) => Reaches(e, c)'
    BY <2>1, <2>2, ToldReaches DEF Pending
  <2> QED
    BY <1>9, <2>1, <2>2, <2>3
<1>15. ASSUME Kill PROVE NothingMissed'
  BY <1>15 DEF Kill, NothingMissed
<1>16. ASSUME Start PROVE NothingMissed'
  <2>1. \A c \in Channel : published'[c] = 0
    BY <1>16 DEF Start, pubVars, PublishInv, Nothing
  <2> QED
    BY <2>1 DEF NothingMissed
<1>17. ASSUME UNCHANGED vars PROVE NothingMissed'
  <2>1. UNCHANGED <<published, publisher, newest, endpoints, handler, tasks, missed>>
    BY <1>17 DEF vars, pubVars, fileVars, postVars
  <2> QED
    BY <1>2, <1>3, <2>1, PostedKept DEF Reaches, Spawned
<1> QED
  BY <1>4, <1>5, <1>6, <1>7, <1>8, <1>10, <1>11, <1>13, <1>14, <1>15, <1>16, <1>17
     DEF Next, Task

-----------------------------------------------------------------------------
(* The theorems                                                            *)

\* IInv holds when the process has just been started for the first time.
LEMMA InitIInv == Init => IInv
<1> SUFFICES ASSUME Init PROVE IInv
  OBVIOUS
<1>1. Nothing \in [Channel -> 0..MaxValue] /\ \A c \in Channel : Nothing[c] = 0
  BY DEF Nothing
<1>2. NoTasks \in [waiting : SUBSET Post, sending : SUBSET Post]
      /\ NoTasks.waiting = {} /\ NoTasks.sending = {}
  BY DEF NoTasks
<1>3. \A h \in Handler : handler[h] = Idle /\ handler[h].pc = "idle"
  BY Requests DEF Init
<1>4. TypeOK
  <2>1. /\ published = Nothing /\ channelMap = Nothing /\ tasks = NoTasks
        /\ endpoints = {} /\ unsaved = FALSE /\ held = {} /\ missed = {}
        /\ up = TRUE
    BY DEF Init
  <2>2. /\ publisher \in [Channel -> {"idle", "spawn"}]
        /\ newest \in [Endpoint -> [Channel -> 0..MaxValue]]
    BY <1>1 DEF Init
  <2>3. handler \in [Handler -> {Idle} \cup Serving]
    BY DEF Init
  <2>4. file \in [parses : BOOLEAN, eps : SUBSET Endpoint]
    BY DEF Init
  <2>5. requests \in 0..MaxRequests /\ faults \in 0..MaxFaults
    BY DEF Init
  <2> QED
    BY <1>1, <1>2, <2>1, <2>2, <2>3, <2>4, <2>5 DEF TypeOK
<1>5. LockInv
  BY <1>2, <1>3 DEF Init, LockInv, HoldsEndpoints, HoldsMap, HoldsClient, At, Is
<1>6. HandlerInv
  BY <1>3 DEF HandlerInv
<1>7. PublishInv
  BY <1>1, <1>2 DEF Init, PublishInv
<1>8. RegistrationsSaved /\ NothingMissed
  BY DEF Init, RegistrationsSaved, NothingMissed
<1> QED
  BY <1>4, <1>5, <1>6, <1>7, <1>8 DEF IInv

\* The inductive invariant: the types, who holds which mutex, how far a request
\* can be, what was published, and the two properties themselves.
THEOREM Invariance == Spec => []IInv
<1>1. IInv /\ [Next]_vars => IInv'
  BY TypeOKStep, LockInvStep, HandlerInvStep, PublishInvStep, RegistrationsSavedStep,
     NothingMissedStep DEF IInv
<1> QED
  BY InitIInv, <1>1, PTL DEF Spec

\* The variables have their types in every reachable state.
THEOREM TypeCorrect == Spec => []TypeOK
BY Invariance, PTL DEF IInv

\* Each of the mutexes that register, unregister, republish and the posts hold
\* across an await is held by one of them at a time, and by nobody when it is free.
THEOREM OneHolder == Spec => []LockInv
BY Invariance, PTL DEF IInv

\* register_publish_endpoint, unregister_publish_endpoint and
\* save_publish_endpoints, which lock the endpoints one after the other: with no
\* save under way the file is what is registered, unless a save failed.
THEOREM RegistrationsAreSaved == Spec => []RegistrationsSaved
BY Invariance, PTL DEF IInv

\* publish, republish_to_endpoint and publish_to_endpoint: the newest value of
\* each channel reaches every registered endpoint, or its post failed.
THEOREM NothingIsMissed == Spec => []NothingMissed
BY Invariance, PTL DEF IInv
=============================================================================
