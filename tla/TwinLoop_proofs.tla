--------------------------- MODULE TwinLoop_proofs ---------------------------
(***************************************************************************)
(* Proofs about TwinLoop, for every capacity of the channels, every set    *)
(* of callers and every number of changes: type correctness, that the      *)
(* loop, what it publishes and what the update validation was told agree,  *)
(* that an authenticated twin has nothing left to report, and that the     *)
(* loop is one of TwinConnection.                                          *)
(***************************************************************************)
EXTENDS TwinLoop, TLAPS

\* What the handlers have still to do, from their first step to their last.
Connect == <<Report, Connected, Validate(TRUE), Publish(TRUE)>>
ConnectReported == <<Connected, Validate(TRUE), Publish(TRUE)>>
Tell(authenticated) == <<Validate(authenticated), Publish(authenticated)>>
TellReset == <<Validate(FALSE), Publish(FALSE), Reset>>
ToldReset == <<Publish(FALSE), Reset>>
ConnectFailed == <<Validate(FALSE), Reset>>
Finish(c, reboot) == [op |-> "finish", caller |-> c, reboot |-> reboot]

Authenticated == state = "Authenticated"

\* There is a client, or the future that creates one has not completed yet.
ClientReady == client \/ created = "pending"

\* What holds between two handlers.
Settled ==
  /\ ClientReady /\ (Authenticated => client /\ connected)
  /\ Authenticated => online = TRUE /\ LastTold(TRUE)
  /\ ~Authenticated => online = FALSE /\ LastTold(FALSE)

\* How far the handler is, and what holds there.
Idling == todo = <<>> /\ Settled /\ (Authenticated => Reported)

Finishing ==
  \E c \in Callers \cup {Nobody}, reboot \in BOOLEAN :
    /\ Settled
    /\ \/ todo = <<Report, Finish(c, reboot)>> /\ connected
       \/ todo = <<Finish(c, reboot)>> /\ (Authenticated => Reported)

Authenticating ==
  /\ client /\ connected
  /\ \/ todo = Connect
     \/ todo = ConnectReported /\ Reported
     \/ todo = Tell(TRUE) /\ Authenticated /\ Reported
     \/ todo = <<Publish(TRUE)>> /\ Authenticated /\ Reported /\ LastTold(TRUE)

Losing ==
  /\ ~Authenticated
  /\ \/ todo = Tell(FALSE) /\ ClientReady
     \/ todo = <<Publish(FALSE)>> /\ ClientReady /\ LastTold(FALSE)
     \/ todo = TellReset
     \/ todo = ToldReset /\ LastTold(FALSE)
     \/ todo = ConnectFailed /\ ~online
     \/ todo = <<Reset>> /\ ~online /\ LastTold(FALSE)

HandlerInv == Idling \/ Finishing \/ Authenticating \/ Losing

IInv == TypeOK /\ HandlerInv

-----------------------------------------------------------------------------
USE CapacityAssumption

\* The steps that the handlers are made of.
LEMMA Ops ==
  /\ Report \in Op /\ Report.op = "report"
  /\ Connected \in Op /\ Connected.op = "connected"
  /\ Reset \in Op /\ Reset.op = "reset"
  /\ \A a \in BOOLEAN :
       /\ Validate(a) \in Op /\ Validate(a).op = "validate" /\ Validate(a).authenticated = a
       /\ Publish(a) \in Op /\ Publish(a).op = "publish" /\ Publish(a).authenticated = a
  /\ \A c \in Callers \cup {Nobody}, reboot \in BOOLEAN :
       /\ Finish(c, reboot) \in Op /\ Finish(c, reboot).op = "finish"
       /\ Finish(c, reboot).caller = c /\ Finish(c, reboot).reboot = reboot
BY DEF Op, Report, Connected, Reset, Validate, Publish, Finish

\* Requests other than those for the validation have no answer for it.
LEMMA Requests ==
  /\ \A r \in Request :
       /\ r.kind = "validate" => r.authenticated \in BOOLEAN
       /\ r.kind # "validate" => r.kind \in Kind /\ r.caller \in Callers \cup {Nobody}
  /\ \A k \in Kind, c \in Callers \cup {Nobody} :
       [kind |-> k, caller |-> c] \in Request /\ k # "validate"
  /\ \A a \in BOOLEAN : [kind |-> "validate", authenticated |-> a] \in Request
BY DEF Request, Kind

\* A channel and one message more or less.
LEMMA Channels ==
  ASSUME NEW S, NEW channel, IsChannel(channel, S)
  PROVE  /\ \A x \in S : ~Full(channel) => IsChannel(Append(channel, x), S)
         /\ channel # <<>> => /\ Head(channel) \in S /\ IsChannel(Tail(channel), S)
                              /\ channel[Len(channel)] \in S
         /\ IsChannel(<<>>, S)
BY DEF IsChannel, Full

\* Short sequences, joined.
LEMMA Joined ==
  /\ \A a, b, c, d : <<a, b>> \o <<c, d>> = <<a, b, c, d>>
  /\ \A a, b, c : <<a, b>> \o <<c>> = <<a, b, c>>
  /\ \A a, b : <<a>> \o <<b>> = <<a, b>>
<1>1. ASSUME NEW a, NEW b, NEW c, NEW d
      PROVE  <<a, b>> \o <<c, d>> = <<a, b, c, d>>
  <2> DEFINE x == <<a, b>> \o <<c, d>>
  <2>1. /\ Len(x) = 4 /\ x[1] = a /\ x[2] = b /\ x[3] = c /\ x[4] = d
        /\ x = [i \in 1..4 |-> x[i]]
    OBVIOUS
  <2> HIDE DEF x
  <2>2. x = <<a, b, c, d>>
    BY <2>1
  <2> QED
    BY <2>2 DEF x
<1>2. ASSUME NEW a, NEW b, NEW c
      PROVE  <<a, b>> \o <<c>> = <<a, b, c>>
  <2> DEFINE x == <<a, b>> \o <<c>>
  <2>1. Len(x) = 3 /\ x[1] = a /\ x[2] = b /\ x[3] = c /\ x = [i \in 1..3 |-> x[i]]
    OBVIOUS
  <2> HIDE DEF x
  <2>2. x = <<a, b, c>>
    BY <2>1
  <2> QED
    BY <2>2 DEF x
<1>3. ASSUME NEW a, NEW b
      PROVE  <<a>> \o <<b>> = <<a, b>>
  <2> DEFINE x == <<a>> \o <<b>>
  <2>1. Len(x) = 2 /\ x[1] = a /\ x[2] = b /\ x = [i \in 1..2 |-> x[i]]
    OBVIOUS
  <2> HIDE DEF x
  <2>2. x = <<a, b>>
    BY <2>1
  <2> QED
    BY <2>2 DEF x
<1> QED
  BY <1>1, <1>2, <1>3

\* Short sequences have the type of their elements.
LEMMA Tuples ==
  ASSUME NEW S
  PROVE  /\ \A a \in S : <<a>> \in Seq(S)
         /\ \A a, b \in S : <<a, b>> \in Seq(S)
         /\ \A a, b, c \in S : <<a, b, c>> \in Seq(S)
         /\ \A a, b, c, d \in S : <<a, b, c, d>> \in Seq(S)
OBVIOUS

\* The first element of a short sequence, and what is left without it.
LEMMA HeadsAndTails ==
  /\ \A a : <<a>> # <<>> /\ Head(<<a>>) = a /\ Tail(<<a>>) = <<>>
  /\ \A a, b : <<a, b>> # <<>> /\ Head(<<a, b>>) = a /\ Tail(<<a, b>>) = <<b>>
OBVIOUS

\* The same for three elements.
LEMMA HeadAndTail3 ==
  ASSUME NEW a, NEW b, NEW c
  PROVE  <<a, b, c>> # <<>> /\ Head(<<a, b, c>>) = a /\ Tail(<<a, b, c>>) = <<b, c>>
OBVIOUS

\* The same for four elements.
LEMMA HeadAndTail4 ==
  ASSUME NEW a, NEW b, NEW c, NEW d
  PROVE  /\ <<a, b, c, d>> # <<>> /\ Head(<<a, b, c, d>>) = a
         /\ Tail(<<a, b, c, d>>) = <<b, c, d>>
OBVIOUS

\* What the handlers start with.
LEMMA Starts ==
  /\ \A kind \in Kind : \A c :
       Execute(kind, c) =>
         todo' = IF kind = "change" /\ connected THEN <<Report, Finish(c, kind = "reboot")>>
                                                 ELSE <<Finish(c, kind = "reboot")>>
  /\ StatusAuthenticated => todo' = IF Connects THEN Connect ELSE Tell(TRUE)
  /\ StatusUnauthenticated =>
       todo' = IF Head(statuses) = "hard" THEN TellReset ELSE Tell(FALSE)
  /\ ConnectErr => todo' = ConnectFailed
<1>1. ASSUME NEW kind \in Kind, NEW c, Execute(kind, c)
      PROVE  todo' = IF kind = "change" /\ connected
                     THEN <<Report, Finish(c, kind = "reboot")>>
                     ELSE <<Finish(c, kind = "reboot")>>
  <2>1. todo' = (IF kind = "change" /\ connected THEN <<Report>> ELSE <<>>)
                \o <<Finish(c, kind = "reboot")>>
    BY <1>1 DEF Execute, Finish
  <2>2. \A x : <<>> \o <<x>> = <<x>>
    OBVIOUS
  <2> QED
    BY <2>1, <2>2, Joined
<1>2. StatusAuthenticated => todo' = IF Connects THEN Connect ELSE Tell(TRUE)
  <2>1. CASE Connects
    <3>1. StatusAuthenticated =>
            todo' = <<Report, Connected>> \o <<Validate(TRUE), Publish(TRUE)>>
      BY <2>1 DEF StatusAuthenticated
    <3> QED
      BY <2>1, <3>1, Joined DEF Connect
  <2>2. CASE ~Connects
    <3>1. \A x, y : <<>> \o <<x, y>> = <<x, y>>
      OBVIOUS
    <3>2. StatusAuthenticated => todo' = <<>> \o <<Validate(TRUE), Publish(TRUE)>>
      BY <2>2 DEF StatusAuthenticated
    <3> QED
      BY <2>2, <3>1, <3>2 DEF Tell
  <2> QED
    BY <2>1, <2>2
<1>3. StatusUnauthenticated =>
        todo' = IF Head(statuses) = "hard" THEN TellReset ELSE Tell(FALSE)
  <2>1. \A x, y : <<x, y>> \o <<>> = <<x, y>>
    OBVIOUS
  <2> QED
    BY <2>1, Joined DEF StatusUnauthenticated, TellReset, Tell
<1>4. ConnectErr => todo' = ConnectFailed
  BY DEF ConnectErr, ConnectFailed
<1> QED
  BY <1>1, <1>2, <1>3, <1>4

\* Each handler from one step to the next.
LEMMA Programs ==
  /\ Connect # <<>> /\ Head(Connect) = Report /\ Tail(Connect) = ConnectReported
  /\ ConnectReported # <<>> /\ Head(ConnectReported) = Connected
  /\ Tail(ConnectReported) = Tell(TRUE)
  /\ \A a \in BOOLEAN : /\ Tell(a) # <<>> /\ Head(Tell(a)) = Validate(a)
                        /\ Tail(Tell(a)) = <<Publish(a)>>
  /\ TellReset # <<>> /\ Head(TellReset) = Validate(FALSE) /\ Tail(TellReset) = ToldReset
  /\ ToldReset # <<>> /\ Head(ToldReset) = Publish(FALSE) /\ Tail(ToldReset) = <<Reset>>
  /\ ConnectFailed # <<>> /\ Head(ConnectFailed) = Validate(FALSE)
  /\ Tail(ConnectFailed) = <<Reset>>
<1>1. Connect # <<>> /\ Head(Connect) = Report /\ Tail(Connect) = ConnectReported
  <2> DEFINE v == Validate(TRUE)  p == Publish(TRUE)
  <2>1. Connect = <<Report, Connected, v, p>> /\ ConnectReported = <<Connected, v, p>>
    BY DEF Connect, ConnectReported
  <2> HIDE DEF v, p
  <2> QED
    BY <2>1, HeadAndTail4
<1>2. ConnectReported # <<>> /\ Head(ConnectReported) = Connected
      /\ Tail(ConnectReported) = Tell(TRUE)
  BY HeadAndTail3, Zenon DEF ConnectReported, Tell
<1>3. \A a \in BOOLEAN : /\ Tell(a) # <<>> /\ Head(Tell(a)) = Validate(a)
                         /\ Tail(Tell(a)) = <<Publish(a)>>
  BY HeadsAndTails DEF Tell
<1>4. TellReset # <<>> /\ Head(TellReset) = Validate(FALSE) /\ Tail(TellReset) = ToldReset
  BY HeadAndTail3, Zenon DEF TellReset, ToldReset
<1>5. ToldReset # <<>> /\ Head(ToldReset) = Publish(FALSE) /\ Tail(ToldReset) = <<Reset>>
  BY HeadsAndTails DEF ToldReset
<1>6. ConnectFailed # <<>> /\ Head(ConnectFailed) = Validate(FALSE)
      /\ Tail(ConnectFailed) = <<Reset>>
  BY HeadsAndTails DEF ConnectFailed
<1> QED
  BY <1>1, <1>2, <1>3, <1>4, <1>5, <1>6

-----------------------------------------------------------------------------
(* The types                                                               *)

\* A new handler, and what is left of one, are sequences of steps.
LEMMA Todos ==
  /\ \A a \in BOOLEAN : Tell(a) \in Seq(Op)
  /\ Connect \in Seq(Op) /\ TellReset \in Seq(Op) /\ ConnectFailed \in Seq(Op)
  /\ \A c \in Callers \cup {Nobody}, r \in BOOLEAN :
       <<Report, Finish(c, r)>> \in Seq(Op) /\ <<Finish(c, r)>> \in Seq(Op)
BY Ops, Tuples DEF Tell, Connect, TellReset, ConnectFailed

\* Execute starts a handler that has its type.
LEMMA ExecuteTyped ==
  ASSUME TypeOK, NEW kind \in Kind, NEW c \in Callers \cup {Nobody}, Execute(kind, c)
  PROVE  todo' \in Seq(Op) /\ value' \in 0..MaxChanges /\ rebooting' \in BOOLEAN
<1>1. todo' \in Seq(Op)
  <2> DEFINE r == kind = "reboot"
  <2>1. r \in BOOLEAN
    OBVIOUS
  <2>2. <<Report, Finish(c, r)>> \in Seq(Op) /\ <<Finish(c, r)>> \in Seq(Op)
    BY <2>1, Todos
  <2>3. todo' = IF kind = "change" /\ connected THEN <<Report, Finish(c, r)>>
                                                ELSE <<Finish(c, r)>>
    BY Starts
  <2> QED
    BY <2>2, <2>3
<1>2. value' \in 0..MaxChanges /\ rebooting' \in BOOLEAN
  BY DEF Execute, TypeOK
<1> QED
  BY <1>1, <1>2

\* Exit leaves everything as it is typed.
LEMMA ExitTyped ==
  ASSUME TypeOK, NEW reason \in {"signal", "watcher", "client", "stale", "watchdog", "reboot"},
         Exit(reason), cloud' \in 0..MaxChanges
  PROVE  TypeOK'
<1>1. /\ <<>> \in Seq(Op) /\ IsChannel(<<>>, Status) /\ IsChannel(<<>>, Request)
      /\ IsChannel(<<>>, 0..MaxChanges)
  BY DEF IsChannel
<1> QED
  BY <1>1 DEF TypeOK, Exit, IsChannel

\* Types are kept by each step.
LEMMA TypeOKStep ==
  ASSUME TypeOK, [Next]_vars
  PROVE  TypeOK'
<1>1. /\ IsChannel(statuses, Status) /\ IsChannel(requests, Request)
      /\ IsChannel(reported, 0..MaxChanges) /\ todo \in Seq(Op)
  BY DEF TypeOK
<1>2. ASSUME NEW reason \in {"signal", "watcher"}, Shutdown(reason) PROVE TypeOK'
  <2>1. cloud' \in 0..MaxChanges
    BY <1>1, <1>2, Channels DEF Shutdown, TypeOK
  <2> QED
    BY <1>2, <2>1, ExitTyped DEF Shutdown
<1>3. ASSUME StatusStale \/ ClientFails \/ WatchdogKills \/ Reboots PROVE TypeOK'
  <2>1. cloud' = cloud
    BY <1>3 DEF StatusStale, ClientFails, WatchdogKills, Reboots
  <2>2. cloud' \in 0..MaxChanges
    BY <2>1 DEF TypeOK
  <2>3. \E reason \in {"client", "stale", "watchdog", "reboot"} : Exit(reason)
    BY <1>3 DEF StatusStale, ClientFails, WatchdogKills, Reboots
  <2> QED
    BY <2>2, <2>3, ExitTyped
<1>4. ASSUME Start \/ ConnectOk PROVE TypeOK'
  <2>1. /\ UNCHANGED <<state, connected, waiting, todo, statuses, requests, reported>>
        /\ UNCHANGED <<caller, told, online, value, cloud, rebooting>>
    BY <1>4 DEF Start, ConnectOk, connVars, procVars
  <2>2. /\ proc' \in {"up", "down"} /\ client' \in BOOLEAN
        /\ created' \in {"pending", "done"} /\ exit' \in {exit, "none"}
    BY <1>4 DEF Start, ConnectOk, TypeOK, connVars, procVars
  <2>3. /\ IsChannel(statuses', Status) /\ IsChannel(requests', Request)
        /\ IsChannel(reported', 0..MaxChanges) /\ todo' \in Seq(Op)
    BY <1>1, <2>1
  <2> QED
    BY <2>1, <2>2, <2>3 DEF TypeOK
<1>5. ASSUME ConnectErr PROVE TypeOK'
  <2>1. todo' \in Seq(Op)
    BY <1>5, Starts, Todos
  <2> QED
    BY <1>5, <2>1 DEF ConnectErr, TypeOK, IsChannel, procVars
<1>6. ASSUME StatusAuthenticated \/ StatusUnauthenticated PROVE TypeOK'
  <2>1. todo' \in Seq(Op)
    BY <1>6, Starts, Todos
  <2>2. IsChannel(Tail(statuses), Status) /\ statuses' = Tail(statuses)
    BY <1>1, <1>6, Channels DEF StatusAuthenticated, StatusUnauthenticated
  <2>3. /\ connected' \in BOOLEAN /\ state' \in {"Uninitialized", "Initialized", "Authenticated"}
    BY <1>6 DEF StatusAuthenticated, StatusUnauthenticated, Loses, TypeOK
  <2> QED
    BY <1>6, <2>1, <2>2, <2>3
       DEF StatusAuthenticated, StatusUnauthenticated, TypeOK, IsChannel, procVars
<1>7. ASSUME HandleRequest PROVE TypeOK'
  <2>1. /\ requests' = Tail(requests) /\ IsChannel(Tail(requests), Request)
        /\ Head(requests) \in Request
    BY <1>1, <1>7, Channels DEF HandleRequest
  <2>2. /\ todo' \in Seq(Op) /\ value' \in 0..MaxChanges
        /\ rebooting' \in BOOLEAN /\ told' \in BOOLEAN
    <3>1. CASE Head(requests).kind = "validate"
      BY <1>7, <2>1, <3>1, Requests DEF HandleRequest, TypeOK
    <3>2. CASE Head(requests).kind # "validate"
      <4>1. Execute(Head(requests).kind, Head(requests).caller) /\ UNCHANGED told
        BY <1>7, <3>2 DEF HandleRequest
      <4>2. Head(requests).kind \in Kind /\ Head(requests).caller \in Callers \cup {Nobody}
        BY <2>1, <3>2, Requests
      <4> QED
        BY <4>1, <4>2, ExecuteTyped DEF TypeOK
    <3> QED
      BY <3>1, <3>2
  <2> QED
    BY <1>7, <2>1, <2>2 DEF HandleRequest, TypeOK, IsChannel, connVars
<1>8. ASSUME HandleOther PROVE TypeOK'
  <2>1. todo' \in Seq(Op) /\ value' \in 0..MaxChanges /\ rebooting' \in BOOLEAN
    BY <1>8, ExecuteTyped DEF HandleOther
  <2> QED
    BY <1>8, <2>1 DEF HandleOther, TypeOK, IsChannel, connVars
<1>9. ASSUME Drain PROVE TypeOK'
  <2>1. /\ reported' = Tail(reported) /\ IsChannel(Tail(reported), 0..MaxChanges)
        /\ cloud' \in 0..MaxChanges
    BY <1>1, <1>9, Channels DEF Drain, TypeOK
  <2> QED
    BY <1>9, <2>1 DEF Drain, TypeOK, IsChannel, connVars, procVars
<1>10. ASSUME Run PROVE TypeOK'
  <2>1. /\ todo # <<>> /\ Head(todo) \in Op
        /\ todo' = Tail(todo) /\ Tail(todo) \in Seq(Op)
    BY <1>1, <1>10 DEF Run, RunReport, RunConnected, RunValidate, RunPublish, RunReset,
                       RunFinish, Next1
  <2>2. CASE RunReport
    <3>1. IsChannel(reported', 0..MaxChanges)
      BY <1>1, <2>2, Channels DEF RunReport, TypeOK
    <3> QED
      BY <2>1, <2>2, <3>1 DEF RunReport, TypeOK, IsChannel, connVars, procVars
  <2>3. CASE RunConnected
    BY <2>1, <2>3 DEF RunConnected, TypeOK, IsChannel, procVars
  <2>4. CASE RunValidate
    <3>1. Head(todo).authenticated \in BOOLEAN
      BY <2>1, <2>4 DEF RunValidate, Next1, Op
    <3>2. IsChannel(requests', Request)
      BY <1>1, <2>4, <3>1, Channels, Requests DEF RunValidate
    <3> QED
      BY <2>1, <2>4, <3>2 DEF RunValidate, TypeOK, IsChannel, connVars, procVars
  <2>5. CASE RunPublish
    <3>1. Head(todo).authenticated \in BOOLEAN
      BY <2>1, <2>5 DEF RunPublish, Next1, Op
    <3> QED
      BY <2>1, <2>5, <3>1 DEF RunPublish, TypeOK, IsChannel, connVars, procVars
  <2>6. CASE RunReset
    BY <2>1, <2>6 DEF RunReset, TypeOK, IsChannel, procVars
  <2>7. CASE RunFinish
    <3>1. Head(todo).reboot \in BOOLEAN
      BY <2>1, <2>7 DEF RunFinish, Next1, Op
    <3>2. caller' \in [Callers -> {"idle", "waiting"}]
      BY <2>7 DEF RunFinish, TypeOK
    <3> QED
      BY <2>1, <2>7, <3>1, <3>2 DEF RunFinish, TypeOK, IsChannel, connVars, procVars
  <2> QED
    BY <1>10, <2>2, <2>3, <2>4, <2>5, <2>6, <2>7 DEF Run
<1>11. ASSUME NEW c \in Callers, NEW kind \in Kind, SendRequest(c, kind) PROVE TypeOK'
  <2>1. IsChannel(requests', Request)
    BY <1>1, <1>11, Channels, Requests DEF SendRequest
  <2> QED
    BY <1>11, <2>1 DEF SendRequest, TypeOK, IsChannel, connVars, procVars
<1>12. ASSUME FsEvent PROVE TypeOK'
  <2>1. IsChannel(requests', Request)
    BY <1>1, <1>12, Channels, Requests DEF FsEvent, Kind
  <2> QED
    BY <1>12, <2>1 DEF FsEvent, TypeOK, IsChannel, connVars, procVars
<1>13. ASSUME EmitStatus PROVE TypeOK'
  <2>1. IsChannel(statuses', Status)
    BY <1>1, <1>13, Channels DEF EmitStatus
  <2> QED
    BY <1>13, <2>1 DEF EmitStatus, TypeOK, IsChannel, connVars, procVars
<1>14. ASSUME UNCHANGED vars PROVE TypeOK'
  BY <1>14 DEF vars, connVars, procVars, TypeOK, IsChannel
<1> QED
  BY <1>2, <1>3, <1>4, <1>5, <1>6, <1>7, <1>8, <1>9, <1>10, <1>11, <1>12, <1>13, <1>14
     DEF Next, Loop, Ends, HandleStatus, Signal, FsWatcherExit

-----------------------------------------------------------------------------
(* What the validation was told                                            *)

\* A request for the validation is the last word, any other changes nothing.
LEMMA ToldAppend ==
  ASSUME TypeOK, NEW r \in Request, requests' = Append(requests, r), told' = told
  PROVE  /\ r.kind # "validate" => \A a \in BOOLEAN : LastTold(a) => LastTold(a)'
         /\ r.kind = "validate" => \A a \in BOOLEAN : r.authenticated = a => LastTold(a)'
<1> DEFINE n == Len(requests)
<1>1. /\ n \in Nat /\ DOMAIN requests = 1..n /\ DOMAIN requests' = 1..(n + 1)
      /\ \A i \in 1..n : requests'[i] = requests[i]
      /\ requests'[n + 1] = r
  BY DEF TypeOK, IsChannel
<1>2. Validates \subseteq 1..n
  BY <1>1 DEF Validates
<1>3. CASE r.kind # "validate"
  <2>1. Validates' = Validates
    BY <1>1, <1>3 DEF Validates
  <2> QED
    BY <1>1, <1>2, <1>3, <2>1 DEF LastTold
<1>4. CASE r.kind = "validate"
  <2>1. n + 1 \in Validates' /\ \A j \in Validates' : j <= n + 1
    BY <1>1, <1>4 DEF Validates
  <2> QED
    BY <1>1, <1>4, <2>1 DEF LastTold
<1> QED
  BY <1>3, <1>4

\* Handling a request makes its word what the validation was told.
LEMMA ToldTail ==
  ASSUME TypeOK, requests # <<>>, requests' = Tail(requests),
         told' = IF Head(requests).kind = "validate" THEN Head(requests).authenticated ELSE told
  PROVE  \A a \in BOOLEAN : LastTold(a) => LastTold(a)'
<1> SUFFICES ASSUME NEW a \in BOOLEAN, LastTold(a)
             PROVE  LastTold(a)'
  OBVIOUS
<1> DEFINE n == Len(requests)
<1>1. /\ n \in Nat \ {0} /\ DOMAIN requests = 1..n /\ DOMAIN requests' = 1..(n - 1)
      /\ \A i \in 1..(n - 1) : requests'[i] = requests[i + 1]
      /\ Head(requests) = requests[1]
  BY DEF TypeOK, IsChannel
<1>2. \A i \in 1..n : i \in Validates <=> requests[i].kind = "validate"
  BY <1>1 DEF Validates
<1>3. Validates' = {i \in 1..(n - 1) : requests[i + 1].kind = "validate"}
  BY <1>1 DEF Validates
<1>4. CASE Validates = {} /\ told = a
  <2>1. Validates' = {} /\ told' = a
    BY <1>1, <1>2, <1>3, <1>4
  <2> QED
    BY <2>1 DEF LastTold
<1>5. ASSUME NEW i \in Validates, requests[i].authenticated = a, \A j \in Validates : j <= i
      PROVE  LastTold(a)'
  <2>1. i \in 1..n
    BY <1>1 DEF Validates
  <2>2. CASE i = 1
    <3>1. Validates' = {} /\ told' = a
      BY <1>1, <1>2, <1>3, <1>5, <2>2
    <3> QED
      BY <3>1 DEF LastTold
  <2>3. CASE i # 1
    <3>1. i - 1 \in Validates' /\ requests'[i - 1].authenticated = a
      BY <1>1, <1>2, <1>3, <1>5, <2>1, <2>3
    <3>2. \A j \in Validates' : j <= i - 1
      BY <1>1, <1>2, <1>3, <1>5, <2>1
    <3> QED
      BY <3>1, <3>2 DEF LastTold
  <2> QED
    BY <2>2, <2>3
<1> QED
  BY <1>4, <1>5 DEF LastTold

\* Whatever else happens leaves the last word as it is.
LEMMA ToldKept ==
  ASSUME UNCHANGED <<requests, told>>
  PROVE  \A a \in BOOLEAN : LastTold(a) => LastTold(a)'
BY DEF LastTold, Validates

-----------------------------------------------------------------------------
(* The handlers                                                            *)

\* The invariant depends on nothing else.
LEMMA HandlerInvKept ==
  ASSUME HandlerInv, UNCHANGED <<connVars, todo, online, value, cloud, reported>>,
         \A a \in BOOLEAN : LastTold(a) => LastTold(a)'
  PROVE  HandlerInv'
<1>1. LastTold(TRUE) => LastTold(TRUE)'
  OBVIOUS
<1>2. LastTold(FALSE) => LastTold(FALSE)'
  OBVIOUS
<1>3. Authenticated' = Authenticated
  BY DEF Authenticated, connVars
<1>4. (Settled => Settled') /\ (Reported => Reported') /\ (ClientReady => ClientReady')
  BY <1>1, <1>2, <1>3 DEF Settled, Reported, ClientReady, connVars
<1>5. Idling => Idling'
  BY <1>3, <1>4 DEF Idling
<1>6. Finishing => Finishing'
  BY <1>3, <1>4 DEF Finishing, connVars
<1>7. Authenticating => Authenticating'
  BY <1>1, <1>3, <1>4 DEF Authenticating, connVars
<1>8. Losing => Losing'
  BY <1>2, <1>3, <1>4 DEF Losing
<1> QED
  BY <1>5, <1>6, <1>7, <1>8 DEF HandlerInv

\* Between two handlers.
LEMMA SelectingIdles ==
  ASSUME HandlerInv, todo = <<>>
  PROVE  Idling
BY Programs, HeadsAndTails DEF HandlerInv, Finishing, Authenticating, Losing

\* A process that ended is settled: nothing is connected, told or published.
LEMMA ExitIdles ==
  ASSUME NEW reason, Exit(reason)
  PROVE  Idling'
<1>1. /\ ~Authenticated' /\ todo' = <<>> /\ ClientReady' /\ online' = FALSE
      /\ requests' = <<>> /\ told' = FALSE
  BY DEF Exit, Authenticated, ClientReady
<1>2. LastTold(FALSE)'
  BY <1>1 DEF LastTold, Validates
<1> QED
  BY <1>1, <1>2 DEF Idling, Settled

\* A handler that runs a command starts.
LEMMA ExecuteFinishes ==
  ASSUME TypeOK, Idling, NEW kind \in Kind, NEW c \in Callers \cup {Nobody}, Execute(kind, c),
         UNCHANGED <<connVars, online, cloud, reported>>,
         \A a \in BOOLEAN : LastTold(a) => LastTold(a)'
  PROVE  Finishing'
<1> DEFINE r == kind = "reboot"
<1>1. Authenticated' = Authenticated /\ r \in BOOLEAN
  BY DEF Authenticated, connVars
<1>2. Settled'
  <2>1. (LastTold(TRUE) => LastTold(TRUE)') /\ (LastTold(FALSE) => LastTold(FALSE)')
    OBVIOUS
  <2> QED
    BY <1>1, <2>1 DEF Idling, Settled, ClientReady, connVars
<1>3. CASE kind = "change" /\ connected
  <2>1. todo' = <<Report, Finish(c, r)>> /\ connected'
    BY <1>3, Starts DEF connVars
  <2> QED
    BY <1>1, <1>2, <2>1 DEF Finishing
<1>4. CASE ~(kind = "change" /\ connected)
  <2>1. todo' = <<Finish(c, r)>>
    BY <1>4, Starts
  <2>2. Authenticated' => Reported'
    <3>1. Authenticated => connected /\ Reported
      BY DEF Idling, Settled
    <3>2. kind # "change" => value' = value
      BY DEF Execute
    <3> QED
      BY <1>1, <1>4, <3>1, <3>2 DEF Reported
  <2> QED
    BY <1>1, <1>2, <2>1, <2>2 DEF Finishing
<1> QED
  BY <1>3, <1>4

\* What is reported last is the value.
LEMMA RunReportReports ==
  ASSUME TypeOK, RunReport
  PROVE  Reported'
<1>1. /\ reported' = Append(reported, value) /\ value' = value
      /\ reported \in Seq(0..MaxChanges) /\ value \in 0..MaxChanges
  BY DEF RunReport, TypeOK, IsChannel
<1>2. reported' # <<>> /\ reported'[Len(reported')] = value
  BY <1>1
<1> QED
  BY <1>1, <1>2 DEF Reported

\* A step of a handler is the one its todo begins with.
LEMMA RunSteps ==
  ASSUME Run
  PROVE  /\ todo # <<>> /\ todo' = Tail(todo)
         /\ Head(todo).op = "report" => RunReport
         /\ Head(todo).op = "connected" => RunConnected
         /\ Head(todo).op = "validate" => RunValidate
         /\ Head(todo).op = "publish" => RunPublish
         /\ Head(todo).op = "reset" => RunReset
         /\ Head(todo).op = "finish" => RunFinish
BY DEF Run, RunReport, RunConnected, RunValidate, RunPublish, RunReset, RunFinish, Next1

\* The validation's last word is the one it is told now.
LEMMA RunValidateTells ==
  ASSUME TypeOK, NEW a \in BOOLEAN, Head(todo) = Validate(a), RunValidate
  PROVE  LastTold(a)'
<1> DEFINE r == [kind |-> "validate", authenticated |-> a]
<1>1. requests' = Append(requests, r) /\ told' = told
  BY Ops DEF RunValidate
<1>2. r \in Request /\ r.kind = "validate" /\ r.authenticated = a
  BY Requests
<1> HIDE DEF r
<1> QED
  BY <1>1, <1>2, ToldAppend

\* The steps of the handlers keep the invariant.
LEMMA RunStep ==
  ASSUME TypeOK, HandlerInv, Run
  PROVE  HandlerInv'
<1>1. todo # <<>> /\ todo' = Tail(todo)
  BY RunSteps
<1>2. CASE Idling
  BY <1>1, <1>2 DEF Idling
<1>3. CASE Finishing
  <2>1. PICK c \in Callers \cup {Nobody}, reboot \in BOOLEAN :
          /\ Settled
          /\ \/ todo = <<Report, Finish(c, reboot)>> /\ connected
             \/ todo = <<Finish(c, reboot)>> /\ (Authenticated => Reported)
    BY <1>3 DEF Finishing
  <2>2. ASSUME UNCHANGED <<connVars, online, requests, told>>
        PROVE  Settled' /\ Authenticated' = Authenticated
    <3>1. Authenticated' = Authenticated
      BY <2>2 DEF Authenticated, connVars
    <3>2. (LastTold(TRUE) => LastTold(TRUE)') /\ (LastTold(FALSE) => LastTold(FALSE)')
      BY <2>2, ToldKept
    <3> QED
      BY <2>1, <2>2, <3>1, <3>2 DEF Settled, ClientReady, connVars
  <2>3. CASE todo = <<Report, Finish(c, reboot)>>
    <3>1. RunReport /\ todo' = <<Finish(c, reboot)>>
      BY <1>1, <2>3, HeadsAndTails, Ops, RunSteps
    <3>2. Settled' /\ Reported'
      BY <2>2, <3>1, RunReportReports DEF RunReport
    <3> QED
      BY <3>1, <3>2 DEF HandlerInv, Finishing
  <2>4. CASE todo = <<Finish(c, reboot)>> /\ (Authenticated => Reported)
    <3>1. RunFinish /\ todo' = <<>>
      BY <1>1, <2>4, HeadsAndTails, Ops, RunSteps
    <3>2. Settled' /\ (Authenticated' => Reported')
      BY <2>2, <2>4, <3>1 DEF RunFinish, Reported
    <3> QED
      BY <3>1, <3>2 DEF HandlerInv, Idling
  <2> QED
    BY <2>1, <2>3, <2>4
<1>4. CASE Authenticating
  <2>1. CASE todo = Connect
    <3>1. RunReport /\ todo' = ConnectReported
      BY <1>1, <2>1, Programs, Ops, RunSteps
    <3>2. Reported' /\ client' /\ connected'
      BY <1>4, <3>1, RunReportReports DEF Authenticating, RunReport, connVars
    <3> QED
      BY <3>1, <3>2 DEF HandlerInv, Authenticating
  <2>2. CASE todo = ConnectReported /\ Reported
    <3>1. RunConnected /\ todo' = Tell(TRUE)
      BY <1>1, <2>2, Programs, Ops, RunSteps
    <3>2. Reported' /\ client' /\ connected' /\ Authenticated'
      BY <1>4, <2>2, <3>1 DEF Authenticating, RunConnected, Reported, Authenticated
    <3> QED
      BY <3>1, <3>2 DEF HandlerInv, Authenticating
  <2>3. CASE todo = Tell(TRUE) /\ Authenticated /\ Reported
    <3>1. RunValidate /\ todo' = <<Publish(TRUE)>> /\ Head(todo) = Validate(TRUE)
      BY <1>1, <2>3, Programs, Ops, RunSteps
    <3>2. Reported' /\ client' /\ connected' /\ Authenticated'
      BY <1>4, <2>3, <3>1 DEF Authenticating, RunValidate, Reported, Authenticated, connVars
    <3>3. LastTold(TRUE)'
      BY <3>1, RunValidateTells
    <3> QED
      BY <3>1, <3>2, <3>3 DEF HandlerInv, Authenticating
  <2>4. CASE todo = <<Publish(TRUE)>> /\ Authenticated /\ Reported /\ LastTold(TRUE)
    <3>1. RunPublish /\ todo' = <<>> /\ Head(todo).authenticated = TRUE
      <4>1. Head(todo) = Publish(TRUE) /\ Tail(todo) = <<>>
        BY <2>4, HeadsAndTails
      <4>2. Head(todo).op = "publish" /\ Head(todo).authenticated = TRUE
        BY <4>1, Ops
      <4> QED
        BY <1>1, <4>1, <4>2, RunSteps
    <3>2. Reported' /\ client' /\ connected' /\ Authenticated' /\ online' = TRUE
      BY <1>4, <2>4, <3>1 DEF Authenticating, RunPublish, Reported, Authenticated, connVars
    <3>3. LastTold(TRUE)'
      BY <2>4, <3>1, ToldKept DEF RunPublish
    <3> QED
      BY <3>1, <3>2, <3>3 DEF HandlerInv, Idling, Settled, ClientReady
  <2> QED
    BY <1>4, <2>1, <2>2, <2>3, <2>4 DEF Authenticating
<1>5. CASE Losing
  <2>1. CASE todo = Tell(FALSE) /\ ClientReady
    <3>1. RunValidate /\ todo' = <<Publish(FALSE)>> /\ Head(todo) = Validate(FALSE)
      BY <1>1, <2>1, Programs, Ops, RunSteps
    <3>2. ~Authenticated' /\ ClientReady'
      BY <1>5, <2>1, <3>1 DEF Losing, RunValidate, Authenticated, ClientReady, connVars
    <3>3. LastTold(FALSE)'
      BY <3>1, RunValidateTells
    <3> QED
      BY <3>1, <3>2, <3>3 DEF HandlerInv, Losing
  <2>2. CASE todo = <<Publish(FALSE)>> /\ ClientReady /\ LastTold(FALSE)
    <3>1. RunPublish /\ todo' = <<>> /\ Head(todo).authenticated = FALSE
      <4>1. Head(todo) = Publish(FALSE) /\ Tail(todo) = <<>>
        BY <2>2, HeadsAndTails
      <4>2. Head(todo).op = "publish" /\ Head(todo).authenticated = FALSE
        BY <4>1, Ops
      <4> QED
        BY <1>1, <4>1, <4>2, RunSteps
    <3>2. ~Authenticated' /\ ClientReady' /\ online' = FALSE
      BY <1>5, <2>2, <3>1 DEF Losing, RunPublish, Authenticated, ClientReady, connVars
    <3>3. LastTold(FALSE)'
      BY <2>2, <3>1, ToldKept DEF RunPublish
    <3> QED
      BY <3>1, <3>2, <3>3 DEF HandlerInv, Idling, Settled
  <2>3. CASE todo = TellReset
    <3>1. RunValidate /\ todo' = ToldReset /\ Head(todo) = Validate(FALSE)
      BY <1>1, <2>3, Programs, Ops, RunSteps
    <3>2. ~Authenticated'
      BY <1>5, <3>1 DEF Losing, RunValidate, Authenticated, connVars
    <3>3. LastTold(FALSE)'
      BY <3>1, RunValidateTells
    <3> QED
      BY <3>1, <3>2, <3>3 DEF HandlerInv, Losing
  <2>4. CASE todo = ToldReset /\ LastTold(FALSE)
    <3>1. RunPublish /\ todo' = <<Reset>> /\ Head(todo).authenticated = FALSE
      BY <1>1, <2>4, Programs, Ops, RunSteps
    <3>2. ~Authenticated' /\ online' = FALSE
      BY <1>5, <3>1 DEF Losing, RunPublish, Authenticated, connVars
    <3>3. LastTold(FALSE)'
      BY <2>4, <3>1, ToldKept DEF RunPublish
    <3> QED
      BY <3>1, <3>2, <3>3 DEF HandlerInv, Losing
  <2>5. CASE todo = ConnectFailed /\ ~online
    <3>1. RunValidate /\ todo' = <<Reset>> /\ Head(todo) = Validate(FALSE)
      BY <1>1, <2>5, Programs, Ops, RunSteps
    <3>2. ~Authenticated' /\ ~online'
      BY <1>5, <2>5, <3>1 DEF Losing, RunValidate, Authenticated, connVars
    <3>3. LastTold(FALSE)'
      BY <3>1, RunValidateTells
    <3> QED
      BY <3>1, <3>2, <3>3 DEF HandlerInv, Losing
  <2>6. CASE todo = <<Reset>> /\ ~online /\ LastTold(FALSE)
    <3>1. RunReset /\ todo' = <<>>
      BY <1>1, <2>6, HeadsAndTails, Ops, RunSteps
    <3>2. ~Authenticated' /\ ClientReady' /\ online' = FALSE
      BY <1>5, <2>6, <3>1 DEF Losing, RunReset, Authenticated, ClientReady, TypeOK
    <3>3. LastTold(FALSE)'
      BY <2>6, <3>1, ToldKept DEF RunReset
    <3> QED
      BY <3>1, <3>2, <3>3 DEF HandlerInv, Idling, Settled
  <2> QED
    BY <1>5, <2>1, <2>2, <2>3, <2>4, <2>5, <2>6 DEF Losing
<1> QED
  BY <1>2, <1>3, <1>4, <1>5 DEF HandlerInv

\* Each step keeps the invariant of the handlers.
LEMMA HandlerInvStep ==
  ASSUME TypeOK, HandlerInv, [Next]_vars
  PROVE  HandlerInv'
<1>1. ASSUME Selecting PROVE Idling
  BY <1>1, SelectingIdles DEF Selecting
<1>2. ASSUME Ends \/ StatusStale PROVE HandlerInv'
  <2>1. \E reason : Exit(reason)
    BY <1>2 DEF Ends, StatusStale, Signal, FsWatcherExit, Shutdown, ClientFails,
                WatchdogKills, Reboots
  <2> QED
    BY <2>1, ExitIdles DEF HandlerInv
<1>3. ASSUME Start PROVE HandlerInv'
  BY <1>3, HandlerInvKept, ToldKept DEF Start
<1>4. ASSUME UNCHANGED <<requests, told>>
      PROVE  (LastTold(TRUE) => LastTold(TRUE)') /\ (LastTold(FALSE) => LastTold(FALSE)')
  BY <1>4, ToldKept
<1>5. ASSUME ConnectOk PROVE HandlerInv'
  <2>1. Idling /\ client' /\ todo' = <<>> /\ Authenticated' = Authenticated
    BY <1>1, <1>5 DEF ConnectOk, Selecting, Authenticated
  <2>2. Settled'
    BY <1>4, <1>5, <2>1 DEF Idling, Settled, ClientReady, ConnectOk
  <2>3. Reported' <=> Reported
    BY <1>5 DEF Reported, ConnectOk
  <2> QED
    BY <2>1, <2>2, <2>3 DEF HandlerInv, Idling
<1>6. ASSUME ConnectErr PROVE HandlerInv'
  <2>1. Idling /\ ~client
    BY <1>1, <1>6 DEF ConnectErr
  <2>2. ~Authenticated /\ online = FALSE
    BY <2>1 DEF Idling, Settled
  <2>3. todo' = ConnectFailed /\ ~Authenticated' /\ ~online'
    BY <1>6, <2>2, Starts DEF ConnectErr, Authenticated
  <2> QED
    BY <2>3 DEF HandlerInv, Losing
<1>7. ASSUME StatusAuthenticated PROVE HandlerInv'
  <2>1. Idling
    BY <1>1, <1>7 DEF StatusAuthenticated
  <2>2. connected' /\ todo' = IF Connects THEN Connect ELSE Tell(TRUE)
    BY <1>7, Starts DEF StatusAuthenticated
  <2>3. Authenticated' = Authenticated /\ Connects = ~Authenticated
    BY <1>7 DEF StatusAuthenticated, Authenticated, Connects
  <2>4. CASE Connects
    <3>1. client'
      BY <1>7, <2>4 DEF StatusAuthenticated
    <3> QED
      BY <2>2, <2>4, <3>1 DEF HandlerInv, Authenticating
  <2>5. CASE ~Connects
    <3>1. client' /\ Authenticated' /\ Reported
      BY <1>7, <2>1, <2>3, <2>5 DEF Idling, Settled, StatusAuthenticated
    <3>2. Reported'
      BY <1>7, <3>1 DEF Reported, StatusAuthenticated
    <3> QED
      BY <2>2, <2>5, <3>1, <3>2 DEF HandlerInv, Authenticating
  <2> QED
    BY <2>4, <2>5
<1>8. ASSUME StatusUnauthenticated PROVE HandlerInv'
  <2>1. Idling
    BY <1>1, <1>8 DEF StatusUnauthenticated
  <2>2. todo' = IF Head(statuses) = "hard" THEN TellReset ELSE Tell(FALSE)
    BY <1>8, Starts
  <2>3. ~Authenticated' /\ ClientReady'
    BY <1>8, <2>1 DEF StatusUnauthenticated, Loses, Authenticated, Idling, Settled, ClientReady
  <2> QED
    BY <2>2, <2>3 DEF HandlerInv, Losing
<1>9. ASSUME HandleRequest PROVE HandlerInv'
  <2>1. Idling /\ requests # <<>> /\ requests' = Tail(requests)
    BY <1>1, <1>9 DEF HandleRequest
  <2>2. told' = IF Head(requests).kind = "validate" THEN Head(requests).authenticated ELSE told
    BY <1>9 DEF HandleRequest
  <2>3. \A a \in BOOLEAN : LastTold(a) => LastTold(a)'
    BY <2>1, <2>2, ToldTail
  <2>4. CASE Head(requests).kind = "validate"
    <3>1. UNCHANGED <<connVars, todo, online, value, cloud, reported>>
      BY <1>9, <2>4 DEF HandleRequest
    <3> QED
      BY <2>3, <3>1, HandlerInvKept
  <2>5. CASE Head(requests).kind # "validate"
    <3>1. Head(requests) \in Request
      BY <2>1 DEF TypeOK, IsChannel
    <3>2. Head(requests).kind \in Kind /\ Head(requests).caller \in Callers \cup {Nobody}
      BY <2>5, <3>1, Requests
    <3>3. /\ Execute(Head(requests).kind, Head(requests).caller)
          /\ UNCHANGED <<connVars, online, cloud, reported>>
      BY <1>9, <2>5 DEF HandleRequest
    <3>4. Finishing'
      BY <2>1, <2>3, <3>2, <3>3, ExecuteFinishes
    <3> QED
      BY <3>4 DEF HandlerInv
  <2> QED
    BY <2>4, <2>5
<1>10. ASSUME HandleOther PROVE HandlerInv'
  <2>1. Idling
    BY <1>1, <1>10 DEF HandleOther
  <2>2. \A a \in BOOLEAN : LastTold(a) => LastTold(a)'
    BY <1>10, ToldKept DEF HandleOther
  <2>3. PICK kind \in Kind : Execute(kind, Nobody)
    BY <1>10 DEF HandleOther
  <2>4. UNCHANGED <<connVars, online, cloud, reported>>
    BY <1>10 DEF HandleOther
  <2>5. Finishing'
    BY <2>1, <2>2, <2>3, <2>4, ExecuteFinishes
  <2> QED
    BY <2>5 DEF HandlerInv
<1>11. ASSUME Drain PROVE HandlerInv'
  <2>1. Idling /\ todo' = <<>> /\ Authenticated' = Authenticated
    BY <1>1, <1>11 DEF Drain, Selecting, Authenticated, connVars
  <2>2. Settled'
    BY <1>4, <1>11, <2>1 DEF Idling, Settled, ClientReady, Drain, connVars
  <2>3. Authenticated => Reported'
    <3>1. SUFFICES ASSUME Authenticated PROVE Reported'
      OBVIOUS
    <3>2. client /\ Reported /\ reported # <<>>
      BY <1>11, <2>1, <3>1 DEF Idling, Settled, Drain
    <3>3. /\ value' = reported[Len(reported)] /\ cloud' = Head(reported)
          /\ reported' = Tail(reported) /\ reported \in Seq(0..MaxChanges)
      BY <1>11, <3>2 DEF Drain, Reported, TypeOK, IsChannel
    <3>4. Tail(reported) = <<>> => Head(reported) = reported[Len(reported)]
      <4>1. Len(Tail(reported)) = Len(reported) - 1 /\ Len(<<>>) = 0
        BY <3>2, <3>3
      <4>2. Head(reported) = reported[1]
        BY <3>2, <3>3
      <4>3. Tail(reported) = <<>> => Len(Tail(reported)) = 0
        BY <4>1, Zenon
      <4>4. Len(reported) \in Nat
        BY <3>3
      <4>5. Tail(reported) = <<>> => Len(reported) = 1
        BY <4>1, <4>3, <4>4
      <4> QED
        BY <4>2, <4>5
    <3>5. Tail(reported) # <<>> =>
            Tail(reported)[Len(Tail(reported))] = reported[Len(reported)]
      BY <3>2, <3>3
    <3> QED
      BY <3>3, <3>4, <3>5 DEF Reported
  <2> QED
    BY <2>1, <2>2, <2>3 DEF HandlerInv, Idling
<1>12. ASSUME NEW c \in Callers, NEW kind \in Kind, SendRequest(c, kind) PROVE HandlerInv'
  <2> DEFINE r == [kind |-> kind, caller |-> c]
  <2>1. r \in Request /\ r.kind # "validate" /\ requests' = Append(requests, r) /\ told' = told
    BY <1>12, Requests DEF SendRequest
  <2> HIDE DEF r
  <2>2. \A a \in BOOLEAN : LastTold(a) => LastTold(a)'
    BY <2>1, ToldAppend
  <2> QED
    BY <1>12, <2>2, HandlerInvKept DEF SendRequest
<1>13. ASSUME FsEvent PROVE HandlerInv'
  <2> DEFINE r == [kind |-> "change", caller |-> Nobody]
  <2>1. r \in Request /\ r.kind # "validate" /\ requests' = Append(requests, r) /\ told' = told
    BY <1>13, Requests DEF FsEvent, Kind
  <2> HIDE DEF r
  <2>2. \A a \in BOOLEAN : LastTold(a) => LastTold(a)'
    BY <2>1, ToldAppend
  <2> QED
    BY <1>13, <2>2, HandlerInvKept DEF FsEvent
<1>14. ASSUME EmitStatus \/ UNCHANGED vars PROVE HandlerInv'
  BY <1>14, HandlerInvKept, ToldKept DEF EmitStatus, vars
<1> QED
  BY <1>2, <1>3, <1>5, <1>6, <1>7, <1>8, <1>9, <1>10, <1>11, <1>12, <1>13, <1>14, RunStep
     DEF Next, Loop, HandleStatus

-----------------------------------------------------------------------------
(* The abstract specification                                              *)

\* A sequence of steps without "connected" is a handler like any other.
LEMMA OtherHandlers ==
  /\ Handler(<<>>) = "none"
  /\ \A a : a # Connected => Handler(<<a>>) = "other"
  /\ \A a, b : a # Connected /\ b # Connected => Handler(<<a, b>>) = "other"
  /\ \A a, b, c : a # Connected /\ b # Connected /\ c # Connected
                    => Handler(<<a, b, c>>) = "other"
BY DEF Handler

\* What each handler is to the connection.
LEMMA Handlers ==
  /\ Handler(Connect) = "connect" /\ Handler(ConnectReported) = "connect"
  /\ \A a \in BOOLEAN : Handler(Tell(a)) = "other" /\ Handler(<<Publish(a)>>) = "other"
  /\ Handler(TellReset) = "other" /\ Handler(ToldReset) = "other"
  /\ Handler(ConnectFailed) = "other" /\ Handler(<<Reset>>) = "other"
  /\ \A c \in Callers \cup {Nobody}, r \in BOOLEAN :
       Handler(<<Report, Finish(c, r)>>) = "other" /\ Handler(<<Finish(c, r)>>) = "other"
<1>1. /\ Report # Connected /\ Reset # Connected
      /\ \A a \in BOOLEAN : Validate(a) # Connected /\ Publish(a) # Connected
      /\ \A c \in Callers \cup {Nobody}, r \in BOOLEAN : Finish(c, r) # Connected
  BY Ops
<1>2. Handler(Connect) = "connect" /\ Handler(ConnectReported) = "connect"
  <2> DEFINE v == Validate(TRUE)  p == Publish(TRUE)
  <2>1. Connect = <<Report, Connected, v, p>> /\ ConnectReported = <<Connected, v, p>>
    BY DEF Connect, ConnectReported
  <2> HIDE DEF v, p
  <2>2. Connect # <<>> /\ 2 \in DOMAIN Connect /\ Connect[2] = Connected
    BY <2>1
  <2>3. ConnectReported # <<>> /\ 1 \in DOMAIN ConnectReported
        /\ ConnectReported[1] = Connected
    BY <2>1
  <2> QED
    BY <2>2, <2>3 DEF Handler
<1>3. ASSUME NEW a \in BOOLEAN
      PROVE  Handler(Tell(a)) = "other" /\ Handler(<<Publish(a)>>) = "other"
  BY <1>1, OtherHandlers, Zenon DEF Tell
<1>4. Handler(TellReset) = "other" /\ Handler(ToldReset) = "other"
  BY <1>1, OtherHandlers, Zenon DEF TellReset, ToldReset
<1>5. Handler(ConnectFailed) = "other" /\ Handler(<<Reset>>) = "other"
  BY <1>1, OtherHandlers, Zenon DEF ConnectFailed
<1>6. ASSUME NEW c \in Callers \cup {Nobody}, NEW r \in BOOLEAN
      PROVE  Handler(<<Report, Finish(c, r)>>) = "other" /\ Handler(<<Finish(c, r)>>) = "other"
  BY <1>1, OtherHandlers, Zenon
<1> QED
  BY <1>2, <1>3, <1>4, <1>5, <1>6

\* A step that none of the variables of TwinConnection sees.
LEMMA Unseen ==
  ASSUME UNCHANGED <<proc, connVars, todo, waiting, reported>>
  PROVE  UNCHANGED Connection!vars
BY DEF Connection!vars, connVars

\* A step of a handler other than connect_twin.
LEMMA Handles ==
  ASSUME proc = "up", Handler(todo) # "connect", UNCHANGED <<proc, connVars>>,
         \/ Handler(todo') = "other"
         \/ Handler(todo') = "none" /\ ClientReady,
         UNCHANGED reported \/ (TypeOK /\ connected /\ reported' = Append(reported, value)),
         waiting' \in {waiting, TRUE}
  PROVE  Connection!Handle
<1>1. ASSUME TypeOK, reported' = Append(reported, value)
      PROVE  \A i \in DOMAIN reported : i \in DOMAIN reported' /\ reported'[i] = reported[i]
  BY <1>1 DEF TypeOK, IsChannel
<1>2. Connection!Reports
  BY <1>1 DEF Connection!Reports
<1> QED
  BY <1>2 DEF Connection!Handle, Connection!Pollable, Connection!connection, ClientReady, connVars

\* Each end of the process.
LEMMA Ended ==
  ASSUME NEW reason, Exit(reason)
  PROVE  Connection!End
<1>1. Handler(todo') = "none"
  BY OtherHandlers DEF Exit
<1> QED
  BY <1>1 DEF Exit, Connection!End, Connection!Fresh

\* The running handler's next step.
LEMMA RunImplements ==
  ASSUME TypeOK, HandlerInv, Run
  PROVE  Connection!Next
<1>1. todo # <<>> /\ todo' = Tail(todo) /\ proc = "up" /\ proc' = proc
  BY RunSteps DEF Run, RunReport, RunConnected, RunValidate, RunPublish, RunReset,
                  RunFinish, Next1, procVars
<1>2. CASE Idling
  BY <1>1, <1>2 DEF Idling
<1>3. CASE Finishing
  <2>1. PICK c \in Callers \cup {Nobody}, reboot \in BOOLEAN :
          /\ Settled
          /\ \/ todo = <<Report, Finish(c, reboot)>> /\ connected
             \/ todo = <<Finish(c, reboot)>> /\ (Authenticated => Reported)
    BY <1>3 DEF Finishing
  <2>2. CASE todo = <<Report, Finish(c, reboot)>> /\ connected
    <3>1. RunReport /\ todo' = <<Finish(c, reboot)>>
      BY <1>1, <2>2, HeadsAndTails, Ops, RunSteps
    <3>2. Handler(todo) = "other" /\ Handler(todo') = "other"
      BY <2>2, <3>1, Handlers
    <3> QED
      BY <1>1, <2>2, <3>1, <3>2, Handles DEF RunReport, Connection!Next
  <2>3. CASE todo = <<Finish(c, reboot)>>
    <3>1. RunFinish /\ todo' = <<>>
      BY <1>1, <2>3, HeadsAndTails, Ops, RunSteps
    <3>2. Handler(todo) = "other" /\ Handler(todo') = "none"
      BY <2>3, <3>1, Handlers, OtherHandlers
    <3>3. waiting' \in {waiting, TRUE}
      <4>1. Head(todo).reboot \in BOOLEAN
        BY <2>3, HeadsAndTails, Ops
      <4> QED
        BY <3>1, <4>1 DEF RunFinish, TypeOK
    <3> QED
      BY <1>1, <2>1, <3>1, <3>2, <3>3, Handles DEF RunFinish, Settled, Connection!Next
  <2> QED
    BY <2>1, <2>2, <2>3
<1>4. ASSUME RunValidate \/ RunPublish
      PROVE  UNCHANGED <<connVars, waiting, reported>>
  BY <1>4 DEF RunValidate, RunPublish
<1>5. CASE Authenticating
  <2>1. CASE todo = Connect
    <3>1. RunReport /\ todo' = ConnectReported
      BY <1>1, <2>1, Programs, Ops, RunSteps
    <3>2. Handler(todo) = "connect" /\ Handler(todo') = "connect"
      BY <2>1, <3>1, Handlers
    <3>3. \A i \in DOMAIN reported : i \in DOMAIN reported' /\ reported'[i] = reported[i]
      BY <3>1 DEF RunReport, TypeOK, IsChannel
    <3>4. Connection!Reports
      BY <1>5, <3>3 DEF Connection!Reports, Authenticating
    <3>5. Connection!ConnectStep
      BY <1>1, <3>1, <3>2, <3>4 DEF RunReport, Connection!ConnectStep, connVars
    <3> QED
      BY <3>5 DEF Connection!Next
  <2>2. CASE todo = ConnectReported
    <3>1. RunConnected /\ todo' = Tell(TRUE)
      BY <1>1, <2>2, Programs, Ops, RunSteps
    <3>2. Handler(todo) = "connect" /\ Handler(todo') = "other"
      BY <2>2, <3>1, Handlers
    <3>3. Connection!ConnectStep
      BY <1>1, <3>1, <3>2 DEF RunConnected, Connection!ConnectStep, Connection!Reports
    <3> QED
      BY <3>3 DEF Connection!Next
  <2>3. CASE todo = Tell(TRUE)
    <3>1. RunValidate /\ todo' = <<Publish(TRUE)>>
      BY <1>1, <2>3, Programs, Ops, RunSteps
    <3>2. Handler(todo) = "other" /\ Handler(todo') = "other"
      BY <2>3, <3>1, Handlers
    <3> QED
      BY <1>1, <1>4, <3>1, <3>2, Handles DEF Connection!Next
  <2>4. CASE todo = <<Publish(TRUE)>>
    <3>1. RunPublish /\ todo' = <<>>
      <4>1. Head(todo) = Publish(TRUE) /\ Tail(todo) = <<>>
        BY <2>4, HeadsAndTails
      <4> QED
        BY <1>1, <4>1, Ops, RunSteps
    <3>2. Handler(todo) = "other" /\ Handler(todo') = "none"
      BY <2>4, <3>1, Handlers, OtherHandlers
    <3> QED
      BY <1>1, <1>4, <1>5, <3>1, <3>2, Handles
         DEF Authenticating, ClientReady, Connection!Next
  <2> QED
    BY <1>5, <2>1, <2>2, <2>3, <2>4 DEF Authenticating
<1>6. CASE Losing
  <2>1. CASE todo = Tell(FALSE)
    <3>1. RunValidate /\ todo' = <<Publish(FALSE)>>
      BY <1>1, <2>1, Programs, Ops, RunSteps
    <3>2. Handler(todo) = "other" /\ Handler(todo') = "other"
      BY <2>1, <3>1, Handlers
    <3> QED
      BY <1>1, <1>4, <3>1, <3>2, Handles DEF Connection!Next
  <2>2. CASE todo = <<Publish(FALSE)>> /\ ClientReady
    <3>1. RunPublish /\ todo' = <<>>
      <4>1. Head(todo) = Publish(FALSE) /\ Tail(todo) = <<>>
        BY <2>2, HeadsAndTails
      <4> QED
        BY <1>1, <4>1, Ops, RunSteps
    <3>2. Handler(todo) = "other" /\ Handler(todo') = "none"
      BY <2>2, <3>1, Handlers, OtherHandlers
    <3> QED
      BY <1>1, <1>4, <2>2, <3>1, <3>2, Handles DEF Connection!Next
  <2>3. CASE todo = TellReset \/ todo = ConnectFailed
    <3>1. RunValidate /\ (todo' = ToldReset \/ todo' = <<Reset>>)
      <4>1. CASE todo = TellReset
        BY <1>1, <4>1, Programs, Ops, RunSteps
      <4>2. CASE todo = ConnectFailed
        BY <1>1, <4>2, Programs, Ops, RunSteps
      <4> QED
        BY <2>3, <4>1, <4>2
    <3>2. Handler(todo) = "other" /\ Handler(todo') = "other"
      BY <2>3, <3>1, Handlers
    <3> QED
      BY <1>1, <1>4, <3>1, <3>2, Handles DEF Connection!Next
  <2>4. CASE todo = ToldReset
    <3>1. RunPublish /\ todo' = <<Reset>>
      BY <1>1, <2>4, Programs, Ops, RunSteps
    <3>2. Handler(todo) = "other" /\ Handler(todo') = "other"
      BY <2>4, <3>1, Handlers
    <3> QED
      BY <1>1, <1>4, <3>1, <3>2, Handles DEF Connection!Next
  <2>5. CASE todo = <<Reset>>
    <3>1. RunReset /\ todo' = <<>>
      BY <1>1, <2>5, HeadsAndTails, Ops, RunSteps
    <3>2. Handler(todo) = "other" /\ Handler(todo') = "none"
      BY <2>5, <3>1, Handlers, OtherHandlers
    <3>3. Connection!Reset
      BY <1>1, <1>6, <3>1, <3>2 DEF RunReset, Connection!Reset, Losing, Authenticated
    <3> QED
      BY <3>3 DEF Connection!Next
  <2> QED
    BY <1>6, <2>1, <2>2, <2>3, <2>4, <2>5 DEF Losing
<1> QED
  BY <1>2, <1>3, <1>5, <1>6 DEF HandlerInv

\* A command that starts to run is a handler like any other.
LEMMA ExecuteImplements ==
  ASSUME Idling, proc = "up", NEW kind \in Kind, NEW c \in Callers \cup {Nobody},
         Execute(kind, c), UNCHANGED <<proc, connVars, waiting, reported>>
  PROVE  Connection!Next
<1> DEFINE r == kind = "reboot"
<1>1. todo' = <<Report, Finish(c, r)>> \/ todo' = <<Finish(c, r)>>
  BY Starts
<1>2. Handler(todo') = "other" /\ Handler(todo) = "none"
  <2>1. r \in BOOLEAN
    OBVIOUS
  <2> HIDE DEF r
  <2> QED
    BY <1>1, <2>1, Handlers, OtherHandlers DEF Idling
<1> QED
  BY <1>2, Handles DEF Connection!Next

\* Each step of the service is one of the connection, or is not seen there.
LEMMA StepImplements ==
  ASSUME TypeOK, HandlerInv, [Next]_vars
  PROVE  [Connection!Next]_(Connection!vars)
<1>1. ASSUME Selecting PROVE Idling /\ Connection!Polling
  <2>1. Idling /\ Handler(todo) = "none"
    BY <1>1, SelectingIdles, OtherHandlers DEF Selecting
  <2> QED
    BY <1>1, <2>1 DEF Selecting, Connection!Polling
<1>2. ASSUME Ends \/ StatusStale PROVE Connection!Next
  <2>1. \E reason : Exit(reason)
    BY <1>2 DEF Ends, StatusStale, Signal, FsWatcherExit, Shutdown, ClientFails,
                WatchdogKills, Reboots
  <2> QED
    BY <2>1, Ended DEF Connection!Next
<1>3. ASSUME Start PROVE Connection!Next
  <2>1. UNCHANGED <<client, created, state, connected, waiting, todo, reported>>
    BY <1>3 DEF Start, connVars
  <2>2. Connection!Start
    BY <1>3, <2>1 DEF Start, Connection!Start
  <2> QED
    BY <2>2 DEF Connection!Next
<1>4. ASSUME ConnectOk PROVE Connection!Next
  <2>1. Connection!Polling
    BY <1>1, <1>4 DEF ConnectOk
  <2>2. Connection!Create
    BY <1>4, <2>1 DEF ConnectOk, procVars, Connection!Create
  <2> QED
    BY <2>2 DEF Connection!Next
<1>5. ASSUME ConnectErr PROVE Connection!Next
  <2>1. Connection!Polling /\ todo' = ConnectFailed
    BY <1>1, <1>5, Starts DEF ConnectErr
  <2>2. Handler(todo') = "other"
    BY <2>1, Handlers
  <2>3. Connection!CreateFails
    BY <1>5, <2>1, <2>2 DEF ConnectErr, procVars, Connection!CreateFails
  <2> QED
    BY <2>3 DEF Connection!Next
<1>6. ASSUME StatusAuthenticated PROVE Connection!Next
  <2>1. Connection!Polling /\ Idling
    BY <1>1, <1>6 DEF StatusAuthenticated
  <2>2. CASE Connects
    <3>1. Handler(todo') = "connect"
      BY <1>6, <2>2, Starts, Handlers
    <3>2. Connection!Connect
      BY <1>6, <2>1, <2>2, <3>1 DEF StatusAuthenticated, Connects, procVars, Connection!Connect
    <3> QED
      BY <3>2 DEF Connection!Next
  <2>3. CASE ~Connects
    <3>1. Handler(todo') = "other" /\ Handler(todo) = "none"
      BY <1>6, <2>1, <2>3, Starts, Handlers, OtherHandlers DEF Idling
    <3>2. connected = TRUE
      BY <2>1, <2>3 DEF Connects, Idling, Settled, Authenticated, TypeOK
    <3>3. UNCHANGED <<proc, connVars, reported, waiting>> /\ proc = "up"
      BY <1>6, <3>2 DEF StatusAuthenticated, procVars, connVars, Selecting
    <3> QED
      BY <3>1, <3>3, Handles DEF Connection!Next
  <2> QED
    BY <2>2, <2>3
<1>7. ASSUME StatusUnauthenticated PROVE Connection!Next
  <2>1. Connection!Polling
    BY <1>1, <1>7 DEF StatusUnauthenticated
  <2>2. Handler(todo') = "other"
    BY <1>7, Starts, Handlers
  <2>3. Connection!Lose
    BY <1>7, <2>1, <2>2 DEF StatusUnauthenticated, Loses, procVars, Connection!Lose
  <2> QED
    BY <2>3 DEF Connection!Next
<1>8. ASSUME HandleRequest PROVE [Connection!Next]_(Connection!vars)
  <2>1. Idling /\ proc = "up" /\ requests # <<>>
    BY <1>1, <1>8 DEF HandleRequest, Selecting
  <2>2. UNCHANGED <<proc, connVars, waiting, reported>>
    BY <1>8 DEF HandleRequest
  <2>3. CASE Head(requests).kind = "validate"
    <3>1. UNCHANGED todo
      BY <1>8, <2>3 DEF HandleRequest
    <3> QED
      BY <2>2, <3>1, Unseen
  <2>4. CASE Head(requests).kind # "validate"
    <3>1. Head(requests) \in Request
      BY <2>1 DEF TypeOK, IsChannel
    <3>2. Head(requests).kind \in Kind /\ Head(requests).caller \in Callers \cup {Nobody}
      BY <2>4, <3>1, Requests
    <3>3. Execute(Head(requests).kind, Head(requests).caller)
      BY <1>8, <2>4 DEF HandleRequest
    <3> QED
      BY <2>1, <2>2, <3>2, <3>3, ExecuteImplements
  <2> QED
    BY <2>3, <2>4
<1>9. ASSUME HandleOther PROVE Connection!Next
  <2>1. Idling /\ proc = "up"
    BY <1>1, <1>9 DEF HandleOther, Selecting
  <2>2. PICK kind \in Kind : Execute(kind, Nobody)
    BY <1>9 DEF HandleOther
  <2>3. UNCHANGED <<proc, connVars, waiting, reported>>
    BY <1>9 DEF HandleOther
  <2> QED
    BY <2>1, <2>2, <2>3, ExecuteImplements
<1>10. ASSUME Drain PROVE Connection!Next
  <2>1. Connection!Polling
    BY <1>1, <1>10 DEF Drain
  <2>2. UNCHANGED <<proc, client, created, state, connected, waiting, todo>>
    BY <1>10 DEF Drain, procVars, connVars
  <2>3. Connection!Drain
    BY <1>10, <2>1, <2>2 DEF Drain, Connection!Drain, Connection!connection
  <2> QED
    BY <2>3 DEF Connection!Next
<1>11. ASSUME NEW c \in Callers, NEW kind \in Kind, SendRequest(c, kind)
       PROVE  UNCHANGED Connection!vars
  BY <1>11, Unseen DEF SendRequest, procVars
<1>12. ASSUME FsEvent \/ EmitStatus \/ UNCHANGED vars PROVE UNCHANGED Connection!vars
  BY <1>12, Unseen DEF FsEvent, EmitStatus, vars, procVars
<1> QED
  BY <1>2, <1>3, <1>4, <1>5, <1>6, <1>7, <1>8, <1>9, <1>10, <1>11, <1>12, RunImplements
     DEF Next, Loop, HandleStatus

-----------------------------------------------------------------------------
(* The theorems                                                            *)

\* IInv holds when the service starts.
LEMMA InitIInv == Init => IInv
<1> SUFFICES ASSUME Init PROVE IInv
  OBVIOUS
<1>1. TypeOK
  <2>1. /\ todo \in Seq(Op) /\ IsChannel(statuses, Status) /\ IsChannel(requests, Request)
        /\ IsChannel(reported, 0..MaxChanges)
    BY DEF Init, IsChannel
  <2>2. caller \in [Callers -> {"idle", "waiting"}] /\ value \in 0..MaxChanges
        /\ cloud \in 0..MaxChanges
    BY DEF Init
  <2> QED
    BY <2>1, <2>2 DEF Init, TypeOK
<1>2. LastTold(FALSE)
  BY DEF Init, LastTold, Validates
<1>3. Idling
  BY <1>2 DEF Init, Idling, Settled, ClientReady, Authenticated
<1> QED
  BY <1>1, <1>3 DEF IInv, HandlerInv

\* The inductive invariant: what holds at each step of each handler.
THEOREM Invariance == Spec => []IInv
<1>1. IInv /\ [Next]_vars => IInv'
  BY TypeOKStep, HandlerInvStep DEF IInv
<1> QED
  BY InitIInv, <1>1, PTL DEF Spec

\* Between two handlers Idling holds.
LEMMA IInvIdling == IInv /\ Selecting => Idling
BY SelectingIdles DEF IInv, Selecting

\* The variables have their types in every reachable state.
THEOREM TypeCorrect == Spec => []TypeOK
BY Invariance, PTL DEF IInv

\* handle_connection_status and the failed connect: the twin's state, the status
\* the web service publishes and the last word to the validation agree.
THEOREM StatusIsPropagated == Spec => []StatusPropagated
<1>1. IInv => StatusPropagated
  <2> SUFFICES ASSUME IInv, Selecting
               PROVE  LET authenticated == state = "Authenticated" IN
                        online = authenticated /\ LastTold(authenticated)
    BY DEF StatusPropagated
  <2>1. Settled
    BY IInvIdling DEF Idling
  <2>2. CASE Authenticated
    <3>1. (state = "Authenticated") = TRUE /\ online = TRUE /\ LastTold(TRUE)
      BY <2>1, <2>2 DEF Settled, Authenticated
    <3> QED
      BY <3>1, Zenon
  <2>3. CASE ~Authenticated
    <3>1. (state = "Authenticated") = FALSE /\ online = FALSE /\ LastTold(FALSE)
      BY <2>1, <2>3 DEF Settled, Authenticated
    <3> QED
      BY <3>1, Zenon
  <2> QED
    BY <2>2, <2>3
<1> QED
  BY Invariance, <1>1, PTL

\* connect_twin and the drain of the reported properties: between two handlers
\* an authenticated twin has nothing left to report.
THEOREM NothingIsUnreported == Spec => []NothingUnreported
<1>1. IInv => NothingUnreported
  BY IInvIdling DEF NothingUnreported, Idling, Authenticated
<1> QED
  BY Invariance, <1>1, PTL
\* Twin::run keeps the order of a connection that the features rely on: senders,
\* connect_twin, authenticated, and its loss before that of the client.
THEOREM Refinement == Spec => ImplementsConnection
<1>1. Init => Connection!Init
  BY OtherHandlers DEF Init, Connection!Init, Connection!Fresh
<1>2. IInv /\ [Next]_vars => [Connection!Next]_(Connection!vars)
  BY StepImplements DEF IInv
<1> QED
  BY Invariance, <1>1, <1>2, PTL DEF Spec, ImplementsConnection, Connection!Spec

\* What TwinConnection says of the loop between two of its steps.
ConnectionInv ==
  /\ Authenticated => client /\ connected
  /\ Handler(todo) = "connect" => client /\ connected
  /\ Handler(todo) = "none" => ClientReady

\* It follows from the steps of TwinConnection alone.
LEMMA ConnectionInvStep ==
  ASSUME ConnectionInv, [Connection!Next]_(Connection!vars)
  PROVE  ConnectionInv'
<1> USE DEF ConnectionInv, Authenticated, ClientReady
<1>1. CASE Connection!Start \/ Connection!End \/ UNCHANGED Connection!vars
  BY <1>1 DEF Connection!Start, Connection!End, Connection!Fresh, Connection!vars
<1>2. CASE Connection!Create \/ Connection!CreateFails
  BY <1>2 DEF Connection!Create, Connection!CreateFails, Connection!Polling
<1>3. CASE Connection!Connect \/ Connection!ConnectStep
  BY <1>3 DEF Connection!Connect, Connection!ConnectStep, Connection!Polling
<1>4. CASE Connection!Handle
  BY <1>4 DEF Connection!Handle, Connection!Pollable, Connection!connection
<1>5. CASE Connection!Lose \/ Connection!Reset
  BY <1>5 DEF Connection!Lose, Connection!Reset, Connection!Polling
<1>6. CASE Connection!Drain
  BY <1>6 DEF Connection!Drain, Connection!connection
<1> QED
  BY <1>1, <1>2, <1>3, <1>4, <1>5, <1>6 DEF Connection!Next

\* By TwinConnection alone Twin::run polls no future that has completed, and when
\* it is authenticated there is a client, and the features have their senders.
THEOREM ConnectionIsConsistent ==
  /\ ImplementsConnection => []Connection!Consistent
  /\ Spec => []Connection!Consistent
<1>1. Connection!Init => ConnectionInv
  BY DEF Connection!Init, Connection!Fresh, ConnectionInv, Authenticated, ClientReady
<1>2. ConnectionInv /\ [Connection!Next]_(Connection!vars) => ConnectionInv'
  BY ConnectionInvStep
<1>3. ConnectionInv => Connection!Consistent
  BY DEF ConnectionInv, Connection!Consistent, Connection!Polling, Connection!Pollable,
         Authenticated, ClientReady
<1>4. ImplementsConnection => []Connection!Consistent
  BY <1>1, <1>2, <1>3, PTL DEF ImplementsConnection, Connection!Spec
<1> QED
  BY <1>4, Refinement
=============================================================================
