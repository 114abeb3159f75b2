------------------------------ MODULE TwinLoop ------------------------------
(***************************************************************************)
(* Twin::run: one biased select loop over the IoT Hub client, its          *)
(* connection status, the commands of web service, cloud and file watcher, *)
(* and the properties the features report.  All channels are bounded, and  *)
(* the loop itself sends to channels only it receives from: a handler that *)
(* finds one full blocks the loop until the watchdog kills the service.    *)
(* One feature stands for all of them: value is what it has to report.     *)
(***************************************************************************)
EXTENDS Naturals, Sequences

CONSTANTS
  Callers,    \* web service requests that may be pending at a time
  Capacity,   \* capacity of each channel
  MaxChanges  \* bound: changes of what there is to report

ASSUME CapacityAssumption == Capacity \in Nat \ {0} /\ MaxChanges \in Nat

VARIABLES
  proc, exit,       \* the process, and why it ended
  client, created,  \* the client, and the future that creates it
  state,            \* TwinState
  waiting,          \* waiting_for_reboot
  todo,             \* what the current handler has still to do
  statuses, requests, reported,  \* the channels
  caller,           \* who waits for a reply
  connected,        \* the features have their senders
  told,             \* the last ValidateUpdate the validation was given
  online,           \* what the web service publishes
  rebooting,        \* systemd is about to reboot
  value, cloud      \* what there is to report, and what the client was given

procVars == <<proc, exit, rebooting>>
connVars == <<client, created, state, connected>>
vars == <<procVars, connVars, waiting, todo, statuses, requests, reported,
          caller, told, online, value, cloud>>

Nobody == "nobody"
Status == {"authenticated", "soft", "hard"}
Kind == {"change", "reboot", "disabled"}
Request == [kind : Kind, caller : Callers \cup {Nobody}]
           \cup [kind : {"validate"}, authenticated : BOOLEAN]

\* The steps of a handler, each up to its next await.
Op == [op : {"report", "connected", "reset"}]
      \cup [op : {"validate", "publish"}, authenticated : BOOLEAN]
      \cup [op : {"finish"}, caller : Callers \cup {Nobody}, reboot : BOOLEAN]

Report == [op |-> "report"]
Connected == [op |-> "connected"]
Reset == [op |-> "reset"]
Validate(authenticated) == [op |-> "validate", authenticated |-> authenticated]
Publish(authenticated) == [op |-> "publish", authenticated |-> authenticated]

IsChannel(channel, S) == channel \in Seq(S) /\ Len(channel) <= Capacity

TypeOK ==
  /\ proc \in {"up", "down"}
  /\ exit \in {"none", "signal", "watcher", "client", "stale", "watchdog", "reboot"}
  /\ client \in BOOLEAN
  /\ created \in {"pending", "done"}
  /\ state \in {"Uninitialized", "Initialized", "Authenticated"}
  /\ waiting \in BOOLEAN /\ connected \in BOOLEAN
  /\ told \in BOOLEAN /\ online \in BOOLEAN /\ rebooting \in BOOLEAN
  /\ todo \in Seq(Op)
  /\ IsChannel(statuses, Status)
  /\ IsChannel(requests, Request)
  /\ IsChannel(reported, 0..MaxChanges)
  /\ caller \in [Callers -> {"idle", "waiting"}]
  /\ value \in 0..MaxChanges /\ cloud \in 0..MaxChanges

Init ==
  /\ proc = "up" /\ exit = "none" /\ rebooting = FALSE
  /\ client = FALSE /\ created = "pending" /\ state = "Uninitialized" /\ connected = FALSE
  /\ waiting = FALSE /\ todo = <<>>
  /\ statuses = <<>> /\ requests = <<>> /\ reported = <<>>
  /\ caller = [c \in Callers |-> "idle"]
  /\ told = FALSE /\ online = FALSE
  /\ value = 0 /\ cloud = 0

\* The process ends: channels, handlers and waiting callers go with it.
Exit(reason) ==
  /\ proc' = "down" /\ exit' = reason /\ rebooting' = FALSE
  /\ client' = FALSE /\ created' = "pending" /\ state' = "Uninitialized"
  /\ connected' = FALSE /\ waiting' = FALSE /\ todo' = <<>>
  /\ statuses' = <<>> /\ requests' = <<>> /\ reported' = <<>>
  /\ caller' = [c \in Callers |-> "idle"]
  /\ told' = FALSE /\ online' = FALSE
  /\ UNCHANGED value

Start ==
  /\ proc = "down"
  /\ proc' = "up" /\ exit' = "none"
  /\ UNCHANGED <<rebooting, connVars, waiting, todo, statuses, requests, reported,
                 caller, told, online, value, cloud>>

\* The loop is at its select!, polling the branches from top to bottom.
Selecting == proc = "up" /\ todo = <<>>

Full(channel) == Len(channel) >= Capacity

-----------------------------------------------------------------------------
(* Branches of the select!, in their order.                                *)

\* shutdown reports what is left, if there is a client.
Shutdown(reason) ==
  /\ Selecting
  /\ cloud' = IF client /\ reported # <<>> THEN reported[Len(reported)] ELSE cloud
  /\ Exit(reason)

Signal == Shutdown("signal")

FsWatcherExit == Shutdown("watcher")

ConnectOk ==
  /\ Selecting /\ ~client /\ created = "pending"
  /\ client' = TRUE /\ created' = "done"
  /\ UNCHANGED <<procVars, state, connected, waiting, todo, statuses, requests, reported,
                 caller, told, online, value, cloud>>

\* Mutant: the completed future is not replaced.
ConnectErrMutant ==
  /\ Selecting /\ ~client /\ created = "pending"
  /\ created' = "done"
  /\ todo' = <<Validate(FALSE)>>
  /\ UNCHANGED <<procVars, client, state, connected, waiting, statuses, requests,
                 reported, caller, told, online, value, cloud>>

ConnectErr ==
  /\ Selecting /\ ~client /\ created = "pending"
  /\ created' = "done"
  /\ todo' = <<Validate(FALSE), Reset>>
  /\ UNCHANGED <<procVars, client, state, connected, waiting, statuses, requests,
                 reported, caller, told, online, value, cloud>>

\* handle_connection_status connects the features unless it already did.
Connects == state # "Authenticated"

\* Mutant: the loss of the connection is not remembered.
LosesMutant == state' = state

Loses == state' = IF state = "Authenticated" THEN "Initialized" ELSE state

\* connect_twin fails without a client: the status was one of a client that
\* has been reset meanwhile.
StatusStale ==
  /\ Selecting /\ statuses # <<>> /\ Head(statuses) = "authenticated"
  /\ Connects /\ ~client
  /\ Exit("stale") /\ UNCHANGED cloud

\* Mutant: the features report only on the first connection.
StatusAuthenticatedMutant ==
  /\ Selecting /\ statuses # <<>> /\ Head(statuses) = "authenticated"
  /\ Connects => client
  /\ statuses' = Tail(statuses)
  /\ connected' = TRUE
  /\ todo' = (IF connected THEN <<>> ELSE <<Report>>)
             \o (IF Connects THEN <<Connected>> ELSE <<>>)
             \o <<Validate(TRUE), Publish(TRUE)>>
  /\ UNCHANGED <<procVars, client, created, state, waiting, requests, reported, caller,
                 told, online, value, cloud>>

StatusAuthenticated ==
  /\ Selecting /\ statuses # <<>> /\ Head(statuses) = "authenticated"
  /\ Connects => client
  /\ statuses' = Tail(statuses)
  /\ connected' = TRUE
  /\ todo' = (IF Connects THEN <<Report, Connected>> ELSE <<>>)
             \o <<Validate(TRUE), Publish(TRUE)>>
  /\ UNCHANGED <<procVars, client, created, state, waiting, requests, reported, caller,
                 told, online, value, cloud>>

\* BadCredential and CommunicationError ("hard") restart the client.
StatusUnauthenticated ==
  /\ Selecting /\ statuses # <<>> /\ Head(statuses) # "authenticated"
  /\ statuses' = Tail(statuses)
  /\ Loses
  /\ todo' = <<Validate(FALSE), Publish(FALSE)>>
             \o (IF Head(statuses) = "hard" THEN <<Reset>> ELSE <<>>)
  /\ UNCHANGED <<procVars, client, created, connected, waiting, requests, reported,
                 caller, told, online, value, cloud>>

HandleStatus == StatusStale \/ StatusAuthenticated \/ StatusUnauthenticated

\* handle_request: run the command, reply, and wait for the reboot it may have
\* triggered; a disabled feature only replies.
Execute(kind, c) ==
  /\ IF kind = "change" THEN value' \in {value, value + 1} \cap 0..MaxChanges
                        ELSE UNCHANGED value
  /\ IF kind = "reboot" THEN rebooting' \in {rebooting, TRUE} ELSE UNCHANGED rebooting
  /\ todo' = (IF kind = "change" /\ connected THEN <<Report>> ELSE <<>>)
             \o <<[op |-> "finish", caller |-> c, reboot |-> kind = "reboot"]>>

HandleRequest ==
  /\ Selecting /\ statuses = <<>> /\ ~waiting /\ requests # <<>>
  /\ requests' = Tail(requests)
  /\ LET request == Head(requests) IN
       IF request.kind = "validate"
       THEN told' = request.authenticated /\ UNCHANGED <<value, rebooting, todo>>
       ELSE Execute(request.kind, request.caller) /\ UNCHANGED told
  /\ UNCHANGED <<proc, exit, connVars, waiting, statuses, reported, caller, online, cloud>>

\* A command of the other streams: cloud, intervals, debounced signals.
HandleOther ==
  /\ Selecting /\ statuses = <<>> /\ ~waiting
  /\ \E kind \in Kind : Execute(kind, Nobody)
  /\ UNCHANGED <<proc, exit, connVars, waiting, statuses, requests, reported, caller,
                 told, online, cloud>>

\* A property is reported if there is a client, else it is dropped.
Drain ==
  /\ Selecting /\ statuses = <<>> /\ (waiting \/ requests = <<>>) /\ reported # <<>>
  /\ reported' = Tail(reported)
  /\ cloud' = IF client THEN Head(reported) ELSE cloud
  /\ UNCHANGED <<procVars, connVars, waiting, todo, statuses, requests, caller, told,
                 online, value>>

\* twin_report or a feature's connect_twin fails and ends the loop.
ClientFails ==
  /\ Selecting /\ client
  /\ \/ reported # <<>>
     \/ statuses # <<>> /\ Head(statuses) = "authenticated"
  /\ Exit("client") /\ UNCHANGED cloud

-----------------------------------------------------------------------------
(* The steps of a handler.                                                 *)

Next1(op) == proc = "up" /\ todo # <<>> /\ Head(todo).op = op /\ todo' = Tail(todo)

\* Mutant: the channel has no bound.
RunReportMutant ==
  /\ Next1("report")
  /\ reported' = Append(reported, value)
  /\ UNCHANGED <<procVars, connVars, waiting, statuses, requests, caller, told, online,
                 value, cloud>>

RunReport ==
  /\ Next1("report") /\ ~Full(reported)
  /\ reported' = Append(reported, value)
  /\ UNCHANGED <<procVars, connVars, waiting, statuses, requests, caller, told, online,
                 value, cloud>>

RunConnected ==
  /\ Next1("connected")
  /\ state' = "Authenticated"
  /\ UNCHANGED <<procVars, client, created, connected, waiting, statuses, requests,
                 reported, caller, told, online, value, cloud>>

\* Mutant: a full channel drops the request.
RunValidateMutant ==
  /\ Next1("validate")
  /\ requests' = IF Full(requests) THEN requests
                 ELSE Append(requests, [kind |-> "validate",
                                        authenticated |-> Head(todo).authenticated])
  /\ UNCHANGED <<procVars, connVars, waiting, statuses, reported, caller, told, online,
                 value, cloud>>

\* request_validate_update sends to the channel the loop itself receives from.
RunValidate ==
  /\ Next1("validate") /\ ~Full(requests)
  /\ requests' = Append(requests, [kind |-> "validate",
                                   authenticated |-> Head(todo).authenticated])
  /\ UNCHANGED <<procVars, connVars, waiting, statuses, reported, caller, told, online,
                 value, cloud>>

RunPublish ==
  /\ Next1("publish")
  /\ online' = Head(todo).authenticated
  /\ UNCHANGED <<procVars, connVars, waiting, statuses, requests, reported, caller, told,
                 value, cloud>>

RunReset ==
  /\ Next1("reset")
  /\ client' = FALSE /\ created' = "pending"
  /\ UNCHANGED <<procVars, state, connected, waiting, statuses, requests, reported,
                 caller, told, online, value, cloud>>

\* Whether the reboot was accepted makes no difference to waiting_for_reboot.
RunFinish ==
  /\ Next1("finish")
  /\ caller' = [c \in Callers |-> IF c = Head(todo).caller THEN "idle" ELSE caller[c]]
  /\ waiting' = (waiting \/ Head(todo).reboot)
  /\ UNCHANGED <<procVars, connVars, statuses, requests, reported, told, online, value,
                 cloud>>

Run == RunReport \/ RunConnected \/ RunValidate \/ RunPublish \/ RunReset \/ RunFinish

\* Mutant: a task of its own keeps the watchdog quiet.
BlockedMutant == FALSE

\* The handler waits for room in a channel that only the loop empties.
Blocked ==
  /\ proc = "up" /\ todo # <<>>
  /\ \/ Head(todo).op = "report" /\ Full(reported)
     \/ Head(todo).op = "validate" /\ Full(requests)

WatchdogKills == Blocked /\ Exit("watchdog") /\ UNCHANGED cloud

-----------------------------------------------------------------------------
(* The rest of the service and of the device.                              *)

\* exec_request of the web service: the reply is awaited.
SendRequest(c, kind) ==
  /\ proc = "up" /\ caller[c] = "idle" /\ ~Full(requests)
  /\ requests' = Append(requests, [kind |-> kind, caller |-> c])
  /\ caller' = [caller EXCEPT ![c] = "waiting"]
  /\ UNCHANGED <<procVars, connVars, waiting, todo, statuses, reported, told, online,
                 value, cloud>>

\* The file watcher's task.
FsEvent ==
  /\ proc = "up" /\ ~Full(requests)
  /\ requests' = Append(requests, [kind |-> "change", caller |-> Nobody])
  /\ UNCHANGED <<procVars, connVars, waiting, todo, statuses, reported, caller, told,
                 online, value, cloud>>

\* The client's connection to the cloud; external.
EmitStatus ==
  /\ proc = "up" /\ client /\ ~Full(statuses)
  /\ \E status \in Status : statuses' = Append(statuses, status)
  /\ UNCHANGED <<procVars, connVars, waiting, todo, requests, reported, caller, told,
                 online, value, cloud>>

Reboots == proc = "up" /\ rebooting /\ Exit("reboot") /\ UNCHANGED cloud

Loop == ConnectOk \/ ConnectErr \/ HandleStatus \/ HandleRequest \/ HandleOther
        \/ Drain \/ Run

Ends == Signal \/ FsWatcherExit \/ ClientFails \/ WatchdogKills \/ Reboots

Next ==
  \/ Start \/ Loop \/ Ends
  \/ \E c \in Callers, kind \in Kind : SendRequest(c, kind)
  \/ FsEvent \/ EmitStatus

Spec == Init /\ [][Next]_vars

\* The executor polls the loop, systemd restarts the service and reboots.  A
\* select over all command streams takes turns, and no stream is ready at
\* every single turn.
FairSpec ==
  /\ Spec
  /\ WF_vars(Start) /\ WF_vars(Run) /\ WF_vars(HandleStatus)
  /\ SF_vars(HandleRequest) /\ SF_vars(Drain)
  /\ WF_vars(WatchdogKills) /\ WF_vars(Reboots)

-----------------------------------------------------------------------------
(* Properties                                                              *)

\* What a handler that has these steps to do is to the connection.
Handler(steps) ==
  IF steps = <<>> THEN "none"
  ELSE IF \E i \in DOMAIN steps : steps[i] = Connected THEN "connect" ELSE "other"

Connection ==
  INSTANCE TwinConnection WITH
    auth <- state = "Authenticated", tx <- connected, handler <- Handler(todo)

\* Statuses that are handled late, failed connects, resets and the ends of
\* handlers in between keep the order of a connection: senders, connect_twin,
\* authenticated, and its loss before that of the client; and no future that
\* has completed is polled again.
ImplementsConnection == Connection!Spec

Validates == {i \in DOMAIN requests : requests[i].kind = "validate"}

\* The validation has this answer, or will have it once its requests are handled.
LastTold(authenticated) ==
  \/ Validates = {} /\ told = authenticated
  \/ \E i \in Validates : /\ requests[i].authenticated = authenticated
                          /\ \A j \in Validates : j <= i

\* Between two handlers the twin's state, the published online status and the
\* last word to the update validation agree, across losses, resets, failed
\* connects and statuses that arrive late.
StatusPropagated ==
  Selecting => LET authenticated == state = "Authenticated" IN
                 online = authenticated /\ LastTold(authenticated)

\* The newest value was given to the client or waits in the channel.
Reported == value = IF reported = <<>> THEN cloud ELSE reported[Len(reported)]

\* An authenticated twin has nothing left to report: properties dropped without
\* a client are reported anew when the features are connected again.
NothingUnreported == Selecting /\ state = "Authenticated" => Reported

\* A web service request is answered, or its process ends, or the loop waits
\* for a reboot: no self-blocked loop keeps it forever.
Answered == \A c \in Callers : caller[c] = "waiting" ~> caller[c] = "idle" \/ waiting

\* A connection to the cloud reaches the update validation, unless it is lost
\* again, the process ends or the loop waits for a reboot.
ValidationTold ==
  state = "Authenticated" ~> told \/ state # "Authenticated" \/ waiting
=============================================================================
