----------------------------- MODULE Reporting -----------------------------
(***************************************************************************)
(* What every reporting feature of Twin shares: it is created with the     *)
(* process, gets its sender when the cloud authenticates, runs one handler *)
(* at a time on the loop, and puts patches into the channel of reported    *)
(* properties, which the loop gives to the client or, without one, drops.  *)
(* A behaviour follows one feature: features share nothing but the loop,   *)
(* which TwinLoop models with its channels that may be full.               *)
(*                                                                         *)
(* A patch is a function from property names to values; the twin merges    *)
(* it.  cache is what the feature keeps of what it reported, seen what its *)
(* running handler has read or will write, world what it reads: D-Bus      *)
(* services and files.                                                     *)
(***************************************************************************)
EXTENDS CommandStream, SequencesExt

CONSTANTS
  Features,       \* the features that behaviours follow
  MaxDisruptions, \* bound: failing calls, lost connections, ends of the process
  MaxChanges,     \* bound: changes of the world and commands
  MaxReported     \* bound: patches in the channel when a command is taken

ASSUME ReportingAssumption ==
  /\ MaxDisruptions \in Nat /\ MaxChanges \in Nat
  /\ MaxReported \in Nat \ {0}

VARIABLES
  feature,      \* the feature this behaviour follows
  proc,         \* the process
  client,       \* the loop has a client
  auth,         \* state = TwinState::Authenticated
  tx,           \* the feature has its sender
  pc,           \* the next step of the running handler
  connecting,   \* that handler is connect_twin
  waiting,      \* waiting_for_reboot
  reported,     \* the channel of reported properties
  cloud,        \* the reported properties of the twin
  web,          \* what the feature has published locally
  world, cache, seen,
  events,       \* file events the watcher has queued for the feature
  missed,       \* the world changed and nothing will tell the feature
  budget        \* what is left of the bounds

loopVars == <<feature, proc, client, auth, tx, connecting, waiting>>
worldVars == <<world, budget>>
vars == <<loopVars, pc, reported, cloud, web, world, cache, seen, events,
          missed, budget, streamVars>>

Nothing == <<>>  \* the empty patch

\* The values of the patch replace those of the twin.
Merged(twin, patch) ==
  [k \in DOMAIN twin \cup DOMAIN patch |-> IF k \in DOMAIN patch THEN patch[k] ELSE twin[k]]

\* The patches under way that name the property k.
Naming(k) == {i \in DOMAIN reported : k \in DOMAIN reported[i]}

\* The twin once the patches under way have been merged.
Shown ==
  [k \in DOMAIN cloud \cup UNION {DOMAIN reported[i] : i \in DOMAIN reported} |->
     IF Naming(k) = {} THEN cloud[k] ELSE reported[Max(Naming(k))][k]]

Holds(twin, patch) == \A k \in DOMAIN patch : k \in DOMAIN twin /\ twin[k] = patch[k]

\* Features that look again at their interval, whatever the signals say.
Ticking == {"wifi", "modem", "provisioning"}

Spend(what) == budget[what] > 0 /\ budget' = [budget EXCEPT ![what] = @ - 1]

-----------------------------------------------------------------------------
(* The process                                                             *)

\* Twin::new: the feature's constructor and its connect_web_service.
New(f, initial, published, stream) ==
  /\ feature = f /\ proc = "down"
  /\ proc' = "up" /\ cache' = initial /\ web' = published
  /\ Spawned(stream)
  /\ UNCHANGED <<feature, client, auth, tx, pc, connecting, waiting, reported,
                 cloud, seen, events, missed, worldVars>>

\* The end of the process; what it kept in memory is gone.
Exit ==
  /\ proc' = "down" /\ client' = FALSE /\ auth' = FALSE /\ tx' = FALSE
  /\ pc' = "idle" /\ connecting' = FALSE /\ waiting' = FALSE
  /\ reported' = <<>> /\ web' = Nothing /\ cache' = Nothing /\ seen' = Nothing
  /\ events' = {} /\ missed' = FALSE
  /\ Spawned("unused")
  /\ UNCHANGED feature

\* The watchdog or a crash: what the process has written stays in its files.
Kill ==
  /\ proc = "up" /\ Spend("disruptions")
  /\ Exit
  /\ UNCHANGED <<cloud, world>>

\* A termination signal: with a client, shutdown reports what is left.
Stop ==
  /\ proc = "up" /\ pc = "idle" /\ Spend("disruptions")
  /\ cloud' = IF client THEN Shown ELSE cloud
  /\ Exit
  /\ UNCHANGED world

-----------------------------------------------------------------------------
(* The loop                                                                *)

Idle == proc = "up" /\ pc = "idle"

\* The loop may take a command for feature f.
Ready(f) == feature = f /\ Idle /\ ~waiting /\ Len(reported) < MaxReported

At(f, step) == feature = f /\ proc = "up" /\ pc = step

ConnectClient ==
  /\ Idle /\ ~client
  /\ client' = TRUE
  /\ UNCHANGED <<feature, proc, auth, tx, connecting, waiting, pc, reported, cloud,
                 web, cache, seen, events, missed, worldVars, streamVars>>

FirstStep ==
  [network |-> "describe", wifi |-> "units", modem |-> "paths",
   provisioning |-> "report", consent |-> "general", system_info |-> "report",
   wait_online |-> "report", factory_reset |-> "report", ssh_ca |-> "report"]

ASSUME FeaturesAssumption == Features \subseteq DOMAIN FirstStep

\* connect_twin begins; its end makes the state Authenticated.
Authenticated ==
  /\ Idle /\ client /\ ~auth
  /\ tx' = TRUE /\ connecting' = TRUE /\ pc' = FirstStep[feature]
  /\ UNCHANGED <<feature, proc, client, auth, waiting, reported, cloud, web, cache,
                 seen, events, missed, worldVars, streamVars>>

\* Unauthenticated, with a reason that keeps the client.
SoftLoss ==
  /\ Idle /\ auth /\ Spend("disruptions")
  /\ auth' = FALSE
  /\ UNCHANGED <<feature, proc, client, tx, connecting, waiting, pc, reported, cloud,
                 web, world, cache, seen, events, missed, streamVars>>

\* Mutant: the state stays Authenticated, so nobody connects the features again.
HardLossMutant ==
  /\ Idle /\ client /\ Spend("disruptions")
  /\ client' = FALSE
  /\ UNCHANGED <<feature, proc, auth, tx, connecting, waiting, pc, reported, cloud, web,
                 world, cache, seen, events, missed, streamVars>>

\* Unauthenticated, with a reason that makes the loop start over.
HardLoss ==
  /\ Idle /\ client /\ Spend("disruptions")
  /\ auth' = FALSE /\ client' = FALSE
  /\ UNCHANGED <<feature, proc, tx, connecting, waiting, pc, reported, cloud, web,
                 world, cache, seen, events, missed, streamVars>>

\* A report is dropped without a client; one given to a client that has lost
\* its connection may or may not arrive.
Drain ==
  /\ Idle /\ reported # <<>>
  /\ reported' = Tail(reported)
  /\ \/ client /\ cloud' = Merged(cloud, Head(reported))
     \/ ~(client /\ auth) /\ cloud' = cloud
  /\ UNCHANGED <<loopVars, pc, web, cache, seen, events, missed, worldVars, streamVars>>

-----------------------------------------------------------------------------
(* Handlers.  Each of these says nothing of cache, seen, events, missed,   *)
(* web, the stream and the world: the feature's step does.                 *)

Send(patches) == reported' = IF tx THEN reported \o patches ELSE reported

Continue(step, patches) ==
  /\ pc' = step
  /\ Send(patches)
  /\ UNCHANGED <<loopVars, cloud>>

\* The end of a handler; with that of connect_twin the state is Authenticated.
Finish(patches) ==
  /\ pc' = "idle" /\ connecting' = FALSE
  /\ auth' = (auth \/ connecting)
  /\ Send(patches)
  /\ UNCHANGED <<feature, proc, client, tx, waiting, cloud>>

\* A handler fails: connect_twin takes the service down, a command is logged.
\* A change nobody will tell of again is lost with it.
Fail(lost) ==
  /\ \/ connecting /\ Exit
     \/ /\ ~connecting
        /\ pc' = "idle" /\ missed' = (missed \/ lost)
        /\ UNCHANGED <<loopVars, reported, web, cache, seen, events, streamVars>>
  /\ UNCHANGED cloud

\* A Tick from the debounced stream.
Notified ==
  /\ Ready(feature) /\ TakeTick
  /\ Continue(FirstStep[feature], <<>>)
  /\ UNCHANGED <<web, cache, seen, events, missed, worldVars>>

\* A Tick from tick_stream: at once, and then at its interval.
Tick ==
  /\ feature \in {"wifi", "modem"} /\ Ready(feature)
  /\ Continue(FirstStep[feature], <<>>)
  /\ UNCHANGED <<web, cache, seen, events, missed, worldVars, streamVars>>

StreamWork ==
  /\ proc = "up"
  /\ Resolve \/ Arm \/ Elapse \/ Emit
  /\ UNCHANGED <<loopVars, pc, reported, cloud, web, cache, seen, events, missed,
                 worldVars>>

\* A timer that was armed when the source ends was the feature's last chance.
StreamBreaks ==
  /\ proc = "up" /\ Spend("disruptions")
  /\ \/ ResolveFails /\ UNCHANGED missed
     \/ SourceEnds /\ missed' = (missed \/ (deadline /\ feature \notin Ticking))
  /\ UNCHANGED <<loopVars, pc, reported, cloud, web, world, cache, seen, events>>

\* The world changes to w, and nothing tells the feature.
WorldBecomes(w) ==
  /\ world' = w
  /\ UNCHANGED <<loopVars, pc, reported, cloud, web, cache, seen, events, missed,
                 streamVars>>

\* The world changes to w; if the feature is signal driven it hears of it, or not.
Changed(w) ==
  /\ Spend("changes")
  /\ world' = w
  /\ Signal
  /\ missed' = (missed \/ (source \in {"pending", "gone"} /\ feature \notin Ticking))
  /\ UNCHANGED <<loopVars, pc, reported, cloud, web, cache, seen, events>>

\* A watched file changes; the watcher queues an event while the process lives.
FileChanged(file, w) ==
  /\ world' = w
  /\ events' = IF proc = "up" THEN events \cup {file} ELSE events
  /\ UNCHANGED <<loopVars, pc, reported, cloud, web, cache, seen, missed, streamVars>>

=============================================================================
