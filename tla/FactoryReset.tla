---------------------------- MODULE FactoryReset ----------------------------
(***************************************************************************)
(* The feature factory_reset and the reboot it shares with the feature     *)
(* reboot: the request is left in the boot environment for the initramfs,  *)
(* which performs it at the next boot and leaves its result for that boot  *)
(* in /run.  Requests are numbered by what is left of their bound.         *)
(***************************************************************************)
EXTENDS Reporting, FiniteSets

CONSTANTS
  Keys,      \* what the configuration lets a reset preserve
  MaxResets  \* bound: requests

ASSUME ResetsAssumption == MaxResets \in Nat

NoReset == 0

\* apps: a valid custom configuration exists; request: the bootloader's
\* variable; result: of this boot; rebooting: reboot.target is to be started;
\* asked: requests so far; refused: answered with an error before anything was
\* done; performed: by the initramfs.
ResetWorlds ==
  [apps : BOOLEAN, request : 0..MaxResets, result : 0..MaxResets,
   rebooting : BOOLEAN, asked : 0..MaxResets,
   refused : SUBSET (1..MaxResets), performed : SUBSET (1..MaxResets)]

KeysOf(w) == Keys \cup (IF w.apps THEN {"applications"} ELSE {})

\* FactoryResetReport: without a result the field is left out.
ResetView ==
  IF world.result = NoReset THEN [keys |-> KeysOf(world)]
  ELSE [keys |-> KeysOf(world), result |-> world.result]

ResetNew == New("factory_reset", ResetView, ResetView, "unused")

\* A report without a result says nothing of it: the twin goes on showing that
\* of an earlier boot.
ResetConnect ==
  /\ At("factory_reset", "report")
  /\ Finish(<<cache>>)
  /\ UNCHANGED <<web, cache, seen, events, missed, worldVars, streamVars>>

\* A DirModified event: the directory is read again, or that fails.  The keys
\* come from a hash map: in another order they look changed.
KeysModified ==
  /\ Ready("factory_reset") /\ "factory-reset.d" \in events
  /\ \/ /\ KeysOf(world) # cache.keys \/ Cardinality(cache.keys) > 1
        /\ cache' = [cache EXCEPT !.keys = KeysOf(world)]
        /\ Finish(<<[keys |-> KeysOf(world)]>>)
        /\ web' = cache' /\ missed' = FALSE
        /\ UNCHANGED budget
     \/ /\ KeysOf(world) = cache.keys
        /\ Finish(<<>>)
        /\ missed' = FALSE
        /\ UNCHANGED <<cache, web, budget>>
     \/ /\ Spend("disruptions")
        /\ Finish(<<>>)
        /\ missed' = TRUE
        /\ UNCHANGED <<cache, web>>
  /\ events' = events \ {"factory-reset.d"}
  /\ UNCHANGED <<seen, world, streamVars>>

\* Whether it succeeds or not, the command makes the loop wait for the reboot.
RebootCommandEnds(w) ==
  /\ world' = w
  /\ pc' = "idle" /\ waiting' = TRUE
  /\ UNCHANGED <<feature, proc, client, auth, tx, connecting, reported, cloud, web,
                 cache, seen, events, missed, streamVars>>

\* Mutant: the request is stored before its topics are checked.
ResetToFactorySettingsMutant ==
  /\ Ready("factory_reset") /\ world.asked < MaxResets
  /\ \E preserve \in SUBSET (Keys \cup {"applications"}) :
       LET id == world.asked + 1
           asked == [world EXCEPT !.asked = id, !.request = id]
       IN \/ /\ ~(preserve \subseteq KeysOf(world))
             /\ RebootCommandEnds([asked EXCEPT !.refused = @ \cup {id}])
             /\ UNCHANGED budget
          \/ /\ preserve \subseteq KeysOf(world)
             /\ world' = asked
             /\ Continue("reboot", <<>>)
             /\ UNCHANGED <<web, cache, seen, events, missed, budget, streamVars>>

\* reset_to_factory_settings, up to the reboot.
ResetToFactorySettings ==
  /\ Ready("factory_reset") /\ world.asked < MaxResets
  /\ \E preserve \in SUBSET (Keys \cup {"applications"}), stored \in BOOLEAN :
       LET id == world.asked + 1
           asked == [world EXCEPT !.asked = id]
       IN \/ /\ ~(preserve \subseteq KeysOf(world)) /\ ~stored
             /\ RebootCommandEnds([asked EXCEPT !.refused = @ \cup {id}])
             /\ UNCHANGED budget
          \/ /\ preserve \subseteq KeysOf(world) /\ ~stored /\ Spend("disruptions")
             /\ RebootCommandEnds([asked EXCEPT !.refused = @ \cup {id}])
          \/ /\ preserve \subseteq KeysOf(world) /\ stored
             /\ world' = [asked EXCEPT !.request = id]
             /\ Continue("reboot", <<>>)
             /\ UNCHANGED <<web, cache, seen, events, missed, budget, streamVars>>

\* The command reboot of the portal or the API.
RebootRequested ==
  /\ Ready("factory_reset") /\ Spend("changes")
  /\ Continue("reboot", <<>>)
  /\ UNCHANGED <<web, world, cache, seen, events, missed, streamVars>>

\* systemd::reboot writes the reason and spawns the rest.
Reboot ==
  /\ At("factory_reset", "reboot")
  /\ \/ RebootCommandEnds([world EXCEPT !.rebooting = TRUE]) /\ UNCHANGED budget
     \/ RebootCommandEnds(world) /\ Spend("disruptions")

\* The start of reboot.target fails: it is logged, and the loop goes on waiting.
\* Or the process ended within the delay before it.
RebootTargetFails ==
  /\ feature = "factory_reset" /\ world.rebooting
  /\ \/ proc = "up" /\ Spend("disruptions")
     \/ proc = "down" /\ UNCHANGED budget
  /\ WorldBecomes([world EXCEPT !.rebooting = FALSE])

\* The initramfs performs the request it finds and clears it; /run is new.
Boot(w) ==
  [w EXCEPT !.request = NoReset, !.result = w.request, !.rebooting = FALSE,
            !.performed = @ \cup ({w.request} \ {NoReset})]

DeviceReboots ==
  /\ feature = "factory_reset" /\ world.rebooting
  /\ world' = Boot(world)
  /\ Exit
  /\ UNCHANGED <<cloud, budget>>

PowerCycle ==
  /\ feature = "factory_reset" /\ Spend("disruptions")
  /\ world' = Boot(world)
  /\ Exit
  /\ UNCHANGED cloud

\* A file of the directory becomes valid or invalid.  The watch hears of files
\* that come, go and move, and not of one that is written in place.
CustomConfigChanges ==
  /\ feature = "factory_reset" /\ Spend("changes")
  /\ LET changed == [world EXCEPT !.apps = ~@]
     IN \/ FileChanged("factory-reset.d", changed)
        \/ /\ proc = "up" /\ missed' = TRUE
           /\ world' = changed
           /\ UNCHANGED <<loopVars, pc, reported, cloud, web, cache, seen, events,
                          streamVars>>

=============================================================================
