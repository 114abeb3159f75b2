----------------------------- MODULE FsWatcher -----------------------------
(***************************************************************************)
(* FsWatcher: one inotify instance for all features.  Persistent watches   *)
(* report a path again and again, debounced per descriptor; oneshots       *)
(* report that a target appeared, and go.  Features register while they    *)
(* are constructed, files change meanwhile, the task that serves the       *)
(* events blocks on the bounded channel of the loop, and every failure     *)
(* ends the process, which systemd restarts.                               *)
(***************************************************************************)
EXTENDS Naturals, Sequences

CONSTANTS
  Modified,      \* the persistent watches
  Oneshot,       \* the oneshot watches; each has a target of its own
  WdOf,          \* the descriptor a watch is on
  QueueLen, Capacity,  \* events the kernel queues, commands the loop's channel holds
  MaxChanges, MaxRestarts  \* bounds

Watch == Modified \cup Oneshot
Wd == {WdOf[w] : w \in Watch}

ASSUME WatchAssumption == WdOf \in [Watch -> Wd] /\ Modified \cap Oneshot = {}
ASSUME BoundsAssumption ==
  /\ QueueLen \in Nat \ {0} /\ Capacity \in Nat \ {0}
  /\ MaxChanges \in Nat /\ MaxRestarts \in Nat

VARIABLES
  version, exists,  \* changes of each watched path so far; targets that exist
  kernel, queue,    \* descriptors the kernel watches, and the events it queued
  pc,               \* where the process or the watcher's task is
  reg,              \* how far the registration of each watch is
  created,          \* the table of oneshots
  deadline,         \* the debounce deadline of each descriptor
  todo,             \* watches the task has still to check or to send
  unchecked,        \* history: targets that were there when the race check failed
  requests,         \* the channel to the loop
  seen, told,       \* what each feature read last, how often it was told
  restarts

fsVars == <<version, exists>>
featureVars == <<seen, told>>
vars == <<fsVars, kernel, queue, pc, reg, created, deadline, todo, unchecked,
          requests, featureVars, restarts>>

\* What a feature read last: a version, or nothing yet.
Unread == {}
Reading(w) == {version[w]}
Overflow == [wd |-> "overflow"]
Event == [wd : Wd, name : Oneshot \cup {"entry"}] \cup {Overflow}

TypeOK ==
  /\ version \in [Modified -> 0..MaxChanges]
  /\ exists \subseteq Oneshot
  /\ kernel \subseteq Wd
  /\ queue \in Seq(Event) /\ Len(queue) <= QueueLen + 1
  /\ pc \in {"new", "race", "idle", "fire", "flush", "ended", "down"}
  /\ reg \in [Watch -> {"no", "absent", "yes", "skip"}]
  /\ created \subseteq Oneshot
  /\ deadline \in [Wd -> {"none", "armed", "expired"}]
  /\ todo \subseteq Watch
  /\ unchecked \subseteq Oneshot
  /\ requests \in Seq(Watch) /\ Len(requests) <= Capacity
  /\ seen \in [Modified -> {Unread} \cup {{n} : n \in 0..MaxChanges}]
  /\ told \in [Oneshot -> Nat]
  /\ restarts \in 0..MaxRestarts

Fresh ==
  /\ kernel = {} /\ queue = <<>> /\ pc = "new"
  /\ reg = [w \in Watch |-> "no"]
  /\ created = {} /\ deadline = [wd \in Wd |-> "none"] /\ todo = {} /\ unchecked = {}
  /\ requests = <<>>
  /\ seen = [w \in Modified |-> Unread] /\ told = [o \in Oneshot |-> 0]

Init ==
  /\ version = [w \in Modified |-> 0] /\ exists \in SUBSET Oneshot
  /\ Fresh /\ restarts = 0

Full == Len(requests) >= Capacity

\* The persistent watches on a descriptor.
ModifiedOn(wd) == {w \in Modified : reg[w] = "yes" /\ WdOf[w] = wd}

\* Mutant: a persistent watch does not keep the descriptor.
ReclaimMutant(wds, left) ==
  kernel \ {wd \in wds : \A o \in left : WdOf[o] # wd}

\* The descriptors the kernel still watches once left is the table of oneshots:
\* reclaim_if_unused on wds.
Reclaim(wds, left) ==
  kernel \ {wd \in wds : ModifiedOn(wd) = {} /\ \A o \in left : WdOf[o] # wd}

-----------------------------------------------------------------------------
(* The file system and the kernel; external.                               *)

\* An event that finds the queue full is replaced by one overflow event.
Enqueue(wd, name) ==
  queue' = IF wd \notin kernel THEN queue
           ELSE IF Len(queue) < QueueLen THEN Append(queue, [wd |-> wd, name |-> name])
           ELSE IF Len(queue) = QueueLen THEN Append(queue, Overflow)
           ELSE queue

Change(w) ==
  /\ version[w] < MaxChanges
  /\ version' = [version EXCEPT ![w] = @ + 1]
  /\ Enqueue(WdOf[w], "entry")
  /\ UNCHANGED <<exists, kernel, pc, reg, created, deadline, todo, unchecked, requests,
                 featureVars, restarts>>

Appear(o) ==
  /\ o \notin exists
  /\ exists' = exists \cup {o}
  /\ Enqueue(WdOf[o], o)
  /\ UNCHANGED <<version, kernel, pc, reg, created, deadline, todo, unchecked, requests,
                 featureVars, restarts>>

-----------------------------------------------------------------------------
(* Construction of the features.                                           *)

\* A target that exists already needs no watch; one that cannot be checked is
\* taken to be absent.
CheckTarget(o) ==
  /\ pc = "new" /\ reg[o] = "no"
  /\ \/ /\ o \in exists
        /\ reg' = [reg EXCEPT ![o] = "skip"] /\ told' = [told EXCEPT ![o] = 1]
     \/ reg' = [reg EXCEPT ![o] = "absent"] /\ UNCHANGED told
  /\ UNCHANGED <<fsVars, kernel, queue, pc, created, deadline, todo, unchecked, requests,
                 seen, restarts>>

\* watch_file_created_oneshot
WatchCreated(o) ==
  /\ pc = "new" /\ reg[o] = "absent"
  /\ reg' = [reg EXCEPT ![o] = "yes"]
  /\ kernel' = kernel \cup {WdOf[o]} /\ created' = created \cup {o}
  /\ UNCHANGED <<fsVars, queue, pc, deadline, todo, unchecked, requests, featureVars,
                 restarts>>

\* register_modified
RegisterModified(w) ==
  /\ pc = "new" /\ reg[w] = "no"
  /\ reg' = [reg EXCEPT ![w] = "yes"]
  /\ kernel' = kernel \cup {WdOf[w]}
  /\ UNCHANGED <<fsVars, queue, pc, created, deadline, todo, unchecked, requests,
                 featureVars, restarts>>

\* A feature reads its path once the watch is in place: when it is constructed,
\* or connected.
Read(w) ==
  /\ pc # "down" /\ reg[w] = "yes" /\ seen[w] = Unread
  /\ seen' = [seen EXCEPT ![w] = Reading(w)]
  /\ UNCHANGED <<fsVars, kernel, queue, pc, reg, created, deadline, todo, unchecked,
                 requests, told, restarts>>

\* into_stream spawns the task.
IntoStream ==
  /\ pc = "new" /\ \A w \in Watch : reg[w] \in {"yes", "skip"}
  /\ pc' = "race" /\ todo' = created
  /\ UNCHANGED <<fsVars, kernel, queue, reg, created, deadline, unchecked, requests,
                 featureVars, restarts>>

-----------------------------------------------------------------------------
(* run_event_loop                                                          *)

\* Mutant: reported targets stay in the table.
RaceCheckMutant(o) ==
  /\ pc = "race" /\ o \in todo
  /\ todo' = todo \ {o}
  /\ IF o \in exists THEN ~Full /\ requests' = Append(requests, o) ELSE UNCHANGED requests
  /\ UNCHANGED <<fsVars, kernel, queue, pc, reg, created, deadline, unchecked,
                 featureVars, restarts>>

\* dispatch_race_events, one target: it is reported if it exists by now.
RaceCheck(o) ==
  /\ pc = "race" /\ o \in todo
  /\ todo' = todo \ {o}
  /\ IF o \in exists THEN ~Full /\ requests' = Append(requests, o) ELSE UNCHANGED requests
  /\ created' = created \ ({o} \cap exists)
  /\ UNCHANGED <<fsVars, kernel, queue, pc, reg, deadline, unchecked, featureVars,
                 restarts>>

\* try_exists fails: the target is passed over, and stays in the table.
RaceCheckFails(o) ==
  /\ pc = "race" /\ o \in todo
  /\ todo' = todo \ {o}
  /\ unchecked' = unchecked \cup ({o} \cap exists)
  /\ UNCHANGED <<fsVars, kernel, queue, pc, reg, created, deadline, requests, featureVars,
                 restarts>>

\* Descriptors without an entry are given back.
RaceDone ==
  /\ pc = "race" /\ todo = {}
  /\ kernel' = Reclaim({WdOf[o] : o \in Oneshot}, created)
  /\ pc' = "idle"
  /\ UNCHANGED <<fsVars, queue, reg, created, deadline, todo, unchecked, requests,
                 featureVars, restarts>>

\* handle_inotify_event: (re)arm the debounce, and fire a matching oneshot.
TakeEvent ==
  /\ pc = "idle" /\ queue # <<>> /\ Head(queue) # Overflow
  /\ queue' = Tail(queue)
  /\ LET event == Head(queue)
         firing == {o \in created : o = event.name /\ WdOf[o] = event.wd}
     IN /\ deadline' = IF ModifiedOn(event.wd) = {} THEN deadline
                       ELSE [deadline EXCEPT ![event.wd] = "armed"]
        /\ todo' = firing
        /\ pc' = IF firing = {} THEN "idle" ELSE "fire"
  /\ UNCHANGED <<fsVars, kernel, reg, created, unchecked, requests, featureVars,
                 restarts>>

\* Events were dropped: the task ends.
TakeOverflow ==
  /\ pc = "idle" /\ queue # <<>> /\ Head(queue) = Overflow
  /\ pc' = "ended"
  /\ UNCHANGED <<fsVars, kernel, queue, reg, created, deadline, todo, unchecked,
                 requests, featureVars, restarts>>

\* Mutant: the oneshot is sent past the channel's bound.
SendCreatedMutant(o) ==
  /\ pc = "fire" /\ o \in todo
  /\ requests' = Append(requests, o)
  /\ todo' = todo \ {o} /\ pc' = "idle"
  /\ created' = created \ {o}
  /\ kernel' = Reclaim({WdOf[o]}, created')
  /\ UNCHANGED <<fsVars, queue, reg, deadline, unchecked, featureVars, restarts>>

\* The oneshot leaves the table only once its command is sent.
SendCreated(o) ==
  /\ pc = "fire" /\ o \in todo /\ ~Full
  /\ requests' = Append(requests, o)
  /\ todo' = todo \ {o} /\ pc' = "idle"
  /\ created' = created \ {o}
  /\ kernel' = Reclaim({WdOf[o]}, created')
  /\ UNCHANGED <<fsVars, queue, reg, deadline, unchecked, featureVars, restarts>>

Elapse(wd) ==
  /\ deadline[wd] = "armed"
  /\ deadline' = [deadline EXCEPT ![wd] = "expired"]
  /\ UNCHANGED <<fsVars, kernel, queue, pc, reg, created, todo, unchecked, requests,
                 featureVars, restarts>>

Expired == {wd \in Wd : deadline[wd] = "expired"}

\* Mutant: all deadlines are cleared.
FlushMutant ==
  /\ pc = "idle" /\ queue = <<>> /\ Expired # {}
  /\ deadline' = [wd \in Wd |-> "none"]
  /\ todo' = UNION {ModifiedOn(wd) : wd \in Expired}
  /\ pc' = "flush"
  /\ UNCHANGED <<fsVars, kernel, queue, reg, created, unchecked, requests, featureVars,
                 restarts>>

\* flush_expired_debounces; the biased select takes events first.
Flush ==
  /\ pc = "idle" /\ queue = <<>> /\ Expired # {}
  /\ deadline' = [wd \in Wd |-> IF wd \in Expired THEN "none" ELSE deadline[wd]]
  /\ todo' = UNION {ModifiedOn(wd) : wd \in Expired}
  /\ pc' = "flush"
  /\ UNCHANGED <<fsVars, kernel, queue, reg, created, unchecked, requests, featureVars,
                 restarts>>

\* Mutant: a full channel drops the command.
SendModifiedMutant(w) ==
  /\ pc = "flush" /\ w \in todo
  /\ requests' = IF Full THEN requests ELSE Append(requests, w)
  /\ todo' = todo \ {w}
  /\ pc' = IF todo' = {} THEN "idle" ELSE "flush"
  /\ UNCHANGED <<fsVars, kernel, queue, reg, created, deadline, unchecked, featureVars,
                 restarts>>

SendModified(w) ==
  /\ pc = "flush" /\ w \in todo /\ ~Full
  /\ requests' = Append(requests, w)
  /\ todo' = todo \ {w}
  /\ pc' = IF todo' = {} THEN "idle" ELSE "flush"
  /\ UNCHANGED <<fsVars, kernel, queue, reg, created, deadline, unchecked, featureVars,
                 restarts>>

-----------------------------------------------------------------------------
(* The loop and the process.                                               *)

\* The feature is given the command and reads its path.
HandleRequest ==
  /\ pc \notin {"new", "down"} /\ requests # <<>>
  /\ requests' = Tail(requests)
  /\ LET w == Head(requests) IN
       IF w \in Modified
       THEN seen' = [seen EXCEPT ![w] = Reading(w)] /\ UNCHANGED told
       ELSE told' = [told EXCEPT ![w] = @ + 1] /\ UNCHANGED seen
  /\ UNCHANGED <<fsVars, kernel, queue, pc, reg, created, deadline, todo, unchecked,
                 restarts>>

End ==
  /\ pc' = "down"
  /\ kernel' = {} /\ queue' = <<>> /\ reg' = [w \in Watch |-> "no"]
  /\ created' = {} /\ deadline' = [wd \in Wd |-> "none"] /\ todo' = {}
  /\ unchecked' = {} /\ requests' = <<>>
  /\ seen' = [w \in Modified |-> Unread] /\ told' = [o \in Oneshot |-> 0]
  /\ UNCHANGED <<fsVars, restarts>>

\* A signal, a crash, a watch that could not be added.
Stop == pc \notin {"down", "ended"} /\ restarts < MaxRestarts /\ End

\* handle_fs_watcher_exit
WatcherExit == pc = "ended" /\ End

Restart ==
  /\ pc = "down" /\ restarts < MaxRestarts
  /\ restarts' = restarts + 1
  /\ pc' = "new"
  /\ UNCHANGED <<fsVars, kernel, queue, reg, created, deadline, todo, unchecked,
                 requests, featureVars>>

Construct ==
  \/ \E o \in Oneshot : CheckTarget(o) \/ WatchCreated(o)
  \/ \E w \in Modified : RegisterModified(w)
  \/ IntoStream

Task ==
  \/ \E o \in Oneshot : RaceCheck(o) \/ RaceCheckFails(o) \/ SendCreated(o)
  \/ RaceDone \/ TakeEvent \/ TakeOverflow \/ Flush
  \/ \E w \in Modified : SendModified(w)

Next ==
  \/ \E w \in Modified : Change(w) \/ Read(w)
  \/ \E o \in Oneshot : Appear(o)
  \/ Construct \/ Task \/ HandleRequest
  \/ \E wd \in Wd : Elapse(wd)
  \/ Stop \/ WatcherExit \/ Restart

Spec == Init /\ [][Next]_vars

\* The executor polls task and loop, time passes, systemd restarts.
FairSpec ==
  /\ Spec
  /\ WF_vars(Construct) /\ WF_vars(Task) /\ WF_vars(HandleRequest)
  /\ WF_vars(\E wd \in Wd : Elapse(wd))
  /\ WF_vars(WatcherExit) /\ WF_vars(Restart)

-----------------------------------------------------------------------------
(* Properties                                                              *)

Queued(wd) == \E i \in DOMAIN queue : queue[i] = Overflow \/ queue[i].wd = wd

Requested(w) == \E i \in DOMAIN requests : requests[i] = w

\* A feature whose last reading of its path is out of date is about to be told:
\* an event is queued, its debounce is running, or its command is on the way.
NoChangeLost ==
  \A w \in Modified :
    pc # "ended" /\ seen[w] \notin {Unread, Reading(w)} =>
      Queued(WdOf[w]) \/ deadline[WdOf[w]] # "none" \/ w \in todo \/ Requested(w)

\* "Fires once": a target that appears between the feature's check, its watch
\* and the start of the loop is reported, and is reported only once.  Only one
\* that was there when the race check failed may go unreported; one that appears
\* after the failure does not.
FiresOnce ==
  \A o \in Oneshot :
    /\ told[o] + (IF Requested(o) THEN 1 ELSE 0) <= 1
    /\ pc \in {"idle", "fire", "flush"} /\ o \in exists \ unchecked =>
         told[o] = 1 \/ Requested(o) \/ (o \in created /\ (o \in todo \/ Queued(WdOf[o])))

\* A kernel watch is kept as long as an entry of either table needs it, and no
\* longer.
NoWatchLeaked ==
  pc \in {"idle", "flush"} =>
    kernel = {WdOf[w] : w \in {m \in Modified : reg[m] = "yes"} \cup created}

\* Every change reaches its feature, unless the process ends meanwhile.
ChangeReported ==
  \A w \in Modified :
    seen[w] \notin {Unread, Reading(w)} ~> seen[w] \in {Unread, Reading(w)}
=============================================================================
