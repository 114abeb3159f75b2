--------------------------- MODULE CommandStream ---------------------------
(***************************************************************************)
(* debounced_command_stream: a task between a stream of D-Bus signals and  *)
(* the loop that takes commands.  Every signal re-arms a silence timer;    *)
(* when it elapses, one Tick is sent into a channel of one element.  While *)
(* the task waits for room in that channel it looks at nothing else.       *)
(* signals says whether the signal stream holds at least one: how many     *)
(* makes no difference, each only re-arms the timer.                       *)
(***************************************************************************)
EXTENDS Naturals

VARIABLES
  source,    \* the signal stream: not used, not yet there, open, or gone
  signals,   \* it holds a signal that the task has not taken yet
  deadline,  \* the silence timer is armed
  emitting,  \* the task waits in tx.send
  queue      \* Ticks in the channel

streamVars == <<source, signals, deadline, emitting, queue>>

StreamTypeOK ==
  /\ source \in {"unused", "pending", "open", "gone"}
  /\ signals \in BOOLEAN /\ deadline \in BOOLEAN /\ emitting \in BOOLEAN
  /\ queue \in 0..1

\* A Tick is on its way to the loop, or will be.
TickComing == signals \/ deadline \/ emitting \/ queue > 0

\* A new task; for a feature that has no such stream, none.
Spawned(kind) ==
  /\ source' = kind
  /\ signals' = FALSE /\ deadline' = FALSE /\ emitting' = FALSE
  /\ queue' = 0

-----------------------------------------------------------------------------
(* The task.  cancel only stops it together with the process.              *)

Resolve ==
  /\ source = "pending"
  /\ source' = "open"
  /\ UNCHANGED <<signals, deadline, emitting, queue>>

\* source_fut fails: the task is over before it has started.
ResolveFails ==
  /\ source = "pending"
  /\ source' = "gone"
  /\ UNCHANGED <<signals, deadline, emitting, queue>>

\* The signal stream ends; a timer that was armed dies with the task.
SourceEnds ==
  /\ source = "open" /\ ~emitting /\ ~signals
  /\ source' = "gone" /\ deadline' = FALSE
  /\ UNCHANGED <<signals, emitting, queue>>

Arm ==
  /\ source = "open" /\ ~emitting /\ signals
  /\ signals' = FALSE /\ deadline' = TRUE
  /\ UNCHANGED <<source, emitting, queue>>

\* The select is biased: a signal that is there comes before the timer.
Elapse ==
  /\ source = "open" /\ ~emitting /\ ~signals /\ deadline
  /\ deadline' = FALSE /\ emitting' = TRUE
  /\ UNCHANGED <<source, signals, queue>>

\* Mutant: the Tick goes into the channel whether or not it has room.
EmitMutant ==
  /\ emitting
  /\ queue' = queue + 1 /\ emitting' = FALSE
  /\ UNCHANGED <<source, signals, deadline>>

Emit ==
  /\ emitting /\ queue < 1
  /\ queue' = queue + 1 /\ emitting' = FALSE
  /\ UNCHANGED <<source, signals, deadline>>

\* The loop takes a Tick.
TakeTick ==
  /\ queue > 0
  /\ queue' = queue - 1
  /\ UNCHANGED <<source, signals, deadline, emitting>>

-----------------------------------------------------------------------------
(* The bus: a signal is seen only by who has subscribed.                   *)

Signal ==
  /\ signals' = (signals \/ source = "open")
  /\ UNCHANGED <<source, deadline, emitting, queue>>

=============================================================================
