---------------------------- MODULE UpdateTrial ----------------------------
(***************************************************************************)
(* What the update validation promises, whatever the service, systemd and  *)
(* the bootloader do in between: an A/B device boots a freshly written     *)
(* root once, makes it the default only while running it and only after    *)
(* the documented criteria were all met, and otherwise comes back to the   *)
(* root that was the default before.                                       *)
(***************************************************************************)
EXTENDS Naturals

Part == {"A", "B"}
None == "none"

\* The facts a trial collects: the system reached "running", the device was
\* authenticated by the cloud, the device update agent was started.
Fact == {"running", "auth", "adu"}

VARIABLES
  root,       \* the root the device runs
  default,    \* the root a boot falls back to
  candidate,  \* the root awaiting its trial, or None
  tried,      \* the candidate has had its one boot
  local,      \* the trial needs no cloud connection
  evidence    \* the facts seen by the current service process

vars == <<root, default, candidate, tried, local, evidence>>

Init ==
  /\ root \in Part
  /\ default = root
  /\ candidate \in Part \ {root}
  /\ tried = FALSE
  /\ local = FALSE
  /\ evidence = {}

\* The criteria of a valid update.
Criteria ==
  /\ "running" \in evidence
  /\ local \/ {"auth", "adu"} \subseteq evidence

Observe ==
  /\ \E facts \in SUBSET Fact : evidence' = evidence \cup facts
  /\ UNCHANGED <<root, default, candidate, tried, local>>

\* A service process starts or ends: a new one knows nothing.
Restart ==
  /\ evidence' = {}
  /\ local' \in BOOLEAN
  /\ UNCHANGED <<root, default, candidate, tried>>

Commit ==
  /\ candidate = root
  /\ Criteria
  /\ default' = root
  /\ UNCHANGED <<root, candidate, tried, local, evidence>>

\* The trial's marks are removed one by one, and only from a committed root.
Conclude ==
  /\ default = root
  /\ \/ tried' = FALSE /\ candidate' = candidate
     \/ tried = FALSE /\ tried' = tried /\ candidate' = None
  /\ UNCHANGED <<root, default, local, evidence>>

BootCandidate ==
  /\ candidate # None /\ ~tried
  /\ root' = candidate
  /\ tried' = TRUE
  /\ UNCHANGED candidate

BootDefault ==
  /\ candidate = None \/ tried
  /\ root' = default
  /\ tried' = FALSE
  /\ candidate' = None

Boot ==
  /\ BootCandidate \/ BootDefault
  /\ evidence' = {}
  /\ local' \in BOOLEAN
  /\ UNCHANGED default

Next == Observe \/ Restart \/ Commit \/ Conclude \/ Boot

Spec == Init /\ [][Next]_vars

\* The device runs the root it falls back to, or the candidate on its one boot:
\* reset at any moment, it comes back to a root that was validated.
Contained == root = default \/ (root = candidate /\ tried)

\* A step that moves the fall-back.
Validates == default' = root /\ candidate = root /\ Criteria
=============================================================================
