-------------------------- MODULE MCFirmwareUpdate --------------------------
(***************************************************************************)
(* Instances of FirmwareUpdate for TLC: the installed image, an older and  *)
(* a damaged one, one with other kernel arguments and one with none, so    *)
(* that every branch of apply_bootargs and every check of load is taken.   *)
(***************************************************************************)
EXTENDS UpdateHandover, TLC

KernelArgs(image) ==
  CASE image \in {"v0", "v1"} -> {"console"}
    [] image \in {"v2", "bad"} -> {"quiet"}
    [] image = "v3" -> {}

\* "v0" is older than the installed image though its last field is greater.
Version(image) ==
  LET v(major, minor, patch, build) ==
        [major |-> major, minor |-> minor, patch |-> patch, build |-> build]
  IN  CASE image = "v0" -> v(1, 9, 0, 7)
        [] image = "v1" -> v(2, 0, 1, 3)
        [] image \in {"v2", "bad"} -> v(2, 0, 2, 0)
        [] image = "v3" -> v(2, 1, 0, 3)

\* The parts of an archive; an image's file has its name.
Swu(name, image) == [kind |-> "swu", name |-> name, content |-> image]
Manifest(image) ==
  [version |-> Version(image), compatible |-> TRUE, files |-> [name \in {image} |-> image]]
Entry(kind, content) == [kind |-> kind, name |-> kind, content |-> content]

\* Complete archives in every order, and those with a part that is missing,
\* damaged, for another device or there twice.
MCArchives ==
  LET Parts(image) ==
        <<Swu(image, image), Entry("manifest", Manifest(image)), Entry("sha256", Manifest(image))>>
      good == Parts("v2")
      With(manifest) ==
        <<Swu("v2", "v2"), Entry("manifest", manifest), Entry("sha256", manifest)>>
  IN  {[i \in 1..3 |-> Parts(image)[order[i]]] :
         image \in {"v0", "v1", "v2", "v3"}, order \in Permutations(1..3)}
      \cup {<<>>, SubSeq(good, 1, 1), SubSeq(good, 1, 2), SubSeq(good, 2, 3),
            good \o <<Swu("v2", "bad")>>, <<Swu("v2", "bad")>> \o good,
            good \o <<Swu("v3", "v3")>>, good \o <<Entry("other", None)>>,
            good \o <<Entry("nested", None)>>,
            good \o <<Entry("manifest", Manifest("v3"))>>,
            With([Manifest("v2") EXCEPT !.compatible = FALSE]),
            With([Manifest("v2") EXCEPT !.files = [v2 |-> NoHash]])}

MCCustomArgs == {{}, {"debug"}}

\* The device runs the trial of root "B" when an update is requested.
TrialInit ==
  /\ booted = "B" /\ bootpart = "A" /\ validatePart = "B" /\ validateUpdate = TRUE
  /\ root = [part \in Part |-> IF part = "A" THEN "v1" ELSE "v2"]
  /\ argsFile = KernelArgs("v2") /\ backup = {} /\ custom = {}
  /\ extraArgs = KernelArgs("v1") /\ validateArgs = {KernelArgs("v2")}
  /\ bootloaderUpdated = FALSE
  /\ conf = "local"
  /\ loaded = None /\ pc = "idle" /\ request = "local" /\ waiting = FALSE
  /\ guard = [bootloader |-> FALSE, backup |-> FALSE]
  /\ rollback = "none" /\ restores = {}
  /\ wdt = "base" /\ saved = "base" /\ aduTimer = TRUE /\ aduService = FALSE
  /\ going = FALSE /\ aduLost = FALSE
  /\ clean = TRUE /\ before = <<extraArgs, argsFile>>
  /\ loads = 0 /\ faults = 0 /\ kills = 0

TrialSpec == TrialInit /\ [][Next]_vars
=============================================================================
