------------------------------- MODULE OsVersion -------------------------------
(***************************************************************************)
(* OsVersion: the order of OmnectOsVersion, by which load refuses          *)
(* downgrades.  Equality is derived from the fields; the order is written  *)
(* by hand.                                                                *)
(***************************************************************************)
EXTENDS Naturals

OmnectOsVersion == [major : Nat, minor : Nat, patch : Nat, build : Nat]

Ordering == {"Less", "Equal", "Greater"}

cmp(m, n) == IF m < n THEN "Less" ELSE IF m = n THEN "Equal" ELSE "Greater"

\* A later field decides only while the earlier ones are equal.
Then(order, next) == IF order = "Equal" THEN next ELSE order

\* Mutant: the condition of the last field is missing.
PartialCmpMutant(v, w) ==
  Then(cmp(v.build, w.build),
       Then(Then(cmp(v.major, w.major), cmp(v.minor, w.minor)), cmp(v.patch, w.patch)))

PartialCmp(v, w) ==
  Then(Then(Then(cmp(v.major, w.major), cmp(v.minor, w.minor)), cmp(v.patch, w.patch)),
       cmp(v.build, w.build))

\* v < w of the code.
Older(v, w) == PartialCmp(v, w) = "Less"

\* The reference: the order a reader expects, in which the first field that differs decides.
Lexicographic(v, w) ==
  \/ v.major < w.major
  \/ v.major = w.major /\ v.minor < w.minor
  \/ v.major = w.major /\ v.minor = w.minor /\ v.patch < w.patch
  \/ v.major = w.major /\ v.minor = w.minor /\ v.patch = w.patch /\ v.build < w.build
=============================================================================
