-------------------------- MODULE FsWatcher_proofs --------------------------
(***************************************************************************)
(* Proofs about FsWatcher, for all watches, whichever descriptors they     *)
(* share, and all lengths of the kernel's queue and of the channel: type   *)
(* correctness, that no change is lost, that a oneshot fires once, and     *)
(* that the kernel watches what the tables need and nothing else.          *)
(***************************************************************************)
EXTENDS FsWatcher, TLAPS

Has(seq, e) == \E i \in DOMAIN seq : seq[i] = e

\* e is once in the sequence at most.
AtMostOnce(seq, e) == \A i, j \in DOMAIN seq : seq[i] = e /\ seq[j] = e => i = j

\* What the task has still to do, and what is there to be served.
TaskInv ==
  /\ pc \in {"new", "idle", "ended", "down"} => todo = {}
  /\ pc = "race" => todo \subseteq created
  /\ pc = "fire" => \E o \in created : todo = {o}
  /\ pc = "flush" => todo \subseteq Modified
  /\ pc \in {"new", "down"} => requests = <<>>
  /\ pc = "down" => created = {} /\ \A w \in Watch : reg[w] = "no"

\* The registrations end before the task is spawned, and a path is read only
\* once its watch is in place.
RegInv ==
  /\ \A w \in Modified : reg[w] \in {"no", "yes"} /\ (seen[w] # Unread => reg[w] = "yes")
  /\ pc \notin {"new", "down"} => \A w \in Watch : reg[w] \in {"yes", "skip"}

\* The kernel watches what the tables need, and until the race check is done
\* the descriptors of the oneshots.
Needed == {WdOf[w] : w \in {m \in Modified : reg[m] = "yes"} \cup created}

KernelInv ==
  /\ Needed \subseteq kernel
  /\ kernel \subseteq Needed \cup (IF pc = "race" THEN {WdOf[o] : o \in Oneshot} ELSE {})

\* An overflow is the last event of a queue that is full.
QueueInv == Len(queue) > QueueLen => queue[Len(queue)] = Overflow

\* A oneshot is registered, in the table, on its way or told, in this order.
Once(o) ==
  /\ told[o] \in {0, 1}
  /\ reg[o] \in {"no", "absent"} => told[o] = 0 /\ o \notin created /\ ~Has(requests, o)
  /\ o \in created => told[o] = 0 /\ ~Has(requests, o)
  /\ Has(requests, o) => told[o] = 0 /\ AtMostOnce(requests, o)
  /\ reg[o] \in {"yes", "skip"} => told[o] = 1 \/ Has(requests, o) \/ o \in created

OnceInv == \A o \in Oneshot : Once(o)

\* The kernel has told the task of the target, or lost events.
Announced(o) == Has(queue, [wd |-> WdOf[o], name |-> o]) \/ Has(queue, Overflow)

\* A target that exists is told of, or the task knows of it or will; unless it
\* was there when the race check failed.
ReportInv ==
  \A o \in Oneshot \ unchecked :
    pc \in {"race", "idle", "fire", "flush"} /\ o \in exists /\ o \in created =>
      o \in todo \/ Announced(o)

IInv ==
  /\ TypeOK /\ TaskInv /\ RegInv /\ KernelInv /\ QueueInv /\ OnceInv /\ ReportInv
  /\ NoChangeLost

-----------------------------------------------------------------------------
USE WatchAssumption, BoundsAssumption

(* Sequences: what is in them after an Append or without their Head.       *)

\* One element more.
LEMMA HasAppend ==
  ASSUME NEW S, NEW seq \in Seq(S), NEW x \in S
  PROVE  /\ \A e : Has(Append(seq, x), e) <=> Has(seq, e) \/ e = x
         /\ \A e : AtMostOnce(seq, e) /\ e # x => AtMostOnce(Append(seq, x), e)
         /\ ~Has(seq, x) => AtMostOnce(Append(seq, x), x)
<1> DEFINE n == Len(seq)  t == Append(seq, x)
<1>1. /\ n \in Nat /\ DOMAIN seq = 1..n /\ DOMAIN t = 1..(n + 1)
      /\ \A i \in 1..n : t[i] = seq[i]
      /\ t[n + 1] = x
  OBVIOUS
<1> HIDE DEF n, t
<1>2. \A e : Has(t, e) <=> Has(seq, e) \/ e = x
  BY <1>1 DEF Has
<1>3. \A e : AtMostOnce(seq, e) /\ e # x => AtMostOnce(t, e)
  BY <1>1 DEF AtMostOnce
<1>4. ~Has(seq, x) => AtMostOnce(t, x)
  BY <1>1 DEF AtMostOnce, Has
<1> QED
  BY <1>2, <1>3, <1>4 DEF t

\* The first element less.
LEMMA HasTail ==
  ASSUME NEW S, NEW seq \in Seq(S), seq # <<>>
  PROVE  /\ Head(seq) \in S /\ Tail(seq) \in Seq(S) /\ Len(Tail(seq)) = Len(seq) - 1
         /\ \A e : Has(seq, e) <=> Has(Tail(seq), e) \/ e = Head(seq)
         /\ \A e : AtMostOnce(seq, e) => AtMostOnce(Tail(seq), e)
         /\ AtMostOnce(seq, Head(seq)) => ~Has(Tail(seq), Head(seq))
<1> DEFINE n == Len(seq)  t == Tail(seq)
<1>1. /\ n \in Nat \ {0} /\ DOMAIN seq = 1..n /\ DOMAIN t = 1..(n - 1)
      /\ \A i \in 1..(n - 1) : t[i] = seq[i + 1]
      /\ Head(seq) = seq[1] /\ seq[1] \in S /\ t \in Seq(S) /\ Len(t) = n - 1
  OBVIOUS
<1> HIDE DEF n, t
<1>2. ASSUME NEW e, Has(seq, e)
      PROVE  Has(t, e) \/ e = Head(seq)
  <2>1. PICK i \in 1..n : seq[i] = e
    BY <1>1, <1>2 DEF Has
  <2>2. CASE i = 1
    BY <1>1, <2>1, <2>2
  <2>3. CASE i # 1
    <3>1. i - 1 \in 1..(n - 1) /\ t[i - 1] = e
      BY <1>1, <2>1, <2>3
    <3> QED
      BY <1>1, <3>1 DEF Has
  <2> QED
    BY <2>2, <2>3
<1>3. ASSUME NEW e, Has(t, e) \/ e = Head(seq)
      PROVE  Has(seq, e)
  BY <1>1, <1>3 DEF Has
<1>4. ASSUME NEW e, AtMostOnce(seq, e)
      PROVE  AtMostOnce(t, e)
  <2> SUFFICES ASSUME NEW i \in 1..(n - 1), NEW j \in 1..(n - 1), t[i] = e, t[j] = e
               PROVE  i = j
    BY <1>1 DEF AtMostOnce
  <2>1. i + 1 \in 1..n /\ j + 1 \in 1..n /\ seq[i + 1] = e /\ seq[j + 1] = e
    BY <1>1
  <2>2. i + 1 = j + 1
    BY <1>1, <1>4, <2>1 DEF AtMostOnce
  <2> QED
    BY <2>2
<1>5. ASSUME AtMostOnce(seq, Head(seq))
      PROVE  ~Has(t, Head(seq))
  <2> SUFFICES ASSUME NEW i \in 1..(n - 1), t[i] = Head(seq)
               PROVE  FALSE
    BY <1>1 DEF Has
  <2>1. i + 1 \in 1..n /\ 1 \in 1..n /\ seq[i + 1] = Head(seq)
    BY <1>1
  <2>2. i + 1 = 1
    BY <1>1, <1>5, <2>1 DEF AtMostOnce
  <2> QED
    BY <2>2
<1> QED
  BY <1>1, <1>2, <1>3, <1>4, <1>5 DEF t, n

\* Nothing is in an empty sequence.
LEMMA HasNone == \A e : ~Has(<<>>, e)
BY DEF Has

\* The events of the kernel.
LEMMA Events ==
  /\ Overflow \in Event
  /\ \A wd \in Wd, name \in Oneshot \cup {"entry"} : [wd |-> wd, name |-> name] \in Event
  /\ \A e \in Event : e # Overflow => e.wd \in Wd
BY DEF Event, Overflow

\* Every watch has its descriptor.
LEMMA Descriptors ==
  /\ \A w \in Watch : WdOf[w] \in Wd
  /\ Modified \subseteq Watch /\ Oneshot \subseteq Watch
BY DEF Wd, Watch

\* What the kernel queues is in the queue, or the queue overflows; it loses
\* nothing it did not lose before.
LEMMA Enqueued ==
  ASSUME TypeOK, QueueInv, NEW wd \in Wd, NEW name \in Oneshot \cup {"entry"},
         Enqueue(wd, name)
  PROVE  /\ queue' \in Seq(Event) /\ Len(queue') <= QueueLen + 1 /\ QueueInv'
         /\ \A e : Has(queue, e) => Has(queue', e)
         /\ wd \in kernel =>
              Has(queue', [wd |-> wd, name |-> name]) \/ Has(queue', Overflow)
<1> DEFINE new == [wd |-> wd, name |-> name]
<1>1. new \in Event /\ Overflow \in Event
  BY Events
<1>2. queue \in Seq(Event) /\ Len(queue) \in Nat /\ Len(queue) <= QueueLen + 1
  BY DEF TypeOK
<1> HIDE DEF new
<1>3. CASE queue' = queue /\ (wd \in kernel => Len(queue) > QueueLen)
  <2>1. Len(queue) > QueueLen => Has(queue, Overflow)
    <3>1. Len(queue) > QueueLen => Len(queue) \in DOMAIN queue
      BY <1>2
    <3> QED
      BY <3>1 DEF QueueInv, Has
  <2> QED
    BY <1>2, <1>3, <2>1 DEF QueueInv
<1>4. CASE queue' = Append(queue, new) /\ Len(queue) < QueueLen
  <2>1. Len(queue') = Len(queue) + 1 /\ queue' \in Seq(Event)
    BY <1>1, <1>2, <1>4
  <2>2. \A e : Has(queue', e) <=> Has(queue, e) \/ e = new
    BY <1>1, <1>2, <1>4, HasAppend
  <2> QED
    BY <1>2, <1>4, <2>1, <2>2 DEF QueueInv, new
<1>5. CASE queue' = Append(queue, Overflow) /\ Len(queue) = QueueLen
  <2>1. /\ Len(queue') = Len(queue) + 1 /\ queue' \in Seq(Event)
        /\ queue'[Len(queue')] = Overflow
    BY <1>1, <1>2, <1>5
  <2>2. \A e : Has(queue', e) <=> Has(queue, e) \/ e = Overflow
    BY <1>1, <1>2, <1>5, HasAppend
  <2> QED
    BY <1>2, <1>5, <2>1, <2>2 DEF QueueInv
<1> QED
  BY <1>2, <1>3, <1>4, <1>5 DEF Enqueue, new

-----------------------------------------------------------------------------
(* The types                                                               *)

\* The kernel watches descriptors only, also when some are given back.
LEMMA Reclaimed ==
  ASSUME NEW wds, NEW left
  PROVE  Reclaim(wds, left) \subseteq kernel
BY DEF Reclaim

\* Types are kept by each step, and so is the shape of the queue.
LEMMA TypeOKStep ==
  ASSUME TypeOK, TaskInv, QueueInv, [Next]_vars
  PROVE  TypeOK' /\ QueueInv'
<1> USE DEF TypeOK
<1>1. UNCHANGED queue => QueueInv'
  BY DEF QueueInv
<1>2. ASSUME NEW w \in Modified, Change(w) PROVE TypeOK' /\ QueueInv'
  <2>1. WdOf[w] \in Wd /\ Enqueue(WdOf[w], "entry")
    BY <1>2, Descriptors DEF Change
  <2>2. queue' \in Seq(Event) /\ Len(queue') <= QueueLen + 1 /\ QueueInv'
    BY <2>1, Enqueued
  <2>3. version' \in [Modified -> 0..MaxChanges]
    BY <1>2 DEF Change
  <2> QED
    BY <1>2, <2>2, <2>3 DEF Change, featureVars
<1>3. ASSUME NEW o \in Oneshot, Appear(o) PROVE TypeOK' /\ QueueInv'
  <2>1. WdOf[o] \in Wd /\ Enqueue(WdOf[o], o)
    BY <1>3, Descriptors DEF Appear
  <2>2. queue' \in Seq(Event) /\ Len(queue') <= QueueLen + 1 /\ QueueInv'
    BY <2>1, Enqueued
  <2> QED
    BY <1>3, <2>2 DEF Appear, featureVars
<1>4. ASSUME NEW w \in Modified, Read(w) PROVE TypeOK' /\ QueueInv'
  <2>1. seen' \in [Modified -> {Unread} \cup {{n} : n \in 0..MaxChanges}]
    BY <1>4 DEF Read, Reading
  <2> QED
    BY <1>1, <1>4, <2>1 DEF Read, fsVars
<1>5. ASSUME NEW o \in Oneshot, CheckTarget(o) PROVE TypeOK' /\ QueueInv'
  <2>1. told' \in [Oneshot -> Nat]
    <3>1. CASE told' = [told EXCEPT ![o] = 1]
      BY <3>1
    <3>2. CASE told' = told
      BY <3>2
    <3> QED
      BY <1>5, <3>1, <3>2 DEF CheckTarget
  <2>2. reg' \in [Watch -> {"no", "absent", "yes", "skip"}]
    BY <1>5 DEF CheckTarget
  <2> QED
    BY <1>1, <1>5, <2>1, <2>2 DEF CheckTarget, fsVars
<1>6. ASSUME NEW o \in Oneshot, WatchCreated(o) PROVE TypeOK' /\ QueueInv'
  BY <1>1, <1>6, Descriptors DEF WatchCreated, fsVars, featureVars
<1>7. ASSUME NEW w \in Modified, RegisterModified(w) PROVE TypeOK' /\ QueueInv'
  BY <1>1, <1>7, Descriptors DEF RegisterModified, fsVars, featureVars
<1>8. ASSUME IntoStream PROVE TypeOK' /\ QueueInv'
  BY <1>1, <1>8, Descriptors DEF IntoStream, fsVars, featureVars
<1>9. ASSUME NEW w \in Watch, ~Full
      PROVE  /\ Append(requests, w) \in Seq(Watch)
             /\ Len(Append(requests, w)) <= Capacity
  BY <1>9 DEF Full
<1>10. ASSUME NEW o \in Oneshot, RaceCheck(o) PROVE TypeOK' /\ QueueInv'
  <2>1. requests' \in Seq(Watch) /\ Len(requests') <= Capacity
    BY <1>9, <1>10, Descriptors DEF RaceCheck
  <2> QED
    BY <1>1, <1>10, <2>1 DEF RaceCheck, fsVars, featureVars
<1>23. ASSUME NEW o \in Oneshot, RaceCheckFails(o) PROVE TypeOK' /\ QueueInv'
  BY <1>1, <1>23 DEF RaceCheckFails, fsVars, featureVars
<1>11. ASSUME NEW o \in Oneshot, SendCreated(o) PROVE TypeOK' /\ QueueInv'
  <2>1. requests' \in Seq(Watch) /\ Len(requests') <= Capacity
    BY <1>9, <1>11, Descriptors DEF SendCreated
  <2>2. kernel' \subseteq Wd
    BY <1>11, Reclaimed DEF SendCreated
  <2> QED
    BY <1>1, <1>11, <2>1, <2>2 DEF SendCreated, fsVars, featureVars
<1>12. ASSUME RaceDone PROVE TypeOK' /\ QueueInv'
  <2>1. kernel' \subseteq Wd
    BY <1>12, Reclaimed DEF RaceDone
  <2> QED
    BY <1>1, <1>12, <2>1 DEF RaceDone, fsVars, featureVars
<1>13. ASSUME TakeEvent PROVE TypeOK' /\ QueueInv'
  <2>1. /\ queue' \in Seq(Event) /\ Len(queue') = Len(queue) - 1 /\ Head(queue) \in Event
        /\ Len(queue) \in Nat
    BY <1>13, HasTail DEF TakeEvent
  <2>2. Head(queue).wd \in Wd
    BY <1>13, <2>1, Events DEF TakeEvent
  <2>3. deadline' \in [Wd -> {"none", "armed", "expired"}]
    BY <1>13, <2>2 DEF TakeEvent
  <2>4. todo' \subseteq Watch /\ pc' \in {"idle", "fire"}
    BY <1>13, Descriptors DEF TakeEvent
  <2>5. Len(queue') <= QueueLen
    BY <2>1
  <2>6. QueueInv'
    BY <2>1, <2>5 DEF QueueInv
  <2> QED
    BY <1>13, <2>1, <2>3, <2>4, <2>5, <2>6 DEF TakeEvent, fsVars, featureVars
<1>14. ASSUME TakeOverflow PROVE TypeOK' /\ QueueInv'
  BY <1>1, <1>14 DEF TakeOverflow, fsVars, featureVars
<1>15. ASSUME Flush PROVE TypeOK' /\ QueueInv'
  <2>1. deadline' \in [Wd -> {"none", "armed", "expired"}]
    BY <1>15 DEF Flush
  <2>2. todo' \subseteq Watch
    BY <1>15, Descriptors DEF Flush, ModifiedOn
  <2> QED
    BY <1>1, <1>15, <2>1, <2>2 DEF Flush, fsVars, featureVars
<1>16. ASSUME NEW w \in Modified, SendModified(w) PROVE TypeOK' /\ QueueInv'
  <2>1. requests' \in Seq(Watch) /\ Len(requests') <= Capacity
    BY <1>9, <1>16, Descriptors DEF SendModified
  <2>2. /\ todo' \subseteq Watch /\ pc' \in {"idle", "flush"}
        /\ UNCHANGED <<version, exists, kernel, queue, reg, created, deadline, unchecked>>
        /\ UNCHANGED <<seen, told, restarts>>
    BY <1>16 DEF SendModified, fsVars, featureVars
  <2> QED
    BY <1>1, <2>1, <2>2
<1>17. ASSUME HandleRequest PROVE TypeOK' /\ QueueInv'
  <2>1. /\ requests' \in Seq(Watch) /\ Len(requests') = Len(requests) - 1
        /\ Len(requests) \in Nat /\ Head(requests) \in Watch
    BY <1>17, HasTail DEF HandleRequest
  <2>2. seen' \in [Modified -> {Unread} \cup {{n} : n \in 0..MaxChanges}]
    <3> DEFINE w == Head(requests)
    <3>1. CASE w \in Modified
      <4>1. Reading(w) \in {{n} : n \in 0..MaxChanges}
        BY <3>1 DEF Reading
      <4>2. seen' = [seen EXCEPT ![w] = Reading(w)]
        BY <1>17, <3>1 DEF HandleRequest
      <4> HIDE DEF w
      <4> QED
        BY <3>1, <4>1, <4>2
    <3>2. CASE w \notin Modified
      BY <1>17, <3>2 DEF HandleRequest
    <3> QED
      BY <3>1, <3>2
  <2>3. told' \in [Oneshot -> Nat]
    BY <1>17, <2>1 DEF HandleRequest, Watch
  <2> QED
    BY <1>1, <1>17, <2>1, <2>2, <2>3 DEF HandleRequest, fsVars
<1>18. ASSUME NEW wd \in Wd, Elapse(wd) PROVE TypeOK' /\ QueueInv'
  BY <1>1, <1>18 DEF Elapse, fsVars, featureVars
<1>19. ASSUME End PROVE TypeOK' /\ QueueInv'
  <2>1. /\ queue' \in Seq(Event) /\ Len(queue') = 0
        /\ requests' \in Seq(Watch) /\ Len(requests') = 0
    BY <1>19 DEF End
  <2>2. QueueInv'
    BY <2>1 DEF QueueInv
  <2>3. /\ reg' \in [Watch -> {"no", "absent", "yes", "skip"}]
        /\ deadline' \in [Wd -> {"none", "armed", "expired"}]
        /\ told' \in [Oneshot -> Nat]
        /\ seen' \in [Modified -> {Unread} \cup {{n} : n \in 0..MaxChanges}]
    BY <1>19 DEF End
  <2> QED
    BY <1>19, <2>1, <2>2, <2>3 DEF End, fsVars
<1>20. ASSUME Restart PROVE TypeOK' /\ QueueInv'
  BY <1>1, <1>20 DEF Restart, fsVars, featureVars
<1>21. ASSUME UNCHANGED vars PROVE TypeOK' /\ QueueInv'
  BY <1>1, <1>21 DEF vars, fsVars, featureVars
<1> QED
  BY <1>2, <1>3, <1>4, <1>5, <1>6, <1>7, <1>8, <1>10, <1>11, <1>12, <1>13, <1>14, <1>15,
     <1>16, <1>17, <1>18, <1>19, <1>20, <1>21, <1>23
     DEF Next, Construct, Task, Stop, WatcherExit

-----------------------------------------------------------------------------
(* The task and the registrations                                          *)

\* The task's work fits to where it is.
LEMMA TaskInvStep ==
  ASSUME TypeOK, TaskInv, [Next]_vars
  PROVE  TaskInv'
<1> USE DEF TaskInv
<1>1. ASSUME UNCHANGED <<pc, todo, created, requests, reg>> PROVE TaskInv'
  BY <1>1
<1>2. ASSUME \/ \E w \in Modified : Change(w) \/ Read(w)
             \/ \E o \in Oneshot : Appear(o)
             \/ \E wd \in Wd : Elapse(wd)
             \/ UNCHANGED vars
      PROVE  TaskInv'
  BY <1>1, <1>2 DEF Change, Read, Appear, Elapse, vars
<1>3. ASSUME Construct PROVE TaskInv'
  BY <1>3 DEF Construct, CheckTarget, WatchCreated, RegisterModified, IntoStream
<1>4. ASSUME NEW o \in Oneshot, RaceCheck(o) PROVE TaskInv'
  BY <1>4 DEF RaceCheck
<1>23. ASSUME NEW o \in Oneshot, RaceCheckFails(o) PROVE TaskInv'
  BY <1>23 DEF RaceCheckFails
<1>5. ASSUME NEW o \in Oneshot, SendCreated(o) PROVE TaskInv'
  BY <1>5 DEF SendCreated
<1>6. ASSUME RaceDone \/ TakeOverflow PROVE TaskInv'
  BY <1>6 DEF RaceDone, TakeOverflow
<1>7. ASSUME TakeEvent PROVE TaskInv'
  <2> DEFINE firing == {o \in created : o = Head(queue).name /\ WdOf[o] = Head(queue).wd}
  <2>1. /\ todo' = firing /\ pc' = (IF firing = {} THEN "idle" ELSE "fire")
        /\ UNCHANGED <<created, requests>>
    BY <1>7 DEF TakeEvent
  <2>2. firing = {} \/ \E o \in created : firing = {o}
    OBVIOUS
  <2> HIDE DEF firing
  <2> QED
    BY <2>1, <2>2
<1>8. ASSUME Flush PROVE TaskInv'
  BY <1>8 DEF Flush, ModifiedOn
<1>9. ASSUME NEW w \in Modified, SendModified(w) PROVE TaskInv'
  BY <1>9 DEF SendModified
<1>10. ASSUME HandleRequest PROVE TaskInv'
  BY <1>10 DEF HandleRequest
<1>11. ASSUME End PROVE TaskInv'
  BY <1>11 DEF End
<1>12. ASSUME Restart PROVE TaskInv'
  BY <1>12 DEF Restart
<1> QED
  BY <1>2, <1>3, <1>4, <1>5, <1>6, <1>7, <1>8, <1>9, <1>10, <1>11, <1>12, <1>23
     DEF Next, Task, Stop, WatcherExit

\* Registrations are made before the task runs, readings after the registration.
LEMMA RegInvStep ==
  ASSUME TypeOK, TaskInv, RegInv, [Next]_vars
  PROVE  RegInv'
<1> USE DEF RegInv
<1>1. ASSUME UNCHANGED <<reg, seen>>, pc \in {"new", "down"} => pc' \in {"new", "down"}
      PROVE  RegInv'
  BY <1>1
<1>2. ASSUME \/ \E w \in Modified : Change(w)
             \/ \E o \in Oneshot : Appear(o)
             \/ \E wd \in Wd : Elapse(wd)
             \/ UNCHANGED vars
      PROVE  RegInv'
  BY <1>1, <1>2 DEF Change, Appear, Elapse, vars, featureVars
<1>3. ASSUME NEW w \in Modified, Read(w) PROVE RegInv'
  BY <1>3 DEF Read, TypeOK
<1>4. ASSUME NEW o \in Oneshot, CheckTarget(o) \/ WatchCreated(o) PROVE RegInv'
  <2>1. /\ pc = "new" /\ UNCHANGED <<pc, seen>>
        /\ \A w \in Modified : reg'[w] = reg[w]
    BY <1>4 DEF CheckTarget, WatchCreated, TypeOK, Watch, featureVars
  <2> QED
    BY <2>1
<1>5. ASSUME NEW w \in Modified, RegisterModified(w) PROVE RegInv'
  BY <1>5, Descriptors DEF RegisterModified, TypeOK, featureVars
<1>6. ASSUME IntoStream PROVE RegInv'
  BY <1>6 DEF IntoStream, featureVars
<1>7. ASSUME Task PROVE RegInv'
  BY <1>7 DEF Task, RaceCheck, RaceCheckFails, SendCreated, RaceDone, TakeEvent, TakeOverflow, Flush,
              SendModified, featureVars
<1>8. ASSUME HandleRequest PROVE RegInv'
  <2>1. UNCHANGED <<pc, reg>> /\ pc \notin {"new", "down"}
    BY <1>8 DEF HandleRequest
  <2>2. \A w \in Modified : reg[w] = "yes"
    BY <2>1, Descriptors
  <2> QED
    BY <2>1, <2>2
<1>9. ASSUME End PROVE RegInv'
  BY <1>9, Descriptors DEF End
<1>10. ASSUME Restart PROVE RegInv'
  BY <1>10 DEF Restart, featureVars
<1> QED
  BY <1>2, <1>3, <1>4, <1>5, <1>6, <1>7, <1>8, <1>9, <1>10
     DEF Next, Construct, Stop, WatcherExit

-----------------------------------------------------------------------------
(* The kernel's watches                                                    *)

\* What Reclaim leaves: all that is needed, and of wds only that.
LEMMA ReclaimKeeps ==
  ASSUME NEW wds, NEW left \in SUBSET Oneshot, NEW wd \in kernel
  PROVE  wd \in Reclaim(wds, left) <=>
           \/ wd \notin wds
           \/ \E m \in Modified : reg[m] = "yes" /\ WdOf[m] = wd
           \/ \E o \in left : WdOf[o] = wd
BY DEF Reclaim, ModifiedOn

\* Needed in other words.
LEMMA NeededWatches ==
  \A wd : wd \in Needed <=> \/ \E m \in Modified : reg[m] = "yes" /\ WdOf[m] = wd
                            \/ \E o \in created : WdOf[o] = wd
BY DEF Needed

\* No step leaves a watch in the kernel that nobody needs, or removes one that
\* somebody needs.
LEMMA KernelInvStep ==
  ASSUME TypeOK, TaskInv, KernelInv, [Next]_vars
  PROVE  KernelInv'
<1> USE DEF KernelInv
<1>1. ASSUME UNCHANGED <<kernel, reg, created>>, pc = "race" <=> pc' = "race"
      PROVE  KernelInv'
  BY <1>1 DEF Needed
<1>2. ASSUME \/ \E w \in Modified : Change(w) \/ Read(w)
             \/ \E o \in Oneshot : Appear(o)
             \/ \E wd \in Wd : Elapse(wd)
             \/ TakeEvent \/ TakeOverflow \/ Flush
             \/ \E w \in Modified : SendModified(w)
             \/ HandleRequest \/ Restart
             \/ UNCHANGED vars
      PROVE  KernelInv'
  BY <1>1, <1>2 DEF Change, Read, Appear, Elapse, TakeEvent, TakeOverflow, Flush,
                    SendModified, HandleRequest, Restart, vars
<1>3. ASSUME NEW o \in Oneshot, CheckTarget(o) PROVE KernelInv'
  <2>1. /\ UNCHANGED <<kernel, created, pc>> /\ pc = "new"
        /\ \A m \in Modified : reg'[m] = reg[m]
    BY <1>3 DEF CheckTarget, TypeOK, Watch
  <2>2. Needed' = Needed
    BY <2>1 DEF Needed
  <2> QED
    BY <2>1, <2>2
<1>4. ASSUME NEW o \in Oneshot, WatchCreated(o) PROVE KernelInv'
  <2>1. /\ kernel' = kernel \cup {WdOf[o]} /\ created' = created \cup {o}
        /\ pc = "new" /\ UNCHANGED pc
        /\ \A m \in Modified : reg'[m] = reg[m]
    BY <1>4 DEF WatchCreated, TypeOK, Watch
  <2>2. Needed' = Needed \cup {WdOf[o]}
    BY <2>1 DEF Needed
  <2> QED
    BY <2>1, <2>2
<1>5. ASSUME NEW w \in Modified, RegisterModified(w) PROVE KernelInv'
  <2>1. /\ kernel' = kernel \cup {WdOf[w]} /\ created' = created
        /\ pc = "new" /\ UNCHANGED pc
        /\ \A m \in Modified : reg'[m] = IF m = w THEN "yes" ELSE reg[m]
    BY <1>5, Descriptors DEF RegisterModified, TypeOK
  <2>2. Needed' = Needed \cup {WdOf[w]}
    BY <2>1 DEF Needed
  <2> QED
    BY <2>1, <2>2
<1>6. ASSUME IntoStream PROVE KernelInv'
  BY <1>6 DEF IntoStream, Needed
<1>7. ASSUME NEW o \in Oneshot, RaceCheck(o) PROVE KernelInv'
  <2>1. /\ UNCHANGED <<kernel, reg, pc>> /\ pc = "race"
        /\ created' = created \ ({o} \cap exists)
    BY <1>7 DEF RaceCheck
  <2>2. Needed' \subseteq Needed /\ Needed \subseteq Needed' \cup {WdOf[o]}
    BY <2>1 DEF Needed
  <2> QED
    BY <2>1, <2>2
<1>23. ASSUME NEW o \in Oneshot, RaceCheckFails(o) PROVE KernelInv'
  BY <1>23 DEF RaceCheckFails, Needed
<1>8. ASSUME NEW wds, NEW wd, kernel' = Reclaim(wds, created'), created' \subseteq Oneshot,
             UNCHANGED reg
      PROVE  wd \in kernel' <=> wd \in kernel /\ (wd \notin wds \/ wd \in Needed')
  <2>1. wd \in Needed' <=> \/ \E m \in Modified : reg[m] = "yes" /\ WdOf[m] = wd
                           \/ \E o \in created' : WdOf[o] = wd
    BY <1>8 DEF Needed
  <2> QED
    BY <1>8, <2>1, ReclaimKeeps, Reclaimed
<1>9. ASSUME NEW o \in Oneshot, SendCreated(o) PROVE KernelInv'
  <2> DEFINE wds == {WdOf[o]}
  <2>1. /\ kernel' = Reclaim(wds, created') /\ created' = created \ {o}
        /\ UNCHANGED reg /\ pc = "fire" /\ pc' = "idle"
    BY <1>9 DEF SendCreated
  <2>4. \A wd : wd \notin wds <=> wd # WdOf[o]
    OBVIOUS
  <2>5. created' \subseteq Oneshot
    BY <2>1 DEF TypeOK
  <2> HIDE DEF wds
  <2>2. \A wd : wd \in kernel' <=> wd \in kernel /\ (wd # WdOf[o] \/ wd \in Needed')
    BY <1>8, <2>1, <2>4, <2>5
  <2>3. Needed' \subseteq Needed /\ Needed \subseteq Needed' \cup {WdOf[o]}
    BY <2>1 DEF Needed
  <2> QED
    BY <2>1, <2>2, <2>3
<1>10. ASSUME RaceDone PROVE KernelInv'
  <2> DEFINE wds == {WdOf[o] : o \in Oneshot}
  <2>1. /\ kernel' = Reclaim(wds, created') /\ created' = created
        /\ UNCHANGED reg /\ pc = "race" /\ pc' = "idle"
    BY <1>10 DEF RaceDone
  <2>2. kernel \subseteq Needed \cup wds
    BY <2>1
  <2> HIDE DEF wds
  <2>3. \A wd : wd \in kernel' <=> wd \in kernel /\ (wd \notin wds \/ wd \in Needed')
    BY <1>8, <2>1 DEF TypeOK
  <2>4. Needed' = Needed
    BY <2>1 DEF Needed
  <2> QED
    BY <2>1, <2>2, <2>3, <2>4
<1>11. ASSUME End PROVE KernelInv'
  BY <1>11, Descriptors DEF End, Needed
<1> QED
  BY <1>2, <1>3, <1>4, <1>5, <1>6, <1>7, <1>9, <1>10, <1>11, <1>23
     DEF Next, Construct, Task, Stop, WatcherExit

-----------------------------------------------------------------------------
(* The oneshots                                                            *)

\* A oneshot goes from the table to the channel and from there to its feature,
\* or its target was there before: it is never in two of these places.
LEMMA OnceInvStep ==
  ASSUME TypeOK, TaskInv, OnceInv, [Next]_vars
  PROVE  OnceInv'
<1> USE DEF OnceInv
<1>1. ASSUME NEW p \in Oneshot, told'[p] = told[p], reg'[p] = reg[p],
             p \in created' <=> p \in created, Has(requests', p) <=> Has(requests, p),
             AtMostOnce(requests, p) => AtMostOnce(requests', p)
      PROVE  Once(p)'
  BY <1>1 DEF Once
<1>2. ASSUME UNCHANGED <<told, reg, created, requests>> PROVE OnceInv'
  BY <1>1, <1>2
<1>3. ASSUME \/ \E w \in Modified : Change(w) \/ Read(w)
             \/ \E o \in Oneshot : Appear(o)
             \/ \E wd \in Wd : Elapse(wd)
             \/ IntoStream \/ RaceDone \/ TakeEvent \/ TakeOverflow \/ Flush \/ Restart
             \/ UNCHANGED vars
      PROVE  OnceInv'
  BY <1>2, <1>3 DEF Change, Read, Appear, Elapse, IntoStream, RaceDone, TakeEvent,
                    TakeOverflow, Flush, Restart, vars, featureVars
<1>4. requests \in Seq(Watch) /\ Modified \cap Oneshot = {}
  BY DEF TypeOK
<1>5. ASSUME NEW o \in Oneshot, CheckTarget(o) PROVE OnceInv'
  <2>1. /\ UNCHANGED <<created, requests>> /\ requests = <<>> /\ reg[o] = "no"
        /\ \A p \in Oneshot \ {o} : told'[p] = told[p] /\ reg'[p] = reg[p]
        /\ \/ told'[o] = 1 /\ reg'[o] = "skip"
           \/ told'[o] = told[o] /\ reg'[o] = "absent"
    BY <1>5, Descriptors DEF CheckTarget, TaskInv, TypeOK
  <2>2. Once(o)'
    BY <2>1, HasNone DEF Once
  <2> QED
    BY <1>1, <2>1, <2>2
<1>6. ASSUME NEW o \in Oneshot, WatchCreated(o) PROVE OnceInv'
  <2>1. /\ UNCHANGED <<told, requests>> /\ reg[o] = "absent" /\ reg'[o] = "yes"
        /\ created' = created \cup {o}
        /\ \A p \in Oneshot \ {o} : reg'[p] = reg[p]
    BY <1>6, Descriptors DEF WatchCreated, featureVars, TypeOK
  <2>2. Once(o)'
    BY <2>1 DEF Once
  <2> QED
    BY <1>1, <2>1, <2>2
<1>7. ASSUME NEW w \in Modified, RegisterModified(w) PROVE OnceInv'
  <2>1. /\ UNCHANGED <<told, created, requests>>
        /\ \A p \in Oneshot : reg'[p] = reg[p]
    BY <1>4, <1>7, Descriptors DEF RegisterModified, featureVars, TypeOK
  <2> QED
    BY <1>1, <2>1
\* The command of a oneshot is sent, and the oneshot leaves the table.
<1>8. ASSUME NEW o \in created, requests' = Append(requests, o), created' = created \ {o},
             UNCHANGED <<told, reg>>
      PROVE  OnceInv'
  <2>1. o \in Oneshot /\ o \in Watch
    BY Descriptors DEF TypeOK
  <2>2. ASSUME NEW p \in Oneshot, p # o PROVE Once(p)'
    <3>1. /\ Has(requests', p) <=> Has(requests, p)
          /\ AtMostOnce(requests, p) => AtMostOnce(requests', p)
      BY <1>4, <1>8, <2>1, <2>2, HasAppend
    <3>2. p \in created' <=> p \in created
      BY <1>8, <2>2
    <3> QED
      BY <1>1, <1>8, <3>1, <3>2
  <2>3. Has(requests', o) /\ (~Has(requests, o) => AtMostOnce(requests', o))
    BY <1>4, <1>8, <2>1, HasAppend
  <2>4. Once(o)'
    BY <1>8, <2>1, <2>3 DEF Once
  <2> QED
    BY <2>2, <2>4
<1>9. ASSUME NEW o \in Oneshot, RaceCheck(o) PROVE OnceInv'
  <2>1. o \in created /\ UNCHANGED <<told, reg>>
    BY <1>9 DEF RaceCheck, TaskInv, featureVars
  <2>2. CASE o \in exists
    <3>1. requests' = Append(requests, o) /\ created' = created \ {o}
      BY <1>9, <2>2 DEF RaceCheck
    <3> QED
      BY <1>8, <2>1, <3>1
  <2>3. CASE o \notin exists
    <3>1. requests' = requests /\ created' = created
      BY <1>9, <2>3 DEF RaceCheck
    <3> QED
      BY <1>2, <2>1, <3>1
  <2> QED
    BY <2>2, <2>3
<1>23. ASSUME NEW o \in Oneshot, RaceCheckFails(o) PROVE OnceInv'
  BY <1>2, <1>23 DEF RaceCheckFails, featureVars
<1>10. ASSUME NEW o \in Oneshot, SendCreated(o) PROVE OnceInv'
  <2>1. o \in created /\ UNCHANGED <<told, reg>>
    BY <1>10 DEF SendCreated, TaskInv, featureVars
  <2>2. requests' = Append(requests, o) /\ created' = created \ {o}
    BY <1>10 DEF SendCreated
  <2> QED
    BY <1>8, <2>1, <2>2
<1>11. ASSUME NEW w \in Modified, SendModified(w) PROVE OnceInv'
  <2>1. requests' = Append(requests, w) /\ UNCHANGED <<told, reg, created>>
    BY <1>11 DEF SendModified, featureVars
  <2> SUFFICES ASSUME NEW p \in Oneshot PROVE Once(p)'
    OBVIOUS
  <2>2. /\ Has(requests', p) <=> Has(requests, p)
        /\ AtMostOnce(requests, p) => AtMostOnce(requests', p)
    BY <1>4, <2>1, HasAppend, Descriptors
  <2> QED
    BY <1>1, <2>1, <2>2
<1>12. ASSUME HandleRequest PROVE OnceInv'
  <2> DEFINE w == Head(requests)
  <2>1. /\ requests' = Tail(requests) /\ requests # <<>> /\ UNCHANGED <<reg, created>>
        /\ IF w \in Modified THEN UNCHANGED told ELSE told' = [told EXCEPT ![w] = @ + 1]
    BY <1>12 DEF HandleRequest
  <2>2. /\ w \in Watch /\ \A e : Has(requests, e) <=> Has(requests', e) \/ e = w
        /\ \A e : AtMostOnce(requests, e) => AtMostOnce(requests', e)
        /\ AtMostOnce(requests, w) => ~Has(requests', w)
    BY <1>4, <2>1, HasTail
  <2> HIDE DEF w
  <2>3. \A p \in Oneshot \ {w} : told'[p] = told[p]
    BY <2>1, <2>2 DEF TypeOK, Watch
  <2>4. ASSUME NEW p \in Oneshot, p = w PROVE Once(p)'
    <3>1. told'[p] = told[p] + 1
      BY <1>4, <2>1, <2>4 DEF TypeOK
    <3>2. Has(requests, p) /\ told[p] = 0 /\ ~Has(requests', p)
      BY <2>2, <2>4 DEF Once
    <3> QED
      BY <2>1, <2>4, <3>1, <3>2 DEF Once
  <2>5. ASSUME NEW p \in Oneshot, p # w PROVE Once(p)'
    <3>1. told'[p] = told[p] /\ (Has(requests', p) <=> Has(requests, p))
      BY <2>2, <2>3, <2>5
    <3> QED
      BY <1>1, <2>1, <2>2, <3>1
  <2> QED
    BY <2>4, <2>5
<1>13. ASSUME End PROVE OnceInv'
  <2>1. /\ requests' = <<>> /\ created' = {}
        /\ \A p \in Oneshot : told'[p] = 0 /\ reg'[p] = "no"
    BY <1>13, Descriptors DEF End
  <2> QED
    BY <2>1, HasNone DEF Once
<1> QED
  BY <1>3, <1>5, <1>6, <1>7, <1>9, <1>10, <1>11, <1>12, <1>13, <1>23
     DEF Next, Construct, Task, Stop, WatcherExit

\* What is announced stays so while the queue only grows.
LEMMA AnnouncedKept ==
  ASSUME \A e : Has(queue, e) => Has(queue', e)
  PROVE  \A o : Announced(o) => Announced(o)'
BY DEF Announced

\* A target that appears is announced by the kernel, or found by the race check.
LEMMA ReportInvStep ==
  ASSUME TypeOK, TaskInv, QueueInv, KernelInv, ReportInv, [Next]_vars
  PROVE  ReportInv'
<1> USE DEF ReportInv
<1>1. ASSUME \A e : Has(queue, e) => Has(queue', e), exists' = exists, created' \subseteq created,
             unchecked \subseteq unchecked',
             \A o \in created' \ unchecked' : o \in todo /\ o \in exists => o \in todo',
             pc' \in {"race", "idle", "fire", "flush"} => pc \in {"race", "idle", "fire", "flush"}
      PROVE  ReportInv'
  BY <1>1, AnnouncedKept
<1>2. ASSUME \/ \E w \in Modified : Read(w)
             \/ \E wd \in Wd : Elapse(wd)
             \/ RaceDone \/ HandleRequest
             \/ UNCHANGED vars
      PROVE  ReportInv'
  BY <1>1, <1>2 DEF Read, Elapse, RaceDone, HandleRequest, vars, fsVars
<1>3. ASSUME NEW w \in Modified, Change(w) PROVE ReportInv'
  <2>1. \A e : Has(queue, e) => Has(queue', e)
    BY <1>3, Descriptors, Enqueued DEF Change
  <2> QED
    BY <1>1, <1>3, <2>1 DEF Change
<1>4. ASSUME NEW o \in Oneshot, Appear(o) PROVE ReportInv'
  <2>1. /\ \A e : Has(queue, e) => Has(queue', e)
        /\ WdOf[o] \in kernel => Announced(o)'
    BY <1>4, Descriptors, Enqueued DEF Appear, Announced
  <2>2. o \in created => Announced(o)'
    BY <2>1, NeededWatches DEF KernelInv
  <2>3. UNCHANGED <<pc, created, todo, unchecked>> /\ exists' = exists \cup {o}
    BY <1>4 DEF Appear
  <2>4. \A p : Announced(p) => Announced(p)'
    BY <2>1, AnnouncedKept
  <2> QED
    BY <2>2, <2>3, <2>4
<1>5. ASSUME \/ \E o \in Oneshot : CheckTarget(o) \/ WatchCreated(o)
             \/ \E w \in Modified : RegisterModified(w)
             \/ TakeOverflow \/ End \/ Restart
      PROVE  ReportInv'
  <2>1. pc' \notin {"race", "idle", "fire", "flush"}
    BY <1>5 DEF CheckTarget, WatchCreated, RegisterModified, TakeOverflow, End, Restart
  <2> QED
    BY <2>1
<1>6. ASSUME IntoStream PROVE ReportInv'
  BY <1>6 DEF IntoStream
<1>7. ASSUME NEW o \in Oneshot, RaceCheck(o) PROVE ReportInv'
  BY <1>1, <1>7 DEF RaceCheck, fsVars
<1>12. ASSUME NEW o \in Oneshot, RaceCheckFails(o) PROVE ReportInv'
  BY <1>1, <1>12 DEF RaceCheckFails, fsVars
<1>8. ASSUME NEW o \in Oneshot, SendCreated(o) PROVE ReportInv'
  BY <1>1, <1>8 DEF SendCreated, fsVars
<1>9. ASSUME TakeEvent PROVE ReportInv'
  <2> DEFINE event == Head(queue)
             firing == {o \in created : o = event.name /\ WdOf[o] = event.wd}
  <2>1. /\ pc = "idle" /\ queue # <<>> /\ event # Overflow /\ queue' = Tail(queue)
        /\ todo' = firing /\ UNCHANGED <<created, exists, unchecked>>
    BY <1>9 DEF TakeEvent, fsVars
  <2>2. \A e : Has(queue, e) => Has(queue', e) \/ e = event
    BY <2>1, HasTail DEF TypeOK
  <2>3. ASSUME NEW o \in created, event = [wd |-> WdOf[o], name |-> o]
        PROVE  o \in todo'
    BY <2>1, <2>3
  <2> HIDE DEF event, firing
  <2> SUFFICES ASSUME NEW o \in Oneshot \ unchecked, o \in exists, o \in created
               PROVE  o \in todo' \/ Announced(o)'
    BY <2>1
  <2>4. Announced(o)
    BY <2>1 DEF TaskInv
  <2> QED
    BY <2>1, <2>2, <2>3, <2>4 DEF Announced
<1>10. ASSUME Flush PROVE ReportInv'
  BY <1>1, <1>10 DEF Flush, TaskInv, fsVars
<1>11. ASSUME NEW w \in Modified, SendModified(w) PROVE ReportInv'
  <2>1. w \notin created
    BY DEF TypeOK
  <2> QED
    BY <1>1, <1>11, <2>1 DEF SendModified, fsVars
<1> QED
  BY <1>2, <1>3, <1>4, <1>5, <1>6, <1>7, <1>8, <1>9, <1>10, <1>11, <1>12
     DEF Next, Construct, Task, Stop, WatcherExit

-----------------------------------------------------------------------------
(* The changes                                                             *)

\* Queued in other words.
LEMMA QueuedEvents ==
  \A wd : Queued(wd) <=> Has(queue, Overflow) \/ \E e : Has(queue, e) /\ e.wd = wd
BY DEF Queued, Has

\* What is queued stays so while the queue only grows.
LEMMA QueuedKept ==
  ASSUME \A e : Has(queue, e) => Has(queue', e)
  PROVE  \A wd : Queued(wd) => Queued(wd)'
<1>1. \A wd : Queued(wd)' <=> Has(queue', Overflow) \/ \E e : Has(queue', e) /\ e.wd = wd
  BY DEF Queued, Has
<1> QED
  BY <1>1, QueuedEvents

\* A change is queued, then its debounce is armed, then its command is to be
\* sent, then it is sent, then the feature reads: in each step it is handed on.
LEMMA NoChangeLostStep ==
  ASSUME TypeOK, TaskInv, RegInv, QueueInv, KernelInv, NoChangeLost, [Next]_vars
  PROVE  NoChangeLost'
<1> DEFINE Stale(w) == seen[w] \notin {Unread, Reading(w)}
           Pending(w) == Queued(WdOf[w]) \/ deadline[WdOf[w]] # "none" \/ w \in todo
                           \/ Requested(w)
<1>1. \A w \in Modified : pc # "ended" /\ Stale(w) => Pending(w)
  BY DEF NoChangeLost
<1>2. ASSUME \A w \in Modified : pc' # "ended" /\ Stale(w)' => Pending(w)'
      PROVE  NoChangeLost'
  BY <1>2 DEF NoChangeLost
<1>3. \A w : Requested(w) <=> Has(requests, w)
  BY DEF Requested, Has
<1>4. \A w : Requested(w)' <=> Has(requests', w)
  BY DEF Requested, Has
<1>5. \A wd : Queued(wd)' <=> Has(queue', Overflow) \/ \E e : Has(queue', e) /\ e.wd = wd
  BY DEF Queued, Has
<1>6. \A w \in Modified : seen[w] # Unread => reg[w] = "yes" /\ WdOf[w] \in kernel
  BY NeededWatches DEF RegInv, KernelInv
<1>7. Modified \cap Oneshot = {} /\ requests \in Seq(Watch) /\ queue \in Seq(Event)
  BY DEF TypeOK
<1>8. \A w \in Modified : UNCHANGED <<seen, version>> => (Stale(w)' <=> Stale(w))
  BY DEF Reading
\* Nothing is taken away.
<1>9. ASSUME UNCHANGED <<seen, version>>, pc = "ended" => pc' = "ended",
             \A e : Has(queue, e) => Has(queue', e),
             \A wd \in Wd : deadline[wd] # "none" => deadline'[wd] # "none",
             \A w \in Modified : /\ w \in todo => w \in todo'
                                 /\ Has(requests, w) => Has(requests', w)
      PROVE  NoChangeLost'
  <2>1. \A wd : Queued(wd) => Queued(wd)'
    BY <1>9, QueuedKept
  <2>2. \A w \in Modified : Pending(w) => Pending(w)'
    BY <1>3, <1>4, <1>9, <2>1, Descriptors
  <2> HIDE DEF Stale, Pending
  <2> QED
    BY <1>1, <1>2, <1>8, <1>9, <2>2
<1>10. ASSUME UNCHANGED <<version, seen, queue, deadline, requests, todo>>,
              pc = "ended" => pc' = "ended"
       PROVE  NoChangeLost'
  BY <1>9, <1>10
<1>11. ASSUME \/ \E o \in Oneshot : CheckTarget(o) \/ WatchCreated(o)
              \/ \E w \in Modified : RegisterModified(w)
              \/ RaceDone \/ TakeOverflow \/ Restart \/ UNCHANGED vars
       PROVE  NoChangeLost'
  BY <1>10, <1>11 DEF CheckTarget, WatchCreated, RegisterModified, RaceDone, TakeOverflow,
                      Restart, vars, fsVars, featureVars
<1>12. ASSUME NEW w \in Modified, Change(w) PROVE NoChangeLost'
  <2>1. Enqueue(WdOf[w], "entry") /\ WdOf[w] \in Wd
    BY <1>12, Descriptors DEF Change
  <2>2. /\ \A e : Has(queue, e) => Has(queue', e)
        /\ WdOf[w] \in kernel =>
             Has(queue', [wd |-> WdOf[w], name |-> "entry"]) \/ Has(queue', Overflow)
    BY <2>1, Enqueued
  <2>3. \A wd : Queued(wd) => Queued(wd)'
    BY <2>2, QueuedKept
  <2>4. WdOf[w] \in kernel => Queued(WdOf[w])'
    <3>1. [wd |-> WdOf[w], name |-> "entry"].wd = WdOf[w]
      OBVIOUS
    <3> QED
      BY <1>5, <2>2, <3>1
  <2>5. /\ UNCHANGED <<pc, seen, deadline, todo, requests>>
        /\ \A p \in Modified \ {w} : version'[p] = version[p]
    BY <1>12 DEF Change, featureVars, TypeOK
  <2>6. \A p \in Modified \ {w} : Stale(p)' <=> Stale(p)
    BY <2>5 DEF Reading
  <2>7. \A p \in Modified : Pending(p) => Pending(p)'
    BY <1>3, <1>4, <2>3, <2>5
  <2>8. Stale(w)' => Pending(w)'
    BY <1>6, <2>4, <2>5
  <2> HIDE DEF Stale, Pending
  <2> QED
    BY <1>1, <1>2, <2>5, <2>6, <2>7, <2>8
<1>13. ASSUME NEW o \in Oneshot, Appear(o) PROVE NoChangeLost'
  <2>1. \A e : Has(queue, e) => Has(queue', e)
    BY <1>13, Descriptors, Enqueued DEF Appear
  <2> QED
    BY <1>9, <1>13, <2>1 DEF Appear, featureVars
<1>14. ASSUME NEW w \in Modified, Read(w) PROVE NoChangeLost'
  <2>1. /\ UNCHANGED <<pc, version, queue, deadline, todo, requests>>
        /\ seen' = [seen EXCEPT ![w] = Reading(w)]
    BY <1>14 DEF Read, fsVars
  <2>2. \A p \in Modified : Stale(p)' => Stale(p)
    BY <2>1 DEF Reading, TypeOK
  <2>3. \A p \in Modified : Pending(p) => Pending(p)'
    BY <2>1 DEF Queued, Requested
  <2> HIDE DEF Stale, Pending
  <2> QED
    BY <1>1, <1>2, <2>1, <2>2, <2>3
<1>15. ASSUME IntoStream PROVE NoChangeLost'
  BY <1>9, <1>15 DEF IntoStream, TaskInv, fsVars, featureVars
<1>23. ASSUME NEW o \in Oneshot, RaceCheckFails(o) PROVE NoChangeLost'
  BY <1>7, <1>9, <1>23 DEF RaceCheckFails, fsVars, featureVars
\* A oneshot's command goes the same way, and takes nobody's place.
<1>16. ASSUME NEW o \in Oneshot, RaceCheck(o) \/ SendCreated(o) PROVE NoChangeLost'
  <2>1. /\ requests' \in {requests, Append(requests, o)} /\ todo' = todo \ {o}
        /\ pc # "ended" /\ UNCHANGED <<seen, version, queue, deadline>>
    BY <1>16 DEF RaceCheck, SendCreated, fsVars, featureVars
  <2>2. \A w : Has(requests, w) => Has(requests', w)
    <3>1. o \in Watch
      BY Descriptors
    <3>2. CASE requests' = requests
      BY <3>2
    <3>3. CASE requests' = Append(requests, o)
      BY <1>7, <3>1, <3>3, HasAppend
    <3> QED
      BY <2>1, <3>2, <3>3
  <2> QED
    BY <1>7, <1>9, <2>1, <2>2
<1>17. ASSUME TakeEvent PROVE NoChangeLost'
  <2> DEFINE event == Head(queue)
  <2>1. /\ pc = "idle" /\ queue # <<>> /\ event # Overflow /\ queue' = Tail(queue)
        /\ deadline' = IF ModifiedOn(event.wd) = {} THEN deadline
                       ELSE [deadline EXCEPT ![event.wd] = "armed"]
        /\ UNCHANGED <<requests, seen, version>>
    BY <1>17 DEF TakeEvent, fsVars, featureVars
  <2>2. \A e : Has(queue, e) => Has(queue', e) \/ e = event
    BY <1>7, <2>1, HasTail
  <2> HIDE DEF event
  <2>3. \A wd : Queued(wd) => Queued(wd)' \/ event.wd = wd
    BY <1>5, <2>1, <2>2, QueuedEvents
  <2>4. \A wd \in Wd : /\ deadline[wd] # "none" => deadline'[wd] # "none"
                      /\ event.wd = wd /\ ModifiedOn(wd) # {} => deadline'[wd] # "none"
    BY <2>1 DEF TypeOK
  <2>5. ASSUME NEW w \in Modified, Stale(w)'
        PROVE  Pending(w)'
    <3>1. Stale(w) /\ reg[w] = "yes" /\ w \notin todo
      BY <1>6, <1>8, <2>1, <2>5 DEF TaskInv
    <3>2. Pending(w) /\ w \in ModifiedOn(WdOf[w]) /\ WdOf[w] \in Wd
      BY <1>1, <2>1, <3>1, Descriptors DEF ModifiedOn
    <3> QED
      BY <1>3, <1>4, <2>1, <2>3, <2>4, <3>1, <3>2
  <2> QED
    BY <1>2, <2>5
<1>18. ASSUME NEW wd \in Wd, Elapse(wd) PROVE NoChangeLost'
  <2>1. \A d \in Wd : deadline[d] # "none" => deadline'[d] # "none"
    BY <1>18 DEF Elapse, TypeOK
  <2> QED
    BY <1>9, <1>18, <2>1 DEF Elapse, fsVars, featureVars
<1>19. ASSUME Flush PROVE NoChangeLost'
  <2>1. /\ pc = "idle" /\ UNCHANGED <<requests, seen, version, queue>>
        /\ deadline' = [wd \in Wd |-> IF wd \in Expired THEN "none" ELSE deadline[wd]]
        /\ todo' = UNION {ModifiedOn(wd) : wd \in Expired}
    BY <1>19 DEF Flush, fsVars, featureVars
  <2>2. ASSUME NEW w \in Modified, Stale(w)'
        PROVE  Pending(w)'
    <3>1. Stale(w) /\ reg[w] = "yes" /\ w \notin todo
      BY <1>6, <1>8, <2>1, <2>2 DEF TaskInv
    <3>2. Pending(w) /\ w \in ModifiedOn(WdOf[w]) /\ WdOf[w] \in Wd
      BY <1>1, <2>1, <3>1, Descriptors DEF ModifiedOn
    <3>3. deadline[WdOf[w]] # "none" => deadline'[WdOf[w]] # "none" \/ w \in todo'
      BY <2>1, <3>2 DEF Expired
    <3>4. Queued(WdOf[w]) => Queued(WdOf[w])'
      BY <2>1, QueuedKept
    <3> QED
      BY <1>3, <1>4, <2>1, <3>1, <3>2, <3>3, <3>4
  <2> QED
    BY <1>2, <2>2
<1>20. ASSUME NEW w \in Modified, SendModified(w) PROVE NoChangeLost'
  <2>1. /\ requests' = Append(requests, w) /\ todo' = todo \ {w} /\ pc = "flush"
        /\ UNCHANGED <<seen, version, queue, deadline>>
    BY <1>20 DEF SendModified, fsVars, featureVars
  <2>2. \A p : Has(requests', p) <=> Has(requests, p) \/ p = w
    BY <1>7, <2>1, HasAppend, Descriptors
  <2>3. \A wd : Queued(wd) => Queued(wd)'
    BY <2>1, QueuedKept
  <2>4. \A p \in Modified : Pending(p) => Pending(p)'
    BY <1>3, <1>4, <2>1, <2>2, <2>3
  <2> HIDE DEF Stale, Pending
  <2> QED
    BY <1>1, <1>2, <1>8, <2>1, <2>4
<1>21. ASSUME HandleRequest PROVE NoChangeLost'
  <2> DEFINE w == Head(requests)
  <2>1. /\ requests' = Tail(requests) /\ requests # <<>>
        /\ UNCHANGED <<pc, version, queue, deadline, todo>>
        /\ IF w \in Modified THEN seen' = [seen EXCEPT ![w] = Reading(w)] ELSE UNCHANGED seen
    BY <1>21 DEF HandleRequest, fsVars
  <2>2. \A e : Has(requests, e) => Has(requests', e) \/ e = w
    BY <1>7, <2>1, HasTail
  <2>3. \A wd : Queued(wd) => Queued(wd)'
    BY <2>1, QueuedKept
  <2> HIDE DEF w
  <2>4. \A p \in Modified : Stale(p)' => Stale(p) /\ p # w
    BY <2>1 DEF Reading, TypeOK
  <2>5. \A p \in Modified \ {w} : Pending(p) => Pending(p)'
    BY <1>3, <1>4, <2>1, <2>2, <2>3
  <2> HIDE DEF Stale, Pending
  <2> QED
    BY <1>1, <1>2, <2>1, <2>4, <2>5
<1>22. ASSUME End PROVE NoChangeLost'
  <2>1. \A w \in Modified : seen'[w] = Unread
    BY <1>22 DEF End
  <2> QED
    BY <1>2, <2>1
<1> HIDE DEF Stale, Pending
<1> QED
  BY <1>11, <1>12, <1>13, <1>14, <1>15, <1>16, <1>17, <1>18, <1>19, <1>20, <1>21, <1>22,
     <1>23
     DEF Next, Construct, Task, Stop, WatcherExit

-----------------------------------------------------------------------------
(* The theorems                                                            *)

\* The process starts with nothing registered.
LEMMA InitIInv == Init => IInv
<1> SUFFICES ASSUME Init PROVE IInv
  OBVIOUS
<1> USE DEF Init, Fresh
<1>1. /\ version \in [Modified -> 0..MaxChanges]
      /\ seen \in [Modified -> {Unread} \cup {{n} : n \in 0..MaxChanges}]
      /\ told \in [Oneshot -> Nat]
      /\ reg \in [Watch -> {"no", "absent", "yes", "skip"}]
      /\ deadline \in [Wd -> {"none", "armed", "expired"}]
  OBVIOUS
<1>2. /\ queue \in Seq(Event) /\ Len(queue) = 0
      /\ requests \in Seq(Watch) /\ Len(requests) = 0
  OBVIOUS
<1>3. TypeOK
  BY <1>1, <1>2 DEF TypeOK
<1>4. TaskInv /\ RegInv /\ QueueInv /\ ReportInv /\ NoChangeLost
  BY <1>2, Descriptors DEF TaskInv, RegInv, QueueInv, ReportInv, NoChangeLost
<1>5. KernelInv
  BY Descriptors DEF KernelInv, Needed
<1>6. OnceInv
  BY HasNone, Descriptors DEF OnceInv, Once
<1> QED
  BY <1>3, <1>4, <1>5, <1>6 DEF IInv

\* The invariant of the process and its watches is inductive.
THEOREM Invariance == Spec => []IInv
<1>1. IInv /\ [Next]_vars => IInv'
  BY TypeOKStep, TaskInvStep, RegInvStep, KernelInvStep, OnceInvStep, ReportInvStep,
     NoChangeLostStep DEF IInv
<1> QED
  BY InitIInv, <1>1, PTL DEF Spec

\* Types are kept, whatever the length of the queue and of the channel.
THEOREM TypeCorrect == Spec => []TypeOK
<1>1. IInv => TypeOK
  BY DEF IInv
<1> QED
  BY <1>1, Invariance, PTL

\* fs_watcher.rs: a feature whose reading of its path is out of date is about to
\* be told, in every interleaving of changes, debounce, task and loop.
THEOREM NoChangeIsLost == Spec => []NoChangeLost
<1>1. IInv => NoChangeLost
  BY DEF IInv
<1> QED
  BY <1>1, Invariance, PTL

\* fs_watcher.rs: a target is reported once, whenever it appears between the
\* feature's check, its watch and the start of the loop, unless it is there when
\* the race check fails.
THEOREM OneshotsFireOnce == Spec => []FiresOnce
<1>1. IInv => FiresOnce
  <2> SUFFICES ASSUME IInv, NEW o \in Oneshot
               PROVE  /\ told[o] + (IF Requested(o) THEN 1 ELSE 0) <= 1
                      /\ pc \in {"idle", "fire", "flush"} /\ o \in exists \ unchecked =>
                           \/ told[o] = 1 \/ Requested(o)
                           \/ o \in created /\ (o \in todo \/ Queued(WdOf[o]))
    BY DEF FiresOnce
  <2>1. Requested(o) <=> Has(requests, o)
    BY DEF Requested, Has
  <2>2. Once(o) /\ o \in Watch
    BY Descriptors DEF IInv, OnceInv
  <2>3. told[o] + (IF Requested(o) THEN 1 ELSE 0) <= 1
    BY <2>1, <2>2 DEF Once
  <2>4. Announced(o) => Queued(WdOf[o])
    <3>1. [wd |-> WdOf[o], name |-> o].wd = WdOf[o]
      OBVIOUS
    <3> QED
      BY <3>1, QueuedEvents DEF Announced
  <2>5. ASSUME pc \in {"idle", "fire", "flush"}, o \in exists \ unchecked
        PROVE  \/ told[o] = 1 \/ Requested(o)
               \/ o \in created /\ (o \in todo \/ Queued(WdOf[o]))
    <3>1. reg[o] \in {"yes", "skip"}
      BY <2>2, <2>5 DEF IInv, RegInv
    <3>2. o \in created => o \in todo \/ Announced(o)
      BY <2>5 DEF IInv, ReportInv
    <3> QED
      BY <2>1, <2>2, <2>4, <3>1, <3>2 DEF Once
  <2> QED
    BY <2>3, <2>5
<1> QED
  BY <1>1, Invariance, PTL

\* fs_watcher.rs: the kernel watches the descriptors either table needs, and once
\* the race check is done no other.
THEOREM NoWatchIsLeaked == Spec => []NoWatchLeaked
<1>1. IInv => NoWatchLeaked
  BY DEF IInv, KernelInv, Needed, NoWatchLeaked
<1> QED
  BY <1>1, Invariance, PTL
=============================================================================
