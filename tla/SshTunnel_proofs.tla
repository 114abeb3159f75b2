-------------------------- MODULE SshTunnel_proofs --------------------------
(***************************************************************************)
(* Proofs about SshTunnel, for every number of permits, tunnel ids, ssh    *)
(* processes and messages the channel holds: type correctness, that        *)
(* credentials have an owner, that permits and owners always add up, and   *)
(* that the end of a tunnel is reported once.                              *)
(***************************************************************************)
EXTENDS SshTunnel, FiniteSetTheorems, FunctionTheorems, TLAPS

\* The one process a command waits for is the one it started.
CommandInv ==
  /\ Connecting => /\ By(command.slot, "open") /\ ssh[command.slot].id = command.id
                   /\ ~ssh[command.slot].notified
  /\ \A s \in Slot : By(s, "open") => Connecting /\ command.slot = s

\* The permits of the semaphore, and of a command that has not started its
\* process yet.
Unowned == permits + (IF command.pc = "store" THEN 1 ELSE 0)

\* Every permit is one of these or has an owner.
PermitInv ==
  /\ IsFiniteSet(Owners)
  /\ Unowned + Cardinality(Owners) = MaxTunnels

IInv == TypeOK /\ CommandInv /\ PermitInv /\ CredentialsCleaned /\ EndReportedOnce

-----------------------------------------------------------------------------
USE BoundsAssumption DEF files, counts, NoCommand, NoSsh, Idle, Exited, Connecting

\* A process is not an idle slot, and its fields have their types.
LEMMA Processes ==
  \A p \in Process :
    /\ p # NoSsh
    /\ p.proc \in {"connecting", "up", "exited"} /\ p.id \in Id
    /\ p.by \in {"open", "task", "nobody"} /\ p.greeted \in BOOLEAN /\ p.notified \in BOOLEAN
BY DEF Process

\* The ways in which a process changes.
LEMMA ProcessChanges ==
  ASSUME NEW p \in Process
  PROVE  /\ LET q == [p EXCEPT !.proc = "exited"] IN
              q \in Process /\ q.by = p.by /\ q.id = p.id /\ q.notified = p.notified
         /\ LET q == [p EXCEPT !.proc = "up", !.greeted = TRUE] IN
              q \in Process /\ q.by = p.by /\ q.id = p.id /\ q.notified = p.notified
         /\ LET q == [p EXCEPT !.by = "task"] IN
              q \in Process /\ q.by = "task" /\ q.id = p.id /\ q.notified = p.notified
         /\ LET q == [p EXCEPT !.by = "nobody"] IN
              q \in Process /\ q.by = "nobody" /\ q.id = p.id /\ q.notified = p.notified
         /\ LET q == [p EXCEPT !.notified = TRUE] IN
              q \in Process /\ q.by = p.by /\ q.id = p.id /\ q.notified
BY DEF Process

-----------------------------------------------------------------------------
(* What the steps do to the ssh processes                                  *)

Becomes(s, q) == ssh' = [ssh EXCEPT ![s] = q]

\* A process goes on, or exits, and is waited for as before.
Lives(s) ==
  /\ s \in Slot /\ ssh[s] \in Process
  /\ \E q \in Process : /\ Becomes(s, q)
                        /\ q.by = ssh[s].by /\ q.id = ssh[s].id
                        /\ q.notified = ssh[s].notified

\* Nobody waits for a process any more.
Abandoned(s) ==
  /\ s \in Slot /\ ssh[s] \in Process
  /\ \E q \in {NoSsh} \cup Process : Becomes(s, q) /\ (q \in Process => q.by = "nobody")

\* A process is waited for by a task, which has told its end or not.
Attended(s, toldEnd) ==
  /\ s \in Slot /\ ssh[s] \in Process
  /\ \E q \in Process : /\ Becomes(s, q)
                        /\ q.by = "task" /\ q.id = ssh[s].id /\ q.notified = toldEnd

\* An exit is noticed by who waits for it.
LEMMA SshExits ==
  ASSUME TypeOK, NEW s \in Slot, ssh[s] # NoSsh, Becomes(s, Ended(ssh[s]))
  PROVE  Lives(s) \/ (By(s, "nobody") /\ Abandoned(s))
<1>1. ssh[s] \in Process
  BY DEF TypeOK
<1>2. CASE ssh[s].by = "nobody"
  BY <1>1, <1>2, Processes DEF Abandoned, Becomes, Ended, By
<1>3. CASE ssh[s].by # "nobody"
  <2> DEFINE q == [ssh[s] EXCEPT !.proc = "exited"]
  <2>1. q \in Process /\ q.by = ssh[s].by /\ q.id = ssh[s].id /\ q.notified = ssh[s].notified
    BY <1>1, ProcessChanges
  <2>2. Becomes(s, q)
    BY <1>3 DEF Ended
  <2> QED
    BY <1>1, <2>1, <2>2 DEF Lives
<1> QED
  BY <1>2, <1>3

\* The effect of each action, in these terms.
LEMMA SshEffects ==
  ASSUME TypeOK, CommandInv
  PROVE  /\ \A s \in Slot : LogsIn(s) => Lives(s)
         /\ \A s \in Slot : Exits(s) => Lives(s) \/ (By(s, "nobody") /\ Abandoned(s))
         /\ \A i \in Id : CloseSshTunnel(i) =>
              \/ UNCHANGED ssh
              \/ \E s \in Slot : Lives(s) \/ (By(s, "nobody") /\ Abandoned(s))
         /\ StoreAndStart =>
              \E s \in Slot : \E q \in Process :
                /\ ssh[s] = NoSsh /\ Becomes(s, q)
                /\ q.by = "open" /\ q.id = command.id /\ ~q.notified
                /\ command' = [pc |-> "connect", id |-> command.id, slot |-> s]
         /\ Established => Attended(command.slot, FALSE)
         /\ ConnectFails \/ UnexpectedResponse => Abandoned(command.slot)
         /\ \A s \in Slot : Notify(s) => By(s, "task") /\ Attended(s, TRUE)
         /\ \A s \in Slot : TaskEnds(s) \/ WaitFails(s) => By(s, "task") /\ Abandoned(s)
<1>0. ASSUME NEW s \in Slot, ssh[s] # NoSsh
      PROVE  ssh[s] \in Process /\ (Becomes(s, Unattended(ssh[s])) => Abandoned(s))
  <2>1. ssh[s] \in Process
    BY <1>0 DEF TypeOK
  <2> DEFINE q == [ssh[s] EXCEPT !.by = "nobody"]
  <2>2. q \in Process /\ q.by = "nobody"
    BY <2>1, ProcessChanges
  <2>3. Unattended(ssh[s]) \in {NoSsh, q}
    BY DEF Unattended
  <2> HIDE DEF q
  <2>4. NoSsh \notin Process
    BY Processes
  <2> QED
    BY <2>1, <2>2, <2>3, <2>4 DEF Abandoned
<1>1. ASSUME NEW s \in Slot, LogsIn(s) PROVE Lives(s)
  <2> DEFINE q == [ssh[s] EXCEPT !.proc = "up", !.greeted = TRUE]
  <2>1. ssh[s] \in Process
    BY <1>0, <1>1 DEF LogsIn
  <2>2. q \in Process /\ q.by = ssh[s].by /\ q.id = ssh[s].id /\ q.notified = ssh[s].notified
    BY <2>1, ProcessChanges
  <2>3. Becomes(s, q)
    BY <1>1 DEF LogsIn, Becomes
  <2> QED
    BY <2>1, <2>2, <2>3 DEF Lives
<1>2. ASSUME NEW s \in Slot, Exits(s)
      PROVE  Lives(s) \/ (By(s, "nobody") /\ Abandoned(s))
  <2>1. ssh[s] # NoSsh /\ Becomes(s, Ended(ssh[s]))
    BY <1>2 DEF Exits, Becomes
  <2> QED
    BY <2>1, SshExits
<1>3. ASSUME NEW i \in Id, CloseSshTunnel(i)
      PROVE  \/ UNCHANGED ssh
             \/ \E s \in Slot : Lives(s) \/ (By(s, "nobody") /\ Abandoned(s))
  <2>1. UNCHANGED ssh \/ \E s \in Slot : ssh[s] # NoSsh /\ Becomes(s, Ended(ssh[s]))
    BY <1>3 DEF CloseSshTunnel, Becomes
  <2> QED
    BY <2>1, SshExits
<1>4. ASSUME StoreAndStart
      PROVE  \E s \in Slot : \E q \in Process :
               /\ ssh[s] = NoSsh /\ Becomes(s, q)
               /\ q.by = "open" /\ q.id = command.id /\ ~q.notified
               /\ command' = [pc |-> "connect", id |-> command.id, slot |-> s]
  <2> DEFINE q == [proc |-> "connecting", id |-> command.id, by |-> "open",
                   greeted |-> FALSE, notified |-> FALSE]
  <2>1. command.id \in Id
    BY <1>4 DEF StoreAndStart, TypeOK
  <2>2. q \in Process /\ q.by = "open" /\ q.id = command.id /\ ~q.notified
    BY <2>1 DEF Process
  <2>3. \E s \in Slot : /\ ssh[s] = NoSsh /\ Becomes(s, q)
                        /\ command' = [pc |-> "connect", id |-> command.id, slot |-> s]
    BY <1>4 DEF StoreAndStart, Becomes
  <2> HIDE DEF q
  <2> QED
    BY <2>2, <2>3
<1>5. ASSUME Established PROVE Attended(command.slot, FALSE)
  <2> DEFINE s == command.slot
             q == [ssh[s] EXCEPT !.by = "task"]
  <2>1. s \in Slot /\ ssh[s] \in Process /\ ssh[s].notified = FALSE
    BY <1>5, <1>0, Processes DEF Established, TypeOK, CommandInv, By
  <2>2. q \in Process /\ q.by = "task" /\ q.id = ssh[s].id /\ q.notified = ssh[s].notified
    BY <2>1, ProcessChanges
  <2>3. Becomes(s, q)
    BY <1>5 DEF Established, Becomes
  <2> HIDE DEF q, s
  <2>4. Attended(s, FALSE)
    BY <2>1, <2>2, <2>3 DEF Attended
  <2> QED
    BY <2>4 DEF s
<1>6. ASSUME ConnectFails \/ UnexpectedResponse PROVE Abandoned(command.slot)
  <2> DEFINE s == command.slot
  <2>1. s \in Slot /\ ssh[s] # NoSsh
    BY <1>6 DEF ConnectFails, UnexpectedResponse, TypeOK, CommandInv, By
  <2>2. Becomes(s, NoSsh) \/ Becomes(s, Unattended(ssh[s]))
    BY <1>6 DEF ConnectFails, UnexpectedResponse, Becomes
  <2> HIDE DEF s
  <2>3. Abandoned(s)
    BY <2>1, <2>2, <1>0, Processes DEF Abandoned
  <2> QED
    BY <2>3 DEF s
<1>7. ASSUME NEW s \in Slot, Notify(s) PROVE By(s, "task") /\ Attended(s, TRUE)
  <2> DEFINE q == [ssh[s] EXCEPT !.notified = TRUE]
  <2>1. ssh[s] \in Process /\ ssh[s].by = "task"
    BY <1>7, <1>0 DEF Notify, Waits, By
  <2>2. q \in Process /\ q.by = ssh[s].by /\ q.id = ssh[s].id /\ q.notified
    BY <2>1, ProcessChanges
  <2>3. Becomes(s, q)
    BY <1>7 DEF Notify, Becomes
  <2> HIDE DEF q
  <2> QED
    BY <1>7, <2>1, <2>2, <2>3, Processes DEF Attended, Notify, Waits
<1>8. ASSUME NEW s \in Slot, TaskEnds(s) \/ WaitFails(s)
      PROVE  By(s, "task") /\ Abandoned(s)
  <2>1. By(s, "task") /\ ssh[s] # NoSsh
    BY <1>8 DEF TaskEnds, WaitFails, Waits, By
  <2>2. Becomes(s, NoSsh) \/ Becomes(s, Unattended(ssh[s]))
    BY <1>8 DEF TaskEnds, WaitFails, Becomes
  <2> QED
    BY <2>1, <2>2, <1>0, Processes DEF Abandoned
<1> QED
  BY <1>1, <1>2, <1>3, <1>4, <1>5, <1>6, <1>7, <1>8

-----------------------------------------------------------------------------
(* Invariance                                                              *)

\* The invariant holds initially.
LEMMA InitInv == Init => IInv
<1> SUFFICES ASSUME Init PROVE IInv
  OBVIOUS
<1> USE DEF Init, Fresh, None, By
<1>1. TypeOK
  BY DEF TypeOK
<1>2. CommandInv /\ CredentialsCleaned
  BY DEF CommandInv, CredentialsCleaned
<1>3. Owners = {} /\ \A i : Telling(i) = {}
  BY DEF Owners, Telling, Waits
<1>4. PermitInv
  BY <1>3, FS_EmptySet DEF PermitInv, Unowned
<1>5. EndReportedOnce
  <2>1. Cardinality({}) = 0 /\ 0 + 0 = 0
    BY FS_EmptySet
  <2>2. \A i \in Id : told[i] = 0 /\ opened[i] = 0
    OBVIOUS
  <2>3. \A i : Sent(i) = {}
    <3>1. outgoing = <<>> /\ DOMAIN <<>> = {}
      OBVIOUS
    <3> QED
      BY <3>1 DEF Sent
  <2>4. \A i \in Id : Cardinality(Telling(i)) = 0 /\ Cardinality(Sent(i)) = 0
    BY <1>3, <2>1, <2>3
  <2> QED
    BY <2>1, <2>2, <2>4 DEF EndReportedOnce
<1> QED
  BY <1>1, <1>2, <1>4, <1>5 DEF IInv

\* Whoever is an owner had his permit taken: no more are given back than there
\* are.
LEMMA PermitsLeft ==
  ASSUME IInv, command.pc = "store" \/ \E s \in Slot : s \in Owners
  PROVE  permits < MaxTunnels
<1>1. CASE command.pc = "store"
  BY <1>1, FS_CardinalityType DEF IInv, TypeOK, PermitInv, Unowned
<1>2. CASE \E s \in Slot : s \in Owners
  <2>1. Cardinality(Owners) \in Nat \ {0}
    BY <1>2, FS_CardinalityType, FS_EmptySet DEF IInv, PermitInv
  <2> QED
    BY <2>1 DEF IInv, TypeOK, PermitInv, Unowned
<1> QED
  BY <1>1, <1>2

\* Every slot stays idle or has a process.
LEMMA SshTypeStep == IInv /\ [Next]_vars => ssh' \in [Slot -> {NoSsh} \cup Process]
<1> SUFFICES ASSUME IInv, [Next]_vars PROVE ssh' \in [Slot -> {NoSsh} \cup Process]
  OBVIOUS
<1> USE DEF IInv, TypeOK
<1>1. CASE \/ \E s \in Slot : \E q \in {NoSsh} \cup Process : Becomes(s, q)
           \/ UNCHANGED ssh
           \/ ssh' = [s \in Slot |-> NoSsh]
  BY <1>1 DEF Becomes
<1>2. CASE \E i \in Id : GetSshPubKey(i) \/ OpenSshTunnel(i)
  BY <1>2, <1>1 DEF GetSshPubKey, OpenSshTunnel
<1>3. CASE \/ OpenRejected \/ StoreOrStartFails
           \/ Drain \/ Discard \/ ClientLost \/ ClientCreated
  BY <1>3, <1>1 DEF OpenRejected, StoreOrStartFails, Drain, Discard, ClientLost,
       ClientCreated
<1>4. CASE Kill \/ WatchdogKills
  BY <1>4, <1>1 DEF Kill, WatchdogKills, End
<1>5. CASE UNCHANGED vars
  BY <1>5, <1>1 DEF vars
<1>6. CASE \/ \E i \in Id : CloseSshTunnel(i)
           \/ StoreAndStart \/ Established \/ ConnectFails \/ UnexpectedResponse
           \/ \E s \in Slot : Notify(s) \/ TaskEnds(s) \/ WaitFails(s) \/ LogsIn(s) \/ Exits(s)
  BY <1>6, <1>1, SshEffects DEF Lives, Abandoned, Attended
<1> QED
  BY <1>2, <1>3, <1>4, <1>5, <1>6 DEF Next, Loop

\* Dropping a permit and credentials keeps their types.
LEMMA CleanupTyped ==
  ASSUME TypeOK, permits < MaxTunnels, NEW i \in Id, Cleanup(i)
  PROVE  keys' \subseteq Id /\ certs' \subseteq Id /\ left' \subseteq Id
         /\ permits' \in 0..MaxTunnels
BY BoundsAssumption DEF TypeOK, Cleanup

\* So does a fault with their number.
LEMMA FaultTyped ==
  ASSUME TypeOK, Fault \/ UNCHANGED faults
  PROVE  faults' \in 0..MaxFaults
BY BoundsAssumption DEF TypeOK, Fault

\* Every step keeps the types.
LEMMA TypeOKStep == IInv /\ [Next]_vars => TypeOK'
<1> SUFFICES ASSUME IInv, [Next]_vars PROVE TypeOK'
  OBVIOUS
<1> USE SshTypeStep DEF IInv, TypeOK
<1>1. CASE \E i \in Id : CloseSshTunnel(i)
  BY <1>1 DEF CloseSshTunnel, Command
<1>15. CASE \E i \in Id : OpenSshTunnel(i)
  BY <1>15 DEF OpenSshTunnel, Command
<1>14. CASE \E i \in Id : GetSshPubKey(i)
  BY <1>14 DEF GetSshPubKey, Command
<1>2. CASE OpenRejected
  BY <1>2 DEF OpenRejected, Command
<1>3. CASE StoreAndStart
  BY <1>3 DEF StoreAndStart
<1>4. CASE StoreOrStartFails
  <2>1. faults' \in 0..MaxFaults
    BY <1>4, FaultTyped DEF StoreOrStartFails
  <2>2. /\ keys' \subseteq Id /\ certs' \subseteq Id /\ left' \subseteq Id
        /\ permits' \in 0..MaxTunnels
    BY <1>4, PermitsLeft, CleanupTyped DEF StoreOrStartFails
  <2>3. command' = NoCommand /\ UNCHANGED <<outgoing, client, opened, told, missed, commands>>
    BY <1>4 DEF StoreOrStartFails
  <2> QED
    BY <2>1, <2>2, <2>3
<1>5. CASE Established
  <2>1. command.id \in Id
    BY <1>5 DEF Established
  <2>2. opened' = [opened EXCEPT ![command.id] = @ + 1] /\ opened[command.id] + 1 \in Nat
    BY <1>5, <2>1 DEF Established
  <2>3. opened' \in [Id -> Nat]
    BY <2>2
  <2>4. /\ command' = NoCommand /\ UNCHANGED <<permits, keys, certs, left>>
        /\ UNCHANGED <<outgoing, client, told, missed, commands, faults>>
    BY <1>5 DEF Established
  <2> QED
    BY <2>3, <2>4
<1>6. CASE ConnectFails \/ UnexpectedResponse
  <2>1. command.slot \in Owners /\ command.slot \in Slot /\ command.id \in Id
    BY <1>6 DEF ConnectFails, UnexpectedResponse, CommandInv, Owners
  <2>2. faults' \in 0..MaxFaults
    BY <1>6, FaultTyped DEF ConnectFails, UnexpectedResponse
  <2>3. Cleanup(command.id)
    BY <1>6 DEF ConnectFails, UnexpectedResponse
  <2>4. /\ keys' \subseteq Id /\ certs' \subseteq Id /\ left' \subseteq Id
        /\ permits' \in 0..MaxTunnels
    BY <2>1, <2>3, PermitsLeft, CleanupTyped
  <2>5. command' = NoCommand /\ UNCHANGED <<outgoing, client, opened, told, missed, commands>>
    BY <1>6 DEF ConnectFails, UnexpectedResponse
  <2> QED
    BY <2>2, <2>4, <2>5
<1>7. CASE Drain \/ Discard
  <2>1. /\ Head(outgoing) \in Id /\ Tail(outgoing) \in Seq(Id)
        /\ Len(Tail(outgoing)) <= Capacity
    BY <1>7 DEF Drain, Discard
  <2>2. CASE Drain
    <3>1. told' = [told EXCEPT ![Head(outgoing)] = @ + 1] /\ told[Head(outgoing)] + 1 \in Nat
      BY <2>1, <2>2 DEF Drain
    <3>2. told' \in [Id -> Nat]
      BY <3>1
    <3> QED
      BY <2>1, <2>2, <3>2 DEF Drain
  <2>3. CASE Discard
    BY <2>1, <2>3 DEF Discard
  <2> QED
    BY <1>7, <2>2, <2>3
<1>8. CASE \E s \in Slot : Notify(s)
  <2>1. PICK s \in Slot : Notify(s)
    BY <1>8
  <2>2. ssh[s].id \in Id
    BY <2>1, Processes DEF Notify, Waits, By
  <2>3. outgoing' \in Seq(Id) /\ Len(outgoing') <= Capacity
    BY <2>1, <2>2 DEF Notify
  <2> QED
    BY <2>1, <2>3 DEF Notify
<1>9. CASE \E s \in Slot : TaskEnds(s) \/ WaitFails(s)
  <2>1. PICK s \in Slot : TaskEnds(s) \/ WaitFails(s)
    BY <1>9
  <2>2. s \in Owners /\ ssh[s].id \in Id
    BY <2>1, Processes DEF TaskEnds, WaitFails, Waits, Owners, By
  <2>3. faults' \in 0..MaxFaults
    BY <2>1, FaultTyped DEF TaskEnds, WaitFails
  <2>4. /\ Cleanup(ssh[s].id)
        /\ UNCHANGED <<command, outgoing, client, opened, told, commands>>
        /\ missed' \in {missed, missed \cup {ssh[s].id}}
    BY <2>1 DEF TaskEnds, WaitFails
  <2>5. /\ keys' \subseteq Id /\ certs' \subseteq Id /\ left' \subseteq Id
        /\ permits' \in 0..MaxTunnels
    BY <2>2, <2>4, PermitsLeft, CleanupTyped
  <2> QED
    BY <2>2, <2>3, <2>4, <2>5
<1>10. CASE \E s \in Slot : LogsIn(s) \/ Exits(s)
  BY <1>10 DEF LogsIn, Exits
<1>11. CASE Kill \/ WatchdogKills
  <2>1. outgoing' = <<>> /\ opened' = None /\ told' = None /\ command' = NoCommand
        /\ permits' = MaxTunnels /\ client' = TRUE /\ missed' = {}
        /\ UNCHANGED <<keys, certs, commands>> /\ left' = left \cup certs
        /\ faults' \in 0..MaxFaults
    BY <1>11 DEF Kill, WatchdogKills, End, Fault
  <2>2. None \in [Id -> Nat]
    BY DEF None
  <2> QED
    BY <2>1, <2>2
<1>12. CASE UNCHANGED vars
  BY <1>12 DEF vars
<1>13. CASE ClientLost \/ ClientCreated
  <2>1. faults' \in 0..MaxFaults
    BY <1>13, FaultTyped DEF ClientLost, ClientCreated
  <2> QED
    BY <1>13, <2>1 DEF ClientLost, ClientCreated
<1> QED
  BY <1>1, <1>2, <1>3, <1>4, <1>5, <1>6, <1>7, <1>8, <1>9, <1>10, <1>11, <1>12, <1>13,
     <1>14, <1>15
     DEF Next, Loop

\* Every step keeps the process of the command.
LEMMA CommandInvStep == IInv /\ [Next]_vars => CommandInv'
<1> SUFFICES ASSUME IInv, [Next]_vars PROVE CommandInv'
  OBVIOUS
<1> USE Processes DEF IInv, TypeOK, CommandInv, By
<1>1. CASE \E i \in Id : GetSshPubKey(i) \/ OpenSshTunnel(i)
  BY <1>1 DEF GetSshPubKey, OpenSshTunnel, Command
<1>2. CASE \/ OpenRejected \/ StoreOrStartFails
           \/ Drain \/ Discard \/ ClientLost \/ ClientCreated
  BY <1>2 DEF OpenRejected, StoreOrStartFails, Drain, Discard, ClientLost, ClientCreated,
       Command
<1>3. CASE \/ \E s \in Slot : LogsIn(s) \/ Exits(s)
           \/ \E i \in Id : CloseSshTunnel(i)
  <2>1. UNCHANGED command
    BY <1>3 DEF LogsIn, Exits, CloseSshTunnel
  <2>2. CASE \E s \in Slot : Lives(s)
    <3>1. PICK s \in Slot : Lives(s)
      BY <2>2
    <3>2. PICK q \in Process : /\ Becomes(s, q) /\ ssh[s] \in Process
                              /\ q.by = ssh[s].by /\ q.id = ssh[s].id
                              /\ q.notified = ssh[s].notified
      BY <3>1 DEF Lives
    <3> QED
      BY <2>1, <3>2 DEF Becomes
  <2>3. CASE \E s \in Slot : By(s, "nobody") /\ Abandoned(s)
    <3>1. PICK s \in Slot : By(s, "nobody") /\ Abandoned(s)
      BY <2>3
    <3>2. PICK q \in {NoSsh} \cup Process : Becomes(s, q) /\ (q \in Process => q.by = "nobody")
      BY <3>1 DEF Abandoned
    <3> QED
      BY <2>1, <3>1, <3>2 DEF Becomes
  <2>4. CASE UNCHANGED ssh
    BY <2>1, <2>4
  <2> QED
    BY <1>3, <2>2, <2>3, <2>4, SshEffects
<1>5. CASE StoreAndStart
  <2>1. PICK s \in Slot, q \in Process :
          /\ ssh[s] = NoSsh /\ Becomes(s, q)
          /\ q.by = "open" /\ q.id = command.id /\ ~q.notified
          /\ command' = [pc |-> "connect", id |-> command.id, slot |-> s]
    BY <1>5, SshEffects
  <2>2. command.pc = "store"
    BY <1>5 DEF StoreAndStart
  <2> QED
    BY <2>1, <2>2 DEF Becomes
<1>6. CASE Established
  BY <1>6, SshEffects DEF Established, Attended, Becomes
<1>7. CASE ConnectFails \/ UnexpectedResponse
  <2>1. Connecting /\ command' = NoCommand
    BY <1>7 DEF ConnectFails, UnexpectedResponse
  <2>2. PICK q \in {NoSsh} \cup Process :
          Becomes(command.slot, q) /\ (q \in Process => q.by = "nobody")
    BY <1>7, SshEffects DEF Abandoned
  <2> QED
    BY <2>1, <2>2 DEF Becomes
<1>8. CASE \E s \in Slot : Notify(s) \/ TaskEnds(s) \/ WaitFails(s)
  <2>1. PICK s \in Slot : Notify(s) \/ TaskEnds(s) \/ WaitFails(s)
    BY <1>8
  <2>2. UNCHANGED command
    BY <2>1 DEF Notify, TaskEnds, WaitFails
  <2>3. By(s, "task") /\ (Attended(s, TRUE) \/ Abandoned(s))
    BY <2>1, SshEffects
  <2>4. PICK q \in {NoSsh} \cup Process :
          Becomes(s, q) /\ (q \in Process => q.by \in {"task", "nobody"})
    BY <2>3 DEF Attended, Abandoned
  <2> QED
    BY <2>2, <2>3, <2>4 DEF Becomes
<1>9. CASE Kill \/ WatchdogKills
  BY <1>9 DEF Kill, WatchdogKills, End
<1>10. CASE UNCHANGED vars
  BY <1>10 DEF vars
<1> QED
  BY <1>1, <1>2, <1>3, <1>5, <1>6, <1>7, <1>8, <1>9, <1>10 DEF Next, Loop

-----------------------------------------------------------------------------
(* Counting                                                                *)

\* Who owns a permit, and who has still to tell, after one process changed.
LEMMA Counted ==
  ASSUME TypeOK, NEW s \in Slot, NEW q \in {NoSsh} \cup Process, Becomes(s, q)
  PROVE  /\ Owners' = IF q \in Process /\ q.by # "nobody" THEN Owners \cup {s}
                                                         ELSE Owners \ {s}
         /\ \A i : Telling(i)' = IF q \in Process /\ q.by = "task" /\ ~q.notified /\ q.id = i
                                 THEN Telling(i) \cup {s} ELSE Telling(i) \ {s}
BY Processes DEF TypeOK, Becomes, Owners, Telling, Waits, By

\* What a step does to the owners of permits.
LEMMA OwnersStep ==
  ASSUME IInv, [Next]_vars
  PROVE  \/ Owners' = Owners /\ Unowned' = Unowned
         \/ /\ Unowned' = Unowned - 1
            /\ \E s \in Slot \ Owners : Owners' = Owners \cup {s}
         \/ /\ Unowned' = Unowned + 1
            /\ \E s \in Owners : Owners' = Owners \ {s}
         \/ Unowned' = MaxTunnels /\ Owners' = {}
<1> USE DEF Unowned
<1>0. TypeOK /\ CommandInv /\ permits \in Nat
  BY DEF IInv, TypeOK
<1>1. CASE \/ OpenRejected \/ StoreOrStartFails \/ UNCHANGED vars
           \/ Drain \/ Discard \/ ClientLost \/ ClientCreated
           \/ \E i \in Id : GetSshPubKey(i) \/ OpenSshTunnel(i)
  <2>1. ssh' = ssh /\ Unowned' = Unowned
    BY <1>0, <1>1 DEF OpenRejected, StoreOrStartFails, Drain, Discard, ClientLost,
         ClientCreated, GetSshPubKey, OpenSshTunnel, Command, Cleanup, vars
  <2> QED
    BY <2>1 DEF Owners, By
<1>2. CASE \/ \E s \in Slot : LogsIn(s) \/ Exits(s)
           \/ \E i \in Id : CloseSshTunnel(i)
  <2>1. UNCHANGED <<command, permits>>
    BY <1>2 DEF LogsIn, Exits, CloseSshTunnel
  <2>2. CASE \E s \in Slot : Lives(s)
    <3>1. PICK s \in Slot : Lives(s)
      BY <2>2
    <3>2. PICK q \in Process : Becomes(s, q) /\ ssh[s] \in Process /\ q.by = ssh[s].by
      BY <3>1 DEF Lives
    <3>3. Owners' = IF q.by # "nobody" THEN Owners \cup {s} ELSE Owners \ {s}
      BY <1>0, <3>2, Counted
    <3>4. s \in Owners <=> q.by # "nobody"
      BY <3>2, Processes DEF Owners, By
    <3> QED
      BY <2>1, <3>3, <3>4
  <2>3. CASE \E s \in Slot : By(s, "nobody") /\ Abandoned(s)
    <3>1. PICK s \in Slot : By(s, "nobody") /\ Abandoned(s)
      BY <2>3
    <3>2. PICK q \in {NoSsh} \cup Process : Becomes(s, q) /\ (q \in Process => q.by = "nobody")
      BY <3>1 DEF Abandoned
    <3>3. Owners' = Owners \ {s} /\ s \notin Owners
      BY <1>0, <3>1, <3>2, Counted DEF Owners, By
    <3> QED
      BY <2>1, <3>3
  <2>4. CASE UNCHANGED ssh
    BY <2>1, <2>4 DEF Owners, By
  <2> QED
    BY <1>0, <1>2, <2>2, <2>3, <2>4, SshEffects
<1>3. CASE StoreAndStart
  <2>1. command.pc = "store" /\ UNCHANGED permits
    BY <1>3 DEF StoreAndStart
  <2>2. PICK s \in Slot, q \in Process :
          /\ ssh[s] = NoSsh /\ Becomes(s, q) /\ q.by = "open"
          /\ command' = [pc |-> "connect", id |-> command.id, slot |-> s]
    BY <1>0, <1>3, SshEffects
  <2>3. Owners' = Owners \cup {s} /\ s \notin Owners
    BY <1>0, <2>2, Counted DEF Owners, By
  <2> QED
    BY <1>0, <2>1, <2>2, <2>3
<1>4. CASE Established
  <2>1. Connecting /\ command' = NoCommand /\ UNCHANGED permits
    BY <1>4 DEF Established
  <2>2. command.slot \in Owners /\ Attended(command.slot, FALSE)
    BY <1>0, <1>4, <2>1, SshEffects DEF CommandInv, Owners, Attended
  <2>3. PICK q \in Process : Becomes(command.slot, q) /\ q.by = "task"
    BY <2>2 DEF Attended
  <2>4. Owners' = Owners
    BY <1>0, <2>2, <2>3, Counted DEF Owners
  <2> QED
    BY <2>1, <2>4
<1>5. CASE ConnectFails \/ UnexpectedResponse
  <2>1. Connecting /\ command' = NoCommand /\ permits' = permits + 1
    BY <1>5 DEF ConnectFails, UnexpectedResponse, Cleanup
  <2>2. command.slot \in Owners /\ Abandoned(command.slot)
    BY <1>0, <1>5, <2>1, SshEffects DEF CommandInv, Owners, Abandoned
  <2>3. PICK q \in {NoSsh} \cup Process :
          Becomes(command.slot, q) /\ (q \in Process => q.by = "nobody")
    BY <2>2 DEF Abandoned
  <2>4. Owners' = Owners \ {command.slot}
    BY <1>0, <2>2, <2>3, Counted DEF Owners
  <2> QED
    BY <1>0, <2>1, <2>2, <2>4
<1>6. CASE \E s \in Slot : Notify(s)
  <2>1. PICK s \in Slot : Notify(s)
    BY <1>6
  <2>2. s \in Owners /\ Attended(s, TRUE)
    BY <1>0, <2>1, SshEffects DEF Owners
  <2>3. PICK q \in Process : Becomes(s, q) /\ q.by = "task"
    BY <2>2 DEF Attended
  <2>4. Owners' = Owners
    BY <1>0, <2>2, <2>3, Counted
  <2> QED
    BY <2>1, <2>4 DEF Notify
<1>7. CASE \E s \in Slot : TaskEnds(s) \/ WaitFails(s)
  <2>1. PICK s \in Slot : TaskEnds(s) \/ WaitFails(s)
    BY <1>7
  <2>2. s \in Owners /\ Abandoned(s)
    BY <1>0, <2>1, SshEffects DEF Owners
  <2>3. PICK q \in {NoSsh} \cup Process : Becomes(s, q) /\ (q \in Process => q.by = "nobody")
    BY <2>2 DEF Abandoned
  <2>4. Owners' = Owners \ {s}
    BY <1>0, <2>2, <2>3, Counted
  <2>5. permits' = permits + 1 /\ command' = command
    BY <2>1 DEF TaskEnds, WaitFails, Cleanup
  <2> QED
    BY <1>0, <2>2, <2>4, <2>5
<1>8. CASE Kill \/ WatchdogKills
  BY <1>8 DEF Kill, WatchdogKills, End, Owners, By
<1> QED
  BY <1>1, <1>2, <1>3, <1>4, <1>5, <1>6, <1>7, <1>8 DEF Next, Loop

\* Permits and owners add up after every step.
LEMMA PermitInvStep == IInv /\ [Next]_vars => PermitInv'
<1> SUFFICES ASSUME IInv, [Next]_vars PROVE PermitInv'
  OBVIOUS
<1>1. /\ IsFiniteSet(Owners) /\ Cardinality(Owners) \in Nat
      /\ Unowned \in Nat /\ Unowned + Cardinality(Owners) = MaxTunnels
  BY FS_CardinalityType DEF IInv, TypeOK, PermitInv, Unowned
<1>2. \A s \in Slot \ Owners : IsFiniteSet(Owners \cup {s})
                               /\ Cardinality(Owners \cup {s}) = Cardinality(Owners) + 1
  BY <1>1, FS_AddElement
<1>3. \A s \in Owners : IsFiniteSet(Owners \ {s})
                        /\ Cardinality(Owners \ {s}) = Cardinality(Owners) - 1
  BY <1>1, FS_RemoveElement
<1>4. Unowned' \in Nat
  BY TypeOKStep DEF TypeOK, Unowned
<1>5. CASE Owners' = Owners /\ Unowned' = Unowned
  <2>1. IsFiniteSet(Owners') /\ Cardinality(Owners') = Cardinality(Owners)
    BY <1>1, <1>5
  <2>2. Unowned' + Cardinality(Owners') = MaxTunnels
    BY <1>1, <1>4, <1>5, <2>1
  <2> QED
    BY <2>1, <2>2 DEF PermitInv
<1>6. CASE /\ Unowned' = Unowned - 1
           /\ \E s \in Slot \ Owners : Owners' = Owners \cup {s}
  <2>1. IsFiniteSet(Owners') /\ Cardinality(Owners') = Cardinality(Owners) + 1
    BY <1>2, <1>6
  <2>2. Unowned' + Cardinality(Owners') = MaxTunnels
    BY <1>1, <1>4, <1>6, <2>1
  <2> QED
    BY <2>1, <2>2 DEF PermitInv
<1>7. CASE /\ Unowned' = Unowned + 1
           /\ \E s \in Owners : Owners' = Owners \ {s}
  <2>1. IsFiniteSet(Owners') /\ Cardinality(Owners') = Cardinality(Owners) - 1
    BY <1>3, <1>7
  <2>2. Unowned' + Cardinality(Owners') = MaxTunnels
    BY <1>1, <1>4, <1>7, <2>1
  <2> QED
    BY <2>1, <2>2 DEF PermitInv
<1>8. CASE Unowned' = MaxTunnels /\ Owners' = {}
  <2>1. IsFiniteSet({}) /\ Cardinality({}) = 0
    BY FS_EmptySet
  <2> QED
    BY <1>4, <1>8, <2>1 DEF PermitInv
<1> QED
  BY <1>5, <1>6, <1>7, <1>8, OwnersStep

\* A certificate keeps its owner, or goes with him.
LEMMA CredentialsStep == IInv /\ [Next]_vars => CredentialsCleaned'
<1> SUFFICES ASSUME IInv, [Next]_vars PROVE CredentialsCleaned'
  OBVIOUS
<1> USE Processes DEF IInv, CredentialsCleaned, Owned, By
<1>0. TypeOK /\ CommandInv
  OBVIOUS
<1>1. CASE \/ OpenRejected \/ UNCHANGED vars
           \/ Drain \/ Discard \/ ClientLost \/ ClientCreated
           \/ \E i \in Id : GetSshPubKey(i) \/ OpenSshTunnel(i)
  BY <1>1 DEF OpenRejected, Drain, Discard, ClientLost, ClientCreated, GetSshPubKey,
       OpenSshTunnel, Command, vars
<1>2. CASE \/ \E s \in Slot : LogsIn(s) \/ Exits(s)
           \/ \E i \in Id : CloseSshTunnel(i)
  <2>1. UNCHANGED <<command, certs, left>>
    BY <1>2 DEF LogsIn, Exits, CloseSshTunnel
  <2>2. CASE \E s \in Slot : Lives(s)
    <3>1. PICK s \in Slot : Lives(s)
      BY <2>2
    <3>2. PICK q \in Process : Becomes(s, q) /\ q.by = ssh[s].by /\ q.id = ssh[s].id
      BY <3>1 DEF Lives
    <3> QED
      BY <1>0, <2>1, <3>2 DEF Becomes, TypeOK
  <2>3. CASE \E s \in Slot : By(s, "nobody") /\ Abandoned(s)
    <3>1. PICK s \in Slot : By(s, "nobody") /\ Abandoned(s)
      BY <2>3
    <3>2. PICK q \in {NoSsh} \cup Process : Becomes(s, q)
      BY <3>1 DEF Abandoned
    <3> QED
      BY <1>0, <2>1, <3>1, <3>2 DEF Becomes, TypeOK
  <2>4. CASE UNCHANGED ssh
    BY <2>1, <2>4
  <2> QED
    BY <1>0, <1>2, <2>2, <2>3, <2>4, SshEffects
<1>3. CASE StoreAndStart
  <2>1. certs' = certs \cup {command.id} /\ command # NoCommand /\ UNCHANGED left
    BY <1>3 DEF StoreAndStart
  <2>2. PICK s \in Slot, q \in Process :
          /\ ssh[s] = NoSsh /\ Becomes(s, q) /\ q.by = "open"
          /\ command' = [pc |-> "connect", id |-> command.id, slot |-> s]
    BY <1>0, <1>3, SshEffects
  <2> QED
    BY <1>0, <2>1, <2>2 DEF Becomes, TypeOK
<1>4. CASE Established
  <2>1. Connecting /\ command' = NoCommand /\ UNCHANGED <<certs, left>>
    BY <1>4 DEF Established
  <2>2. Attended(command.slot, FALSE) /\ ssh[command.slot].id = command.id
    BY <1>0, <1>4, <2>1, SshEffects DEF CommandInv
  <2>3. PICK q \in Process :
          Becomes(command.slot, q) /\ q.by = "task" /\ q.id = command.id
    BY <2>2 DEF Attended
  <2> QED
    BY <1>0, <2>1, <2>2, <2>3 DEF Becomes, TypeOK, Attended
<1>5. CASE ConnectFails \/ UnexpectedResponse
  <2>1. /\ Connecting /\ command' = NoCommand
        /\ certs' \subseteq certs
        /\ left' = (left \ {command.id}) \cup (certs' \cap {command.id})
    BY <1>5 DEF ConnectFails, UnexpectedResponse, Cleanup
  <2>2. Abandoned(command.slot) /\ ssh[command.slot].by = "open"
    BY <1>0, <1>5, <2>1, SshEffects DEF CommandInv
  <2>3. PICK q \in {NoSsh} \cup Process : Becomes(command.slot, q)
    BY <2>2 DEF Abandoned
  <2> QED
    BY <1>0, <2>1, <2>2, <2>3 DEF Becomes, TypeOK
<1>6. CASE \E s \in Slot : Notify(s)
  <2>1. PICK s \in Slot : Notify(s)
    BY <1>6
  <2>2. Attended(s, TRUE) /\ UNCHANGED <<command, certs, left>>
    BY <1>0, <2>1, SshEffects DEF Notify
  <2>3. PICK q \in Process : Becomes(s, q) /\ q.by = "task" /\ q.id = ssh[s].id
    BY <2>2 DEF Attended
  <2> QED
    BY <1>0, <2>2, <2>3 DEF Becomes, TypeOK
<1>7. CASE \E s \in Slot : TaskEnds(s) \/ WaitFails(s)
  <2>1. PICK s \in Slot : TaskEnds(s) \/ WaitFails(s)
    BY <1>7
  <2>2. /\ Abandoned(s) /\ UNCHANGED command
        /\ certs' \subseteq certs
        /\ left' = (left \ {ssh[s].id}) \cup (certs' \cap {ssh[s].id})
    BY <1>0, <2>1, SshEffects DEF TaskEnds, WaitFails, Cleanup
  <2>3. PICK q \in {NoSsh} \cup Process : Becomes(s, q)
    BY <2>2 DEF Abandoned
  <2> QED
    BY <1>0, <2>2, <2>3 DEF Becomes, TypeOK
<1>8. CASE StoreOrStartFails
  BY <1>8 DEF StoreOrStartFails, Cleanup
<1>9. CASE Kill \/ WatchdogKills
  BY <1>9 DEF Kill, WatchdogKills, End
<1> QED
  BY <1>1, <1>2, <1>3, <1>4, <1>5, <1>6, <1>7, <1>8, <1>9 DEF Next, Loop

\* Where i is in a sequence of messages.
At(seq, i) == {n \in DOMAIN seq : seq[n] = i}

\* How often a message is in the channel, one more or the first one less.
LEMMA Messages ==
  ASSUME NEW seq \in Seq(Id), NEW i
  PROVE  /\ IsFiniteSet(At(seq, i)) /\ Cardinality(At(seq, i)) \in Nat
         /\ \A x \in Id : Cardinality(At(Append(seq, x), i))
                          = Cardinality(At(seq, i)) + (IF x = i THEN 1 ELSE 0)
         /\ seq # <<>> => Cardinality(At(Tail(seq), i))
                          = Cardinality(At(seq, i)) - (IF Head(seq) = i THEN 1 ELSE 0)
<1> DEFINE len == Len(seq)
           here == At(seq, i)
<1>1. len \in Nat /\ DOMAIN seq = 1..len /\ here \subseteq 1..len
  BY DEF At
<1>2. IsFiniteSet(here) /\ Cardinality(here) \in Nat
  <2> HIDE DEF len, here
  <2>1. IsFiniteSet(1..len)
    BY <1>1, FS_Interval
  <2> QED
    BY <1>1, <2>1, FS_Subset, FS_CardinalityType
<1>3. ASSUME NEW x \in Id
      PROVE  Cardinality(At(Append(seq, x), i))
             = Cardinality(here) + (IF x = i THEN 1 ELSE 0)
  <2>1. /\ DOMAIN Append(seq, x) = 1..(len + 1) /\ Append(seq, x)[len + 1] = x
        /\ \A n \in 1..len : Append(seq, x)[n] = seq[n]
    OBVIOUS
  <2>2. At(Append(seq, x), i) = IF x = i THEN here \cup {len + 1} ELSE here
    BY <1>1, <2>1 DEF At
  <2> HIDE DEF len, here
  <2>3. len + 1 \notin here
    BY <1>1
  <2>4. Cardinality(here \cup {len + 1}) = Cardinality(here) + 1
    BY <1>2, <2>3, FS_AddElement
  <2> QED
    BY <1>2, <2>2, <2>4
<1>4. ASSUME seq # <<>>
      PROVE  Cardinality(At(Tail(seq), i))
             = Cardinality(here) - (IF Head(seq) = i THEN 1 ELSE 0)
  <2> DEFINE later == here \ {1}
             shifted == [n \in later |-> n - 1]
  <2>1. /\ len \in Nat \ {0} /\ Head(seq) = seq[1]
        /\ DOMAIN Tail(seq) = 1..(len - 1)
        /\ \A n \in 1..(len - 1) : Tail(seq)[n] = seq[n + 1]
    BY <1>4
  <2>2. later \subseteq 2..len /\ IsFiniteSet(later)
    BY <1>1, <1>2, FS_Subset
  <2>3. \A n \in later : n - 1 \in At(Tail(seq), i)
    BY <1>1, <2>1, <2>2 DEF At
  <2>4. \A n \in At(Tail(seq), i) : n + 1 \in later /\ n = (n + 1) - 1
    BY <1>1, <2>1 DEF At
  <2>5. shifted \in Bijection(later, At(Tail(seq), i))
    <3>1. shifted \in Injection(later, At(Tail(seq), i))
      BY <2>2, <2>3, Fun_IsInj
    <3>2. shifted \in Surjection(later, At(Tail(seq), i))
      BY <2>3, <2>4, Fun_IsSurj
    <3> QED
      BY <3>1, <3>2 DEF Bijection
  <2>6. Cardinality(At(Tail(seq), i)) = Cardinality(later)
    BY <2>2, <2>5, FS_Bijection DEF ExistsBijection
  <2>7. 1 \in here <=> Head(seq) = i
    BY <1>1, <2>1 DEF At
  <2> HIDE DEF len, here
  <2>8. CASE 1 \in here
    <3>1. Cardinality(here \ {1}) = Cardinality(here) - 1
      BY <1>2, <2>8, FS_RemoveElement
    <3> QED
      BY <2>6, <2>7, <2>8, <3>1
  <2>9. CASE 1 \notin here
    <3>1. later = here
      BY <2>9
    <3>2. Cardinality(here) - 0 = Cardinality(here)
      BY <1>2
    <3> QED
      BY <2>6, <2>7, <2>9, <3>1, <3>2
  <2> QED
    BY <2>8, <2>9
<1> QED
  BY <1>2, <1>3, <1>4

\* What a step does to those who have still to tell of tunnel i.
LEMMA TellingStep ==
  ASSUME IInv, [Next]_vars, NEW i \in Id
  PROVE  \/ /\ UNCHANGED <<outgoing, missed>>
            /\ Telling(i)' = Telling(i) /\ told'[i] = told[i] /\ opened'[i] = opened[i]
         \/ /\ UNCHANGED <<outgoing, missed>>
            /\ told'[i] = told[i] /\ opened'[i] = opened[i] + 1
            /\ \E s \in Slot \ Telling(i) : Telling(i)' = Telling(i) \cup {s}
         \/ /\ outgoing' = Append(outgoing, i) /\ missed' = missed
            /\ told'[i] = told[i] /\ opened'[i] = opened[i]
            /\ \E s \in Telling(i) : Telling(i)' = Telling(i) \ {s}
         \/ /\ \E j \in Id \ {i} : outgoing' = Append(outgoing, j) /\ missed' = missed
            /\ Telling(i)' = Telling(i) /\ told'[i] = told[i] /\ opened'[i] = opened[i]
         \/ /\ UNCHANGED outgoing /\ i \in missed'
            /\ told'[i] = told[i] /\ opened'[i] = opened[i]
            /\ \E s \in Telling(i) : Telling(i)' = Telling(i) \ {s}
         \/ /\ UNCHANGED outgoing /\ \E j \in Id \ {i} : missed' = missed \cup {j}
            /\ Telling(i)' = Telling(i) /\ told'[i] = told[i] /\ opened'[i] = opened[i]
         \/ Drain \/ Discard
         \/ told'[i] = 0 /\ opened'[i] = 0 /\ Telling(i)' = {} /\ outgoing' = <<>>
<1>0. /\ TypeOK /\ CommandInv
      /\ told \in [Id -> Nat] /\ opened \in [Id -> Nat]
  BY DEF IInv, TypeOK
<1>1. CASE \/ OpenRejected \/ StoreOrStartFails \/ UNCHANGED vars
           \/ ClientLost \/ ClientCreated
           \/ \E j \in Id : GetSshPubKey(j) \/ OpenSshTunnel(j)
  <2>1. UNCHANGED <<ssh, outgoing, opened, told, missed>>
    BY <1>1 DEF OpenRejected, StoreOrStartFails, ClientLost, ClientCreated, GetSshPubKey,
         OpenSshTunnel, vars
  <2> QED
    BY <2>1 DEF Telling, Waits, By
<1>2. CASE \/ \E s \in Slot : LogsIn(s) \/ Exits(s)
           \/ \E j \in Id : CloseSshTunnel(j)
  <2>1. UNCHANGED <<outgoing, opened, told, missed>>
    BY <1>2 DEF LogsIn, Exits, CloseSshTunnel
  <2>2. CASE \E s \in Slot : Lives(s)
    <3>1. PICK s \in Slot : Lives(s)
      BY <2>2
    <3>2. PICK q \in Process : /\ Becomes(s, q) /\ ssh[s] \in Process
                              /\ q.by = ssh[s].by /\ q.id = ssh[s].id
                              /\ q.notified = ssh[s].notified
      BY <3>1 DEF Lives
    <3>3. Telling(i)' = IF q.by = "task" /\ ~q.notified /\ q.id = i
                        THEN Telling(i) \cup {s} ELSE Telling(i) \ {s}
      BY <1>0, <3>2, Counted
    <3>4. s \in Telling(i) <=> q.by = "task" /\ ~q.notified /\ q.id = i
      BY <3>2, Processes DEF Telling, Waits, By
    <3> QED
      BY <1>0, <2>1, <3>3, <3>4
  <2>3. CASE \E s \in Slot : By(s, "nobody") /\ Abandoned(s)
    <3>1. PICK s \in Slot : By(s, "nobody") /\ Abandoned(s)
      BY <2>3
    <3>2. PICK q \in {NoSsh} \cup Process : Becomes(s, q) /\ (q \in Process => q.by = "nobody")
      BY <3>1 DEF Abandoned
    <3>3. Telling(i)' = Telling(i) \ {s} /\ s \notin Telling(i)
      BY <1>0, <3>1, <3>2, Counted DEF Telling, Waits, By
    <3> QED
      BY <1>0, <2>1, <3>3
  <2>4. CASE UNCHANGED ssh
    BY <1>0, <2>1, <2>4 DEF Telling, Waits, By
  <2> QED
    BY <1>0, <1>2, <2>2, <2>3, <2>4, SshEffects
<1>3. CASE StoreAndStart
  <2>1. UNCHANGED <<outgoing, opened, told, missed>>
    BY <1>3 DEF StoreAndStart
  <2>2. PICK s \in Slot, q \in Process : ssh[s] = NoSsh /\ Becomes(s, q) /\ q.by = "open"
    BY <1>0, <1>3, SshEffects
  <2>3. Telling(i)' = Telling(i) \ {s} /\ s \notin Telling(i)
    BY <1>0, <2>2, Counted DEF Telling, Waits, By
  <2> QED
    BY <1>0, <2>1, <2>3
<1>4. CASE Established
  <2>1. /\ Connecting /\ UNCHANGED <<outgoing, told, missed>>
        /\ opened' = [opened EXCEPT ![command.id] = @ + 1]
    BY <1>4 DEF Established
  <2>2. /\ Attended(command.slot, FALSE) /\ ssh[command.slot].by = "open"
        /\ ssh[command.slot].id = command.id
    BY <1>0, <1>4, <2>1, SshEffects DEF CommandInv, By
  <2>3. PICK q \in Process :
          /\ Becomes(command.slot, q)
          /\ q.by = "task" /\ q.id = command.id /\ q.notified = FALSE
    BY <2>2 DEF Attended
  <2>4. command.slot \in Slot \ Telling(i)
    BY <2>2 DEF Attended, Telling, Waits, By
  <2>5. Telling(i)' = IF i = command.id THEN Telling(i) \cup {command.slot}
                                        ELSE Telling(i) \ {command.slot}
    BY <1>0, <2>3, <2>4, Counted
  <2> QED
    BY <1>0, <2>1, <2>4, <2>5
<1>5. CASE ConnectFails \/ UnexpectedResponse
  <2>1. Connecting /\ UNCHANGED <<outgoing, opened, told, missed>>
    BY <1>5 DEF ConnectFails, UnexpectedResponse
  <2>2. Abandoned(command.slot) /\ ssh[command.slot].by = "open"
    BY <1>0, <1>5, <2>1, SshEffects DEF CommandInv, By
  <2>3. PICK q \in {NoSsh} \cup Process :
          Becomes(command.slot, q) /\ (q \in Process => q.by = "nobody")
    BY <2>2 DEF Abandoned
  <2>4. command.slot \in Slot \ Telling(i)
    BY <2>2 DEF Abandoned, Telling, Waits, By
  <2>5. Telling(i)' = Telling(i) \ {command.slot}
    BY <1>0, <2>3, <2>4, Counted
  <2> QED
    BY <1>0, <2>1, <2>4, <2>5
<1>6. CASE \E s \in Slot : Notify(s)
  <2>1. PICK s \in Slot : Notify(s)
    BY <1>6
  <2>2. /\ Attended(s, TRUE) /\ Waits(s) /\ UNCHANGED <<opened, told, missed>>
        /\ outgoing' = Append(outgoing, ssh[s].id) /\ ssh[s].id \in Id
    BY <1>0, <2>1, SshEffects, Processes DEF Notify, Attended
  <2>3. PICK q \in Process : Becomes(s, q) /\ q.notified = TRUE
    BY <2>2 DEF Attended
  <2>4. Telling(i)' = Telling(i) \ {s}
    BY <1>0, <2>3, Counted
  <2>5. s \in Telling(i) <=> ssh[s].id = i
    BY <2>2 DEF Telling
  <2>6. CASE ssh[s].id = i
    BY <2>2, <2>4, <2>5, <2>6
  <2>7. CASE ssh[s].id # i
    BY <2>2, <2>4, <2>5, <2>7
  <2> QED
    BY <2>6, <2>7
<1>7. CASE \E s \in Slot : TaskEnds(s) \/ WaitFails(s)
  <2>1. PICK s \in Slot : TaskEnds(s) \/ WaitFails(s)
    BY <1>7
  <2>2. Abandoned(s) /\ UNCHANGED <<outgoing, opened, told>>
    BY <1>0, <2>1, SshEffects DEF TaskEnds, WaitFails
  <2>3. PICK q \in {NoSsh} \cup Process : Becomes(s, q) /\ (q \in Process => q.by = "nobody")
    BY <2>2 DEF Abandoned
  <2>4. Telling(i)' = Telling(i) \ {s}
    BY <1>0, <2>3, Counted
  <2>5. CASE TaskEnds(s)
    <3>1. s \notin Telling(i) /\ missed' = missed
      BY <2>5 DEF TaskEnds, Telling, Waits
    <3> QED
      BY <2>2, <2>4, <3>1
  <2>6. CASE WaitFails(s)
    <3>1. /\ missed' = missed \cup {ssh[s].id} /\ ssh[s].id \in Id
          /\ s \in Telling(i) <=> ssh[s].id = i
      BY <2>2, <2>6, Processes DEF WaitFails, Telling, Abandoned
    <3>2. CASE ssh[s].id = i
      BY <2>2, <2>4, <3>1, <3>2
    <3>3. CASE ssh[s].id # i
      BY <2>2, <2>4, <3>1, <3>3
    <3> QED
      BY <3>2, <3>3
  <2> QED
    BY <2>1, <2>5, <2>6
<1>8. CASE Kill \/ WatchdogKills
  <2>1. /\ told' = None /\ opened' = None /\ outgoing' = <<>>
        /\ ssh' = [s \in Slot |-> NoSsh]
    BY <1>8 DEF Kill, WatchdogKills, End
  <2> QED
    BY <2>1 DEF None, Telling, Waits, By
<1> QED
  BY <1>1, <1>2, <1>3, <1>4, <1>5, <1>6, <1>7, <1>8 DEF Next, Loop

\* What was opened, what is under way and what was told stay even.
LEMMA EndReportedStep == IInv /\ [Next]_vars => EndReportedOnce'
<1> SUFFICES ASSUME IInv, [Next]_vars, NEW i \in Id
             PROVE  LET due == Cardinality(Telling(i)') + Cardinality(Sent(i)')
                    IN /\ told'[i] + due <= opened'[i]
                       /\ i \notin missed' => told'[i] + due = opened'[i]
  BY DEF EndReportedOnce
<1> DEFINE c == Cardinality(Telling(i))
           n == Cardinality(Sent(i))
           t == told[i]
           o == opened[i]
           cc == Cardinality(Telling(i)')
           nn == Cardinality(Sent(i)')
<1>1. /\ t \in Nat /\ o \in Nat /\ t + (c + n) <= o /\ (i \notin missed => t + (c + n) = o)
      /\ outgoing \in Seq(Id) /\ told \in [Id -> Nat]
  BY DEF IInv, TypeOK, EndReportedOnce
<1>2. IsFiniteSet(Telling(i)) /\ c \in Nat
  <2>1. Telling(i) \subseteq Owners
    BY DEF Telling, Owners, Waits
  <2> QED
    BY <2>1, FS_Subset, FS_CardinalityType DEF IInv, PermitInv
<1>3. \A s \in Slot \ Telling(i) : Cardinality(Telling(i) \cup {s}) = c + 1
  BY <1>2, FS_AddElement
<1>4. \A s \in Telling(i) : Cardinality(Telling(i) \ {s}) = c - 1
  BY <1>2, FS_RemoveElement
<1>5. Cardinality({}) = 0
  BY FS_EmptySet
<1>6. /\ n \in Nat
      /\ \A x \in Id : outgoing' = Append(outgoing, x) => nn = n + (IF x = i THEN 1 ELSE 0)
      /\ outgoing # <<>> /\ outgoing' = Tail(outgoing) =>
           nn = n - (IF Head(outgoing) = i THEN 1 ELSE 0)
      /\ outgoing' = outgoing => nn = n
      /\ outgoing' = <<>> => nn = 0
  <2>1. n = Cardinality(At(outgoing, i)) /\ nn = Cardinality(At(outgoing', i))
    BY DEF Sent, At
  <2>2. At(<<>>, i) = {}
    BY DEF At
  <2> HIDE DEF n, nn
  <2>3. n \in Nat
    BY <1>1, <2>1, Messages
  <2>4. ASSUME NEW x \in Id, outgoing' = Append(outgoing, x)
        PROVE  nn = n + (IF x = i THEN 1 ELSE 0)
    BY <1>1, <2>1, <2>4, Messages
  <2>5. ASSUME outgoing # <<>>, outgoing' = Tail(outgoing)
        PROVE  nn = n - (IF Head(outgoing) = i THEN 1 ELSE 0)
    BY <1>1, <2>1, <2>5, Messages
  <2> QED
    BY <1>5, <2>1, <2>2, <2>3, <2>4, <2>5
<1>7. /\ Drain => /\ outgoing # <<>> /\ outgoing' = Tail(outgoing) /\ Head(outgoing) \in Id
                  /\ UNCHANGED <<ssh, opened, missed>>
                  /\ told' = [told EXCEPT ![Head(outgoing)] = @ + 1]
      /\ Discard => /\ outgoing # <<>> /\ outgoing' = Tail(outgoing)
                    /\ UNCHANGED <<ssh, opened, told>>
                    /\ missed' = missed \cup {Head(outgoing)}
  BY <1>1 DEF Drain, Discard
<1>8. UNCHANGED ssh => cc = c
  BY DEF Telling, Waits, By
<1>9. CASE Drain
  <2>1. told'[i] = t + (IF Head(outgoing) = i THEN 1 ELSE 0) /\ opened'[i] = o /\ missed' = missed
    BY <1>1, <1>7, <1>9
  <2>2. nn = n - (IF Head(outgoing) = i THEN 1 ELSE 0) /\ cc = c
    BY <1>6, <1>7, <1>8, <1>9
  <2> HIDE DEF c, n, t, o, cc, nn
  <2> QED
    BY <1>1, <1>2, <1>6, <2>1, <2>2 DEF cc, nn
<1>10. CASE Discard
  <2>1. told'[i] = t /\ opened'[i] = o /\ missed' = missed \cup {Head(outgoing)}
    BY <1>7, <1>10
  <2>2. nn = n - (IF Head(outgoing) = i THEN 1 ELSE 0) /\ cc = c
    BY <1>6, <1>7, <1>8, <1>10
  <2> HIDE DEF c, n, t, o, cc, nn
  <2> QED
    BY <1>1, <1>2, <1>6, <2>1, <2>2 DEF cc, nn
<1>11. CASE /\ UNCHANGED <<outgoing, missed>>
             /\ Telling(i)' = Telling(i) /\ told'[i] = told[i] /\ opened'[i] = opened[i]
  <2>1. nn = n /\ cc = c
    BY <1>3, <1>4, <1>5, <1>6, <1>11
  <2> HIDE DEF c, n, t, o, cc, nn
  <2> QED
    BY <1>1, <1>2, <1>6, <1>11, <2>1 DEF cc, nn, t, o
<1>12. CASE /\ UNCHANGED <<outgoing, missed>>
             /\ told'[i] = told[i] /\ opened'[i] = opened[i] + 1
             /\ \E s \in Slot \ Telling(i) : Telling(i)' = Telling(i) \cup {s}
  <2>1. nn = n /\ cc = c + 1
    BY <1>3, <1>4, <1>5, <1>6, <1>12
  <2>2. told'[i] = t /\ opened'[i] = o + 1 /\ missed' = missed
    BY <1>12
  <2> HIDE DEF c, n, t, o, cc, nn
  <2> QED
    BY <1>1, <1>2, <1>6, <2>1, <2>2 DEF cc, nn
<1>13. CASE /\ outgoing' = Append(outgoing, i) /\ missed' = missed
             /\ told'[i] = told[i] /\ opened'[i] = opened[i]
             /\ \E s \in Telling(i) : Telling(i)' = Telling(i) \ {s}
  <2>1. nn = n + 1 /\ cc = c - 1
    BY <1>3, <1>4, <1>5, <1>6, <1>13
  <2> HIDE DEF c, n, t, o, cc, nn
  <2> QED
    BY <1>1, <1>2, <1>6, <1>13, <2>1 DEF cc, nn, t, o
<1>14. CASE /\ \E j \in Id \ {i} : outgoing' = Append(outgoing, j) /\ missed' = missed
             /\ Telling(i)' = Telling(i) /\ told'[i] = told[i] /\ opened'[i] = opened[i]
  <2>1. nn = n /\ cc = c
    BY <1>3, <1>4, <1>5, <1>6, <1>14
  <2> HIDE DEF c, n, t, o, cc, nn
  <2> QED
    BY <1>1, <1>2, <1>6, <1>14, <2>1 DEF cc, nn, t, o
<1>15. CASE /\ UNCHANGED outgoing /\ i \in missed'
             /\ told'[i] = told[i] /\ opened'[i] = opened[i]
             /\ \E s \in Telling(i) : Telling(i)' = Telling(i) \ {s}
  <2>1. nn = n /\ cc = c - 1
    BY <1>3, <1>4, <1>5, <1>6, <1>15
  <2>2. told'[i] = t /\ opened'[i] = o /\ i \in missed'
    BY <1>15
  <2> HIDE DEF c, n, t, o, cc, nn
  <2> QED
    BY <1>1, <1>2, <1>6, <2>1, <2>2 DEF cc, nn
<1>16. CASE /\ UNCHANGED outgoing /\ \E j \in Id \ {i} : missed' = missed \cup {j}
             /\ Telling(i)' = Telling(i) /\ told'[i] = told[i] /\ opened'[i] = opened[i]
  <2>1. nn = n /\ cc = c
    BY <1>3, <1>4, <1>5, <1>6, <1>16
  <2> HIDE DEF c, n, t, o, cc, nn
  <2> QED
    BY <1>1, <1>2, <1>6, <1>16, <2>1 DEF cc, nn, t, o
<1>17. CASE told'[i] = 0 /\ opened'[i] = 0 /\ Telling(i)' = {} /\ outgoing' = <<>>
  <2>1. nn = 0 /\ cc = 0
    BY <1>3, <1>4, <1>5, <1>6, <1>17
  <2> HIDE DEF c, n, t, o, cc, nn
  <2> QED
    BY <1>1, <1>2, <1>6, <1>17, <2>1 DEF cc, nn, t, o
<1> QED
  BY <1>9, <1>10, <1>11, <1>12, <1>13, <1>14, <1>15, <1>16, <1>17, TellingStep

-----------------------------------------------------------------------------
(* Theorems                                                                *)

\* Every permit is in the semaphore, with a command or with a task, and what
\* the other theorems rest on.
THEOREM Invariance == Spec => []IInv
<1>1. IInv /\ [Next]_vars => IInv'
  BY TypeOKStep, CommandInvStep, PermitInvStep, CredentialsStep, EndReportedStep DEF IInv
<1> QED
  BY InitInv, <1>1, PTL DEF Spec

\* Every variable keeps its type; no permit is given back twice.
THEOREM TypeCorrect == Spec => []TypeOK
<1>1. IInv => TypeOK
  BY DEF IInv
<1> QED
  BY <1>1, Invariance, PTL

\* However a command or a task ends, its certificate does not outlive it, unless
\* it could not be removed or the process was killed.
THEOREM CredentialsAreCleaned == Spec => []CredentialsCleaned
<1>1. IInv => CredentialsCleaned
  BY DEF IInv
<1> QED
  BY <1>1, Invariance, PTL

\* Commands and tasks together never wait for more tunnels than permits.
THEOREM TunnelsAreLimited == Spec => []TunnelsLimited
<1>1. IInv => TunnelsLimited
  BY FS_CardinalityType DEF IInv, TypeOK, PermitInv, TunnelsLimited, Unowned
<1> QED
  BY <1>1, Invariance, PTL

\* The end of every tunnel is told to the client once, and missed only after a
\* failed wait or for want of a client.
THEOREM EndsAreReported == Spec => []EndReportedOnce
<1>1. IInv => EndReportedOnce
  BY DEF IInv
<1> QED
  BY <1>1, Invariance, PTL
=============================================================================
