----------------------------- MODULE SshTunnel -----------------------------
(***************************************************************************)
(* SshTunnel: a key pair is made for a tunnel, the cloud signs it, and the *)
(* tunnel is opened with the certificate by an ssh process.  The loop runs *)
(* one command at a time; an open tunnel is waited for by a task of its    *)
(* own, which owns one of a limited number of permits and the credentials, *)
(* and tells the cloud when the tunnel has ended.                          *)
(***************************************************************************)
EXTENDS Naturals, Sequences, FiniteSets

CONSTANTS
  Id, Slot,              \* tunnel ids, ssh processes
  MaxTunnels, Capacity,  \* permits, messages the outgoing channel holds
  MaxCommands, MaxFaults \* bounds

ASSUME BoundsAssumption ==
  /\ MaxTunnels \in Nat \ {0} /\ Capacity \in Nat \ {0}
  /\ MaxCommands \in Nat /\ MaxFaults \in Nat

VARIABLES
  command,       \* the command the loop executes
  ssh,           \* the ssh processes and who waits for them
  permits,       \* of the semaphore
  keys, certs,   \* key pairs and certificates that are on disk
  left,          \* history: certificates that a killed process left behind, or
                 \* that could not be removed
  outgoing,      \* the channel of outgoing messages
  client,        \* the loop has a client to give them to
  opened, told,  \* history: tunnels answered with success, ends the client was told
  missed,        \* history: tunnels with an end nobody will tell
  commands, faults

files == <<keys, certs, left>>
counts == <<opened, told, missed>>
vars == <<command, ssh, permits, files, outgoing, client, counts, commands, faults>>

NoCommand == [pc |-> "idle"]
NoSsh == [proc |-> "none"]

\* Who waits for an ssh process: the command, a task, or nobody any more; and
\* whether it has printed its first line.
Process == [proc : {"connecting", "up", "exited"}, id : Id,
            by : {"open", "task", "nobody"}, greeted : BOOLEAN, notified : BOOLEAN]

TypeOK ==
  /\ command \in {NoCommand} \cup [pc : {"store"}, id : Id]
                 \cup [pc : {"connect"}, id : Id, slot : Slot]
  /\ ssh \in [Slot -> {NoSsh} \cup Process]
  /\ permits \in 0..MaxTunnels
  /\ keys \subseteq Id /\ certs \subseteq Id /\ left \subseteq Id
  /\ outgoing \in Seq(Id) /\ Len(outgoing) <= Capacity
  /\ client \in BOOLEAN
  /\ opened \in [Id -> Nat] /\ told \in [Id -> Nat] /\ missed \subseteq Id
  /\ commands \in 0..MaxCommands /\ faults \in 0..MaxFaults

None == [i \in Id |-> 0]

Fresh ==
  /\ command = NoCommand
  /\ ssh = [s \in Slot |-> NoSsh]
  /\ permits = MaxTunnels
  /\ outgoing = <<>> /\ client = TRUE
  /\ opened = None /\ told = None /\ missed = {}

Init ==
  /\ Fresh
  /\ keys = {} /\ certs = {} /\ left = {}
  /\ commands = 0 /\ faults = 0

Command == command = NoCommand /\ commands < MaxCommands /\ commands' = commands + 1
Fault == faults < MaxFaults /\ faults' = faults + 1
Idle(s) == ssh[s] = NoSsh
By(s, who) == ~Idle(s) /\ ssh[s].by = who
Exited(s) == ssh[s].proc = "exited"
Connecting == command.pc = "connect"

\* A process after its end, and after the end of the one who waited for it.
Ended(p) == IF p.by = "nobody" THEN NoSsh ELSE [p EXCEPT !.proc = "exited"]
Unattended(p) == IF p.proc = "exited" THEN NoSsh ELSE [p EXCEPT !.by = "nobody"]

\* Mutant: the certificate is not among the files to remove.
CleanupMutant(i) ==
  /\ keys' = keys \ {i} /\ UNCHANGED <<certs, left>>
  /\ permits' = permits + 1

\* The permit and the SshCredentialsGuard are dropped.  The guard removes the
\* key pair and the certificate; a removal that fails is passed over.
Cleanup(i) ==
  /\ keys' \in {keys, keys \ {i}}
  /\ certs' \in {certs, certs \ {i}}
  /\ left' = (left \ {i}) \cup (certs' \cap {i})
  /\ permits' = permits + 1

-----------------------------------------------------------------------------
(* Commands                                                                *)

\* get_ssh_pub_key; an existing pair is overwritten, a failure may leave one.
GetSshPubKey(i) ==
  /\ Command
  /\ keys' \in {keys, keys \cup {i}}
  /\ UNCHANGED <<command, ssh, permits, certs, left, outgoing, client, counts, faults>>

\* close_ssh_tunnel asks the owner of the control socket, if there is one.
CloseSshTunnel(i) ==
  /\ Command
  /\ ssh' \in {[ssh EXCEPT ![s] = Ended(@)] : s \in {t \in Slot : ~Idle(t) /\ ssh[t].id = i}}
              \cup {ssh}
  /\ UNCHANGED <<command, permits, files, outgoing, client, counts, faults>>

OpenRejected ==
  /\ Command /\ permits = 0
  /\ UNCHANGED <<command, ssh, permits, files, outgoing, client, counts, faults>>

OpenSshTunnel(i) ==
  /\ Command /\ permits > 0
  /\ permits' = permits - 1
  /\ command' = [pc |-> "store", id |-> i]
  /\ UNCHANGED <<ssh, files, outgoing, client, counts, faults>>

\* store_ssh_cert and start_tunnel_command
StoreAndStart ==
  /\ command.pc = "store"
  /\ certs' = certs \cup {command.id}
  /\ \E s \in Slot :
       /\ Idle(s)
       /\ ssh' = [ssh EXCEPT ![s] = [proc |-> "connecting", id |-> command.id, by |-> "open",
                                     greeted |-> FALSE, notified |-> FALSE]]
       /\ command' = [pc |-> "connect", id |-> command.id, slot |-> s]
  /\ UNCHANGED <<permits, keys, left, outgoing, client, counts, commands, faults>>

StoreOrStartFails ==
  /\ command.pc = "store" /\ Fault
  /\ command' = NoCommand
  /\ Cleanup(command.id)
  /\ UNCHANGED <<ssh, outgoing, client, counts, commands>>

\* Mutant: the permit ends with the command.
EstablishedMutant ==
  /\ Connecting /\ ssh[command.slot].greeted
  /\ ssh' = [ssh EXCEPT ![command.slot].by = "task"]
  /\ opened' = [opened EXCEPT ![command.id] = @ + 1]
  /\ command' = NoCommand
  /\ permits' = permits + 1
  /\ UNCHANGED <<files, outgoing, client, told, missed, commands, faults>>

\* await_tunnel_creation succeeds: permit and credentials move to the task.
Established ==
  /\ Connecting /\ ssh[command.slot].greeted
  /\ ssh' = [ssh EXCEPT ![command.slot].by = "task"]
  /\ opened' = [opened EXCEPT ![command.id] = @ + 1]
  /\ command' = NoCommand
  /\ UNCHANGED <<permits, files, outgoing, client, told, missed, commands, faults>>

\* The process closed its output before it printed a line.
ConnectFails ==
  /\ Connecting /\ Exited(command.slot) /\ ~ssh[command.slot].greeted
  /\ ssh' = [ssh EXCEPT ![command.slot] = NoSsh]
  /\ command' = NoCommand
  /\ Cleanup(command.id)
  /\ UNCHANGED <<outgoing, client, counts, commands, faults>>

\* The command fails; the process is neither killed nor waited for.
UnexpectedResponse ==
  /\ Connecting /\ ssh[command.slot].greeted /\ Fault
  /\ ssh' = [ssh EXCEPT ![command.slot] = Unattended(@)]
  /\ command' = NoCommand
  /\ Cleanup(command.id)
  /\ UNCHANGED <<outgoing, client, counts, commands>>

-----------------------------------------------------------------------------
(* await_tunnel_termination                                                *)

Waits(s) == By(s, "task") /\ ~ssh[s].notified

\* Mutant: a full channel drops the message.
NotifyMutant(s) ==
  /\ Waits(s) /\ Exited(s)
  /\ ssh' = [ssh EXCEPT ![s].notified = TRUE]
  /\ outgoing' = IF Len(outgoing) < Capacity THEN Append(outgoing, ssh[s].id) ELSE outgoing
  /\ UNCHANGED <<command, permits, files, client, counts, commands, faults>>

\* However ssh ended, a message for the cloud is sent to the loop.
Notify(s) ==
  /\ Waits(s) /\ Exited(s) /\ Len(outgoing) < Capacity
  /\ outgoing' = Append(outgoing, ssh[s].id)
  /\ ssh' = [ssh EXCEPT ![s].notified = TRUE]
  /\ UNCHANGED <<command, permits, files, client, counts, commands, faults>>

TaskEnds(s) ==
  /\ By(s, "task") /\ ssh[s].notified
  /\ ssh' = [ssh EXCEPT ![s] = NoSsh]
  /\ Cleanup(ssh[s].id)
  /\ UNCHANGED <<command, outgoing, client, counts, commands, faults>>

\* wait_with_output fails: the cloud is not told.
WaitFails(s) ==
  /\ Waits(s) /\ Fault
  /\ ssh' = [ssh EXCEPT ![s] = Unattended(@)]
  /\ Cleanup(ssh[s].id)
  /\ missed' = missed \cup {ssh[s].id}
  /\ UNCHANGED <<command, outgoing, client, opened, told, commands>>

-----------------------------------------------------------------------------
(* ssh, external: it logs in with the key and the certificate.             *)

LogsIn(s) ==
  /\ ssh[s].proc = "connecting" /\ ssh[s].id \in keys \cap certs
  /\ ssh' = [ssh EXCEPT ![s].proc = "up", ![s].greeted = TRUE]
  /\ UNCHANGED <<command, permits, files, outgoing, client, counts, commands, faults>>

Exits(s) ==
  /\ ssh[s].proc \in {"connecting", "up"}
  /\ ssh' = [ssh EXCEPT ![s] = Ended(@)]
  /\ UNCHANGED <<command, permits, files, outgoing, client, counts, commands, faults>>

-----------------------------------------------------------------------------
(* The loop and the process                                                *)

\* Between two commands the loop gives a message to its client.
Drain ==
  /\ command = NoCommand /\ outgoing # <<>> /\ client
  /\ outgoing' = Tail(outgoing)
  /\ told' = [told EXCEPT ![Head(outgoing)] = @ + 1]
  /\ UNCHANGED <<command, ssh, permits, files, client, opened, missed, commands, faults>>

\* "couldn't send msg since client not present": the message is gone.
Discard ==
  /\ command = NoCommand /\ outgoing # <<>> /\ ~client
  /\ outgoing' = Tail(outgoing)
  /\ missed' = missed \cup {Head(outgoing)}
  /\ UNCHANGED <<command, ssh, permits, files, client, opened, told, commands, faults>>

\* The connection fails for good and its client is dropped, until there is a new
\* one.  A command the loop had received before is still executed.
ClientLost ==
  /\ command = NoCommand /\ client /\ Fault
  /\ client' = FALSE
  /\ UNCHANGED <<command, ssh, permits, files, outgoing, counts, commands>>

ClientCreated ==
  /\ command = NoCommand /\ ~client
  /\ client' = TRUE
  /\ UNCHANGED <<command, ssh, permits, files, outgoing, counts, commands, faults>>

\* The processes of the service end with it; the files stay in /run.  The next
\* process is looked at from its first client on: no command comes before.
End ==
  /\ command' = NoCommand
  /\ ssh' = [s \in Slot |-> NoSsh]
  /\ permits' = MaxTunnels
  /\ outgoing' = <<>> /\ client' = TRUE
  /\ opened' = None /\ told' = None /\ missed' = {}
  /\ left' = left \cup certs
  /\ UNCHANGED <<keys, certs, commands>>

Kill == Fault /\ End

\* Mutant: a task of its own keeps the watchdog quiet.
WatchdogKillsMutant == FALSE

\* Neither ssh nor the command has a timeout; the watchdog has.
WatchdogKills ==
  /\ Connecting /\ ssh[command.slot].proc = "connecting"
  /\ End /\ UNCHANGED faults

Loop ==
  \/ StoreAndStart \/ StoreOrStartFails
  \/ Established \/ ConnectFails \/ UnexpectedResponse

Next ==
  \/ \E i \in Id : GetSshPubKey(i) \/ CloseSshTunnel(i) \/ OpenSshTunnel(i)
  \/ OpenRejected \/ Loop \/ Drain \/ Discard \/ ClientLost \/ ClientCreated
  \/ \E s \in Slot : Notify(s) \/ TaskEnds(s) \/ WaitFails(s) \/ LogsIn(s) \/ Exits(s)
  \/ Kill \/ WatchdogKills

Spec == Init /\ [][Next]_vars

\* Loop and tasks are polled, and the watchdog keeps its word.
FairSpec ==
  /\ Spec
  /\ WF_vars(Loop) /\ WF_vars(Drain \/ Discard) /\ WF_vars(WatchdogKills)
  /\ \A s \in Slot : WF_vars(Notify(s) \/ TaskEnds(s))

-----------------------------------------------------------------------------
(* Properties                                                              *)

Owned(i) ==
  \/ command # NoCommand /\ command.id = i
  \/ \E s \in Slot : By(s, "task") /\ ssh[s].id = i

\* "Ensure our ssh keys and certificate are cleaned up properly": a certificate
\* is on disk only while an open command or a task answers for it, whichever
\* way they end; only a killed process, or a removal that failed, leaves one
\* behind.
CredentialsCleaned == \A i \in certs : Owned(i) \/ i \in left

Owners == {s \in Slot : By(s, "task") \/ By(s, "open")}

\* No more tunnels than permits are waited for, by commands and tasks together.
TunnelsLimited == Cardinality(Owners) <= MaxTunnels

\* The tasks that have still to tell of the end of tunnel i.
Telling(i) == {s \in Slot : Waits(s) /\ ssh[s].id = i}

\* The messages about tunnel i the loop has still to give to its client.
Sent(i) == {n \in DOMAIN outgoing : outgoing[n] = i}

\* The end of a tunnel that was opened is told to the client once, not before it
\* came, and not at all only if waiting for it failed or if the loop took the
\* message while it had no client.
EndReportedOnce ==
  \A i \in Id :
    LET due == Cardinality(Telling(i)) + Cardinality(Sent(i))
    IN told[i] + due <= opened[i] /\ (i \notin missed => told[i] + due = opened[i])

\* A tunnel that ended gives back its permit, even if the channel of messages
\* is full and the loop is busy with a bastion host that does not answer.
PermitReturned ==
  \A s \in Slot : By(s, "task") /\ Exited(s) ~> ~By(s, "task")
=============================================================================
