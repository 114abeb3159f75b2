--------------------------- MODULE TwinConnection ---------------------------
(***************************************************************************)
(* What the loop of Twin promises its features about the connection to the *)
(* cloud, whatever they do in their handlers: a feature gets its sender    *)
(* with the first connection and keeps it; the twin counts as              *)
(* authenticated from the end of connect_twin, which a client began and    *)
(* no loss interrupts, and never longer than there is a client; reports    *)
(* leave in the order they were made, and between two handlers; and the    *)
(* future that creates the client is not polled after it has completed.    *)
(* TwinLoop and Features both implement it: the loop that the features are *)
(* followed on is the one that TwinLoop models.                            *)
(***************************************************************************)
EXTENDS Sequences

VARIABLES
  proc,     \* "up" or "down"
  client,   \* the loop has a client
  created,  \* the future that creates one: "pending" or "done"
  auth,     \* the twin counts as authenticated
  tx,       \* the features have their senders
  handler,  \* what the loop runs: "none", "connect" (connect_twin), "other"
  waiting,  \* for a reboot
  reported  \* the channel of reported properties

vars == <<proc, client, created, auth, tx, handler, waiting, reported>>
connection == <<proc, client, created, auth, tx>>

Polling == proc = "up" /\ handler = "none"

\* The future may be polled: it is guarded by the client it made, or pending.
Pollable == client \/ created = "pending"

\* Nothing is reported, or by a feature with a sender, behind what waits already.
Reports ==
  \/ UNCHANGED reported
  \/ /\ tx
     /\ \A i \in DOMAIN reported : i \in DOMAIN reported' /\ reported'[i] = reported[i]

Fresh ==
  /\ client = FALSE /\ created = "pending" /\ auth = FALSE /\ tx = FALSE
  /\ handler = "none" /\ waiting = FALSE /\ reported = <<>>

Init == proc \in {"up", "down"} /\ Fresh

Start ==
  /\ proc = "down" /\ proc' = "up"
  /\ UNCHANGED <<client, created, auth, tx, handler, waiting, reported>>

End == proc' = "down" /\ Fresh'

Create ==
  /\ Polling /\ ~client /\ created = "pending"
  /\ client' = TRUE /\ created' = "done"
  /\ UNCHANGED <<proc, auth, tx, handler, waiting, reported>>

\* The handler of the error resets the client, which renews the future.
CreateFails ==
  /\ Polling /\ ~client /\ created = "pending"
  /\ created' = "done" /\ handler' = "other"
  /\ UNCHANGED <<proc, client, auth, tx, waiting, reported>>

Connect ==
  /\ Polling /\ client /\ ~auth
  /\ tx' = TRUE /\ handler' = "connect"
  /\ UNCHANGED <<proc, client, created, auth, waiting, reported>>

\* A step of connect_twin, the last of which makes the twin authenticated.
ConnectStep ==
  /\ handler = "connect"
  /\ \/ handler' = "connect" /\ UNCHANGED auth
     \/ handler' \in {"none", "other"} /\ auth' = TRUE
  /\ Reports
  /\ UNCHANGED <<proc, client, created, tx, waiting>>

\* A step of any other handler, or all of it.
Handle ==
  /\ proc = "up" /\ handler # "connect"
  /\ handler' = "other" \/ (handler' = "none" /\ Pollable)
  /\ Reports
  /\ waiting' \in {waiting, TRUE}
  /\ UNCHANGED connection

\* The connection is lost; for some reasons the client is given up with it.
Lose ==
  /\ Polling
  /\ auth' = FALSE /\ handler' \in {"none", "other"}
  /\ \/ UNCHANGED <<client, created>>
     \/ client' = FALSE /\ created' = "pending"
  /\ UNCHANGED <<proc, tx, waiting, reported>>

\* A client is given up by a handler that knows of its loss already.
Reset ==
  /\ handler = "other" /\ ~auth
  /\ client' = FALSE /\ created' = "pending"
  /\ handler' \in {"none", "other"}
  /\ UNCHANGED <<proc, auth, tx, waiting, reported>>

Drain ==
  /\ Polling /\ reported # <<>>
  /\ reported' = Tail(reported)
  /\ UNCHANGED <<connection, handler, waiting>>

Next ==
  \/ Start \/ End \/ Create \/ CreateFails \/ Connect \/ ConnectStep
  \/ Handle \/ Lose \/ Reset \/ Drain

Spec == Init /\ [][Next]_vars

\* Whenever the loop polls its branches, the future that creates the client is
\* one that has not completed yet (polling it again would panic), and the twin
\* counts as authenticated only with a client to report through and with senders
\* for the features to report with.
Consistent == Polling => Pollable /\ (auth => client /\ tx)
=============================================================================
