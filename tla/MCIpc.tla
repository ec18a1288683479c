------------------------------- MODULE MCIpc -------------------------------
(* Three CPUs and two senders.                                             *)
EXTENDS Ipc, TLC

CONSTANTS c1, c2, c3, e1, e2

Args(mode, dest, wait, migrate) ==
  [ SendMode |-> mode, Destination |-> dest, WaitForHandling |-> wait,
    MayMigrate |-> migrate ]

\* A broadcast that waits, and a call to a group that does not.
BroadcastAndGroup(migrate) ==
  (e1 :> Args("AllIncludingSelf", {}, TRUE, migrate)) @@
  (e2 :> Args("ToGroup", {c1, c2}, FALSE, migrate))

\* A call to the other CPUs and one to the sender's own CPU, by threads that
\* stay where they are.
OthersAndSelf ==
  (e1 :> Args("AllExcludingSelf", {}, TRUE, FALSE)) @@
  (e2 :> Args("ToSelf", {}, TRUE, FALSE))

\* Calls to two different CPUs, by threads that move about.
TwoCpus ==
  (e1 :> Args("ToCpu", {c1}, TRUE, TRUE)) @@
  (e2 :> Args("ToCpu", {c3}, TRUE, TRUE))

\* A call to the other CPUs and one that no CPU matches.
OthersAndNobody ==
  (e1 :> Args("AllExcludingSelf", {}, TRUE, FALSE)) @@
  (e2 :> Args("ToCpu", {}, TRUE, TRUE))

AllCalls == {BroadcastAndGroup(TRUE), OthersAndSelf, TwoCpus, OthersAndNobody}
Overlapping == {BroadcastAndGroup(FALSE)}
=============================================================================
