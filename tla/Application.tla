----------------------------- MODULE Application -----------------------------
(***************************************************************************)
(* The two front ends of the client. main() runs one of them.              *)
(***************************************************************************)
EXTENDS TransferQueue, CliRunner

VARIABLE frontEnd  \* "gui" or "cli"

vars == <<queueVars, cliVars, frontEnd>>

TypeOK ==
    /\ QueueTypeOK
    /\ CliTypeOK
    /\ frontEnd \in {"gui", "cli"}

Init ==
    /\ QueueInit
    /\ CliInit
    /\ frontEnd \in {"gui", "cli"}

Gui(A) ==
    /\ frontEnd = "gui"
    /\ A
    /\ UNCHANGED <<cliVars, frontEnd>>

Cli(A) ==
    /\ frontEnd = "cli"
    /\ A
    /\ UNCHANGED <<queueVars, frontEnd>>

UserActs ==
    \/ StartTransfer
    \/ \E id \in Ids : CancelRunning(id) \/ CancelQueued(id)
    \/ ClearCompleted
    \/ \E n \in 1..MaxSlots : ApplyServerConfig(n)

ClientEnds(id) == \E ok \in BOOLEAN : ClientFinishes(id, ok)

CommandEnds == \E ok \in BOOLEAN : TransferFinished(ok)

Next ==
    \/ Gui(UserActs)
    \/ \E id \in Ids : Gui(Progress(id)) \/ Gui(ClientEnds(id))
    \/ Cli(UsageError \/ RunTransfer \/ RunTransferFails)
    \/ Cli(CommandEnds)

Spec == Init /\ [][Next]_vars

\* A client that runs comes to an end (DownloadEnds and UploadEnds show it).
FairSpec ==
    /\ Spec
    /\ \A id \in Ids : WF_vars(Gui(ClientEnds(id)))
    /\ WF_vars(Cli(CommandEnds))

-----------------------------------------------------------------------------
\* Safety

\* The table, the queue and the clients agree, whatever has been cancelled,
\* failed at once or been cleared: a row says "queued" for what is in the queue,
\* once, and "pending" or "active" for what has a client.
RowsTellTheTruth ==
    /\ \A id \in Ids :
        /\ rows[id] = "Queued" <=> id \in ToSet(queue)
        /\ rows[id] \in {"Pending", "Active"} <=> id \in clients
    /\ IsInjective(queue)

\* A client is started only for a free slot, and never before an older transfer
\* that still waits.
StartsInOrder ==
    [][\A id \in clients' \ clients :
            /\ Cardinality(clients') <= maxConcurrent
            /\ \A other \in ToSet(queue') : id < other]_vars

-----------------------------------------------------------------------------
\* Liveness

\* Every transfer that was started comes to an outcome, queued or not, also when
\* the slots become fewer or more in the meantime; and a command whose client
\* runs comes back.
EveryTransferEnds ==
    /\ \A id \in Ids : rows[id] \in Waiting ~> rows[id] \notin Waiting
    /\ running ~> command = "exited"

-----------------------------------------------------------------------------
\* What the program says, and does not do

\* "@return A process exit code."
CommandReturns == command = "waiting" ~> command = "exited"
=============================================================================
