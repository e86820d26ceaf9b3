------------------------------ MODULE CliRunner ------------------------------
(***************************************************************************)
(* One transfer from the command line: runTransfer() starts a TftpClient,  *)
(* then runs an event loop that the handler of transferFinished ends.      *)
(* Its exit code is the outcome.                                           *)
(***************************************************************************)
EXTENDS Naturals

VARIABLES
    command,   \* "parsing", "waiting" in loop.exec(), or "exited"
    exitCode,  \* what runTransfer() returns
    running    \* the client runs

cliVars == <<command, exitCode, running>>

CliTypeOK ==
    /\ command \in {"parsing", "waiting", "exited"}
    /\ exitCode \in 0..2
    /\ running \in BOOLEAN

CliInit ==
    /\ command = "parsing"
    /\ exitCode = 0
    /\ running = FALSE

\* No host or no file
UsageError ==
    /\ command = "parsing"
    /\ command' = "exited"
    /\ exitCode' = 2
    /\ UNCHANGED running

\* begin() succeeds.
RunTransfer ==
    /\ command = "parsing"
    /\ command' = "waiting"
    /\ running' = TRUE
    /\ UNCHANGED exitCode

\* begin() fails and emits transferFinished: quit() has no effect on a loop that
\* has not been started, and then it is.
RunTransferFails ==
    /\ command = "parsing"
    /\ command' = "waiting"
    /\ UNCHANGED <<exitCode, running>>

\* transferFinished(ok) while the loop runs
TransferFinished(ok) ==
    /\ running
    /\ running' = FALSE
    /\ command' = "exited"
    /\ exitCode' = IF ok THEN 0 ELSE 1
=============================================================================
