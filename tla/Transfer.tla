------------------------------ MODULE Transfer ------------------------------
(***************************************************************************)
(* What a transfer promises, whichever side receives: a file of N blocks   *)
(* is copied from its beginning, the receiver says whether it has all of   *)
(* it, and a sender says so only after the receiver.  Nothing is promised  *)
(* about a sender that reports failure: when the last acknowledgment is    *)
(* lost, the receiver has succeeded and the sender cannot know.            *)
(***************************************************************************)
EXTENDS Integers, Sequences

CONSTANT N

VARIABLES
    written,   \* the blocks in the receiver's file
    receiver,  \* "busy", then what it reports: "ok" or "failed"
    confirmed  \* whether a sender has reported success

vars == <<written, receiver, confirmed>>

FirstBlocks(n) == [i \in 1..n |-> i]

TypeOK ==
    /\ \E n \in 0..N : written = FirstBlocks(n)
    /\ receiver \in {"busy", "ok", "failed"}
    /\ confirmed \in BOOLEAN

Init ==
    /\ written = << >>
    /\ receiver = "busy"
    /\ confirmed = FALSE

\* More blocks arrive; with the last one the receiver is done.
Write ==
    /\ receiver = "busy"
    /\ \E n \in Len(written)..N :
        /\ written' = FirstBlocks(n)
        /\ receiver' = IF n = N THEN "ok" ELSE "busy"
    /\ UNCHANGED confirmed

\* The receiver stops early: the file stays as far as it got, or is removed.
GiveUp ==
    /\ receiver = "busy"
    /\ receiver' = "failed"
    /\ \/ \E n \in Len(written)..(N - 1) : written' = FirstBlocks(n)
       \/ written' = << >>
    /\ UNCHANGED confirmed

Confirm ==
    /\ receiver = "ok"
    /\ confirmed' = TRUE
    /\ UNCHANGED <<written, receiver>>

Next == Write \/ GiveUp \/ Confirm

Spec == Init /\ [][Next]_vars
=============================================================================
