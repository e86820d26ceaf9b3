---------------------------- MODULE TransferQueue ----------------------------
(***************************************************************************)
(* The transfers of the GUI: MainWindow queues them and runs some of them  *)
(* at a time, each with a TftpClient of its own; TransferModel shows one   *)
(* row for each.                                                           *)
(*                                                                         *)
(* A client is known here by the transfer it runs (m_idOf and m_clientById *)
(* are inverse to each other). What it does inside is in DownloadClient    *)
(* and UploadClient; it emits transferFinished once, possibly before       *)
(* uploadFile() or downloadFile() returns.                                 *)
(***************************************************************************)
EXTENDS Naturals, Sequences, FiniteSets, SequencesExt

CONSTANTS
    MaxTransfers,  \* a bound on the transfers a user starts
    MaxSlots       \* the range of m_serverMaxSpin is 1..MaxSlots

ASSUME QueueAssumption == MaxTransfers \in Nat /\ MaxSlots \in Nat \ {0}

VARIABLES
    maxConcurrent,  \* m_maxConcurrent
    nextId,         \* m_nextId
    queue,          \* m_clientQueue, by id
    rows,           \* the states in the rows of m_model, by id
    clients         \* the ids in m_clientById

queueVars == <<maxConcurrent, nextId, queue, rows, clients>>

Ids      == 1..MaxTransfers
Waiting  == {"Pending", "Queued", "Active"}      \* isActive()
Outcomes == {"Completed", "Failed", "Cancelled"}

QueueTypeOK ==
    /\ maxConcurrent \in 1..MaxSlots
    /\ nextId \in 1..MaxTransfers + 1
    /\ queue \in Seq(Ids)
    /\ rows \in [Ids -> Waiting \cup Outcomes \cup {"none"}]
    /\ clients \subseteq Ids

QueueInit ==
    /\ maxConcurrent \in 1..MaxSlots
    /\ nextId = 1
    /\ queue = <<>>
    /\ rows = [id \in Ids |-> "none"]
    /\ clients = {}

(***************************************************************************)
(* processQueue() for the queue q, the rows rs and the clients cs. failing *)
(* are the transfers whose client fails at once: its handler runs          *)
(* processQueue() again before the loop goes on, which comes to the same   *)
(* as going on. A transfer without a waiting row is dropped.               *)
(***************************************************************************)
Runs(q, rs, failing, n) ==
    {q[i] : i \in {j \in 1..n : rs[q[j]] \in Waiting /\ q[j] \notin failing}}

\* Mutant: off by one
HasSlotOrOne(cs) == Cardinality(cs) <= maxConcurrent

HasSlot(cs) == Cardinality(cs) < maxConcurrent

\* The loop takes n transfers: it had a slot for each, and stops when the queue
\* is empty or the slots are.
Takes(q, rs, cs, failing, n) ==
    /\ n \in 0..Len(q)
    /\ \A m \in 0..(n - 1) : HasSlot(cs \cup Runs(q, rs, failing, m))
    /\ n = Len(q) \/ ~HasSlot(cs \cup Runs(q, rs, failing, n))

ProcessQueue(q, rs, cs) ==
    \E failing \in SUBSET ToSet(q), n \in 0..Len(q) :
        /\ Takes(q, rs, cs, failing, n)
        /\ queue' = SubSeq(q, n + 1, Len(q))
        /\ clients' = cs \cup Runs(q, rs, failing, n)
        /\ rows' = [id \in Ids |->
                        IF id \in Runs(q, rs, failing, n) THEN "Pending"
                        ELSE IF id \in ToSet(SubSeq(q, 1, n)) /\ rs[id] \in Waiting
                        THEN "Failed"
                        ELSE rs[id]]

-----------------------------------------------------------------------------
\* startTransfer()
StartTransfer ==
    /\ nextId <= MaxTransfers
    /\ nextId' = nextId + 1
    /\ ProcessQueue(Append(queue, nextId), [rows EXCEPT ![nextId] = "Queued"], clients)
    /\ UNCHANGED maxConcurrent

\* updateProgress(): the first block makes a transfer active.
Progress(id) ==
    /\ id \in clients
    /\ rows[id] = "Pending"
    /\ rows' = [rows EXCEPT ![id] = "Active"]
    /\ UNCHANGED <<maxConcurrent, nextId, queue, clients>>

\* setFinished(): a row that is gone or cancelled stays so.
SetFinished(rs, id, ok) ==
    IF rs[id] \in {"none", "Cancelled"}
    THEN rs
    ELSE [rs EXCEPT ![id] = IF ok THEN "Completed" ELSE "Failed"]

\* Mutant: the next transfer is looked for while the client is still counted
HandlesFinishedEarly(rs, id, ok) ==
    \E failing \in SUBSET ToSet(queue), n \in 0..Len(queue) :
        LET finished == SetFinished(rs, id, ok)
            started  == Runs(queue, finished, failing, n)
        IN  /\ Takes(queue, finished, clients, failing, n)
            /\ queue' = SubSeq(queue, n + 1, Len(queue))
            /\ clients' = (clients \cup started) \ {id}
            /\ rows' = [i \in Ids |->
                            IF i \in started THEN "Pending"
                            ELSE IF i \in ToSet(SubSeq(queue, 1, n)) THEN "Failed"
                            ELSE finished[i]]

\* The handler of transferFinished(ok), the rows being rs
HandlesFinished(rs, id, ok) ==
    ProcessQueue(queue, SetFinished(rs, id, ok), clients \ {id})

ClientFinishes(id, ok) ==
    /\ id \in clients
    /\ HandlesFinished(rows, id, ok)
    /\ UNCHANGED <<maxConcurrent, nextId>>

\* cancelTransfer() of a transfer that runs: abort() emits transferFinished.
CancelRunning(id) ==
    /\ id \in clients
    /\ rows[id] # "none"
    /\ HandlesFinished([rows EXCEPT ![id] = "Cancelled"], id, FALSE)
    /\ UNCHANGED <<maxConcurrent, nextId>>

\* Mutant: the row is cancelled, and the transfer stays in the queue
CancelRow(id) ==
    /\ id \notin clients
    /\ id \in ToSet(queue)
    /\ rows' = [rows EXCEPT ![id] = "Cancelled"]
    /\ UNCHANGED <<maxConcurrent, nextId, queue, clients>>

\* cancelTransfer() of a transfer that waits: its entry is found and removed.
CancelQueued(id) ==
    /\ id \notin clients
    /\ rows[id] # "none"
    /\ \E i \in DOMAIN queue :
        /\ queue[i] = id
        /\ ProcessQueue(RemoveAt(queue, i), [rows EXCEPT ![id] = "Cancelled"], clients)
    /\ UNCHANGED <<maxConcurrent, nextId>>

\* removeFinished()
ClearCompleted ==
    /\ \E id \in Ids : rows[id] \in Outcomes
    /\ rows' = [id \in Ids |-> IF rows[id] \in Waiting THEN rows[id] ELSE "none"]
    /\ UNCHANGED <<maxConcurrent, nextId, queue, clients>>

\* Mutant: slots are counted from zero
ApplyOneLess(n) ==
    /\ maxConcurrent' = n - 1
    /\ UNCHANGED <<nextId, queue, rows, clients>>

\* applyServerConfig(): the queue is not looked at.
ApplyServerConfig(n) ==
    /\ maxConcurrent' = n
    /\ UNCHANGED <<nextId, queue, rows, clients>>
=============================================================================
