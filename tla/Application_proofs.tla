------------------------ MODULE Application_proofs --------------------------
(***************************************************************************)
(* The table, the queue and the clients of the GUI agree, and transfers    *)
(* start in their order, for any number of transfers and of slots, however *)
(* they fail, end or are cancelled and whatever the slots become.          *)
(***************************************************************************)
EXTENDS Application, FiniteSetTheorems, SequenceTheorems, TLAPS

RowStates == Waiting \cup Outcomes \cup {"none"}

\* Ids are given out in their order, and the queue keeps it.
Increasing(q) == \A i, j \in DOMAIN q : i < j => q[i] < q[j]

\* What processQueue() needs of a queue, rows and clients, and leaves behind
Agree(q, rs, cs) ==
    /\ q \in Seq(Ids)
    /\ rs \in [Ids -> RowStates]
    /\ cs \subseteq Ids
    /\ Increasing(q)
    /\ \A id \in Ids :
        /\ rs[id] = "Queued" <=> id \in ToSet(q)
        /\ rs[id] \in {"Pending", "Active"} <=> id \in cs

GuiInv ==
    /\ maxConcurrent \in 1..MaxSlots
    /\ nextId \in 1..MaxTransfers + 1
    /\ Agree(queue, rows, clients)
    /\ \A id \in Ids : id >= nextId => rows[id] = "none"

ApplicationInv ==
    /\ GuiInv
    /\ CliTypeOK
    /\ frontEnd \in {"gui", "cli"}

\* A client that a step adds to cs has a free slot, and nobody older waits.
InOrder(cs) ==
    \A id \in clients' \ cs :
        /\ Cardinality(clients') <= maxConcurrent
        /\ \A other \in ToSet(queue') : id < other

\* A row waits, then runs, then has an outcome, and nothing brings it back: it
\* is not removed before it has an outcome, and an outcome is only removed.
GoesForward(id) ==
    /\ rows[id] = "Queued" => rows'[id] # "none"
    /\ rows[id] \in {"Pending", "Active"} => rows'[id] \in {rows[id], "Active"} \cup Outcomes
    /\ rows[id] \in Outcomes => rows'[id] \in {rows[id], "none"}
    /\ rows[id] = "none" /\ id < nextId => rows'[id] = "none"

\* What every step of the GUI must do
GuiStep == GuiInv' /\ InOrder(clients) /\ \A id \in Ids : GoesForward(id)

-----------------------------------------------------------------------------
\* Sequences of ids

LEMMA IdTypes == Ids \subseteq Nat /\ IsFiniteSet(Ids)
<1>1. 1 \in Int /\ MaxTransfers \in Int
  BY QueueAssumption, SMT
<1>2. QED
  BY <1>1, FS_Interval, SMT DEF Ids

(* Positions and the set of what is there. *)
LEMMA QueuePositions ==
    ASSUME NEW q \in Seq(Ids)
    PROVE  /\ Len(q) \in Nat
           /\ DOMAIN q = 1..Len(q)
           /\ \A i \in 1..Len(q) : q[i] \in Ids /\ q[i] \in ToSet(q)
           /\ \A id \in ToSet(q) : \E i \in 1..Len(q) : q[i] = id
BY LenProperties DEF ToSet

(* In a queue that keeps the order nothing is there twice, and what stands
   further back is younger. *)
LEMMA OrderedQueue ==
    ASSUME NEW q \in Seq(Ids), Increasing(q),
           NEW i \in 1..Len(q), NEW j \in 1..Len(q)
    PROVE  /\ q[i] = q[j] => i = j
           /\ q[i] < q[j] <=> i < j
<1>1. /\ q[i] \in Nat /\ q[j] \in Nat
      /\ i \in DOMAIN q /\ j \in DOMAIN q
      /\ Len(q) \in Nat
  BY QueuePositions, IdTypes
<1>2. (i < j => q[i] < q[j]) /\ (j < i => q[j] < q[i])
  BY <1>1 DEF Increasing
<1>3. QED
  BY <1>1, <1>2, SMT

(* The first n transfers are taken. *)
LEMMA Suffix ==
    ASSUME NEW q \in Seq(Ids), NEW n \in 0..Len(q)
    PROVE  LET rest == SubSeq(q, n + 1, Len(q))
           IN  /\ rest \in Seq(Ids)
               /\ Len(rest) = Len(q) - n
               /\ \A i \in 1..(Len(q) - n) : rest[i] = q[n + i]
               /\ ToSet(rest) = {q[i] : i \in (n + 1)..Len(q)}
<1> DEFINE rest == SubSeq(q, n + 1, Len(q))
<1>1. /\ Len(q) \in Nat /\ n \in Nat /\ n <= Len(q)
      /\ n + 1 \in Int /\ Len(q) \in Int /\ Len(q) - n \in Nat
  BY QueuePositions, SMT
<1>2. \A i \in (n + 1)..Len(q) : i \in 1..Len(q)
  BY <1>1, SMT
<1>3. \A i \in (n + 1)..Len(q) : q[i] \in Ids
  BY <1>2, QueuePositions
<1>4. /\ rest \in Seq(Ids)
      /\ Len(rest) = IF n + 1 <= Len(q) THEN Len(q) - (n + 1) + 1 ELSE 0
      /\ \A i \in 1..(Len(q) - (n + 1) + 1) : rest[i] = q[n + 1 + i - 1]
  BY <1>1, <1>3, SubSeqProperties
<1>5. Len(rest) = Len(q) - n
  BY <1>1, <1>4, SMT
<1>6. \A i \in 1..(Len(q) - n) : rest[i] = q[n + i]
  <2>1. Len(q) - (n + 1) + 1 = Len(q) - n
    BY <1>1, SMT
  <2>2. \A i \in 1..(Len(q) - n) : n + 1 + i - 1 = n + i
    BY <1>1, SMT
  <2>3. QED
    BY <1>4, <2>1, <2>2
<1>7. DOMAIN rest = 1..(Len(q) - n)
  BY <1>4, <1>5, LenProperties
<1> HIDE DEF rest
<1>8. ToSet(rest) = {q[i] : i \in (n + 1)..Len(q)}
  <2>1. \A i \in 1..(Len(q) - n) : n + i \in (n + 1)..Len(q)
    BY <1>1, SMT
  <2>2. ASSUME NEW i \in (n + 1)..Len(q)
        PROVE  i - n \in 1..(Len(q) - n) /\ n + (i - n) = i
    BY <1>1, SMT
  <2>3. ToSet(rest) \subseteq {q[i] : i \in (n + 1)..Len(q)}
    BY <1>6, <1>7, <2>1 DEF ToSet
  <2>4. ASSUME NEW i \in (n + 1)..Len(q) PROVE q[i] \in ToSet(rest)
    <3>1. rest[i - n] = q[n + (i - n)]
      BY <1>6, <2>2
    <3>2. rest[i - n] = q[i] /\ i - n \in DOMAIN rest
      BY <1>7, <2>2, <3>1
    <3>3. QED
      BY <3>2 DEF ToSet
  <2>5. QED
    BY <2>3, <2>4
<1>9. QED
  BY <1>4, <1>5, <1>6, <1>8 DEF rest

(* One transfer is removed from the queue, wherever it stands. *)
LEMMA Removed ==
    ASSUME NEW q \in Seq(Ids), Increasing(q), NEW i \in 1..Len(q)
    PROVE  /\ RemoveAt(q, i) \in Seq(Ids)
           /\ Increasing(RemoveAt(q, i))
           /\ ToSet(RemoveAt(q, i)) = ToSet(q) \ {q[i]}
<1> DEFINE before == SubSeq(q, 1, i - 1)
           after  == SubSeq(q, i + 1, Len(q))
           left   == RemoveAt(q, i)
           from(j) == IF j <= i - 1 THEN j ELSE j + 1
<1>1. /\ Len(q) \in Nat /\ i \in Nat /\ 1 <= i /\ i <= Len(q)
      /\ i - 1 \in Int /\ i + 1 \in Int /\ Len(q) \in Int /\ 1 \in Int
      /\ Len(q) - 1 \in Nat
  BY QueuePositions, SMT
<1>2. /\ before \in Seq(Ids) /\ Len(before) = i - 1
      /\ \A j \in 1..(i - 1) : before[j] = q[j]
  <2>1. \A j \in 1..(i - 1) : j \in 1..Len(q) /\ 1 + j - 1 = j
    BY <1>1, SMT
  <2>2. \A j \in 1..(i - 1) : q[j] \in Ids
    BY <2>1, QueuePositions
  <2>3. /\ before \in Seq(Ids)
        /\ Len(before) = IF 1 <= i - 1 THEN i - 1 - 1 + 1 ELSE 0
        /\ \A j \in 1..(i - 1 - 1 + 1) : before[j] = q[1 + j - 1]
    BY <1>1, <2>2, SubSeqProperties
  <2>4. Len(before) = i - 1 /\ i - 1 - 1 + 1 = i - 1
    BY <1>1, <2>3, SMT
  <2>5. QED
    BY <2>1, <2>3, <2>4
<1>3. /\ after \in Seq(Ids) /\ Len(after) = Len(q) - i
      /\ \A j \in 1..(Len(q) - i) : after[j] = q[i + j]
  <2>1. i \in 0..Len(q)
    BY <1>1, SMT
  <2>2. QED
    BY <2>1, Suffix
<1>4. left = before \o after
  BY DEF RemoveAt
<1> HIDE DEF before, after, left
<1>5. /\ left \in Seq(Ids)
      /\ Len(left) = Len(q) - 1
      /\ \A j \in 1..(Len(q) - 1) : left[j] = q[from(j)]
  <2>2. /\ left \in Seq(Ids)
        /\ Len(left) = Len(before) + Len(after)
        /\ \A j \in 1..(Len(before) + Len(after)) :
            left[j] = IF j <= Len(before) THEN before[j] ELSE after[j - Len(before)]
    BY <1>2, <1>3, <1>4, ConcatProperties
  <2>3. Len(before) + Len(after) = Len(q) - 1
    BY <1>1, <1>2, <1>3, SMT
  <2>4. ASSUME NEW j \in 1..(Len(q) - 1)
        PROVE  left[j] = q[from(j)]
    <3>1. left[j] = IF j <= i - 1 THEN before[j] ELSE after[j - (i - 1)]
      BY <1>2, <2>2, <2>3
    <3>2. CASE j <= i - 1
      <4>1. j \in 1..(i - 1)
        BY <3>2, <1>1, SMT
      <4>2. QED
        BY <1>2, <3>1, <3>2, <4>1
    <3>3. CASE ~(j <= i - 1)
      <4>1. j - (i - 1) \in 1..(Len(q) - i) /\ i + (j - (i - 1)) = j + 1
        BY <3>3, <1>1, SMT
      <4>2. QED
        BY <1>3, <3>1, <3>3, <4>1
    <3>4. QED
      BY <3>2, <3>3
  <2>5. QED
    BY <2>2, <2>3, <2>4
<1>6. DOMAIN left = 1..(Len(q) - 1)
  BY <1>5, LenProperties
<1>7. ASSUME NEW j \in 1..(Len(q) - 1)
      PROVE  from(j) \in 1..Len(q) /\ from(j) # i
  BY <1>1, SMT
<1>8. Increasing(left)
  <2>1. ASSUME NEW j \in 1..(Len(q) - 1), NEW k \in 1..(Len(q) - 1), j < k
        PROVE  from(j) < from(k)
    BY <1>1, <2>1, SMT
  <2>2. ASSUME NEW j \in 1..(Len(q) - 1), NEW k \in 1..(Len(q) - 1), j < k
        PROVE  left[j] < left[k]
    <3>1. q[from(j)] < q[from(k)]
      BY <1>7, <2>1, <2>2, OrderedQueue
    <3>2. QED
      BY <1>5, <3>1
  <2>3. QED
    BY <1>6, <2>2 DEF Increasing
<1>9. ToSet(left) = ToSet(q) \ {q[i]}
  <2>1. ASSUME NEW j \in 1..(Len(q) - 1)
        PROVE  left[j] \in ToSet(q) \ {q[i]}
    <3>1. left[j] = q[from(j)] /\ from(j) \in 1..Len(q) /\ from(j) # i
      BY <1>5, <1>7
    <3>2. QED
      BY <3>1, OrderedQueue, QueuePositions
  <2>2. ASSUME NEW k \in 1..Len(q), k # i
        PROVE  \E j \in 1..(Len(q) - 1) : left[j] = q[k]
    <3>1. \E j \in 1..(Len(q) - 1) : from(j) = k
      <4>1. CASE k < i
        <5>1. k \in 1..(Len(q) - 1) /\ from(k) = k
          BY <1>1, <4>1, SMT
        <5>2. QED
          BY <5>1
      <4>2. CASE k > i
        <5>1. k - 1 \in 1..(Len(q) - 1) /\ from(k - 1) = k
          BY <1>1, <4>2, SMT
        <5>2. QED
          BY <5>1
      <4>3. QED
        BY <1>1, <2>2, <4>1, <4>2, SMT
    <3>2. QED
      BY <1>5, <3>1
  <2>3. ToSet(left) \subseteq ToSet(q) \ {q[i]}
    BY <1>6, <2>1 DEF ToSet
  <2>4. ASSUME NEW id \in ToSet(q), id # q[i] PROVE id \in ToSet(left)
    <3>1. PICK k \in 1..Len(q) : q[k] = id
      BY QueuePositions
    <3>2. PICK j \in 1..(Len(q) - 1) : left[j] = id
      BY <2>2, <2>4, <3>1
    <3>3. QED
      BY <1>6, <3>2 DEF ToSet
  <2>5. QED
    BY <2>3, <2>4
<1>10. QED
  BY <1>5, <1>8, <1>9 DEF left

(* A transfer younger than all that wait joins them. *)
LEMMA Joined ==
    ASSUME NEW q \in Seq(Ids), Increasing(q), NEW id \in Ids,
           \A other \in ToSet(q) : other < id
    PROVE  /\ Append(q, id) \in Seq(Ids)
           /\ Increasing(Append(q, id))
           /\ ToSet(Append(q, id)) = ToSet(q) \cup {id}
<1> DEFINE more == Append(q, id)
<1>1. Len(q) \in Nat /\ Len(q) + 1 \in Nat
  BY QueuePositions, SMT
<1>2. /\ more \in Seq(Ids) /\ Len(more) = Len(q) + 1
      /\ \A i \in 1..Len(q) : more[i] = q[i]
      /\ more[Len(q) + 1] = id
  BY AppendProperties
<1>3. DOMAIN more = 1..(Len(q) + 1)
  BY <1>2, LenProperties
<1>4. \A i \in 1..(Len(q) + 1) : i \in 1..Len(q) \/ i = Len(q) + 1
  BY <1>1, SMT
<1>5. \A i \in 1..Len(q) : i \in 1..(Len(q) + 1)
  BY <1>1, SMT
<1>6. Increasing(more)
  <2>1. ASSUME NEW i \in 1..(Len(q) + 1), NEW j \in 1..(Len(q) + 1), i < j
        PROVE  more[i] < more[j]
    <3>1. i \in 1..Len(q)
      BY <1>1, <2>1, SMT
    <3>2. CASE j \in 1..Len(q)
      BY <1>2, <2>1, <3>1, <3>2, OrderedQueue
    <3>3. CASE j = Len(q) + 1
      BY <1>2, <3>1, <3>3, QueuePositions
    <3>4. QED
      BY <1>4, <3>2, <3>3
  <2>2. QED
    BY <1>3, <2>1 DEF Increasing
<1>7. ToSet(more) = ToSet(q) \cup {id}
  <2>1. Len(q) + 1 \in 1..(Len(q) + 1)
    BY <1>1, SMT
  <2>2. DOMAIN q = 1..Len(q)
    BY QueuePositions
  <2>3. QED
    BY <1>2, <1>3, <1>4, <1>5, <2>1, <2>2 DEF ToSet
<1>8. QED
  BY <1>2, <1>6, <1>7

-----------------------------------------------------------------------------
\* processQueue()

(* What the loop starts are transfers of the prefix that it takes, and one of
   them more at most with each transfer taken. *)
LEMMA RunsOfPrefix ==
    ASSUME NEW q, NEW rs, NEW cs, Agree(q, rs, cs), NEW failing,
           NEW n \in 0..Len(q)
    PROVE  /\ Runs(q, rs, failing, n) = {q[i] : i \in {j \in 1..n : q[j] \notin failing}}
           /\ Runs(q, rs, failing, n) \subseteq Ids
<1>1. q \in Seq(Ids)
  BY DEF Agree
<1>2. Len(q) \in Nat /\ \A i \in 1..n : i \in 1..Len(q)
  BY <1>1, QueuePositions, SMT
<1>3. \A i \in 1..n : q[i] \in Ids /\ rs[q[i]] = "Queued"
  BY <1>1, <1>2, QueuePositions DEF Agree
<1>4. \A i \in 1..n : rs[q[i]] \in Waiting
  BY <1>3 DEF Waiting
<1>5. QED
  BY <1>3, <1>4 DEF Runs

(* The last client that was started had a free slot. *)
LEMMA SlotForEach ==
    ASSUME NEW q, NEW rs, NEW cs, Agree(q, rs, cs), NEW failing,
           NEW n \in 0..Len(q), Takes(q, rs, cs, failing, n), n > 0,
           maxConcurrent \in Nat
    PROVE  Cardinality(cs \cup Runs(q, rs, failing, n)) <= maxConcurrent
<1> DEFINE now    == cs \cup Runs(q, rs, failing, n)
           before == cs \cup Runs(q, rs, failing, n - 1)
<1>1. q \in Seq(Ids) /\ Len(q) \in Nat /\ cs \subseteq Ids
  BY QueuePositions DEF Agree
<1>2. n - 1 \in 0..Len(q) /\ n - 1 \in 0..(n - 1)
  BY <1>1, SMT
<1>3. Cardinality(before) < maxConcurrent
  BY <1>2 DEF Takes, HasSlot
<1>4. before \subseteq Ids /\ now \subseteq Ids
  BY <1>1, <1>2, RunsOfPrefix
<1>5. now \subseteq before \cup {q[n]}
  <2>1. \A i \in 1..n : i \in 1..(n - 1) \/ i = n
    BY <1>1, SMT
  <2>2. QED
    BY <2>1 DEF Runs
<1>6. IsFiniteSet(before) /\ Cardinality(before) \in Nat
  BY <1>4, IdTypes, FS_Subset, FS_CardinalityType
<1>7. /\ IsFiniteSet(before \cup {q[n]})
      /\ Cardinality(before \cup {q[n]}) =
            IF q[n] \in before THEN Cardinality(before) ELSE Cardinality(before) + 1
  BY <1>6, FS_AddElement
<1>8. Cardinality(now) <= Cardinality(before \cup {q[n]}) /\ Cardinality(now) \in Nat
  BY <1>4, <1>5, <1>7, IdTypes, FS_Subset, FS_CardinalityType
<1>9. QED
  BY <1>3, <1>6, <1>7, <1>8, SMT

(* The loop leaves an agreement behind, forgets no row and invents none, and  *)
(* starts transfers in their order.                                           *)
LEMMA QueueProcessed ==
    ASSUME NEW q, NEW rs, NEW cs, Agree(q, rs, cs), maxConcurrent \in Nat,
           ProcessQueue(q, rs, cs)
    PROVE  /\ Agree(queue, rows, clients)'
           /\ \A id \in Ids : /\ rows'[id] = "none" <=> rs[id] = "none"
                              /\ rs[id] # "Queued" => rows'[id] = rs[id]
           /\ InOrder(cs)
<1>1. PICK failing \in SUBSET ToSet(q), n \in 0..Len(q) :
        /\ Takes(q, rs, cs, failing, n)
        /\ queue' = SubSeq(q, n + 1, Len(q))
        /\ clients' = cs \cup Runs(q, rs, failing, n)
        /\ rows' = [id \in Ids |->
                        IF id \in Runs(q, rs, failing, n) THEN "Pending"
                        ELSE IF id \in ToSet(SubSeq(q, 1, n)) /\ rs[id] \in Waiting
                        THEN "Failed"
                        ELSE rs[id]]
  BY DEF ProcessQueue
<1> DEFINE run   == Runs(q, rs, failing, n)
           taken == {q[i] : i \in 1..n}
           kept  == {q[i] : i \in (n + 1)..Len(q)}
<1>2. /\ q \in Seq(Ids) /\ rs \in [Ids -> RowStates] /\ cs \subseteq Ids /\ Increasing(q)
      /\ Len(q) \in Nat /\ n \in Nat /\ n <= Len(q)
      /\ \A id \in Ids : /\ rs[id] = "Queued" <=> id \in ToSet(q)
                         /\ rs[id] \in {"Pending", "Active"} <=> id \in cs
  BY QueuePositions, SMT DEF Agree
<1>3. /\ queue' \in Seq(Ids) /\ Len(queue') = Len(q) - n
      /\ \A i \in 1..(Len(q) - n) : queue'[i] = q[n + i]
      /\ ToSet(queue') = kept
  BY <1>1, <1>2, Suffix
<1>4. ToSet(SubSeq(q, 1, n)) = taken
  <2>1. \A i \in 1..n : i \in 1..Len(q)
    BY <1>2, SMT
  <2>2. \A i \in 1..n : q[i] \in Ids
    BY <1>2, <2>1, QueuePositions
  <2>3. 1 \in Int /\ n \in Int /\ n - 1 + 1 = n
    BY <1>2, SMT
  <2>4. /\ SubSeq(q, 1, n) \in Seq(Ids)
        /\ Len(SubSeq(q, 1, n)) = IF 1 <= n THEN n - 1 + 1 ELSE 0
        /\ \A i \in 1..(n - 1 + 1) : SubSeq(q, 1, n)[i] = q[1 + i - 1]
    BY <2>2, <2>3, SubSeqProperties
  <2>5. Len(SubSeq(q, 1, n)) = n /\ \A i \in 1..n : 1 + i - 1 = i
    BY <1>2, <2>4, SMT
  <2>6. DOMAIN SubSeq(q, 1, n) = 1..n
    BY <2>4, <2>5, LenProperties
  <2>7. \A i \in 1..n : SubSeq(q, 1, n)[i] = q[i]
    BY <2>3, <2>4, <2>5
  <2>8. QED
    BY <2>6, <2>7 DEF ToSet
<1>5. /\ run \subseteq taken
      /\ taken \cup kept = ToSet(q)
      /\ taken \cap kept = {}
      /\ taken \subseteq Ids /\ run \subseteq Ids
  <2>1. run = {q[i] : i \in {j \in 1..n : q[j] \notin failing}} /\ run \subseteq Ids
    BY RunsOfPrefix
  <2>2. /\ \A i \in 1..Len(q) : i \in 1..n \/ i \in (n + 1)..Len(q)
        /\ \A i \in 1..n : i \in 1..Len(q)
        /\ \A i \in (n + 1)..Len(q) : i \in 1..Len(q)
        /\ \A i \in 1..n, j \in (n + 1)..Len(q) : i # j
    BY <1>2, SMT
  <2>3. taken \cup kept = ToSet(q)
    <3>1. \A i \in 1..Len(q) : q[i] \in ToSet(q)
      BY <1>2, QueuePositions
    <3>2. \A id \in ToSet(q) : \E i \in 1..Len(q) : q[i] = id
      BY <1>2, QueuePositions
    <3>3. taken \subseteq ToSet(q) /\ kept \subseteq ToSet(q)
      BY <2>2, <3>1
    <3>4. ToSet(q) \subseteq taken \cup kept
      BY <2>2, <3>2
    <3>5. QED
      BY <3>3, <3>4
  <2>4. taken \cap kept = {}
    BY <1>2, <2>2, OrderedQueue
  <2>5. taken \subseteq Ids
    BY <1>2, <2>2, QueuePositions
  <2>6. QED
    BY <2>1, <2>3, <2>4, <2>5
<1>6. ASSUME NEW id \in Ids
      PROVE  /\ id \in run => rows'[id] = "Pending"
             /\ id \in taken /\ id \notin run => rows'[id] = "Failed"
             /\ id \notin taken => rows'[id] = rs[id]
  <2>1. rows'[id] = IF id \in run THEN "Pending"
                    ELSE IF id \in taken /\ rs[id] \in Waiting THEN "Failed"
                    ELSE rs[id]
    BY <1>1, <1>4
  <2>2. id \in taken => rs[id] \in Waiting
    BY <1>2, <1>5 DEF Waiting
  <2>3. QED
    BY <1>5, <2>1, <2>2
<1>7. rows' \in [Ids -> RowStates]
  <2>1. ASSUME NEW id \in Ids PROVE rows'[id] \in RowStates
    BY <1>2, <1>6 DEF RowStates, Waiting, Outcomes
  <2>2. rows' = [id \in Ids |-> rows'[id]]
    BY <1>1
  <2>3. QED
    BY <2>1, <2>2
<1>8. clients' = cs \cup run /\ clients' \subseteq Ids
  BY <1>1, <1>2, <1>5
<1>9. Increasing(queue')
  <2>1. DOMAIN queue' = 1..(Len(q) - n)
    BY <1>3, LenProperties
  <2>2. ASSUME NEW i \in 1..(Len(q) - n), NEW j \in 1..(Len(q) - n), i < j
        PROVE  queue'[i] < queue'[j]
    <3>1. n + i \in 1..Len(q) /\ n + j \in 1..Len(q) /\ n + i < n + j
      BY <1>2, <2>2, SMT
    <3>2. q[n + i] < q[n + j]
      BY <1>2, <3>1, OrderedQueue
    <3>3. QED
      BY <1>3, <3>2
  <2>3. QED
    BY <2>1, <2>2 DEF Increasing
<1>10. ASSUME NEW id \in Ids
       PROVE  /\ rows'[id] = "Queued" <=> id \in ToSet(queue')
              /\ rows'[id] \in {"Pending", "Active"} <=> id \in clients'
              /\ rows'[id] = "none" <=> rs[id] = "none"
              /\ rs[id] # "Queued" => rows'[id] = rs[id]
  <2>1. /\ rs[id] = "Queued" <=> id \in taken \cup kept
        /\ rs[id] \in {"Pending", "Active"} <=> id \in cs
    BY <1>2, <1>5
  <2>2. CASE id \in taken
    BY <1>3, <1>5, <1>6, <1>8, <2>1, <2>2
  <2>3. CASE id \notin taken
    BY <1>3, <1>5, <1>6, <1>8, <2>1, <2>3
  <2>4. QED
    BY <2>2, <2>3
<1>11. InOrder(cs)
  <2>1. SUFFICES ASSUME NEW id \in run
                 PROVE  /\ Cardinality(clients') <= maxConcurrent
                        /\ \A other \in kept : id < other
    BY <1>3, <1>8 DEF InOrder
  <2>2. PICK i \in 1..n : q[i] = id
    BY <1>5
  <2>3. n > 0 /\ i \in 1..Len(q)
    BY <1>2, SMT
  <2>4. Cardinality(clients') <= maxConcurrent
    BY <1>1, <1>8, <2>3, SlotForEach
  <2>5. ASSUME NEW j \in (n + 1)..Len(q) PROVE id < q[j]
    <3>1. j \in 1..Len(q) /\ i < j
      BY <1>2, SMT
    <3>2. QED
      BY <1>2, <2>2, <2>3, <3>1, OrderedQueue
  <2>6. QED
    BY <2>4, <2>5
<1>12. QED
  BY <1>3, <1>7, <1>8, <1>9, <1>10, <1>11 DEF Agree

-----------------------------------------------------------------------------
\* The steps

LEMMA Slots == GuiInv => maxConcurrent \in Nat
BY QueueAssumption, SMT DEF GuiInv

(* A step that ends with processQueue() and gives out no id. *)
LEMMA ProcessedStep ==
    ASSUME GuiInv, NEW q, NEW rs, NEW cs, Agree(q, rs, cs), ProcessQueue(q, rs, cs),
           cs \subseteq clients, UNCHANGED <<maxConcurrent, nextId>>,
           \A id \in Ids : \/ rs[id] = rows[id]
                           \/ rows[id] \in Waiting /\ rs[id] \in Outcomes
    PROVE  GuiStep
<1>1. /\ Agree(queue, rows, clients)'
      /\ \A id \in Ids : /\ rows'[id] = "none" <=> rs[id] = "none"
                         /\ rs[id] # "Queued" => rows'[id] = rs[id]
      /\ InOrder(cs)
  BY Slots, QueueProcessed
<1>2. \A id \in Ids : rows[id] = "none" => rs[id] = "none"
  BY DEF Waiting
<1>3. GuiInv'
  BY <1>1, <1>2 DEF GuiInv
<1>4. ASSUME NEW id \in Ids PROVE GoesForward(id)
  <2>1. CASE rs[id] = rows[id]
    BY <1>1, <2>1 DEF GoesForward, Outcomes
  <2>2. CASE rows[id] \in Waiting /\ rs[id] \in Outcomes
    BY <1>1, <2>2 DEF GoesForward, Waiting, Outcomes
  <2>3. QED
    BY <2>1, <2>2
<1>5. QED
  BY <1>1, <1>3, <1>4 DEF GuiStep, InOrder

LEMMA StartStep == GuiInv /\ StartTransfer => GuiStep
<1> SUFFICES ASSUME GuiInv, StartTransfer PROVE GuiStep
  OBVIOUS
<1> DEFINE q  == Append(queue, nextId)
           rs == [rows EXCEPT ![nextId] = "Queued"]
<1>1. /\ nextId <= MaxTransfers /\ nextId' = nextId + 1 /\ maxConcurrent' = maxConcurrent
      /\ ProcessQueue(q, rs, clients)
      /\ nextId \in 1..MaxTransfers + 1
      /\ queue \in Seq(Ids) /\ Increasing(queue)
      /\ rows \in [Ids -> RowStates] /\ clients \subseteq Ids
      /\ MaxTransfers \in Nat
  BY QueueAssumption DEF StartTransfer, GuiInv, Agree
<1>2. nextId \in Ids /\ nextId \in Nat
      /\ nextId' \in 1..MaxTransfers + 1
  BY <1>1, SMT DEF Ids
<1>3. /\ rows[nextId] = "none"
      /\ \A id \in Ids : id >= nextId => rows[id] = "none"
  BY <1>2, SMT DEF GuiInv
<1>4. \A other \in ToSet(queue) : other < nextId
  <2>1. ASSUME NEW other \in ToSet(queue) PROVE other < nextId
    <3>1. other \in Ids /\ rows[other] = "Queued"
      BY <1>1, QueuePositions DEF GuiInv, Agree
    <3>2. ~(other >= nextId) /\ other \in Nat
      BY <1>3, <3>1, IdTypes
    <3>3. QED
      BY <1>2, <3>2, SMT
  <2>2. QED
    BY <2>1
<1>5. q \in Seq(Ids) /\ Increasing(q) /\ ToSet(q) = ToSet(queue) \cup {nextId}
  BY <1>1, <1>2, <1>4, Joined
<1>6. Agree(q, rs, clients)
  <2>1. rs \in [Ids -> RowStates]
    BY <1>1 DEF RowStates, Waiting
  <2>2. ASSUME NEW id \in Ids
        PROVE  /\ rs[id] = "Queued" <=> id \in ToSet(q)
               /\ rs[id] \in {"Pending", "Active"} <=> id \in clients
    <3>1. /\ rows[id] = "Queued" <=> id \in ToSet(queue)
          /\ rows[id] \in {"Pending", "Active"} <=> id \in clients
      BY DEF GuiInv, Agree
    <3>2. CASE id = nextId
      BY <1>1, <1>2, <1>3, <1>5, <3>1, <3>2
    <3>3. CASE id # nextId
      BY <1>1, <1>5, <3>1, <3>3
    <3>4. QED
      BY <3>2, <3>3
  <2>3. QED
    BY <1>1, <1>5, <2>1, <2>2 DEF Agree
<1> HIDE DEF q, rs
<1>7. /\ Agree(queue, rows, clients)'
      /\ \A id \in Ids : /\ rows'[id] = "none" <=> rs[id] = "none"
                         /\ rs[id] # "Queued" => rows'[id] = rs[id]
      /\ InOrder(clients)
  BY <1>1, <1>6, Slots, QueueProcessed
<1>8. ASSUME NEW id \in Ids, id >= nextId' PROVE rows'[id] = "none"
  <2>1. id # nextId /\ id >= nextId
    BY <1>1, <1>2, <1>8, IdTypes, SMT
  <2>2. rs[id] = "none"
    BY <1>1, <1>3, <2>1 DEF rs
  <2>3. QED
    BY <1>7, <2>2
<1>9. GuiInv'
  BY <1>1, <1>2, <1>7, <1>8 DEF GuiInv
<1>10. ASSUME NEW id \in Ids PROVE GoesForward(id)
  <2>1. CASE id = nextId
    BY <1>2, <1>3, <2>1, SMT DEF GoesForward, Outcomes
  <2>2. CASE id # nextId
    <3>1. rs[id] = rows[id]
      BY <1>1, <2>2 DEF rs
    <3>2. QED
      BY <1>7, <3>1 DEF GoesForward, Outcomes
  <2>3. QED
    BY <2>1, <2>2
<1>11. QED
  BY <1>7, <1>9, <1>10 DEF GuiStep

(* The end of a client, by itself or cancelled: its row gets an outcome. *)
LEMMA FinishStep ==
    ASSUME GuiInv, NEW id \in Ids, ClientFinishes(id, TRUE)
                                   \/ ClientFinishes(id, FALSE) \/ CancelRunning(id)
    PROVE  GuiStep
<1>1. /\ id \in clients
      /\ UNCHANGED <<maxConcurrent, nextId>>
      /\ queue \in Seq(Ids) /\ Increasing(queue)
      /\ rows \in [Ids -> RowStates] /\ clients \subseteq Ids
      /\ rows[id] \in {"Pending", "Active"}
  BY DEF ClientFinishes, CancelRunning, GuiInv, Agree
<1>2. PICK outcome \in Outcomes :
        ProcessQueue(queue, [rows EXCEPT ![id] = outcome], clients \ {id})
  <2>1. CASE CancelRunning(id)
    <3>1. SetFinished([rows EXCEPT ![id] = "Cancelled"], id, FALSE) =
            [rows EXCEPT ![id] = "Cancelled"]
      BY <1>1 DEF SetFinished
    <3>2. QED
      BY <2>1, <3>1 DEF CancelRunning, HandlesFinished, Outcomes
  <2>2. ASSUME NEW ok \in BOOLEAN, ClientFinishes(id, ok)
        PROVE  \E outcome \in Outcomes :
                ProcessQueue(queue, [rows EXCEPT ![id] = outcome], clients \ {id})
    <3>1. SetFinished(rows, id, ok) =
            [rows EXCEPT ![id] = IF ok THEN "Completed" ELSE "Failed"]
      BY <1>1 DEF SetFinished
    <3>2. (IF ok THEN "Completed" ELSE "Failed") \in Outcomes
      BY DEF Outcomes
    <3>3. QED
      BY <2>2, <3>1, <3>2 DEF ClientFinishes, HandlesFinished
  <2>3. QED
    BY <2>1, <2>2
<1> DEFINE rs == [rows EXCEPT ![id] = outcome]
           cs == clients \ {id}
<1>3. outcome \notin Waiting /\ outcome # "none" /\ outcome \in RowStates
  BY <1>2 DEF Outcomes, Waiting, RowStates
<1>4. Agree(queue, rs, cs)
  <2>1. rs \in [Ids -> RowStates] /\ cs \subseteq Ids
    BY <1>1, <1>3
  <2>2. ASSUME NEW other \in Ids
        PROVE  /\ rs[other] = "Queued" <=> other \in ToSet(queue)
               /\ rs[other] \in {"Pending", "Active"} <=> other \in cs
    <3>1. /\ rows[other] = "Queued" <=> other \in ToSet(queue)
          /\ rows[other] \in {"Pending", "Active"} <=> other \in clients
      BY DEF GuiInv, Agree
    <3>2. CASE other = id
      BY <1>1, <1>3, <3>1, <3>2 DEF Waiting
    <3>3. CASE other # id
      BY <1>1, <3>1, <3>3
    <3>4. QED
      BY <3>2, <3>3
  <2>3. QED
    BY <1>1, <2>1, <2>2 DEF Agree
<1>5. \A other \in Ids : \/ rs[other] = rows[other]
                         \/ rows[other] \in Waiting /\ rs[other] \in Outcomes
  BY <1>1, <1>2 DEF Waiting
<1> HIDE DEF rs
<1>6. QED
  BY <1>1, <1>2, <1>4, <1>5, ProcessedStep DEF rs

LEMMA CancelStep ==
    ASSUME GuiInv, NEW id \in Ids, CancelQueued(id)
    PROVE  GuiStep
<1>1. /\ id \notin clients /\ rows[id] # "none"
      /\ UNCHANGED <<maxConcurrent, nextId>>
      /\ queue \in Seq(Ids) /\ Increasing(queue)
      /\ rows \in [Ids -> RowStates] /\ clients \subseteq Ids
  BY DEF CancelQueued, GuiInv, Agree
<1> DEFINE rs == [rows EXCEPT ![id] = "Cancelled"]
<1>2. PICK i \in 1..Len(queue) : /\ queue[i] = id
                                 /\ ProcessQueue(RemoveAt(queue, i), rs, clients)
  BY <1>1, QueuePositions DEF CancelQueued
<1> DEFINE q == RemoveAt(queue, i)
<1>3. q \in Seq(Ids) /\ Increasing(q) /\ ToSet(q) = ToSet(queue) \ {id}
  BY <1>1, <1>2, Removed
<1>4. Agree(q, rs, clients)
  <2>1. rs \in [Ids -> RowStates]
    BY <1>1 DEF RowStates, Outcomes
  <2>2. ASSUME NEW other \in Ids
        PROVE  /\ rs[other] = "Queued" <=> other \in ToSet(q)
               /\ rs[other] \in {"Pending", "Active"} <=> other \in clients
    <3>1. /\ rows[other] = "Queued" <=> other \in ToSet(queue)
          /\ rows[other] \in {"Pending", "Active"} <=> other \in clients
      BY DEF GuiInv, Agree
    <3>2. CASE other = id
      BY <1>1, <1>3, <3>1, <3>2
    <3>3. CASE other # id
      BY <1>1, <1>3, <3>1, <3>3
    <3>4. QED
      BY <3>2, <3>3
  <2>3. QED
    BY <1>1, <1>3, <2>1, <2>2 DEF Agree
<1>5. rows[id] = "Queued"
  BY <1>1, <1>2, QueuePositions DEF GuiInv, Agree
<1>6. \A other \in Ids : \/ rs[other] = rows[other]
                         \/ rows[other] \in Waiting /\ rs[other] \in Outcomes
  BY <1>1, <1>5 DEF Waiting, Outcomes
<1> HIDE DEF rs, q
<1>7. QED
  BY <1>1, <1>2, <1>4, <1>6, ProcessedStep DEF q

(* Steps that leave the queue and the clients alone. *)
LEMMA QuietStep ==
    ASSUME GuiInv, UNCHANGED <<nextId, queue, clients>>, maxConcurrent' \in 1..MaxSlots,
           rows' \in [Ids -> RowStates],
           \A id \in Ids :
            /\ rows'[id] = "Queued" <=> rows[id] = "Queued"
            /\ rows'[id] \in {"Pending", "Active"} <=> rows[id] \in {"Pending", "Active"}
            /\ rows[id] = "none" => rows'[id] = "none"
            /\ GoesForward(id)
    PROVE  GuiStep
<1>1. Agree(queue, rows, clients)'
  BY DEF GuiInv, Agree
<1>2. QED
  BY <1>1 DEF GuiInv, GuiStep, InOrder

LEMMA ProgressStep ==
    ASSUME GuiInv, NEW id \in Ids, Progress(id)
    PROVE  GuiStep
<1>1. rows \in [Ids -> RowStates] /\ maxConcurrent \in 1..MaxSlots
  BY DEF GuiInv, Agree
<1>2. rows' = [rows EXCEPT ![id] = "Active"] /\ rows[id] = "Pending"
      /\ UNCHANGED <<maxConcurrent, nextId, queue, clients>>
  BY DEF Progress
<1>3. rows' \in [Ids -> RowStates]
  BY <1>1, <1>2 DEF RowStates, Waiting
<1>4. \A other \in Ids : GoesForward(other)
  BY <1>1, <1>2 DEF GoesForward, Outcomes
<1>5. QED
  BY <1>1, <1>2, <1>3, <1>4, QuietStep

LEMMA ClearStep == GuiInv /\ ClearCompleted => GuiStep
<1> SUFFICES ASSUME GuiInv, ClearCompleted PROVE GuiStep
  OBVIOUS
<1>1. rows \in [Ids -> RowStates] /\ maxConcurrent \in 1..MaxSlots
  BY DEF GuiInv, Agree
<1>2. rows' = [id \in Ids |-> IF rows[id] \in Waiting THEN rows[id] ELSE "none"]
      /\ UNCHANGED <<maxConcurrent, nextId, queue, clients>>
  BY DEF ClearCompleted
<1>3. rows' \in [Ids -> RowStates]
  BY <1>1, <1>2 DEF RowStates
<1>4. \A id \in Ids : GoesForward(id)
  BY <1>2 DEF GoesForward, Waiting, Outcomes
<1>5. QED
  BY <1>1, <1>2, <1>3, <1>4, QuietStep DEF Waiting

LEMMA ConfigStep ==
    ASSUME GuiInv, NEW n \in 1..MaxSlots, ApplyServerConfig(n)
    PROVE  GuiStep
BY QuietStep DEF ApplyServerConfig, GuiInv, Agree, GoesForward, Outcomes

LEMMA GuiUnchanged ==
    ASSUME GuiInv, UNCHANGED queueVars
    PROVE  GuiStep
BY QuietStep DEF queueVars, GuiInv, Agree, GoesForward, Outcomes

LEMMA CliStep ==
    ASSUME CliTypeOK,
           \/ UsageError \/ RunTransfer \/ RunTransferFails
           \/ CommandEnds
           \/ UNCHANGED cliVars
    PROVE  CliTypeOK'
<1>1. {0, 1, 2} \subseteq 0..2
  BY SMT
<1>2. ASSUME NEW ok \in BOOLEAN, TransferFinished(ok)
      PROVE  CliTypeOK'
  BY <1>1, <1>2 DEF CliTypeOK, TransferFinished
<1>3. CASE UsageError \/ RunTransfer \/ RunTransferFails
  BY <1>1, <1>3 DEF CliTypeOK, UsageError, RunTransfer, RunTransferFails
<1>4. CASE UNCHANGED cliVars
  BY <1>4 DEF CliTypeOK, cliVars
<1>5. QED
  BY <1>2, <1>3, <1>4 DEF CommandEnds

(* Every step keeps the invariant and starts transfers in their order. *)
LEMMA ApplicationStep ==
    ApplicationInv /\ [Next]_vars =>
        ApplicationInv' /\ InOrder(clients) /\ \A id \in Ids : GoesForward(id)
<1> SUFFICES ASSUME ApplicationInv, [Next]_vars
             PROVE  GuiStep /\ CliTypeOK' /\ frontEnd' \in {"gui", "cli"}
  BY DEF ApplicationInv, GuiStep
<1>1. GuiInv /\ CliTypeOK /\ frontEnd \in {"gui", "cli"}
  BY DEF ApplicationInv
<1>2. CASE UNCHANGED vars
  BY <1>1, <1>2, GuiUnchanged, CliStep DEF vars
<1>3. CASE Gui(UserActs)
  <2>1. UserActs /\ UNCHANGED <<cliVars, frontEnd>>
    BY <1>3 DEF Gui
  <2>2. QED
    BY <1>1, <2>1, StartStep, FinishStep, CancelStep, ClearStep, ConfigStep, CliStep
    DEF UserActs
<1>4. ASSUME NEW id \in Ids, Gui(Progress(id)) \/ Gui(ClientEnds(id))
      PROVE  GuiStep /\ CliTypeOK' /\ frontEnd' \in {"gui", "cli"}
  <2>1. Progress(id) \/ ClientEnds(id)
    BY <1>4 DEF Gui
  <2>2. UNCHANGED <<cliVars, frontEnd>>
    BY <1>4 DEF Gui
  <2>3. GuiStep
    BY <1>1, <2>1, ProgressStep, FinishStep DEF ClientEnds
  <2>4. QED
    BY <1>1, <2>2, <2>3, CliStep
<1>5. CASE Cli(UsageError \/ RunTransfer \/ RunTransferFails) \/ Cli(CommandEnds)
  <2>1. UNCHANGED <<queueVars, frontEnd>>
        /\ (UsageError \/ RunTransfer \/ RunTransferFails \/ CommandEnds)
    BY <1>5 DEF Cli
  <2>2. QED
    BY <1>1, <2>1, GuiUnchanged, CliStep
<1>6. QED
  BY <1>2, <1>3, <1>4, <1>5 DEF Next

-----------------------------------------------------------------------------
\* The theorems

LEMMA ApplicationInitially == Init => ApplicationInv
<1> SUFFICES ASSUME Init PROVE ApplicationInv
  OBVIOUS
<1>1. /\ maxConcurrent \in 1..MaxSlots /\ nextId = 1 /\ queue = <<>>
      /\ rows = [id \in Ids |-> "none"] /\ clients = {}
      /\ command = "parsing" /\ exitCode = 0 /\ running = FALSE
      /\ frontEnd \in {"gui", "cli"}
  BY DEF Init, QueueInit, CliInit
<1>2. nextId \in 1..MaxTransfers + 1
  BY <1>1, QueueAssumption, SMT
<1>3. queue \in Seq(Ids) /\ DOMAIN queue = {} /\ ToSet(queue) = {}
  BY <1>1, EmptySeq DEF ToSet
<1>4. Agree(queue, rows, clients)
  BY <1>1, <1>3 DEF Agree, Increasing, RowStates
<1>5. CliTypeOK
  <2>1. 0 \in 0..2
    BY SMT
  <2>2. QED
    BY <1>1, <2>1 DEF CliTypeOK
<1>6. QED
  BY <1>1, <1>2, <1>4, <1>5 DEF ApplicationInv, GuiInv

(* All of the invariant holds in every state. *)
THEOREM ApplicationInductive == Spec => []ApplicationInv
<1>1. ApplicationInv /\ [Next]_vars => ApplicationInv'
  BY ApplicationStep
<1>2. QED
  BY ApplicationInitially, <1>1, PTL DEF Spec

(* Type correctness of both front ends. *)
THEOREM ApplicationTypeCorrect == Spec => []TypeOK
<1>1. ApplicationInv => TypeOK
  BY DEF ApplicationInv, GuiInv, Agree, RowStates, TypeOK, QueueTypeOK
<1>2. QED
  BY <1>1, ApplicationInductive, PTL

(* The table, the queue and the clients agree: a transfer that waits in the
   queue is there once and shown as queued, and one that is shown as running has
   a client, whatever has been cancelled, failed at once or been cleared. *)
THEOREM TableIsTrue == Spec => []RowsTellTheTruth
<1>1. ApplicationInv => RowsTellTheTruth
  <2> SUFFICES ASSUME ApplicationInv PROVE IsInjective(queue)
    BY DEF ApplicationInv, GuiInv, Agree, RowsTellTheTruth
  <2>1. queue \in Seq(Ids) /\ Increasing(queue)
    BY DEF ApplicationInv, GuiInv, Agree
  <2>2. QED
    BY <2>1, QueuePositions, OrderedQueue DEF IsInjective
<1>2. QED
  BY <1>1, ApplicationInductive, PTL

(* A client is started only for a free slot and never before an older transfer
   that still waits, also when several that fail at once are passed over. *)
THEOREM TransfersStartInOrder == Spec => StartsInOrder
<1>1. ApplicationInv /\ [Next]_vars => InOrder(clients)
  BY ApplicationStep
<1>2. InOrder(clients) => \A id \in clients' \ clients :
            /\ Cardinality(clients') <= maxConcurrent
            /\ \A other \in ToSet(queue') : id < other
  BY DEF InOrder
<1>3. QED
  BY <1>1, <1>2, ApplicationInductive, PTL DEF Spec, StartsInOrder

(* An outcome is final. No step revives a transfer that has ended, or turns one
   outcome into another, however late its client's last signal arrives; a row is
   removed only when it has an outcome, and then its id is never used again. *)
THEOREM RowsGoForward == Spec => [][\A id \in Ids : GoesForward(id)]_vars
<1>1. ApplicationInv /\ [Next]_vars => \A id \in Ids : GoesForward(id)
  BY ApplicationStep
<1>2. QED
  BY <1>1, ApplicationInductive, PTL DEF Spec
=============================================================================
