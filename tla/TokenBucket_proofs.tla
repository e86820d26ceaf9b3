------------------------- MODULE TokenBucket_proofs -------------------------
(***************************************************************************)
(* All buckets keep their limits, for every limit, packet size and number  *)
(* of sessions: those of sessions and of client addresses, and the one     *)
(* that all sessions share.                                                *)
(***************************************************************************)
EXTENDS TokenBucket, FiniteSetTheorems, TLAPS

\* What a bucket has let through it has charged before, but for the packet that
\* waits; and that one waits until the debt is paid.
SessionInv(s) ==
    /\ allowance[s] >= tokens[s] + pending[s]
    /\ pending[s] # 0 => started[s] /\ tokens[s] + Rate(s) * wait[s] >= 0
    /\ Respected(s)

AddressInv(a) ==
    /\ allowance[a] >= tokens[a]
    /\ Respected(a)

\* What waits to be sent, unit by unit, so that what the sessions owe to the
\* common bucket together is the size of a set
Units         == Sessions \X (1..Bytes(BlockSize))
Owed          == {u \in Units : u[2] <= pending[u[1]]}
OwedWithin(w) == {u \in Owed : wait[u[1]] <= w}

\* At any time to come the bucket may let through all that will have been sent
\* by then, whichever sessions wait, and for how long.
GlobalInv ==
    /\ allowance[Global] >= tokens[Global] + Cardinality(Owed)
    /\ \A w \in Nat :
        allowance[Global] + Rate(Global) * w >= Cardinality(OwedWithin(w))

BucketInv ==
    /\ TypeOK
    /\ GlobalInv
    /\ \A s \in Sessions : SessionInv(s)
    /\ \A a \in Addresses : AddressInv(a)

-----------------------------------------------------------------------------
\* Arithmetic

LEMMA Product == \A m, n \in Nat : m * n \in Nat
BY SMT

LEMMA LongerWait ==
    ASSUME NEW r \in Nat, NEW d \in Nat, NEW w \in Nat, d <= w
    PROVE  r * d <= r * w
<1>1. r * w = r * d + r * (w - d)
  BY SMT
<1>2. w - d \in Nat
  BY SMT
<1>3. r * (w - d) \in Nat /\ r * d \in Nat
  BY <1>2, Product
<1>4. QED
  BY <1>1, <1>3, SMT

LEMMA ShorterWait ==
    ASSUME NEW r \in Nat, NEW w \in Nat, w > 0
    PROVE  r * w = r + r * (w - 1)
BY SMT

(* Amounts are natural numbers, and a bucket has room for its first filling. *)
LEMMA BucketTypes ==
    /\ \A n \in Nat : Bytes(n) \in Nat
    /\ Sizes \subseteq Nat
    /\ 0 \notin Sizes
    /\ \A b \in Buckets : /\ Rate(b) \in Nat \ {0}
                          /\ Initial(b) \in Nat
                          /\ Full(b) \in Nat
                          /\ Initial(b) <= Full(b)
    /\ \A s \in Sessions : Burst(s) \in Nat /\ Full(s) + Bytes(BlockSize) = Burst(s)
    /\ \A a \in Addresses : Burst(a) = Full(a)
<1>1. /\ TicksPerSecond \in Nat /\ TicksPerSecond # 0
      /\ SessionLimit \in Nat \ {0} /\ GlobalLimit \in Nat \ {0}
      /\ RequestLimit \in Nat \ {0}
      /\ BlockSize \in Nat /\ GlobalBurst \in Nat
      /\ Global \notin Sessions /\ Global \notin Addresses
      /\ Sessions \cap Addresses = {}
  BY BucketAssumption
<1>2. \A n \in Nat : Bytes(n) \in Nat
  BY <1>1, Product DEF Bytes
<1>3. \A n \in Nat : n # 0 => Bytes(n) # 0
  BY <1>1, SMT DEF Bytes
<1>4. Sizes \subseteq Nat /\ 0 \notin Sizes
  <2>1. \A n \in 1..BlockSize : n \in Nat /\ n # 0
    BY <1>1, SMT
  <2>2. QED
    BY <1>2, <1>3, <2>1 DEF Sizes
<1>5. \A b \in Buckets : Rate(b) \in Nat \ {0}
  BY <1>1 DEF Rate
<1>6. 2 * BlockSize \in Nat /\ 5 \in Nat
  BY <1>1, SMT
<1>7. ASSUME NEW b \in Buckets
      PROVE  Initial(b) \in Nat /\ Full(b) \in Nat /\ Initial(b) <= Full(b)
  <2>1. Bytes(Rate(b)) \in Nat /\ Bytes(5) \in Nat
        /\ Bytes(2 * BlockSize) \in Nat /\ Bytes(GlobalBurst) \in Nat
    BY <1>1, <1>2, <1>5, <1>6
  <2>2. CASE b \in Addresses
    <3>1. Initial(b) = Bytes(5) /\ Full(b) = Bytes(5)
      BY <1>1, <2>2 DEF Initial, Full
    <3>2. QED
      BY <2>1, <3>1, SMT
  <2>3. CASE b \notin Addresses
    <3>1. Initial(b) = Bytes(Rate(b))
      BY <2>3 DEF Initial
    <3>2. \/ Full(b) = Larger(Bytes(2 * BlockSize), Initial(b))
          \/ Full(b) = Larger(Bytes(GlobalBurst), Initial(b))
      BY <2>3 DEF Full, Buckets
    <3>3. QED
      BY <2>1, <3>1, <3>2, SMT DEF Larger
  <2>4. QED
    BY <2>2, <2>3
<1>8. ASSUME NEW s \in Sessions
      PROVE  Burst(s) \in Nat /\ Full(s) + Bytes(BlockSize) = Burst(s)
  <2>1. Full(s) \in Nat /\ Bytes(BlockSize) \in Nat
    BY <1>1, <1>2, <1>7 DEF Buckets
  <2>2. Burst(s) = Full(s) + Bytes(BlockSize)
    BY DEF Burst
  <2>3. QED
    BY <2>1, <2>2, SMT
<1>9. \A a \in Addresses : Burst(a) = Full(a)
  BY <1>1 DEF Burst
<1>10. QED
  BY <1>2, <1>4, <1>5, <1>7, <1>8, <1>9

(* No packet is larger than a block. *)
LEMMA SizeBound == \A size \in Sizes : size <= Bytes(BlockSize)
<1>1. SUFFICES ASSUME NEW n \in 1..BlockSize PROVE Bytes(n) <= Bytes(BlockSize)
  BY DEF Sizes
<1>2. n \in Nat /\ BlockSize \in Nat /\ TicksPerSecond \in Nat /\ n <= BlockSize
  BY BucketAssumption, SMT
<1>3. TicksPerSecond * n <= TicksPerSecond * BlockSize
  BY <1>2, LongerWait
<1>4. TicksPerSecond * n = n * TicksPerSecond
      /\ TicksPerSecond * BlockSize = BlockSize * TicksPerSecond
  BY <1>2, SMT
<1>5. QED
  BY <1>3, <1>4 DEF Bytes

-----------------------------------------------------------------------------
\* Types

(* What the type invariant says of a session, and of an address. *)
LEMMA SessionTypes ==
    ASSUME TypeOK, NEW s \in Sessions
    PROVE  /\ s \in Buckets /\ s # Global
           /\ tokens[s] \in Int /\ allowance[s] \in Int /\ started[s] \in BOOLEAN
           /\ tokens[s] <= Full(s)
           /\ wait[s] \in Nat
           /\ pending[s] \in Nat /\ pending[s] <= Bytes(BlockSize)
<1>1. s \in Buckets /\ s # Global
  BY BucketAssumption DEF Buckets
<1>2. pending[s] \in Sizes \cup {0}
  BY DEF TypeOK
<1>3. BlockSize \in Nat /\ Bytes(BlockSize) \in Nat
  BY BucketAssumption, BucketTypes
<1>4. pending[s] \in Nat /\ pending[s] <= Bytes(BlockSize)
  <2>1. CASE pending[s] \in Sizes
    <3>1. pending[s] \in Nat
      BY <2>1, BucketTypes
    <3>2. pending[s] <= Bytes(BlockSize)
      BY <2>1, SizeBound
    <3>3. QED
      BY <3>1, <3>2
  <2>2. CASE pending[s] = 0
    BY <1>3, <2>2, SMT
  <2>3. QED
    BY <1>2, <2>1, <2>2
<1>5. QED
  BY <1>1, <1>4 DEF TypeOK

LEMMA AddressTypes ==
    ASSUME TypeOK, NEW a \in Addresses
    PROVE  /\ a \in Buckets /\ a # Global /\ a \notin Sessions
           /\ tokens[a] \in Int /\ allowance[a] \in Int
           /\ tokens[a] <= Full(a)
BY BucketAssumption DEF Buckets, TypeOK

(* Every step keeps the types. *)
LEMMA TickTypes == TypeOK /\ Tick => TypeOK'
<1> SUFFICES ASSUME TypeOK, Tick PROVE TypeOK'
  OBVIOUS
<1>1. ASSUME NEW b \in Buckets
      PROVE  /\ tokens'[b] \in Int /\ tokens'[b] <= Full(b)
             /\ allowance'[b] \in Int
  <2>1. /\ tokens[b] \in Int /\ tokens[b] <= Full(b) /\ allowance[b] \in Int
        /\ Rate(b) \in Int /\ Full(b) \in Int
    BY BucketTypes, SMT DEF TypeOK
  <2>2. Burst(b) \in Int
    <3>1. Cardinality(Sessions) \in Nat
      BY BucketAssumption, FS_CardinalityType
    <3>2. Bytes(BlockSize) \in Nat
      BY BucketAssumption, BucketTypes
    <3>3. Cardinality(Sessions) * Bytes(BlockSize) \in Nat
      BY <3>1, <3>2, Product
    <3>4. QED
      BY <2>1, <3>2, <3>3, SMT DEF Burst
  <2>3. /\ tokens'[b] = IF started[b] THEN Refilled(b) ELSE tokens[b]
        /\ allowance'[b] = Smaller(allowance[b] + Rate(b), Burst(b))
    BY DEF Tick
  <2>4. QED
    BY <2>1, <2>2, <2>3, SMT DEF Refilled, Smaller
<1>2. ASSUME NEW s \in Sessions PROVE wait'[s] \in Nat
  <2>1. wait[s] \in Nat
    BY DEF TypeOK
  <2>2. wait'[s] = IF wait[s] > 0 THEN wait[s] - 1 ELSE 0
    BY DEF Tick
  <2>3. QED
    BY <2>1, <2>2, SMT
<1>3. tokens' \in [Buckets -> Int] /\ allowance' \in [Buckets -> Int]
  <2>1. /\ tokens' = [b \in Buckets |-> tokens'[b]]
        /\ allowance' = [b \in Buckets |-> allowance'[b]]
    BY DEF Tick
  <2>2. QED
    BY <1>1, <2>1
<1>4. wait' \in [Sessions -> Nat]
  <2>1. wait' = [s \in Sessions |-> wait'[s]]
    BY DEF Tick
  <2>2. QED
    BY <1>2, <2>1
<1>5. UNCHANGED <<started, pending>>
  BY DEF Tick
<1>6. QED
  BY <1>1, <1>3, <1>4, <1>5 DEF TypeOK
(* Changing some buckets by amounts within their types keeps the types. *)
LEMMA PacketTypes ==
    ASSUME TypeOK, NEW s \in Sessions, NEW size \in Sizes, SendPacket(s, size)
    PROVE  TypeOK'
<1>1. size \in Nat /\ MaxDebt \in Nat
  BY BucketTypes, BucketAssumption
<1>2. PICK d \in 0..(MaxDebt + 1), e \in 0..(MaxDebt + 1) :
        IF Larger(d, e) = 0
        THEN /\ allowance' = [b \in Buckets |->
                     IF b \in {s, Global} THEN allowance[b] - size ELSE allowance[b]]
             /\ UNCHANGED <<wait, pending>>
        ELSE /\ wait' = [wait EXCEPT ![s] = Larger(d, e)]
             /\ pending' = [pending EXCEPT ![s] = size]
             /\ UNCHANGED allowance
  BY DEF SendPacket
<1>3. Larger(d, e) \in Nat
  BY <1>1, SMT DEF Larger
<1>4. tokens' = [b \in Buckets |-> IF b \in {s, Global} THEN tokens[b] - size ELSE tokens[b]]
      /\ started' = [b \in Buckets |-> started[b] \/ b \in {s, Global}]
  BY DEF SendPacket
<1>5. ASSUME NEW b \in Buckets
      PROVE  tokens'[b] \in Int /\ tokens'[b] <= Full(b) /\ started'[b] \in BOOLEAN
  <2>1. tokens[b] \in Int /\ tokens[b] <= Full(b) /\ Full(b) \in Int
    BY BucketTypes, SMT DEF TypeOK
  <2>2. tokens'[b] = IF b \in {s, Global} THEN tokens[b] - size ELSE tokens[b]
    BY <1>4
  <2>3. tokens'[b] \in Int /\ tokens'[b] <= Full(b)
    BY <1>1, <2>1, <2>2, SMT
  <2>4. QED
    BY <1>4, <2>3 DEF TypeOK
<1>6. allowance' \in [Buckets -> Int]
  <2>1. CASE Larger(d, e) = 0
    <3>1. allowance' = [b \in Buckets |->
               IF b \in {s, Global} THEN allowance[b] - size ELSE allowance[b]]
      BY <1>2, <2>1
    <3>2. \A b \in Buckets : allowance[b] \in Int /\ allowance[b] - size \in Int
      BY <1>1, SMT DEF TypeOK
    <3>3. QED
      BY <3>1, <3>2
  <2>2. CASE Larger(d, e) # 0
    BY <1>2, <2>2 DEF TypeOK
  <2>3. QED
    BY <2>1, <2>2
<1>7. wait' \in [Sessions -> Nat] /\ pending' \in [Sessions -> Sizes \cup {0}]
  BY <1>2, <1>3 DEF TypeOK
<1>8. tokens' \in [Buckets -> Int] /\ started' \in [Buckets -> BOOLEAN]
  BY <1>4, <1>5
<1>9. QED
  BY <1>5, <1>6, <1>7, <1>8 DEF TypeOK

LEMMA TimeoutTypes ==
    ASSUME TypeOK, NEW s \in Sessions, SendTimeout(s)
    PROVE  TypeOK'
<1>1. pending[s] \in Nat
  BY SessionTypes
<1>2. \A b \in Buckets : allowance[b] \in Int /\ allowance[b] - pending[s] \in Int
  BY <1>1, SMT DEF TypeOK
<1>3. allowance' \in [Buckets -> Int]
  BY <1>2 DEF SendTimeout
<1>4. pending' \in [Sessions -> Sizes \cup {0}]
  BY DEF SendTimeout, TypeOK
<1>5. QED
  BY <1>3, <1>4 DEF TypeOK, SendTimeout

LEMMA EndTypes ==
    ASSUME TypeOK, NEW s \in Sessions, SessionEnds(s)
    PROVE  TypeOK'
<1>1. s \in Buckets
  BY DEF Buckets
<1>2. Initial(s) \in Int /\ Initial(s) <= Full(s) /\ Burst(s) \in Int
  BY <1>1, BucketTypes, SMT
<1>3. tokens' \in [Buckets -> Int] /\ allowance' \in [Buckets -> Int]
      /\ started' \in [Buckets -> BOOLEAN]
  BY <1>2 DEF SessionEnds, TypeOK
<1>4. \A b \in Buckets : tokens'[b] <= Full(b)
  BY <1>2 DEF SessionEnds, TypeOK
<1>5. wait' \in [Sessions -> Nat] /\ pending' \in [Sessions -> Sizes \cup {0}]
  BY DEF SessionEnds, TypeOK
<1>6. QED
  BY <1>3, <1>4, <1>5 DEF TypeOK

LEMMA ListenTypes == TypeOK /\ Listen => TypeOK'
<1> SUFFICES ASSUME TypeOK, Listen PROVE TypeOK'
  OBVIOUS
<1>1. Global \in Buckets
  BY DEF Buckets
<1>2. Initial(Global) \in Int /\ Initial(Global) <= Full(Global) /\ Full(Global) \in Nat
  BY <1>1, BucketTypes, SMT
<1>3. Burst(Global) \in Int
  <2>1. Cardinality(Sessions) \in Nat /\ Bytes(BlockSize) \in Nat
    BY BucketAssumption, FS_CardinalityType, BucketTypes
  <2>2. Cardinality(Sessions) * Bytes(BlockSize) \in Nat
    BY <2>1, Product
  <2>3. Burst(Global) = Full(Global) + Cardinality(Sessions) * Bytes(BlockSize)
    BY BucketAssumption DEF Burst
  <2>4. QED
    BY <1>2, <2>2, <2>3, SMT
<1>4. QED
  BY <1>2, <1>3 DEF Listen, TypeOK

LEMMA AdmitTypes ==
    ASSUME TypeOK, NEW a \in Addresses, AdmitRequest(a)
    PROVE  TypeOK'
<1>1. a \in Buckets /\ tokens[a] \in Int /\ allowance[a] \in Int /\ tokens[a] <= Full(a)
  BY AddressTypes
<1>2. Bytes(1) \in Nat /\ Full(a) \in Nat
  BY <1>1, BucketTypes
<1>3. tokens[a] - Bytes(1) \in Int /\ tokens[a] - Bytes(1) <= Full(a)
      /\ allowance[a] - Bytes(1) \in Int
  BY <1>1, <1>2, SMT
<1>4. QED
  BY <1>3 DEF AdmitRequest, TypeOK
LEMMA NextTypes == TypeOK /\ [Next]_vars => TypeOK'
<1> SUFFICES ASSUME TypeOK, [Next]_vars PROVE TypeOK'
  OBVIOUS
<1>1. CASE UNCHANGED vars
  BY <1>1 DEF vars, TypeOK
<1>2. CASE Next
  BY <1>2, TickTypes, PacketTypes, TimeoutTypes, EndTypes, ListenTypes, AdmitTypes
  DEF Next
<1>3. QED
  BY <1>1, <1>2

-----------------------------------------------------------------------------
\* Sessions

(* A tick: what is let through and what is owed grow alike. *)
LEMMA TickSession ==
    ASSUME TypeOK, Tick, NEW s \in Sessions, SessionInv(s)
    PROVE  SessionInv(s)'
<1>1. /\ s \in Buckets /\ tokens[s] \in Int /\ allowance[s] \in Int
      /\ tokens[s] <= Full(s) /\ wait[s] \in Nat
      /\ pending[s] \in Nat /\ pending[s] <= Bytes(BlockSize)
  BY SessionTypes
<1>2. /\ Rate(s) \in Nat /\ Full(s) \in Nat /\ Burst(s) \in Nat
      /\ Bytes(BlockSize) \in Nat /\ Full(s) + Bytes(BlockSize) = Burst(s)
  BY <1>1, BucketTypes, BucketAssumption
<1>3. /\ allowance[s] >= tokens[s] + pending[s]
      /\ allowance[s] >= 0
      /\ pending[s] # 0 => started[s] /\ tokens[s] + Rate(s) * wait[s] >= 0
  BY DEF SessionInv, Respected
<1>4. /\ tokens'[s] = IF started[s] THEN Smaller(tokens[s] + Rate(s), Full(s)) ELSE tokens[s]
      /\ allowance'[s] = Smaller(allowance[s] + Rate(s), Burst(s))
      /\ wait'[s] = IF wait[s] > 0 THEN wait[s] - 1 ELSE 0
      /\ pending'[s] = pending[s] /\ started'[s] = started[s]
  BY <1>1 DEF Tick, Refilled
<1>5. allowance'[s] >= tokens'[s] + pending'[s]
  BY <1>1, <1>2, <1>3, <1>4, SMT DEF Smaller
<1>6. allowance'[s] >= 0
  BY <1>1, <1>2, <1>3, <1>4, SMT DEF Smaller
<1>7. ASSUME pending[s] # 0
      PROVE  tokens'[s] + Rate(s) * wait'[s] >= 0
  <2>1. started[s] /\ tokens[s] + Rate(s) * wait[s] >= 0
    BY <1>3, <1>7
  <2>2. tokens'[s] = Smaller(tokens[s] + Rate(s), Full(s))
    BY <1>4, <2>1
  <2>3. CASE wait[s] > 0
    <3>1. wait'[s] = wait[s] - 1 /\ wait'[s] \in Nat
      BY <1>1, <1>4, <2>3, SMT
    <3>2. Rate(s) * wait[s] = Rate(s) + Rate(s) * wait'[s]
      BY <1>1, <1>2, <2>3, <3>1, ShorterWait
    <3>3. Rate(s) * wait'[s] \in Nat /\ Rate(s) * wait[s] \in Nat
      BY <1>1, <1>2, <3>1, Product
    <3>4. QED
      BY <1>1, <1>2, <2>1, <2>2, <3>2, <3>3, SMT DEF Smaller
  <2>4. CASE wait[s] = 0
    <3>1. wait'[s] = 0
      BY <1>4, <2>4, SMT
    <3>2. Rate(s) * wait[s] = 0 /\ Rate(s) * wait'[s] = 0
      BY <1>2, <2>4, <3>1, SMT
    <3>3. QED
      BY <1>1, <1>2, <2>1, <2>2, <3>2, SMT DEF Smaller
  <2>5. QED
    BY <1>1, <2>3, <2>4, SMT
<1>8. QED
  BY <1>3, <1>4, <1>5, <1>6, <1>7 DEF SessionInv, Respected, Rate

(* A packet of the session itself: it goes at once only if it is paid for, and
   waits until it is. *)
LEMMA PacketSession ==
    ASSUME TypeOK, NEW s \in Sessions, NEW size \in Sizes, SendPacket(s, size),
           SessionInv(s)
    PROVE  SessionInv(s)'
<1>1. /\ s \in Buckets /\ s # Global /\ tokens[s] \in Int /\ allowance[s] \in Int
      /\ pending[s] \in Nat /\ wait[s] \in Nat
      /\ size \in Nat /\ MaxDebt \in Nat /\ Rate(s) \in Nat
  BY SessionTypes, BucketTypes, BucketAssumption
<1>2. /\ allowance[s] >= tokens[s] + pending[s]
      /\ allowance[s] >= 0
  BY DEF SessionInv, Respected
<1>3. PICK d \in 0..(MaxDebt + 1), e \in 0..(MaxDebt + 1) :
        /\ IsDelay(s, size, d)
        /\ IF Larger(d, e) = 0
           THEN /\ allowance' = [b \in Buckets |->
                        IF b \in {s, Global} THEN allowance[b] - size ELSE allowance[b]]
                /\ UNCHANGED <<wait, pending>>
           ELSE /\ wait' = [wait EXCEPT ![s] = Larger(d, e)]
                /\ pending' = [pending EXCEPT ![s] = size]
                /\ UNCHANGED allowance
  BY DEF SendPacket
<1>4. /\ d \in Nat /\ e \in Nat /\ Larger(d, e) \in Nat /\ d <= Larger(d, e)
      /\ Larger(d, e) = 0 => d = 0
  BY <1>1, SMT DEF Larger
<1>5. tokens'[s] = tokens[s] - size /\ started'[s]
  BY <1>1 DEF SendPacket
<1>6. CASE Larger(d, e) = 0
  <2>1. allowance'[s] = allowance[s] - size /\ pending'[s] = pending[s] /\ wait'[s] = wait[s]
    BY <1>1, <1>3, <1>6
  <2>2. tokens[s] >= size
    <3>1. d = 0
      BY <1>4, <1>6
    <3>2. tokens[s] >= size \/ Rate(s) * d >= size - tokens[s]
      BY <1>3 DEF IsDelay
    <3>3. Rate(s) * d = 0
      BY <1>1, <3>1, SMT
    <3>4. QED
      BY <1>1, <3>2, <3>3, SMT
  <2>3. Rate(s) * wait[s] \in Nat
    BY <1>1, Product
  <2>4. /\ allowance'[s] >= tokens'[s] + pending'[s]
        /\ allowance'[s] >= 0
        /\ tokens'[s] + Rate(s) * wait'[s] >= 0
    BY <1>1, <1>2, <1>5, <2>1, <2>2, <2>3, SMT
  <2>5. QED
    BY <1>5, <2>4 DEF SessionInv, Respected, Rate
<1>7. CASE Larger(d, e) # 0
  <2>1. allowance'[s] = allowance[s] /\ pending'[s] = size /\ wait'[s] = Larger(d, e)
    BY <1>1, <1>3, <1>7 DEF TypeOK
  <2>2. Rate(s) * d <= Rate(s) * Larger(d, e)
    BY <1>1, <1>4, LongerWait
  <2>3. Rate(s) * d \in Nat /\ Rate(s) * Larger(d, e) \in Nat
    BY <1>1, <1>4, Product
  <2>4. tokens[s] >= size \/ Rate(s) * d >= size - tokens[s]
    BY <1>3 DEF IsDelay
  <2>5. /\ allowance'[s] >= tokens'[s] + pending'[s]
        /\ allowance'[s] >= 0
        /\ tokens'[s] + Rate(s) * wait'[s] >= 0
    <3>1. tokens[s] - size + Rate(s) * Larger(d, e) >= 0
      BY <1>1, <2>2, <2>3, <2>4, SMT
    <3>2. QED
      BY <1>1, <1>2, <1>5, <2>1, <3>1, SMT
  <2>6. QED
    BY <1>5, <2>5 DEF SessionInv, Respected, Rate
<1>8. QED
  BY <1>6, <1>7

(* The packet that waited is sent when the debt is paid. *)
LEMMA TimeoutSession ==
    ASSUME TypeOK, NEW s \in Sessions, SendTimeout(s), SessionInv(s)
    PROVE  SessionInv(s)'
<1>1. /\ s \in Buckets /\ tokens[s] \in Int /\ allowance[s] \in Int
      /\ pending[s] \in Nat /\ Rate(s) \in Nat
  BY SessionTypes, BucketTypes
<1>2. /\ allowance[s] >= tokens[s] + pending[s]
      /\ tokens[s] + Rate(s) * wait[s] >= 0
      /\ wait[s] = 0
  BY DEF SessionInv, SendTimeout
<1>3. Rate(s) * wait[s] = 0
  BY <1>1, <1>2, SMT
<1>4. pending'[s] = 0 /\ allowance'[s] = allowance[s] - pending[s] /\ tokens'[s] = tokens[s]
  BY <1>1 DEF SendTimeout, TypeOK
<1>5. allowance'[s] >= tokens'[s] + pending'[s] /\ allowance'[s] >= 0
  BY <1>1, <1>2, <1>3, <1>4, SMT
<1>6. QED
  BY <1>4, <1>5 DEF SessionInv, Respected

LEMMA EndSession ==
    ASSUME TypeOK, NEW s \in Sessions, SessionEnds(s)
    PROVE  SessionInv(s)'
<1>1. s \in Buckets
  BY SessionTypes
<1>2. tokens'[s] = Initial(s) /\ pending'[s] = 0 /\ allowance'[s] = Burst(s)
  BY <1>1 DEF SessionEnds, TypeOK
<1>3. Initial(s) \in Nat /\ Initial(s) <= Full(s) /\ Full(s) \in Nat /\ Bytes(BlockSize) \in Nat
      /\ Full(s) + Bytes(BlockSize) = Burst(s)
  BY <1>1, BucketTypes, BucketAssumption
<1>4. allowance'[s] >= tokens'[s] + pending'[s] /\ allowance'[s] >= 0
  BY <1>2, <1>3, SMT
<1>5. QED
  BY <1>2, <1>4 DEF SessionInv, Respected

(* What happens elsewhere leaves a session and its bucket alone. *)
LEMMA OtherSession ==
    ASSUME NEW s \in Sessions, SessionInv(s),
           tokens'[s] = tokens[s], started'[s] = started[s], wait'[s] = wait[s],
           pending'[s] = pending[s], allowance'[s] = allowance[s]
    PROVE  SessionInv(s)'
BY DEF SessionInv, Respected, Rate
LEMMA StepSession ==
    ASSUME TypeOK, [Next]_vars, NEW q \in Sessions, SessionInv(q)
    PROVE  SessionInv(q)'
<1>1. q \in Buckets /\ q # Global /\ q \notin Addresses
  BY SessionTypes, BucketAssumption
<1>2. CASE UNCHANGED vars
  BY <1>2, OtherSession DEF vars
<1>3. CASE Tick
  BY <1>3, TickSession
<1>4. ASSUME NEW s \in Sessions, NEW size \in Sizes, SendPacket(s, size)
      PROVE  SessionInv(q)'
  <2>1. CASE s = q
    BY <1>4, <2>1, PacketSession
  <2>2. CASE s # q
    <3>1. q \notin {s, Global}
      BY <1>1, <2>2
    <3>2. /\ tokens'[q] = tokens[q] /\ started'[q] = started[q]
          /\ wait'[q] = wait[q] /\ pending'[q] = pending[q]
          /\ allowance'[q] = allowance[q]
      BY <1>1, <1>4, <3>1 DEF SendPacket, TypeOK
    <3>3. QED
      BY <3>2, OtherSession
  <2>3. QED
    BY <2>1, <2>2
<1>5. ASSUME NEW s \in Sessions, SendTimeout(s)
      PROVE  SessionInv(q)'
  <2>1. CASE s = q
    BY <1>5, <2>1, TimeoutSession
  <2>2. CASE s # q
    <3>1. q \notin {s, Global}
      BY <1>1, <2>2
    <3>2. /\ tokens'[q] = tokens[q] /\ started'[q] = started[q]
          /\ wait'[q] = wait[q] /\ pending'[q] = pending[q]
          /\ allowance'[q] = allowance[q]
      BY <1>1, <1>5, <3>1 DEF SendTimeout, TypeOK
    <3>3. QED
      BY <3>2, OtherSession
  <2>3. QED
    BY <2>1, <2>2
<1>6. ASSUME NEW s \in Sessions, SessionEnds(s)
      PROVE  SessionInv(q)'
  <2>1. CASE s = q
    BY <1>6, <2>1, EndSession
  <2>2. CASE s # q
    BY <1>1, <1>6, <2>2, OtherSession DEF SessionEnds, TypeOK
  <2>3. QED
    BY <2>1, <2>2
<1>7. CASE Listen
  BY <1>1, <1>7, OtherSession DEF Listen, TypeOK
<1>8. ASSUME NEW a \in Addresses, AdmitRequest(a)
      PROVE  SessionInv(q)'
  BY <1>1, <1>8, OtherSession DEF AdmitRequest, TypeOK
<1>9. QED
  BY <1>2, <1>3, <1>4, <1>5, <1>6, <1>7, <1>8 DEF Next

-----------------------------------------------------------------------------
\* Client addresses

LEMMA StepAddress ==
    ASSUME TypeOK, [Next]_vars, NEW b \in Addresses, AddressInv(b)
    PROVE  AddressInv(b)'
<1>1. /\ b \in Buckets /\ b # Global /\ b \notin Sessions
      /\ tokens[b] \in Int /\ allowance[b] \in Int /\ tokens[b] <= Full(b)
  BY AddressTypes
<1>2. allowance[b] >= tokens[b] /\ allowance[b] >= 0
  BY DEF AddressInv, Respected
<1>3. ASSUME tokens'[b] = tokens[b], allowance'[b] = allowance[b]
      PROVE  AddressInv(b)'
  BY <1>3 DEF AddressInv, Respected
<1>4. CASE UNCHANGED vars
  BY <1>3, <1>4 DEF vars
<1>5. CASE Tick
  <2>1. Rate(b) \in Nat /\ Full(b) \in Nat /\ Burst(b) = Full(b)
    BY <1>1, BucketTypes
  <2>2. /\ tokens'[b] = IF started[b] THEN Smaller(tokens[b] + Rate(b), Full(b)) ELSE tokens[b]
        /\ allowance'[b] = Smaller(allowance[b] + Rate(b), Burst(b))
    BY <1>1, <1>5 DEF Tick, Refilled
  <2>3. allowance'[b] >= tokens'[b] /\ allowance'[b] >= 0
    BY <1>1, <1>2, <2>1, <2>2, SMT DEF Smaller
  <2>4. QED
    BY <2>3 DEF AddressInv, Respected
<1>6. ASSUME NEW s \in Sessions, NEW size \in Sizes, SendPacket(s, size)
      PROVE  AddressInv(b)'
  <2>1. b \notin {s, Global}
    BY <1>1
  <2>2. tokens'[b] = tokens[b] /\ allowance'[b] = allowance[b]
    BY <1>1, <1>6, <2>1 DEF SendPacket
  <2>3. QED
    BY <1>3, <2>2
<1>7. ASSUME NEW s \in Sessions, SendTimeout(s)
      PROVE  AddressInv(b)'
  <2>1. b \notin {s, Global}
    BY <1>1
  <2>2. tokens'[b] = tokens[b] /\ allowance'[b] = allowance[b]
    BY <1>1, <1>7, <2>1 DEF SendTimeout
  <2>3. QED
    BY <1>3, <2>2
<1>8. ASSUME NEW s \in Sessions, SessionEnds(s)
      PROVE  AddressInv(b)'
  BY <1>1, <1>3, <1>8 DEF SessionEnds, TypeOK
<1>9. CASE Listen
  BY <1>1, <1>3, <1>9 DEF Listen, TypeOK
<1>10. ASSUME NEW a \in Addresses, AdmitRequest(a)
       PROVE  AddressInv(b)'
  <2>1. CASE a = b
    <3>1. Bytes(1) \in Nat /\ tokens[b] >= Bytes(1)
      BY <1>10, <2>1, BucketTypes DEF AdmitRequest, HasToken
    <3>2. tokens'[b] = tokens[b] - Bytes(1) /\ allowance'[b] = allowance[b] - Bytes(1)
      BY <1>1, <1>10, <2>1 DEF AdmitRequest, TypeOK
    <3>3. allowance'[b] >= tokens'[b] /\ allowance'[b] >= 0
      BY <1>1, <1>2, <3>1, <3>2, SMT
    <3>4. QED
      BY <3>3 DEF AddressInv, Respected
  <2>2. CASE a # b
    BY <1>1, <1>3, <1>10, <2>2 DEF AdmitRequest, TypeOK
  <2>3. QED
    BY <2>1, <2>2
<1>11. QED
  BY <1>4, <1>5, <1>6, <1>7, <1>8, <1>9, <1>10 DEF Next

-----------------------------------------------------------------------------
\* The common bucket

(* What sessions owe is counted by counting units: a set, and a finite one. *)
LEMMA UnitsCount ==
    /\ IsFiniteSet(Units)
    /\ Cardinality(Units) = Cardinality(Sessions) * Bytes(BlockSize)
    /\ Cardinality(Units) \in Nat
<1>1. IsFiniteSet(Sessions) /\ Bytes(BlockSize) \in Nat
  BY BucketAssumption, BucketTypes
<1>2. IsFiniteSet(1..Bytes(BlockSize)) /\ Cardinality(1..Bytes(BlockSize)) = Bytes(BlockSize)
  <2>1. 1 \in Int /\ Bytes(BlockSize) \in Int
    BY <1>1, SMT
  <2>2. /\ IsFiniteSet(1..Bytes(BlockSize))
        /\ Cardinality(1..Bytes(BlockSize)) =
               IF 1 > Bytes(BlockSize) THEN 0 ELSE Bytes(BlockSize) - 1 + 1
    BY <2>1, FS_Interval
  <2>3. QED
    BY <1>1, <2>2, SMT
<1>3. /\ IsFiniteSet(Units)
      /\ Cardinality(Units) = Cardinality(Sessions) * Bytes(BlockSize)
  BY <1>1, <1>2, FS_Product DEF Units
<1>4. QED
  BY <1>3, FS_CardinalityType

LEMMA SomeUnits ==
    ASSUME NEW S, S \subseteq Units
    PROVE  /\ IsFiniteSet(S)
           /\ Cardinality(S) \in Nat
           /\ Cardinality(S) <= Cardinality(Units)
BY UnitsCount, FS_Subset, FS_CardinalityType

LEMMA FewerUnits ==
    ASSUME NEW T, T \subseteq Units, NEW S, S \subseteq T
    PROVE  Cardinality(S) <= Cardinality(T)
BY SomeUnits, FS_Subset

LEMMA OwedUnits == Owed \subseteq Units /\ \A w \in Nat : OwedWithin(w) \subseteq Owed
BY DEF Owed, OwedWithin

(* The units of one packet are as many as it is large. *)
LEMMA PacketUnits ==
    ASSUME NEW s, NEW size \in Nat
    PROVE  /\ IsFiniteSet({s} \X (1..size))
           /\ Cardinality({s} \X (1..size)) = size
<1>1. 1 \in Int /\ size \in Int
  BY SMT
<1>2. /\ IsFiniteSet(1..size)
      /\ Cardinality(1..size) = IF 1 > size THEN 0 ELSE size - 1 + 1
  BY <1>1, FS_Interval
<1>3. Cardinality(1..size) = size
  BY <1>2, SMT
<1>4. IsFiniteSet({s}) /\ Cardinality({s}) = 1
  BY FS_Singleton
<1>5. /\ IsFiniteSet({s} \X (1..size))
      /\ Cardinality({s} \X (1..size)) = Cardinality({s}) * Cardinality(1..size)
  BY <1>2, <1>4, FS_Product
<1>6. QED
  BY <1>3, <1>4, <1>5, SMT

LEMMA GlobalTypes ==
    /\ Global \in Buckets
    /\ Rate(Global) \in Nat /\ Full(Global) \in Nat
    /\ Initial(Global) \in Nat /\ Initial(Global) <= Full(Global)
    /\ Burst(Global) = Full(Global) + Cardinality(Units)
    /\ TypeOK => /\ tokens[Global] \in Int /\ allowance[Global] \in Int
                 /\ tokens[Global] <= Full(Global)
                 /\ started[Global] \in BOOLEAN
<1>1. Global \in Buckets
  BY DEF Buckets
<1>2. Burst(Global) = Full(Global) + Cardinality(Units)
  BY BucketAssumption, UnitsCount DEF Burst
<1>3. QED
  BY <1>1, <1>2, BucketTypes DEF TypeOK

(* A bucket as good as new has room for all that can be owed. *)
LEMMA RoomForOwed ==
    ASSUME NEW S, S \subseteq Units
    PROVE  /\ Burst(Global) >= Initial(Global) + Cardinality(S)
           /\ \A w \in Nat : Burst(Global) + Rate(Global) * w >= Cardinality(S)
<1>1. /\ Cardinality(S) \in Nat /\ Cardinality(S) <= Cardinality(Units)
      /\ Cardinality(Units) \in Nat
  BY SomeUnits, UnitsCount
<1>2. \A w \in Nat : Rate(Global) * w \in Nat
  BY GlobalTypes, Product
<1>3. QED
  BY <1>1, <1>2, GlobalTypes, SMT

(* With less owed, a bucket that nothing else happened to is as good. *)
LEMMA LessOwed ==
    ASSUME TypeOK, GlobalInv,
           tokens'[Global] = tokens[Global], allowance'[Global] = allowance[Global],
           Owed' \subseteq Owed,
           \A w \in Nat : OwedWithin(w)' \subseteq OwedWithin(w)
    PROVE  GlobalInv'
<1>1. /\ Cardinality(Owed) \in Nat /\ Cardinality(Owed') \in Nat
      /\ Cardinality(Owed') <= Cardinality(Owed)
  BY OwedUnits, SomeUnits, FewerUnits
<1>2. allowance'[Global] >= tokens'[Global] + Cardinality(Owed')
  BY <1>1, GlobalTypes, SMT DEF GlobalInv
<1>3. ASSUME NEW w \in Nat
      PROVE  allowance'[Global] + Rate(Global) * w >= Cardinality(OwedWithin(w)')
  <2>1. OwedWithin(w) \subseteq Units /\ OwedWithin(w)' \subseteq OwedWithin(w)
    BY OwedUnits
  <2>2. /\ Cardinality(OwedWithin(w)) \in Nat /\ Cardinality(OwedWithin(w)') \in Nat
        /\ Cardinality(OwedWithin(w)') <= Cardinality(OwedWithin(w))
    BY <2>1, SomeUnits, FewerUnits
  <2>3. allowance[Global] + Rate(Global) * w >= Cardinality(OwedWithin(w))
    BY DEF GlobalInv
  <2>4. Rate(Global) * w \in Nat
    BY GlobalTypes, Product
  <2>5. QED
    BY <2>2, <2>3, <2>4, GlobalTypes, SMT
<1>4. QED
  BY <1>2, <1>3 DEF GlobalInv, Rate

(* A tick brings every packet that waits a tick nearer, and the bucket a tick's *)
(* tokens, as long as it has room for them.                                     *)
LEMMA TickGlobal ==
    ASSUME TypeOK, GlobalInv, Tick
    PROVE  GlobalInv'
<1>1. /\ tokens'[Global] = IF started[Global]
                           THEN Smaller(tokens[Global] + Rate(Global), Full(Global))
                           ELSE tokens[Global]
      /\ allowance'[Global] = Smaller(allowance[Global] + Rate(Global), Burst(Global))
  BY GlobalTypes DEF Tick, Refilled
<1>2. Owed' = Owed
  BY DEF Tick, Owed
<1>3. /\ Cardinality(Owed) \in Nat /\ Cardinality(Owed) <= Cardinality(Units)
      /\ Cardinality(Units) \in Nat
  BY OwedUnits, SomeUnits, UnitsCount
<1>4. allowance[Global] >= tokens[Global] + Cardinality(Owed)
  BY DEF GlobalInv
<1>5. allowance'[Global] >= tokens'[Global] + Cardinality(Owed')
  <2>1. tokens'[Global] \in Int /\ tokens'[Global] <= tokens[Global] + Rate(Global)
        /\ tokens'[Global] <= Full(Global)
    BY <1>1, GlobalTypes, SMT DEF Smaller
  <2>2. QED
    BY <1>1, <1>2, <1>3, <1>4, <2>1, GlobalTypes, SMT DEF Smaller
<1>6. ASSUME NEW w \in Nat
      PROVE  allowance'[Global] + Rate(Global) * w >= Cardinality(OwedWithin(w)')
  <2>1. w + 1 \in Nat /\ w + 1 > 0 /\ (w + 1) - 1 = w
    BY SMT
  <2>2. OwedWithin(w)' \subseteq OwedWithin(w + 1)
    <3>1. ASSUME NEW u \in Units, wait'[u[1]] <= w
          PROVE  wait[u[1]] <= w + 1
      <4>1. u[1] \in Sessions
        BY DEF Units
      <4>2. wait[u[1]] \in Nat
            /\ wait'[u[1]] = IF wait[u[1]] > 0 THEN wait[u[1]] - 1 ELSE 0
        BY <4>1 DEF Tick, TypeOK
      <4>3. QED
        BY <3>1, <4>2, SMT
    <3>2. QED
      BY <1>2, <3>1, OwedUnits DEF OwedWithin
  <2>3. OwedWithin(w + 1) \subseteq Units
    BY <2>1, OwedUnits
  <2>4. /\ Cardinality(OwedWithin(w + 1)) \in Nat /\ Cardinality(OwedWithin(w)') \in Nat
        /\ Cardinality(OwedWithin(w)') <= Cardinality(OwedWithin(w + 1))
        /\ Cardinality(OwedWithin(w)') <= Cardinality(Units)
    BY <2>2, <2>3, SomeUnits, FewerUnits
  <2>5. allowance[Global] + Rate(Global) * (w + 1) >= Cardinality(OwedWithin(w + 1))
    BY <2>1 DEF GlobalInv
  <2>6. Rate(Global) * (w + 1) = Rate(Global) + Rate(Global) * w
    BY <2>1, GlobalTypes, ShorterWait
  <2>7. Rate(Global) * w \in Nat
    BY GlobalTypes, Product
  <2>8. QED
    BY <1>1, <1>3, <2>4, <2>5, <2>6, <2>7, GlobalTypes, SMT DEF Smaller
<1>7. QED
  BY <1>5, <1>6 DEF GlobalInv, Rate

(* A packet that goes at once: the bucket had the tokens, with all that is owed *)
(* charged already.                                                             *)
LEMMA SentGlobal ==
    ASSUME TypeOK, GlobalInv, NEW size \in Nat, tokens[Global] >= size,
           tokens'[Global] = tokens[Global] - size,
           allowance'[Global] = allowance[Global] - size,
           UNCHANGED <<wait, pending>>
    PROVE  GlobalInv'
<1>1. Owed' = Owed /\ \A w \in Nat : OwedWithin(w)' = OwedWithin(w)
  BY DEF Owed, OwedWithin
<1>2. Cardinality(Owed) \in Nat
  BY OwedUnits, SomeUnits
<1>3. /\ allowance'[Global] >= tokens'[Global] + Cardinality(Owed)
      /\ allowance'[Global] >= Cardinality(Owed)
      /\ allowance'[Global] \in Int
  BY <1>2, GlobalTypes, SMT DEF GlobalInv
<1>4. ASSUME NEW w \in Nat
      PROVE  allowance'[Global] + Rate(Global) * w >= Cardinality(OwedWithin(w)')
  <2>1. OwedWithin(w) \subseteq Owed /\ OwedWithin(w) \subseteq Units
    BY OwedUnits
  <2>2. /\ Cardinality(OwedWithin(w)) \in Nat
        /\ Cardinality(OwedWithin(w)) <= Cardinality(Owed)
    BY <2>1, OwedUnits, SomeUnits, FewerUnits
  <2>3. Rate(Global) * w \in Nat
    BY GlobalTypes, Product
  <2>4. QED
    BY <1>1, <1>2, <1>3, <2>2, <2>3, SMT
<1>5. QED
  BY <1>1, <1>3, <1>4 DEF GlobalInv, Rate

(* A packet that waits is charged now and owed until then; by that time the     *)
(* bucket will have earned all that was charged.                                *)
LEMMA WaitsGlobal ==
    ASSUME TypeOK, GlobalInv, NEW s \in Sessions, NEW size \in Nat,
           NEW e \in Nat, NEW longest \in Nat, e <= longest,
           tokens[Global] - size + Rate(Global) * e >= 0,
           tokens'[Global] = tokens[Global] - size,
           allowance'[Global] = allowance[Global],
           wait' = [wait EXCEPT ![s] = longest],
           pending' = [pending EXCEPT ![s] = size]
    PROVE  GlobalInv'
<1> DEFINE Own == {s} \X (1..size)
<1>1. IsFiniteSet(Own) /\ Cardinality(Own) = size
  BY PacketUnits
<1>2. \A t \in Sessions : /\ t # s => wait'[t] = wait[t] /\ pending'[t] = pending[t]
                          /\ t = s => wait'[t] = longest /\ pending'[t] = size
  BY DEF TypeOK
<1>3. Owed' \subseteq Owed \cup Own
  <2>1. ASSUME NEW u \in Units, u[2] <= pending'[u[1]], u \notin Owed
        PROVE  u \in Own
    <3>1. PICK t \in Sessions, i \in 1..Bytes(BlockSize) : u = <<t, i>>
      BY DEF Units
    <3>2. i <= pending'[t] /\ ~(i <= pending[t])
      BY <2>1, <3>1 DEF Owed
    <3>3. t = s
      BY <1>2, <3>2
    <3>4. i \in 1..size
      BY <1>2, <3>2, <3>3, BucketAssumption, BucketTypes, SMT
    <3>5. QED
      BY <3>1, <3>3, <3>4
  <2>2. QED
    BY <2>1 DEF Owed
<1>4. /\ Cardinality(Owed) \in Nat /\ Cardinality(Owed') \in Nat
      /\ Cardinality(Owed') <= Cardinality(Owed) + size
  <2>1. IsFiniteSet(Owed) /\ Cardinality(Owed) \in Nat /\ Cardinality(Owed') \in Nat
    BY OwedUnits, SomeUnits DEF Owed
  <2>2. /\ IsFiniteSet(Owed \cup Own)
        /\ Cardinality(Owed \cup Own) =
               Cardinality(Owed) + Cardinality(Own) - Cardinality(Owed \cap Own)
    BY <1>1, <2>1, FS_Union
  <2>3. Cardinality(Owed \cap Own) \in Nat
    BY <2>1, FS_Intersection, FS_CardinalityType
  <2>4. Cardinality(Owed') <= Cardinality(Owed \cup Own)
    BY <1>3, <2>2, FS_Subset
  <2>5. QED
    BY <1>1, <2>1, <2>2, <2>3, <2>4, SMT
<1>5. /\ allowance'[Global] >= tokens'[Global] + Cardinality(Owed')
      /\ tokens'[Global] \in Int /\ allowance'[Global] \in Int
  BY <1>4, GlobalTypes, SMT DEF GlobalInv
<1>6. ASSUME NEW w \in Nat
      PROVE  allowance'[Global] + Rate(Global) * w >= Cardinality(OwedWithin(w)')
  <2>1. Rate(Global) * w \in Nat
    BY GlobalTypes, Product
  <2>2. Cardinality(OwedWithin(w)') \in Nat
    BY SomeUnits DEF OwedWithin, Owed
  <2>3. CASE w < longest
    <3>1. OwedWithin(w)' \subseteq OwedWithin(w)
      <4>1. ASSUME NEW u \in Units, u[2] <= pending'[u[1]], wait'[u[1]] <= w
            PROVE  u[2] <= pending[u[1]] /\ wait[u[1]] <= w
        <5>1. u[1] \in Sessions
          BY DEF Units
        <5>2. u[1] # s
          BY <1>2, <2>3, <4>1, SMT
        <5>3. QED
          BY <1>2, <4>1, <5>1, <5>2
      <4>2. QED
        BY <4>1 DEF OwedWithin, Owed
    <3>2. OwedWithin(w) \subseteq Units
      BY OwedUnits
    <3>3. /\ Cardinality(OwedWithin(w)) \in Nat
          /\ Cardinality(OwedWithin(w)') <= Cardinality(OwedWithin(w))
      BY <3>1, <3>2, SomeUnits, FewerUnits
    <3>4. allowance[Global] + Rate(Global) * w >= Cardinality(OwedWithin(w))
      BY DEF GlobalInv
    <3>5. QED
      BY <2>1, <2>2, <3>3, <3>4, GlobalTypes, SMT
  <2>4. CASE w >= longest
    <3>1. e <= w
      BY <2>4, SMT
    <3>2. Rate(Global) * e <= Rate(Global) * w /\ Rate(Global) * e \in Nat
      BY <3>1, GlobalTypes, LongerWait, Product
    <3>3. OwedWithin(w)' \subseteq Owed' /\ Owed' \subseteq Units
      BY DEF OwedWithin, Owed
    <3>4. Cardinality(OwedWithin(w)') <= Cardinality(Owed')
      BY <3>3, FewerUnits
    <3>5. QED
      BY <1>4, <1>5, <2>1, <2>2, <3>2, <3>4, GlobalTypes, SMT
  <2>5. QED
    BY <2>3, <2>4, SMT
<1>7. QED
  BY <1>5, <1>6 DEF GlobalInv, Rate

LEMMA PacketGlobal ==
    ASSUME TypeOK, GlobalInv, NEW s \in Sessions, NEW size \in Sizes, SendPacket(s, size)
    PROVE  GlobalInv'
<1>1. /\ size \in Nat /\ MaxDebt \in Nat
      /\ tokens[Global] \in Int /\ Rate(Global) \in Nat
  BY BucketTypes, BucketAssumption, GlobalTypes
<1>2. PICK d \in 0..(MaxDebt + 1), e \in 0..(MaxDebt + 1) :
        /\ IsDelay(Global, size, e)
        /\ IF Larger(d, e) = 0
           THEN /\ allowance' = [b \in Buckets |->
                        IF b \in {s, Global} THEN allowance[b] - size ELSE allowance[b]]
                /\ UNCHANGED <<wait, pending>>
           ELSE /\ wait' = [wait EXCEPT ![s] = Larger(d, e)]
                /\ pending' = [pending EXCEPT ![s] = size]
                /\ UNCHANGED allowance
  BY DEF SendPacket
<1>3. /\ e \in Nat /\ Larger(d, e) \in Nat /\ e <= Larger(d, e)
      /\ Larger(d, e) = 0 => e = 0
  BY <1>1, SMT DEF Larger
<1>4. tokens'[Global] = tokens[Global] - size
  BY GlobalTypes DEF SendPacket
<1>5. tokens[Global] - size + Rate(Global) * e >= 0
  <2>1. Rate(Global) * e \in Nat
    BY <1>1, <1>3, Product
  <2>2. tokens[Global] >= size \/ Rate(Global) * e >= size - tokens[Global]
    BY <1>2 DEF IsDelay
  <2>3. QED
    BY <1>1, <2>1, <2>2, SMT
<1>6. CASE Larger(d, e) = 0
  <2>1. allowance'[Global] = allowance[Global] - size /\ UNCHANGED <<wait, pending>>
    BY <1>2, <1>6, GlobalTypes
  <2>2. Rate(Global) * e = 0
    BY <1>1, <1>3, <1>6, SMT
  <2>3. tokens[Global] >= size
    BY <1>1, <1>5, <2>2, SMT
  <2>4. QED
    BY <1>1, <1>4, <2>1, <2>3, SentGlobal
<1>7. CASE Larger(d, e) # 0
  BY <1>1, <1>2, <1>3, <1>4, <1>5, <1>7, WaitsGlobal
<1>8. QED
  BY <1>6, <1>7

(* The packet that waited is sent: what was owed for it is spent. *)
LEMMA TimeoutGlobal ==
    ASSUME TypeOK, GlobalInv, NEW s \in Sessions, SendTimeout(s)
    PROVE  GlobalInv'
<1> DEFINE size == pending[s]
           Own  == {s} \X (1..size)
<1>1. size \in Nat /\ size <= Bytes(BlockSize) /\ wait[s] = 0 /\ Bytes(BlockSize) \in Nat
  BY SessionTypes, BucketTypes, BucketAssumption DEF SendTimeout
<1>2. IsFiniteSet(Own) /\ Cardinality(Own) = size
  BY <1>1, PacketUnits
<1>3. /\ tokens'[Global] = tokens[Global]
      /\ allowance'[Global] = allowance[Global] - size
  BY GlobalTypes DEF SendTimeout
<1>4. \A w \in Nat : Own \subseteq OwedWithin(w)
  <2>1. ASSUME NEW w \in Nat, NEW i \in 1..size
        PROVE  <<s, i>> \in OwedWithin(w)
    <3>1. i \in 1..Bytes(BlockSize) /\ i <= pending[s] /\ wait[s] <= w
      BY <1>1, SMT
    <3>2. QED
      BY <3>1 DEF OwedWithin, Owed, Units
  <2>2. QED
    BY <2>1
<1>5. ASSUME NEW u \in Units
      PROVE  (u[2] <= pending'[u[1]]) <=> (u \in Owed /\ u \notin Own)
  <2>1. PICK t \in Sessions, i \in 1..Bytes(BlockSize) : u = <<t, i>>
    BY DEF Units
  <2>2. i \in Nat /\ i >= 1
    BY <1>1, <2>1, SMT
  <2>3. CASE t = s
    <3>1. pending'[t] = 0
      BY <2>3 DEF SendTimeout, TypeOK
    <3>2. ~(i <= pending'[t])
      BY <2>2, <3>1, SMT
    <3>3. u \in Owed => i \in 1..size
      BY <1>1, <2>1, <2>2, <2>3, SMT DEF Owed
    <3>4. QED
      BY <2>1, <2>3, <3>2, <3>3
  <2>4. CASE t # s
    <3>1. pending'[t] = pending[t]
      BY <2>4 DEF SendTimeout, TypeOK
    <3>2. u \notin Own
      BY <2>1, <2>4
    <3>3. QED
      BY <2>1, <3>1, <3>2 DEF Owed
  <2>5. QED
    BY <2>3, <2>4
<1>6. Owed' = Owed \ Own
  BY <1>5, OwedUnits DEF Owed
<1>7. ASSUME NEW w \in Nat
      PROVE  OwedWithin(w)' = OwedWithin(w) \ Own
  BY <1>6 DEF OwedWithin, SendTimeout
<1>8. ASSUME NEW S, S \subseteq Units, Own \subseteq S
      PROVE  Cardinality(S \ Own) = Cardinality(S) - size /\ Cardinality(S) \in Nat
  <2>1. IsFiniteSet(S) /\ Cardinality(S) \in Nat
    BY <1>8, SomeUnits
  <2>2. Cardinality(S \ Own) = Cardinality(S) - Cardinality(S \cap Own)
    BY <2>1, FS_Difference
  <2>3. S \cap Own = Own
    BY <1>8
  <2>4. QED
    BY <1>2, <2>1, <2>2, <2>3
<1>9. allowance'[Global] >= tokens'[Global] + Cardinality(Owed')
  <2>1. Own \subseteq Owed
    <3>1. 0 \in Nat
      OBVIOUS
    <3>2. QED
      BY <1>4, <3>1, OwedUnits
  <2>2. Cardinality(Owed') = Cardinality(Owed) - size /\ Cardinality(Owed) \in Nat
    BY <1>6, <1>8, <2>1, OwedUnits
  <2>3. QED
    BY <1>1, <1>3, <2>2, GlobalTypes, SMT DEF GlobalInv
<1>10. ASSUME NEW w \in Nat
       PROVE  allowance'[Global] + Rate(Global) * w >= Cardinality(OwedWithin(w)')
  <2>1. OwedWithin(w) \subseteq Units
    BY OwedUnits
  <2>2. /\ Cardinality(OwedWithin(w)') = Cardinality(OwedWithin(w)) - size
        /\ Cardinality(OwedWithin(w)) \in Nat
    BY <1>4, <1>7, <1>8, <2>1
  <2>3. allowance[Global] + Rate(Global) * w >= Cardinality(OwedWithin(w))
    BY DEF GlobalInv
  <2>4. Rate(Global) * w \in Nat
    BY GlobalTypes, Product
  <2>5. QED
    BY <1>1, <1>3, <2>2, <2>3, <2>4, GlobalTypes, SMT
<1>11. QED
  BY <1>9, <1>10 DEF GlobalInv, Rate

(* What a session owes goes with it. *)
LEMMA EndGlobal ==
    ASSUME TypeOK, GlobalInv, NEW s \in Sessions, SessionEnds(s)
    PROVE  GlobalInv'
<1>1. s # Global
  BY BucketAssumption
<1>2. tokens'[Global] = tokens[Global] /\ allowance'[Global] = allowance[Global]
  BY <1>1, GlobalTypes DEF SessionEnds, TypeOK
<1>3. ASSUME NEW u \in Units, u[2] <= pending'[u[1]]
      PROVE  u[2] <= pending[u[1]] /\ wait'[u[1]] = wait[u[1]]
  <2>1. PICK t \in Sessions, i \in 1..Bytes(BlockSize) : u = <<t, i>>
    BY DEF Units
  <2>2. i >= 1 /\ i \in Nat
    BY BucketAssumption, BucketTypes, SMT
  <2>3. t # s
    <3>1. SUFFICES ASSUME t = s PROVE FALSE
      OBVIOUS
    <3>2. pending'[t] = 0
      BY <3>1 DEF SessionEnds, TypeOK
    <3>3. QED
      BY <1>3, <2>1, <2>2, <3>2, SMT
  <2>4. pending'[t] = pending[t] /\ wait'[t] = wait[t]
    BY <2>3 DEF SessionEnds, TypeOK
  <2>5. QED
    BY <1>3, <2>1, <2>4
<1>4. Owed' \subseteq Owed /\ \A w \in Nat : OwedWithin(w)' \subseteq OwedWithin(w)
  BY <1>3 DEF Owed, OwedWithin
<1>5. QED
  BY <1>2, <1>4, LessOwed

LEMMA StepGlobal ==
    ASSUME TypeOK, GlobalInv, [Next]_vars
    PROVE  GlobalInv'
<1>1. ASSUME tokens'[Global] = tokens[Global], allowance'[Global] = allowance[Global],
             UNCHANGED <<wait, pending>>
      PROVE  GlobalInv'
  <2>1. Owed' = Owed /\ \A w \in Nat : OwedWithin(w)' = OwedWithin(w)
    BY <1>1 DEF Owed, OwedWithin
  <2>2. QED
    BY <1>1, <2>1, LessOwed
<1>2. CASE UNCHANGED vars
  BY <1>1, <1>2 DEF vars
<1>3. CASE Tick
  BY <1>3, TickGlobal
<1>4. ASSUME NEW s \in Sessions, NEW size \in Sizes, SendPacket(s, size)
      PROVE  GlobalInv'
  BY <1>4, PacketGlobal
<1>5. ASSUME NEW s \in Sessions, SendTimeout(s)
      PROVE  GlobalInv'
  BY <1>5, TimeoutGlobal
<1>6. ASSUME NEW s \in Sessions, SessionEnds(s)
      PROVE  GlobalInv'
  BY <1>6, EndGlobal
<1>7. CASE Listen
  <2>1. tokens'[Global] = Initial(Global) /\ allowance'[Global] = Burst(Global)
    BY <1>7, GlobalTypes DEF Listen, TypeOK
  <2>2. Owed' \subseteq Units /\ \A w \in Nat : OwedWithin(w)' \subseteq Units
    BY DEF Owed, OwedWithin
  <2>3. QED
    BY <2>1, <2>2, RoomForOwed DEF GlobalInv, Rate
<1>8. ASSUME NEW a \in Addresses, AdmitRequest(a)
      PROVE  GlobalInv'
  <2>1. a # Global
    BY BucketAssumption
  <2>2. QED
    BY <1>1, <1>8, <2>1, GlobalTypes DEF AdmitRequest, TypeOK
<1>9. QED
  BY <1>2, <1>3, <1>4, <1>5, <1>6, <1>7, <1>8 DEF Next

-----------------------------------------------------------------------------
\* The theorems

LEMMA InitBuckets == Init => BucketInv
<1> SUFFICES ASSUME Init PROVE BucketInv
  OBVIOUS
<1>1. \A b \in Buckets : /\ tokens[b] = Initial(b) /\ allowance[b] = Burst(b)
                         /\ tokens[b] \in Nat /\ tokens[b] <= Full(b)
                         /\ Full(b) \in Nat
  BY BucketTypes DEF Init
<1>2. \A b \in Buckets : Burst(b) \in Int
  <2>1. Cardinality(Sessions) \in Nat /\ Bytes(BlockSize) \in Nat
    BY BucketAssumption, FS_CardinalityType, BucketTypes
  <2>2. Cardinality(Sessions) * Bytes(BlockSize) \in Nat
    BY <2>1, Product
  <2>3. QED
    BY <1>1, <2>1, <2>2, SMT DEF Burst
<1>3. TypeOK
  BY <1>1, <1>2, SMT DEF Init, TypeOK
<1>4. ASSUME NEW s \in Sessions PROVE SessionInv(s)
  <2>1. s \in Buckets /\ Full(s) + Bytes(BlockSize) = Burst(s) /\ Bytes(BlockSize) \in Nat
    BY <1>3, SessionTypes, BucketTypes, BucketAssumption
  <2>2. tokens[s] \in Nat /\ Full(s) \in Nat /\ tokens[s] <= Full(s)
        /\ allowance[s] = Burst(s)
    BY <1>1, <2>1
  <2>3. pending[s] = 0
    BY DEF Init
  <2>4. allowance[s] >= tokens[s] + pending[s] /\ allowance[s] >= 0
    BY <2>1, <2>2, <2>3, SMT
  <2>5. QED
    BY <2>3, <2>4 DEF SessionInv, Respected
<1>5. ASSUME NEW a \in Addresses PROVE AddressInv(a)
  <2>1. a \in Buckets /\ Burst(a) = Full(a)
    BY <1>3, AddressTypes, BucketTypes
  <2>2. tokens[a] \in Nat /\ Full(a) \in Nat /\ tokens[a] <= Full(a)
        /\ allowance[a] = Full(a)
    BY <1>1, <2>1
  <2>3. allowance[a] >= tokens[a] /\ allowance[a] >= 0
    BY <2>2, SMT
  <2>4. QED
    BY <2>3 DEF AddressInv, Respected
<1>6. GlobalInv
  <2>1. tokens[Global] = Initial(Global) /\ allowance[Global] = Burst(Global)
    BY <1>1, GlobalTypes
  <2>2. Owed \subseteq Units /\ \A w \in Nat : OwedWithin(w) \subseteq Units
    BY DEF Owed, OwedWithin
  <2>3. QED
    BY <2>1, <2>2, RoomForOwed DEF GlobalInv
<1>7. QED
  BY <1>3, <1>4, <1>5, <1>6 DEF BucketInv

LEMMA BucketStep == BucketInv /\ [Next]_vars => BucketInv'
<1> SUFFICES ASSUME BucketInv, [Next]_vars PROVE BucketInv'
  OBVIOUS
<1>1. TypeOK'
  BY NextTypes DEF BucketInv
<1>2. \A s \in Sessions : SessionInv(s)'
  BY StepSession DEF BucketInv
<1>3. \A a \in Addresses : AddressInv(a)'
  BY StepAddress DEF BucketInv
<1>4. GlobalInv'
  BY StepGlobal DEF BucketInv
<1>5. QED
  BY <1>1, <1>2, <1>3, <1>4 DEF BucketInv

(* All of the invariant holds in every state. *)
THEOREM BucketsInductive == Spec => []BucketInv
BY InitBuckets, BucketStep, PTL DEF Spec

(* The type invariant, which also says that no bucket ever holds more than it
   has room for. *)
THEOREM BucketTypeCorrect == Spec => []TypeOK
<1>1. BucketInv => TypeOK
  BY DEF BucketInv
<1>2. QED
  BY <1>1, BucketsInductive, PTL

(* What the invariant says of each bucket. *)
LEMMA BucketsRespected == BucketInv => RateRespected
<1>1. ASSUME TypeOK, GlobalInv PROVE Respected(Global)
  <2>1. 0 \in Nat /\ OwedWithin(0) \subseteq Units
    BY OwedUnits
  <2>2. allowance[Global] + Rate(Global) * 0 >= Cardinality(OwedWithin(0))
    BY <1>1, <2>1 DEF GlobalInv
  <2>3. Rate(Global) * 0 = 0 /\ Cardinality(OwedWithin(0)) \in Nat
    BY <2>1, SomeUnits, GlobalTypes, SMT
  <2>4. QED
    BY <1>1, <2>2, <2>3, GlobalTypes, SMT DEF Respected
<1>2. QED
  BY <1>1 DEF BucketInv, SessionInv, AddressInv, RateRespected, Buckets

(* In no period of time does a session send more than its limit allows for that
   time, one full bucket and one packet; do all sessions together send more than
   the common limit allows, one full bucket and one packet each; or does a client
   address get more requests admitted than its limit and its burst. *)
THEOREM RateIsRespected == Spec => []RateRespected
BY BucketsInductive, BucketsRespected, PTL

-----------------------------------------------------------------------------
\* Periods of time

(* What the limits say, without an allowance: each bucket is observed for a
   period, which may begin in any state. elapsed is how long it has lasted, in
   ticks, and spent what the bucket has let through in it. A session that begins,
   and a listen(), have a new bucket and begin a new period. *)
VARIABLES elapsed, spent

LetsThrough(users, amount) ==
    /\ spent' = [b \in Buckets |-> IF b \in users THEN spent[b] + amount ELSE spent[b]]
    /\ UNCHANGED elapsed

PeriodBegins(b) ==
    /\ elapsed' = [elapsed EXCEPT ![b] = 0]
    /\ spent' = [spent EXCEPT ![b] = 0]

\* Both buckets have the tokens for the packet.
AtOnce(s, size) == \A b \in {s, Global} : tokens[b] >= size

PeriodInit ==
    /\ Init
    /\ elapsed = [b \in Buckets |-> 0]
    /\ spent = [b \in Buckets |-> 0]

PeriodNext ==
    \/ /\ Tick
       /\ elapsed' = [b \in Buckets |-> elapsed[b] + 1]
       /\ UNCHANGED spent
    \/ \E s \in Sessions :
        \/ \E size \in Sizes :
            /\ SendPacket(s, size)
            /\ LetsThrough(IF AtOnce(s, size) THEN {s, Global} ELSE {}, size)
        \/ SendTimeout(s) /\ LetsThrough({s, Global}, pending[s])
        \/ SessionEnds(s) /\ PeriodBegins(s)
    \/ Listen /\ PeriodBegins(Global)
    \/ \E a \in Addresses : AdmitRequest(a) /\ LetsThrough({a}, Bytes(1))
    \/ \E b \in Buckets : PeriodBegins(b) /\ UNCHANGED vars

PeriodSpec == PeriodInit /\ [][PeriodNext]_<<vars, elapsed, spent>>

KeepsLimit(b) == spent[b] <= Burst(b) + Rate(b) * elapsed[b]

\* The allowance is what the limit has left for the period.
PeriodInv ==
    /\ BucketInv
    /\ elapsed \in [Buckets -> Nat]
    /\ spent \in [Buckets -> Nat]
    /\ \A b \in Buckets :
        /\ allowance[b] <= Burst(b)
        /\ allowance[b] + spent[b] <= Burst(b) + Rate(b) * elapsed[b]

LEMMA BurstTypes == \A b \in Buckets : Burst(b) \in Nat /\ Rate(b) \in Nat
<1>1. Burst(Global) \in Nat
  BY GlobalTypes, UnitsCount, SMT
<1>2. QED
  BY <1>1, BucketTypes DEF Buckets

(* What an allowance loses is what its bucket lets through. *)
LEMMA ChargedForPeriod ==
    ASSUME PeriodInv, BucketInv', NEW users \in SUBSET Buckets, NEW amount \in Nat,
           LetsThrough(users, amount),
           \A b \in Buckets : allowance'[b] = IF b \in users THEN allowance[b] - amount
                                              ELSE allowance[b]
    PROVE  PeriodInv'
<1>1. ASSUME NEW b \in Buckets
      PROVE  /\ spent[b] \in Nat /\ elapsed[b] \in Nat /\ allowance[b] \in Int
             /\ Burst(b) \in Nat /\ Rate(b) * elapsed[b] \in Nat
             /\ allowance[b] <= Burst(b)
             /\ allowance[b] + spent[b] <= Burst(b) + Rate(b) * elapsed[b]
  BY BurstTypes, Product DEF PeriodInv, BucketInv, TypeOK
<1>2. /\ elapsed' = elapsed
      /\ \A b \in Buckets : spent'[b] = IF b \in users THEN spent[b] + amount ELSE spent[b]
  BY DEF LetsThrough
<1>3. ASSUME NEW b \in Buckets
      PROVE  /\ spent'[b] \in Nat
             /\ allowance'[b] <= Burst(b)
             /\ allowance'[b] + spent'[b] <= Burst(b) + Rate(b) * elapsed'[b]
  <2>1. CASE b \in users
    <3>1. spent'[b] = spent[b] + amount /\ allowance'[b] = allowance[b] - amount
      BY <1>2, <2>1
    <3>2. QED
      BY <1>1, <1>2, <3>1, SMT
  <2>2. CASE b \notin users
    <3>1. spent'[b] = spent[b] /\ allowance'[b] = allowance[b]
      BY <1>2, <2>2
    <3>2. QED
      BY <1>1, <1>2, <3>1
  <2>3. QED
    BY <2>1, <2>2
<1>4. spent' \in [Buckets -> Nat] /\ elapsed' \in [Buckets -> Nat]
  <2>1. spent' = [b \in Buckets |-> spent'[b]]
    BY DEF LetsThrough
  <2>2. QED
    BY <1>2, <1>3, <2>1 DEF PeriodInv
<1>5. QED
  BY <1>3, <1>4 DEF PeriodInv, Burst, Rate

(* A period that begins finds no more than a burst. *)
LEMMA BeginsPeriod ==
    ASSUME PeriodInv, BucketInv', NEW b \in Buckets, PeriodBegins(b),
           allowance'[b] <= Burst(b),
           \A c \in Buckets : c # b => allowance'[c] = allowance[c]
    PROVE  PeriodInv'
<1>1. /\ elapsed' \in [Buckets -> Nat] /\ spent' \in [Buckets -> Nat]
      /\ elapsed'[b] = 0 /\ spent'[b] = 0
      /\ \A c \in Buckets : c # b => elapsed'[c] = elapsed[c] /\ spent'[c] = spent[c]
  BY DEF PeriodBegins, PeriodInv
<1>2. ASSUME NEW c \in Buckets
      PROVE  /\ allowance'[c] <= Burst(c)
             /\ allowance'[c] + spent'[c] <= Burst(c) + Rate(c) * elapsed'[c]
  <2>1. CASE c = b
    <3>1. allowance'[b] \in Int /\ Burst(b) \in Nat /\ Rate(b) * 0 = 0
      BY BurstTypes, SMT DEF BucketInv, TypeOK
    <3>2. QED
      BY <1>1, <2>1, <3>1, SMT
  <2>2. CASE c # b
    BY <1>1, <2>2 DEF PeriodInv
  <2>3. QED
    BY <2>1, <2>2
<1>3. QED
  BY <1>1, <1>2 DEF PeriodInv, Burst, Rate

(* With time the allowance grows no faster than the limit. *)
LEMMA TickPeriod ==
    ASSUME PeriodInv, BucketInv', Tick,
           elapsed' = [b \in Buckets |-> elapsed[b] + 1], UNCHANGED spent
    PROVE  PeriodInv'
<1>1. ASSUME NEW b \in Buckets
      PROVE  /\ allowance'[b] <= Burst(b)
             /\ allowance'[b] + spent'[b] <= Burst(b) + Rate(b) * elapsed'[b]
             /\ elapsed'[b] \in Nat
  <2>1. /\ spent[b] \in Nat /\ elapsed[b] \in Nat /\ allowance[b] \in Int
        /\ Burst(b) \in Nat /\ Rate(b) \in Nat /\ Rate(b) * elapsed[b] \in Nat
        /\ allowance[b] + spent[b] <= Burst(b) + Rate(b) * elapsed[b]
    BY BurstTypes, Product DEF PeriodInv, BucketInv, TypeOK
  <2>2. /\ allowance'[b] = Smaller(allowance[b] + Rate(b), Burst(b))
        /\ elapsed'[b] = elapsed[b] + 1 /\ spent'[b] = spent[b]
    BY DEF Tick
  <2>3. elapsed'[b] \in Nat /\ elapsed'[b] > 0 /\ elapsed'[b] - 1 = elapsed[b]
    BY <2>1, <2>2, SMT
  <2>4. Rate(b) * elapsed'[b] = Rate(b) + Rate(b) * (elapsed'[b] - 1)
    BY <2>1, <2>3, ShorterWait
  <2>5. Rate(b) * elapsed'[b] = Rate(b) + Rate(b) * elapsed[b]
    BY <2>3, <2>4
  <2>6. QED
    BY <2>1, <2>2, <2>3, <2>5, SMT DEF Smaller
<1>2. elapsed' \in [Buckets -> Nat]
  <2>1. elapsed' = [b \in Buckets |-> elapsed'[b]]
    BY DEF PeriodInv
  <2>2. QED
    BY <1>1, <2>1
<1>3. QED
  BY <1>1, <1>2 DEF PeriodInv, Burst, Rate

(* A packet goes at once exactly when neither bucket lacks the tokens. *)
LEMMA PacketPeriod ==
    ASSUME PeriodInv, BucketInv', NEW s \in Sessions, NEW size \in Sizes,
           SendPacket(s, size),
           LetsThrough(IF AtOnce(s, size) THEN {s, Global} ELSE {}, size)
    PROVE  PeriodInv'
<1>1. /\ size \in Nat /\ MaxDebt \in Nat
      /\ s \in Buckets /\ Global \in Buckets
      /\ \A b \in {s, Global} : tokens[b] \in Int /\ Rate(b) \in Nat
      /\ allowance \in [Buckets -> Int]
  BY BucketTypes, BucketAssumption, GlobalTypes, SessionTypes
  DEF PeriodInv, BucketInv, TypeOK
<1>2. PICK d \in 0..(MaxDebt + 1), e \in 0..(MaxDebt + 1) :
        /\ IsDelay(s, size, d)
        /\ IsDelay(Global, size, e)
        /\ IF Larger(d, e) = 0
           THEN allowance' = [b \in Buckets |->
                        IF b \in {s, Global} THEN allowance[b] - size ELSE allowance[b]]
           ELSE UNCHANGED allowance
  BY DEF SendPacket
<1>3. d \in Nat /\ e \in Nat
  BY <1>1, SMT
<1>4. ASSUME NEW b \in {s, Global}, NEW w \in Nat, IsDelay(b, size, w)
      PROVE  tokens[b] >= size <=> w = 0
  <2>1. CASE tokens[b] >= size
    BY <1>4, <2>1 DEF IsDelay
  <2>2. CASE ~(tokens[b] >= size)
    <3>1. Rate(b) * w >= size - tokens[b]
      BY <1>4, <2>2 DEF IsDelay
    <3>2. tokens[b] \in Int /\ Rate(b) * 0 = 0
      BY <1>1, SMT
    <3>3. w # 0
      BY <1>1, <2>2, <3>1, <3>2, SMT
    <3>4. QED
      BY <2>2, <3>3
  <2>3. QED
    BY <2>1, <2>2
<1>5. AtOnce(s, size) <=> Larger(d, e) = 0
  <2>1. AtOnce(s, size) <=> d = 0 /\ e = 0
    BY <1>2, <1>3, <1>4 DEF AtOnce
  <2>2. Larger(d, e) = 0 <=> d = 0 /\ e = 0
    BY <1>3, SMT DEF Larger
  <2>3. QED
    BY <2>1, <2>2
<1>6. CASE AtOnce(s, size)
  <2>1. \A b \in Buckets : allowance'[b] = IF b \in {s, Global} THEN allowance[b] - size
                                           ELSE allowance[b]
    BY <1>2, <1>5, <1>6
  <2>2. {s, Global} \in SUBSET Buckets /\ LetsThrough({s, Global}, size)
    BY <1>1, <1>6
  <2>3. QED
    BY <1>1, <2>1, <2>2, ChargedForPeriod
<1>7. CASE ~AtOnce(s, size)
  <2>1. allowance' = allowance
    BY <1>2, <1>5, <1>7
  <2>2. {} \in SUBSET Buckets /\ LetsThrough({}, size)
    BY <1>7
  <2>3. QED
    BY <1>1, <2>1, <2>2, ChargedForPeriod
<1>8. QED
  BY <1>6, <1>7

LEMMA PeriodStep == PeriodInv /\ [PeriodNext]_<<vars, elapsed, spent>> => PeriodInv'
<1> SUFFICES ASSUME PeriodInv, [PeriodNext]_<<vars, elapsed, spent>> PROVE PeriodInv'
  OBVIOUS
<1>1. BucketInv
  BY DEF PeriodInv
<1>2. [Next]_vars
  BY DEF PeriodNext, Next
<1>3. BucketInv'
  BY <1>1, <1>2, BucketStep
<1>4. CASE UNCHANGED <<vars, elapsed, spent>>
  BY <1>3, <1>4 DEF vars, PeriodInv, Burst, Rate
<1>5. CASE /\ Tick
           /\ elapsed' = [b \in Buckets |-> elapsed[b] + 1]
           /\ UNCHANGED spent
  BY <1>3, <1>5, TickPeriod
<1>6. ASSUME NEW s \in Sessions, NEW size \in Sizes, SendPacket(s, size),
             LetsThrough(IF AtOnce(s, size) THEN {s, Global} ELSE {}, size)
      PROVE  PeriodInv'
  BY <1>3, <1>6, PacketPeriod
<1>7. ASSUME NEW s \in Sessions, SendTimeout(s), LetsThrough({s, Global}, pending[s])
      PROVE  PeriodInv'
  <2>1. pending[s] \in Nat /\ {s, Global} \in SUBSET Buckets
    BY <1>1, SessionTypes, GlobalTypes DEF BucketInv
  <2>2. \A b \in Buckets : allowance'[b] = IF b \in {s, Global}
                                           THEN allowance[b] - pending[s] ELSE allowance[b]
    BY <1>7 DEF SendTimeout
  <2>3. QED
    BY <1>3, <1>7, <2>1, <2>2, ChargedForPeriod
<1>8. ASSUME NEW s \in Sessions, SessionEnds(s), PeriodBegins(s)
      PROVE  PeriodInv'
  <2>1. s \in Buckets /\ allowance \in [Buckets -> Int] /\ Burst(s) \in Nat
    BY <1>1, SessionTypes, BurstTypes DEF BucketInv, TypeOK
  <2>2. allowance'[s] = Burst(s) /\ \A c \in Buckets : c # s => allowance'[c] = allowance[c]
    BY <1>8, <2>1 DEF SessionEnds
  <2>3. allowance'[s] <= Burst(s)
    BY <2>1, <2>2, SMT
  <2>4. QED
    BY <1>3, <1>8, <2>1, <2>2, <2>3, BeginsPeriod
<1>9. CASE Listen /\ PeriodBegins(Global)
  <2>1. Global \in Buckets /\ allowance \in [Buckets -> Int] /\ Burst(Global) \in Nat
    BY <1>1, GlobalTypes, BurstTypes DEF BucketInv, TypeOK
  <2>2. /\ allowance'[Global] = Burst(Global)
        /\ \A c \in Buckets : c # Global => allowance'[c] = allowance[c]
    BY <1>9, <2>1 DEF Listen
  <2>3. allowance'[Global] <= Burst(Global)
    BY <2>1, <2>2, SMT
  <2>4. QED
    BY <1>3, <1>9, <2>1, <2>2, <2>3, BeginsPeriod
<1>10. ASSUME NEW a \in Addresses, AdmitRequest(a), LetsThrough({a}, Bytes(1))
       PROVE  PeriodInv'
  <2>1. {a} \in SUBSET Buckets /\ Bytes(1) \in Nat /\ allowance \in [Buckets -> Int]
    BY <1>1, BucketTypes DEF Buckets, BucketInv, TypeOK
  <2>2. \A b \in Buckets : allowance'[b] = IF b \in {a} THEN allowance[b] - Bytes(1)
                                           ELSE allowance[b]
    BY <1>10, <2>1 DEF AdmitRequest
  <2>3. QED
    BY <1>3, <1>10, <2>1, <2>2, ChargedForPeriod
<1>11. ASSUME NEW b \in Buckets, PeriodBegins(b), UNCHANGED vars
       PROVE  PeriodInv'
  <2>1. allowance' = allowance
    BY <1>11 DEF vars
  <2>2. QED
    BY <1>3, <1>11, <2>1, BeginsPeriod DEF PeriodInv
<1>12. QED
  BY <1>4, <1>5, <1>6, <1>7, <1>8, <1>9, <1>10, <1>11 DEF PeriodNext

(* The limits as the setters describe them: in a period of any length, whenever
   it begins, a bucket lets through no more than its limit allows for that time
   and one burst. (The allowance of the model does not occur in this.) *)
THEOREM LimitInEveryPeriod == PeriodSpec => [](\A b \in Buckets : KeepsLimit(b))
<1>1. PeriodInit => PeriodInv
  <2> SUFFICES ASSUME PeriodInit PROVE PeriodInv
    OBVIOUS
  <2>1. BucketInv
    BY InitBuckets DEF PeriodInit
  <2>2. ASSUME NEW b \in Buckets
        PROVE  /\ allowance[b] <= Burst(b)
               /\ allowance[b] + spent[b] <= Burst(b) + Rate(b) * elapsed[b]
    <3>1. allowance[b] = Burst(b) /\ spent[b] = 0 /\ elapsed[b] = 0
      BY DEF PeriodInit, Init
    <3>2. Burst(b) \in Nat /\ Rate(b) * 0 = 0
      BY BurstTypes, SMT
    <3>3. QED
      BY <3>1, <3>2, SMT
  <2>3. QED
    BY <2>1, <2>2 DEF PeriodInit, PeriodInv
<1>2. PeriodInv => \A b \in Buckets : KeepsLimit(b)
  <2> SUFFICES ASSUME PeriodInv, NEW b \in Buckets PROVE KeepsLimit(b)
    OBVIOUS
  <2>1. allowance[b] >= 0
    BY BucketsRespected DEF PeriodInv, RateRespected, Respected
  <2>2. /\ spent[b] \in Nat /\ allowance[b] \in Int
        /\ Burst(b) \in Nat /\ Rate(b) * elapsed[b] \in Nat
        /\ allowance[b] + spent[b] <= Burst(b) + Rate(b) * elapsed[b]
    BY BurstTypes, Product DEF PeriodInv, BucketInv, TypeOK
  <2>3. QED
    BY <2>1, <2>2, SMT DEF KeepsLimit
<1>3. QED
  BY <1>1, <1>2, PeriodStep, PTL DEF PeriodSpec
=============================================================================
