-------------------------- MODULE Download_proofs ---------------------------
(***************************************************************************)
(* Download is correct for every file, window, number space, number of     *)
(* retries and of sessions, with or without duplication and whatever fails *)
(* at either end, if the network delivers no OACK late and no datagram     *)
(* when the block numbers have gone round.                                 *)
(***************************************************************************)
EXTENDS Download, Blocks_proofs, FiniteSetTheorems, SequenceTheorems

(* m_retries counts up to one more than m_maxRetries. *)
LEMMA ZeroRetries == 0 \in 0..MaxRetries + 1 /\ 0 <= MaxRetries
BY BlocksAssumption, SMT

(* m_readTasksActive is a number: only finitely many tasks are under way.   *)
LEMMA ReadTasksCount ==
    ASSUME NEW s \in Session, InOrder(s)
    PROVE  Cardinality(s.readTasks) \in Nat
<1>1. IsFiniteSet((s.currentBlock + 1)..(s.nextBlockToSend - 1))
  BY FS_Interval DEF Session
<1>2. IsFiniteSet(s.readTasks)
  BY <1>1, FS_Subset DEF InOrder
<1>3. QED
  BY <1>2, FS_CardinalityType

(* What a session sent is at most a window beyond what was acknowledged.    *)
LEMMA WindowBound ==
    ASSUME NEW s \in Session, InOrder(s)
    PROVE  s.currentBlock <= s.lastAckedBlock + Window
<1>1. /\ s.currentBlock < s.nextBlockToSend
      /\ s.nextBlockToSend <= s.lastAckedBlock + Window + 1
  BY DEF InOrder
<1>2. /\ s.currentBlock \in Nat
      /\ s.nextBlockToSend \in Nat
      /\ s.lastAckedBlock \in Nat
  BY DEF Session
<1>3. QED
  BY <1>1, <1>2, BlocksAssumption, SMT

(* The members that onDataBlockRead changes, with values of their types.    *)
LEMMA SessionUpdate ==
    ASSUME NEW s \in Session, NEW tasks \in SUBSET Nat, NEW buffer \in SUBSET Nat,
           NEW current \in Nat, NEW last \in BOOLEAN, NEW cache \in SUBSET Nat,
           NEW timer \in BOOLEAN
    PROVE  [s EXCEPT !.readTasks = tasks,
                     !.readBuffer = buffer,
                     !.currentBlock = current,
                     !.sentLastBlock = last,
                     !.windowCache = cache,
                     !.timer = timer] \in Session
BY DEF Session

(* fillWindow() starts reads beyond those under way, within the window, and *)
(* changes nothing else.                                                    *)
LEMMA FillWindowInOrder ==
    ASSUME NEW s \in Session, InOrder(s)
    PROVE  LET f == FillWindow(s)
           IN  /\ f \in Session
               /\ InOrder(f)
               /\ f.state = s.state
               /\ f.oackPending = s.oackPending
               /\ f.currentBlock = s.currentBlock
               /\ f.lastAckedBlock = s.lastAckedBlock
               /\ f.retries = s.retries
               /\ f.cut = s.cut
<1> DEFINE last == LastToRead(s)
<1>1. last \in Int /\ last <= s.lastAckedBlock + Window
  BY ReadTasksCount, BlocksAssumption, SMT DEF LastToRead, Session
<1>2. CASE s.sentLastBlock \/ last < s.nextBlockToSend
  BY <1>2 DEF FillWindow
<1>3. CASE ~(s.sentLastBlock \/ last < s.nextBlockToSend)
  <2> DEFINE f == [s EXCEPT
                    !.readTasks = @ \cup (s.nextBlockToSend..last),
                    !.nextBlockToSend = last + 1]
  <2>1. FillWindow(s) = f
    BY <1>3 DEF FillWindow
  <2>2. /\ s.nextBlockToSend..last \subseteq Nat
        /\ last + 1 \in Nat
    BY <1>1, <1>3, SMT DEF Session
  <2>3. f \in Session
    BY <2>2 DEF Session
  <2>4. /\ f.state = s.state
        /\ f.oackPending = s.oackPending
        /\ f.currentBlock = s.currentBlock
        /\ f.nextBlockToSend = last + 1
        /\ f.lastAckedBlock = s.lastAckedBlock
        /\ f.sentLastBlock = s.sentLastBlock
        /\ f.readTasks = s.readTasks \cup (s.nextBlockToSend..last)
        /\ f.readBuffer = s.readBuffer
        /\ f.windowCache = s.windowCache
        /\ f.retries = s.retries
        /\ f.cut = s.cut
    BY DEF Session
  <2> HIDE DEF f
  <2>5. InOrder(f)
    <3>1. /\ f.lastAckedBlock <= f.currentBlock
          /\ f.currentBlock < f.nextBlockToSend
          /\ f.nextBlockToSend <= f.lastAckedBlock + Window + 1
      BY <1>1, <1>3, <2>4, BlocksAssumption, SMT DEF InOrder, Session
    <3>2. /\ f.windowCache = (f.lastAckedBlock + 1)..f.currentBlock
          /\ f.sentLastBlock => N <= f.currentBlock
      BY <2>4 DEF InOrder
    <3>3. /\ f.readBuffer \subseteq (f.currentBlock + 1)..(f.nextBlockToSend - 1)
          /\ f.readTasks \subseteq (f.currentBlock + 1)..(f.nextBlockToSend - 1)
          /\ f.readBuffer \cap f.readTasks = {}
      BY <1>1, <1>3, <2>4, SMT DEF InOrder, Session
    <3>4. QED
      BY <3>1, <3>2, <3>3 DEF InOrder
  <2>6. QED
    BY <2>1, <2>3, <2>4, <2>5
<1>4. QED
  BY <1>2, <1>3

(* What a session whose reads all succeed sends are blocks of the file.     *)
LEMMA DataOfUncut ==
    ASSUME NEW t \in Tids, NEW s, s.cut = {}, NEW S \in SUBSET Nat
    PROVE  /\ DataOf(t, s, S) = {Data("client", t, x, Payload(x)) : x \in S}
           /\ DataOf(t, s, S) \in SUBSET Message
<1>1. \A x \in S : PayloadOf(s, x) = Payload(x)
  BY DEF PayloadOf
<1>2. DataOf(t, s, S) = {Data("client", t, x, Payload(x)) : x \in S}
  BY <1>1 DEF DataOf
<1>3. \A x \in S : Data("client", t, x, Payload(x)) \in Message
  BY PayloadType DEF Data, Message, Ops
<1>4. QED
  BY <1>2, <1>3

(* A short block that was read without a fault is the last of the file.     *)
LEMMA ShortIsLast ==
    ASSUME NEW s, s.cut = {}, NEW k \in Nat, IsShort(s, k), k # 0
    PROVE  N <= k
BY BlocksAssumption, SMT DEF IsShort, PayloadOf, Payload

-----------------------------------------------------------------------------
\* What a step of one side leaves true of the other

(* Datagrams leave and enter the network: it holds old ones and new ones.   *)
LEMMA NetStep ==
    ASSUME NetTypeOK, NEW m, NEW R \in SUBSET Message,
           Deliver(m, R) \/ Send(R) \/ Lose(m) \/ Discard(m)
    PROVE  NetTypeOK' /\ net' \subseteq net \cup R
<1>1. net' \subseteq net \cup R
  BY DEF Deliver, Send, Lose, Discard
<1>2. losses' \in 0..MaxLosses
  BY NetworkAssumption, SMT DEF NetTypeOK, Deliver, Send, Lose, Discard
<1>3. QED
  BY <1>1, <1>2 DEF NetTypeOK

(* The datagrams a session sends. *)
SessionMessages(t, r) ==
    {Data("client", t, x, Payload(x)) : x \in 1..r.currentBlock}
        \cup {Oack(t), Msg("ERROR", "client", t, 0), Msg("ERROR", "client", NoTid, 0)}

(* A step of session t that leaves it in order, and acknowledged no further *)
(* than the client got, keeps the invariant.                                *)
LEMMA SessionStep ==
    ASSUME IInv, NEW t \in Tids, NEW r \in Session,
           sessions' = [sessions EXCEPT ![t] = r],
           UNCHANGED <<client, receiveBuffer, file>>,
           NetTypeOK',
           net' \subseteq net \cup SessionMessages(t, r),
           SessionInv(r),
           sessions[t].currentBlock <= r.currentBlock,
           \/ r.lastAckedBlock = sessions[t].lastAckedBlock
           \/ t = client.tid /\ r.lastAckedBlock <= client.block
    PROVE  IInv'
<1> USE DEF IInv
<1>0. /\ sessions \in [Tids -> Session]
      /\ client \in Client
      /\ \A u \in Tids : sessions'[u] = IF u = t THEN r ELSE sessions[u]
  BY DEF TypeOK, SessionsTypeOK, ClientTypeOK
<1>a. \A u \in Tids : /\ sessions[u].currentBlock \in Nat
                       /\ sessions'[u].currentBlock \in Nat
                       /\ sessions[u].currentBlock <= sessions'[u].currentBlock
  BY <1>0, SMT DEF Session
<1>1. TypeOK'
  <2>1. SessionsTypeOK'
    BY <1>0 DEF SessionsTypeOK
  <2>2. ClientTypeOK'
    BY DEF ClientTypeOK, TypeOK
  <2>3. QED
    BY <2>1, <2>2 DEF TypeOK
<1>2. (\A u \in Tids : SessionInv(sessions[u]))'
  BY <1>0
<1>3. ASSUME NEW m \in net' PROVE MessageInv(m)'
  <2>1. CASE m \in net
    <3>1. MessageInv(m)
      BY <2>1
    <3>2. m \in Message
      BY <2>1 DEF TypeOK, NetTypeOK
    <3>3. m.op = "DATA" => /\ m.blk \in 1..sessions'[m.tid].currentBlock
                           /\ m.payload = Payload(m.blk)
      BY <1>a, <3>1, <3>2, SMT DEF MessageInv, Message
    <3>4. QED
      BY <3>1, <3>3 DEF MessageInv
  <2>2. CASE m \in SessionMessages(t, r)
    <3>1. CASE \E x \in 1..r.currentBlock : m = Data("client", t, x, Payload(x))
      <4>1. PICK x \in 1..r.currentBlock : m = Data("client", t, x, Payload(x))
        BY <3>1
      <4>2. m.op = "DATA" /\ m.to = "client" /\ m.tid = t /\ m.blk = x
            /\ m.payload = Payload(x)
        BY <4>1 DEF Data
      <4>3. QED
        BY <1>0, <4>2 DEF MessageInv
    <3>2. CASE m = Oack(t)
      BY <3>2 DEF MessageInv, Oack, Msg
    <3>3. CASE m \in {Msg("ERROR", "client", t, 0), Msg("ERROR", "client", NoTid, 0)}
      BY <3>3 DEF MessageInv, Msg
    <3>4. QED
      BY <2>2, <3>1, <3>2, <3>3 DEF SessionMessages
  <2>3. QED
    BY <2>1, <2>2
<1>4. ASSUME NEW u \in Tids PROVE AckInv(u)'
  <2>1. AckInv(u)
    OBVIOUS
  <2>2. client.block \in Nat
    BY <1>0 DEF Client
  <2>3. CASE u # t
    BY <1>0, <2>1, <2>3 DEF AckInv
  <2>4. CASE u = t
    BY <1>0, <1>a, <2>1, <2>2, <2>4, SMT DEF AckInv
  <2>5. QED
    BY <2>3, <2>4
<1>5. BufferInv'
  <2>1. ASSUME NEW b \in DOMAIN receiveBuffer
        PROVE  /\ client.tid \in Tids
               /\ b \in (client.block + 1)..sessions'[client.tid].currentBlock
               /\ receiveBuffer[b] = Payload(b)
    <3>1. /\ client.tid \in Tids
          /\ b \in (client.block + 1)..sessions[client.tid].currentBlock
          /\ receiveBuffer[b] = Payload(b)
      BY DEF BufferInv
    <3>2. client.block \in Nat
      BY <1>0 DEF Client
    <3>3. QED
      BY <1>a, <3>1, <3>2, SMT
  <2>2. QED
    BY <2>1 DEF BufferInv
<1>6. FileInv' /\ ClientInv'
  BY DEF FileInv, ClientInv, Running
<1>7. QED
  BY <1>1, <1>2, <1>3, <1>4, <1>5, <1>6

(* A step of the client (or of nobody but the network) that gets no further *)
(* than its session has sent keeps the invariant.                           *)
LEMMA ClientStep ==
    ASSUME IInv, NEW R,
           UNCHANGED sessions,
           ClientTypeOK',
           NetTypeOK',
           net' \subseteq net \cup R,
           \A m \in R : MessageInv(m)',
           client'.tid = client.tid \/ client.tid = NoTid,
           client.block <= client'.block,
           client'.tid \in Tids =>
               client'.block <= sessions[client'.tid].currentBlock,
           BufferInv', FileInv', ClientInv'
    PROVE  IInv'
<1> USE DEF IInv
<1>0. /\ sessions \in [Tids -> Session]
      /\ client \in Client
      /\ client' \in Client
  BY DEF TypeOK, SessionsTypeOK, ClientTypeOK
<1>a. /\ client.block \in Nat
      /\ client'.block \in Nat
      /\ client.tid \in Tids \cup {NoTid}
      /\ \A u \in Tids : sessions[u].lastAckedBlock \in Nat
  BY <1>0 DEF Client, Session
<1>1. TypeOK'
  BY DEF TypeOK, SessionsTypeOK
<1>2. (\A u \in Tids : SessionInv(sessions[u]))'
  OBVIOUS
<1>3. ASSUME NEW m \in net' PROVE MessageInv(m)'
  <2>1. CASE m \in net
    <3>1. MessageInv(m) /\ m \in Message
      BY <2>1 DEF TypeOK, NetTypeOK
    <3>2. m.op = "ACK" => m.tid \in Tids /\ m.tid = client'.tid
      BY <3>1, NetworkAssumption DEF MessageInv
    <3>3. m.op = "ACK" => m.blk <= client'.block
      BY <1>a, <3>1, SMT DEF MessageInv, Message
    <3>4. QED
      BY <3>1, <3>2, <3>3 DEF MessageInv
  <2>2. CASE m \in R
    BY <2>2
  <2>3. QED
    BY <2>1, <2>2
<1>4. ASSUME NEW u \in Tids PROVE AckInv(u)'
  <2>1. AckInv(u)
    OBVIOUS
  <2>2. CASE client.tid = NoTid
    <3>1. sessions[u].lastAckedBlock = 0
      BY <2>1, <2>2, NetworkAssumption DEF AckInv
    <3>2. QED
      BY <1>a, <3>1, SMT DEF AckInv
  <2>3. CASE client'.tid = client.tid
    BY <1>a, <2>1, <2>3, SMT DEF AckInv
  <2>4. QED
    BY <2>2, <2>3
<1>5. QED
  BY <1>1, <1>2, <1>3, <1>4

-----------------------------------------------------------------------------
\* The server's steps

(* A new session. *)
LEMMA SessionStartsStep ==
    ASSUME IInv, NEW t \in Tids, SessionStarts(t)
    PROVE  IInv'
<1>1. PICK m \in net : \/ StartSession(m, t)
                        \/ StartFailsToBind(m, t)
                        \/ StartFailsToOpen(m, t)
  BY DEF SessionStarts
<1>2. /\ UNCHANGED <<client, receiveBuffer, file>>
      /\ sessions \in [Tids -> Session]
      /\ NetTypeOK
  BY DEF SessionStarts, IInv, TypeOK, SessionsTypeOK
<1>3. /\ sessions[t] \in Session
      /\ sessions[t].state = "unused"
      /\ InOrder(sessions[t])
      /\ NothingSent(sessions[t])
      /\ ~sessions[t].oackPending
      /\ sessions[t].retries <= MaxRetries
      /\ sessions[t].cut = {}
  BY <1>1, <1>2 DEF StartSession, StartFailsToBind, StartFailsToOpen, IInv, SessionInv
<1>4. /\ {Oack(t)} \in SUBSET Message
      /\ {Msg("ERROR", "client", t, 0)} \in SUBSET Message
      /\ {} \in SUBSET Message
  BY PayloadType DEF Message, Oack, Msg, Ops
<1> DEFINE s == [sessions[t] EXCEPT !.state = "active"]
           o == [s EXCEPT !.oackPending = TRUE, !.timer = TRUE]
           e == Finish(sessions[t], "failed")
<1>5. s \in Session /\ InOrder(s) /\ NothingSent(s) /\ s.state = "active"
      /\ ~s.oackPending
      /\ s.retries <= MaxRetries
      /\ s.cut = {}
      /\ s.currentBlock = sessions[t].currentBlock
      /\ s.lastAckedBlock = sessions[t].lastAckedBlock
  BY <1>3 DEF Session, InOrder, NothingSent
<1>6. CASE StartSession(m, t) /\ Options
  <2>1. o \in Session /\ SessionInv(o)
        /\ o.currentBlock = sessions[t].currentBlock
        /\ o.lastAckedBlock = sessions[t].lastAckedBlock
    BY <1>3, <1>5 DEF Session, SessionInv, InOrder, NothingSent
  <2>2. /\ sessions' = [sessions EXCEPT ![t] = o]
        /\ Deliver(m, {Oack(t)})
    BY <1>6 DEF StartSession
  <2> HIDE DEF o
  <2>3. NetTypeOK' /\ net' \subseteq net \cup {Oack(t)}
    BY <1>2, <1>4, <2>2, NetStep
  <2>4. sessions[t].currentBlock <= o.currentBlock
    BY <1>3, <2>1, SMT DEF Session
  <2>5. QED
    BY <1>2, <2>1, <2>2, <2>3, <2>4, SessionStep DEF SessionMessages
<1>7. CASE StartSession(m, t) /\ ~Options
  <2> DEFINE f == FillWindow(s)
  <2> HIDE DEF s
  <2>1. /\ f \in Session /\ InOrder(f)
        /\ f.state = "active"
        /\ f.oackPending = s.oackPending
        /\ f.retries = s.retries
        /\ f.cut = s.cut
        /\ f.currentBlock = sessions[t].currentBlock
        /\ f.lastAckedBlock = sessions[t].lastAckedBlock
    BY <1>5, FillWindowInOrder
  <2>2. /\ sessions' = [sessions EXCEPT ![t] = f]
        /\ Deliver(m, {})
    BY <1>7 DEF StartSession, s
  <2> HIDE DEF f
  <2>3. SessionInv(f)
    BY <1>5, <2>1 DEF SessionInv
  <2>4. NetTypeOK' /\ net' \subseteq net
    BY <1>2, <1>4, <2>2, NetStep
  <2>5. sessions[t].currentBlock <= f.currentBlock
    BY <1>3, <2>1, SMT DEF Session
  <2>6. QED
    BY <1>2, <2>1, <2>2, <2>3, <2>4, <2>5, SessionStep
<1>8. CASE StartFailsToBind(m, t) \/ StartFailsToOpen(m, t)
  <2>1. e \in Session /\ SessionInv(e)
        /\ e.currentBlock = sessions[t].currentBlock
        /\ e.lastAckedBlock = sessions[t].lastAckedBlock
    BY <1>3 DEF Session, SessionInv, InOrder, NothingSent, Finish
  <2>2. /\ sessions' = [sessions EXCEPT ![t] = e]
        /\ Deliver(m, {}) \/ Deliver(m, {Msg("ERROR", "client", t, 0)})
    BY <1>8 DEF StartFailsToBind, StartFailsToOpen
  <2> HIDE DEF e
  <2>3. NetTypeOK' /\ net' \subseteq net \cup {Msg("ERROR", "client", t, 0)}
    BY <1>2, <1>4, <2>2, NetStep
  <2>4. sessions[t].currentBlock <= e.currentBlock
    BY <1>3, <2>1, SMT DEF Session
  <2>5. QED
    BY <1>2, <2>1, <2>2, <2>3, <2>4, SessionStep DEF SessionMessages
<1>9. QED
  BY <1>1, <1>6, <1>7, <1>8

(* A block that was read is sent with those that waited for it. *)
LEMMA BlockReadStep ==
    ASSUME IInv, NEW t \in Tids, NEW b, BlockRead(t, b),
           UNCHANGED <<client, receiveBuffer, file>>
    PROVE  IInv'
<1> DEFINE s == sessions[t]
           read == s.readBuffer \cup {b}
           sent(k) == (s.currentBlock + 1)..k
           r(k) == [s EXCEPT
                    !.readTasks = @ \ {b},
                    !.readBuffer = read \ sent(k),
                    !.currentBlock = k,
                    !.sentLastBlock = IF sent(k) = {} THEN @ ELSE IsShort(s, k),
                    !.windowCache = @ \cup sent(k),
                    !.timer = @ \/ sent(k) # {}]
<1>1. PICK k \in s.currentBlock..(s.nextBlockToSend - 1) :
        /\ IsRunEnd(read, s.currentBlock, k)
        /\ sessions' = [sessions EXCEPT ![t] = FillWindow(r(k))]
        /\ Send(DataOf(t, s, sent(k)))
  <2>1. [s EXCEPT !.cut = s.cut] = s
    BY DEF IInv, TypeOK, SessionsTypeOK, Session
  <2>2. SendRead(t, b, s.cut)
    BY DEF BlockRead
  <2> HIDE DEF s
  <2>3. QED
    BY <2>1, <2>2 DEF SendRead, s
<1>2. /\ s \in Session
      /\ s.state = "active"
      /\ b \in s.readTasks
      /\ SessionInv(s)
      /\ InOrder(s)
      /\ NetTypeOK
  BY DEF IInv, TypeOK, SessionsTypeOK, BlockRead, SendRead, Active, SessionInv
<1>3. ~s.oackPending /\ s.retries <= MaxRetries /\ s.cut = {}
  BY <1>2 DEF SessionInv, NothingSent
<1> DEFINE q == r(k)
<1>4. k \in Nat /\ sent(k) \subseteq Nat /\ b \in Nat
  BY <1>1, <1>2, SMT DEF Session
<1>5. q \in Session
  <2>1. (IF sent(k) = {} THEN s.sentLastBlock ELSE IsShort(s, k)) \in BOOLEAN
    <3>1. s.sentLastBlock \in BOOLEAN
      BY <1>2 DEF Session
    <3>2. IsShort(s, k) \in BOOLEAN
      BY DEF IsShort
    <3>3. QED
      BY <3>1, <3>2
  <2>2. (s.timer \/ sent(k) # {}) \in BOOLEAN
    OBVIOUS
  <2>3. /\ s.readTasks \ {b} \in SUBSET Nat
        /\ read \ sent(k) \in SUBSET Nat
        /\ s.windowCache \cup sent(k) \in SUBSET Nat
    BY <1>2, <1>4 DEF Session
  <2> DEFINE tasks == s.readTasks \ {b}
             buffer == read \ sent(k)
             last == IF sent(k) = {} THEN s.sentLastBlock ELSE IsShort(s, k)
             cache == s.windowCache \cup sent(k)
             timer == s.timer \/ sent(k) # {}
  <2>4. [s EXCEPT !.readTasks = tasks,
                  !.readBuffer = buffer,
                  !.currentBlock = k,
                  !.sentLastBlock = last,
                  !.windowCache = cache,
                  !.timer = timer] \in Session
    <3>1. /\ tasks \in SUBSET Nat /\ buffer \in SUBSET Nat /\ last \in BOOLEAN
          /\ cache \in SUBSET Nat /\ timer \in BOOLEAN
      BY <2>1, <2>2, <2>3
    <3> HIDE DEF tasks, buffer, last, cache, timer, s
    <3>2. QED
      BY <1>2, <1>4, <3>1, SessionUpdate
  <2>5. QED
    BY <2>4
<1>6. /\ q.state = "active"
      /\ ~q.oackPending
      /\ q.currentBlock = k
      /\ q.nextBlockToSend = s.nextBlockToSend
      /\ q.lastAckedBlock = s.lastAckedBlock
      /\ q.sentLastBlock = IF sent(k) = {} THEN s.sentLastBlock ELSE IsShort(s, k)
      /\ q.readTasks = s.readTasks \ {b}
      /\ q.readBuffer = read \ sent(k)
      /\ q.windowCache = s.windowCache \cup sent(k)
      /\ q.retries <= MaxRetries
      /\ q.cut = {}
  BY <1>2, <1>3 DEF Session
<1>7. InOrder(q)
  <2> HIDE DEF q
  <2>1. /\ s.currentBlock \in Nat
        /\ s.lastAckedBlock \in Nat
        /\ s.nextBlockToSend \in Nat
        /\ s.currentBlock <= k
        /\ k < s.nextBlockToSend
    BY <1>1, <1>2, SMT DEF Session
  <2>2. /\ q.lastAckedBlock <= q.currentBlock
        /\ q.currentBlock < q.nextBlockToSend
        /\ q.nextBlockToSend <= q.lastAckedBlock + Window + 1
    BY <1>2, <1>6, <2>1, SMT DEF InOrder
  <2>3. q.windowCache = (q.lastAckedBlock + 1)..q.currentBlock
    BY <1>2, <1>6, <2>1, SMT DEF InOrder
  <2>4. sent(k) \subseteq read
    BY <1>1 DEF IsRunEnd
  <2>5. sent(k) \cap q.readTasks = {}
    BY <1>2, <1>6, <2>4 DEF InOrder
  <2>6. /\ q.readTasks \subseteq (s.currentBlock + 1)..(s.nextBlockToSend - 1)
        /\ q.readBuffer \subseteq (s.currentBlock + 1)..(s.nextBlockToSend - 1)
        /\ q.readBuffer \cap sent(k) = {}
        /\ q.readBuffer \cap q.readTasks = {}
    BY <1>2, <1>6 DEF InOrder
  <2>7. /\ q.readTasks \subseteq (q.currentBlock + 1)..(q.nextBlockToSend - 1)
        /\ q.readBuffer \subseteq (q.currentBlock + 1)..(q.nextBlockToSend - 1)
    BY <1>6, <2>1, <2>5, <2>6, SMT
  <2>8. q.sentLastBlock => N <= q.currentBlock
    <3>1. CASE sent(k) = {}
      <4>1. k = s.currentBlock
        <5>1. s.currentBlock + 1 \notin sent(k)
          BY <3>1
        <5>2. QED
          BY <1>4, <2>1, <5>1, SMT
      <4>2. QED
        BY <1>2, <1>6, <3>1, <4>1 DEF InOrder
    <3>2. CASE sent(k) # {}
      <4>1. k # 0
        BY <1>4, <2>1, <3>2, SMT
      <4>2. QED
        BY <1>3, <1>4, <1>6, <3>2, <4>1, ShortIsLast
    <3>3. QED
      BY <3>1, <3>2
  <2>9. QED
    BY <2>2, <2>3, <2>6, <2>7, <2>8 DEF InOrder
<1> DEFINE f == FillWindow(q)
<1> HIDE DEF q
<1>8. /\ f \in Session /\ InOrder(f)
      /\ f.state = "active"
      /\ ~f.oackPending
      /\ f.retries <= MaxRetries
      /\ f.cut = {}
      /\ f.currentBlock = k
      /\ f.lastAckedBlock = s.lastAckedBlock
  BY <1>5, <1>6, <1>7, FillWindowInOrder
<1>9. sessions' = [sessions EXCEPT ![t] = f]
  BY <1>1 DEF q
<1> HIDE DEF f
<1>10. SessionInv(f)
  BY <1>8 DEF SessionInv
<1>11. NetTypeOK' /\ net' \subseteq net \cup DataOf(t, s, sent(k))
  <2>1. DataOf(t, s, sent(k)) \in SUBSET Message
    BY <1>3, <1>4, DataOfUncut
  <2>2. QED
    BY <1>1, <1>2, <2>1, NetStep
<1>12. DataOf(t, s, sent(k)) \subseteq SessionMessages(t, f)
  <2>1. sent(k) \subseteq 1..f.currentBlock
    BY <1>2, <1>4, <1>8, SMT DEF Session
  <2>2. DataOf(t, s, sent(k)) = {Data("client", t, x, Payload(x)) : x \in sent(k)}
    BY <1>3, <1>4, DataOfUncut
  <2>3. QED
    BY <2>1, <2>2 DEF SessionMessages
<1>13. s.currentBlock <= f.currentBlock
  BY <1>1, <1>2, <1>8, SMT DEF Session
<1>14. QED
  BY <1>8, <1>9, <1>10, <1>11, <1>12, <1>13, SessionStep

(* A block that was not read, or for a session that is over, is forgotten. *)
LEMMA BlockReadIgnoredStep ==
    ASSUME IInv, NEW t \in Tids, NEW b, BlockReadIgnored(t, b),
           UNCHANGED <<client, receiveBuffer, file>>
    PROVE  IInv'
<1> DEFINE s == sessions[t]
           r == [s EXCEPT !.readTasks = @ \ {b}]
<1>1. s \in Session /\ SessionInv(s) /\ NetTypeOK /\ sessions \in [Tids -> Session]
  BY DEF IInv, TypeOK, SessionsTypeOK
<1>2. sessions' = [sessions EXCEPT ![t] = r]
  BY <1>1 DEF BlockReadIgnored
<1>3. r \in Session
  BY <1>1 DEF Session
<1>4. SessionInv(r)
  BY <1>1 DEF SessionInv, InOrder, NothingSent, Session
<1>5. /\ r.currentBlock = s.currentBlock
      /\ r.lastAckedBlock = s.lastAckedBlock
      /\ s.currentBlock <= r.currentBlock
  BY <1>1, SMT DEF Session
<1>6. NetTypeOK' /\ net' = net
  BY <1>1 DEF BlockReadIgnored, NetTypeOK
<1> HIDE DEF r
<1>7. QED
  BY <1>2, <1>3, <1>4, <1>5, <1>6, SessionStep

(* ACK 0 after an OACK starts the transfer. *)
LEMMA AckOfOackStep ==
    ASSUME IInv, NEW t \in Tids, NEW m \in net,
           SessionReceivesAckOfOack(m, t),
           UNCHANGED <<client, receiveBuffer, file>>
    PROVE  IInv'
<1> DEFINE s == sessions[t]
           r == [s EXCEPT !.retries = 0, !.oackPending = FALSE,
                          !.lastAckedBlock = 0, !.nextBlockToSend = 1,
                          !.windowCache = {}]
           f == FillWindow(r)
<1>1. s \in Session /\ SessionInv(s) /\ NetTypeOK /\ sessions \in [Tids -> Session]
  BY DEF IInv, TypeOK, SessionsTypeOK
<1>2. NetTypeOK' /\ net' \subseteq net
  BY <1>1, NetStep DEF SessionReceivesAckOfOack
<1>3. /\ s.oackPending
      /\ s.state = "active"
      /\ NothingSent(s)
      /\ InOrder(s)
  BY <1>1 DEF SessionReceivesAckOfOack, SessionInv, Active
<1>4. CASE Wire(m.blk) = 0
  <2>1. sessions' = [sessions EXCEPT ![t] = f]
    BY <1>1, <1>4 DEF SessionReceivesAckOfOack
  <2>2. r \in Session
    BY <1>1, ZeroRetries DEF Session
  <2>3. /\ InOrder(r)
        /\ r.state = "active"
        /\ ~r.oackPending
        /\ r.retries <= MaxRetries
        /\ r.cut = {}
        /\ r.currentBlock = s.currentBlock
        /\ r.lastAckedBlock = s.lastAckedBlock
    BY <1>1, <1>3, ZeroRetries DEF SessionInv, InOrder, NothingSent, Session
  <2> HIDE DEF r
  <2>4. /\ f \in Session /\ InOrder(f)
        /\ f.state = "active"
        /\ ~f.oackPending
        /\ f.retries <= MaxRetries
        /\ f.cut = {}
        /\ f.currentBlock = s.currentBlock
        /\ f.lastAckedBlock = s.lastAckedBlock
    BY <2>2, <2>3, FillWindowInOrder
  <2> HIDE DEF f
  <2>5. SessionInv(f)
    BY <2>4 DEF SessionInv
  <2>6. s.currentBlock <= f.currentBlock
    BY <1>1, <2>4, SMT DEF Session
  <2>7. QED
    BY <1>2, <2>1, <2>4, <2>5, <2>6, SessionStep
<1>5. CASE Wire(m.blk) # 0
  <2>1. sessions' = [sessions EXCEPT ![t] = s]
    BY <1>1, <1>5 DEF SessionReceivesAckOfOack
  <2>2. s.currentBlock <= s.currentBlock
    BY <1>1, SMT DEF Session
  <2>3. QED
    BY <1>1, <1>2, <2>1, <2>2, SessionStep
<1>6. QED
  BY <1>4, <1>5

(* The block of windowCache that handleAck() finds is the acknowledged one, *)
(* and the client has it.                                                   *)
LEMMA AckedBlockFound ==
    ASSUME IInv, NEW t \in Tids, NEW m \in net, Fresh(m),
           m.op = "ACK", m.tid = t,
           NEW a, IsFirstMatch(sessions[t].windowCache, a, Wire(m.blk))
    PROVE  a = m.blk /\ t = client.tid /\ a <= client.block
<1> DEFINE s == sessions[t]
<1>1. /\ s \in Session
      /\ InOrder(s)
      /\ m \in Message
      /\ client \in Client
  BY DEF IInv, TypeOK, SessionsTypeOK, NetTypeOK, ClientTypeOK, SessionInv
<1>2. /\ m.to = "session"
      /\ t = client.tid
      /\ m.blk <= client.block
  BY DEF IInv, MessageInv
<1>3. client.block <= s.currentBlock
  BY <1>2 DEF IInv, AckInv
<1>4. s.currentBlock < m.blk + BlockMod
  BY <1>1, <1>2, BlocksAssumption, SMT DEF Fresh, Message, Session
<1>5. /\ s.windowCache \subseteq Nat
      /\ m.blk \in Nat
  BY <1>1 DEF Session, Message
<1>6. \A c \in s.windowCache : c < m.blk + BlockMod /\ m.blk < c + BlockMod
  <2>1. /\ s.lastAckedBlock \in Nat
        /\ s.currentBlock \in Nat
        /\ s.nextBlockToSend \in Nat
        /\ client.block \in Nat
    BY <1>1 DEF Session, Client
  <2>2. s.currentBlock <= s.lastAckedBlock + Window
    BY <1>1, WindowBound
  <2>3. s.windowCache = (s.lastAckedBlock + 1)..s.currentBlock
    BY <1>1 DEF InOrder
  <2>4. m.blk < s.lastAckedBlock + 1 + BlockMod
    BY <1>2, <1>3, <1>5, <2>1, <2>2, BlocksAssumption, SMT
  <2>5. ASSUME NEW c \in (s.lastAckedBlock + 1)..s.currentBlock
        PROVE  c < m.blk + BlockMod /\ m.blk < c + BlockMod
    BY <1>4, <1>5, <2>1, <2>4, BlocksAssumption, SMT
  <2>6. QED
    BY <2>3, <2>5
<1>7. a = m.blk
  BY <1>5, <1>6, MatchIsSame
<1>8. QED
  BY <1>2, <1>7

(* An ACK moves the window, or ends the session when it was of the last     *)
(* block sent.                                                              *)
LEMMA AckStep ==
    ASSUME IInv, NEW t \in Tids, NEW m \in net, Fresh(m),
           SessionReceivesAck(m, t),
           UNCHANGED <<client, receiveBuffer, file>>
    PROVE  IInv'
<1> DEFINE s == sessions[t]
<1>1. /\ s \in Session /\ SessionInv(s) /\ InOrder(s)
      /\ NetTypeOK /\ sessions \in [Tids -> Session]
  BY DEF IInv, TypeOK, SessionsTypeOK, SessionInv
<1>2. NetTypeOK' /\ net' \subseteq net
  BY <1>1, NetStep DEF SessionReceivesAck
<1>3. s.state = "active" /\ ~s.oackPending /\ s.cut = {}
  BY <1>1 DEF SessionReceivesAck, Active, SessionInv
<1>4. CASE sessions' = sessions
  <2>1. sessions' = [sessions EXCEPT ![t] = s]
    BY <1>1, <1>4
  <2>2. s.currentBlock <= s.currentBlock
    BY <1>1, SMT DEF Session
  <2>3. QED
    BY <1>1, <1>2, <2>1, <2>2, SessionStep
<1>5. ASSUME NEW a \in s.windowCache,
             IsFirstMatch(s.windowCache, a, Wire(m.blk)),
             a > s.lastAckedBlock,
             sessions' = [sessions EXCEPT ![t] = AckBlock(s, a)]
      PROVE  IInv'
  <2>1. t = client.tid /\ a <= client.block
    BY <1>5, AckedBlockFound DEF SessionReceivesAck
  <2>2. a \in Nat /\ a <= s.currentBlock
    BY <1>1, <1>5, SMT DEF InOrder, Session
  <2> DEFINE q == [s EXCEPT !.retries = 0,
                            !.windowCache = @ \ ((s.lastAckedBlock + 1)..a),
                            !.lastAckedBlock = a]
  <2>3. q \in Session
    <3>1. s.windowCache \ ((s.lastAckedBlock + 1)..a) \in SUBSET Nat
      BY <1>1 DEF Session
    <3>2. QED
      BY <1>1, <2>2, <3>1, ZeroRetries DEF Session
  <2>4. /\ q.state = "active"
        /\ ~q.oackPending
        /\ q.retries <= MaxRetries
        /\ q.cut = {}
        /\ q.currentBlock = s.currentBlock
        /\ q.nextBlockToSend = s.nextBlockToSend
        /\ q.lastAckedBlock = a
        /\ q.sentLastBlock = s.sentLastBlock
        /\ q.readTasks = s.readTasks
        /\ q.readBuffer = s.readBuffer
        /\ q.windowCache = s.windowCache \ ((s.lastAckedBlock + 1)..a)
    BY <1>1, <1>3, ZeroRetries DEF Session
  <2> HIDE DEF q
  <2>5. InOrder(q)
    <3>1. /\ q.lastAckedBlock <= q.currentBlock
          /\ q.currentBlock < q.nextBlockToSend
          /\ q.nextBlockToSend <= q.lastAckedBlock + Window + 1
      BY <1>1, <1>5, <2>2, <2>4, BlocksAssumption, SMT DEF InOrder, Session
    <3>2. q.windowCache = (q.lastAckedBlock + 1)..q.currentBlock
      BY <1>1, <1>5, <2>2, <2>4, SMT DEF InOrder, Session
    <3>3. QED
      BY <1>1, <2>4, <3>1, <3>2 DEF InOrder
  <2>6. CASE q.sentLastBlock /\ q.windowCache = {}
    <3> DEFINE e == Finish(q, "ok")
    <3>1. AckBlock(s, a) = e
      BY <2>6 DEF AckBlock, q
    <3>2. /\ e \in Session /\ InOrder(e)
          /\ ~e.oackPending
          /\ e.state = "ok"
          /\ e.cut = {}
          /\ e.currentBlock = s.currentBlock
          /\ e.lastAckedBlock = a
      BY <2>3, <2>4, <2>5 DEF Finish, Session, InOrder
    <3> HIDE DEF e
    <3>3. N <= a
      <4>1. N <= s.currentBlock
        BY <2>4, <2>5, <2>6 DEF InOrder
      <4>2. s.currentBlock <= a
        BY <1>1, <2>2, <2>4, <2>5, <2>6, SMT DEF InOrder, Session
      <4>3. QED
        BY <1>1, <2>2, <4>1, <4>2, BlocksAssumption, SMT DEF Session
    <3>4. SessionInv(e)
      BY <3>2, <3>3 DEF SessionInv
    <3>5. s.currentBlock <= e.currentBlock
      BY <1>1, <3>2, SMT DEF Session
    <3>6. QED
      BY <1>2, <1>5, <2>1, <3>1, <3>2, <3>4, <3>5, SessionStep
  <2>7. CASE ~(q.sentLastBlock /\ q.windowCache = {})
    <3> DEFINE f == FillWindow(q)
    <3>1. AckBlock(s, a) = f
      BY <2>7 DEF AckBlock, q
    <3>2. /\ f \in Session /\ InOrder(f)
          /\ ~f.oackPending
          /\ f.state = "active"
          /\ f.retries <= MaxRetries
          /\ f.cut = {}
          /\ f.currentBlock = s.currentBlock
          /\ f.lastAckedBlock = a
      BY <2>3, <2>4, <2>5, FillWindowInOrder
    <3> HIDE DEF f
    <3>3. SessionInv(f)
      BY <3>2 DEF SessionInv
    <3>4. s.currentBlock <= f.currentBlock
      BY <1>1, <3>2, SMT DEF Session
    <3>5. QED
      BY <1>2, <1>5, <2>1, <3>1, <3>2, <3>3, <3>4, SessionStep
  <2>8. QED
    BY <2>6, <2>7
<1>6. QED
  <2>1. CASE NoMatch(s.windowCache, Wire(m.blk)) /\ UNCHANGED sessions
    BY <1>4, <2>1
  <2>2. ASSUME NEW a \in s.windowCache,
               IsFirstMatch(s.windowCache, a, Wire(m.blk)),
               sessions' = [sessions EXCEPT ![t] =
                    IF a > s.lastAckedBlock THEN AckBlock(s, a) ELSE s]
        PROVE  IInv'
    <3>1. CASE a > s.lastAckedBlock
      BY <1>5, <2>2, <3>1
    <3>2. CASE ~(a > s.lastAckedBlock)
      <4>1. sessions' = sessions
        BY <1>1, <2>2, <3>2
      <4>2. QED
        BY <1>4, <4>1
    <3>3. QED
      BY <3>1, <3>2
  <2>3. QED
    BY <2>1, <2>2 DEF SessionReceivesAck

(* An ERROR ends the session. *)
LEMMA ErrorStep ==
    ASSUME IInv, NEW t \in Tids, NEW m \in net,
           SessionReceivesError(m, t),
           UNCHANGED <<client, receiveBuffer, file>>
    PROVE  IInv'
<1> DEFINE s == sessions[t]
           e == Finish(s, "failed")
<1>1. s \in Session /\ SessionInv(s) /\ NetTypeOK /\ sessions \in [Tids -> Session]
  BY DEF IInv, TypeOK, SessionsTypeOK
<1>2. NetTypeOK' /\ net' \subseteq net
  BY <1>1, NetStep DEF SessionReceivesError
<1>3. s.state = "active"
  BY DEF SessionReceivesError, Active
<1>4. /\ e \in Session
      /\ SessionInv(e)
      /\ e.currentBlock = s.currentBlock
      /\ e.lastAckedBlock = s.lastAckedBlock
  BY <1>1, <1>3 DEF Finish, Session, SessionInv, InOrder, NothingSent
<1>5. sessions' = [sessions EXCEPT ![t] = e]
  BY <1>1 DEF SessionReceivesError
<1> HIDE DEF e
<1>6. s.currentBlock <= e.currentBlock
  BY <1>1, <1>4, SMT DEF Session
<1>7. QED
  BY <1>2, <1>4, <1>5, <1>6, SessionStep

(* Only the network changes, and gets what it could have had.               *)
LEMMA NetworkSends ==
    ASSUME IInv, UNCHANGED <<sessions, client, receiveBuffer, file>>, NEW R,
           NetTypeOK', net' \subseteq net \cup R, \A m \in R : MessageInv(m)'
    PROVE  IInv'
<1>1. ClientTypeOK' /\ BufferInv' /\ FileInv' /\ ClientInv'
  BY DEF IInv, TypeOK, ClientTypeOK, BufferInv, FileInv, ClientInv, Running
<1>2. client \in Client
  BY DEF IInv, TypeOK, ClientTypeOK
<1>3. /\ client.block <= client'.block
      /\ client'.tid = client.tid \/ client.tid = NoTid
  BY <1>2, SMT DEF Client
<1>4. client'.tid \in Tids =>
        client'.block <= sessions[client'.tid].currentBlock
  <2>1. client.tid \in Tids => client.block <= sessions[client.tid].currentBlock
    BY DEF IInv, AckInv
  <2>2. QED
    BY <2>1
<1>5. QED
  BY <1>1, <1>3, <1>4, ClientStep

(* Only the network changes, and gets nothing.                              *)
LEMMA NetworkStep ==
    ASSUME IInv, UNCHANGED <<sessions, client, receiveBuffer, file>>,
           NetTypeOK', net' \subseteq net
    PROVE  IInv'
<1> DEFINE R == {}
<1>1. net' \subseteq net \cup R /\ \A m \in R : MessageInv(m)'
  OBVIOUS
<1> HIDE DEF R
<1>2. QED
  BY <1>1, NetworkSends

(* Whatever a session receives. *)
LEMMA SessionReceivesStep ==
    ASSUME IInv, NEW t \in Tids, SessionReceives(t)
    PROVE  IInv'
<1>1. PICK m \in net :
        /\ Arrives(m)
        /\ \/ SessionReceivesAckOfOack(m, t)
           \/ SessionReceivesAck(m, t)
           \/ SessionReceivesError(m, t)
           \/ SessionIgnores(m, t)
  BY DEF SessionReceives
<1>2. UNCHANGED <<client, receiveBuffer, file>>
  BY DEF SessionReceives
<1>3. CASE SessionIgnores(m, t)
  <2>1. NetTypeOK' /\ net' \subseteq net
    BY <1>3, NetStep DEF SessionIgnores, IInv, TypeOK
  <2>2. QED
    BY <1>2, <1>3, <2>1, NetworkStep DEF SessionIgnores
<1>4. CASE SessionReceivesAck(m, t)
  BY <1>1, <1>2, <1>4, AckStep DEF Arrives
<1>5. CASE SessionReceivesAckOfOack(m, t)
  BY <1>2, <1>5, AckOfOackStep
<1>6. CASE SessionReceivesError(m, t)
  BY <1>2, <1>6, ErrorStep
<1>7. QED
  BY <1>1, <1>3, <1>4, <1>5, <1>6

(* A timeout ends the session or repeats its window. *)
LEMMA SessionTimeoutStep ==
    ASSUME IInv, NEW t \in Tids, SessionTimeout(t)
    PROVE  IInv'
<1> DEFINE s == sessions[t]
<1>1. /\ s \in Session /\ SessionInv(s) /\ NetTypeOK
      /\ sessions \in [Tids -> Session]
      /\ UNCHANGED <<client, receiveBuffer, file>>
      /\ UNCHANGED losses
  BY DEF IInv, TypeOK, SessionsTypeOK, SessionTimeout, SessionTimesOut
<1>2. s.state = "active"
  BY DEF SessionTimeout, SessionTimesOut, Active
<1>3. CASE s.retries + 1 > MaxRetries
  <2> DEFINE e == Finish([s EXCEPT !.retries = @ + 1], "failed")
  <2>1. sessions' = [sessions EXCEPT ![t] = e] /\ UNCHANGED net
    BY <1>3 DEF SessionTimeout, SessionTimesOut
  <2>2. s.retries + 1 \in 0..MaxRetries + 1
    BY <1>1, <1>2, BlocksAssumption, SMT DEF Session, SessionInv
  <2>3. /\ e \in Session
        /\ SessionInv(e)
        /\ e.currentBlock = s.currentBlock
        /\ e.lastAckedBlock = s.lastAckedBlock
    BY <1>1, <1>2, <2>2 DEF Finish, Session, SessionInv, InOrder, NothingSent
  <2> HIDE DEF e
  <2>4. s.currentBlock <= e.currentBlock
    BY <1>1, <2>3, SMT DEF Session
  <2>5. NetTypeOK' /\ net' = net
    BY <1>1, <2>1 DEF NetTypeOK
  <2>6. QED
    BY <1>1, <2>1, <2>3, <2>4, <2>5, SessionStep
<1>4. CASE ~(s.retries + 1 > MaxRetries)
  <2> DEFINE r == [s EXCEPT !.retries = @ + 1, !.timer = s.windowCache # {}]
             sent == DataOf(t, s, s.windowCache)
  <2>1. /\ sessions' = [sessions EXCEPT ![t] = r]
        /\ net' = net \cup sent
    BY <1>4 DEF SessionTimeout, SessionTimesOut
  <2>2. s.retries + 1 \in 0..MaxRetries + 1 /\ s.retries + 1 <= MaxRetries
    BY <1>1, <1>4, BlocksAssumption, SMT DEF Session
  <2>3. /\ r \in Session
        /\ r.retries = s.retries + 1
        /\ r.currentBlock = s.currentBlock
        /\ r.lastAckedBlock = s.lastAckedBlock
    BY <1>1, <2>2 DEF Session
  <2>4. SessionInv(r)
    BY <1>1, <1>2, <2>2 DEF Session, SessionInv, InOrder, NothingSent
  <2> HIDE DEF r
  <2>5. s.currentBlock <= r.currentBlock
    BY <1>1, <2>3, SMT DEF Session
  <2>6. s.windowCache \subseteq 1..s.currentBlock
    BY <1>1, SMT DEF SessionInv, InOrder, Session
  <2>7. sent \in SUBSET Message /\ sent \subseteq SessionMessages(t, r)
    BY <1>1, <2>3, <2>6, DataOfUncut DEF SessionMessages, SessionInv, Session
  <2>8. NetTypeOK' /\ net' \subseteq net \cup SessionMessages(t, r)
    BY <1>1, <2>1, <2>7 DEF NetTypeOK
  <2>9. QED
    BY <1>1, <2>1, <2>3, <2>4, <2>5, <2>8, SessionStep
<1>5. QED
  BY <1>3, <1>4

-----------------------------------------------------------------------------
\* The client's steps

(* What a reply that the client takes may come with. *)
LEMMA FromPeerFacts ==
    ASSUME IInv, NEW m \in net, FromPeer(m)
    PROVE  /\ client \in Client
           /\ m \in Message
           /\ m.tid = client.tid \/ client.tid = NoTid
           /\ client.tid = NoTid => client.block = 0 /\ DOMAIN receiveBuffer = {}
           /\ m.tid \in Tids => client.block <= sessions[m.tid].currentBlock
           /\ client.block < N
<1>1. client \in Client /\ m \in Message
  BY DEF IInv, TypeOK, ClientTypeOK, NetTypeOK
<1>2. m.tid = client.tid \/ client.tid = NoTid
  BY DEF FromPeer
<1>3. client.tid = NoTid => client.block = 0 /\ DOMAIN receiveBuffer = {}
  BY NetworkAssumption DEF IInv, ClientInv, BufferInv
<1>4. ASSUME m.tid \in Tids
      PROVE  client.block <= sessions[m.tid].currentBlock
  <2>1. sessions[m.tid] \in Session
    BY <1>4 DEF IInv, TypeOK, SessionsTypeOK
  <2>2. CASE client.tid = NoTid
    BY <1>3, <2>1, <2>2, SMT DEF Session
  <2>3. CASE client.tid = m.tid
    BY <1>4, <2>3 DEF IInv, AckInv
  <2>4. QED
    BY <1>2, <2>2, <2>3
<1>5. client.block < N
  BY DEF IInv, ClientInv, FromPeer, Running
<1>6. QED
  BY <1>1, <1>2, <1>3, <1>4, <1>5

(* The block that handleData() finds is the one that was sent. *)
LEMMA DataFound ==
    ASSUME IInv, NEW m \in net, Fresh(m), FromPeer(m), m.op = "DATA",
           NEW b, IsFirstMatch(Expected, b, Wire(m.blk))
    PROVE  /\ b = m.blk
           /\ m.payload = Payload(b)
           /\ m.tid \in Tids
           /\ b \in (client.block + 1)..sessions[m.tid].currentBlock
<1> DEFINE s == sessions[m.tid]
<1>1. /\ m.to = "client"
      /\ m.tid \in Tids
      /\ m.blk \in 1..s.currentBlock
      /\ m.payload = Payload(m.blk)
  BY DEF IInv, MessageInv
<1>2. /\ client \in Client
      /\ client.block \in Nat
      /\ client.windowSize \in {1, Window}
      /\ m.blk \in Nat
      /\ s.currentBlock \in Nat
      /\ s.lastAckedBlock \in Nat
  BY <1>1, FromPeerFacts DEF Client, Message, IInv, TypeOK, SessionsTypeOK, Session
<1>3. s.currentBlock <= client.block + Window
  <2>1. s.currentBlock <= s.lastAckedBlock + Window
    <3>1. s \in Session /\ InOrder(s)
      BY <1>1 DEF IInv, SessionInv, TypeOK, SessionsTypeOK
    <3>2. QED
      BY <3>1, WindowBound
  <2>2. s.lastAckedBlock <= client.block
    <3>1. AckInv(m.tid)
      BY <1>1 DEF IInv
    <3>2. QED
      BY <1>2, <3>1, SMT DEF AckInv
  <2>3. QED
    BY <1>2, <2>1, <2>2, BlocksAssumption, SMT
<1>4. client.block + Window < m.blk + BlockMod
  BY <1>1, <1>2, BlocksAssumption, SMT DEF Fresh
<1>5. Expected \subseteq Nat
  BY <1>2, SMT DEF Expected
<1>6. \A c \in Expected : c < m.blk + BlockMod /\ m.blk < c + BlockMod
  BY <1>1, <1>2, <1>3, <1>4, BlocksAssumption, SMT DEF Expected
<1>7. b = m.blk
  BY <1>2, <1>5, <1>6, MatchIsSame
<1>8. b \in Expected
  BY DEF IsFirstMatch
<1>9. QED
  BY <1>1, <1>2, <1>7, <1>8, BlocksAssumption, SMT DEF Expected

(* The file is the first n blocks of the source. *)
HasBlocks(f, n) ==
    /\ f \in Seq(Payloads)
    /\ Len(f) = n
    /\ \A i \in DOMAIN f : f[i] = Payload(i)

(* Writing the blocks that follow those in the file gives a longer          *)
(* beginning of the source.                                                 *)
LEMMA AppendRun ==
    ASSUME NEW f, NEW lo \in Nat, NEW hi \in Nat, lo <= hi,
           HasBlocks(f, lo),
           NEW buffer, \A x \in (lo + 1)..hi : buffer[x] = Payload(x),
           NEW g, g = f \o Run(buffer, lo, hi)
    PROVE  HasBlocks(g, hi)
<1> DEFINE run == Run(buffer, lo, hi)
<1>0. /\ f \in Seq(Payloads)
      /\ Len(f) = lo
      /\ \A i \in DOMAIN f : f[i] = Payload(i)
  BY DEF HasBlocks
<1>1. \A x \in Nat : Payload(x) \in Payloads
  BY PayloadType
<1>2. \A i \in 1..(hi - lo) : lo + i \in (lo + 1)..hi /\ lo + i \in Nat
  BY SMT
<1>3. /\ run = [i \in 1..(hi - lo) |-> buffer[lo + i]]
      /\ \A i \in 1..(hi - lo) : run[i] = Payload(lo + i) /\ run[i] \in Payloads
  BY <1>1, <1>2 DEF Run
<1>g. g = f \o run
  OBVIOUS
<1> HIDE DEF run
<1>4. run \in Seq(Payloads) /\ Len(run) = hi - lo
  <2> DEFINE n == hi - lo
  <2>1. n \in Nat
    BY SMT
  <2>2. run \in [1..n -> Payloads]
    BY <1>3
  <2> HIDE DEF n
  <2>3. run \in Seq(Payloads) /\ Len(run) = n
    BY <2>1, <2>2
  <2>4. QED
    BY <2>3 DEF n
<1>5. /\ g \in Seq(Payloads)
      /\ Len(g) = hi
      /\ \A i \in 1..hi : g[i] = IF i <= lo THEN f[i] ELSE run[i - lo]
  BY <1>0, <1>4, <1>g, SMT
<1>6. DOMAIN g = 1..hi /\ DOMAIN f = 1..lo
  BY <1>0, <1>5
<1>7. ASSUME NEW i \in 1..hi PROVE g[i] = Payload(i)
  <2>1. CASE i <= lo
    BY <1>0, <1>5, <1>6, <2>1, SMT
  <2>2. CASE ~(i <= lo)
    <3>1. i - lo \in 1..(hi - lo) /\ lo + (i - lo) = i
      BY <2>2, SMT
    <3>2. QED
      BY <1>3, <1>5, <2>2, <3>1
  <2>3. QED
    BY <2>1, <2>2
<1>8. QED
  BY <1>5, <1>6, <1>7 DEF HasBlocks

(* What the client has in memory once DATA of an expected block is in.      *)
LEMMA BufferFacts ==
    ASSUME IInv, NEW m \in net, Fresh(m), FromPeer(m), m.op = "DATA",
           NEW b \in Expected, IsFirstMatch(Expected, b, Wire(m.blk)),
           NEW k \in Nat, client.block <= k,
           (client.block + 1)..k \subseteq DOMAIN Put(receiveBuffer, b, m.payload)
    PROVE  LET buffer == Put(receiveBuffer, b, m.payload)
           IN  /\ DOMAIN buffer \subseteq (client.block + 1)..sessions[m.tid].currentBlock
               /\ \A x \in DOMAIN buffer : buffer[x] = Payload(x)
               /\ k <= sessions[m.tid].currentBlock
<1> DEFINE buffer == Put(receiveBuffer, b, m.payload)
           sent == (client.block + 1)..sessions[m.tid].currentBlock
<1>1. /\ b = m.blk
      /\ m.payload = Payload(b)
      /\ m.tid \in Tids
      /\ b \in sent
  BY DataFound
<1>2. /\ DOMAIN buffer = DOMAIN receiveBuffer \cup {b}
      /\ \A x \in DOMAIN buffer :
            buffer[x] = IF x = b THEN m.payload ELSE receiveBuffer[x]
  BY DEF Put
<1>3. \A x \in DOMAIN receiveBuffer : x \in sent /\ receiveBuffer[x] = Payload(x)
  BY <1>1, FromPeerFacts DEF IInv, BufferInv
<1> HIDE DEF buffer
<1>4. DOMAIN buffer \subseteq sent /\ \A x \in DOMAIN buffer : buffer[x] = Payload(x)
  BY <1>1, <1>2, <1>3
<1>5. k <= sessions[m.tid].currentBlock
  <2>1. /\ client.block \in Nat
        /\ sessions[m.tid].currentBlock \in Nat
        /\ client.block <= sessions[m.tid].currentBlock
    BY <1>1, FromPeerFacts DEF Client, IInv, TypeOK, SessionsTypeOK, Session
  <2>2. CASE k = client.block
    BY <2>1, <2>2
  <2>3. CASE k # client.block
    <3>1. k \in (client.block + 1)..k
      BY <2>1, <2>3, SMT
    <3>2. k \in sent
      BY <1>4, <3>1 DEF buffer
    <3>3. QED
      BY <2>1, <3>2, SMT
  <2>4. QED
    BY <2>2, <2>3
<1>6. QED
  BY <1>4, <1>5 DEF buffer

(* An expected block is written with those that waited for it. *)
LEMMA ReceiveDataStep ==
    ASSUME IInv, "flush" \notin ClientFaults,
           NEW m \in net, Fresh(m), ReceiveData(m), UNCHANGED sessions
    PROVE  IInv'
<1>1. PICK b \in Expected : IsFirstMatch(Expected, b, Wire(m.blk)) /\
        LET buffer == Put(receiveBuffer, b, m.payload)
        IN  \E k \in client.block..(client.block + Cardinality(DOMAIN buffer)) :
                /\ IsRunEnd(DOMAIN buffer, client.block, k)
                /\ LET last == \E x \in (client.block + 1)..k : EndsFile(buffer[x])
                   IN  client' = [client EXCEPT
                            !.tid = m.tid,
                            !.block = k,
                            !.retries = 0,
                            !.lastPacket = "ACK",
                            !.result = IF last THEN "ok" ELSE @]
                /\ receiveBuffer' = Without(buffer, (client.block + 1)..k)
                /\ file' = file \o Run(buffer, client.block, k)
                /\ Deliver(m, {Ack("session", m.tid, k)})
  BY DEF ReceiveData
<1> DEFINE buffer == Put(receiveBuffer, b, m.payload)
<1>2. PICK k \in client.block..(client.block + Cardinality(DOMAIN buffer)) :
        /\ IsRunEnd(DOMAIN buffer, client.block, k)
        /\ client' = [client EXCEPT
                !.tid = m.tid,
                !.block = k,
                !.retries = 0,
                !.lastPacket = "ACK",
                !.result = IF \E x \in (client.block + 1)..k : EndsFile(buffer[x])
                           THEN "ok" ELSE @]
        /\ receiveBuffer' = Without(buffer, (client.block + 1)..k)
        /\ file' = file \o Run(buffer, client.block, k)
        /\ Deliver(m, {Ack("session", m.tid, k)})
  BY <1>1
<1> DEFINE last == \E x \in (client.block + 1)..k : EndsFile(buffer[x])
           s == sessions[m.tid]
<1>3. /\ FromPeer(m) /\ m.op = "DATA" /\ Running
      /\ client \in Client
      /\ client.block \in Nat
      /\ client.block < N
      /\ m.tid = client.tid \/ client.tid = NoTid
  BY FromPeerFacts DEF ReceiveData, FromPeer, Client
<1>4. m.tid \in Tids /\ s.currentBlock \in Nat
  BY <1>1, <1>3, DataFound DEF IInv, TypeOK, SessionsTypeOK, Session
<1>5. k \in Nat /\ client.block <= k
  BY <1>2, <1>3, SMT DEF IsRunEnd
<1>6. (client.block + 1)..k \subseteq DOMAIN buffer
  BY <1>2 DEF IsRunEnd
<1>7. /\ DOMAIN buffer \subseteq (client.block + 1)..s.currentBlock
      /\ \A x \in DOMAIN buffer : buffer[x] = Payload(x)
      /\ k <= s.currentBlock
  BY <1>1, <1>3, <1>5, <1>6, BufferFacts
<1> HIDE DEF buffer
<1>8. last <=> N <= k
  <2>1. \A x \in (client.block + 1)..k : EndsFile(buffer[x]) <=> N <= x
    <3> TAKE x \in (client.block + 1)..k
    <3>1. buffer[x] = Payload(x)
      BY <1>6, <1>7
    <3>2. QED
      BY <1>3, <1>5, <3>1, BlocksAssumption, SMT DEF EndsFile, Payload
  <2>2. N <= k => k \in (client.block + 1)..k
    BY <1>3, <1>5, BlocksAssumption, SMT
  <2>3. ASSUME NEW x \in (client.block + 1)..k, N <= x PROVE N <= k
    BY <1>3, <1>5, <2>3, BlocksAssumption, SMT
  <2>4. QED
    BY <2>1, <2>2, <2>3
<1>9. /\ client'.tid = m.tid
      /\ client'.block = k
      /\ client'.retries = 0
      /\ client'.windowSize = client.windowSize
      /\ client'.lastPacket = "ACK"
      /\ client'.result = IF last THEN "ok" ELSE "running"
  BY <1>2, <1>3 DEF Client, Running
<1> HIDE DEF last
<1>a. HasBlocks(file', k)
  <2>1. HasBlocks(file, client.block)
    BY <1>3 DEF IInv, TypeOK, ClientTypeOK, FileInv, Running, HasBlocks
  <2>2. \A x \in (client.block + 1)..k : buffer[x] = Payload(x)
    BY <1>6, <1>7
  <2>3. file' = file \o Run(buffer, client.block, k)
    BY <1>2
  <2>4. QED
    BY <1>3, <1>5, <2>1, <2>2, <2>3, AppendRun
<1>10. FileInv'
  BY <1>9, <1>a DEF FileInv, HasBlocks
<1>11. /\ DOMAIN receiveBuffer' = DOMAIN buffer \ ((client.block + 1)..k)
       /\ \A x \in DOMAIN receiveBuffer' : receiveBuffer'[x] = Payload(x)
       /\ receiveBuffer' = [x \in DOMAIN receiveBuffer' |-> receiveBuffer'[x]]
  BY <1>2, <1>7 DEF Without
<1>12. BufferInv'
  <2>1. ASSUME NEW x \in DOMAIN receiveBuffer'
        PROVE  x \in (k + 1)..s.currentBlock
    BY <1>3, <1>5, <1>7, <1>11, SMT
  <2>2. QED
    BY <1>4, <1>9, <1>11, <2>1 DEF BufferInv
<1>13. ClientTypeOK'
  <2>1. client' \in Client
    BY <1>2, <1>3, <1>4, <1>5, ZeroRetries DEF Client
  <2>2. file' \in Seq(Payloads)
    BY <1>a DEF HasBlocks
  <2>3. DOMAIN receiveBuffer' \subseteq Nat
    BY <1>3, <1>7, <1>11, SMT
  <2>4. \A x \in Nat : Payload(x) \in Payloads
    BY PayloadType
  <2>5. receiveBuffer' \in [DOMAIN receiveBuffer' -> Payloads]
    BY <1>11, <2>3, <2>4
  <2>6. QED
    BY <2>1, <2>2, <2>3, <2>5 DEF ClientTypeOK
<1>14. ClientInv'
  <2>1. m.tid # NoTid
    BY <1>4, NetworkAssumption
  <2>2. IF client'.result = "ok" THEN N <= client'.block ELSE client'.block < N
    BY <1>5, <1>8, <1>9, BlocksAssumption, SMT
  <2>3. QED
    BY <1>4, <1>9, <2>1, <2>2, ZeroRetries DEF ClientInv, Running
<1> DEFINE R == {Ack("session", m.tid, k)}
<1>15. NetTypeOK' /\ net' \subseteq net \cup R
  <2>1. {Ack("session", m.tid, k)} \in SUBSET Message
    BY <1>4, <1>5, PayloadType DEF Message, Ack, Msg, Ops
  <2>2. QED
    BY <1>2, <2>1, NetStep DEF IInv, TypeOK
<1>16. \A a \in R : MessageInv(a)'
  BY <1>4, <1>5, <1>9, SMT DEF MessageInv, Ack, Msg
<1>17. /\ client'.tid = client.tid \/ client.tid = NoTid
       /\ client.block <= client'.block
       /\ client'.tid \in Tids => client'.block <= sessions[client'.tid].currentBlock
  BY <1>3, <1>5, <1>7, <1>9
<1> HIDE DEF R
<1>18. QED
  BY <1>10, <1>12, <1>13, <1>14, <1>15, <1>16, <1>17, ClientStep

(* When a write fails, the blocks before it are in the file. *)
LEMMA WriteFailsStep ==
    ASSUME IInv, NEW m \in net, Fresh(m), ReceiveDataWriteFails(m),
           UNCHANGED sessions
    PROVE  IInv'
<1>1. PICK b \in Expected : IsFirstMatch(Expected, b, Wire(m.blk)) /\
        LET buffer == Put(receiveBuffer, b, m.payload)
        IN  \E k \in client.block..(client.block + Cardinality(DOMAIN buffer)) :
                /\ (client.block + 1)..(k + 1) \subseteq DOMAIN buffer
                /\ HasBytes(buffer[k + 1])
                /\ client' = [client EXCEPT
                        !.tid = m.tid,
                        !.block = k,
                        !.retries = 0,
                        !.result = "failed"]
                /\ receiveBuffer' = Without(buffer, (client.block + 1)..(k + 1))
                /\ file' = file \o Run(buffer, client.block, k)
                /\ Deliver(m, {})
  BY DEF ReceiveDataWriteFails
<1> DEFINE buffer == Put(receiveBuffer, b, m.payload)
           s == sessions[m.tid]
<1>2. PICK k \in client.block..(client.block + Cardinality(DOMAIN buffer)) :
        /\ (client.block + 1)..(k + 1) \subseteq DOMAIN buffer
        /\ HasBytes(buffer[k + 1])
        /\ client' = [client EXCEPT
                !.tid = m.tid,
                !.block = k,
                !.retries = 0,
                !.result = "failed"]
        /\ receiveBuffer' = Without(buffer, (client.block + 1)..(k + 1))
        /\ file' = file \o Run(buffer, client.block, k)
        /\ Deliver(m, {})
  BY <1>1
<1>3. /\ FromPeer(m) /\ m.op = "DATA" /\ Running
      /\ client \in Client
      /\ client.block \in Nat
      /\ client.block < N
      /\ m.tid = client.tid \/ client.tid = NoTid
  BY FromPeerFacts DEF ReceiveDataWriteFails, FromPeer, Client
<1>4. m.tid \in Tids /\ s.currentBlock \in Nat
  BY <1>1, <1>3, DataFound DEF IInv, TypeOK, SessionsTypeOK, Session
<1>5. k \in Nat /\ client.block <= k /\ k + 1 \in Nat /\ client.block <= k + 1
  <2>1. k \in Int /\ client.block <= k
    BY <1>2, <1>3, SMT
  <2>2. QED
    BY <1>3, <2>1, SMT
<1>6. /\ DOMAIN buffer \subseteq (client.block + 1)..s.currentBlock
      /\ \A x \in DOMAIN buffer : buffer[x] = Payload(x)
      /\ k + 1 <= s.currentBlock
  BY <1>1, <1>2, <1>3, <1>5, BufferFacts
<1> HIDE DEF buffer
<1>7. \A x \in (client.block + 1)..(k + 1) : buffer[x] = Payload(x)
  BY <1>2, <1>6
<1>8. k < N
  <2>1. k + 1 \in (client.block + 1)..(k + 1)
    BY <1>3, <1>5, SMT
  <2>2. Payload(k + 1) # 0
    BY <1>2, <1>7, <2>1 DEF HasBytes
  <2>3. QED
    BY <1>5, <2>2, BlocksAssumption, SMT DEF Payload
<1>9. /\ client'.tid = m.tid
      /\ client'.block = k
      /\ client'.lastPacket = client.lastPacket
      /\ client'.result = "failed"
      /\ client' \in Client
  BY <1>2, <1>3, <1>4, <1>5, ZeroRetries DEF Client
<1>10. HasBlocks(file', k)
  <2>1. HasBlocks(file, client.block)
    BY <1>3 DEF IInv, TypeOK, ClientTypeOK, FileInv, Running, HasBlocks
  <2>2. \A x \in (client.block + 1)..k : buffer[x] = Payload(x)
    BY <1>3, <1>5, <1>7, SMT
  <2>3. file' = file \o Run(buffer, client.block, k)
    BY <1>2
  <2>4. QED
    BY <1>3, <1>5, <2>1, <2>2, <2>3, AppendRun
<1>11. /\ DOMAIN receiveBuffer' = DOMAIN buffer \ ((client.block + 1)..(k + 1))
       /\ \A x \in DOMAIN receiveBuffer' : receiveBuffer'[x] = Payload(x)
       /\ receiveBuffer' = [x \in DOMAIN receiveBuffer' |-> receiveBuffer'[x]]
  BY <1>2, <1>6 DEF Without
<1>12. BufferInv'
  <2>1. ASSUME NEW x \in DOMAIN receiveBuffer'
        PROVE  x \in (k + 1)..s.currentBlock
    BY <1>3, <1>5, <1>6, <1>11, SMT
  <2>2. QED
    BY <1>4, <1>9, <1>11, <2>1 DEF BufferInv
<1>13. ClientTypeOK'
  <2>1. DOMAIN receiveBuffer' \subseteq Nat
    BY <1>3, <1>6, <1>11, SMT
  <2>2. \A x \in Nat : Payload(x) \in Payloads
    BY PayloadType
  <2>3. receiveBuffer' \in [DOMAIN receiveBuffer' -> Payloads]
    BY <1>11, <2>1, <2>2
  <2>4. QED
    BY <1>9, <1>10, <2>1, <2>3 DEF ClientTypeOK, HasBlocks
<1>14. ClientInv'
  <2>1. m.tid # NoTid
    BY <1>4, NetworkAssumption
  <2>2. QED
    BY <1>4, <1>8, <1>9, <2>1 DEF ClientInv, Running
<1>15. FileInv'
  BY <1>9, <1>10 DEF FileInv, HasBlocks
<1> DEFINE R == {}
<1>16. NetTypeOK' /\ net' \subseteq net \cup R
  BY <1>2, NetStep DEF IInv, TypeOK
<1>17. \A a \in R : MessageInv(a)'
  OBVIOUS
<1>18. /\ client'.tid = client.tid \/ client.tid = NoTid
       /\ client.block <= client'.block
       /\ client'.tid \in Tids => client'.block <= sessions[client'.tid].currentBlock
  BY <1>3, <1>4, <1>5, <1>6, <1>9, SMT
<1> HIDE DEF R
<1>19. QED
  BY <1>12, <1>13, <1>14, <1>15, <1>16, <1>17, <1>18, ClientStep

(* A step of the client that leaves its file and its count of blocks alone. *)
LEMMA ClientIdleStep ==
    ASSUME IInv, UNCHANGED <<sessions, receiveBuffer, file>>,
           Running,
           client' \in Client,
           client'.block = client.block,
           client'.tid = client.tid
               \/ (client.tid = NoTid /\ client'.tid \in Tids \cup {NoTid}),
           client'.result \in {"running", "failed"},
           client'.lastPacket = "ACK" => client'.tid \in Tids,
           client'.lastPacket = "RRQ" => client.lastPacket = "RRQ",
           client'.result = "running" => client'.retries <= MaxRetries,
           NetTypeOK', NEW R,
           net' \subseteq net \cup R, \A m \in R : MessageInv(m)'
    PROVE  IInv'
<1>1. /\ client \in Client
      /\ client.block \in Nat
      /\ client.block < N
      /\ client.tid = NoTid => client.block = 0 /\ DOMAIN receiveBuffer = {}
  BY NetworkAssumption
     DEF IInv, TypeOK, ClientTypeOK, Client, ClientInv, BufferInv, Running
<1>2. ClientTypeOK'
  BY DEF IInv, TypeOK, ClientTypeOK
<1>3. BufferInv'
  <2>1. CASE client'.tid = client.tid
    BY <2>1 DEF IInv, BufferInv
  <2>2. CASE client.tid = NoTid
    BY <1>1, <2>2 DEF BufferInv
  <2>3. QED
    BY <2>1, <2>2
<1>4. FileInv'
  BY DEF IInv, FileInv, Running
<1>5. ClientInv'
  BY <1>1 DEF IInv, ClientInv, Running
<1>6. client'.tid \in Tids => client'.block <= sessions[client'.tid].currentBlock
  <2>1. CASE client'.tid = client.tid
    BY <2>1 DEF IInv, AckInv
  <2>2. CASE client.tid = NoTid
    BY <1>1, <2>2, SMT DEF IInv, TypeOK, SessionsTypeOK, Session
  <2>3. QED
    BY <2>1, <2>2
<1>7. /\ client.block <= client'.block
      /\ client'.tid = client.tid \/ client.tid = NoTid
      /\ UNCHANGED sessions
  BY <1>1, SMT
<1>8. QED
  BY <1>2, <1>3, <1>4, <1>5, <1>6, <1>7, ClientStep

(* DATA of no expected block is answered with the last ACK. *)
LEMMA UnexpectedDataStep ==
    ASSUME IInv, NEW m \in net, ReceiveUnexpectedData(m), UNCHANGED sessions
    PROVE  IInv'
<1> DEFINE R == {Ack("session", m.tid, client.block)}
<1>1. /\ FromPeer(m) /\ Running
      /\ client \in Client
      /\ m.tid = client.tid \/ client.tid = NoTid
      /\ m.tid \in Tids
      /\ client' = [client EXCEPT !.tid = m.tid]
      /\ UNCHANGED <<receiveBuffer, file>>
      /\ Deliver(m, R)
  BY FromPeerFacts DEF ReceiveUnexpectedData, FromPeer, IInv, MessageInv
<1>2. /\ client' \in Client
      /\ client'.tid = m.tid
      /\ client'.block = client.block
      /\ client'.result = "running"
      /\ client'.lastPacket = client.lastPacket
      /\ client'.retries = client.retries
      /\ client.block \in Nat
  BY <1>1 DEF Client, Running
<1>3. client'.retries <= MaxRetries
  BY <1>1, <1>2 DEF IInv, ClientInv
<1>4. NetTypeOK' /\ net' \subseteq net \cup R
  <2>1. R \in SUBSET Message
    BY <1>1, <1>2, PayloadType DEF Message, Ack, Msg, Ops
  <2>2. QED
    BY <1>1, <2>1, NetStep DEF IInv, TypeOK
<1>5. \A a \in R : MessageInv(a)'
  BY <1>1, <1>2, SMT DEF MessageInv, Ack, Msg
<1> HIDE DEF R
<1>6. QED
  BY <1>1, <1>2, <1>3, <1>4, <1>5, ClientIdleStep

(* The OACK comes before any block does, unless it is late. *)
LEMMA OackStep ==
    ASSUME IInv, NothingUnnoticed,
           NEW m \in net, OackInTime(m), ReceiveOack(m), UNCHANGED sessions
    PROVE  IInv'
<1> DEFINE R == {Ack("session", m.tid, 0)}
<1>1. /\ FromPeer(m) /\ Running
      /\ client \in Client
      /\ m.tid = client.tid \/ client.tid = NoTid
      /\ m.tid \in Tids
      /\ client' = [client EXCEPT !.tid = m.tid, !.block = 0, !.windowSize = Window,
                                  !.retries = 0, !.lastPacket = "ACK"]
      /\ UNCHANGED <<receiveBuffer, file>>
      /\ Deliver(m, R)
  BY FromPeerFacts DEF ReceiveOack, FromPeer, IInv, MessageInv
<1>2. client.block = 0
  BY <1>1 DEF OackInTime, ReceiveOack, NothingUnnoticed, IInv, ClientInv
<1>3. /\ client' \in Client
      /\ client'.tid = m.tid
      /\ client'.block = client.block
      /\ client'.result = "running"
      /\ client'.lastPacket = "ACK"
      /\ client'.retries <= MaxRetries
  BY <1>1, <1>2, ZeroRetries DEF Client, Running
<1>4. NetTypeOK' /\ net' \subseteq net \cup R
  <2>1. R \in SUBSET Message
    BY <1>1, PayloadType DEF Message, Ack, Msg, Ops
  <2>2. QED
    BY <1>1, <2>1, NetStep DEF IInv, TypeOK
<1>5. \A a \in R : MessageInv(a)'
  BY <1>1, <1>2, <1>3, SMT DEF MessageInv, Ack, Msg
<1> HIDE DEF R
<1>6. QED
  BY <1>1, <1>3, <1>4, <1>5, ClientIdleStep

(* An ERROR ends the download. *)
LEMMA ReceiveErrorStep ==
    ASSUME IInv, NEW m \in net, ReceiveError(m), UNCHANGED sessions
    PROVE  IInv'
<1> DEFINE R == {}
<1>1. /\ FromPeer(m) /\ Running
      /\ client \in Client
      /\ m \in Message
      /\ m.tid = client.tid \/ client.tid = NoTid
      /\ client' = [client EXCEPT !.tid = m.tid, !.result = "failed"]
      /\ UNCHANGED <<receiveBuffer, file>>
      /\ Deliver(m, R)
  BY FromPeerFacts DEF ReceiveError, FromPeer
<1>2. /\ client' \in Client
      /\ client'.tid = m.tid
      /\ client'.block = client.block
      /\ client'.result = "failed"
      /\ client'.lastPacket = client.lastPacket
      /\ client'.tid \in Tids \cup {NoTid}
  BY <1>1 DEF Client, Message
<1>3. client'.lastPacket = "ACK" => client'.tid \in Tids
  BY <1>1, <1>2, NetworkAssumption DEF IInv, ClientInv
<1>4. NetTypeOK' /\ net' \subseteq net \cup R
  BY <1>1, NetStep DEF IInv, TypeOK
<1>5. \A a \in R : MessageInv(a)'
  OBVIOUS
<1> HIDE DEF R
<1>6. QED
  BY <1>1, <1>2, <1>3, <1>4, <1>5, ClientIdleStep

(* A stray datagram changes nothing but the network. *)
LEMMA StrayStep ==
    ASSUME IInv, NEW m \in net, ReceiveStray(m), UNCHANGED sessions
    PROVE  IInv'
<1> DEFINE R == IF m.tid = NoTid THEN {} ELSE {Msg("ERROR", "session", m.tid, 0)}
<1>1. /\ Running
      /\ client \in Client
      /\ m \in Message
      /\ UNCHANGED <<client, receiveBuffer, file>>
      /\ Deliver(m, R)
  BY DEF ReceiveStray, IInv, TypeOK, ClientTypeOK, NetTypeOK
<1>2. NetTypeOK' /\ net' \subseteq net \cup R
  <2>1. R \in SUBSET Message
    BY <1>1, PayloadType DEF Message, Msg, Ops
  <2>2. QED
    BY <1>1, <2>1, NetStep DEF IInv, TypeOK
<1>3. \A a \in R : MessageInv(a)'
  BY <1>1 DEF MessageInv, Msg, Message
<1> HIDE DEF R
<1>4. /\ client'.result = "running"
      /\ client'.lastPacket = "ACK" => client'.tid \in Tids
      /\ client'.retries <= MaxRetries
      /\ client' \in Client
      /\ client'.block = client.block
      /\ client'.tid = client.tid
      /\ client'.lastPacket = client.lastPacket
  BY <1>1 DEF IInv, ClientInv, Running
<1>5. QED
  BY <1>1, <1>2, <1>3, <1>4, ClientIdleStep

(* Whatever the client receives. *)
LEMMA ClientReceivesStep ==
    ASSUME IInv, NothingUnnoticed, ClientReceives
    PROVE  IInv'
<1>1. PICK m \in net :
        /\ Arrives(m)
        /\ \/ ReceiveData(m)
           \/ ReceiveDataWriteFails(m)
           \/ ReceiveUnexpectedData(m)
           \/ ReceiveOack(m)
           \/ ReceiveError(m)
           \/ ReceiveStray(m)
  BY DEF ClientReceives
<1>2. UNCHANGED sessions /\ Fresh(m) /\ OackInTime(m)
  BY <1>1 DEF ClientReceives, Arrives
<1>3. CASE ReceiveData(m)
  BY <1>2, <1>3, ReceiveDataStep DEF NothingUnnoticed
<1>4. CASE ReceiveDataWriteFails(m)
  BY <1>2, <1>4, WriteFailsStep
<1>5. CASE ReceiveUnexpectedData(m)
  BY <1>2, <1>5, UnexpectedDataStep
<1>6. CASE ReceiveOack(m)
  BY <1>2, <1>6, OackStep
<1>7. CASE ReceiveError(m)
  BY <1>2, <1>7, ReceiveErrorStep
<1>8. CASE ReceiveStray(m)
  BY <1>2, <1>8, StrayStep
<1>9. QED
  BY <1>1, <1>3, <1>4, <1>5, <1>6, <1>7, <1>8

(* A timeout repeats the last packet or ends the download. *)
LEMMA ClientTimeoutStep ==
    ASSUME IInv, ClientTimeout
    PROVE  IInv'
<1>1. /\ Running
      /\ ClientTimesOut
      /\ client \in Client
      /\ client.retries \in 0..MaxRetries + 1
      /\ client.retries <= MaxRetries
      /\ client.block \in Nat
      /\ client.tid \in Tids \cup {NoTid}
      /\ client.lastPacket = "ACK" => client.tid \in Tids
      /\ UNCHANGED <<sessions, receiveBuffer, file>>
  BY DEF ClientTimeout, ClientTimesOut, IInv, TypeOK, ClientTypeOK, ClientInv, Client
<1>2. client.retries + 1 \in 0..MaxRetries + 1
  BY <1>1, BlocksAssumption, SMT
<1>3. CASE client.retries + 1 > MaxRetries
  <2> DEFINE R == {}
  <2>1. /\ client' = [client EXCEPT !.retries = @ + 1, !.result = "failed"]
        /\ UNCHANGED <<net, losses>>
    BY <1>1, <1>3 DEF ClientTimesOut
  <2>2. /\ client' \in Client
        /\ client'.tid = client.tid
        /\ client'.block = client.block
        /\ client'.result = "failed"
        /\ client'.lastPacket = client.lastPacket
    BY <1>1, <1>2, <2>1 DEF Client
  <2>3. NetTypeOK' /\ net' \subseteq net \cup R /\ \A a \in R : MessageInv(a)'
    BY <2>1 DEF IInv, TypeOK, NetTypeOK
  <2> HIDE DEF R
  <2>4. QED
    BY <1>1, <2>2, <2>3, ClientIdleStep
<1>4. CASE ~(client.retries + 1 > MaxRetries)
  <2> DEFINE R == {Retransmission}
  <2>1. /\ client' = [client EXCEPT !.retries = @ + 1]
        /\ Send(R)
    BY <1>1, <1>4 DEF ClientTimesOut
  <2>2. /\ client' \in Client
        /\ client'.tid = client.tid
        /\ client'.block = client.block
        /\ client'.result = "running"
        /\ client'.lastPacket = client.lastPacket
        /\ client'.retries = client.retries + 1
    BY <1>1, <1>2, <2>1 DEF Client, Running
  <2>3. client'.retries <= MaxRetries
    BY <1>1, <1>2, <1>4, <2>2, BlocksAssumption, SMT
  <2>4. NetTypeOK' /\ net' \subseteq net \cup R
    <3>1. R \in SUBSET Message
      BY <1>1, PayloadType DEF Retransmission, Rrq, Message, Ack, Msg, Ops
    <3>2. QED
      BY <2>1, <3>1, NetStep DEF IInv, TypeOK
  <2>5. \A a \in R : MessageInv(a)'
    BY <1>1, <2>2, SMT DEF Retransmission, Rrq, MessageInv, Ack, Msg
  <2> HIDE DEF R
  <2>6. QED
    BY <1>1, <2>2, <2>3, <2>4, <2>5, ClientIdleStep
<1>5. QED
  BY <1>3, <1>4

(* abort() removes the file; begin() leaves it as it is. *)
LEMMA UserActsStep ==
    ASSUME IInv, UserActs
    PROVE  IInv'
<1>1. /\ Running
      /\ client \in Client
      /\ client.block \in Nat
      /\ client.tid \in Tids \cup {NoTid}
      /\ client.lastPacket = "ACK" => client.tid \in Tids
      /\ client.tid = NoTid => client.block = 0
      /\ client.tid \in Tids => client.block <= sessions[client.tid].currentBlock
      /\ client.block < N
      /\ UNCHANGED <<sessions, receiveBuffer>>
  BY DEF UserActs, Abort, BeginWhileRunning, IInv, TypeOK, ClientTypeOK,
         ClientInv, AckInv, Client, Running
<1>2. CASE Abort
  <2> DEFINE R == IF client.tid = NoTid THEN {}
                  ELSE {Msg("ERROR", "session", client.tid, 0)}
  <2>1. /\ client' = [client EXCEPT !.result = "aborted"]
        /\ Send(R)
        /\ file' = << >>
    BY <1>2 DEF Abort
  <2>2. /\ client' \in Client
        /\ client'.tid = client.tid
        /\ client'.block = client.block
        /\ client'.result = "aborted"
        /\ client'.lastPacket = client.lastPacket
    BY <1>1, <2>1 DEF Client
  <2>3. NetTypeOK' /\ net' \subseteq net \cup R
    <3>1. R \in SUBSET Message
      BY <1>1, PayloadType DEF Message, Msg, Ops
    <3>2. QED
      BY <2>1, <3>1, NetStep DEF IInv, TypeOK
  <2>4. \A a \in R : MessageInv(a)'
    BY <1>1, <2>2 DEF MessageInv, Msg
  <2> HIDE DEF R
  <2>5. ClientTypeOK' /\ BufferInv' /\ FileInv' /\ ClientInv'
    BY <1>1, <2>1, <2>2
       DEF IInv, TypeOK, ClientTypeOK, BufferInv, FileInv, ClientInv, Running
  <2>6. /\ client.block <= client'.block
        /\ client'.tid \in Tids => client'.block <= sessions[client'.tid].currentBlock
    BY <1>1, <2>2, SMT
  <2>7. QED
    BY <1>1, <2>2, <2>3, <2>4, <2>5, <2>6, ClientStep
<1>3. CASE BeginWhileRunning
  <2> DEFINE R == {}
  <2>1. /\ client' = [client EXCEPT !.result = "failed"]
        /\ UNCHANGED <<net, losses, file>>
    BY <1>3 DEF BeginWhileRunning
  <2>2. /\ client' \in Client
        /\ client'.tid = client.tid
        /\ client'.block = client.block
        /\ client'.result = "failed"
        /\ client'.lastPacket = client.lastPacket
    BY <1>1, <2>1 DEF Client
  <2>3. NetTypeOK' /\ net' \subseteq net \cup R /\ \A a \in R : MessageInv(a)'
    BY <2>1 DEF IInv, TypeOK, NetTypeOK
  <2> HIDE DEF R
  <2>4. QED
    BY <1>1, <2>1, <2>2, <2>3, ClientIdleStep
<1>4. QED
  BY <1>2, <1>3 DEF UserActs

-----------------------------------------------------------------------------
\* The other steps

(* The server's refusal puts an ERROR on the network.                       *)
LEMMA ServerRejectsStep ==
    ASSUME IInv, ServerRejects
    PROVE  IInv'
<1> DEFINE R == {Msg("ERROR", "client", NoTid, 0)}
<1>1. PICK m \in net : RejectRequest(m)
  BY DEF ServerRejects
<1>2. UNCHANGED <<sessions, client, receiveBuffer, file>> /\ Deliver(m, R)
  BY <1>1 DEF ServerRejects, RejectRequest
<1>3. NetTypeOK' /\ net' \subseteq net \cup R
  <2>1. R \in SUBSET Message
    BY PayloadType DEF Message, Msg, Ops
  <2>2. QED
    BY <1>2, <2>1, NetStep DEF IInv, TypeOK
<1>4. \A a \in R : MessageInv(a)'
  BY DEF MessageInv, Msg
<1> HIDE DEF R
<1>5. ClientTypeOK' /\ BufferInv' /\ FileInv' /\ ClientInv'
  BY <1>2 DEF IInv, TypeOK, ClientTypeOK, BufferInv, FileInv, ClientInv, Running
<1>6. /\ client' = client
      /\ client.block <= client'.block
      /\ client.tid \in Tids => client.block <= sessions[client.tid].currentBlock
  <2>1. client.block \in Nat
    BY DEF IInv, TypeOK, ClientTypeOK, Client
  <2>2. QED
    BY <1>2, <2>1, SMT DEF IInv, AckInv
<1>7. QED
  BY <1>2, <1>3, <1>4, <1>5, <1>6, ClientStep

(* The network loses or discards a datagram.                                *)
LEMMA NetworkMovesStep ==
    ASSUME IInv, NetworkLoses \/ NetworkDiscards
    PROVE  IInv'
<1>1. PICK m \in net : Lose(m) \/ Discard(m)
  BY DEF NetworkLoses, NetworkDiscards
<1>2. UNCHANGED <<sessions, client, receiveBuffer, file>>
  BY DEF NetworkLoses, NetworkDiscards
<1>3. {} \in SUBSET Message
  OBVIOUS
<1>4. NetTypeOK
  BY DEF IInv, TypeOK
<1>5. NetTypeOK' /\ net' \subseteq net \cup {}
  BY <1>1, <1>3, <1>4, NetStep
<1>6. QED
  BY <1>2, <1>5, NetworkStep

(* The invariant holds before anything has happened.                        *)
LEMMA InitIInv == Init => IInv
<1> SUFFICES ASSUME Init PROVE IInv
  OBVIOUS
<1> USE DEF Init
<1>1. /\ client.result = "running"
      /\ client.tid = NoTid
      /\ client.block = 0
      /\ client.windowSize = 1
      /\ client.retries = 0
      /\ client.lastPacket = "RRQ"
      /\ receiveBuffer = [b \in {} |-> 0]
      /\ file = << >>
      /\ net = {Rrq}
      /\ losses = 0
      /\ client \in Client
  BY ZeroRetries DEF ClientInit, NetInit, Client
<1>2. \A t \in Tids : sessions[t] = NewSession
  BY DEF SessionsInit
<1>3. NewSession \in Session
  BY ZeroRetries DEF NewSession, Session
<1>4. TypeOK
  <2>1. NetTypeOK
    BY <1>1, NetworkAssumption, PayloadType, SMT DEF NetTypeOK, Rrq, Msg, Message, Ops
  <2>2. SessionsTypeOK
    BY <1>3 DEF SessionsInit, SessionsTypeOK
  <2>3. ClientTypeOK
    BY <1>1 DEF ClientTypeOK
  <2>4. QED
    BY <2>1, <2>2, <2>3 DEF TypeOK
<1>5. ASSUME NEW t \in Tids PROVE SessionInv(sessions[t])
  <2>1. NothingSent(NewSession) /\ ~NewSession.oackPending
    BY DEF NewSession, NothingSent
  <2>2. NewSession.state = "unused" /\ NewSession.retries = 0 /\ NewSession.cut = {}
    BY DEF NewSession
  <2>3. InOrder(NewSession)
    <3>1. (0 + 1)..0 = {} /\ 0 <= 0 /\ 0 < 1 /\ 1 <= 0 + Window + 1
      BY BlocksAssumption, SMT
    <3>2. QED
      BY <2>1, <3>1 DEF NothingSent, InOrder
  <2>4. SessionInv(NewSession)
    BY <2>1, <2>2, <2>3, ZeroRetries DEF SessionInv
  <2>5. QED
    BY <1>2, <2>4
<1>6. \A m \in net : MessageInv(m)
  BY <1>1 DEF MessageInv, Rrq, Msg
<1>7. \A t \in Tids : AckInv(t)
  BY <1>1, <1>2, NetworkAssumption DEF AckInv, NewSession
<1>8. BufferInv /\ FileInv
  BY <1>1 DEF BufferInv, FileInv
<1>9. ClientInv
  BY <1>1, BlocksAssumption, ZeroRetries, SMT DEF ClientInv, Running
<1>10. QED
  BY <1>4, <1>5, <1>6, <1>7, <1>8, <1>9 DEF IInv

(* Every step of the specification keeps the invariant.                     *)
LEMMA NextIInv == ASSUME IInv, NothingUnnoticed, [Next]_vars PROVE IInv'
<1>1. CASE \E t \in Tids : SessionStarts(t)
  BY <1>1, SessionStartsStep
<1>2. CASE \E t \in Tids : SessionReceives(t)
  BY <1>2, SessionReceivesStep
<1>3. CASE \E t \in Tids : SessionReads(t)
  BY <1>3, BlockReadStep, BlockReadIgnoredStep
     DEF SessionReads, BlockReadCut, NothingUnnoticed
<1>4. CASE \E t \in Tids : SessionTimeout(t)
  BY <1>4, SessionTimeoutStep
<1>5. CASE ServerRejects
  BY <1>5, ServerRejectsStep
<1>6. CASE ClientReceives
  BY <1>6, ClientReceivesStep
<1>7. CASE ClientTimeout
  BY <1>7, ClientTimeoutStep
<1>8. CASE UserActs
  BY <1>8, UserActsStep
<1>9. CASE NetworkLoses \/ NetworkDiscards
  BY <1>9, NetworkMovesStep
<1>10. CASE UNCHANGED vars
  <2>1. UNCHANGED <<sessions, client, receiveBuffer, file>> /\ net' \subseteq net
    BY <1>10 DEF vars
  <2>2. NetTypeOK'
    BY <1>10 DEF vars, NetTypeOK, IInv, TypeOK
  <2>3. QED
    BY <2>1, <2>2, NetworkStep
<1>11. QED
  BY <1>1, <1>2, <1>3, <1>4, <1>5, <1>6, <1>7, <1>8, <1>9, <1>10 DEF Next

-----------------------------------------------------------------------------
\* The theorems

(* IInv is an inductive invariant of the download, if no OACK comes late    *)
(* and no read or flush fails without a word.                               *)
THEOREM Inductive ==
    ASSUME NothingUnnoticed
    PROVE  Spec => []IInv
<1>1. Init => IInv
  BY InitIInv
<1>2. IInv /\ [Next]_vars => IInv'
  BY NextIInv
<1>3. QED
  BY <1>1, <1>2, PTL DEF Spec

(* All variables of both ends and the network keep to their types.          *)
THEOREM TypeCorrect ==
    ASSUME NothingUnnoticed
    PROVE  Spec => []TypeOK
<1>1. IInv => TypeOK
  BY DEF IInv
<1>2. QED
  BY <1>1, Inductive, PTL

(* The file has the blocks up to the client's, in order.                    *)
LEMMA IInvPrefix == IInv => FileIsPrefix
BY DEF IInv, FileInv, FileIsPrefix

(* The file the client writes is always the beginning of the server's, each *)
(* block once and in order, however the 16-bit block numbers wrap and       *)
(* whatever the network repeats, reorders or loses.                         *)
THEOREM WritesPrefix ==
    ASSUME NothingUnnoticed
    PROVE  Spec => []FileIsPrefix
BY IInvPrefix, Inductive, PTL

(* A client that is done has come to the end of the file.                   *)
LEMMA IInvWhole == IInv => ClientOkMeansWholeFile
<1>1. SUFFICES ASSUME IInv, client.result = "ok"
               PROVE  /\ N <= Len(file)
                      /\ \A i \in DOMAIN file : file[i] = Payload(i)
  BY DEF ClientOkMeansWholeFile
<1>2. QED
  BY <1>1 DEF IInv, FileInv, ClientInv

(* A client reports success only with the whole file written.               *)
THEOREM ClientOkIsWhole ==
    ASSUME NothingUnnoticed
    PROVE  Spec => []ClientOkMeansWholeFile
BY IInvWhole, Inductive, PTL

(* What a session takes to be acknowledged the client has.                  *)
LEMMA IInvFollows == IInv => SessionOkMeansClientOk
<1>1. SUFFICES ASSUME IInv, NEW t \in Tids, sessions[t].state = "ok"
               PROVE  client.tid = t /\ client.result = "ok"
  BY DEF SessionOkMeansClientOk
<1>2. /\ N <= sessions[t].lastAckedBlock
      /\ sessions[t].lastAckedBlock \in Nat
      /\ client.block \in Nat
  BY <1>1 DEF IInv, SessionInv, TypeOK, SessionsTypeOK, Session,
              ClientTypeOK, Client
<1>3. AckInv(t)
  BY <1>1 DEF IInv
<1>4. client.tid = t
  BY <1>2, <1>3, BlocksAssumption, SMT DEF AckInv
<1>5. N <= client.block
  BY <1>2, <1>3, <1>4, BlocksAssumption, SMT DEF AckInv
<1>6. ~(client.block < N)
  BY <1>2, <1>5, BlocksAssumption, SMT
<1>7. QED
  BY <1>1, <1>4, <1>6 DEF IInv, ClientInv

(* A session reports success only when its client already has: the block    *)
(* whose ACK ends the session is the one that ended the download.           *)
THEOREM SessionOkFollowsClient ==
    ASSUME NothingUnnoticed
    PROVE  Spec => []SessionOkMeansClientOk
BY IInvFollows, Inductive, PTL

(* The client acknowledges up to its block, and the file has as many.       *)
LEMMA IInvWritten == IInv => AckedBlocksAreWritten
<1>1. SUFFICES ASSUME IInv, client.result # "aborted"
               PROVE  /\ \A m \in net : m.op = "ACK" => m.blk <= Len(file)
                      /\ \A t \in Tids : sessions[t].lastAckedBlock <= Len(file)
  BY DEF AckedBlocksAreWritten
<1>2. Len(file) = client.block /\ client.block \in Nat
  BY <1>1 DEF IInv, FileInv, TypeOK, ClientTypeOK, Client
<1>3. \A m \in net : m.op = "ACK" => m.blk <= Len(file)
  BY <1>1, <1>2 DEF IInv, MessageInv
<1>4. ASSUME NEW t \in Tids PROVE sessions[t].lastAckedBlock <= Len(file)
  <2>1. AckInv(t)
    BY <1>1 DEF IInv
  <2>2. QED
    BY <1>2, <2>1, SMT DEF AckInv
<1>5. QED
  BY <1>3, <1>4

(* Nothing is acknowledged before it is written: not in the ACKs on their   *)
(* way, and not in what any session takes to be acknowledged.               *)
THEOREM WrittenBeforeAcked ==
    ASSUME NothingUnnoticed
    PROVE  Spec => []AckedBlocksAreWritten
BY IInvWritten, Inductive, PTL

(* The blocks sent and not acknowledged are the blocks kept for             *)
(* retransmission, and no more than a window of them.                       *)
THEOREM KeepsUnacked ==
    ASSUME NothingUnnoticed
    PROVE  Spec => []UnackedBlocksAreKept
<1>1. IInv => UnackedBlocksAreKept
  <2>1. SUFFICES ASSUME IInv, NEW t \in Tids
                 PROVE  LET s == sessions[t]
                        IN  /\ s.windowCache = (s.lastAckedBlock + 1)..s.currentBlock
                            /\ s.currentBlock <= s.lastAckedBlock + Window
    BY DEF UnackedBlocksAreKept
  <2>2. InOrder(sessions[t]) /\ sessions[t] \in Session
    BY <2>1 DEF IInv, SessionInv, TypeOK, SessionsTypeOK
  <2>3. QED
    BY <2>2, WindowBound DEF InOrder
<1>2. QED
  BY <1>1, Inductive, PTL

-----------------------------------------------------------------------------
\* Outcomes are final, and a download implements a Transfer.

(* What any step does to outcomes: those of the client and of sessions that *)
(* are over stay, and the ends do not change together.                      *)
StepKeepsOutcomes ==
    /\ ~Running => UNCHANGED <<client, file>>
    /\ \A t \in Tids : sessions[t].state \in {"ok", "failed"} =>
            sessions'[t].state = sessions[t].state
    /\ UNCHANGED sessions \/ UNCHANGED <<client, file>>
    /\ client.block <= client'.block

(* A step of the server's side.                                             *)
LEMMA SessionKeepsOutcomes ==
    ASSUME SessionsTypeOK, client \in Client,
           UNCHANGED <<client, receiveBuffer, file>>,
           NEW t \in Tids, NEW r, sessions' = [sessions EXCEPT ![t] = r],
           sessions[t].state \in {"ok", "failed"} => r.state = sessions[t].state
    PROVE  StepKeepsOutcomes
<1>1. client.block <= client'.block
  BY SMT DEF Client
<1>2. QED
  BY <1>1 DEF StepKeepsOutcomes, SessionsTypeOK

(* Sessions that are over are not started, sent to or timed out again: only *)
(* their read tasks end.                                                    *)
LEMMA SessionStepsKeepOutcomes ==
    ASSUME IInv, NEW t \in Tids,
           SessionStarts(t) \/ SessionReceives(t) \/ SessionReads(t) \/ SessionTimeout(t)
    PROVE  StepKeepsOutcomes
<1>1. /\ SessionsTypeOK
      /\ client \in Client
      /\ UNCHANGED <<client, receiveBuffer, file>>
      /\ sessions[t] \in Session
  BY DEF IInv, TypeOK, SessionsTypeOK, ClientTypeOK,
         SessionStarts, SessionReceives, SessionReads, SessionTimeout
<1>2. CASE UNCHANGED sessions
  BY <1>1, <1>2, SMT DEF StepKeepsOutcomes, Client
<1>3. CASE /\ sessions[t].state \notin {"ok", "failed"}
           /\ \E r : sessions' = [sessions EXCEPT ![t] = r]
  <2>1. PICK r : sessions' = [sessions EXCEPT ![t] = r]
    BY <1>3
  <2>2. QED
    BY <1>1, <1>3, <2>1, SessionKeepsOutcomes
<1>4. CASE \E b : sessions' = [sessions EXCEPT ![t].readTasks = @ \ {b}]
  <2>1. PICK b : sessions' = [sessions EXCEPT ![t].readTasks = @ \ {b}]
    BY <1>4
  <2> DEFINE r == [sessions[t] EXCEPT !.readTasks = @ \ {b}]
  <2>2. sessions' = [sessions EXCEPT ![t] = r] /\ r.state = sessions[t].state
    BY <1>1, <2>1 DEF Session
  <2> HIDE DEF r
  <2>3. QED
    BY <1>1, <2>2, SessionKeepsOutcomes
<1>5. CASE SessionStarts(t)
  <2>1. PICK m \in net : \/ StartSession(m, t)
                         \/ StartFailsToBind(m, t)
                         \/ StartFailsToOpen(m, t)
    BY <1>5 DEF SessionStarts
  <2>2. \E r : sessions' = [sessions EXCEPT ![t] = r]
    BY <2>1 DEF StartSession, StartFailsToBind, StartFailsToOpen
  <2>3. QED
    BY <1>3, <2>1, <2>2 DEF StartSession, StartFailsToBind, StartFailsToOpen
<1>6. CASE SessionReceives(t)
  <2>1. PICK m \in net : \/ SessionReceivesAckOfOack(m, t)
                         \/ SessionReceivesAck(m, t)
                         \/ SessionReceivesError(m, t)
                         \/ SessionIgnores(m, t)
    BY <1>6 DEF SessionReceives
  <2>2. sessions[t].state = "active"
    BY <2>1 DEF SessionReceivesAckOfOack, SessionReceivesAck,
                SessionReceivesError, SessionIgnores, Active
  <2>3. UNCHANGED sessions \/ \E r : sessions' = [sessions EXCEPT ![t] = r]
    BY <2>1 DEF SessionReceivesAckOfOack, SessionReceivesAck,
                SessionReceivesError, SessionIgnores
  <2>4. QED
    BY <1>2, <1>3, <2>2, <2>3
<1>7. CASE SessionReads(t)
  <2>1. PICK b \in sessions[t].readTasks :
            BlockRead(t, b) \/ BlockReadCut(t, b) \/ BlockReadIgnored(t, b)
    BY <1>7 DEF SessionReads
  <2>2. CASE BlockRead(t, b) \/ BlockReadCut(t, b)
    <3>1. sessions[t].state = "active" /\ \E r : sessions' = [sessions EXCEPT ![t] = r]
      BY <2>2 DEF BlockRead, BlockReadCut, SendRead, Active
    <3>2. QED
      BY <1>3, <3>1
  <2>3. CASE BlockReadIgnored(t, b)
    BY <1>4, <2>3 DEF BlockReadIgnored
  <2>4. QED
    BY <2>1, <2>2, <2>3
<1>8. CASE SessionTimeout(t)
  <2>1. sessions[t].state = "active" /\ \E r : sessions' = [sessions EXCEPT ![t] = r]
    BY <1>8 DEF SessionTimeout, SessionTimesOut, Active
  <2>2. QED
    BY <1>3, <2>1
<1>9. QED
  BY <1>5, <1>6, <1>7, <1>8

(* The client gets no fewer blocks, and only while it runs.                 *)
LEMMA ClientStepsKeepOutcomes ==
    ASSUME IInv, NothingUnnoticed, ClientReceives \/ ClientTimeout \/ UserActs
    PROVE  StepKeepsOutcomes
<1>1. /\ UNCHANGED sessions
      /\ client \in Client
      /\ client.block \in Nat
  BY DEF ClientReceives, ClientTimeout, UserActs, IInv, TypeOK, ClientTypeOK, Client
<1>2. CASE ClientReceives
  <2>1. PICK m \in net :
          /\ Arrives(m)
          /\ \/ ReceiveData(m)
             \/ ReceiveDataWriteFails(m)
             \/ ReceiveUnexpectedData(m)
             \/ ReceiveOack(m)
             \/ ReceiveError(m)
             \/ ReceiveStray(m)
    BY <1>2 DEF ClientReceives
  <2>2. Running
    BY <2>1 DEF ReceiveData, ReceiveDataWriteFails, ReceiveUnexpectedData,
                ReceiveOack, ReceiveError, ReceiveStray, FromPeer
  <2>3. CASE ReceiveData(m)
    <3>1. PICK b \in Expected :
            \E k \in client.block..(client.block +
                       Cardinality(DOMAIN Put(receiveBuffer, b, m.payload))) :
                client'.block = k
      BY <1>1, <2>3 DEF ReceiveData, Client
    <3>2. client.block <= client'.block
      BY <1>1, <3>1, SMT
    <3>3. QED
      BY <1>1, <2>2, <3>2 DEF StepKeepsOutcomes
  <2>4. CASE ReceiveDataWriteFails(m)
    <3>1. PICK b \in Expected :
            \E k \in client.block..(client.block +
                       Cardinality(DOMAIN Put(receiveBuffer, b, m.payload))) :
                client'.block = k
      BY <1>1, <2>4 DEF ReceiveDataWriteFails, Client
    <3>2. client.block <= client'.block
      BY <1>1, <3>1, SMT
    <3>3. QED
      BY <1>1, <2>2, <3>2 DEF StepKeepsOutcomes
  <2>5. CASE ReceiveOack(m)
    <3>1. m.tid = client.tid \/ client.block = 0
      BY <2>1, <2>5, FromPeerFacts DEF ReceiveOack
    <3>2. client.block = 0 /\ client'.block = 0
      BY <1>1, <2>1, <2>2, <2>5, <3>1
         DEF ReceiveOack, Arrives, OackInTime, NothingUnnoticed, IInv, ClientInv, Client
    <3>3. client.block <= client'.block
      BY <3>2, SMT
    <3>4. QED
      BY <1>1, <2>2, <3>3 DEF StepKeepsOutcomes
  <2>6. CASE ReceiveUnexpectedData(m) \/ ReceiveError(m) \/ ReceiveStray(m)
    <3>1. client'.block = client.block
      BY <1>1, <2>6 DEF ReceiveUnexpectedData, ReceiveError, ReceiveStray, Client
    <3>2. client.block <= client'.block
      BY <1>1, <3>1, SMT
    <3>3. QED
      BY <1>1, <2>2, <3>2 DEF StepKeepsOutcomes
  <2>7. QED
    BY <2>1, <2>3, <2>4, <2>5, <2>6
<1>3. CASE ClientTimeout \/ UserActs
  <2>1. Running
    BY <1>3 DEF ClientTimeout, ClientTimesOut, UserActs, Abort, BeginWhileRunning
  <2>2. client'.block = client.block
    BY <1>1, <1>3 DEF ClientTimeout, ClientTimesOut, UserActs, Abort,
                      BeginWhileRunning, Client
  <2>3. client.block <= client'.block
    BY <1>1, <2>2, SMT
  <2>4. QED
    BY <1>1, <2>1, <2>3 DEF StepKeepsOutcomes
<1>4. QED
  BY <1>2, <1>3

(* The same of every step.                                                  *)
LEMMA NextKeepsOutcomes ==
    ASSUME IInv, NothingUnnoticed, [Next]_vars
    PROVE  StepKeepsOutcomes
<1>1. CASE \E t \in Tids : \/ SessionStarts(t)
                           \/ SessionReceives(t)
                           \/ SessionReads(t)
                           \/ SessionTimeout(t)
  BY <1>1, SessionStepsKeepOutcomes
<1>2. CASE ClientReceives \/ ClientTimeout \/ UserActs
  BY <1>2, ClientStepsKeepOutcomes
<1>3. CASE ServerRejects \/ NetworkLoses \/ NetworkDiscards \/ UNCHANGED vars
  <2>1. UNCHANGED <<sessions, client, file>>
    BY <1>3 DEF ServerRejects, RejectRequest, NetworkLoses, NetworkDiscards, vars
  <2>2. client.block <= client'.block
    BY <2>1, SMT DEF IInv, TypeOK, ClientTypeOK, Client
  <2>3. QED
    BY <2>1, <2>2 DEF StepKeepsOutcomes
<1>4. QED
  BY <1>1, <1>2, <1>3 DEF Next

(* No step revives or reverses a transfer that is over, at either end.      *)
THEOREM OutcomesStand ==
    ASSUME NothingUnnoticed
    PROVE  Spec => OutcomeIsFinal
<1>1. IInv /\ [Next]_vars =>
        [/\ client.result # "running" => UNCHANGED <<client, file>>
         /\ \A t \in Tids : sessions[t].state \in {"ok", "failed"} =>
              sessions'[t].state = sessions[t].state]_vars
  BY NextKeepsOutcomes DEF StepKeepsOutcomes, Running
<1>2. QED
  BY <1>1, Inductive, PTL DEF Spec, OutcomeIsFinal

-----------------------------------------------------------------------------
\* A download implements a Transfer

(* The variables of the Transfer a download implements: the operands of T.  *)
Written == SubSeq(file, 1, IF Len(file) <= N THEN Len(file) ELSE N)

Receiver == CASE Running              -> "busy"
              [] client.result = "ok" -> "ok"
              [] OTHER                -> "failed"

Confirmed == \E t \in Tids : sessions[t].state = "ok"

(* The blocks that are both in the client's file and in the server's.       *)
Common == IF client.block <= N THEN client.block ELSE N

(* Unless its user removed it, the file holds the blocks the client counts. *)
WrittenIsCommon ==
    Written = IF client.result = "aborted" THEN << >> ELSE [i \in 1..Common |-> i]

(* The file of a download in progress.                                      *)
LEMMA WrittenBlocks ==
    ASSUME IInv, client.result # "aborted"
    PROVE  Written = [i \in 1..Common |-> i]
<1>1. /\ client.block \in Nat
      /\ file \in Seq(Payloads)
      /\ Len(file) = client.block
      /\ \A i \in DOMAIN file : file[i] = Payload(i)
  BY DEF IInv, FileInv, TypeOK, ClientTypeOK, Client
<1> DEFINE c == Common
<1>2. c \in Nat /\ c <= client.block /\ c <= N
  BY <1>1, BlocksAssumption, SMT DEF Common
<1>3. Written = SubSeq(file, 1, c)
  BY <1>1 DEF Written, Common
<1> HIDE DEF c
<1>4. /\ Len(SubSeq(file, 1, c)) = c
      /\ SubSeq(file, 1, c) \in Seq(Payloads)
      /\ \A i \in 1..c : SubSeq(file, 1, c)[i] = file[i]
  BY <1>1, <1>2, SMT
<1>5. SubSeq(file, 1, c) = [i \in 1..c |-> SubSeq(file, 1, c)[i]]
  BY <1>4, SeqDef
<1>6. \A i \in 1..c : file[i] = i
  <2>1. ASSUME NEW i \in 1..c PROVE file[i] = i
    <3>1. i \in 1..Len(file) /\ i <= N
      BY <1>1, <1>2, BlocksAssumption, SMT
    <3>2. i \in DOMAIN file
      BY <1>1, <3>1
    <3>3. QED
      BY <1>1, <3>1, <3>2 DEF Payload
  <2>2. QED
    BY <2>1
<1>7. QED
  BY <1>3, <1>4, <1>5, <1>6 DEF c

(* The removed file of an aborted download.                                 *)
LEMMA NothingWritten ==
    ASSUME IInv, client.result = "aborted"
    PROVE  Written = << >>
<1>1. file = << >> /\ Len(file) = 0
  BY DEF IInv, FileInv
<1>2. Len(file) <= N
  BY <1>1, BlocksAssumption, SMT
<1>3. QED
  BY <1>1, <1>2, SMT DEF Written

(* Both together.                                                           *)
LEMMA WrittenAlways == IInv => WrittenIsCommon
BY WrittenBlocks, NothingWritten DEF WrittenIsCommon

(* A step in which only the server's side or the network moves: a session   *)
(* that succeeds confirms.                                                  *)
LEMMA SessionsConfirm ==
    ASSUME IInv, IInv', StepKeepsOutcomes, UNCHANGED <<client, file>>,
           SessionOkMeansClientOk'
    PROVE  T!Confirm \/ UNCHANGED T!vars
<1>1. Written' = Written /\ Receiver' = Receiver
  BY DEF Written, Receiver, Running
<1>2. Confirmed => Confirmed'
  BY DEF Confirmed, StepKeepsOutcomes
<1>3. Confirmed \in BOOLEAN /\ Confirmed' \in BOOLEAN
  BY DEF Confirmed
<1>4. CASE Confirmed = Confirmed'
  <2>1. QED
    BY <1>1, <1>4 DEF T!vars, Written, Receiver, Confirmed
<1>5. CASE Confirmed # Confirmed'
  <2>1. Confirmed'
    BY <1>2, <1>3, <1>5
  <2>2. client'.result = "ok"
    BY <2>1 DEF Confirmed, SessionOkMeansClientOk
  <2>3. Receiver = "ok"
    BY <2>2 DEF Receiver, Running
  <2>4. Confirmed' = TRUE
    BY <1>3, <2>1
  <2>5. QED
    BY <1>1, <2>3, <2>4 DEF T!Confirm, Written, Receiver, Confirmed
<1>6. QED
  BY <1>4, <1>5

(* A step of the client: it writes, or gives up.                            *)
LEMMA ClientWrites ==
    ASSUME IInv, IInv', StepKeepsOutcomes, UNCHANGED sessions, Running
    PROVE  T!Write \/ T!GiveUp
<1>1. /\ client.block \in Nat
      /\ client'.block \in Nat
      /\ client.result = "running"
      /\ client'.result \in {"running", "ok", "failed", "aborted"}
      /\ client.block < N
      /\ client.block <= client'.block
      /\ IF client'.result = "ok" THEN N <= client'.block ELSE client'.block < N
  <2>1. client \in Client /\ client' \in Client
    BY DEF IInv, TypeOK, ClientTypeOK
  <2>2. client.result # "ok" /\ client.result = "running"
    BY DEF Running
  <2>3. QED
    BY <2>1, <2>2 DEF Client, IInv, ClientInv, StepKeepsOutcomes
<1> DEFINE n == Common'
<1>2. /\ n \in Nat
      /\ n <= N
      /\ client.block <= n
      /\ Common = client.block
      /\ n = N <=> client'.result = "ok"
  BY <1>1, BlocksAssumption, SMT DEF Common
<1>3. Written = [i \in 1..client.block |-> i] /\ Receiver = "busy"
  BY <1>1, <1>2, WrittenBlocks DEF Receiver
<1>4. Len(Written) = client.block
  BY <1>1, <1>3, SMT
<1>5. Confirmed' = Confirmed
  BY DEF Confirmed
<1>6. WrittenIsCommon'
  <2>1. IInv' => WrittenIsCommon'
    BY WrittenAlways, PTL
  <2>2. QED
    BY <2>1
<1>7. Written' = IF client'.result = "aborted" THEN << >> ELSE [i \in 1..n |-> i]
  BY <1>6 DEF WrittenIsCommon
<1> HIDE DEF n
<1>8. n \in Len(Written)..N
  BY <1>1, <1>2, <1>4, BlocksAssumption, SMT
<1>9. CASE client'.result = "running"
  <2>1. Receiver' = "busy" /\ n # N
    BY <1>2, <1>9 DEF Receiver, Running
  <2>2. QED
    BY <1>3, <1>5, <1>7, <1>8, <1>9, <2>1
       DEF T!Write, T!FirstBlocks, Written, Receiver, Confirmed
<1>10. CASE client'.result = "ok"
  <2>1. Receiver' = "ok" /\ n = N
    BY <1>2, <1>10 DEF Receiver, Running
  <2>2. QED
    BY <1>3, <1>5, <1>7, <1>8, <1>10, <2>1
       DEF T!Write, T!FirstBlocks, Written, Receiver, Confirmed
<1>11. CASE client'.result \in {"failed", "aborted"}
  <2>1. Receiver' = "failed" /\ n # N
    BY <1>2, <1>11 DEF Receiver, Running
  <2>2. n \in Len(Written)..(N - 1)
    BY <1>1, <1>2, <1>4, <2>1, BlocksAssumption, SMT
  <2>3. QED
    BY <1>3, <1>5, <1>7, <1>11, <2>1, <2>2
       DEF T!GiveUp, T!FirstBlocks, Written, Receiver, Confirmed
<1>12. QED
  BY <1>1, <1>9, <1>10, <1>11

(* What its two ends promise, a download keeps: the refinement that the     *)
(* runs check on small instances.                                           *)
THEOREM DownloadImplementsTransfer ==
    ASSUME NothingUnnoticed
    PROVE  Spec => ImplementsTransfer
<1>1. Init => T!Init
  <2>1. SUFFICES ASSUME Init PROVE T!Init
    OBVIOUS
  <2>2. client.result = "running" /\ file = << >> /\ client.block = 0
    BY <2>1 DEF Init, ClientInit
  <2>3. Receiver = "busy"
    BY <2>2 DEF Receiver, Running
  <2>4. Written = << >>
    <3>1. Len(file) = 0 /\ Len(file) <= N
      BY <2>2, BlocksAssumption, SMT
    <3>2. QED
      BY <2>2, <3>1, SMT DEF Written
  <2>5. Confirmed = FALSE
    BY <2>1 DEF Init, SessionsInit, NewSession, Confirmed
  <2>6. QED
    BY <2>3, <2>4, <2>5 DEF T!Init, Written, Receiver, Confirmed
<1>2. /\ IInv /\ IInv' /\ SessionOkMeansClientOk'
      /\ [Next]_vars
      => [T!Next]_T!vars
  <2>1. SUFFICES ASSUME IInv, IInv', SessionOkMeansClientOk', [Next]_vars
                 PROVE  T!Next \/ UNCHANGED T!vars
    BY DEF T!vars
  <2>2. StepKeepsOutcomes
    BY <2>1, NextKeepsOutcomes
  <2>3. CASE UNCHANGED <<client, file>>
    BY <2>1, <2>2, <2>3, SessionsConfirm DEF T!Next
  <2>4. CASE UNCHANGED sessions /\ Running
    BY <2>1, <2>2, <2>4, ClientWrites DEF T!Next
  <2>5. QED
    BY <2>2, <2>3, <2>4 DEF StepKeepsOutcomes
<1>3. QED
  BY <1>1, <1>2, Inductive, SessionOkFollowsClient, PTL
     DEF Spec, ImplementsTransfer, T!Spec
=============================================================================
