--------------------------- MODULE Upload_proofs ----------------------------
(***************************************************************************)
(* Upload is correct for every file, window, number space, number of       *)
(* retries and of sessions, with or without duplication and whatever fails *)
(* at either end and is noticed, if no datagram outlives a turn of the     *)
(* block numbers.                                                          *)
(***************************************************************************)
EXTENDS Upload, Blocks_proofs, SequenceTheorems

(* m_retries counts up to one more than m_maxRetries. *)
LEMMA ZeroRetries == 0 \in 0..MaxRetries + 1 /\ 0 <= MaxRetries
BY BlocksAssumption, SMT

(* Taking some blocks out of a QMap. *)
LEMMA WithoutType ==
    ASSUME NEW f, NEW S,
           DOMAIN f \subseteq Nat, f \in [DOMAIN f -> Payloads]
    PROVE  /\ DOMAIN Without(f, S) \subseteq Nat
           /\ Without(f, S) \in [DOMAIN Without(f, S) -> Payloads]
           /\ DOMAIN Without(f, S) = DOMAIN f \ S
           /\ \A y \in DOMAIN f \ S : Without(f, S)[y] = f[y]
BY DEF Without

(* A receive buffer that holds blocks of the file. *)
GoodBuffer(f) ==
    /\ DOMAIN f \subseteq Nat
    /\ f \in [DOMAIN f -> Payloads]
    /\ \A b \in DOMAIN f : GoodBlock(b, f[b])

(* Taking the block that follows changes only which block a task has, and   *)
(* gives it a block of the file.                                            *)
LEMMA TakeNextInv ==
    ASSUME NEW s \in Session, NEW buffer, GoodBuffer(buffer),
           s.writing # 0 =>
               s.writing = s.currentBlock + 1 /\ GoodBlock(s.writing, s.payload)
    PROVE  LET r == TakeNext(s, buffer)
           IN  /\ r \in Session
               /\ r.writing # 0 =>
                    r.writing = r.currentBlock + 1 /\ GoodBlock(r.writing, r.payload)
               /\ r.state = s.state
               /\ r.currentBlock = s.currentBlock
               /\ r.lastPacket = s.lastPacket
               /\ r.retries = s.retries
               /\ GoodBuffer(LeaveRest(s, buffer))
<1> DEFINE next == s.currentBlock + 1
           r == [s EXCEPT !.writing = next, !.payload = buffer[next]]
<1>1. next \in Nat
  BY SMT DEF Session
<1>2. GoodBuffer(LeaveRest(s, buffer))
  <2> DEFINE rest == Without(buffer, {next})
  <2>1. GoodBuffer(rest)
    <3>1. /\ DOMAIN rest \subseteq Nat
          /\ rest \in [DOMAIN rest -> Payloads]
          /\ DOMAIN rest = DOMAIN buffer \ {next}
          /\ \A y \in DOMAIN buffer \ {next} : rest[y] = buffer[y]
      BY WithoutType DEF GoodBuffer
    <3> HIDE DEF rest
    <3>2. \A y \in DOMAIN rest : GoodBlock(y, rest[y])
      BY <3>1 DEF GoodBuffer
    <3>3. QED
      BY <3>1, <3>2 DEF GoodBuffer
  <2>2. QED
    BY <2>1 DEF LeaveRest
<1>3. CASE s.writing = 0 /\ next \in DOMAIN buffer
  <2>1. TakeNext(s, buffer) = r
    BY <1>3 DEF TakeNext
  <2>2. buffer[next] \in Payloads /\ GoodBlock(next, buffer[next])
    BY <1>3 DEF GoodBuffer
  <2>3. /\ r \in Session
        /\ r.writing = next
        /\ r.payload = buffer[next]
        /\ r.state = s.state
        /\ r.currentBlock = s.currentBlock
        /\ r.lastPacket = s.lastPacket
        /\ r.retries = s.retries
    BY <1>1, <2>2 DEF Session
  <2> HIDE DEF r
  <2>4. QED
    BY <1>2, <2>1, <2>2, <2>3
<1>4. CASE ~(s.writing = 0 /\ next \in DOMAIN buffer)
  <2>1. TakeNext(s, buffer) = s
    BY <1>4 DEF TakeNext
  <2>2. QED
    BY <1>2, <2>1
<1>5. QED
  BY <1>3, <1>4

-----------------------------------------------------------------------------
\* What a step of one side leaves true of the other

(* Datagrams leave and enter the network: it holds old ones and new ones.   *)
LEMMA NetStep ==
    ASSUME NetTypeOK, NEW m, NEW R \in SUBSET Message,
           Deliver(m, R) \/ Send(R) \/ Lose(m) \/ Discard(m)
    PROVE  NetTypeOK' /\ net' \subseteq net \cup R
<1>1. net' \subseteq net \cup R
  BY DEF Deliver, Send, Lose, Discard
<1>2. losses' \in 0..MaxLosses
  BY NetworkAssumption, SMT DEF NetTypeOK, Deliver, Send, Lose, Discard
<1>3. QED
  BY <1>1, <1>2 DEF NetTypeOK

(* The datagrams a session sends. *)
SessionMessages(t, r) ==
    {Ack("client", t, r.currentBlock),
     Msg("ERROR", "client", t, 0), Msg("ERROR", "client", NoTid, 0)}
        \cup IF Options THEN {Oack(t)} ELSE {}

LEMMA SessionMessagesType ==
    ASSUME NEW t \in Tids, NEW r \in Session
    PROVE  SessionMessages(t, r) \in SUBSET Message
<1>1. r.currentBlock \in Nat
  BY DEF Session
<1>2. QED
  BY <1>1, PayloadType DEF SessionMessages, Message, Ops, Ack, Oack, Msg

(* A step of session t that leaves it and the file in order keeps the       *)
(* invariant.                                                               *)
LEMMA SessionStep ==
    ASSUME IInv, NEW t \in Tids, NEW r \in Session, NEW buffer,
           sessions' = [sessions EXCEPT ![t] = r],
           DOMAIN receiveBuffer' = Tids,
           \A u \in Tids :
                receiveBuffer'[u] = IF u = t THEN buffer ELSE receiveBuffer[u],
           GoodBuffer(buffer),
           UNCHANGED <<client, windowCache>>,
           NetTypeOK',
           net' \subseteq net \cup SessionMessages(t, r),
           file' \in Seq(Payloads),
           creator' = creator \/ (creator = NoTid /\ creator' = t),
           SessionInv(t)',
           FileInv',
           sessions[t].currentBlock <= r.currentBlock,
           t = client.tid => InThisTurn(r.currentBlock)
    PROVE  IInv'
<1> USE DEF IInv
<1>0. /\ sessions \in [Tids -> Session]
      /\ DOMAIN receiveBuffer = Tids
      /\ client \in Client
      /\ client' = client /\ windowCache' = windowCache
      /\ \A u \in Tids : sessions'[u] = IF u = t THEN r ELSE sessions[u]
      /\ \A u \in Tids : receiveBuffer'[u] = IF u = t THEN buffer ELSE receiveBuffer[u]
      /\ DOMAIN receiveBuffer' = Tids
      /\ creator \in Tids \cup {NoTid}
  BY DEF TypeOK, SessionsTypeOK, ClientTypeOK
<1>a. \A u \in Tids : /\ sessions[u].currentBlock \in Nat
                       /\ sessions'[u].currentBlock \in Nat
                       /\ sessions[u].currentBlock <= sessions'[u].currentBlock
  BY <1>0, SMT DEF Session
<1>b. \A b, p : GoodBlock(b, p) <=> GoodBlock(b, p)'
  BY <1>0 DEF GoodBlock, InThisTurn
<1>1. TypeOK'
  <2>1. sessions' \in [Tids -> Session]
    BY <1>0
  <2>2. ASSUME NEW u \in Tids
        PROVE  /\ DOMAIN receiveBuffer'[u] \subseteq Nat
               /\ receiveBuffer'[u] \in [DOMAIN receiveBuffer'[u] -> Payloads]
    BY <1>0 DEF TypeOK, SessionsTypeOK, GoodBuffer
  <2>3. creator' \in Tids \cup {NoTid}
    BY <1>0
  <2>4. SessionsTypeOK'
    BY <1>0, <2>1, <2>2, <2>3 DEF SessionsTypeOK
  <2>5. ClientTypeOK'
    BY <1>0 DEF ClientTypeOK, TypeOK
  <2>6. QED
    BY <2>4, <2>5 DEF TypeOK
<1>2. ASSUME NEW u \in Tids PROVE SessionInv(u)'
  <2>1. CASE u = t
    BY <2>1
  <2>2. CASE u # t
    <3>1. SessionInv(u)
      OBVIOUS
    <3>2. sessions'[u] = sessions[u] /\ receiveBuffer'[u] = receiveBuffer[u]
      BY <1>0, <2>2
    <3>3. (u = creator) <=> (u = creator')
      BY <2>2, NetworkAssumption
    <3>4. QED
      BY <1>0, <1>b, <3>1, <3>2, <3>3 DEF SessionInv
  <2>3. QED
    BY <2>1, <2>2
<1>3. ASSUME NEW m \in net' PROVE MessageInv(m)'
  <2>1. CASE m \in net
    <3>1. MessageInv(m) /\ m \in Message
      BY <2>1 DEF TypeOK, NetTypeOK
    <3>2. m.op = "ACK" => m.blk <= sessions'[m.tid].currentBlock
      BY <1>a, <3>1, SMT DEF MessageInv, Message
    <3>3. m.op = "DATA" => m.blk <= sessions'[m.tid].currentBlock + Window
      BY <1>a, <3>1, BlocksAssumption, SMT DEF MessageInv, Message
    <3>4. QED
      BY <1>0, <1>b, <3>1, <3>2, <3>3 DEF MessageInv
  <2>2. CASE m = Ack("client", t, r.currentBlock)
    <3>1. /\ m.op = "ACK" /\ m.to = "client" /\ m.tid = t
          /\ m.blk = sessions'[m.tid].currentBlock
      BY <1>0, <2>2 DEF Ack, Msg
    <3>2. m.blk <= sessions'[m.tid].currentBlock
      BY <1>a, <3>1, SMT
    <3>3. QED
      BY <3>1, <3>2 DEF MessageInv
  <2>3. CASE Options /\ m = Oack(t)
    BY <2>3 DEF MessageInv, Oack, Msg
  <2>4. CASE m \in {Msg("ERROR", "client", t, 0), Msg("ERROR", "client", NoTid, 0)}
    BY <2>4 DEF MessageInv, Msg
  <2>5. QED
    BY <2>1, <2>2, <2>3, <2>4 DEF SessionMessages
<1>4. CacheInv'
  BY <1>0 DEF CacheInv, UnackedBlocksAreKept
<1>5. ClientInv'
  <2>1. client.tid \in Tids =>
            /\ client.lastAckedBlock <= sessions'[client.tid].currentBlock
            /\ InThisTurn(sessions'[client.tid].currentBlock)
    <3>1. client.lastAckedBlock \in Nat
      BY <1>0 DEF Client
    <3>2. client.tid \in Tids =>
            client.lastAckedBlock <= sessions[client.tid].currentBlock
      BY DEF ClientInv
    <3>3. client.tid \in Tids =>
            client.lastAckedBlock <= sessions'[client.tid].currentBlock
      BY <1>a, <3>1, <3>2, SMT
    <3>4. QED
      BY <1>0, <3>3 DEF ClientInv
  <2>2. QED
    BY <1>0, <2>1 DEF ClientInv, InThisTurn, Running
<1>6. QED
  BY <1>1, <1>2, <1>3, <1>4, <1>5

(* A step of session t that does not write. *)
LEMMA SessionStepKeepsFile ==
    ASSUME IInv, NEW t \in Tids, NEW r \in Session, NEW buffer,
           sessions' = [sessions EXCEPT ![t] = r],
           DOMAIN receiveBuffer' = Tids,
           \A u \in Tids :
                receiveBuffer'[u] = IF u = t THEN buffer ELSE receiveBuffer[u],
           GoodBuffer(buffer),
           UNCHANGED <<client, windowCache>>,
           NetTypeOK',
           net' \subseteq net \cup SessionMessages(t, r),
           UNCHANGED <<file, creator>>,
           r.currentBlock = sessions[t].currentBlock,
           SessionInv(t)'
    PROVE  IInv'
<1>1. /\ sessions \in [Tids -> Session]
      /\ creator \in Tids \cup {NoTid}
      /\ file \in Seq(Payloads)
      /\ FileInv
      /\ ClientInv
  BY DEF IInv, TypeOK, SessionsTypeOK
<1>2. sessions'[creator].currentBlock = sessions[creator].currentBlock \/ creator = NoTid
  BY <1>1
<1>3. FileInv'
  BY <1>1, <1>2 DEF FileInv
<1>4. sessions[t].currentBlock <= r.currentBlock
  BY <1>1, SMT DEF Session
<1>5. t = client.tid => InThisTurn(r.currentBlock)
  BY <1>1 DEF ClientInv
<1>6. /\ file' \in Seq(Payloads)
      /\ creator' = creator \/ (creator = NoTid /\ creator' = t)
  BY <1>1
<1>7. UNCHANGED <<client, windowCache>>
  OBVIOUS
<1>8. QED
  BY <1>3, <1>4, <1>5, <1>6, <1>7, SessionStep

-----------------------------------------------------------------------------
\* The server's steps

(* What the invariant says of one session. *)
LEMMA SessionFacts ==
    ASSUME IInv, NEW t \in Tids
    PROVE  /\ sessions \in [Tids -> Session]
           /\ sessions[t] \in Session
           /\ SessionInv(t)
           /\ GoodBuffer(receiveBuffer[t])
           /\ NetTypeOK
           /\ file \in Seq(Payloads)
           /\ creator \in Tids \cup {NoTid}
<1>1. /\ SessionInv(t)
      /\ SessionsTypeOK
      /\ NetTypeOK
  BY DEF IInv, TypeOK
<1>2. GoodBuffer(receiveBuffer[t])
  BY <1>1 DEF SessionInv, SessionsTypeOK, GoodBuffer
<1>3. QED
  BY <1>1, <1>2 DEF SessionsTypeOK

(* The receive buffers when none changes, or t's. *)
LEMMA BuffersAfter ==
    ASSUME IInv, NEW t \in Tids, NEW buffer,
           \/ buffer = receiveBuffer[t] /\ UNCHANGED receiveBuffer
           \/ receiveBuffer' = [receiveBuffer EXCEPT ![t] = buffer]
    PROVE  /\ DOMAIN receiveBuffer' = Tids
           /\ \A u \in Tids :
                receiveBuffer'[u] = IF u = t THEN buffer ELSE receiveBuffer[u]
BY DEF IInv, TypeOK, SessionsTypeOK

(* A session that ends, or does nothing but count or send, stays in order.  *)
LEMMA SessionKeepsBuffer ==
    ASSUME IInv, NEW t \in Tids, NEW r \in Session,
           sessions' = [sessions EXCEPT ![t] = r],
           UNCHANGED <<receiveBuffer, file, creator, client, windowCache>>,
           NEW m, NEW R \in SUBSET SessionMessages(t, r),
           Deliver(m, R) \/ Send(R) \/ (NetTypeOK' /\ net' \subseteq net \cup R),
           r.currentBlock = sessions[t].currentBlock,
           r.writing \in {0, sessions[t].writing},
           r.payload = sessions[t].payload,
           \/ r.state = sessions[t].state
           \/ sessions[t].state \in {"unused", "active"} /\ r.state = "failed",
           r.state \in {"unused", "active"} => r.retries <= MaxRetries,
           r.lastPacket = "OACK" => sessions[t].lastPacket = "OACK"
    PROVE  IInv'
<1>1. /\ sessions \in [Tids -> Session]
      /\ sessions[t] \in Session
      /\ SessionInv(t)
      /\ GoodBuffer(receiveBuffer[t])
      /\ NetTypeOK
  BY SessionFacts
<1>2. R \in SUBSET Message
  BY SessionMessagesType
<1>3. NetTypeOK' /\ net' \subseteq net \cup SessionMessages(t, r)
  BY <1>1, <1>2, NetStep
<1>4. /\ DOMAIN receiveBuffer' = Tids
      /\ \A u \in Tids :
            receiveBuffer'[u] = IF u = t THEN receiveBuffer[t] ELSE receiveBuffer[u]
  BY BuffersAfter
<1>5. /\ sessions'[t] = r
      /\ receiveBuffer'[t] = receiveBuffer[t]
      /\ creator' = creator
      /\ client' = client
  BY <1>1
<1>6. \A b, p : GoodBlock(b, p) <=> GoodBlock(b, p)'
  BY <1>5 DEF GoodBlock, InThisTurn
<1>7. SessionInv(t)'
  BY <1>1, <1>5, <1>6 DEF SessionInv
<1>8. UNCHANGED <<client, windowCache>> /\ UNCHANGED <<file, creator>>
  OBVIOUS
<1>9. QED
  BY <1>1, <1>3, <1>4, <1>7, <1>8, SessionStepKeepsFile

(* A new session. *)
LEMMA SessionStartsStep ==
    ASSUME IInv, NEW t \in Tids, SessionStarts(t)
    PROVE  IInv'
<1>1. PICK m \in net : \/ StartSession(m, t)
                        \/ StartFailsToBind(m, t)
                        \/ StartFailsToOpen(m, t)
  BY DEF SessionStarts
<1>2. UNCHANGED <<client, windowCache>>
  BY DEF SessionStarts, clientVars
<1>3. /\ sessions \in [Tids -> Session]
      /\ sessions[t] \in Session
      /\ SessionInv(t)
      /\ GoodBuffer(receiveBuffer[t])
      /\ NetTypeOK
      /\ file \in Seq(Payloads)
  BY SessionFacts
<1>4. sessions[t].state = "unused"
  BY <1>1 DEF StartSession, StartFailsToBind, StartFailsToOpen, ServerTakesRequest
<1>5. t # creator /\ sessions[t].currentBlock = 0
  BY <1>3, <1>4 DEF SessionInv
<1>6. CASE StartSession(m, t)
  <2> DEFINE packet == IF Options THEN "OACK" ELSE "ACK"
             r == [sessions[t] EXCEPT !.state = "active", !.lastPacket = packet]
  <2>1. /\ sessions' = [sessions EXCEPT ![t] = r]
        /\ Deliver(m, {LastPacket(t, r)})
        /\ creator = NoTid
        /\ creator' = t
        /\ UNCHANGED <<receiveBuffer, file>>
    BY <1>6 DEF StartSession
  <2>2. /\ r \in Session
        /\ r.state = "active"
        /\ r.currentBlock = 0
        /\ r.writing = 0
        /\ r.retries <= MaxRetries
        /\ r.lastPacket = packet
    BY <1>3, <1>4, <1>5 DEF Session, SessionInv
  <2> HIDE DEF r
  <2>3. {LastPacket(t, r)} \in SUBSET SessionMessages(t, r)
    BY <2>2 DEF LastPacket, SessionMessages
  <2>4. NetTypeOK' /\ net' \subseteq net \cup SessionMessages(t, r)
    <3>1. {LastPacket(t, r)} \in SUBSET Message
      BY <2>2, <2>3, SessionMessagesType
    <3>2. QED
      BY <1>3, <2>1, <2>3, <3>1, NetStep
  <2>5. /\ DOMAIN receiveBuffer' = Tids
        /\ \A u \in Tids :
              receiveBuffer'[u] = IF u = t THEN receiveBuffer[t] ELSE receiveBuffer[u]
    BY <2>1, BuffersAfter
  <2>6. /\ sessions'[t] = r
        /\ receiveBuffer'[t] = receiveBuffer[t]
        /\ client' = client
    BY <1>2, <1>3, <2>1
  <2>7. \A b, p : GoodBlock(b, p) <=> GoodBlock(b, p)'
    BY <2>6 DEF GoodBlock, InThisTurn
  <2>8. SessionInv(t)'
    <3>1. 0 < N
      BY BlocksAssumption, SMT
    <3>2. QED
      BY <1>3, <2>1, <2>2, <2>6, <2>7, <3>1 DEF SessionInv
  <2>9. FileInv'
    <3>1. file = << >>
      BY <2>1 DEF IInv, FileInv
    <3>2. Len(file') = 0 /\ DOMAIN file' = {}
      BY <2>1, <3>1
    <3>3. creator' # NoTid
      BY <2>1, NetworkAssumption
    <3>4. sessions'[creator'].currentBlock = 0
      BY <2>1, <2>2, <2>6
    <3>5. QED
      BY <3>2, <3>3, <3>4 DEF FileInv
  <2>10. /\ sessions[t].currentBlock <= r.currentBlock
         /\ InThisTurn(r.currentBlock)
    BY <1>5, <2>2, BlocksAssumption, SMT DEF InThisTurn
  <2>11. /\ file' \in Seq(Payloads)
         /\ creator' = creator \/ (creator = NoTid /\ creator' = t)
    BY <1>3, <2>1
  <2>12. QED
    BY <1>2, <1>3, <2>1, <2>2, <2>4, <2>5, <2>8, <2>9, <2>10, <2>11, SessionStep
<1>7. CASE StartFailsToBind(m, t) \/ StartFailsToOpen(m, t)
  <2> DEFINE r == Finish(sessions[t], "failed")
  <2>1. /\ sessions' = [sessions EXCEPT ![t] = r]
        /\ Deliver(m, {}) \/ Deliver(m, {Msg("ERROR", "client", t, 0)})
        /\ UNCHANGED <<receiveBuffer, file, creator>>
    BY <1>3, <1>7 DEF StartFailsToBind, StartFailsToOpen
  <2>2. /\ r \in Session
        /\ r.state = "failed"
        /\ r.currentBlock = sessions[t].currentBlock
        /\ r.writing = sessions[t].writing
        /\ r.payload = sessions[t].payload
        /\ r.lastPacket = sessions[t].lastPacket
    BY <1>3, <1>4 DEF Finish, Session
  <2> HIDE DEF r
  <2>3. PICK R \in SUBSET SessionMessages(t, r) : Deliver(m, R)
    <3>1. {} \in SUBSET SessionMessages(t, r)
          /\ {Msg("ERROR", "client", t, 0)} \in SUBSET SessionMessages(t, r)
      BY DEF SessionMessages
    <3>2. QED
      BY <2>1, <3>1
  <2>4. UNCHANGED <<receiveBuffer, file, creator, client, windowCache>>
    BY <1>2, <2>1
  <2>5. QED
    BY <1>4, <2>1, <2>2, <2>3, <2>4, SessionKeepsBuffer
<1>8. QED
  BY <1>1, <1>6, <1>7

(* The block that handleData() finds is the one that was sent. *)
LEMMA DataFound ==
    ASSUME IInv, NEW t \in Tids, NEW m \in net, Fresh(m),
           m.op = "DATA", m.tid = t,
           NEW b \in Expected(sessions[t]),
           IsFirstMatch(Expected(sessions[t]), b, Wire(m.blk))
    PROVE  b = m.blk /\ b \in Nat /\ t = client.tid
           /\ GoodBlock(b, m.payload) /\ m.payload \in Payloads
<1> DEFINE s == sessions[t]
           S == Expected(s)
<1>1. s \in Session /\ MessageInv(m) /\ m \in Message
  BY DEF IInv, TypeOK, SessionsTypeOK, NetTypeOK
<1>2. /\ s.currentBlock \in Nat
      /\ m.blk \in Nat
      /\ m.payload \in Payloads
  BY <1>1 DEF Session, Message
<1>3. /\ m.blk <= s.currentBlock + Window
      /\ GoodBlock(m.blk, m.payload)
      /\ t = client.tid
  BY <1>1 DEF MessageInv
<1>4. s.currentBlock + Window < m.blk + BlockMod
  BY <1>2, BlocksAssumption, SMT DEF Fresh
<1>5. S \subseteq (s.currentBlock + 1)..(s.currentBlock + Window)
  BY <1>2, BlocksAssumption, SMT DEF Expected
<1>6. \A c \in (s.currentBlock + 1)..(s.currentBlock + Window) :
        c \in Nat /\ c < m.blk + BlockMod /\ m.blk < c + BlockMod
  BY <1>2, <1>3, <1>4, BlocksAssumption, SMT
<1>7. /\ S \subseteq Nat
      /\ \A c \in S : c < m.blk + BlockMod /\ m.blk < c + BlockMod
      /\ IsFirstMatch(S, b, Wire(m.blk))
  BY <1>5, <1>6
<1> HIDE DEF S
<1>8. b = m.blk
  BY <1>2, <1>7, MatchIsSame
<1>9. QED
  BY <1>2, <1>3, <1>8

(* A block that is expected waits in the buffer or goes to a task. *)
LEMMA ReceivesDataStep ==
    ASSUME IInv, NEW t \in Tids, NEW m \in net, Fresh(m),
           SessionReceivesData(m, t),
           UNCHANGED <<client, windowCache>>
    PROVE  IInv'
<1> DEFINE s == sessions[t]
<1>1. /\ sessions \in [Tids -> Session]
      /\ s \in Session
      /\ SessionInv(t)
      /\ GoodBuffer(receiveBuffer[t])
      /\ NetTypeOK
  BY SessionFacts
<1>2. s.state = "active" /\ m.op = "DATA" /\ m.tid = t
  BY DEF SessionReceivesData, SessionTakes, Active
<1>3. PICK b \in Expected(s) :
        /\ IsFirstMatch(Expected(s), b, Wire(m.blk))
        /\ LET buffer == Put(receiveBuffer[t], b, m.payload)
           IN  /\ sessions' = [sessions EXCEPT ![t] = TakeNext(s, buffer)]
               /\ receiveBuffer' = [receiveBuffer EXCEPT ![t] = LeaveRest(s, buffer)]
  BY DEF SessionReceivesData
<1>4. /\ b \in Nat
      /\ t = client.tid
      /\ GoodBlock(b, m.payload)
      /\ m.payload \in Payloads
  BY <1>2, <1>3, DataFound
<1> DEFINE buffer == Put(receiveBuffer[t], b, m.payload)
           r == TakeNext(s, buffer)
           rest == LeaveRest(s, buffer)
<1>5. GoodBuffer(buffer)
  <2> DEFINE old == receiveBuffer[t]
  <2>a. DOMAIN old \subseteq Nat /\ old \in [DOMAIN old -> Payloads]
    BY <1>1 DEF GoodBuffer
  <2> HIDE DEF old
  <2>1. /\ DOMAIN Put(old, b, m.payload) \subseteq Nat
        /\ Put(old, b, m.payload) \in [DOMAIN Put(old, b, m.payload) -> Payloads]
        /\ DOMAIN Put(old, b, m.payload) = DOMAIN old \cup {b}
        /\ \A y \in DOMAIN old \cup {b} :
                Put(old, b, m.payload)[y] = IF y = b THEN m.payload ELSE old[y]
    <3> DEFINE p == m.payload
    <3>1. b \in Nat /\ p \in Payloads
      BY <1>4
    <3> HIDE DEF p
    <3>2. /\ DOMAIN Put(old, b, p) \subseteq Nat
          /\ Put(old, b, p) \in [DOMAIN Put(old, b, p) -> Payloads]
          /\ DOMAIN Put(old, b, p) = DOMAIN old \cup {b}
          /\ \A y \in DOMAIN old \cup {b} :
                Put(old, b, p)[y] = IF y = b THEN p ELSE old[y]
      BY <2>a, <3>1 DEF Put
    <3>3. QED
      BY <3>2 DEF p
  <2>b. buffer = Put(old, b, m.payload)
    BY DEF old
  <2>c. \A y \in DOMAIN old : GoodBlock(y, old[y])
    BY <1>1 DEF GoodBuffer, old
  <2> HIDE DEF buffer
  <2>2. \A y \in DOMAIN buffer : GoodBlock(y, buffer[y])
    BY <1>4, <2>1, <2>b, <2>c
  <2>3. QED
    BY <2>1, <2>2, <2>b DEF GoodBuffer
<1>6. /\ sessions' = [sessions EXCEPT ![t] = r]
      /\ receiveBuffer' = [receiveBuffer EXCEPT ![t] = rest]
  BY <1>3
<1> HIDE DEF buffer
<1>7. s.writing # 0 => s.writing = s.currentBlock + 1 /\ GoodBlock(s.writing, s.payload)
  BY <1>1, <1>2 DEF SessionInv
<1>8. /\ r \in Session
      /\ r.writing # 0 => r.writing = r.currentBlock + 1 /\ GoodBlock(r.writing, r.payload)
      /\ r.state = "active"
      /\ r.currentBlock = s.currentBlock
      /\ r.lastPacket = s.lastPacket
      /\ r.retries = s.retries
      /\ GoodBuffer(rest)
  BY <1>1, <1>2, <1>5, <1>7, TakeNextInv
<1> HIDE DEF r, rest
<1>9. NetTypeOK' /\ net' \subseteq net \cup SessionMessages(t, r)
  <2>1. Deliver(m, {}) /\ {} \in SUBSET Message
    BY DEF SessionReceivesData
  <2>2. QED
    BY <1>1, <2>1, NetStep
<1>10. /\ DOMAIN receiveBuffer' = Tids
       /\ \A u \in Tids :
            receiveBuffer'[u] = IF u = t THEN rest ELSE receiveBuffer[u]
  BY <1>6, BuffersAfter
<1>11. UNCHANGED <<file, creator>> /\ UNCHANGED <<client, windowCache>>
  BY DEF SessionReceivesData
<1>12. /\ sessions'[t] = r
       /\ receiveBuffer'[t] = rest
       /\ creator' = creator
       /\ client' = client
  BY <1>1, <1>6, <1>10, <1>11
<1>13. \A x, p : GoodBlock(x, p) <=> GoodBlock(x, p)'
  BY <1>12 DEF GoodBlock, InThisTurn
<1>14. SessionInv(t)'
  BY <1>1, <1>2, <1>4, <1>8, <1>12, <1>13 DEF SessionInv, GoodBuffer
<1>15. QED
  BY <1>6, <1>8, <1>9, <1>10, <1>11, <1>14, SessionStepKeepsFile

(* DATA of any other block is answered with the last ACK, whatever else is  *)
(* taken off the network with it.                                           *)
LEMMA UnexpectedDataStep ==
    ASSUME IInv, NEW t \in Tids, NEW m \in net,
           AnswersUnexpectedData(m, t),
           NEW R, R = {Ack("client", t, sessions[t].currentBlock)},
           Deliver(m, R) \/ (NetTypeOK' /\ net' \subseteq net \cup R),
           UNCHANGED <<client, windowCache>>
    PROVE  IInv'
<1> DEFINE r == [sessions[t] EXCEPT !.lastPacket = "ACK"]
<1>1. /\ sessions \in [Tids -> Session]
      /\ sessions[t] \in Session
      /\ SessionInv(t)
  BY SessionFacts
<1>2. /\ sessions' = [sessions EXCEPT ![t] = r]
      /\ UNCHANGED <<receiveBuffer, file, creator, client, windowCache>>
  BY <1>1 DEF AnswersUnexpectedData
<1>3. /\ r \in Session
      /\ r.state = sessions[t].state
      /\ r.currentBlock = sessions[t].currentBlock
      /\ r.writing = sessions[t].writing
      /\ r.payload = sessions[t].payload
      /\ r.retries = sessions[t].retries
      /\ r.lastPacket = "ACK"
  BY <1>1 DEF Session
<1> HIDE DEF r
<1>4. R \in SUBSET SessionMessages(t, r)
  BY <1>3 DEF SessionMessages
<1>5. r.state \in {"unused", "active"} => r.retries <= MaxRetries
  BY <1>1, <1>3 DEF SessionInv
<1>6. QED
  BY <1>2, <1>3, <1>4, <1>5, SessionKeepsBuffer

(* An ERROR ends the session. *)
LEMMA ErrorStep ==
    ASSUME IInv, NEW t \in Tids, NEW m \in net,
           SessionReceivesError(m, t),
           UNCHANGED <<client, windowCache>>
    PROVE  IInv'
<1> DEFINE r == Finish(sessions[t], "failed")
<1>1. /\ sessions \in [Tids -> Session]
      /\ sessions[t] \in Session
  BY SessionFacts
<1>2. /\ sessions' = [sessions EXCEPT ![t] = r]
      /\ Deliver(m, {})
      /\ UNCHANGED <<receiveBuffer, file, creator, client, windowCache>>
      /\ sessions[t].state = "active"
  BY <1>1 DEF SessionReceivesError, SessionTakes, Active
<1>3. /\ r \in Session
      /\ r.state = "failed"
      /\ r.currentBlock = sessions[t].currentBlock
      /\ r.writing = sessions[t].writing
      /\ r.payload = sessions[t].payload
      /\ r.lastPacket = sessions[t].lastPacket
  BY <1>1, <1>2 DEF Finish, Session
<1> HIDE DEF r
<1>4. {} \in SUBSET SessionMessages(t, r)
  OBVIOUS
<1>5. QED
  BY <1>2, <1>3, <1>4, SessionKeepsBuffer

(* A timeout ends the session or repeats its last packet. *)
LEMMA SessionTimeoutStep ==
    ASSUME IInv, NEW t \in Tids, SessionTimeout(t)
    PROVE  IInv'
<1> DEFINE s == [sessions[t] EXCEPT !.retries = @ + 1]
           e == Finish(s, "failed")
<1>1. /\ sessions \in [Tids -> Session]
      /\ sessions[t] \in Session
      /\ SessionInv(t)
      /\ NetTypeOK
  BY SessionFacts
<1>2. /\ UNCHANGED <<receiveBuffer, file, creator, client, windowCache>>
      /\ sessions[t].state = "active"
  BY DEF SessionTimeout, SessionTimesOut, Active, clientVars
<1>3. sessions[t].retries \in Nat /\ sessions[t].retries + 1 \in 0..MaxRetries + 1
  BY <1>1, <1>2, BlocksAssumption, SMT DEF SessionInv, Session
<1>4. /\ s \in Session
      /\ s.state = "active"
      /\ s.currentBlock = sessions[t].currentBlock
      /\ s.writing = sessions[t].writing
      /\ s.payload = sessions[t].payload
      /\ s.lastPacket = sessions[t].lastPacket
      /\ s.retries = sessions[t].retries + 1
  BY <1>1, <1>2, <1>3 DEF Session
<1>5. CASE s.retries > MaxRetries
  <2>1. sessions' = [sessions EXCEPT ![t] = e] /\ UNCHANGED <<net, losses>>
    BY <1>5 DEF SessionTimeout, SessionTimesOut
  <2> HIDE DEF s
  <2>2. /\ e \in Session
        /\ e.state = "failed"
        /\ e.currentBlock = sessions[t].currentBlock
        /\ e.writing = sessions[t].writing
        /\ e.payload = sessions[t].payload
        /\ e.lastPacket = sessions[t].lastPacket
    BY <1>4 DEF Finish, Session
  <2> HIDE DEF e
  <2>3. Send({}) /\ {} \in SUBSET SessionMessages(t, e)
    BY <2>1 DEF Send
  <2>4. QED
    BY <1>2, <2>1, <2>2, <2>3, SessionKeepsBuffer
<1>6. CASE ~(s.retries > MaxRetries)
  <2>1. /\ sessions' = [sessions EXCEPT ![t] = s]
        /\ Send({LastPacket(t, s)})
    BY <1>6 DEF SessionTimeout, SessionTimesOut
  <2>2. s.retries <= MaxRetries
    BY <1>3, <1>4, <1>6, BlocksAssumption, SMT
  <2> HIDE DEF s
  <2>3. s.lastPacket = "OACK" => Options
    BY <1>1, <1>4 DEF SessionInv
  <2>4. {LastPacket(t, s)} \in SUBSET SessionMessages(t, s)
    BY <2>3 DEF LastPacket, SessionMessages
  <2>5. QED
    BY <1>2, <1>4, <2>1, <2>2, <2>4, SessionKeepsBuffer
<1>7. QED
  BY <1>5, <1>6

(* The disk refuses a block, or a task comes back to a session that is over. *)
LEMMA NotWrittenStep ==
    ASSUME IInv, NEW t \in Tids,
           BlockWriteFails(t) \/ BlockWriteIgnored(t),
           UNCHANGED <<client, windowCache>>
    PROVE  IInv'
<1> DEFINE s == [sessions[t] EXCEPT !.writing = 0]
           e == Finish(s, "failed")
<1>1. /\ sessions \in [Tids -> Session]
      /\ sessions[t] \in Session
      /\ SessionInv(t)
  BY SessionFacts
<1>2. UNCHANGED <<receiveBuffer, file, creator, client, windowCache>>
  BY DEF BlockWriteFails, BlockWriteIgnored
<1>3. /\ s \in Session
      /\ s.state = sessions[t].state
      /\ s.currentBlock = sessions[t].currentBlock
      /\ s.writing = 0
      /\ s.payload = sessions[t].payload
      /\ s.lastPacket = sessions[t].lastPacket
      /\ s.retries = sessions[t].retries
  BY <1>1 DEF Session
<1>4. CASE BlockWriteFails(t)
  <2>1. /\ sessions' = [sessions EXCEPT ![t] = e]
        /\ Send({Msg("ERROR", "client", t, 0)})
        /\ sessions[t].state = "active"
    BY <1>1, <1>4 DEF BlockWriteFails, Active
  <2> HIDE DEF s
  <2>2. /\ e \in Session
        /\ e.state = "failed"
        /\ e.currentBlock = sessions[t].currentBlock
        /\ e.writing = 0
        /\ e.payload = sessions[t].payload
        /\ e.lastPacket = sessions[t].lastPacket
    BY <1>3, <2>1 DEF Finish, Session
  <2> HIDE DEF e
  <2>3. {Msg("ERROR", "client", t, 0)} \in SUBSET SessionMessages(t, e)
    BY DEF SessionMessages
  <2>4. QED
    BY <1>2, <2>1, <2>2, <2>3, SessionKeepsBuffer
<1>5. CASE BlockWriteIgnored(t)
  <2>1. sessions' = [sessions EXCEPT ![t] = s] /\ Send({})
    BY <1>1, <1>5 DEF BlockWriteIgnored, Send
  <2> HIDE DEF s
  <2>2. {} \in SUBSET SessionMessages(t, s)
    OBVIOUS
  <2>3. s.state \in {"unused", "active"} => s.retries <= MaxRetries
    BY <1>1, <1>3 DEF SessionInv
  <2>4. QED
    BY <1>2, <1>3, <2>1, <2>2, <2>3, SessionKeepsBuffer
<1>6. QED
  BY <1>4, <1>5

(* A block that ends the file is the last one. *)
LEMMA EndsFileIsLast ==
    ASSUME NEW b \in 1..N
    PROVE  EndsFile(Payload(b)) <=> b = N
BY BlocksAssumption, SMT DEF EndsFile, Payload

(* A block that was written makes the file one block longer. *)
LEMMA BlockWrittenStep ==
    ASSUME NothingUnnoticed, IInv, NEW t \in Tids,
           BlockWritten(t),
           UNCHANGED <<client, windowCache>>
    PROVE  IInv'
<1> DEFINE s == sessions[t]
           w == [s EXCEPT !.currentBlock = s.writing,
                          !.writing = 0,
                          !.retries = 0,
                          !.lastPacket = "ACK"]
           last == EndsFile(w.payload)
           buffer == receiveBuffer[t]
           r == IF last THEN Finish(w, "ok") ELSE TakeNext(w, buffer)
           rest == IF last THEN buffer ELSE LeaveRest(w, buffer)
<1>1. /\ sessions \in [Tids -> Session]
      /\ s \in Session
      /\ SessionInv(t)
      /\ GoodBuffer(buffer)
      /\ NetTypeOK
      /\ file \in Seq(Payloads)
      /\ creator \in Tids \cup {NoTid}
  BY SessionFacts
<1>2. /\ s.state = "active"
      /\ s.writing # 0
      /\ sessions' = [sessions EXCEPT ![t] = r]
      /\ receiveBuffer' = [receiveBuffer EXCEPT ![t] = rest]
      /\ file' = Append(file, w.payload)
      /\ Send({Ack("client", t, w.currentBlock)})
      /\ creator' = creator
      /\ client' = client
  BY <1>1 DEF BlockWritten, Active, NothingUnnoticed
<1>3. /\ s.writing = s.currentBlock + 1
      /\ GoodBlock(s.writing, s.payload)
      /\ t = creator
      /\ t = client.tid
  BY <1>1, <1>2 DEF SessionInv
<1>4. /\ w \in Session
      /\ w.state = "active"
      /\ w.currentBlock = s.writing
      /\ w.writing = 0
      /\ w.payload = s.payload
      /\ w.retries = 0
      /\ w.lastPacket = "ACK"
  BY <1>1, <1>2, ZeroRetries DEF Session
<1>5. last <=> s.writing = N
  <2>1. s.writing \in 1..N /\ s.payload = Payload(s.writing)
    BY <1>3 DEF GoodBlock
  <2>2. EndsFile(Payload(s.writing)) <=> s.writing = N
    BY <2>1, EndsFileIsLast
  <2>3. QED
    BY <1>4, <2>1, <2>2
<1> HIDE DEF w, last
<1>6. /\ r \in Session
      /\ r.state = IF last THEN "ok" ELSE "active"
      /\ r.currentBlock = s.writing
      /\ r.lastPacket = "ACK"
      /\ r.retries = 0
      /\ ~last /\ r.writing # 0 =>
            r.writing = r.currentBlock + 1 /\ GoodBlock(r.writing, r.payload)
      /\ GoodBuffer(rest)
  <2>1. CASE last
    <3>1. r = Finish(w, "ok") /\ rest = buffer
      BY <2>1
    <3>2. /\ Finish(w, "ok") \in Session
          /\ Finish(w, "ok").state = "ok"
          /\ Finish(w, "ok").currentBlock = s.writing
          /\ Finish(w, "ok").lastPacket = "ACK"
          /\ Finish(w, "ok").retries = 0
      BY <1>4 DEF Finish, Session
    <3> HIDE DEF r, rest
    <3>3. QED
      BY <1>1, <2>1, <3>1, <3>2
  <2>2. CASE ~last
    <3>1. r = TakeNext(w, buffer) /\ rest = LeaveRest(w, buffer)
      BY <2>2
    <3> HIDE DEF r, rest, buffer
    <3>2. /\ TakeNext(w, buffer) \in Session
          /\ TakeNext(w, buffer).writing # 0 =>
                /\ TakeNext(w, buffer).writing = TakeNext(w, buffer).currentBlock + 1
                /\ GoodBlock(TakeNext(w, buffer).writing, TakeNext(w, buffer).payload)
          /\ TakeNext(w, buffer).state = w.state
          /\ TakeNext(w, buffer).currentBlock = w.currentBlock
          /\ TakeNext(w, buffer).lastPacket = w.lastPacket
          /\ TakeNext(w, buffer).retries = w.retries
          /\ GoodBuffer(LeaveRest(w, buffer))
      BY <1>1, <1>4, TakeNextInv
    <3>3. QED
      BY <1>4, <2>2, <3>1, <3>2
  <2>3. QED
    BY <2>1, <2>2
<1> HIDE DEF r, rest
<1>7. NetTypeOK' /\ net' \subseteq net \cup SessionMessages(t, r)
  <2>1. {Ack("client", t, w.currentBlock)} \in SUBSET SessionMessages(t, r)
    BY <1>4, <1>6 DEF SessionMessages
  <2>2. {Ack("client", t, w.currentBlock)} \in SUBSET Message
    BY <1>6, <2>1, SessionMessagesType
  <2>3. QED
    BY <1>1, <1>2, <2>1, <2>2, NetStep
<1>8. /\ DOMAIN receiveBuffer' = Tids
      /\ \A u \in Tids :
            receiveBuffer'[u] = IF u = t THEN rest ELSE receiveBuffer[u]
  BY <1>2, BuffersAfter
<1>9. /\ sessions'[t] = r
      /\ receiveBuffer'[t] = rest
  BY <1>1, <1>2, <1>8
<1>10. \A x, p : GoodBlock(x, p) <=> GoodBlock(x, p)'
  BY <1>2 DEF GoodBlock, InThisTurn
<1>11. SessionInv(t)'
  <2>1. IF r.state = "ok" THEN r.currentBlock = N ELSE r.currentBlock < N
    <3>1. s.writing \in Nat /\ s.writing <= N
      BY <1>1, <1>3, BlocksAssumption, SMT DEF GoodBlock
    <3>2. s.writing # N => s.writing < N
      BY <3>1, BlocksAssumption, SMT
    <3>3. QED
      BY <1>5, <1>6, <3>2
  <2>2. \A b \in DOMAIN rest : GoodBlock(b, rest[b])
    BY <1>6 DEF GoodBuffer
  <2>3. QED
    BY <1>2, <1>3, <1>6, <1>9, <1>10, <2>1, <2>2, ZeroRetries DEF SessionInv
<1>12. FileInv'
  <2>1. /\ Len(file) = s.currentBlock
        /\ \A i \in DOMAIN file : file[i] = Payload(i)
    BY <1>3, NetworkAssumption DEF IInv, FileInv
  <2>2. w.payload \in Payloads /\ w.payload = Payload(s.writing)
    BY <1>3, <1>4 DEF Session, GoodBlock
  <2>3. Len(file') = Len(file) + 1
    BY <1>1, <1>2, <2>2, SMT
  <2>4. ASSUME NEW i \in DOMAIN file' PROVE file'[i] = Payload(i)
    <3>1. i \in 1..(Len(file) + 1) /\ Len(file) \in Nat
      BY <1>1, <1>2, <2>2, SMT
    <3>2. CASE i \in 1..Len(file)
      <4>1. file'[i] = file[i] /\ i \in DOMAIN file
        BY <1>1, <1>2, <2>2, <3>2, SMT
      <4>2. QED
        BY <2>1, <4>1
    <3>3. CASE i = Len(file) + 1
      <4>1. file'[i] = w.payload
        BY <1>1, <1>2, <2>2, <3>3, SMT
      <4>2. QED
        BY <1>3, <2>1, <2>2, <3>3, <4>1
    <3>4. QED
      BY <3>1, <3>2, <3>3, SMT
  <2>5. Len(file') = r.currentBlock
    BY <1>3, <1>6, <2>1, <2>3
  <2>6. creator' = t /\ sessions'[creator'].currentBlock = r.currentBlock
    BY <1>2, <1>3, <1>9
  <2>7. QED
    BY <2>4, <2>5, <2>6, NetworkAssumption DEF FileInv
<1>13. /\ s.currentBlock <= r.currentBlock
       /\ InThisTurn(r.currentBlock)
  <2>1. s.currentBlock <= s.writing
    BY <1>1, <1>3, SMT DEF Session
  <2>2. QED
    BY <1>3, <1>6, <2>1 DEF GoodBlock
<1>14. /\ file' \in Seq(Payloads)
       /\ creator' = creator \/ (creator = NoTid /\ creator' = t)
  <2>1. w.payload \in Payloads
    BY <1>4 DEF Session
  <2>2. QED
    BY <1>1, <1>2, <2>1, SMT
<1>15. UNCHANGED <<client, windowCache>>
  OBVIOUS
<1>16. QED
  BY <1>2, <1>6, <1>7, <1>8, <1>11, <1>12, <1>13, <1>14, <1>15, SessionStep

-----------------------------------------------------------------------------
\* The client's steps

(* A client that starts again has not gone round the block numbers, so the  *)
(* blocks of its turn stay blocks of its turn.                              *)
LEMMA TurnKept ==
    ASSUME NEW b \in Nat, client \in Client, client' \in Client,
           \/ client.nextBlockToSend <= client'.nextBlockToSend
           \/ client.nextBlockToSend <= BlockMod,
           InThisTurn(b)
    PROVE  InThisTurn(b)'
<1>1. client.nextBlockToSend \in Nat /\ client'.nextBlockToSend \in Nat
  BY DEF Client
<1>2. QED
  BY <1>1, BlocksAssumption, SMT DEF InThisTurn

(* A step of the client, or of nobody but the network. *)
LEMMA ClientStep ==
    ASSUME IInv, NEW R,
           UNCHANGED <<sessions, receiveBuffer, file, creator>>,
           ClientTypeOK',
           NetTypeOK',
           net' \subseteq net \cup R,
           \A m \in R : MessageInv(m)',
           client'.tid = client.tid \/ client.tid = NoTid,
           \/ client.nextBlockToSend <= client'.nextBlockToSend
           \/ client.nextBlockToSend <= BlockMod,
           CacheInv', ClientInv'
    PROVE  IInv'
<1> USE DEF IInv
<1>0. /\ sessions \in [Tids -> Session]
      /\ client \in Client
      /\ client' \in Client
      /\ sessions' = sessions /\ receiveBuffer' = receiveBuffer
      /\ file' = file /\ creator' = creator
  BY DEF TypeOK, SessionsTypeOK, ClientTypeOK
<1>a. \A b \in Nat : \A p : GoodBlock(b, p) => GoodBlock(b, p)'
  BY <1>0, TurnKept DEF GoodBlock
<1>1. TypeOK'
  BY <1>0 DEF TypeOK, SessionsTypeOK
<1>2. ASSUME NEW u \in Tids PROVE SessionInv(u)'
  <2>1. SessionInv(u) /\ sessions[u].writing \in Nat
        /\ DOMAIN receiveBuffer[u] \subseteq Nat
    BY <1>0 DEF Session, TypeOK, SessionsTypeOK
  <2>2. u # client'.tid => u # client.tid
    BY NetworkAssumption
  <2>3. sessions[u].state = "active" /\ sessions[u].writing # 0 =>
            /\ sessions[u].writing = sessions[u].currentBlock + 1
            /\ GoodBlock(sessions[u].writing, sessions[u].payload)'
    BY <1>0, <1>a, <2>1 DEF SessionInv
  <2>4. \A b \in DOMAIN receiveBuffer[u] : GoodBlock(b, receiveBuffer[u][b])'
    BY <1>0, <1>a, <2>1 DEF SessionInv
  <2>5. QED
    BY <1>0, <2>1, <2>2, <2>3, <2>4 DEF SessionInv
<1>3. FileInv'
  BY <1>0 DEF FileInv
<1>4. ASSUME NEW m \in net' PROVE MessageInv(m)'
  <2>1. CASE m \in net
    <3>1. MessageInv(m) /\ m \in Message
      BY <2>1 DEF TypeOK, NetTypeOK
    <3>2. m.blk \in Nat
      BY <3>1 DEF Message
    <3>3. m.op = "DATA" => m.tid = client'.tid
      BY <3>1, NetworkAssumption DEF MessageInv
    <3>4. m.op = "DATA" => GoodBlock(m.blk, m.payload)'
      BY <1>a, <3>1, <3>2 DEF MessageInv
    <3>5. QED
      BY <1>0, <3>1, <3>3, <3>4 DEF MessageInv
  <2>2. CASE m \in R
    BY <2>2
  <2>3. QED
    BY <2>1, <2>2
<1>5. QED
  BY <1>1, <1>2, <1>3, <1>4

(* A step of the network, or one that reads a datagram and does nothing.    *)
LEMMA NetworkStep ==
    ASSUME IInv,
           UNCHANGED <<sessions, receiveBuffer, file, creator, client, windowCache>>,
           NetTypeOK', NEW R, net' \subseteq net \cup R,
           \A m \in R : MessageInv(m)'
    PROVE  IInv'
<1>1. ClientTypeOK' /\ CacheInv' /\ ClientInv'
  BY DEF IInv, TypeOK, ClientTypeOK, CacheInv, UnackedBlocksAreKept, ClientInv,
         Running, InThisTurn
<1>2. client.nextBlockToSend <= client'.nextBlockToSend
  BY SMT DEF IInv, TypeOK, ClientTypeOK, Client
<1>3. UNCHANGED <<sessions, receiveBuffer, file, creator>>
  OBVIOUS
<1>4. client'.tid = client.tid
  OBVIOUS
<1>5. QED
  BY <1>1, <1>2, <1>3, <1>4, ClientStep

(* What the client's members and its cache must satisfy for fillWindow().   *)
ReadyToFill(c, cache) ==
    /\ c \in Client
    /\ c.tid \in Tids
    /\ DOMAIN cache = (c.lastAckedBlock + 1)..(c.nextBlockToSend - 1)
    /\ \A b \in DOMAIN cache : cache[b] = Payload(b)
    /\ c.nextBlockToSend <= c.lastAckedBlock + Window + 1
    /\ c.lastAckedBlock < c.nextBlockToSend
    /\ c.nextBlockToSend <= N + 1
    /\ IF c.lastBlockSent
       THEN c.nextBlockToSend = N + 1 \/ c.nextBlockToSend = 1
       ELSE c.nextBlockToSend <= N
    /\ Pipe => c.position = c.nextBlockToSend - 1

(* The blocks up to last have been read and sent. *)
Filled(m, c, cache, last) ==
    LET sent == c.nextBlockToSend..last
    IN  /\ last <= N
        /\ c.lastBlockSent => sent = {}
        /\ client' = [c EXCEPT
                !.nextBlockToSend = last + 1,
                !.lastBlockSent = IF sent = {} THEN @ ELSE last = N,
                !.position = IF Pipe THEN last ELSE @]
        /\ windowCache' = [b \in DOMAIN cache \cup sent |-> Payload(b)]
        /\ Deliver(m, {Data("session", c.tid, b, Payload(b)) : b \in sent})

(* What fillWindow() reads is the file's, and it stops at the last block.   *)
LEMMA FillWindowReads ==
    ASSUME NothingUnnoticed, NEW m, NEW c, NEW cache,
           ReadyToFill(c, cache), FillWindow(m, c, cache)
    PROVE  \E last \in (c.nextBlockToSend - 1)..(c.lastAckedBlock + Window) :
            Filled(m, c, cache, last)
<1>1. /\ c.lastAckedBlock \in Nat
      /\ c.nextBlockToSend \in Nat \ {0}
      /\ c.windowSize \in Nat
      /\ c.windowSize <= Window
      /\ c.lastBlockSent \in BOOLEAN
      /\ c.position \in Nat
  <2>1. c \in Client /\ c.lastAckedBlock < c.nextBlockToSend
    BY DEF ReadyToFill
  <2>2. QED
    BY <2>1, BlocksAssumption, SMT DEF Client
<1>2. Cuts(c) = {{}} /\ (Pipe => ~Netascii)
  BY DEF Cuts, NothingUnnoticed
<1>3. PICK cut \in Cuts(c), last \in (c.nextBlockToSend - 1)..WindowEnd(c) :
        LET sent == c.nextBlockToSend..last
            read == [b \in sent |-> ReadBlock(c, cut, b)]
        IN  /\ c.lastBlockSent => sent = {}
            /\ \A b \in sent : IsShort(read[b]) => b = last
            /\ client' = [c EXCEPT
                    !.nextBlockToSend = last + 1,
                    !.lastBlockSent = IF sent = {} THEN @ ELSE IsShort(read[last]),
                    !.position = IF Pipe THEN @ + last + 1 - c.nextBlockToSend ELSE @]
            /\ windowCache' = [b \in DOMAIN cache \cup sent |->
                                    IF b \in sent THEN read[b] ELSE cache[b]]
            /\ Deliver(m, {Data("session", c.tid, b, read[b]) : b \in sent})
  BY DEF FillWindow
<1> DEFINE sent == c.nextBlockToSend..last
           read == [b \in sent |-> ReadBlock(c, cut, b)]
<1>a. cut = {} /\ last \in (c.nextBlockToSend - 1)..WindowEnd(c)
  BY <1>2, <1>3
<1>4. /\ last \in Int
      /\ c.nextBlockToSend - 1 <= last
      /\ last <= c.lastAckedBlock + Window
      /\ sent \subseteq Nat \ {0}
  <2>1. WindowEnd(c) \in Int /\ WindowEnd(c) <= c.lastAckedBlock + Window
    BY <1>1, BlocksAssumption, SMT DEF WindowEnd
  <2>2. last \in Int /\ c.nextBlockToSend - 1 <= last /\ last <= WindowEnd(c)
    BY <1>1, <1>a, <2>1, SMT
  <2>3. sent \subseteq Nat \ {0}
    BY <1>1, <2>2, SMT
  <2>4. QED
    BY <1>1, <2>1, <2>2, <2>3, BlocksAssumption, SMT
<1>5. \A b \in sent : read[b] = Payload(b)
  <2>1. ASSUME NEW b \in sent PROVE ReadBlock(c, cut, b) = Payload(b)
    <3>1. CASE Pipe
      <4>1. c.position = c.nextBlockToSend - 1
        BY <3>1 DEF ReadyToFill
      <4>2. b \in Nat
        BY <1>4
      <4>3. c.position + 1 + (b - c.nextBlockToSend) = b
        BY <1>1, <4>1, <4>2, SMT
      <4>4. QED
        BY <1>2, <1>a, <3>1, <4>3 DEF ReadBlock
    <3>2. CASE ~Pipe
      BY <1>a, <3>2 DEF ReadBlock
    <3>3. QED
      BY <3>1, <3>2
  <2>2. QED
    BY <2>1
<1>b. /\ \A b \in sent : IsShort(read[b]) => b = last
      /\ client' = [c EXCEPT
              !.nextBlockToSend = last + 1,
              !.lastBlockSent = IF sent = {} THEN @ ELSE IsShort(read[last]),
              !.position = IF Pipe THEN @ + last + 1 - c.nextBlockToSend ELSE @]
      /\ windowCache' = [b \in DOMAIN cache \cup sent |->
                              IF b \in sent THEN read[b] ELSE cache[b]]
      /\ Deliver(m, {Data("session", c.tid, b, read[b]) : b \in sent})
  BY <1>3
<1> HIDE DEF read
<1>6. last <= N
  <2>1. SUFFICES ASSUME N < last PROVE FALSE
    BY <1>4, BlocksAssumption, SMT
  <2>2. c.nextBlockToSend <= N
    <3>1. sent = {} => last < c.nextBlockToSend
      <4>1. last \in sent \/ last < c.nextBlockToSend
        BY <1>1, <1>4, SMT
      <4>2. QED
        BY <4>1
    <3>2. CASE c.lastBlockSent
      <4>1. last = c.nextBlockToSend - 1
        BY <1>1, <1>3, <1>4, <3>1, <3>2, SMT
      <4>2. c.nextBlockToSend <= N + 1
        BY DEF ReadyToFill
      <4>3. QED
        BY <1>1, <1>4, <2>1, <4>1, <4>2, BlocksAssumption, SMT
    <3>3. CASE ~c.lastBlockSent
      BY <3>3 DEF ReadyToFill
    <3>4. QED
      BY <3>2, <3>3
  <2>3. N \in sent
    BY <1>1, <1>4, <2>1, <2>2, BlocksAssumption, SMT
  <2>4. IsShort(read[N])
    <3>1. read[N] = Payload(N) /\ Payload(N) = N
      BY <1>5, <2>3, BlocksAssumption, SMT DEF Payload
    <3>2. QED
      BY <3>1 DEF IsShort
  <2>5. N = last
    BY <1>b, <2>3, <2>4
  <2>6. QED
    BY <1>4, <2>1, <2>5, BlocksAssumption, SMT
<1>7. sent # {} => (IsShort(read[last]) <=> last = N)
  <2>1. ASSUME sent # {} PROVE last \in sent
    BY <1>1, <1>4, <2>1, SMT
  <2>2. last \in Nat \ {0} => (Payload(last) = last)
    BY <1>6, BlocksAssumption, SMT DEF Payload
  <2>3. QED
    BY <1>4, <1>5, <2>1, <2>2, BlocksAssumption, SMT DEF IsShort
<1>8. client' = [c EXCEPT
                    !.nextBlockToSend = last + 1,
                    !.lastBlockSent = IF sent = {} THEN @ ELSE last = N,
                    !.position = IF Pipe THEN last ELSE @]
  <2>1. Pipe => c.position + last + 1 - c.nextBlockToSend = last
    <3>1. Pipe => c.position = c.nextBlockToSend - 1
      BY DEF ReadyToFill
    <3>2. QED
      BY <1>1, <1>4, <3>1, SMT
  <2>2. (IF sent = {} THEN c.lastBlockSent ELSE IsShort(read[last]))
            = (IF sent = {} THEN c.lastBlockSent ELSE last = N)
    <3>1. IsShort(read[last]) \in BOOLEAN
      BY DEF IsShort
    <3>2. QED
      BY <1>7, <3>1
  <2>3. QED
    BY <1>b, <2>1, <2>2
<1>9. windowCache' = [b \in DOMAIN cache \cup sent |-> Payload(b)]
  <2>1. \A b \in DOMAIN cache : cache[b] = Payload(b)
    BY DEF ReadyToFill
  <2>2. QED
    BY <1>b, <1>5, <2>1
<1>10. Deliver(m, {Data("session", c.tid, b, Payload(b)) : b \in sent})
  <2>1. {Data("session", c.tid, b, read[b]) : b \in sent}
            = {Data("session", c.tid, b, Payload(b)) : b \in sent}
    BY <1>5
  <2>2. QED
    BY <1>b, <2>1
<1>11. last \in (c.nextBlockToSend - 1)..(c.lastAckedBlock + Window)
  BY <1>1, <1>4, BlocksAssumption, SMT
<1>12. c.lastBlockSent => sent = {}
  BY <1>3
<1>13. QED
  BY <1>6, <1>8, <1>9, <1>10, <1>11, <1>12 DEF Filled

(* What the session of client c has written is of this turn after a step    *)
(* that ends with c's port.                                                 *)
LEMMA WrittenInTurn ==
    ASSUME IInv, NEW t \in Tids, client' \in Client,
           t = client.tid \/ client.tid = NoTid,
           \/ client.nextBlockToSend <= client'.nextBlockToSend
           \/ client.nextBlockToSend <= BlockMod,
           sessions' = sessions
    PROVE  InThisTurn(sessions[t].currentBlock)'
<1>1. client \in Client /\ sessions \in [Tids -> Session]
  BY DEF IInv, TypeOK, ClientTypeOK, SessionsTypeOK
<1>2. sessions[t].currentBlock \in Nat
  BY <1>1 DEF Session
<1>3. CASE t = client.tid
  <2>1. InThisTurn(sessions[t].currentBlock)
    BY <1>3 DEF IInv, ClientInv
  <2> DEFINE b == sessions[t].currentBlock
  <2>2. b < client.nextBlockToSend \/ b < BlockMod
    BY <2>1 DEF InThisTurn
  <2>3. client.nextBlockToSend \in Nat /\ client'.nextBlockToSend \in Nat
    BY <1>1 DEF Client
  <2> HIDE DEF b
  <2>4. b \in Nat
    BY <1>2 DEF b
  <2>5. b < client'.nextBlockToSend \/ b < BlockMod
    BY <2>2, <2>3, <2>4, BlocksAssumption, SMT
  <2>6. QED
    BY <2>5 DEF InThisTurn, b
<1>4. CASE client.tid = NoTid
  <2>1. sessions[t].currentBlock = 0
    BY <1>4, NetworkAssumption DEF IInv, SessionInv
  <2>2. 0 < BlockMod
    BY BlocksAssumption, SMT
  <2>3. QED
    BY <2>1, <2>2 DEF InThisTurn
<1>5. QED
  BY <1>3, <1>4

(* A step that ends with fillWindow(). *)
LEMMA FillWindowStep ==
    ASSUME NothingUnnoticed, IInv, NEW m \in net, NEW c, NEW cache,
           ReadyToFill(c, cache), FillWindow(m, c, cache),
           UNCHANGED <<sessions, receiveBuffer, file, creator>>,
           c.tid = client.tid \/ client.tid = NoTid,
           c.lastAckedBlock <= sessions[c.tid].currentBlock,
           c.result = "running", c.retries = 0,
           \/ client.nextBlockToSend <= c.nextBlockToSend
           \/ client.nextBlockToSend <= BlockMod
    PROVE  IInv'
<1>1. /\ client \in Client
      /\ sessions \in [Tids -> Session]
      /\ NetTypeOK
      /\ c \in Client
      /\ c.tid \in Tids
  BY DEF IInv, TypeOK, ClientTypeOK, SessionsTypeOK, ReadyToFill
<1>2. /\ c.lastAckedBlock \in Nat
      /\ c.nextBlockToSend \in Nat
      /\ client.nextBlockToSend \in Nat
      /\ c.lastAckedBlock < c.nextBlockToSend
      /\ sessions[c.tid].currentBlock \in Nat
  BY <1>1 DEF Client, Session, ReadyToFill
<1>3. PICK last \in (c.nextBlockToSend - 1)..(c.lastAckedBlock + Window) :
            Filled(m, c, cache, last)
  BY FillWindowReads
<1> DEFINE sent == c.nextBlockToSend..last
           R == {Data("session", c.tid, b, Payload(b)) : b \in sent}
<1>4. /\ last \in Nat
      /\ c.nextBlockToSend - 1 <= last
      /\ last <= c.lastAckedBlock + Window
      /\ last <= N
      /\ sent \subseteq Nat
  <2>1. last <= N
    BY <1>3 DEF Filled
  <2>2. last \in (c.nextBlockToSend - 1)..(c.lastAckedBlock + Window)
    BY <1>3
  <2>3. QED
    BY <1>2, <2>1, <2>2, BlocksAssumption, SMT
<1>5. /\ client' \in Client
      /\ client'.result = "running"
      /\ client'.tid = c.tid
      /\ client'.lastAckedBlock = c.lastAckedBlock
      /\ client'.nextBlockToSend = last + 1
      /\ client'.lastBlockSent = IF sent = {} THEN c.lastBlockSent ELSE last = N
      /\ client'.position = IF Pipe THEN last ELSE c.position
      /\ client'.retries = 0
  <2> DEFINE short == IF sent = {} THEN c.lastBlockSent ELSE last = N
             place == IF Pipe THEN last ELSE c.position
  <2>1. client' = [c EXCEPT !.nextBlockToSend = last + 1,
                            !.lastBlockSent = short,
                            !.position = place]
    BY <1>3 DEF Filled
  <2>2. short \in BOOLEAN /\ place \in Nat /\ last + 1 \in Nat
    <3>1. c.lastBlockSent \in BOOLEAN /\ c.position \in Nat
      BY <1>1 DEF Client
    <3>2. place \in Nat /\ last + 1 \in Nat
      BY <1>4, <3>1, SMT
    <3>3. short \in BOOLEAN
      BY <3>1
    <3>4. QED
      BY <3>2, <3>3
  <2> HIDE DEF short, place, sent
  <2>3. /\ client' \in Client
        /\ client'.result = "running"
        /\ client'.tid = c.tid
        /\ client'.lastAckedBlock = c.lastAckedBlock
        /\ client'.nextBlockToSend = last + 1
        /\ client'.lastBlockSent = short
        /\ client'.position = place
        /\ client'.retries = 0
    BY <1>1, <2>1, <2>2 DEF Client
  <2>4. QED
    BY <2>3 DEF short, place
<1>6. DOMAIN windowCache' = (c.lastAckedBlock + 1)..last
      /\ \A b \in DOMAIN windowCache' : windowCache'[b] = Payload(b)
  <2>1. DOMAIN cache = (c.lastAckedBlock + 1)..(c.nextBlockToSend - 1)
    BY DEF ReadyToFill
  <2>2. windowCache' = [b \in DOMAIN cache \cup sent |-> Payload(b)]
    BY <1>3 DEF Filled
  <2>3. (c.lastAckedBlock + 1)..(c.nextBlockToSend - 1) \cup sent
            = (c.lastAckedBlock + 1)..last
    BY <1>2, <1>4, SMT
  <2>4. QED
    BY <2>1, <2>2, <2>3
<1>7. CacheInv'
  <2>1. UnackedBlocksAreKept'
    <3>1. (client'.lastAckedBlock + 1)..(client'.nextBlockToSend - 1)
            = (c.lastAckedBlock + 1)..last
      BY <1>2, <1>4, <1>5, SMT
    <3>2. client'.nextBlockToSend <= client'.lastAckedBlock + Window + 1
      BY <1>2, <1>4, <1>5, BlocksAssumption, SMT
    <3>3. QED
      BY <1>6, <3>1, <3>2 DEF UnackedBlocksAreKept
  <2>2. client'.lastAckedBlock < client'.nextBlockToSend
    BY <1>2, <1>4, <1>5, SMT
  <2>3. client'.nextBlockToSend <= N + 1
    BY <1>4, <1>5, BlocksAssumption, SMT
  <2>4. IF client'.lastBlockSent
        THEN client'.nextBlockToSend = N + 1 \/ client'.nextBlockToSend = 1
        ELSE client'.nextBlockToSend <= N
    <3>1. CASE sent = {}
      <4>1. last + 1 = c.nextBlockToSend
        <5>1. c.nextBlockToSend \notin sent
          BY <3>1
        <5>2. QED
          BY <1>2, <1>4, <5>1, SMT
      <4>2. IF c.lastBlockSent
            THEN c.nextBlockToSend = N + 1 \/ c.nextBlockToSend = 1
            ELSE c.nextBlockToSend <= N
        BY DEF ReadyToFill
      <4>3. QED
        BY <1>5, <3>1, <4>1, <4>2
    <3>2. CASE sent # {}
      <4>1. client'.lastBlockSent <=> last = N
        BY <1>5, <3>2
      <4>2. client'.nextBlockToSend = last + 1
        BY <1>5
      <4>3. last # N => last + 1 <= N
        BY <1>4, BlocksAssumption, SMT
      <4>4. QED
        BY <4>1, <4>2, <4>3
    <3>3. QED
      BY <3>1, <3>2
  <2>5. Pipe => client'.position = client'.nextBlockToSend - 1
    BY <1>4, <1>5, SMT
  <2>6. QED
    BY <2>1, <2>2, <2>3, <2>4, <2>5 DEF CacheInv
<1>8. \/ client.nextBlockToSend <= client'.nextBlockToSend
      \/ client.nextBlockToSend <= BlockMod
  BY <1>2, <1>4, <1>5, BlocksAssumption, SMT
<1>9. sessions'[c.tid].currentBlock = sessions[c.tid].currentBlock
  OBVIOUS
<1>10. ClientInv'
  <2>1. c.tid # NoTid
    BY <1>1, NetworkAssumption
  <2>2. InThisTurn(sessions[c.tid].currentBlock)'
    BY <1>1, <1>5, <1>8, WrittenInTurn
  <2>3. client'.lastAckedBlock <= sessions'[client'.tid].currentBlock
    BY <1>5, <1>9
  <2>4. InThisTurn(sessions[client.tid].currentBlock)'
    BY <1>5, <2>2 DEF InThisTurn
  <2>5. QED
    BY <1>5, <2>1, <2>3, <2>4, ZeroRetries DEF ClientInv
<1>11. ClientTypeOK'
  <2>1. DOMAIN windowCache' \subseteq Nat
    BY <1>2, <1>4, <1>6, SMT
  <2>2. windowCache' = [b \in DOMAIN cache \cup sent |-> Payload(b)]
    BY <1>3 DEF Filled
  <2>3. windowCache' \in [DOMAIN windowCache' -> Payloads]
    BY <2>1, <2>2, PayloadType
  <2>4. QED
    BY <1>5, <2>1, <2>3 DEF ClientTypeOK
<1>12. NetTypeOK' /\ net' \subseteq net \cup R
  <2>1. R \in SUBSET Message
    BY <1>1, <1>4, PayloadType DEF Data, Message, Ops
  <2>2. Deliver(m, R)
    BY <1>3 DEF Filled
  <2>3. QED
    BY <1>1, <2>1, <2>2, NetStep
<1>13. ASSUME NEW x \in R PROVE MessageInv(x)'
  <2>1. PICK b \in sent : x = Data("session", c.tid, b, Payload(b))
    OBVIOUS
  <2>2. /\ x.op = "DATA" /\ x.to = "session" /\ x.tid = c.tid
        /\ x.blk = b /\ x.payload = Payload(b)
    BY <2>1 DEF Data
  <2>3. /\ b \in Nat
        /\ 1 <= b
        /\ b <= N
        /\ b < last + 1
        /\ b <= sessions[c.tid].currentBlock + Window
    BY <1>2, <1>4, <2>1, BlocksAssumption, SMT
  <2>4. GoodBlock(b, Payload(b))'
    <3>1. b < client'.nextBlockToSend
      BY <1>5, <2>3
    <3>2. b \in 1..N
      BY <2>3, BlocksAssumption, SMT
    <3>3. QED
      BY <3>1, <3>2 DEF GoodBlock, InThisTurn
  <2>5. QED
    BY <1>1, <1>5, <1>9, <2>2, <2>3, <2>4 DEF MessageInv
<1>14. client'.tid = client.tid \/ client.tid = NoTid
  BY <1>5
<1>15. UNCHANGED <<sessions, receiveBuffer, file, creator>>
  OBVIOUS
<1> HIDE DEF R
<1>16. QED
  BY <1>7, <1>8, <1>10, <1>11, <1>12, <1>13, <1>14, <1>15, ClientStep

(* What the invariant says of the client when m arrives from its peer. *)
LEMMA ClientFacts ==
    ASSUME IInv, NEW m \in net
    PROVE  /\ client \in Client
           /\ ClientTypeOK
           /\ NetTypeOK
           /\ CacheInv
           /\ ClientInv
           /\ m \in Message
           /\ MessageInv(m)
           /\ sessions \in [Tids -> Session]
BY DEF IInv, TypeOK, ClientTypeOK, NetTypeOK, SessionsTypeOK

(* A step that changes only the client's port, result and retries.          *)
LEMMA QuietClientStep ==
    ASSUME IInv, NEW tid \in Tids \cup {NoTid}, NEW result, NEW retries, NEW R,
           client' = [client EXCEPT !.tid = tid,
                                    !.result = result,
                                    !.retries = retries],
           UNCHANGED <<sessions, receiveBuffer, file, creator, windowCache>>,
           tid = client.tid \/ client.tid = NoTid,
           result \in {client.result, "failed", "aborted"},
           client.result = "running",
           retries \in 0..MaxRetries + 1,
           result = "running" => retries <= MaxRetries,
           NetTypeOK', net' \subseteq net \cup R,
           \A x \in R : MessageInv(x)'
    PROVE  IInv'
<1>1. /\ client \in Client
      /\ ClientTypeOK
      /\ CacheInv
      /\ ClientInv
      /\ sessions \in [Tids -> Session]
  BY DEF IInv, TypeOK, ClientTypeOK, SessionsTypeOK
<1>2. /\ client' \in Client
      /\ client'.tid = tid
      /\ client'.result = result
      /\ client'.retries = retries
      /\ client'.windowSize = client.windowSize
      /\ client'.lastAckedBlock = client.lastAckedBlock
      /\ client'.nextBlockToSend = client.nextBlockToSend
      /\ client'.lastBlockSent = client.lastBlockSent
      /\ client'.position = client.position
  <2>1. result \in {"running", "ok", "failed", "aborted"}
    OBVIOUS
  <2>2. QED
    BY <1>1, <2>1 DEF Client
<1>3. client.nextBlockToSend <= client'.nextBlockToSend
  BY <1>1, <1>2, SMT DEF Client
<1>4. CacheInv'
  BY <1>1, <1>2 DEF CacheInv, UnackedBlocksAreKept
<1>5. ClientInv'
  <2>1. tid \in Tids => client.lastAckedBlock <= sessions[tid].currentBlock
    <3>1. CASE tid = client.tid
      BY <1>1, <3>1 DEF ClientInv
    <3>2. CASE client.tid = NoTid
      <4>1. client.lastAckedBlock < 1
        BY <1>1, <3>2 DEF ClientInv, CacheInv
      <4>2. client.lastAckedBlock \in Nat
        BY <1>1 DEF Client
      <4>3. tid \in Tids => sessions[tid].currentBlock \in Nat
        BY <1>1 DEF Session
      <4>4. QED
        BY <4>1, <4>2, <4>3, SMT
    <3>3. QED
      BY <3>1, <3>2
  <2>2. tid \in Tids => InThisTurn(sessions[tid].currentBlock)'
    BY <1>1, <1>2, <1>3, WrittenInTurn
  <2>3. client'.tid \in Tids =>
            /\ client'.lastAckedBlock <= sessions'[client'.tid].currentBlock
            /\ InThisTurn(sessions[client.tid].currentBlock)'
    BY <1>2, <2>1, <2>2 DEF InThisTurn
  <2>4. client'.tid = NoTid =>
            client'.nextBlockToSend = 1 /\ ~client'.lastBlockSent
    <3>1. client'.tid = NoTid => client.tid = NoTid
      BY <1>2
    <3>2. QED
      BY <1>1, <1>2, <3>1 DEF ClientInv
  <2>5. QED
    BY <1>2, <2>3, <2>4 DEF ClientInv, Running
<1>6. ClientTypeOK'
  BY <1>1, <1>2 DEF ClientTypeOK
<1>7. UNCHANGED <<sessions, receiveBuffer, file, creator>>
  OBVIOUS
<1>8. client'.tid = client.tid \/ client.tid = NoTid
  BY <1>2
<1>9. QED
  BY <1>3, <1>4, <1>5, <1>6, <1>7, <1>8, ClientStep

(* An OACK makes the client start, or start again, with block 1. *)
LEMMA OackStep ==
    ASSUME NothingUnnoticed, IInv, NEW m \in net, Fresh(m), ReceiveOack(m),
           UNCHANGED <<sessions, receiveBuffer, file, creator>>
    PROVE  IInv'
<1> DEFINE c == [client EXCEPT !.tid = m.tid,
                               !.windowSize = Window,
                               !.retries = 0,
                               !.lastAckedBlock = 0,
                               !.nextBlockToSend = 1]
<1>1. /\ client \in Client
      /\ CacheInv
      /\ m \in Message
      /\ MessageInv(m)
      /\ sessions \in [Tids -> Session]
  BY ClientFacts
<1>2. /\ m.op = "OACK"
      /\ client.result = "running"
      /\ client.tid \in {NoTid, m.tid}
      /\ FillWindow(m, c, NoBlocks)
  BY DEF ReceiveOack, FromPeer, Running
<1>3. m.tid \in Tids /\ ~Pipe
  BY <1>1, <1>2 DEF MessageInv, NothingUnnoticed
<1>4. /\ c \in Client
      /\ c.tid = m.tid
      /\ c.result = "running"
      /\ c.retries = 0
      /\ c.lastAckedBlock = 0
      /\ c.nextBlockToSend = 1
      /\ c.lastBlockSent = client.lastBlockSent
  BY <1>1, <1>2, <1>3, ZeroRetries, BlocksAssumption DEF Client
<1> HIDE DEF c
<1>5. ReadyToFill(c, NoBlocks)
  <2>1. DOMAIN NoBlocks = {} /\ (0 + 1)..(1 - 1) = {}
    BY SMT DEF NoBlocks
  <2>2. 1 <= 0 + Window + 1 /\ 0 < 1 /\ 1 <= N + 1 /\ 1 <= N
    BY BlocksAssumption, SMT
  <2>3. QED
    BY <1>3, <1>4, <2>1, <2>2 DEF ReadyToFill
<1>6. c.lastAckedBlock <= sessions[c.tid].currentBlock
  <2>1. sessions[m.tid].currentBlock \in Nat
    BY <1>1, <1>3 DEF Session
  <2>2. QED
    BY <1>4, <2>1, SMT
<1>7. client.nextBlockToSend <= BlockMod
  <2>1. MessageInv(m) /\ m.blk \in Nat /\ client.nextBlockToSend \in Nat
    BY <1>1 DEF Message, Client
  <2>2. m.blk + BlockMod >= client.nextBlockToSend
    BY <1>2 DEF Fresh
  <2>3. m.blk = 0
    BY <1>1, <1>2 DEF MessageInv
  <2>4. QED
    BY <2>1, <2>2, <2>3, BlocksAssumption, SMT
<1>8. c.tid = client.tid \/ client.tid = NoTid
  BY <1>2, <1>4
<1>9. QED
  BY <1>2, <1>4, <1>5, <1>6, <1>7, <1>8, FillWindowStep

(* ACK 0 makes a client that asked for no options start. *)
LEMMA FirstAckStep ==
    ASSUME NothingUnnoticed, IInv, NEW m \in net, ReceiveFirstAck(m),
           UNCHANGED <<sessions, receiveBuffer, file, creator>>
    PROVE  IInv'
<1> DEFINE c == [client EXCEPT !.tid = m.tid, !.retries = 0]
<1>1. /\ client \in Client
      /\ CacheInv
      /\ m \in Message
      /\ MessageInv(m)
      /\ sessions \in [Tids -> Session]
  BY ClientFacts
<1>2. /\ m.op = "ACK"
      /\ client.lastAckedBlock = 0
      /\ client.nextBlockToSend = 1
      /\ client.result = "running"
      /\ client.tid \in {NoTid, m.tid}
      /\ FillWindow(m, c, NoBlocks)
  BY DEF ReceiveFirstAck, IsFirstAck, FromPeer, Running
<1>3. m.tid \in Tids
  BY <1>1, <1>2 DEF MessageInv
<1>4. /\ c \in Client
      /\ c.tid = m.tid
      /\ c.result = "running"
      /\ c.retries = 0
      /\ c.lastAckedBlock = 0
      /\ c.nextBlockToSend = 1
      /\ c.lastBlockSent = client.lastBlockSent
      /\ c.position = client.position
  BY <1>1, <1>2, <1>3, ZeroRetries DEF Client
<1> HIDE DEF c
<1>5. ReadyToFill(c, NoBlocks)
  <2>1. DOMAIN NoBlocks = {} /\ (0 + 1)..(1 - 1) = {}
    BY SMT DEF NoBlocks
  <2>2. 1 <= 0 + Window + 1 /\ 0 < 1 /\ 1 <= N + 1 /\ 1 <= N
    BY BlocksAssumption, SMT
  <2>3. Pipe => c.position = c.nextBlockToSend - 1
    BY <1>1, <1>2, <1>4 DEF CacheInv
  <2>4. QED
    BY <1>3, <1>4, <2>1, <2>2, <2>3 DEF ReadyToFill
<1>6. c.lastAckedBlock <= sessions[c.tid].currentBlock
  <2>1. sessions[m.tid].currentBlock \in Nat
    BY <1>1, <1>3 DEF Session
  <2>2. QED
    BY <1>4, <2>1, SMT
<1>7. client.nextBlockToSend <= c.nextBlockToSend
  BY <1>2, <1>4, SMT
<1>8. c.tid = client.tid \/ client.tid = NoTid
  BY <1>2, <1>4
<1>9. QED
  BY <1>2, <1>4, <1>5, <1>6, <1>7, <1>8, FillWindowStep

(* The block that handleAck() finds is the acknowledged one, and the        *)
(* session has written it.                                                  *)
LEMMA AckFound ==
    ASSUME IInv, NEW m \in net, Fresh(m), m.op = "ACK",
           client.tid \in {NoTid, m.tid},
           NEW a \in DOMAIN windowCache,
           IsFirstMatch(DOMAIN windowCache, a, Wire(m.blk))
    PROVE  /\ client.tid = m.tid
           /\ a \in (client.lastAckedBlock + 1)..(client.nextBlockToSend - 1)
           /\ a <= sessions[m.tid].currentBlock
<1>1. /\ client \in Client
      /\ CacheInv
      /\ ClientInv
      /\ m \in Message
      /\ MessageInv(m)
      /\ sessions \in [Tids -> Session]
  BY ClientFacts
<1> DEFINE S == DOMAIN windowCache
           lo == client.lastAckedBlock
           hi == client.nextBlockToSend
           written == sessions[m.tid].currentBlock
<1>2. /\ S = (lo + 1)..(hi - 1)
      /\ hi <= lo + Window + 1
      /\ lo < hi
  BY <1>1 DEF CacheInv, UnackedBlocksAreKept
<1>3. /\ m.tid \in Tids
      /\ m.blk <= written
  BY <1>1 DEF MessageInv
<1>4. /\ lo \in Nat /\ hi \in Nat
      /\ m.blk \in Nat
      /\ written \in Nat
  BY <1>1, <1>3 DEF Client, Message, Session
<1>5. client.tid = m.tid
  <2>1. SUFFICES ASSUME client.tid = NoTid PROVE FALSE
    OBVIOUS
  <2>2. hi = 1
    BY <1>1, <2>1 DEF ClientInv
  <2>3. a \in (lo + 1)..(hi - 1)
    BY <1>2
  <2> HIDE DEF lo, hi
  <2>4. QED
    BY <1>4, <2>2, <2>3, SMT
<1>6. written < hi \/ written < BlockMod
  BY <1>1, <1>3, <1>5 DEF ClientInv, InThisTurn
<1>7. hi <= m.blk + BlockMod
  BY <1>4, BlocksAssumption, SMT DEF Fresh
<1> HIDE DEF lo, hi, written
<1>8. \A x \in (lo + 1)..(hi - 1) :
        x \in Nat /\ x < m.blk + BlockMod /\ m.blk < x + BlockMod
  BY <1>2, <1>3, <1>4, <1>6, <1>7, BlocksAssumption, SMT
<1>9. /\ S \subseteq Nat
      /\ \A x \in S : x < m.blk + BlockMod /\ m.blk < x + BlockMod
      /\ IsFirstMatch(S, a, Wire(m.blk))
      /\ a \in (lo + 1)..(hi - 1)
  BY <1>2, <1>8
<1> HIDE DEF S
<1>10. a = m.blk
  BY <1>4, <1>9, MatchIsSame
<1>11. QED
  BY <1>3, <1>5, <1>9, <1>10 DEF lo, hi, written

(* An ACK moves the window, or ends the transfer when it was of the last    *)
(* block.                                                                   *)
LEMMA AckStep ==
    ASSUME NothingUnnoticed, IInv, NEW m \in net, Fresh(m), ReceiveAck(m),
           UNCHANGED <<sessions, receiveBuffer, file, creator>>
    PROVE  IInv'
<1>1. /\ client \in Client
      /\ ClientTypeOK
      /\ NetTypeOK
      /\ CacheInv
      /\ ClientInv
      /\ m \in Message
      /\ MessageInv(m)
      /\ sessions \in [Tids -> Session]
  BY ClientFacts
<1>2. /\ m.op = "ACK"
      /\ client.result = "running"
      /\ client.tid \in {NoTid, m.tid}
  BY DEF ReceiveAck, FromPeer, Running
<1>3. PICK a \in DOMAIN windowCache :
        /\ IsFirstMatch(DOMAIN windowCache, a, Wire(m.blk))
        /\ a > client.lastAckedBlock
        /\ LET c == [client EXCEPT !.tid = m.tid,
                                   !.retries = 0,
                                   !.lastAckedBlock = a]
               cache == Without(windowCache, (client.lastAckedBlock + 1)..a)
           IN  IF c.lastBlockSent /\ DOMAIN cache = {}
               THEN /\ client' = [c EXCEPT !.result = "ok"]
                    /\ windowCache' = cache
                    /\ Deliver(m, {})
               ELSE FillWindow(m, c, cache)
  BY DEF ReceiveAck
<1>4. /\ client.tid = m.tid
      /\ a \in (client.lastAckedBlock + 1)..(client.nextBlockToSend - 1)
      /\ a <= sessions[m.tid].currentBlock
      /\ m.tid \in Tids
  BY <1>1, <1>2, <1>3, AckFound DEF MessageInv
<1>5. /\ client.lastAckedBlock \in Nat
      /\ client.nextBlockToSend \in Nat
      /\ a \in Nat
      /\ client.lastAckedBlock < a
      /\ a < client.nextBlockToSend
      /\ client.nextBlockToSend <= client.lastAckedBlock + Window + 1
      /\ client.nextBlockToSend <= N + 1
  <2>1. client.lastAckedBlock \in Nat /\ client.nextBlockToSend \in Nat
    BY <1>1 DEF Client
  <2>2. /\ client.nextBlockToSend <= client.lastAckedBlock + Window + 1
        /\ client.nextBlockToSend <= N + 1
    BY <1>1 DEF CacheInv, UnackedBlocksAreKept
  <2>3. QED
    BY <1>4, <2>1, <2>2, SMT
<1> DEFINE c == [client EXCEPT !.tid = m.tid,
                               !.retries = 0,
                               !.lastAckedBlock = a]
           cache == Without(windowCache, (client.lastAckedBlock + 1)..a)
<1>6. /\ c \in Client
      /\ c.tid = client.tid
      /\ c.result = "running"
      /\ c.windowSize = client.windowSize
      /\ c.lastAckedBlock = a
      /\ c.nextBlockToSend = client.nextBlockToSend
      /\ c.lastBlockSent = client.lastBlockSent
      /\ c.position = client.position
      /\ c.retries = 0
  BY <1>1, <1>2, <1>4, <1>5, ZeroRetries DEF Client
<1>7. /\ DOMAIN cache = (a + 1)..(client.nextBlockToSend - 1)
      /\ \A b \in DOMAIN cache : cache[b] = Payload(b)
      /\ cache \in [DOMAIN cache -> Payloads]
      /\ DOMAIN cache \subseteq Nat
  <2> DEFINE D == DOMAIN windowCache
             S == (client.lastAckedBlock + 1)..a
  <2>1. /\ D = (client.lastAckedBlock + 1)..(client.nextBlockToSend - 1)
        /\ \A b \in D : windowCache[b] = Payload(b)
        /\ D \subseteq Nat
        /\ windowCache \in [D -> Payloads]
    BY <1>1 DEF CacheInv, UnackedBlocksAreKept, ClientTypeOK
  <2>2. /\ DOMAIN cache = D \ S
        /\ \A b \in D \ S : cache[b] = windowCache[b]
        /\ DOMAIN cache \subseteq Nat
        /\ cache \in [DOMAIN cache -> Payloads]
    BY <2>1 DEF Without
  <2>3. D \ S = (a + 1)..(client.nextBlockToSend - 1)
    BY <1>5, <2>1, SMT
  <2> HIDE DEF D, S, cache
  <2>4. QED
    BY <2>1, <2>2, <2>3
<1>8. CASE c.lastBlockSent /\ DOMAIN cache = {}
  <2> DEFINE d == [c EXCEPT !.result = "ok"]
  <2>1. /\ client' = d
        /\ windowCache' = cache
        /\ Deliver(m, {})
    BY <1>3, <1>8
  <2> HIDE DEF c, cache
  <2>2. /\ client' \in Client
        /\ client'.tid = client.tid
        /\ client'.result = "ok"
        /\ client'.lastAckedBlock = a
        /\ client'.nextBlockToSend = client.nextBlockToSend
        /\ client'.lastBlockSent = client.lastBlockSent
        /\ client'.position = client.position
        /\ client'.retries = 0
    BY <1>6, <2>1 DEF Client
  <2>3. a = N /\ client.nextBlockToSend = N + 1
    <3>1. client.nextBlockToSend = N + 1 \/ client.nextBlockToSend = 1
      BY <1>1, <1>6, <1>8 DEF CacheInv
    <3>2. client.nextBlockToSend = N + 1
      BY <1>5, <3>1, SMT
    <3>3. client.nextBlockToSend - 1 \notin (a + 1)..(client.nextBlockToSend - 1)
      BY <1>7, <1>8
    <3>4. QED
      BY <1>5, <3>2, <3>3, BlocksAssumption, SMT
  <2>4. CacheInv'
    <3>1. UnackedBlocksAreKept'
      <4>1. client'.nextBlockToSend <= client'.lastAckedBlock + Window + 1
        BY <1>5, <2>2, <2>3, BlocksAssumption, SMT
      <4>2. QED
        BY <1>7, <2>1, <2>2, <4>1 DEF UnackedBlocksAreKept
    <3>2. client'.lastAckedBlock < client'.nextBlockToSend
          /\ client'.nextBlockToSend <= N + 1
      BY <1>5, <2>2, SMT
    <3>3. QED
      BY <1>1, <2>2, <3>1, <3>2 DEF CacheInv
  <2>5. client.nextBlockToSend <= client'.nextBlockToSend
    BY <1>5, <2>2, SMT
  <2>6. ClientInv'
    <3>1. InThisTurn(sessions[m.tid].currentBlock)'
      BY <1>4, <2>2, <2>5, WrittenInTurn
    <3>2. InThisTurn(sessions[client.tid].currentBlock)'
      BY <1>4, <2>2, <3>1 DEF InThisTurn
    <3>3. client'.lastAckedBlock <= sessions'[client'.tid].currentBlock
      BY <1>4, <2>2
    <3>4. client'.tid # NoTid
      BY <1>4, <2>2, NetworkAssumption
    <3>5. QED
      BY <2>2, <2>3, <3>2, <3>3, <3>4 DEF ClientInv, Running
  <2>7. ClientTypeOK'
    BY <1>7, <2>1, <2>2 DEF ClientTypeOK
  <2> DEFINE R == {}
  <2>8. NetTypeOK' /\ net' \subseteq net \cup R
    BY <1>1, <2>1, NetStep
  <2>9. /\ client'.tid = client.tid
        /\ UNCHANGED <<sessions, receiveBuffer, file, creator>>
        /\ \A x \in R : MessageInv(x)'
    BY <2>2
  <2> HIDE DEF R
  <2>10. QED
    BY <2>4, <2>5, <2>6, <2>7, <2>8, <2>9, ClientStep
<1>9. CASE ~(c.lastBlockSent /\ DOMAIN cache = {})
  <2>1. FillWindow(m, c, cache)
    BY <1>3, <1>9
  <2> HIDE DEF c, cache
  <2>2. ReadyToFill(c, cache)
    <3>1. client.nextBlockToSend <= a + Window + 1
      BY <1>5, BlocksAssumption, SMT
    <3>2. c.tid \in Tids
      BY <1>4, <1>6
    <3>3. /\ IF c.lastBlockSent
             THEN c.nextBlockToSend = N + 1 \/ c.nextBlockToSend = 1
             ELSE c.nextBlockToSend <= N
          /\ Pipe => c.position = c.nextBlockToSend - 1
      BY <1>1, <1>6 DEF CacheInv
    <3>4. QED
      BY <1>5, <1>6, <1>7, <3>1, <3>2, <3>3 DEF ReadyToFill
  <2>3. c.lastAckedBlock <= sessions[c.tid].currentBlock
    BY <1>4, <1>6
  <2>4. client.nextBlockToSend <= c.nextBlockToSend
    BY <1>5, <1>6, SMT
  <2>5. QED
    BY <1>6, <2>1, <2>2, <2>3, <2>4, FillWindowStep
<1>10. QED
  BY <1>8, <1>9

(* An ACK of no kept block fixes the client's port at most. *)
LEMMA UnexpectedAckStep ==
    ASSUME IInv, NEW m \in net, ReceiveUnexpectedAck(m),
           UNCHANGED <<sessions, receiveBuffer, file, creator>>
    PROVE  IInv'
<1> DEFINE R == {}
<1>1. client \in Client /\ NetTypeOK /\ MessageInv(m) /\ ClientInv
  BY ClientFacts
<1>2. /\ m.op = "ACK"
      /\ client.result = "running"
      /\ client.tid \in {NoTid, m.tid}
      /\ client' = [client EXCEPT !.tid = m.tid]
      /\ Deliver(m, R)
      /\ UNCHANGED windowCache
  BY DEF ReceiveUnexpectedAck, FromPeer, Running
<1>3. m.tid \in Tids
  BY <1>1, <1>2 DEF MessageInv
<1>4. /\ client' = [client EXCEPT !.tid = m.tid,
                                  !.result = client.result,
                                  !.retries = client.retries]
      /\ client.retries \in 0..MaxRetries + 1
      /\ client.retries <= MaxRetries
  BY <1>1, <1>2 DEF Client, ClientInv, Running
<1>5. NetTypeOK' /\ net' \subseteq net \cup R
  BY <1>1, <1>2, NetStep
<1>6. \A x \in R : MessageInv(x)'
  OBVIOUS
<1> DEFINE result == client.result
           retries == client.retries
<1>7. /\ client' = [client EXCEPT !.tid = m.tid,
                                  !.result = result,
                                  !.retries = retries]
      /\ m.tid \in Tids \cup {NoTid}
      /\ m.tid = client.tid \/ client.tid = NoTid
      /\ result \in {client.result, "failed", "aborted"}
      /\ retries \in 0..MaxRetries + 1
      /\ result = "running" => retries <= MaxRetries
      /\ UNCHANGED <<sessions, receiveBuffer, file, creator, windowCache>>
  BY <1>2, <1>3, <1>4
<1> HIDE DEF R, result, retries
<1>8. QED
  BY <1>2, <1>5, <1>6, <1>7, QuietClientStep

(* An ERROR from the session, or from the server's own port, ends the       *)
(* client.                                                                  *)
LEMMA ReceiveErrorStep ==
    ASSUME IInv, NEW m \in net, ReceiveError(m),
           UNCHANGED <<sessions, receiveBuffer, file, creator>>
    PROVE  IInv'
<1> DEFINE R == {}
<1>1. client \in Client /\ NetTypeOK /\ m \in Message
  BY ClientFacts
<1>2. /\ client.result = "running"
      /\ client.tid \in {NoTid, m.tid}
      /\ client' = [client EXCEPT !.tid = m.tid, !.result = "failed"]
      /\ Deliver(m, R)
      /\ UNCHANGED windowCache
  BY DEF ReceiveError, FromPeer, Running
<1>3. m.tid \in Tids \cup {NoTid}
  BY <1>1 DEF Message
<1>4. /\ client' = [client EXCEPT !.tid = m.tid,
                                  !.result = "failed",
                                  !.retries = client.retries]
      /\ client.retries \in 0..MaxRetries + 1
  BY <1>1, <1>2 DEF Client
<1>5. NetTypeOK' /\ net' \subseteq net \cup R
  BY <1>1, <1>2, NetStep
<1>6. \A x \in R : MessageInv(x)'
  OBVIOUS
<1> DEFINE result == "failed"
           retries == client.retries
<1>7. /\ client' = [client EXCEPT !.tid = m.tid,
                                  !.result = result,
                                  !.retries = retries]
      /\ m.tid \in Tids \cup {NoTid}
      /\ m.tid = client.tid \/ client.tid = NoTid
      /\ result \in {client.result, "failed", "aborted"}
      /\ retries \in 0..MaxRetries + 1
      /\ result = "running" => retries <= MaxRetries
      /\ UNCHANGED <<sessions, receiveBuffer, file, creator, windowCache>>
  BY <1>2, <1>3, <1>4
<1> HIDE DEF R, result, retries
<1>8. QED
  BY <1>2, <1>5, <1>6, <1>7, QuietClientStep

(* An ERROR on its way to a session is in order. *)
LEMMA ErrorMessage ==
    ASSUME NEW t \in Tids
    PROVE  /\ {Msg("ERROR", "session", t, 0)} \in SUBSET Message
           /\ \A x \in {Msg("ERROR", "session", t, 0)} : MessageInv(x)'
<1>1. Msg("ERROR", "session", t, 0) \in Message
  BY BlocksAssumption, SMT DEF Msg, Message, Ops, Payloads
<1>2. MessageInv(Msg("ERROR", "session", t, 0))'
  BY DEF Msg, MessageInv
<1>3. QED
  BY <1>1, <1>2

(* A stray datagram is answered with an ERROR, and changes nothing else. *)
LEMMA StrayStep ==
    ASSUME IInv, NEW m \in net, ReceiveStray(m),
           UNCHANGED <<sessions, receiveBuffer, file, creator>>
    PROVE  IInv'
<1>1. NetTypeOK /\ m \in Message
  BY ClientFacts
<1>2. UNCHANGED <<client, windowCache>>
  BY DEF ReceiveStray
<1>3. CASE m.tid = NoTid
  <2> DEFINE R == {}
  <2>1. Deliver(m, R)
    BY <1>3 DEF ReceiveStray
  <2>2. NetTypeOK' /\ net' \subseteq net \cup R
    BY <1>1, <2>1, NetStep
  <2>3. \A x \in R : MessageInv(x)'
    OBVIOUS
  <2> HIDE DEF R
  <2>4. QED
    BY <1>2, <2>2, <2>3, NetworkStep
<1>4. CASE m.tid # NoTid
  <2> DEFINE R == {Msg("ERROR", "session", m.tid, 0)}
  <2>1. Deliver(m, R)
    BY <1>4 DEF ReceiveStray
  <2>2. m.tid \in Tids
    BY <1>1, <1>4 DEF Message
  <2>3. R \in SUBSET Message /\ \A x \in R : MessageInv(x)'
    BY <2>2, ErrorMessage
  <2> HIDE DEF R
  <2>4. NetTypeOK' /\ net' \subseteq net \cup R
    BY <1>1, <2>1, <2>3, NetStep
  <2>5. QED
    BY <1>2, <2>3, <2>4, NetworkStep
<1>5. QED
  BY <1>3, <1>4

(* Whatever the client receives, IInv is kept. *)
LEMMA ClientReceivesStep ==
    ASSUME NothingUnnoticed, IInv, ClientReceives
    PROVE  IInv'
<1>1. UNCHANGED <<sessions, receiveBuffer, file, creator>>
  BY DEF ClientReceives, serverVars
<1>2. PICK m \in net :
        /\ Fresh(m)
        /\ \/ ReceiveOack(m)
           \/ ReceiveFirstAck(m)
           \/ ReceiveAck(m)
           \/ ReceiveUnexpectedAck(m)
           \/ ReceiveError(m)
           \/ ReceiveStray(m)
  BY DEF ClientReceives
<1>3. CASE ReceiveOack(m)
  BY <1>1, <1>2, <1>3, OackStep
<1>4. CASE ReceiveFirstAck(m)
  BY <1>1, <1>2, <1>4, FirstAckStep
<1>5. CASE ReceiveAck(m)
  BY <1>1, <1>2, <1>5, AckStep
<1>6. CASE ReceiveUnexpectedAck(m)
  BY <1>1, <1>2, <1>6, UnexpectedAckStep
<1>7. CASE ReceiveError(m)
  BY <1>1, <1>2, <1>7, ReceiveErrorStep
<1>8. CASE ReceiveStray(m)
  BY <1>1, <1>2, <1>8, StrayStep
<1>9. QED
  BY <1>2, <1>3, <1>4, <1>5, <1>6, <1>7, <1>8

(* The kept blocks, when they are sent again, are in order. *)
LEMMA KeptBlocks ==
    ASSUME IInv, NEW b \in DOMAIN windowCache, NEW x,
           x = Data("session", client.tid, b, windowCache[b]),
           client'.tid = client.tid,
           client'.nextBlockToSend = client.nextBlockToSend,
           UNCHANGED sessions
    PROVE  x \in Message /\ MessageInv(x)'
<1>1. /\ client \in Client
      /\ ClientTypeOK
      /\ CacheInv
      /\ ClientInv
      /\ sessions \in [Tids -> Session]
  BY DEF IInv, TypeOK, ClientTypeOK, SessionsTypeOK
<1> DEFINE lo == client.lastAckedBlock
           hi == client.nextBlockToSend
           tid == client.tid
           p == windowCache[b]
           written == sessions[tid].currentBlock
<1>2. lo \in Nat /\ hi \in Nat /\ tid \in Tids \cup {NoTid}
  BY <1>1 DEF Client
<1>3. /\ b \in (lo + 1)..(hi - 1)
      /\ hi <= lo + Window + 1
      /\ hi <= N + 1
      /\ p = Payload(b)
  BY <1>1 DEF CacheInv, UnackedBlocksAreKept
<1>4. p \in Payloads
  BY <1>1 DEF ClientTypeOK
<1>5. tid \in Tids
  <2>1. SUFFICES ASSUME tid = NoTid PROVE FALSE
    BY <1>2
  <2>2. hi = 1
    BY <1>1, <2>1 DEF ClientInv
  <2> HIDE DEF lo, hi
  <2>3. QED
    BY <1>2, <1>3, <2>2, SMT
<1>6. written \in Nat /\ lo <= written
  BY <1>1, <1>5 DEF Session, ClientInv
<1> HIDE DEF lo, hi, tid, p, written
<1>7. b \in 1..N /\ b < hi /\ b <= written + Window
  BY <1>2, <1>3, <1>6, BlocksAssumption, SMT
<1>8. x = Data("session", tid, b, p)
  BY DEF tid, p
<1>9. x \in Message
  BY <1>4, <1>5, <1>7, <1>8 DEF Data, Message, Ops
<1>10. /\ x.op = "DATA"
       /\ x.to = "session"
       /\ x.tid = tid
       /\ x.blk = b
       /\ x.payload = p
  BY <1>8 DEF Data
<1>11. /\ client'.nextBlockToSend = hi
       /\ client'.tid = tid
       /\ sessions'[tid].currentBlock = written
  BY DEF hi, tid, written
<1>12. GoodBlock(x.blk, x.payload)'
  BY <1>3, <1>7, <1>10, <1>11 DEF GoodBlock, InThisTurn
<1>13. MessageInv(x)'
  BY <1>5, <1>7, <1>10, <1>11, <1>12 DEF MessageInv
<1>14. QED
  BY <1>9, <1>13

(* A timeout ends the client or repeats the kept blocks. *)
LEMMA ClientTimeoutStep ==
    ASSUME IInv, ClientTimeout
    PROVE  IInv'
<1> DEFINE result == client'.result
           retries == client.retries + 1
           tid == client.tid
<1>1. client \in Client /\ ClientInv /\ NetTypeOK
  BY DEF IInv, TypeOK, ClientTypeOK
<1>2. /\ client.result = "running"
      /\ UNCHANGED <<sessions, receiveBuffer, file, creator, windowCache>>
  BY DEF ClientTimeout, ClientTimesOut, Running, serverVars
<1>3. retries \in 0..MaxRetries + 1
  <2>1. client.retries \in 0..MaxRetries + 1 /\ client.retries <= MaxRetries
    BY <1>1, <1>2 DEF Client, ClientInv, Running
  <2>2. QED
    BY <2>1, BlocksAssumption, SMT
<1>4. tid \in Tids \cup {NoTid} /\ (tid = client.tid \/ client.tid = NoTid)
  BY <1>1 DEF Client
<1>5. CASE retries > MaxRetries
  <2>1. client' = [client EXCEPT !.retries = @ + 1, !.result = "failed"]
    BY <1>1, <1>5 DEF ClientTimeout, ClientTimesOut, Client
  <2>2. /\ client' = [client EXCEPT !.tid = tid,
                                    !.result = result,
                                    !.retries = retries]
        /\ result = "failed"
    BY <1>1, <2>1 DEF Client
  <2>3. UNCHANGED <<net, losses>>
    BY <1>1, <1>5 DEF ClientTimeout, ClientTimesOut, Client
  <2> DEFINE R == {}
  <2>4. NetTypeOK' /\ net' \subseteq net \cup R /\ \A x \in R : MessageInv(x)'
    BY <1>1, <2>3 DEF NetTypeOK
  <2>5. /\ result \in {client.result, "failed", "aborted"}
        /\ result = "running" => retries <= MaxRetries
    BY <2>2
  <2> HIDE DEF R, result, retries, tid
  <2>6. QED
    BY <1>2, <1>3, <1>4, <2>2, <2>4, <2>5, QuietClientStep
<1>6. CASE ~(retries > MaxRetries)
  <2> DEFINE R == {Data("session", client.tid, b, windowCache[b]) :
                        b \in DOMAIN windowCache}
  <2>1. /\ client' = [client EXCEPT !.retries = @ + 1]
        /\ Send(R)
    BY <1>1, <1>6 DEF ClientTimeout, ClientTimesOut, Client
  <2>2. /\ client' = [client EXCEPT !.tid = tid,
                                    !.result = result,
                                    !.retries = retries]
        /\ result = client.result
        /\ client'.tid = client.tid
        /\ client'.nextBlockToSend = client.nextBlockToSend
    BY <1>1, <2>1 DEF Client
  <2>3. \A x \in R : x \in Message /\ MessageInv(x)'
    BY <1>2, <2>2, KeptBlocks
  <2>4. retries <= MaxRetries
    BY <1>3, <1>6, BlocksAssumption, SMT
  <2>5. /\ result \in {client.result, "failed", "aborted"}
        /\ result = "running" => retries <= MaxRetries
    BY <2>2, <2>4
  <2> HIDE DEF R, result, retries, tid
  <2>6. R \in SUBSET Message
    BY <2>3
  <2>7. NetTypeOK' /\ net' \subseteq net \cup R
    BY <1>1, <2>1, <2>6, NetStep
  <2>8. QED
    BY <1>2, <1>3, <1>4, <2>2, <2>3, <2>5, <2>7, QuietClientStep
<1>7. QED
  BY <1>5, <1>6

(* The user ends the client. *)
LEMMA UserActsStep ==
    ASSUME IInv, UserActs
    PROVE  IInv'
<1> DEFINE result == client'.result
           retries == client.retries
           tid == client.tid
<1>1. client \in Client /\ NetTypeOK
  BY DEF IInv, TypeOK, ClientTypeOK
<1>2. /\ client.result = "running"
      /\ UNCHANGED <<sessions, receiveBuffer, file, creator, windowCache>>
  BY DEF UserActs, Abort, BeginWhileRunning, Running, serverVars
<1>3. \/ client' = [client EXCEPT !.result = "aborted"]
      \/ client' = [client EXCEPT !.result = "failed"]
  BY DEF UserActs, Abort, BeginWhileRunning
<1>4. /\ client' = [client EXCEPT !.tid = tid,
                                  !.result = result,
                                  !.retries = retries]
      /\ result \in {client.result, "failed", "aborted"}
      /\ result = "running" => retries <= MaxRetries
      /\ retries \in 0..MaxRetries + 1
      /\ tid \in Tids \cup {NoTid}
      /\ tid = client.tid \/ client.tid = NoTid
  BY <1>1, <1>3 DEF Client
<1>5. \E R \in SUBSET Message : Send(R) /\ \A x \in R : MessageInv(x)'
  <2>1. CASE client.tid = NoTid \/ BeginWhileRunning
    <3>1. Send({})
      BY <2>1 DEF UserActs, Abort, BeginWhileRunning, Send
    <3>2. QED
      BY <3>1
  <2>2. CASE client.tid # NoTid /\ Abort
    <3>1. Send({Msg("ERROR", "session", client.tid, 0)})
      BY <2>2 DEF Abort
    <3>2. client.tid \in Tids
      BY <1>1, <2>2 DEF Client
    <3>3. QED
      BY <3>1, <3>2, ErrorMessage
  <2>3. QED
    BY <2>1, <2>2 DEF UserActs
<1> HIDE DEF result, retries, tid
<1>6. PICK R \in SUBSET Message : Send(R) /\ \A x \in R : MessageInv(x)'
  BY <1>5
<1>7. NetTypeOK' /\ net' \subseteq net \cup R
  BY <1>1, <1>6, NetStep
<1>8. QED
  BY <1>2, <1>4, <1>6, <1>7, QuietClientStep

(* A rejected request gets an ERROR from the server's own port. *)
LEMMA ServerRejectsStep ==
    ASSUME IInv, ServerRejects
    PROVE  IInv'
<1> DEFINE R == {Msg("ERROR", "client", NoTid, 0)}
<1>1. PICK m \in net : RejectRequest(m)
  BY DEF ServerRejects
<1>2. /\ Deliver(m, R)
      /\ UNCHANGED <<sessions, receiveBuffer, file, creator, client, windowCache>>
  BY <1>1 DEF RejectRequest, ServerRejects, clientVars
<1>3. R \in SUBSET Message
  BY BlocksAssumption, SMT DEF Msg, Message, Ops, Payloads
<1>4. \A x \in R : MessageInv(x)'
  BY DEF Msg, MessageInv
<1>5. NetTypeOK
  BY DEF IInv, TypeOK
<1> HIDE DEF R
<1>6. NetTypeOK' /\ net' \subseteq net \cup R
  BY <1>2, <1>3, <1>5, NetStep
<1>7. QED
  BY <1>2, <1>4, <1>6, NetworkStep

(* Datagrams that only leave the network. *)
LEMMA TakenFromNetwork ==
    ASSUME IInv, NEW m, Deliver(m, {}) \/ Lose(m) \/ Discard(m) \/ Send({}),
           UNCHANGED <<sessions, receiveBuffer, file, creator, client, windowCache>>
    PROVE  IInv'
<1> DEFINE R == {}
<1>1. NetTypeOK
  BY DEF IInv, TypeOK
<1>2. NetTypeOK' /\ net' \subseteq net \cup R
  BY <1>1, NetStep
<1>3. \A x \in R : MessageInv(x)'
  OBVIOUS
<1> HIDE DEF R
<1>4. QED
  BY <1>2, <1>3, NetworkStep

(* Whatever a session receives, IInv is kept. *)
LEMMA SessionReceivesStep ==
    ASSUME IInv, NEW t \in Tids, SessionReceives(t)
    PROVE  IInv'
<1>1. UNCHANGED <<client, windowCache>>
  BY DEF SessionReceives, clientVars
<1>2. PICK m \in net :
        /\ Fresh(m)
        /\ \/ SessionReceivesData(m, t)
           \/ SessionReceivesUnexpectedData(m, t)
           \/ SessionReceivesError(m, t)
           \/ SessionIgnores(m, t)
  BY DEF SessionReceives
<1>3. CASE SessionReceivesData(m, t)
  BY <1>1, <1>2, <1>3, ReceivesDataStep
<1>4. CASE SessionReceivesUnexpectedData(m, t)
  BY <1>1, <1>2, <1>4, UnexpectedDataStep DEF SessionReceivesUnexpectedData
<1>5. CASE SessionReceivesError(m, t)
  BY <1>1, <1>2, <1>5, ErrorStep
<1>6. CASE SessionIgnores(m, t)
  <2>1. /\ Deliver(m, {})
        /\ UNCHANGED <<sessions, receiveBuffer, file, creator, client, windowCache>>
    BY <1>1, <1>6 DEF SessionIgnores
  <2>2. QED
    BY <2>1, TakenFromNetwork
<1>7. QED
  BY <1>2, <1>3, <1>4, <1>5, <1>6

(* However a write task ends, IInv is kept. *)
LEMMA SessionWritesStep ==
    ASSUME NothingUnnoticed, IInv, NEW t \in Tids, SessionWrites(t)
    PROVE  IInv'
<1>1. UNCHANGED <<client, windowCache>>
  BY DEF SessionWrites, clientVars
<1>2. CASE BlockWritten(t)
  BY <1>1, <1>2, BlockWrittenStep
<1>3. CASE BlockWriteFails(t) \/ BlockWriteIgnored(t)
  BY <1>1, <1>3, NotWrittenStep
<1>4. QED
  BY <1>2, <1>3 DEF SessionWrites

(* Losing a datagram, or leaving it unread, keeps IInv. *)
LEMMA NetworkMovesStep ==
    ASSUME IInv, NetworkLoses \/ NetworkDiscards
    PROVE  IInv'
<1>1. PICK m \in net : Lose(m) \/ Discard(m)
  BY DEF NetworkLoses, NetworkDiscards
<1>2. UNCHANGED <<sessions, receiveBuffer, file, creator, client, windowCache>>
  BY DEF NetworkLoses, NetworkDiscards, serverVars, clientVars
<1>3. QED
  BY <1>1, <1>2, TakenFromNetwork

(* Before the server takes the request nothing is kept, written or          *)
(* acknowledged.                                                            *)
LEMMA InitIInv == Init => IInv
<1> SUFFICES ASSUME Init PROVE IInv
  OBVIOUS
<1> USE DEF Init
<1>1. /\ net = {Wrq}
      /\ losses = 0
      /\ sessions = [t \in Tids |-> NewSession]
      /\ receiveBuffer = [t \in Tids |-> [b \in {} |-> 0]]
      /\ file = << >>
      /\ creator = NoTid
      /\ client = [result |-> "running", tid |-> NoTid, windowSize |-> 1,
                   lastAckedBlock |-> 0, nextBlockToSend |-> 1,
                   lastBlockSent |-> FALSE, position |-> 0, retries |-> 0]
      /\ windowCache = NoBlocks
  BY DEF NetInit, SessionsInit, ClientInit
<1>2. Wrq = Msg("WRQ", "server", NoTid, 0)
  BY DEF Wrq
<1>3. 0 \in Payloads /\ 0 \in Nat /\ 1 \in Nat /\ Window \in Nat /\ N \in Nat
      /\ 1 <= N /\ 1 <= N + 1 /\ 1 <= Window + 1 /\ 0 < N /\ 0 < 1
  BY BlocksAssumption, SMT DEF Payloads
<1>4. NetTypeOK
  <2>1. Wrq \in Message
    BY <1>2, <1>3, SMT DEF Msg, Message, Ops
  <2>2. QED
    BY <1>1, <2>1, NetworkAssumption, SMT DEF NetTypeOK
<1>5. SessionsTypeOK
  <2>1. NewSession \in Session
    BY <1>3, ZeroRetries DEF NewSession, Session
  <2>2. file \in Seq(Payloads)
    BY <1>1
  <2>3. QED
    BY <1>1, <2>1, <2>2 DEF SessionsTypeOK
<1>6. ClientTypeOK
  BY <1>1, <1>3, ZeroRetries DEF ClientTypeOK, Client, NoBlocks
<1>7. ASSUME NEW t \in Tids PROVE SessionInv(t)
  <2>1. sessions[t] = NewSession /\ DOMAIN receiveBuffer[t] = {}
    BY <1>1
  <2>2. /\ sessions[t].state = "unused"
        /\ sessions[t].currentBlock = 0
        /\ sessions[t].lastPacket = "ACK"
        /\ sessions[t].writing = 0
        /\ sessions[t].retries = 0
    BY <2>1 DEF NewSession
  <2>3. t # creator
    BY <1>1, NetworkAssumption
  <2>4. QED
    BY <1>3, <2>1, <2>2, <2>3, ZeroRetries DEF SessionInv
<1>8. FileInv
  BY <1>1 DEF FileInv
<1>9. \A m \in net : MessageInv(m)
  BY <1>1, <1>2 DEF MessageInv, Msg
<1>10. CacheInv
  <2>1. DOMAIN windowCache = {} /\ (0 + 1)..(1 - 1) = {} /\ 1 - 1 = 0
        /\ 0 + Window + 1 = Window + 1
    BY <1>1, <1>3, SMT DEF NoBlocks
  <2>2. UnackedBlocksAreKept
    BY <1>1, <1>3, <2>1 DEF UnackedBlocksAreKept
  <2>3. QED
    BY <1>1, <1>3, <2>1, <2>2 DEF CacheInv
<1>11. ClientInv
  BY <1>1, NetworkAssumption, ZeroRetries DEF ClientInv, Running
<1>12. QED
  BY <1>4, <1>5, <1>6, <1>7, <1>8, <1>9, <1>10, <1>11 DEF IInv, TypeOK

(* Every step keeps IInv. *)
LEMMA NextIInv == ASSUME IInv, NothingUnnoticed, [Next]_vars PROVE IInv'
<1>1. CASE \E t \in Tids : SessionStarts(t)
  BY <1>1, SessionStartsStep
<1>2. CASE \E t \in Tids : SessionReceives(t)
  BY <1>2, SessionReceivesStep
<1>3. CASE \E t \in Tids : SessionWrites(t)
  BY <1>3, SessionWritesStep
<1>4. CASE \E t \in Tids : SessionTimeout(t)
  BY <1>4, SessionTimeoutStep
<1>5. CASE ServerRejects
  BY <1>5, ServerRejectsStep
<1>6. CASE ClientReceives
  BY <1>6, ClientReceivesStep
<1>7. CASE ClientTimeout
  BY <1>7, ClientTimeoutStep
<1>8. CASE UserActs
  BY <1>8, UserActsStep
<1>9. CASE NetworkLoses \/ NetworkDiscards
  BY <1>9, NetworkMovesStep
<1>10. CASE UNCHANGED vars
  <2>1. /\ Send({})
        /\ UNCHANGED <<sessions, receiveBuffer, file, creator, client, windowCache>>
    BY <1>10 DEF vars, Send
  <2>2. QED
    BY <2>1, TakenFromNetwork
<1>11. QED
  BY <1>1, <1>2, <1>3, <1>4, <1>5, <1>6, <1>7, <1>8, <1>9, <1>10 DEF Next

-----------------------------------------------------------------------------
\* The theorems

(* IInv is an inductive invariant of the upload, if a source that is read   *)
(* only once is never asked to start again and the disks hide no error.     *)
THEOREM Inductive ==
    ASSUME NothingUnnoticed
    PROVE  Spec => []IInv
<1>1. Init => IInv
  BY InitIInv
<1>2. IInv /\ [Next]_vars => IInv'
  BY NextIInv
<1>3. QED
  BY <1>1, <1>2, PTL DEF Spec

(* All variables of both ends and the network keep to their types.          *)
THEOREM TypeCorrect ==
    ASSUME NothingUnnoticed
    PROVE  Spec => []TypeOK
<1>1. IInv => TypeOK
  BY DEF IInv
<1>2. QED
  BY <1>1, Inductive, PTL

(* An inductive invariant says how long the file is, and what is in it.     *)
LEMMA FileFacts ==
    ASSUME IInv
    PROVE  /\ Len(file) \in Nat
           /\ Len(file) <= N
           /\ \A i \in DOMAIN file : file[i] = Payload(i)
           /\ creator # NoTid => Len(file) = sessions[creator].currentBlock
           /\ \A t \in Tids : sessions[t].currentBlock <= Len(file)
<1>1. /\ FileInv
      /\ \A t \in Tids : SessionInv(t) /\ sessions[t].currentBlock \in Nat
      /\ creator \in Tids \cup {NoTid}
      /\ file \in Seq(Payloads)
  BY DEF IInv, TypeOK, SessionsTypeOK, Session
<1>2. Len(file) \in Nat
  BY <1>1
<1>3. \A t \in Tids : sessions[t].currentBlock <= N
  BY <1>1, BlocksAssumption, SMT DEF SessionInv
<1>4. CASE creator = NoTid
  <2>1. file = << >> /\ Len(file) = 0 /\ 0 <= N
    BY <1>1, <1>4, BlocksAssumption, SMT DEF FileInv
  <2>2. \A t \in Tids : sessions[t].currentBlock = 0
    BY <1>1, <1>4, NetworkAssumption DEF SessionInv
  <2>3. QED
    BY <1>4, <2>1, <2>2
<1>5. CASE creator # NoTid
  <2>1. /\ creator \in Tids
        /\ Len(file) = sessions[creator].currentBlock
        /\ \A i \in DOMAIN file : file[i] = Payload(i)
    BY <1>1, <1>5 DEF FileInv
  <2>2. ASSUME NEW t \in Tids PROVE sessions[t].currentBlock <= Len(file)
    <3>1. CASE t = creator
      BY <1>2, <2>1, <3>1, SMT
    <3>2. CASE t # creator
      <4>1. sessions[t].currentBlock = 0
        BY <1>1, <3>2 DEF SessionInv
      <4>2. QED
        BY <1>2, <4>1, SMT
    <3>3. QED
      BY <3>1, <3>2
  <2>3. QED
    BY <1>2, <1>3, <2>1, <2>2
<1>6. QED
  BY <1>4, <1>5

(* What the invariant says of the file. *)
LEMMA IInvPrefix == IInv => FileIsPrefix
BY FileFacts DEF FileIsPrefix

(* The file the server writes is always the beginning of the client's, each *)
(* block once and in order, however the 16-bit block numbers wrap, whatever *)
(* the network repeats, reorders or loses, and however often an OACK makes  *)
(* the client start again.                                                  *)
THEOREM WritesPrefix ==
    ASSUME NothingUnnoticed
    PROVE  Spec => []FileIsPrefix
BY IInvPrefix, Inductive, PTL

(* What the invariant says of a session's success. *)
LEMMA IInvWhole == IInv => SessionOkMeansWholeFile
<1>1. SUFFICES ASSUME IInv, NEW t \in Tids, sessions[t].state = "ok"
               PROVE  /\ creator = t
                      /\ Len(file) = N
                      /\ \A i \in DOMAIN file : file[i] = Payload(i)
  BY DEF SessionOkMeansWholeFile
<1>2. t = creator /\ sessions[t].currentBlock = N
  BY <1>1 DEF IInv, SessionInv
<1>3. creator # NoTid
  BY <1>2, NetworkAssumption
<1>4. QED
  BY <1>1, <1>2, <1>3, FileFacts

(* Only the session that created the file reports success, and only when    *)
(* the whole file is in it.                                                 *)
THEOREM SessionOkIsWhole ==
    ASSUME NothingUnnoticed
    PROVE  Spec => []SessionOkMeansWholeFile
BY IInvWhole, Inductive, PTL

(* What the invariant says of the client's success. *)
LEMMA IInvFollows == IInv => ClientOkMeansSessionOk
<1>1. SUFFICES ASSUME IInv, client.result = "ok"
               PROVE  client.tid \in Tids /\ sessions[client.tid].state = "ok"
  BY DEF ClientOkMeansSessionOk
<1>2. /\ ClientInv
      /\ CacheInv
      /\ client.tid \in Tids \cup {NoTid}
      /\ client.nextBlockToSend \in Nat
      /\ client.lastAckedBlock = N
  BY <1>1 DEF IInv, TypeOK, ClientTypeOK, Client, ClientInv
<1>3. client.tid \in Tids
  <2>1. client.nextBlockToSend # 1
    BY <1>2, BlocksAssumption, SMT DEF CacheInv
  <2>2. QED
    BY <1>2, <2>1 DEF ClientInv
<1>4. /\ SessionInv(client.tid)
      /\ sessions[client.tid].currentBlock \in Nat
  BY <1>1, <1>3 DEF IInv, TypeOK, SessionsTypeOK, Session
<1>5. N <= sessions[client.tid].currentBlock
  BY <1>2, <1>3 DEF ClientInv
<1>6. ~(sessions[client.tid].currentBlock < N)
  BY <1>4, <1>5, BlocksAssumption, SMT
<1>7. QED
  BY <1>3, <1>4, <1>6 DEF SessionInv

(* A client reports success only when its session already has: the ACK that *)
(* ends the client is sent when the last block is written.                  *)
THEOREM ClientOkFollowsSession ==
    ASSUME NothingUnnoticed
    PROVE  Spec => []ClientOkMeansSessionOk
BY IInvFollows, Inductive, PTL

(* What the invariant says of acknowledgements. *)
LEMMA IInvWritten == IInv => AckedBlocksAreWritten
<1>1. SUFFICES ASSUME IInv
               PROVE  /\ \A m \in net : m.op = "ACK" => m.blk <= Len(file)
                      /\ client.lastAckedBlock <= Len(file)
  BY DEF AckedBlocksAreWritten
<1>2. /\ Len(file) \in Nat
      /\ \A t \in Tids : sessions[t].currentBlock <= Len(file)
      /\ \A t \in Tids : sessions[t].currentBlock \in Nat
      /\ client.lastAckedBlock \in Nat
      /\ client.tid \in Tids \cup {NoTid}
      /\ \A m \in net : m.blk \in Nat
  BY <1>1, FileFacts DEF IInv, TypeOK, SessionsTypeOK, Session, ClientTypeOK,
                         Client, NetTypeOK, Message
<1>3. ASSUME NEW m \in net, m.op = "ACK" PROVE m.blk <= Len(file)
  <2>1. m.tid \in Tids /\ m.blk <= sessions[m.tid].currentBlock
    BY <1>1, <1>3 DEF IInv, MessageInv
  <2>2. QED
    BY <1>2, <2>1, SMT
<1>4. client.lastAckedBlock <= Len(file)
  <2>1. CASE client.tid = NoTid
    <3>1. client.lastAckedBlock < 1
      BY <1>1, <2>1 DEF IInv, ClientInv, CacheInv
    <3>2. QED
      BY <1>2, <3>1, SMT
  <2>2. CASE client.tid \in Tids
    <3>1. client.lastAckedBlock <= sessions[client.tid].currentBlock
      BY <1>1, <2>2 DEF IInv, ClientInv
    <3>2. QED
      BY <1>2, <2>2, <3>1, SMT
  <2>3. QED
    BY <1>2, <2>1, <2>2
<1>5. QED
  BY <1>3, <1>4

(* Nothing is acknowledged before it is in the file: not in the ACKs on     *)
(* their way, and not in what the client takes to be acknowledged.          *)
THEOREM WrittenBeforeAcked ==
    ASSUME NothingUnnoticed
    PROVE  Spec => []AckedBlocksAreWritten
BY IInvWritten, Inductive, PTL

(* What the invariant says of the client's cache. *)
LEMMA IInvKept == IInv => UnackedBlocksAreKept
BY DEF IInv, CacheInv

(* The blocks sent and not acknowledged are kept as they were sent, and     *)
(* there is no more than a window of them.                                  *)
THEOREM KeepsUnacked ==
    ASSUME NothingUnnoticed
    PROVE  Spec => []UnackedBlocksAreKept
BY IInvKept, Inductive, PTL

-----------------------------------------------------------------------------
\* Outcomes are final, nothing is overwritten, and an upload implements a
\* Transfer.

(* Whether session t is over. *)
Over(t) == sessions[t].state \in {"ok", "failed"}

(* What any step does to outcomes and the file: what is over stays so, the  *)
(* two ends do not change together, and only the active session that        *)
(* created the file writes, one block at a time.                            *)
StepKeepsOutcomes ==
    /\ ~Running => UNCHANGED client
    /\ UNCHANGED client \/ UNCHANGED <<sessions, file, creator>>
    /\ \A t \in Tids : Over(t) => sessions'[t].state = sessions[t].state
    /\ creator # NoTid => creator' = creator
    /\ \/ UNCHANGED file
       \/ /\ creator # NoTid
          /\ Active(creator)
          /\ \E p : file' = Append(file, p)

(* A step in which session t is started, ends or moves on. *)
LEMMA SessionKeepsOutcomes ==
    ASSUME SessionsTypeOK, NEW t \in Tids, NEW r,
           sessions' = [sessions EXCEPT ![t] = r],
           Over(t) => r.state = sessions[t].state,
           UNCHANGED client,
           creator # NoTid => creator' = creator,
           \/ UNCHANGED file
           \/ /\ creator # NoTid
              /\ Active(creator)
              /\ \E p : file' = Append(file, p)
    PROVE  StepKeepsOutcomes
<1>1. ASSUME NEW u \in Tids, Over(u)
      PROVE  sessions'[u].state = sessions[u].state
  <2>1. CASE u = t
    BY <1>1, <2>1 DEF SessionsTypeOK
  <2>2. CASE u # t
    BY <1>1, <2>2 DEF SessionsTypeOK
  <2>3. QED
    BY <2>1, <2>2
<1>2. QED
  BY <1>1 DEF StepKeepsOutcomes

(* A session that is over is not started, sent to or timed out: only its    *)
(* write task ends.                                                         *)
LEMMA SessionStepsKeepOutcomes ==
    ASSUME IInv, NothingUnnoticed, NEW t \in Tids,
           \/ SessionStarts(t)
           \/ SessionReceives(t)
           \/ SessionWrites(t)
           \/ SessionTimeout(t)
    PROVE  StepKeepsOutcomes
<1>1. /\ SessionsTypeOK
      /\ UNCHANGED client
      /\ sessions[t] \in Session
      /\ sessions[t].state = "active" => t = creator
      /\ t # NoTid
  BY NetworkAssumption
     DEF IInv, TypeOK, SessionsTypeOK, SessionInv, clientVars,
         SessionStarts, SessionReceives, SessionWrites, SessionTimeout
<1>2. CASE UNCHANGED <<sessions, file, creator>>
  BY <1>1, <1>2 DEF StepKeepsOutcomes
<1>3. CASE /\ ~Over(t)
           /\ \E r : sessions' = [sessions EXCEPT ![t] = r]
           /\ UNCHANGED file
           /\ creator # NoTid => creator' = creator
  BY <1>1, <1>3, SessionKeepsOutcomes
<1>4. CASE SessionStarts(t)
  <2>1. PICK m \in net : \/ StartSession(m, t)
                         \/ StartFailsToBind(m, t)
                         \/ StartFailsToOpen(m, t)
    BY <1>4 DEF SessionStarts
  <2>2. /\ \E r : sessions' = [sessions EXCEPT ![t] = r]
        /\ sessions[t].state = "unused"
        /\ UNCHANGED file
        /\ creator # NoTid => creator' = creator
    BY <2>1 DEF StartSession, StartFailsToBind, StartFailsToOpen, ServerTakesRequest
  <2>3. QED
    BY <1>3, <2>2 DEF Over
<1>5. CASE SessionReceives(t)
  <2>1. PICK m \in net : \/ SessionReceivesData(m, t)
                         \/ SessionReceivesUnexpectedData(m, t)
                         \/ SessionReceivesError(m, t)
                         \/ SessionIgnores(m, t)
    BY <1>5 DEF SessionReceives
  <2>2. sessions[t].state = "active" /\ UNCHANGED <<file, creator>>
    BY <2>1 DEF SessionReceivesData, SessionReceivesUnexpectedData,
                AnswersUnexpectedData, SessionReceivesError, SessionIgnores,
                SessionTakes, Active
  <2>3. UNCHANGED sessions \/ \E r : sessions' = [sessions EXCEPT ![t] = r]
    BY <2>1 DEF SessionReceivesData, SessionReceivesUnexpectedData,
                AnswersUnexpectedData, SessionReceivesError, SessionIgnores
  <2>4. QED
    BY <1>2, <1>3, <2>2, <2>3 DEF Over
<1>6. CASE SessionTimeout(t)
  <2>1. /\ sessions[t].state = "active"
        /\ UNCHANGED <<file, creator>>
        /\ \E r : sessions' = [sessions EXCEPT ![t] = r]
    BY <1>6 DEF SessionTimeout, SessionTimesOut, Active
  <2>2. QED
    BY <1>3, <2>1 DEF Over
<1>7. CASE BlockWritten(t)
  <2>1. /\ sessions[t].state = "active"
        /\ UNCHANGED creator
        /\ \E r : sessions' = [sessions EXCEPT ![t] = r]
        /\ file' = Append(file, sessions[t].payload)
    BY <1>1, <1>7 DEF BlockWritten, Active, NothingUnnoticed, Session
  <2>2. creator # NoTid /\ Active(creator) /\ \E p : file' = Append(file, p)
    BY <1>1, <2>1 DEF Active
  <2>3. QED
    BY <1>1, <2>1, <2>2, SessionKeepsOutcomes DEF Over
<1>8. CASE BlockWriteFails(t)
  <2>1. /\ sessions[t].state = "active"
        /\ UNCHANGED <<file, creator>>
        /\ \E r : sessions' = [sessions EXCEPT ![t] = r]
    BY <1>8 DEF BlockWriteFails, Active
  <2>2. QED
    BY <1>3, <2>1 DEF Over
<1>9. CASE BlockWriteIgnored(t)
  <2> DEFINE r == [sessions[t] EXCEPT !.writing = 0]
  <2>1. /\ sessions' = [sessions EXCEPT ![t] = r]
        /\ r.state = sessions[t].state
        /\ UNCHANGED <<file, creator>>
    BY <1>1, <1>9 DEF BlockWriteIgnored, Session
  <2> HIDE DEF r
  <2>2. QED
    BY <1>1, <2>1, SessionKeepsOutcomes
<1>10. QED
  BY <1>4, <1>5, <1>6, <1>7, <1>8, <1>9 DEF SessionWrites

(* The client acts only while it runs, and leaves the server's side alone.  *)
LEMMA ClientStepsKeepOutcomes ==
    ASSUME ClientReceives \/ ClientTimeout \/ UserActs
    PROVE  StepKeepsOutcomes
<1>1. UNCHANGED <<sessions, file, creator>>
  BY DEF ClientReceives, ClientTimeout, UserActs, serverVars
<1>2. Running
  BY DEF ClientReceives, ReceiveOack, ReceiveFirstAck, ReceiveAck,
         ReceiveUnexpectedAck, ReceiveError, ReceiveStray, FromPeer,
         ClientTimeout, ClientTimesOut, UserActs, Abort, BeginWhileRunning
<1>3. QED
  BY <1>1, <1>2 DEF StepKeepsOutcomes

(* The same of every step. *)
LEMMA NextKeepsOutcomes ==
    ASSUME IInv, NothingUnnoticed, [Next]_vars
    PROVE  StepKeepsOutcomes
<1>1. CASE \E t \in Tids : \/ SessionStarts(t)
                           \/ SessionReceives(t)
                           \/ SessionWrites(t)
                           \/ SessionTimeout(t)
  BY <1>1, SessionStepsKeepOutcomes
<1>2. CASE ClientReceives \/ ClientTimeout \/ UserActs
  BY <1>2, ClientStepsKeepOutcomes
<1>3. CASE ServerRejects \/ NetworkLoses \/ NetworkDiscards \/ UNCHANGED vars
  <2>1. UNCHANGED <<sessions, client, file, creator>>
    BY <1>3 DEF ServerRejects, RejectRequest, NetworkLoses, NetworkDiscards,
                serverVars, clientVars, vars
  <2>2. QED
    BY <2>1 DEF StepKeepsOutcomes
<1>4. QED
  BY <1>1, <1>2, <1>3 DEF Next

(* No step revives or reverses an upload that is over, at either end, and   *)
(* a write task that comes back late leaves the file alone.                 *)
THEOREM OutcomesStand ==
    ASSUME NothingUnnoticed
    PROVE  Spec => OutcomeIsFinal
<1>1. IInv /\ [Next]_vars =>
        [/\ client.result # "running" => UNCHANGED client
         /\ \A t \in Tids : sessions[t].state \in {"ok", "failed"} =>
              /\ sessions'[t].state = sessions[t].state
              /\ creator = t => UNCHANGED file]_vars
  <2>1. SUFFICES ASSUME IInv, [Next]_vars
                 PROVE  /\ client.result # "running" => UNCHANGED client
                        /\ \A t \in Tids : sessions[t].state \in {"ok", "failed"} =>
                              /\ sessions'[t].state = sessions[t].state
                              /\ creator = t => UNCHANGED file
    OBVIOUS
  <2>2. StepKeepsOutcomes
    BY <2>1, NextKeepsOutcomes
  <2>3. QED
    BY <2>2 DEF StepKeepsOutcomes, Over, Running, Active
<1>2. QED
  BY <1>1, Inductive, PTL DEF Spec, OutcomeIsFinal

(* The file is created once, and only grows.                                *)
THEOREM FileIsKept ==
    ASSUME NothingUnnoticed
    PROVE  Spec => NoOverwrite
<1>1. IInv /\ [Next]_vars =>
        [creator # NoTid => /\ creator' = creator
                            /\ Len(file) <= Len(file')]_vars
  <2>1. SUFFICES ASSUME IInv, [Next]_vars, creator # NoTid
                 PROVE  creator' = creator /\ Len(file) <= Len(file')
    OBVIOUS
  <2>2. StepKeepsOutcomes
    BY <2>1, NextKeepsOutcomes
  <2>3. Len(file) \in Nat /\ file \in Seq(Payloads)
    BY <2>1, FileFacts DEF IInv, TypeOK, SessionsTypeOK
  <2>4. CASE UNCHANGED file
    BY <2>1, <2>2, <2>3, <2>4, SMT DEF StepKeepsOutcomes
  <2>5. CASE \E p : file' = Append(file, p)
    <3>1. Len(file') = Len(file) + 1
      BY <2>3, <2>5
    <3>2. Len(file) <= Len(file')
      BY <2>3, <3>1, SMT
    <3>3. QED
      BY <2>1, <2>2, <3>2 DEF StepKeepsOutcomes
  <2>6. QED
    BY <2>2, <2>4, <2>5 DEF StepKeepsOutcomes
<1>2. QED
  BY <1>1, Inductive, PTL DEF Spec, NoOverwrite

-----------------------------------------------------------------------------
\* An upload implements a Transfer

(* The variables of the Transfer an upload implements: the operands of T.   *)
Receiver == IF creator = NoTid \/ Active(creator)
            THEN "busy" ELSE sessions[creator].state

Confirmed == client.result = "ok"

(* What the invariant says of the file and the session that created it.     *)
ReceiverFacts ==
    /\ Len(file) \in 0..N
    /\ file = [i \in 1..Len(file) |-> i]
    /\ Receiver = "ok" <=> Len(file) = N
    /\ Receiver = "busy" <=> creator = NoTid \/ Active(creator)
    /\ Receiver \in {"busy", "ok", "failed"}
    /\ Receiver # "busy" => creator \in Tids /\ Over(creator)

LEMMA IInvReceiver == IInv => ReceiverFacts
<1> SUFFICES ASSUME IInv PROVE ReceiverFacts
  OBVIOUS
<1>1. /\ Len(file) \in 0..N
      /\ \A i \in DOMAIN file : file[i] = Payload(i)
      /\ file \in Seq(Payloads)
      /\ creator \in Tids \cup {NoTid}
      /\ FileInv
  BY FileFacts, BlocksAssumption, SMT DEF IInv, TypeOK, SessionsTypeOK
<1>2. file = [i \in 1..Len(file) |-> i]
  <2>1. file = [i \in 1..Len(file) |-> file[i]] /\ DOMAIN file = 1..Len(file)
    BY <1>1
  <2>2. \A i \in 1..Len(file) : file[i] = i
    BY <1>1, <2>1, BlocksAssumption, SMT DEF Payload
  <2>3. QED
    BY <2>1, <2>2
<1>3. CASE creator = NoTid
  <2>1. Len(file) = 0 /\ 0 # N
    BY <1>1, <1>3, BlocksAssumption, SMT DEF FileInv
  <2>2. QED
    BY <1>1, <1>2, <1>3, <2>1 DEF ReceiverFacts, Receiver
<1>4. CASE creator # NoTid
  <2>1. creator \in Tids
    BY <1>1, <1>4
  <2>2. /\ sessions[creator].state \in {"active", "ok", "failed"}
        /\ sessions[creator].state = "ok" <=> sessions[creator].currentBlock = N
    <3>1. /\ sessions[creator] \in Session
          /\ SessionInv(creator)
      BY <2>1 DEF IInv, TypeOK, SessionsTypeOK
    <3>2. ~(N < N)
      BY BlocksAssumption, SMT
    <3>3. QED
      BY <3>1, <3>2 DEF Session, SessionInv
  <2>3. Len(file) = sessions[creator].currentBlock
    BY <1>1, <1>4 DEF FileInv
  <2>4. QED
    BY <1>1, <1>2, <1>4, <2>1, <2>2, <2>3 DEF ReceiverFacts, Receiver, Active, Over
<1>5. QED
  BY <1>3, <1>4

(* A step of the server's side writes or gives up.                          *)
LEMMA ServerWrites ==
    ASSUME ReceiverFacts, ReceiverFacts', StepKeepsOutcomes, UNCHANGED client,
           Len(file) <= Len(file')
    PROVE  T!Write \/ T!GiveUp \/ UNCHANGED T!vars
<1>1. Confirmed' = Confirmed
  BY DEF Confirmed
<1>2. CASE Receiver # "busy"
  <2>1. creator \in Tids /\ Over(creator) /\ creator # NoTid
    BY <1>2, NetworkAssumption DEF ReceiverFacts
  <2>2. creator' = creator /\ sessions'[creator].state = sessions[creator].state
    BY <2>1 DEF StepKeepsOutcomes
  <2>3. file' = file
    BY <2>1 DEF StepKeepsOutcomes, Over, Active
  <2>4. Receiver' = Receiver
    BY <2>1, <2>2, NetworkAssumption DEF Receiver, Active
  <2>5. QED
    BY <1>1, <2>3, <2>4 DEF T!vars, Receiver, Confirmed
<1>3. CASE Receiver = "busy"
  <2> DEFINE n == Len(file')
  <2>1. /\ n \in 0..N
        /\ file' = [i \in 1..n |-> i]
        /\ Receiver' = "ok" <=> n = N
        /\ Receiver' \in {"busy", "ok", "failed"}
    BY DEF ReceiverFacts
  <2>2. Len(file) \in 0..N
    BY DEF ReceiverFacts
  <2>3. Len(file) <= n
    OBVIOUS
  <2> HIDE DEF n
  <2>4. n \in Len(file)..N
    BY <2>1, <2>2, <2>3, BlocksAssumption, SMT
  <2>5. n # N => n \in Len(file)..(N - 1)
    BY <2>4, BlocksAssumption, SMT
  <2>6. CASE Receiver' = "failed"
    <3>1. n \in Len(file)..(N - 1)
      BY <2>1, <2>5, <2>6
    <3>2. T!GiveUp
      BY <1>1, <1>3, <2>1, <2>6, <3>1 DEF T!GiveUp, T!FirstBlocks, Receiver, Confirmed
    <3>3. QED
      BY <3>2
  <2>7. CASE Receiver' # "failed"
    <3>1. Receiver' = IF n = N THEN "ok" ELSE "busy"
      BY <2>1, <2>7
    <3>2. T!Write
      BY <1>1, <1>3, <2>1, <2>4, <3>1 DEF T!Write, T!FirstBlocks, Receiver, Confirmed
    <3>3. QED
      BY <3>2
  <2>8. QED
    BY <2>6, <2>7
<1>4. QED
  BY <1>2, <1>3

(* A step of the client confirms, or is not seen.                           *)
LEMMA ClientConfirms ==
    ASSUME IInv', StepKeepsOutcomes, UNCHANGED <<sessions, file, creator>>,
           ClientOkMeansSessionOk'
    PROVE  T!Confirm \/ UNCHANGED T!vars
<1>1. Receiver' = Receiver /\ file' = file
  BY DEF Receiver, Active
<1>2. Confirmed => Confirmed'
  BY DEF Confirmed, StepKeepsOutcomes, Running
<1>3. Confirmed \in BOOLEAN /\ Confirmed' \in BOOLEAN
  BY DEF Confirmed
<1>4. CASE Confirmed' = Confirmed
  BY <1>1, <1>4 DEF T!vars, Receiver, Confirmed
<1>5. CASE Confirmed' # Confirmed
  <2>1. Confirmed' = TRUE /\ client'.result = "ok"
    BY <1>2, <1>3, <1>5 DEF Confirmed
  <2>2. client'.tid \in Tids /\ sessions[client'.tid].state = "ok"
    BY <2>1 DEF ClientOkMeansSessionOk
  <2>3. client'.tid = creator
    BY <2>2 DEF IInv, SessionInv
  <2>4. Receiver = "ok"
    BY <2>2, <2>3, NetworkAssumption DEF Receiver, Active
  <2>5. QED
    BY <1>1, <2>1, <2>4 DEF T!Confirm, Receiver, Confirmed
<1>6. QED
  BY <1>4, <1>5

(* What its two ends promise, an upload keeps: the refinement that the runs *)
(* check on small instances.                                                *)
THEOREM UploadImplementsTransfer ==
    ASSUME NothingUnnoticed
    PROVE  Spec => ImplementsTransfer
<1>1. Init => T!Init
  <2>1. SUFFICES ASSUME Init PROVE T!Init
    OBVIOUS
  <2>2. client.result = "running" /\ file = << >> /\ creator = NoTid
    BY <2>1 DEF Init, ClientInit, SessionsInit
  <2>3. Receiver = "busy" /\ Confirmed = FALSE
    BY <2>2 DEF Receiver, Confirmed
  <2>4. QED
    BY <2>2, <2>3 DEF T!Init, Receiver, Confirmed
<1>2. /\ IInv /\ IInv' /\ ClientOkMeansSessionOk'
      /\ [creator # NoTid => /\ creator' = creator
                             /\ Len(file) <= Len(file')]_vars
      /\ [Next]_vars
      => [T!Next]_T!vars
  <2>1. SUFFICES ASSUME IInv, IInv', ClientOkMeansSessionOk', [Next]_vars,
                        [creator # NoTid => /\ creator' = creator
                                            /\ Len(file) <= Len(file')]_vars
                 PROVE  T!Next \/ UNCHANGED T!vars
    BY DEF T!vars
  <2>2. StepKeepsOutcomes
    BY <2>1, NextKeepsOutcomes
  <2>3. ReceiverFacts
    BY <2>1, IInvReceiver
  <2>4. ReceiverFacts'
    <3>1. IInv' => ReceiverFacts'
      BY IInvReceiver, PTL
    <3>2. QED
      BY <2>1, <3>1
  <2>5. CASE UNCHANGED client
    <3>1. Len(file) <= Len(file')
      <4>1. CASE UNCHANGED file
        <5>1. Len(file) \in 0..N /\ Len(file') = Len(file)
          BY <2>3, <4>1 DEF ReceiverFacts
        <5>2. QED
          BY <5>1, BlocksAssumption, SMT
      <4>2. CASE creator # NoTid /\ ~UNCHANGED file
        BY <2>1, <4>2 DEF vars
      <4>3. QED
        BY <2>2, <4>1, <4>2 DEF StepKeepsOutcomes
    <3>2. QED
      BY <2>2, <2>3, <2>4, <2>5, <3>1, ServerWrites DEF T!Next
  <2>6. CASE UNCHANGED <<sessions, file, creator>>
    BY <2>1, <2>2, <2>6, ClientConfirms DEF T!Next
  <2>7. QED
    BY <2>2, <2>5, <2>6 DEF StepKeepsOutcomes
<1>3. QED
  BY <1>1, <1>2, Inductive, ClientOkFollowsSession, FileIsKept, PTL
     DEF Spec, ImplementsTransfer, T!Spec, NoOverwrite
=============================================================================
