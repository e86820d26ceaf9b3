----------------------- MODULE ThrottledUpload_proofs -----------------------
(***************************************************************************)
(* A speed limit delays and withholds packets of an upload, and does       *)
(* nothing else to it: what Upload guarantees it still guarantees. The     *)
(* limit itself never leaves a session without a timer, and only its last  *)
(* packet waits.                                                           *)
(***************************************************************************)
EXTENDS ThrottledUpload, Upload_proofs, FiniteSetTheorems

\* What makes the properties of the limit inductive: besides them, that only
\* packets for the client are withheld.
LimitInv ==
    /\ timer \in [Tids -> BOOLEAN]
    /\ held \in [Tids -> SUBSET Message]
    /\ \A t \in Tids : \A p, q \in held[t] : p = q
    /\ deaf \in [Tids -> BOOLEAN]
    /\ withheld \subseteq net
    /\ \A m \in withheld : m.to = "client"
    /\ AlwaysTimed
    /\ LastPacketGoesOut

-----------------------------------------------------------------------------
\* What the limit does by itself

(* The last packet of a session goes to the client, from its own port.      *)
LEMMA LastPacketType ==
    ASSUME NEW t \in Tids, NEW s \in Session
    PROVE  /\ LastPacket(t, s) \in Message
           /\ LastPacket(t, s).to = "client"
           /\ LastPacket(t, s).tid = t
<1>1. s.currentBlock \in Nat /\ 0 \in Nat /\ 0 \in Payloads
  BY PayloadType DEF Session
<1>2. QED
  BY <1>1 DEF LastPacket, Oack, Ack, Msg, Message, Ops

(* Only what has been handed to sendPacketDeferred() comes to wait.         *)
HeldIsSent ==
    \A u \in Tids : held'[u] \subseteq held[u] \cup {m \in net' : m.to = "client"}

(* What is withheld is not what a session or the server reads.              *)
LEMMA WithheldStays ==
    ASSUME LimitInv, NEW R,
           \/ \E m : m.to # "client" /\ Deliver(m, R)
           \/ \E m \in net \ withheld : Deliver(m, R) \/ Lose(m)
           \/ Send(R)
           \/ UNCHANGED net
    PROVE  withheld \subseteq net'
BY DEF LimitInv, Deliver, Send, Lose

(* Whatever the client makes of a datagram, it has taken it.                *)
LEMMA ClientDelivers ==
    ASSUME NEW m,
           \/ ReceiveOack(m)
           \/ ReceiveFirstAck(m)
           \/ ReceiveAck(m)
           \/ ReceiveUnexpectedAck(m)
           \/ ReceiveError(m)
           \/ ReceiveStray(m)
    PROVE  \E R : Deliver(m, R)
<1>1. ASSUME NEW c, NEW cache, FillWindow(m, c, cache) PROVE \E R : Deliver(m, R)
  BY <1>1 DEF FillWindow
<1>2. CASE ReceiveOack(m) \/ ReceiveFirstAck(m)
  BY <1>1, <1>2 DEF ReceiveOack, ReceiveFirstAck
<1>3. CASE ReceiveAck(m)
  BY <1>1, <1>3 DEF ReceiveAck
<1>4. CASE ReceiveUnexpectedAck(m) \/ ReceiveError(m)
  BY <1>4 DEF ReceiveUnexpectedAck, ReceiveError
<1>5. CASE ReceiveStray(m)
  BY <1>5 DEF ReceiveStray
<1>6. QED
  BY <1>2, <1>3, <1>4, <1>5

(* A step that leaves the last packets of active sessions alone, and the    *)
(* limit too.                                                               *)
LEMMA LimitQuiet ==
    ASSUME LimitInv, UNCHANGED limitVars, withheld \subseteq net',
           \A u \in Tids : Active(u)' =>
                Active(u) /\ LastPacket(u, sessions'[u]) = LastPacket(u, sessions[u])
    PROVE  LimitInv' /\ HeldIsSent
<1>1. UNCHANGED <<timer, held, deaf, withheld>>
  BY DEF limitVars
<1>2. AlwaysTimed'
  BY <1>1 DEF LimitInv, AlwaysTimed, IsSending
<1>3. LastPacketGoesOut'
  BY <1>1 DEF LimitInv, LastPacketGoesOut
<1>4. HeldIsSent
  BY <1>1 DEF HeldIsSent
<1>5. QED
  BY <1>1, <1>2, <1>3, <1>4 DEF LimitInv

(* A session that is over has stopped its timers.                           *)
LEMMA LimitStops ==
    ASSUME LimitInv, NEW t \in Tids, StopTimers(t), ~Active(t)',
           withheld \subseteq net',
           \A u \in Tids \ {t} : sessions'[u] = sessions[u]
    PROVE  LimitInv' /\ HeldIsSent
<1>1. /\ timer' = [timer EXCEPT ![t] = FALSE]
      /\ held' = [held EXCEPT ![t] = {}]
      /\ UNCHANGED <<deaf, withheld>>
  BY DEF StopTimers
<1>2. /\ timer' \in [Tids -> BOOLEAN]
      /\ held' \in [Tids -> SUBSET Message]
      /\ \A u \in Tids : \A p, q \in held'[u] : p = q
      /\ \A u \in Tids \ {t} : timer'[u] = timer[u] /\ held'[u] = held[u]
  BY <1>1 DEF LimitInv
<1>3. AlwaysTimed'
  BY <1>2 DEF LimitInv, AlwaysTimed, IsSending, Active
<1>4. LastPacketGoesOut'
  BY <1>1, <1>2 DEF LimitInv, LastPacketGoesOut, Active
<1>5. HeldIsSent
  BY <1>1, <1>2 DEF LimitInv, HeldIsSent
<1>6. QED
  BY <1>1, <1>2, <1>3, <1>4, <1>5 DEF LimitInv

(* A session sends its last packet, now or later.                           *)
LEMMA LimitSends ==
    ASSUME LimitInv, NEW t \in Tids, SendDeferred(t),
           sessions \in [Tids -> Session], sessions' \in [Tids -> Session],
           LastPacket(t, sessions'[t]) \in net',
           withheld \subseteq net',
           \A u \in Tids \ {t} : sessions'[u] = sessions[u]
    PROVE  LimitInv' /\ HeldIsSent
<1> DEFINE packet == LastPacket(t, sessions'[t])
           now    == Active(t)'
<1>1. /\ packet \in Message
      /\ packet.to = "client"
      /\ packet.tid = t
  BY LastPacketType
<1>2. now \in BOOLEAN
  BY DEF Active
<1>3. ASSUME NEW u \in Tids \ {t} PROVE LastPacket(u, sessions'[u]) # packet
  <2>1. LastPacket(u, sessions'[u]).tid = u
    BY LastPacketType
  <2>2. QED
    BY <1>1, <2>1
<1>4. SendNow(t, packet) \/ SendLater(t, packet)
  BY DEF SendDeferred
<1>5. deaf' = deaf
  BY DEF SendDeferred
<1>6. packet \in net'
  OBVIOUS
<1>7. now = Active(t)'
  OBVIOUS
<1>8. LastPacket(t, sessions'[t]) = packet
  OBVIOUS
<1> HIDE DEF packet, now
<1>9. CASE SendNow(t, packet)
  <2>1. /\ timer' = [timer EXCEPT ![t] = now]
        /\ held' = [held EXCEPT ![t] = IF now THEN @ ELSE {}]
        /\ withheld' = withheld \ {packet}
    BY <1>7, <1>9 DEF SendNow
  <2>2. /\ timer' \in [Tids -> BOOLEAN]
        /\ held' \in [Tids -> SUBSET Message]
        /\ timer'[t] = now
        /\ held'[t] \subseteq held[t]
        /\ \A u \in Tids \ {t} : timer'[u] = timer[u] /\ held'[u] = held[u]
    BY <1>2, <2>1 DEF LimitInv
  <2>3. \A u \in Tids : \A p, q \in held'[u] : p = q
    BY <2>2 DEF LimitInv
  <2>4. withheld' \subseteq net' /\ \A m \in withheld' : m.to = "client"
    BY <2>1 DEF LimitInv
  <2>5. AlwaysTimed'
    BY <1>7, <2>2 DEF LimitInv, AlwaysTimed, IsSending, Active
  <2>6. LastPacketGoesOut'
    <3>1. SUFFICES ASSUME NEW u \in Tids, Active(u)',
                          LastPacket(u, sessions'[u]) \in withheld'
                   PROVE  held'[u] = {LastPacket(u, sessions'[u])}
      BY DEF LastPacketGoesOut
    <3>2. u # t
      BY <1>8, <2>1, <3>1
    <3>3. QED
      BY <2>1, <2>2, <3>1, <3>2 DEF LimitInv, LastPacketGoesOut, Active
  <2>7. HeldIsSent
    BY <2>2 DEF HeldIsSent
  <2>8. QED
    BY <1>5, <2>2, <2>3, <2>4, <2>5, <2>6, <2>7 DEF LimitInv
<1>10. CASE SendLater(t, packet)
  <2>1. /\ timer' = [timer EXCEPT ![t] = FALSE]
        /\ held' = [held EXCEPT ![t] = IF now THEN {packet} ELSE {}]
        /\ withheld' = withheld \cup ({packet} \ net)
    BY <1>7, <1>10 DEF SendLater
  <2>2. /\ timer' \in [Tids -> BOOLEAN]
        /\ held' \in [Tids -> SUBSET Message]
        /\ held'[t] = IF now THEN {packet} ELSE {}
        /\ \A u \in Tids \ {t} : timer'[u] = timer[u] /\ held'[u] = held[u]
    BY <1>1, <2>1 DEF LimitInv
  <2>3. \A u \in Tids : \A p, q \in held'[u] : p = q
    BY <2>2 DEF LimitInv
  <2>4. withheld' \subseteq net' /\ \A m \in withheld' : m.to = "client"
    BY <1>1, <1>6, <2>1 DEF LimitInv
  <2>5. AlwaysTimed'
    BY <1>7, <2>2 DEF LimitInv, AlwaysTimed, IsSending, Active
  <2>6. LastPacketGoesOut'
    <3>1. SUFFICES ASSUME NEW u \in Tids, Active(u)',
                          LastPacket(u, sessions'[u]) \in withheld'
                   PROVE  held'[u] = {LastPacket(u, sessions'[u])}
      BY DEF LastPacketGoesOut
    <3>2. CASE u = t
      BY <1>7, <1>8, <2>2, <3>1, <3>2
    <3>3. CASE u # t
      <4>1. LastPacket(u, sessions'[u]) \in withheld
        BY <1>3, <2>1, <3>1, <3>3
      <4>2. QED
        BY <2>2, <3>1, <3>3, <4>1 DEF LimitInv, LastPacketGoesOut, Active
    <3>4. QED
      BY <3>2, <3>3
  <2>7. HeldIsSent
    BY <1>1, <1>6, <2>2 DEF HeldIsSent
  <2>8. QED
    BY <1>5, <2>2, <2>3, <2>4, <2>5, <2>6, <2>7 DEF LimitInv
<1>11. QED
  BY <1>4, <1>9, <1>10

-----------------------------------------------------------------------------
\* The steps of the limit

(* The members of sessions have their types before and after a step.        *)
SessionsTyped ==
    sessions \in [Tids -> Session] /\ sessions' \in [Tids -> Session]

(* A session starts, or cannot.                                             *)
LEMMA LimitStarts ==
    ASSUME LimitInv, SessionsTyped, NEW t \in Tids, ThrottledStarts(t)
    PROVE  LimitInv' /\ HeldIsSent
<1> USE DEF SessionsTyped
<1>1. PICK m \in net : \/ StartSession(m, t)
                      \/ StartFailsToBind(m, t)
                      \/ StartFailsToOpen(m, t)
  BY DEF ThrottledStarts, SessionStarts
<1>2. m.to = "server"
  BY <1>1 DEF StartSession, StartFailsToBind, StartFailsToOpen, ServerTakesRequest
<1>3. CASE StartSession(m, t)
  <2> DEFINE s == [sessions[t] EXCEPT
                    !.state = "active",
                    !.lastPacket = IF Options THEN "OACK" ELSE "ACK"]
  <2>1. sessions' = [sessions EXCEPT ![t] = s] /\ Deliver(m, {LastPacket(t, s)})
    BY <1>3 DEF StartSession
  <2>2. s.state = "active"
    BY DEF Session
  <2> HIDE DEF s
  <2>3. sessions'[t] = s /\ \A u \in Tids \ {t} : sessions'[u] = sessions[u]
    BY <2>1
  <2>4. Active(t)'
    BY <2>2, <2>3 DEF Active
  <2>5. SendDeferred(t)
    BY <2>4 DEF ThrottledStarts
  <2>6. withheld \subseteq net'
    BY <1>2, <2>1, WithheldStays
  <2>7. LastPacket(t, sessions'[t]) \in net'
    BY <2>1, <2>3 DEF Deliver
  <2>8. QED
    BY <2>3, <2>5, <2>6, <2>7, LimitSends
<1>4. CASE StartFailsToBind(m, t) \/ StartFailsToOpen(m, t)
  <2>1. /\ sessions' = [sessions EXCEPT ![t] = Finish(sessions[t], "failed")]
        /\ sessions[t].state = "unused"
        /\ \E R : Deliver(m, R)
    BY <1>4 DEF StartFailsToBind, StartFailsToOpen, ServerTakesRequest
  <2>2. sessions'[t].state = "failed"
    BY <2>1 DEF Finish, Session
  <2>3. \A u \in Tids \ {t} : sessions'[u] = sessions[u]
    BY <2>1
  <2>4. UNCHANGED limitVars
    BY <2>2 DEF ThrottledStarts, Active
  <2>5. withheld \subseteq net'
    BY <1>2, <2>1, WithheldStays
  <2>6. QED
    BY <2>2, <2>3, <2>4, <2>5, LimitQuiet DEF Active
<1>5. QED
  BY <1>1, <1>3, <1>4

(* What TakeNext() changes is not in a packet.                              *)
LEMMA TakeNextKeepsPacket ==
    ASSUME NEW t, NEW s \in Session, NEW buffer
    PROVE  /\ TakeNext(s, buffer).state = s.state
           /\ LastPacket(t, TakeNext(s, buffer)) = LastPacket(t, s)
BY DEF TakeNext, LastPacket, Session

(* A session reads a datagram.                                              *)
LEMMA LimitReceives ==
    ASSUME LimitInv, SessionsTyped, NEW t \in Tids, ThrottledReceives(t)
    PROVE  LimitInv' /\ HeldIsSent
<1> USE DEF SessionsTyped
<1>1. PICK m \in net :
        \/ /\ SessionReceivesData(m, t) \/ SessionIgnores(m, t)
           /\ UNCHANGED limitVars
        \/ SessionReceivesUnexpectedData(m, t) /\ SendDeferred(t)
        \/ AnswersLater(m, t)
        \/ SessionReceivesError(m, t) /\ StopTimers(t)
  BY DEF ThrottledReceives, SendDeferred
<1>2. m.to # "client" /\ Active(t)
  BY <1>1 DEF SessionReceivesData, SessionIgnores, SessionReceivesUnexpectedData,
              AnswersLater, AnswersUnexpectedData, SessionReceivesError, SessionTakes
<1>3. withheld \subseteq net'
  <2>1. CASE AnswersLater(m, t)
    BY <1>2, <2>1 DEF AnswersLater, LimitInv
  <2>2. CASE ~AnswersLater(m, t)
    <3>1. \E R : Deliver(m, R)
      BY <1>1, <2>2 DEF SessionReceivesData, SessionIgnores,
                        SessionReceivesUnexpectedData, SessionReceivesError
    <3>2. QED
      BY <1>2, <3>1, WithheldStays
  <2>3. QED
    BY <2>1, <2>2
<1>4. CASE SessionReceivesData(m, t) /\ UNCHANGED limitVars
  <2>1. PICK buffer : sessions' = [sessions EXCEPT ![t] = TakeNext(sessions[t], buffer)]
    BY <1>4 DEF SessionReceivesData
  <2>2. /\ sessions'[t] = TakeNext(sessions[t], buffer)
        /\ \A u \in Tids \ {t} : sessions'[u] = sessions[u]
    BY <2>1
  <2>3. LastPacket(t, sessions'[t]) = LastPacket(t, sessions[t])
    BY <2>2, TakeNextKeepsPacket
  <2>4. QED
    BY <1>2, <1>3, <1>4, <2>2, <2>3, LimitQuiet DEF Active
<1>5. CASE SessionIgnores(m, t) /\ UNCHANGED limitVars
  <2>1. sessions' = sessions
    BY <1>5 DEF SessionIgnores
  <2>2. QED
    BY <1>3, <1>5, <2>1, LimitQuiet DEF Active
<1>6. CASE (SessionReceivesUnexpectedData(m, t) /\ SendDeferred(t)) \/ AnswersLater(m, t)
  <2>1. /\ sessions' = [sessions EXCEPT ![t].lastPacket = "ACK"]
        /\ Ack("client", t, sessions[t].currentBlock) \in net'
        /\ SendDeferred(t)
    BY <1>6 DEF SessionReceivesUnexpectedData, AnswersLater, AnswersUnexpectedData,
                Deliver, SendDeferred
  <2>2. /\ sessions'[t] = [sessions[t] EXCEPT !.lastPacket = "ACK"]
        /\ \A u \in Tids \ {t} : sessions'[u] = sessions[u]
    BY <2>1
  <2>3. LastPacket(t, sessions'[t]) = Ack("client", t, sessions[t].currentBlock)
    BY <2>2 DEF LastPacket, Session
  <2>4. LastPacket(t, sessions'[t]) \in net'
    BY <2>1, <2>3
  <2>5. QED
    BY <1>3, <2>1, <2>2, <2>4, LimitSends
<1>7. CASE SessionReceivesError(m, t) /\ StopTimers(t)
  <2>1. sessions' = [sessions EXCEPT ![t] = Finish(sessions[t], "failed")]
    BY <1>7 DEF SessionReceivesError
  <2>2. ~Active(t)' /\ \A u \in Tids \ {t} : sessions'[u] = sessions[u]
    BY <2>1 DEF Active, Finish, Session
  <2>3. QED
    BY <1>3, <1>7, <2>2, LimitStops
<1>8. QED
  BY <1>1, <1>4, <1>5, <1>6, <1>7

(* A write task comes back.                                                 *)
LEMMA LimitWrites ==
    ASSUME LimitInv, SessionsTyped, NEW t \in Tids, ThrottledWrites(t)
    PROVE  LimitInv' /\ HeldIsSent
<1> USE DEF SessionsTyped
<1>1. CASE BlockWritten(t) /\ SendDeferred(t)
  <2> DEFINE s == [sessions[t] EXCEPT !.currentBlock = sessions[t].writing,
                                      !.writing = 0,
                                      !.retries = 0,
                                      !.lastPacket = "ACK"]
             packet == Ack("client", t, s.currentBlock)
  <2>1. /\ sessions' = [sessions EXCEPT ![t] =
              IF EndsFile(s.payload) THEN Finish(s, "ok")
                                     ELSE TakeNext(s, receiveBuffer[t])]
        /\ Send({packet})
    BY <1>1 DEF BlockWritten
  <2>2. s \in Session /\ s.lastPacket = "ACK"
    BY ZeroRetries DEF Session
  <2>3. LastPacket(t, s) = packet
    BY <2>2 DEF LastPacket
  <2> HIDE DEF s, packet
  <2>4. \A u \in Tids \ {t} : sessions'[u] = sessions[u]
    BY <2>1
  <2>5. LastPacket(t, sessions'[t]) = packet
    <3>1. CASE EndsFile(s.payload)
      <4>1. sessions'[t] = Finish(s, "ok")
        BY <2>1, <3>1
      <4>2. QED
        BY <2>2, <2>3, <4>1 DEF Finish, LastPacket, Session
    <3>2. CASE ~EndsFile(s.payload)
      <4>1. sessions'[t] = TakeNext(s, receiveBuffer[t])
        BY <2>1, <3>2
      <4>2. QED
        BY <2>2, <2>3, <4>1, TakeNextKeepsPacket
    <3>3. QED
      BY <3>1, <3>2
  <2>6. LastPacket(t, sessions'[t]) \in net' /\ withheld \subseteq net'
    BY <2>1, <2>5, WithheldStays DEF Send
  <2>7. QED
    BY <1>1, <2>4, <2>6, LimitSends
<1>2. CASE BlockWriteFails(t) /\ StopTimers(t)
  <2>1. /\ Active(t)
        /\ sessions' = [sessions EXCEPT ![t] =
                Finish([sessions[t] EXCEPT !.writing = 0], "failed")]
        /\ Send({Msg("ERROR", "client", t, 0)})
    BY <1>2 DEF BlockWriteFails
  <2>2. ~Active(t)' /\ \A u \in Tids \ {t} : sessions'[u] = sessions[u]
    BY <2>1 DEF Active, Finish, Session
  <2>3. withheld \subseteq net'
    BY <2>1, WithheldStays
  <2>4. QED
    BY <1>2, <2>2, <2>3, LimitStops
<1>3. CASE BlockWriteIgnored(t) /\ UNCHANGED limitVars
  <2>1. /\ ~Active(t)
        /\ sessions' = [sessions EXCEPT ![t].writing = 0]
        /\ UNCHANGED net
    BY <1>3 DEF BlockWriteIgnored
  <2>2. ~Active(t)' /\ \A u \in Tids \ {t} : sessions'[u] = sessions[u]
    BY <2>1 DEF Active, Session
  <2>3. withheld \subseteq net'
    BY <2>1, WithheldStays
  <2>4. QED
    BY <1>3, <2>2, <2>3, LimitQuiet DEF Active
<1>4. QED
  BY <1>1, <1>2, <1>3 DEF ThrottledWrites

(* A session's timer fires.                                                 *)
LEMMA LimitTimesOut ==
    ASSUME LimitInv, SessionsTyped, NEW t \in Tids, ThrottledTimeout(t)
    PROVE  LimitInv' /\ HeldIsSent
<1> USE DEF SessionsTyped
<1> DEFINE s == [sessions[t] EXCEPT !.retries = sessions[t].retries + 1]
<1>1. /\ Active(t)
      /\ IF s.retries > MaxRetries
         THEN /\ sessions' = [sessions EXCEPT ![t] = Finish(s, "failed")]
              /\ UNCHANGED net
         ELSE /\ sessions' = [sessions EXCEPT ![t] = s]
              /\ Send({LastPacket(t, s)})
      /\ IF Active(t)' THEN SendDeferred(t) ELSE StopTimers(t)
  BY DEF ThrottledTimeout, SessionTimeout, SessionTimesOut
<1>2. s.state = "active"
  BY <1>1 DEF Active, Session
<1>3. Finish(s, "failed").state = "failed"
  BY <1>2 DEF Finish, Session
<1> HIDE DEF s
<1>4. \A u \in Tids \ {t} : sessions'[u] = sessions[u]
  BY <1>1
<1>5. withheld \subseteq net'
  BY <1>1, WithheldStays
<1>6. CASE s.retries > MaxRetries
  <2>1. sessions'[t] = Finish(s, "failed")
    BY <1>1, <1>6
  <2>2. ~Active(t)'
    BY <1>3, <2>1 DEF Active
  <2>3. QED
    BY <1>1, <1>4, <1>5, <2>2, LimitStops
<1>7. CASE ~(s.retries > MaxRetries)
  <2>1. sessions'[t] = s /\ Send({LastPacket(t, s)})
    BY <1>1, <1>7
  <2>2. Active(t)' /\ LastPacket(t, sessions'[t]) \in net'
    BY <1>2, <2>1 DEF Active, Send
  <2>3. QED
    BY <1>1, <1>4, <1>5, <2>2, LimitSends
<1>8. QED
  BY <1>6, <1>7

(* The packet that has waited is sent.                                      *)
LEMMA LimitSendTimeout ==
    ASSUME LimitInv, NEW t \in Tids, SendTimeout(t)
    PROVE  LimitInv' /\ HeldIsSent
<1>1. /\ held' = [held EXCEPT ![t] = {}]
      /\ timer' = [timer EXCEPT ![t] = TRUE]
      /\ withheld' = withheld \ held[t]
      /\ UNCHANGED <<sessions, deaf>>
      /\ net \subseteq net'
  BY DEF SendTimeout, Send
<1>2. /\ timer' \in [Tids -> BOOLEAN]
      /\ held' \in [Tids -> SUBSET Message]
      /\ timer'[t]
      /\ held'[t] = {}
      /\ \A u \in Tids \ {t} : timer'[u] = timer[u] /\ held'[u] = held[u]
  BY <1>1 DEF LimitInv
<1>3. AlwaysTimed'
  BY <1>1, <1>2 DEF LimitInv, AlwaysTimed, IsSending, Active
<1>4. LastPacketGoesOut'
  <2>1. SUFFICES ASSUME NEW u \in Tids, Active(u)',
                        LastPacket(u, sessions'[u]) \in withheld'
                 PROVE  held'[u] = {LastPacket(u, sessions'[u])}
    BY DEF LastPacketGoesOut
  <2>2. /\ sessions'[u] = sessions[u]
        /\ LastPacket(u, sessions[u]) \in withheld \ held[t]
        /\ Active(u)
    BY <1>1, <2>1 DEF Active
  <2>3. held[u] = {LastPacket(u, sessions[u])}
    BY <2>2 DEF LimitInv, LastPacketGoesOut
  <2>4. u # t
    BY <2>2, <2>3
  <2>5. QED
    BY <1>2, <2>2, <2>3, <2>4
<1>5. HeldIsSent
  BY <1>2 DEF HeldIsSent
<1>6. QED
  BY <1>1, <1>2, <1>3, <1>4, <1>5 DEF LimitInv

(* A step in which sessions do nothing.                                     *)
LEMMA LimitRests ==
    ASSUME LimitInv, UNCHANGED <<sessions, timer, held>>,
           deaf' \in [Tids -> BOOLEAN],
           withheld' \subseteq withheld, withheld' \subseteq net'
    PROVE  LimitInv' /\ HeldIsSent
<1>1. AlwaysTimed'
  BY DEF LimitInv, AlwaysTimed, IsSending, Active
<1>2. LastPacketGoesOut'
  BY DEF LimitInv, LastPacketGoesOut, Active
<1>3. QED
  BY <1>1, <1>2 DEF LimitInv, HeldIsSent

(* The client, its user, the server and the network leave sessions alone.   *)
LEMMA LimitOthers ==
    ASSUME LimitInv,
           \/ \E t \in Tids : GoesDeaf(t)
           \/ ServerRejects /\ UNCHANGED limitVars
           \/ ThrottledClientReceives
           \/ ClientTimeout /\ UNCHANGED limitVars
           \/ UserActs /\ UNCHANGED limitVars
           \/ ThrottledNetworkLoses
           \/ ThrottledNetworkDiscards
           \/ UNCHANGED throttledVars
    PROVE  LimitInv' /\ HeldIsSent
<1>1. CASE \E t \in Tids : GoesDeaf(t)
  <2>1. PICK t \in Tids : GoesDeaf(t)
    BY <1>1
  <2>2. deaf' \in [Tids -> BOOLEAN]
    BY <2>1 DEF GoesDeaf, LimitInv
  <2>3. UNCHANGED <<sessions, timer, held, withheld, net>>
    BY <2>1 DEF GoesDeaf, vars
  <2>4. QED
    BY <2>2, <2>3, LimitRests DEF LimitInv
<1>2. CASE ServerRejects /\ UNCHANGED limitVars
  <2>1. PICK m \in net : RejectRequest(m)
    BY <1>2 DEF ServerRejects
  <2>2. UNCHANGED <<sessions, timer, held, deaf, withheld>>
    BY <1>2, <2>1 DEF RejectRequest, limitVars
  <2>3. withheld \subseteq net'
    <3>1. m.to # "client" /\ \E R : Deliver(m, R)
      BY <2>1 DEF RejectRequest
    <3>2. QED
      BY <3>1, WithheldStays
  <2>4. QED
    BY <2>2, <2>3, LimitRests DEF LimitInv
<1>3. CASE ThrottledClientReceives
  <2>1. UNCHANGED <<sessions, timer, held, deaf, withheld>>
    BY <1>3 DEF ThrottledClientReceives, serverVars, limitVars
  <2>2. PICK m \in net \ withheld :
            \/ ReceiveOack(m)
            \/ ReceiveFirstAck(m)
            \/ ReceiveAck(m)
            \/ ReceiveUnexpectedAck(m)
            \/ ReceiveError(m)
            \/ ReceiveStray(m)
    BY <1>3 DEF ThrottledClientReceives
  <2>3. \E R : Deliver(m, R)
    BY <2>2, ClientDelivers
  <2>4. withheld \subseteq net'
    BY <2>3, WithheldStays
  <2>5. QED
    BY <2>1, <2>4, LimitRests DEF LimitInv
<1>4. CASE (ClientTimeout \/ UserActs) /\ UNCHANGED limitVars
  <2>1. UNCHANGED <<sessions, timer, held, deaf, withheld>>
    BY <1>4 DEF ClientTimeout, UserActs, serverVars, limitVars
  <2>2. (\E R : Send(R)) \/ UNCHANGED net
    BY <1>4 DEF ClientTimeout, ClientTimesOut, UserActs, Abort, BeginWhileRunning
  <2>3. withheld \subseteq net'
    BY <2>2, WithheldStays
  <2>4. QED
    BY <2>1, <2>3, LimitRests DEF LimitInv
<1>5. CASE ThrottledNetworkLoses
  <2>1. UNCHANGED <<sessions, timer, held, deaf, withheld>>
    BY <1>5 DEF ThrottledNetworkLoses, serverVars, limitVars
  <2>2. PICK m \in net \ withheld : Lose(m)
    BY <1>5 DEF ThrottledNetworkLoses
  <2>3. withheld \subseteq net'
    BY <2>2, WithheldStays
  <2>4. QED
    BY <2>1, <2>3, LimitRests DEF LimitInv
<1>6. CASE ThrottledNetworkDiscards
  <2>1. UNCHANGED <<sessions, timer, held, deaf>>
    BY <1>6 DEF ThrottledNetworkDiscards, serverVars
  <2>2. PICK m \in net : Discard(m) /\ withheld' = withheld \ {m}
    BY <1>6 DEF ThrottledNetworkDiscards
  <2>3. withheld' \subseteq withheld /\ withheld' \subseteq net'
    BY <2>2 DEF Discard, LimitInv
  <2>4. QED
    BY <2>1, <2>3, LimitRests DEF LimitInv
<1>7. CASE UNCHANGED throttledVars
  <2>1. UNCHANGED <<sessions, timer, held, deaf, withheld, net>>
    BY <1>7 DEF throttledVars
  <2>2. QED
    BY <2>1, LimitRests DEF LimitInv
<1>8. QED
  BY <1>1, <1>2, <1>3, <1>4, <1>5, <1>6, <1>7

-----------------------------------------------------------------------------
\* Steps under a limit and steps of Upload

(* A packet that waits could be sent at any time: it acknowledges no block  *)
(* that has not been written. With duplication the network still has it.    *)
HeldInv ==
    \A t \in Tids : \A p \in held[t] :
        /\ p.to = "client"
        /\ MessageInv(p)
        /\ Duplication => p \in net

(* The session answers, and drops what has come with the DATA.              *)
DropsWithAnswer(m, t) ==
    /\ ~Duplication
    /\ AnswersUnexpectedData(m, t)
    /\ net' \subseteq net \cup {Ack("client", t, sessions[t].currentBlock)}
    /\ UNCHANGED losses
    /\ UNCHANGED <<client, windowCache>>

(* A step under a limit is a step of Upload or none, sends what has waited, *)
(* takes a packet off the network that will never be sent, or drops what    *)
(* has come with a DATA.                                                    *)
LEMMA ThrottledStep ==
    ASSUME [ThrottledNext]_throttledVars
    PROVE  \/ [Next]_vars
           \/ /\ \E t \in Tids : Send(held[t])
              /\ UNCHANGED <<serverVars, clientVars>>
           \/ (\E m \in net : Discard(m)) /\ UNCHANGED <<serverVars, clientVars>>
           \/ \E t \in Tids : \E m \in net : DropsWithAnswer(m, t)
<1>1. ASSUME NEW t \in Tids, ThrottledStarts(t) PROVE SessionStarts(t)
  BY <1>1 DEF ThrottledStarts
<1>2. ASSUME NEW t \in Tids, ThrottledReceives(t)
      PROVE  SessionReceives(t) \/ \E m \in net : DropsWithAnswer(m, t)
  <2>1. PICK m \in net :
          /\ Fresh(m)
          /\ \/ SessionReceivesData(m, t)
             \/ SessionIgnores(m, t)
             \/ SessionReceivesUnexpectedData(m, t)
             \/ AnswersLater(m, t)
             \/ SessionReceivesError(m, t)
    BY <1>2 DEF ThrottledReceives
  <2>2. UNCHANGED clientVars
    BY <1>2 DEF ThrottledReceives
  <2>3. CASE AnswersLater(m, t) /\ Duplication
    <3>1. SessionReceivesUnexpectedData(m, t)
      BY <2>3 DEF AnswersLater, SessionReceivesUnexpectedData, Deliver
    <3>2. QED
      BY <2>1, <2>2, <3>1 DEF SessionReceives
  <2>4. CASE AnswersLater(m, t) /\ ~Duplication
    BY <2>2, <2>4 DEF AnswersLater, DropsWithAnswer, clientVars
  <2>5. QED
    BY <2>1, <2>2, <2>3, <2>4 DEF SessionReceives
<1>3. ASSUME NEW t \in Tids, ThrottledWrites(t) PROVE SessionWrites(t)
  BY <1>3 DEF ThrottledWrites, SessionWrites
<1>4. ASSUME NEW t \in Tids, ThrottledTimeout(t) PROVE SessionTimeout(t)
  BY <1>4 DEF ThrottledTimeout
<1>5. ASSUME NEW t \in Tids, GoesDeaf(t) PROVE UNCHANGED vars
  BY <1>5 DEF GoesDeaf
<1>6. ASSUME NEW t \in Tids, SendTimeout(t)
      PROVE  Send(held[t]) /\ UNCHANGED <<serverVars, clientVars>>
  BY <1>6 DEF SendTimeout, serverVars
<1>7. ASSUME ThrottledClientReceives PROVE ClientReceives
  BY <1>7 DEF ThrottledClientReceives, ClientReceives
<1>8. ASSUME ThrottledNetworkLoses PROVE NetworkLoses
  BY <1>8 DEF ThrottledNetworkLoses, NetworkLoses
<1>9. ASSUME ThrottledNetworkDiscards
      PROVE  (\E m \in net : Discard(m)) /\ UNCHANGED <<serverVars, clientVars>>
  BY <1>9 DEF ThrottledNetworkDiscards
<1>10. ASSUME UNCHANGED throttledVars PROVE UNCHANGED vars
  BY <1>10 DEF throttledVars, vars
<1>11. QED
  BY <1>1, <1>2, <1>3, <1>4, <1>5, <1>6, <1>7, <1>8, <1>9, <1>10
     DEF ThrottledNext, Next

(* A step of one session or of none takes nothing back: what has been       *)
(* written stays written.                                                   *)
LEMMA BlocksGrow ==
    ASSUME IInv, [Next]_vars, NEW u \in Tids
    PROVE  sessions[u].currentBlock <= sessions'[u].currentBlock
<1>1. /\ sessions \in [Tids -> Session]
      /\ sessions[u] \in Session
      /\ sessions[u].currentBlock \in Nat
      /\ sessions[u].currentBlock <= sessions[u].currentBlock
  <2>1. sessions \in [Tids -> Session]
    BY DEF IInv, TypeOK, SessionsTypeOK
  <2>2. sessions[u].currentBlock \in Nat
    BY <2>1 DEF Session
  <2>3. QED
    BY <2>1, <2>2, SMT
<1>2. ASSUME NEW s \in Session
      PROVE  /\ Finish(s, "failed").currentBlock = s.currentBlock
             /\ Finish(s, "ok").currentBlock = s.currentBlock
             /\ \A buffer : TakeNext(s, buffer).currentBlock = s.currentBlock
  BY DEF Finish, TakeNext, Session
<1>3. ASSUME NEW t \in Tids, SessionStarts(t)
      PROVE  sessions'[u].currentBlock = sessions[u].currentBlock
  <2>1. PICK m \in net : \/ StartSession(m, t)
                        \/ StartFailsToBind(m, t)
                        \/ StartFailsToOpen(m, t)
    BY <1>3 DEF SessionStarts
  <2>2. CASE StartSession(m, t)
    <3>1. PICK packet \in {"OACK", "ACK"} :
            sessions' = [sessions EXCEPT ![t] =
                [sessions[t] EXCEPT !.state = "active", !.lastPacket = packet]]
      BY <2>2 DEF StartSession
    <3>2. QED
      BY <1>1, <3>1 DEF Session
  <2>3. CASE StartFailsToBind(m, t) \/ StartFailsToOpen(m, t)
    BY <1>1, <1>2, <2>3 DEF StartFailsToBind, StartFailsToOpen
  <2>4. QED
    BY <2>1, <2>2, <2>3
<1>4. ASSUME NEW t \in Tids, SessionReceives(t)
      PROVE  sessions'[u].currentBlock = sessions[u].currentBlock
  BY <1>1, <1>2, <1>4 DEF SessionReceives, SessionReceivesData,
                          SessionReceivesUnexpectedData, AnswersUnexpectedData,
                          SessionReceivesError, SessionIgnores, Session
<1>5. ASSUME NEW t \in Tids, SessionTimeout(t)
      PROVE  sessions'[u].currentBlock = sessions[u].currentBlock
  <2> DEFINE s == [sessions[t] EXCEPT !.retries = sessions[t].retries + 1]
  <2>1. /\ s.state = "active"
        /\ sessions' = [sessions EXCEPT ![t] =
                IF s.retries > MaxRetries THEN Finish(s, "failed") ELSE s]
    BY <1>1, <1>5 DEF SessionTimeout, SessionTimesOut, Active, Session
  <2>2. s.currentBlock = sessions[t].currentBlock
    BY <1>1 DEF Session
  <2>3. Finish(s, "failed").currentBlock = s.currentBlock
    BY <2>1 DEF Finish
  <2> HIDE DEF s
  <2>4. QED
    BY <1>1, <2>1, <2>2, <2>3
<1>6. ASSUME NEW t \in Tids, SessionWrites(t)
      PROVE  sessions[u].currentBlock <= sessions'[u].currentBlock
  <2>1. CASE BlockWritten(t)
    <3> DEFINE s == [sessions[t] EXCEPT !.currentBlock = sessions[t].writing,
                                        !.writing = 0,
                                        !.retries = 0,
                                        !.lastPacket = "ACK"]
    <3>1. sessions' = [sessions EXCEPT ![t] =
                IF EndsFile(s.payload) THEN Finish(s, "ok")
                                       ELSE TakeNext(s, receiveBuffer[t])]
      BY <2>1 DEF BlockWritten
    <3>2. /\ sessions[t].writing = sessions[t].currentBlock + 1
          /\ sessions[t].currentBlock \in Nat
      BY <1>1, <2>1 DEF BlockWritten, Active, IInv, SessionInv, Session
    <3>3. s \in Session /\ s.currentBlock = sessions[t].writing
      BY <1>1, ZeroRetries DEF Session
    <3> HIDE DEF s
    <3>4. \/ sessions'[u].currentBlock = s.currentBlock /\ u = t
          \/ sessions'[u].currentBlock = sessions[u].currentBlock
      BY <1>1, <1>2, <3>1, <3>3
    <3>5. sessions[t].currentBlock <= s.currentBlock
      BY <3>2, <3>3, SMT
    <3>6. QED
      BY <1>1, <3>4, <3>5
  <2>2. CASE BlockWriteFails(t) \/ BlockWriteIgnored(t)
    <3>1. [sessions[t] EXCEPT !.writing = 0] \in Session
      BY <1>1 DEF Session
    <3>2. [sessions[t] EXCEPT !.writing = 0].currentBlock = sessions[t].currentBlock
      BY <1>1 DEF Session
    <3>3. sessions'[u].currentBlock = sessions[u].currentBlock
      BY <1>1, <1>2, <2>2, <3>1, <3>2 DEF BlockWriteFails, BlockWriteIgnored
    <3>4. QED
      BY <1>1, <3>3
  <2>3. QED
    BY <1>6, <2>1, <2>2 DEF SessionWrites
<1>7. ASSUME \/ ServerRejects
             \/ ClientReceives
             \/ ClientTimeout
             \/ UserActs
             \/ NetworkLoses
             \/ NetworkDiscards
             \/ UNCHANGED vars
      PROVE  sessions' = sessions
  BY <1>7 DEF ServerRejects, RejectRequest, ClientReceives, ClientTimeout, UserActs,
              NetworkLoses, NetworkDiscards, serverVars, vars
<1>8. QED
  BY <1>1, <1>3, <1>4, <1>5, <1>6, <1>7 DEF Next

(* With duplication nothing leaves the network.                             *)
LEMMA NetworkKeeps ==
    ASSUME Duplication, [Next]_vars
    PROVE  net \subseteq net'
<1>1. ASSUME NEW m, NEW R, Deliver(m, R) \/ Send(R) \/ Lose(m) \/ Discard(m)
      PROVE  net \subseteq net'
  BY <1>1 DEF Deliver, Send, Lose, Discard
<1>2. ASSUME NEW t \in Tids, SessionStarts(t) PROVE net \subseteq net'
  BY <1>1, <1>2 DEF SessionStarts, StartSession, StartFailsToBind, StartFailsToOpen
<1>3. ASSUME NEW t \in Tids, SessionReceives(t) PROVE net \subseteq net'
  BY <1>1, <1>3 DEF SessionReceives, SessionReceivesData,
                    SessionReceivesUnexpectedData, SessionReceivesError,
                    SessionIgnores
<1>4. ASSUME NEW t \in Tids, SessionWrites(t) PROVE net \subseteq net'
  BY <1>1, <1>4 DEF SessionWrites, BlockWritten, BlockWriteFails, BlockWriteIgnored
<1>5. ASSUME NEW t \in Tids, SessionTimeout(t) PROVE net \subseteq net'
  BY <1>1, <1>5 DEF SessionTimeout, SessionTimesOut
<1>6. ASSUME ServerRejects PROVE net \subseteq net'
  BY <1>1, <1>6 DEF ServerRejects, RejectRequest
<1>7. ASSUME ClientReceives PROVE net \subseteq net'
  <2>1. PICK m \in net : \/ ReceiveOack(m)
                         \/ ReceiveFirstAck(m)
                         \/ ReceiveAck(m)
                         \/ ReceiveUnexpectedAck(m)
                         \/ ReceiveError(m)
                         \/ ReceiveStray(m)
    BY <1>7 DEF ClientReceives
  <2>2. \E R : Deliver(m, R)
    BY <2>1, ClientDelivers
  <2>3. QED
    BY <1>1, <2>2
<1>8. ASSUME ClientTimeout \/ UserActs PROVE net \subseteq net'
  BY <1>1, <1>8 DEF ClientTimeout, ClientTimesOut, UserActs, Abort, BeginWhileRunning
<1>9. ASSUME NetworkLoses \/ NetworkDiscards PROVE net \subseteq net'
  BY <1>1, <1>9 DEF NetworkLoses, NetworkDiscards
<1>10. ASSUME UNCHANGED vars PROVE net \subseteq net'
  BY <1>10 DEF vars
<1>11. QED
  BY <1>2, <1>3, <1>4, <1>5, <1>6, <1>7, <1>8, <1>9, <1>10 DEF Next

(* The invariants of the limit after any step, given that of Upload.        *)
LEMMA HeldStaysGood ==
    ASSUME IInv, LimitInv, HeldInv, IInv', [ThrottledNext]_throttledVars,
           \A u \in Tids : sessions[u].currentBlock <= sessions'[u].currentBlock,
           Duplication => net \subseteq net'
    PROVE  LimitInv' /\ HeldInv'
<1>1. SessionsTyped
  BY DEF IInv, TypeOK, SessionsTypeOK, SessionsTyped
<1>2. LimitInv' /\ HeldIsSent
  BY <1>1, LimitStarts, LimitReceives, LimitWrites, LimitTimesOut,
     LimitSendTimeout, LimitOthers DEF ThrottledNext
<1>3. ASSUME NEW t \in Tids, NEW p \in held'[t]
      PROVE  /\ p.to = "client"
             /\ MessageInv(p)'
             /\ Duplication => p \in net'
  <2>1. CASE p \in net' /\ p.to = "client"
    BY <2>1 DEF IInv
  <2>2. CASE p \in held[t]
    <3>1. p \in Message /\ p.to = "client" /\ MessageInv(p)
      BY <2>2 DEF LimitInv, HeldInv
    <3>2. p.op # "DATA" /\ (p.op \in {"OACK", "ACK"} => p.tid \in Tids)
      BY <3>1 DEF MessageInv
    <3>3. p.op = "ACK" => p.blk <= sessions'[p.tid].currentBlock
      <4>1. SUFFICES ASSUME p.op = "ACK" PROVE p.blk <= sessions'[p.tid].currentBlock
        OBVIOUS
      <4>2. /\ sessions[p.tid].currentBlock \in Nat
            /\ sessions'[p.tid].currentBlock \in Nat
            /\ p.blk \in Nat
        BY <1>1, <3>1, <3>2, <4>1 DEF SessionsTyped, Session, Message
      <4>3. /\ p.blk <= sessions[p.tid].currentBlock
            /\ sessions[p.tid].currentBlock <= sessions'[p.tid].currentBlock
        BY <3>1, <3>2, <4>1 DEF MessageInv
      <4>4. QED
        BY <4>2, <4>3, SMT
    <3>4. MessageInv(p)'
      BY <3>1, <3>2, <3>3 DEF MessageInv
    <3>5. QED
      BY <2>2, <3>1, <3>4 DEF HeldInv
  <2>3. QED
    BY <1>2, <2>1, <2>2 DEF HeldIsSent
<1>4. QED
  BY <1>2, <1>3 DEF HeldInv

-----------------------------------------------------------------------------
\* The theorems

(* The invariant of Upload, and the two of the limit.                       *)
ThrottledInv == IInv /\ LimitInv /\ HeldInv

LEMMA ThrottledInitInv == ThrottledInit => ThrottledInv
<1> SUFFICES ASSUME ThrottledInit PROVE ThrottledInv
  OBVIOUS
<1>1. /\ timer = [t \in Tids |-> FALSE]
      /\ held = [t \in Tids |-> {}]
      /\ deaf = [t \in Tids |-> FALSE]
      /\ withheld = {}
  BY DEF ThrottledInit
<1>2. \A t \in Tids : ~Active(t)
  BY DEF ThrottledInit, Init, SessionsInit, NewSession, Active
<1>3. LimitInv
  BY <1>1, <1>2 DEF LimitInv, AlwaysTimed, LastPacketGoesOut
<1>4. HeldInv
  BY <1>1 DEF HeldInv
<1>5. QED
  BY <1>3, <1>4, InitIInv DEF ThrottledInit, ThrottledInv

LEMMA ThrottledNextInv ==
    ASSUME NothingUnnoticed, ThrottledInv, [ThrottledNext]_throttledVars
    PROVE  ThrottledInv'
<1>1. IInv /\ LimitInv /\ HeldInv
  BY DEF ThrottledInv
<1>2. CASE [Next]_vars
  <2>1. IInv'
    BY <1>1, <1>2, NextIInv
  <2>2. \A u \in Tids : sessions[u].currentBlock <= sessions'[u].currentBlock
    BY <1>1, <1>2, BlocksGrow
  <2>3. Duplication => net \subseteq net'
    BY <1>2, NetworkKeeps
  <2>4. QED
    BY <1>1, <2>1, <2>2, <2>3, HeldStaysGood DEF ThrottledInv
<1>3. CASE (\E t \in Tids : Send(held[t])) /\ UNCHANGED <<serverVars, clientVars>>
  <2>1. PICK t \in Tids : Send(held[t])
    BY <1>3
  <2>2. UNCHANGED <<sessions, receiveBuffer, file, creator, client, windowCache>>
    BY <1>3 DEF serverVars, clientVars
  <2>3. IInv'
    <3> DEFINE R == held[t]
    <3>1. R \in SUBSET Message
      BY <1>1 DEF LimitInv
    <3>2. NetTypeOK' /\ net' \subseteq net \cup R
      BY <1>1, <2>1, <3>1, NetStep DEF IInv, TypeOK
    <3>3. \A m \in R : MessageInv(m)'
      BY <1>1, <2>2 DEF HeldInv, MessageInv, GoodBlock, InThisTurn
    <3> HIDE DEF R
    <3>4. QED
      BY <1>1, <2>2, <3>2, <3>3, NetworkStep
  <2>4. \A u \in Tids : sessions[u].currentBlock <= sessions'[u].currentBlock
    BY <1>1, <2>2, SMT DEF IInv, TypeOK, SessionsTypeOK, Session
  <2>5. net \subseteq net'
    BY <2>1 DEF Send
  <2>6. QED
    BY <1>1, <2>3, <2>4, <2>5, HeldStaysGood DEF ThrottledInv
<1>4. CASE (\E m \in net : Discard(m)) /\ UNCHANGED <<serverVars, clientVars>>
  <2>1. PICK m \in net : Discard(m)
    BY <1>4
  <2>2. UNCHANGED <<sessions, receiveBuffer, file, creator, client, windowCache>>
    BY <1>4 DEF serverVars, clientVars
  <2>3. IInv'
    BY <1>1, <2>1, <2>2, TakenFromNetwork
  <2>4. \A u \in Tids : sessions[u].currentBlock <= sessions'[u].currentBlock
    BY <1>1, <2>2, SMT DEF IInv, TypeOK, SessionsTypeOK, Session
  <2>5. ~Duplication
    BY <2>1 DEF Discard
  <2>6. QED
    BY <1>1, <2>3, <2>4, <2>5, HeldStaysGood DEF ThrottledInv
<1>5. CASE \E t \in Tids : \E m \in net : DropsWithAnswer(m, t)
  <2>1. PICK t \in Tids, m \in net : DropsWithAnswer(m, t)
    BY <1>5
  <2> DEFINE R == {Ack("client", t, sessions[t].currentBlock)}
  <2>2. /\ AnswersUnexpectedData(m, t)
        /\ net' \subseteq net \cup R
        /\ UNCHANGED <<losses, client, windowCache>>
        /\ ~Duplication
    BY <2>1 DEF DropsWithAnswer
  <2>3. /\ NetTypeOK
        /\ sessions \in [Tids -> Session]
        /\ sessions[t].currentBlock \in Nat
    BY <1>1 DEF IInv, TypeOK, SessionsTypeOK, Session
  <2>4. NetTypeOK'
    <3>1. R \subseteq Message
      BY <2>3, PayloadType DEF Ack, Msg, Message, Ops
    <3>2. QED
      BY <2>2, <2>3, <3>1 DEF NetTypeOK
  <2> HIDE DEF R
  <2>5. R = {Ack("client", t, sessions[t].currentBlock)}
    BY DEF R
  <2>6. IInv'
    BY <1>1, <2>2, <2>4, <2>5, UnexpectedDataStep
  <2>7. \A u \in Tids : sessions[u].currentBlock <= sessions'[u].currentBlock
    <3>1. \A u \in Tids : /\ sessions'[u].currentBlock = sessions[u].currentBlock
                          /\ sessions[u].currentBlock \in Nat
      BY <2>2, <2>3 DEF AnswersUnexpectedData, Session
    <3>2. QED
      BY <3>1, SMT
  <2>8. QED
    BY <1>1, <2>2, <2>6, <2>7, HeldStaysGood DEF ThrottledInv
<1>6. QED
  BY <1>2, <1>3, <1>4, <1>5, ThrottledStep

(* Upload and the limit keep their invariants together: what has waited may *)
(* be sent, because nothing is taken back meanwhile.                        *)
THEOREM ThrottledInductive ==
    ASSUME NothingUnnoticed
    PROVE  ThrottledSpec => []ThrottledInv
<1>1. ThrottledInv /\ [ThrottledNext]_throttledVars => ThrottledInv'
  BY ThrottledNextInv
<1>2. QED
  BY <1>1, ThrottledInitInv, PTL DEF ThrottledSpec

(* Whatever is delayed, withheld or not read: the file is a beginning of    *)
(* the client's, success means the whole file, and nothing is acknowledged  *)
(* before it is written.                                                    *)
THEOREM ThrottledIsSafe ==
    ASSUME NothingUnnoticed
    PROVE  ThrottledSpec => [](/\ FileIsPrefix
                               /\ SessionOkMeansWholeFile
                               /\ ClientOkMeansSessionOk
                               /\ AckedBlocksAreWritten)
<1>1. ThrottledInv => /\ FileIsPrefix
                      /\ SessionOkMeansWholeFile
                      /\ ClientOkMeansSessionOk
                      /\ AckedBlocksAreWritten
  BY IInvPrefix, IInvWhole, IInvFollows, IInvWritten DEF ThrottledInv
<1>2. QED
  BY <1>1, ThrottledInductive, PTL

(* If the network keeps what it repeats, an upload under a limit is an      *)
(* upload.                                                                  *)
THEOREM ThrottledImplementsUpload ==
    ASSUME Duplication, NothingUnnoticed
    PROVE  ThrottledSpec => Spec
<1>1. ThrottledInit => Init
  BY DEF ThrottledInit
<1>2. ASSUME ThrottledInv, [ThrottledNext]_throttledVars PROVE [Next]_vars
  <2>1. CASE (\E t \in Tids : Send(held[t])) /\ UNCHANGED <<serverVars, clientVars>>
    <3>1. PICK t \in Tids : Send(held[t])
      BY <2>1
    <3>2. held[t] \subseteq net
      BY <1>2 DEF ThrottledInv, HeldInv
    <3>3. QED
      BY <2>1, <3>1, <3>2 DEF Send, serverVars, clientVars, vars
  <2>2. QED
    BY <1>2, <2>1, ThrottledStep DEF Discard, DropsWithAnswer
<1>3. QED
  BY <1>1, <1>2, ThrottledInductive, PTL DEF ThrottledSpec, Spec

(* The timers and the packet that waits keep to their types: there is one   *)
(* such packet at most.                                                     *)
THEOREM LimitTypeCorrect ==
    ASSUME NothingUnnoticed
    PROVE  ThrottledSpec => []LimitTypeOK
<1>1. ASSUME LimitInv, NEW t \in Tids PROVE Cardinality(held[t]) <= 1
  <2>1. CASE held[t] = {}
    <3>1. Cardinality(held[t]) = 0
      BY <2>1, FS_EmptySet
    <3>2. QED
      BY <3>1, SMT
  <2>2. CASE held[t] # {}
    <3>1. PICK p : held[t] = {p}
      BY <1>1, <2>2 DEF LimitInv
    <3>2. Cardinality(held[t]) = 1
      BY <3>1, FS_Singleton
    <3>3. QED
      BY <3>2, SMT
  <2>3. QED
    BY <2>1, <2>2
<1>2. ThrottledInv => LimitTypeOK
  BY <1>1 DEF ThrottledInv, LimitInv, LimitTypeOK
<1>3. QED
  BY <1>2, ThrottledInductive, PTL

(* Every active session has a timer that will wake it, however often a      *)
(* packet that waits is replaced and whatever the timer finds.              *)
THEOREM NeverUntimed ==
    ASSUME NothingUnnoticed
    PROVE  ThrottledSpec => []AlwaysTimed
<1>1. ThrottledInv => AlwaysTimed
  BY DEF ThrottledInv, LimitInv
<1>2. QED
  BY <1>1, ThrottledInductive, PTL

(* Of the packets of an active session only the last one may still have to  *)
(* be sent, and it waits for its turn.                                      *)
THEOREM LastPacketWaits ==
    ASSUME NothingUnnoticed
    PROVE  ThrottledSpec => []LastPacketGoesOut
<1>1. ThrottledInv => LastPacketGoesOut
  BY DEF ThrottledInv, LimitInv
<1>2. QED
  BY <1>1, ThrottledInductive, PTL
=============================================================================
