---------------------- MODULE ThrottledDownload_proofs ----------------------
(***************************************************************************)
(* A speed limit delays, withholds and drops packets of a download, and    *)
(* does nothing else to it: what Download guarantees it still guarantees.  *)
(* The limit itself never leaves a session without a timer it would have   *)
(* without a limit, and never drops the last block a session has sent.     *)
(***************************************************************************)
EXTENDS ThrottledDownload, Download_proofs

\* Block b as session t sends it, if no read has failed
Block(t, b) == Data("client", t, b, Payload(b))

\* What may wait at session t: its OACK, when its timer has not been armed
\* since, or a block that is not acknowledged.
MayWait(t, p) ==
    \/ sessions[t].oackPending /\ p = Oack(t) /\ ~armed[t]
    \/ \E b \in sessions[t].windowCache : p = Block(t, b)

\* What makes the properties of the limit inductive, session by session. With
\* duplication the network still has what waits.
LimitOf(t) ==
    LET last == Block(t, sessions[t].currentBlock)
    IN  /\ \A p, q \in held[t] : p = q
        /\ \A p \in held[t] : MayWait(t, p)
        /\ sessions[t].timer => Active(t)
        /\ sessions[t].timer <=> armed[t] \/ held[t] # {}
        /\ Active(t) /\ last \in withheld => held[t] = {last}
        /\ Duplication => held[t] \subseteq net

LimitTypes ==
    /\ armed \in [Tids -> BOOLEAN]
    /\ held \in [Tids -> SUBSET Message]
    /\ deaf \in [Tids -> BOOLEAN]
    /\ withheld \subseteq net
    /\ \A m \in withheld : m.to = "client"

LimitInv == LimitTypes /\ \A t \in Tids : LimitOf(t)

-----------------------------------------------------------------------------
\* Steps under a limit and steps of Download

(* A step under a limit is a step of Download or none, sends what has       *)
(* waited, or takes a packet off the network that will never be sent or     *)
(* read.                                                                    *)
LEMMA ThrottledStep ==
    ASSUME [ThrottledNext]_throttledVars
    PROVE  \/ [Next]_vars
           \/ /\ \E t \in Tids : Send(held[t])
              /\ UNCHANGED <<sessions, client, receiveBuffer, file>>
           \/ /\ \E m \in net : Discard(m)
              /\ UNCHANGED <<sessions, client, receiveBuffer, file>>
<1>1. ASSUME NEW t \in Tids, ThrottledStarts(t) PROVE SessionStarts(t)
  BY <1>1 DEF ThrottledStarts
<1>2. ASSUME NEW t \in Tids, ThrottledReceives(t) PROVE SessionReceives(t)
  BY <1>2 DEF ThrottledReceives
<1>3. ASSUME NEW t \in Tids, ThrottledReads(t) PROVE SessionReads(t)
  BY <1>3 DEF ThrottledReads
<1>4. ASSUME NEW t \in Tids, ThrottledTimeout(t) PROVE SessionTimeout(t)
  BY <1>4 DEF ThrottledTimeout
<1>5. ASSUME NEW t \in Tids, GoesDeaf(t) PROVE UNCHANGED vars
  BY <1>5 DEF GoesDeaf
<1>6. ASSUME NEW t \in Tids, SendTimeout(t)
      PROVE  Send(held[t]) /\ UNCHANGED <<sessions, client, receiveBuffer, file>>
  BY <1>6 DEF SendTimeout
<1>7. ASSUME ThrottledClientReceives PROVE ClientReceives
  BY <1>7 DEF ThrottledClientReceives, ClientReceives
<1>8. ASSUME ThrottledNetworkLoses PROVE NetworkLoses
  BY <1>8 DEF ThrottledNetworkLoses, NetworkLoses
<1>9. ASSUME ThrottledNetworkDiscards
      PROVE  /\ \E m \in net : Discard(m)
             /\ UNCHANGED <<sessions, client, receiveBuffer, file>>
  BY <1>9 DEF ThrottledNetworkDiscards
<1>10. ASSUME UNCHANGED throttledVars PROVE UNCHANGED vars
  BY <1>10 DEF throttledVars, vars
<1>11. QED
  BY <1>1, <1>2, <1>3, <1>4, <1>5, <1>6, <1>7, <1>8, <1>9, <1>10
     DEF ThrottledNext, Next

(* What has waited may be sent: the network gets what it could have had.    *)
LEMMA MayWaitInv ==
    ASSUME IInv, NEW t \in Tids, NEW p, MayWait(t, p)
    PROVE  p \in Message /\ p.to = "client" /\ MessageInv(p)
<1>1. sessions[t] \in Session /\ SessionInv(sessions[t])
  BY DEF IInv, TypeOK, SessionsTypeOK
<1>2. CASE p = Oack(t)
  BY <1>2, PayloadType DEF Oack, Msg, Message, Ops, MessageInv
<1>3. ASSUME NEW b \in sessions[t].windowCache, p = Block(t, b)
      PROVE  p \in Message /\ p.to = "client" /\ MessageInv(p)
  <2>1. b \in Nat /\ b \in 1..sessions[t].currentBlock
    BY <1>1, SMT DEF SessionInv, InOrder, Session
  <2>2. QED
    BY <1>3, <2>1, PayloadType DEF Block, Data, Message, Ops, MessageInv
<1>4. QED
  BY <1>2, <1>3 DEF MayWait

(* IInv is kept when what has waited is sent.                               *)
LEMMA SendTimeoutKeeps ==
    ASSUME IInv, LimitInv, NEW t \in Tids, Send(held[t]),
           UNCHANGED <<sessions, client, receiveBuffer, file>>
    PROVE  IInv'
<1> DEFINE R == held[t]
<1>1. \A p \in R : p \in Message /\ MessageInv(p)
  BY MayWaitInv DEF LimitInv, LimitOf
<1>2. R \in SUBSET Message
  BY <1>1
<1>3. NetTypeOK' /\ net' \subseteq net \cup R
  BY <1>2, NetStep DEF IInv, TypeOK
<1>4. \A m \in R : MessageInv(m)'
  BY <1>1 DEF MessageInv
<1> HIDE DEF R
<1>5. QED
  BY <1>3, <1>4, NetworkSends

-----------------------------------------------------------------------------
\* What the limit does by itself

(* A step of session t, as far as the others are concerned.                 *)
LEMMA OneSession ==
    ASSUME LimitInv, NEW t \in Tids,
           LimitTypes', LimitOf(t)',
           Duplication => net \subseteq net',
           \A u \in Tids \ {t} : /\ sessions'[u] = sessions[u]
                                 /\ armed'[u] = armed[u]
                                 /\ held'[u] = held[u],
           \A m \in withheld' \ withheld : m.tid = t
    PROVE  LimitInv'
<1>1. ASSUME NEW u \in Tids \ {t} PROVE LimitOf(u)'
  <2>1. LimitOf(u)
    BY DEF LimitInv
  <2>2. Block(u, sessions[u].currentBlock).tid = u
    BY DEF Block, Data
  <2>3. Block(u, sessions[u].currentBlock) \in withheld' =>
            Block(u, sessions[u].currentBlock) \in withheld
    BY <2>2
  <2>4. QED
    BY <2>1, <2>3 DEF LimitOf, MayWait, Active
<1>2. QED
  BY <1>1 DEF LimitInv

(* A block number that has not been reached is not on its way.              *)
LEMMA NothingYet ==
    ASSUME IInv, NEW t \in Tids, sessions[t].currentBlock = 0
    PROVE  Block(t, sessions[t].currentBlock) \notin net
<1>1. SUFFICES ASSUME Block(t, 0) \in net PROVE FALSE
  OBVIOUS
<1>2. MessageInv(Block(t, 0)) /\ Block(t, 0).op = "DATA" /\ Block(t, 0).blk = 0
  BY <1>1 DEF IInv, Block, Data
<1>3. QED
  BY <1>2, SMT DEF MessageInv

(* What is withheld is not what a session or the server reads.              *)
LEMMA WithheldStays ==
    ASSUME LimitTypes, NEW R,
           \/ \E m : m.to # "client" /\ Deliver(m, R)
           \/ \E m \in net \ withheld : Deliver(m, R) \/ Lose(m)
           \/ Send(R)
           \/ UNCHANGED net
    PROVE  withheld \subseteq net' /\ (Duplication => net \subseteq net')
BY DEF LimitTypes, Deliver, Send, Lose

(* A session sends nothing, and its timers stay as they are.                *)
LEMMA LimitQuiet ==
    ASSUME LimitInv, IInv, IInv', NEW t \in Tids, UNCHANGED limitVars,
           withheld \subseteq net', Duplication => net \subseteq net',
           \A u \in Tids \ {t} : sessions'[u] = sessions[u],
           sessions'[t].currentBlock = sessions[t].currentBlock,
           sessions'[t].timer = sessions[t].timer,
           sessions'[t].timer => Active(t)',
           Active(t)' => Active(t) \/ sessions'[t].currentBlock = 0,
           \A p \in held[t] : MayWait(t, p)'
    PROVE  LimitInv'
<1>1. UNCHANGED <<armed, held, deaf, withheld>>
  BY DEF limitVars
<1>2. LimitTypes'
  BY <1>1 DEF LimitInv, LimitTypes
<1>3. LimitOf(t)
  BY DEF LimitInv
<1>4. Block(t, sessions'[t].currentBlock) = Block(t, sessions[t].currentBlock)
  OBVIOUS
<1>5. Active(t)' /\ Block(t, sessions'[t].currentBlock) \in withheld' =>
            held'[t] = {Block(t, sessions'[t].currentBlock)}
  <2>1. CASE Active(t)
    BY <1>1, <1>3, <1>4, <2>1 DEF LimitOf
  <2>2. CASE sessions'[t].currentBlock = 0
    <3>1. Block(t, sessions[t].currentBlock) \notin net
      BY <2>2, NothingYet
    <3>2. QED
      BY <1>1, <1>4, <3>1 DEF LimitInv, LimitTypes
  <2>3. QED
    BY <2>1, <2>2
<1>6. LimitOf(t)'
  BY <1>1, <1>3, <1>5 DEF LimitOf
<1>7. QED
  BY <1>1, <1>2, <1>6, OneSession

(* A session that is over has stopped its timers.                           *)
LEMMA LimitStops ==
    ASSUME LimitInv, NEW t \in Tids, StopTimers(t), ~Active(t)',
           ~sessions'[t].timer,
           withheld \subseteq net', Duplication => net \subseteq net',
           \A u \in Tids \ {t} : sessions'[u] = sessions[u]
    PROVE  LimitInv'
<1>1. /\ armed' = [armed EXCEPT ![t] = FALSE]
      /\ held' = [held EXCEPT ![t] = {}]
      /\ UNCHANGED <<deaf, withheld>>
  BY DEF StopTimers
<1>2. /\ armed' \in [Tids -> BOOLEAN]
      /\ held' \in [Tids -> SUBSET Message]
      /\ ~armed'[t]
      /\ held'[t] = {}
      /\ \A u \in Tids \ {t} : armed'[u] = armed[u] /\ held'[u] = held[u]
  BY <1>1 DEF LimitInv, LimitTypes
<1>3. LimitTypes'
  BY <1>1, <1>2 DEF LimitInv, LimitTypes
<1>4. LimitOf(t)'
  BY <1>2 DEF LimitOf
<1>5. QED
  BY <1>1, <1>2, <1>3, <1>4, OneSession

(* A session sends packets, and some have to wait. Those it sends while the *)
(* OACK is pending are the OACK, and those it sends later are of its window.*)
LEMMA LimitSends ==
    ASSUME LimitInv, IInv, NEW t \in Tids, NEW S, NEW last \in S,
           SendsDeferred(t, S),
           \A p \in S : p \in Message /\ p.to = "client" /\ p.tid = t,
           \A p \in S : p.blk <= last.blk,
           \A p, q \in S : p.blk = q.blk => p = q,
           S \subseteq net', withheld \subseteq net', Duplication => net \subseteq net',
           \A u \in Tids \ {t} : sessions'[u] = sessions[u],
           sessions'[t].timer, Active(t)',
           \/ /\ last = Block(t, sessions'[t].currentBlock)
              /\ \A p \in S \cup held[t] :
                    \E b \in sessions'[t].windowCache : p = Block(t, b)
           \/ /\ S = {Oack(t)}
              /\ held[t] = {}
              /\ sessions'[t].oackPending
              /\ sessions[t].currentBlock = 0
              /\ sessions'[t].currentBlock = sessions[t].currentBlock
    PROVE  LimitInv'
<1>1. PICK late \in SUBSET S : SendDeferred(t, S, late)
  BY DEF SendsDeferred
<1> DEFINE waits == {p \in late : \A q \in late : q.blk <= p.blk}
           cur == Block(t, sessions'[t].currentBlock)
<1>2. /\ held' = [held EXCEPT ![t] = IF late = {} THEN held[t] ELSE waits]
      /\ armed' = [armed EXCEPT ![t] = \A q \in late : \E p \in S \ late : q.blk < p.blk]
      /\ withheld' = (withheld \ (S \ late)) \cup (late \ net)
      /\ deaf' = deaf
  BY <1>1 DEF SendDeferred
<1>3. \A p, q \in waits : p = q
  <2>1. SUFFICES ASSUME NEW p \in waits, NEW q \in waits PROVE p.blk = q.blk
    OBVIOUS
  <2>2. p.blk \in Nat /\ q.blk \in Nat /\ p.blk <= q.blk /\ q.blk <= p.blk
    BY DEF Message
  <2>3. QED
    BY <2>2, SMT
<1>4. last \in late => waits = {last}
  BY <1>3
<1>5. last \notin late => \A q \in late : \E p \in S \ late : q.blk < p.blk
  <2>1. SUFFICES ASSUME last \notin late, NEW q \in late PROVE q.blk < last.blk
    OBVIOUS
  <2>2. q.blk \in Nat /\ last.blk \in Nat /\ q.blk <= last.blk /\ q.blk # last.blk
    BY <2>1 DEF Message
  <2>3. QED
    BY <2>2, SMT
<1>6. waits \subseteq late
  OBVIOUS
<1> HIDE DEF waits
<1>7. /\ held' \in [Tids -> SUBSET Message]
      /\ armed' \in [Tids -> BOOLEAN]
      /\ \A u \in Tids \ {t} : armed'[u] = armed[u] /\ held'[u] = held[u]
      /\ held'[t] = IF late = {} THEN held[t] ELSE waits
      /\ armed'[t] = \A q \in late : \E p \in S \ late : q.blk < p.blk
  <2>1. held \in [Tids -> SUBSET Message] /\ armed \in [Tids -> BOOLEAN]
    BY DEF LimitInv, LimitTypes
  <2>2. waits \in SUBSET Message
    BY <1>6
  <2>3. QED
    BY <1>2, <2>1, <2>2
<1>8. LimitTypes'
  <2>1. withheld' \subseteq net' /\ \A m \in withheld' : m.to = "client"
    BY <1>2 DEF LimitInv, LimitTypes
  <2>2. QED
    BY <1>2, <1>7, <2>1 DEF LimitInv, LimitTypes
<1>9. LimitOf(t)
  BY DEF LimitInv
<1>10. \A p, q \in held'[t] : p = q
  BY <1>3, <1>7, <1>9 DEF LimitOf
<1>11. armed'[t] \/ held'[t] # {}
  <2>1. CASE last \in late
    BY <1>4, <1>7, <2>1
  <2>2. CASE last \notin late
    BY <1>5, <1>7, <2>2
  <2>3. QED
    BY <2>1, <2>2
<1>12. \A p \in held'[t] : MayWait(t, p)'
  <2>1. SUFFICES ASSUME NEW p \in held'[t] PROVE MayWait(t, p)'
    OBVIOUS
  <2>2. CASE \A q \in S \cup held[t] :
                \E b \in sessions'[t].windowCache : q = Block(t, b)
    <3>1. p \in S \cup held[t]
      BY <1>6, <1>7, <2>1
    <3>2. QED
      BY <2>2, <3>1 DEF MayWait, Block
  <2>3. CASE S = {Oack(t)} /\ held[t] = {} /\ sessions'[t].oackPending
    <3>1. late = S /\ p = Oack(t)
      BY <1>6, <1>7, <2>1, <2>3
    <3>2. ~armed'[t]
      BY <1>7, <2>3, <3>1
    <3>3. QED
      BY <2>3, <3>1, <3>2 DEF MayWait
  <2>4. QED
    BY <2>2, <2>3
<1>13. cur \in withheld' => held'[t] = {cur}
  <2>1. CASE last = cur
    BY <1>2, <1>4, <1>7, <2>1
  <2>2. CASE /\ S = {Oack(t)}
             /\ sessions[t].currentBlock = 0
             /\ sessions'[t].currentBlock = sessions[t].currentBlock
    <3>1. cur \notin net
      BY <2>2, NothingYet
    <3>2. cur \notin S
      BY <2>2 DEF Block, Data, Oack, Msg
    <3>3. QED
      BY <1>2, <3>1, <3>2 DEF LimitInv, LimitTypes
  <2>3. QED
    BY <2>1, <2>2
<1>14. Duplication => held'[t] \subseteq net'
  BY <1>6, <1>7, <1>9 DEF LimitOf
<1>15. LimitOf(t)'
  <2>1. Block(t, sessions[t].currentBlock)' = cur
    BY DEF Block
  <2> HIDE DEF cur
  <2>2. QED
    BY <1>10, <1>11, <1>12, <1>13, <1>14, <2>1 DEF LimitOf
<1>16. \A m \in withheld' \ withheld : m.tid = t
  BY <1>2
<1>17. QED
  BY <1>7, <1>8, <1>15, <1>16, OneSession

(* No step of a session, and nothing else that LimitOf is about.            *)
LEMMA LimitRests ==
    ASSUME LimitInv, UNCHANGED <<sessions, armed, held>>,
           deaf' \in [Tids -> BOOLEAN],
           withheld' \subseteq withheld \cap net',
           Duplication => net \subseteq net'
    PROVE  LimitInv'
<1>1. LimitTypes'
  BY DEF LimitInv, LimitTypes
<1>2. ASSUME NEW t \in Tids PROVE LimitOf(t)'
  <2>1. LimitOf(t)
    BY DEF LimitInv
  <2>2. Block(t, sessions[t].currentBlock)' = Block(t, sessions[t].currentBlock)
    OBVIOUS
  <2>3. \A p \in held'[t] : MayWait(t, p)'
    BY <2>1 DEF LimitOf, MayWait
  <2>4. QED
    BY <2>1, <2>2, <2>3 DEF LimitOf, Active
<1>3. QED
  BY <1>1, <1>2 DEF LimitInv

-----------------------------------------------------------------------------
\* The steps of the limit

(* fillWindow() sends nothing and leaves the timer alone.                   *)
LEMMA FillWindowKeeps ==
    ASSUME NEW s, DOMAIN s = DOMAIN NewSession
    PROVE  /\ FillWindow(s).state = s.state
           /\ FillWindow(s).oackPending = s.oackPending
           /\ FillWindow(s).currentBlock = s.currentBlock
           /\ FillWindow(s).windowCache = s.windowCache
           /\ FillWindow(s).timer = s.timer
           /\ FillWindow(s).cut = s.cut
BY DEF FillWindow, NewSession

(* A session as the invariants know it.                                     *)
LEMMA SessionFacts ==
    ASSUME IInv, NEW t \in Tids
    PROVE  /\ sessions \in [Tids -> Session]
           /\ sessions[t] \in Session
           /\ DOMAIN sessions[t] = DOMAIN NewSession
           /\ SessionInv(sessions[t])
<1>1. sessions \in [Tids -> Session] /\ sessions[t] \in Session
  BY DEF IInv, TypeOK, SessionsTypeOK
<1>2. DOMAIN sessions[t] = DOMAIN NewSession
  BY <1>1 DEF Session, NewSession
<1>3. QED
  BY <1>1, <1>2 DEF IInv

(* A session starts, or cannot.                                             *)
LEMMA LimitStarts ==
    ASSUME LimitInv, IInv, IInv', NEW t \in Tids, ThrottledStarts(t)
    PROVE  LimitInv'
<1> DEFINE s == [sessions[t] EXCEPT !.state = "active"]
<1>1. PICK m \in net : \/ StartSession(m, t)
                      \/ StartFailsToBind(m, t)
                      \/ StartFailsToOpen(m, t)
  BY DEF ThrottledStarts, SessionStarts
<1>2. /\ m.to # "client"
      /\ sessions[t].state = "unused"
  BY <1>1 DEF StartSession, StartFailsToBind, StartFailsToOpen
<1>3. /\ sessions \in [Tids -> Session]
      /\ sessions[t] \in Session
      /\ DOMAIN sessions[t] = DOMAIN NewSession
      /\ NothingSent(sessions[t])
      /\ ~sessions[t].oackPending
  BY <1>2, SessionFacts DEF SessionInv
<1>4. ~sessions[t].timer /\ ~armed[t] /\ held[t] = {}
  BY <1>2 DEF LimitInv, LimitOf, Active
<1>5. sessions[t].currentBlock = 0
  BY <1>3 DEF NothingSent
<1>6. \E R : Deliver(m, R)
  BY <1>1 DEF StartSession, StartFailsToBind, StartFailsToOpen
<1>7. withheld \subseteq net' /\ (Duplication => net \subseteq net')
  BY <1>2, <1>6, WithheldStays DEF LimitInv
<1>8. /\ DOMAIN s = DOMAIN NewSession
      /\ s.state = "active"
      /\ s.currentBlock = 0
      /\ ~s.oackPending
      /\ ~s.timer
  BY <1>3, <1>4, <1>5 DEF NewSession
<1>9. CASE StartSession(m, t) /\ Options
  <2> DEFINE o == [s EXCEPT !.oackPending = TRUE, !.timer = TRUE]
  <2>1. sessions' = [sessions EXCEPT ![t] = o] /\ Deliver(m, {Oack(t)})
    BY <1>9 DEF StartSession
  <2>2. o.oackPending /\ o.timer /\ o.state = "active" /\ o.currentBlock = 0
    BY <1>8 DEF NewSession
  <2> HIDE DEF o
  <2>3. sessions'[t] = o /\ \A u \in Tids \ {t} : sessions'[u] = sessions[u]
    BY <1>3, <2>1
  <2> DEFINE last == Oack(t)
             S == {Oack(t)}
  <2>4. /\ \A p \in S : p \in Message /\ p.to = "client" /\ p.tid = t
        /\ \A p \in S : p.blk <= last.blk
        /\ last \in S
    BY PayloadType, SMT DEF Oack, Msg, Message, Ops
  <2>5. S \subseteq net'
    BY <2>1 DEF Deliver
  <2>6. \A p, q \in S : p.blk = q.blk => p = q
    OBVIOUS
  <2>7. SendsDeferred(t, S)
    BY <2>2, <2>3 DEF ThrottledStarts
  <2>8. /\ S = {Oack(t)}
        /\ held[t] = {}
        /\ sessions'[t].oackPending
        /\ sessions[t].currentBlock = 0
        /\ sessions'[t].currentBlock = sessions[t].currentBlock
        /\ sessions'[t].timer
        /\ Active(t)'
    BY <1>4, <1>5, <2>2, <2>3 DEF Active
  <2> HIDE DEF last, S
  <2>9. QED
    BY <1>7, <2>3, <2>4, <2>5, <2>6, <2>7, <2>8, LimitSends
<1>10. CASE StartSession(m, t) /\ ~Options
  <2> DEFINE f == FillWindow(s)
  <2>1. sessions' = [sessions EXCEPT ![t] = f]
    BY <1>10 DEF StartSession
  <2>2. ~f.oackPending /\ ~f.timer /\ f.state = "active" /\ f.currentBlock = 0
    BY <1>8, FillWindowKeeps
  <2>3. f.timer = sessions[t].timer
    BY <1>3, <1>8, FillWindowKeeps DEF NewSession
  <2> HIDE DEF f
  <2>4. sessions'[t] = f /\ \A u \in Tids \ {t} : sessions'[u] = sessions[u]
    BY <1>3, <2>1
  <2>5. UNCHANGED limitVars
    BY <2>2, <2>4 DEF ThrottledStarts
  <2>6. /\ sessions'[t].currentBlock = sessions[t].currentBlock
        /\ sessions'[t].timer = sessions[t].timer
        /\ sessions'[t].timer => Active(t)'
        /\ Active(t)' => Active(t) \/ sessions'[t].currentBlock = 0
        /\ \A p \in held[t] : MayWait(t, p)'
    BY <1>4, <1>5, <2>2, <2>3, <2>4
  <2>7. QED
    BY <1>7, <2>4, <2>5, <2>6, LimitQuiet
<1>11. CASE StartFailsToBind(m, t) \/ StartFailsToOpen(m, t)
  <2> DEFINE e == Finish(sessions[t], "failed")
  <2>1. sessions' = [sessions EXCEPT ![t] = e]
    BY <1>11 DEF StartFailsToBind, StartFailsToOpen
  <2>2. /\ e.state = "failed"
        /\ e.timer = FALSE
        /\ e.oackPending = sessions[t].oackPending
        /\ e.currentBlock = sessions[t].currentBlock
    BY <1>2, <1>3 DEF Finish, NewSession
  <2>3. sessions[t].timer = FALSE
    BY <1>3, <1>4 DEF Session
  <2> HIDE DEF e
  <2>4. sessions'[t] = e /\ \A u \in Tids \ {t} : sessions'[u] = sessions[u]
    BY <1>3, <2>1
  <2>5. UNCHANGED limitVars
    BY <1>3, <2>2, <2>4 DEF ThrottledStarts
  <2>6. /\ sessions'[t].currentBlock = sessions[t].currentBlock
        /\ sessions'[t].timer = sessions[t].timer
        /\ sessions'[t].timer => Active(t)'
        /\ Active(t)' => Active(t) \/ sessions'[t].currentBlock = 0
        /\ \A p \in held[t] : MayWait(t, p)'
    BY <1>4, <2>2, <2>3, <2>4 DEF Active
  <2>7. QED
    BY <1>7, <2>4, <2>5, <2>6, LimitQuiet
<1>12. QED
  BY <1>1, <1>9, <1>10, <1>11

(* What a datagram changes in a session: it sends nothing.                  *)
LEMMA ReceivesKeeps ==
    ASSUME IInv, NEW t \in Tids, NEW m,
           \/ SessionReceivesAckOfOack(m, t)
           \/ SessionReceivesAck(m, t)
           \/ SessionReceivesError(m, t)
           \/ SessionIgnores(m, t)
    PROVE  /\ Active(t)
           /\ sessions'[t].currentBlock = sessions[t].currentBlock
           /\ Active(t)' => sessions'[t].timer = sessions[t].timer
           /\ ~Active(t)' => ~sessions'[t].timer
           /\ \A u \in Tids \ {t} : sessions'[u] = sessions[u]
<1> DEFINE s == sessions[t]
<1>1. /\ sessions \in [Tids -> Session]
      /\ DOMAIN s = DOMAIN NewSession
      /\ s.state = "active"
  BY SessionFacts DEF SessionReceivesAckOfOack, SessionReceivesAck,
                      SessionReceivesError, SessionIgnores, Active
<1> DEFINE Kept(r) == /\ r.currentBlock = s.currentBlock
                      /\ r.state = "active" => r.timer = s.timer
                      /\ r.state # "active" => ~r.timer
<1>2. SUFFICES ASSUME NEW r, Kept(r), sessions' = [sessions EXCEPT ![t] = r]
               PROVE  /\ sessions'[t] = r
                      /\ \A u \in Tids \ {t} : sessions'[u] = sessions[u]
  <2>1. Kept(s) /\ sessions = [sessions EXCEPT ![t] = s]
    BY <1>1
  <2>2. CASE SessionReceivesAckOfOack(m, t)
    <3> DEFINE r == [s EXCEPT !.retries = 0, !.oackPending = FALSE,
                              !.lastAckedBlock = 0, !.nextBlockToSend = 1,
                              !.windowCache = {}]
               f == FillWindow(r)
    <3>1. \/ sessions' = [sessions EXCEPT ![t] = f]
          \/ sessions' = [sessions EXCEPT ![t] = s]
      BY <1>1, <2>1, <2>2 DEF SessionReceivesAckOfOack
    <3>2. /\ DOMAIN r = DOMAIN NewSession
          /\ r.state = s.state
          /\ r.currentBlock = s.currentBlock
          /\ r.timer = s.timer
      BY <1>1 DEF NewSession
    <3> HIDE DEF r
    <3>3. Kept(f)
      BY <1>1, <3>2, FillWindowKeeps
    <3> HIDE DEF f, s
    <3>4. QED
      BY <1>1, <1>2, <2>1, <3>1, <3>3 DEF Active, s
  <2>3. CASE SessionReceivesAck(m, t)
    <3>1. CASE sessions' = sessions
      BY <1>1, <1>2, <2>1, <3>1 DEF Active
    <3>2. ASSUME NEW a, sessions' = [sessions EXCEPT ![t] = AckBlock(s, a)]
          PROVE  \E r : Kept(r) /\ sessions' = [sessions EXCEPT ![t] = r]
      <4> DEFINE q == [s EXCEPT !.retries = 0,
                                !.windowCache = @ \ ((s.lastAckedBlock + 1)..a),
                                !.lastAckedBlock = a]
      <4>1. /\ DOMAIN q = DOMAIN NewSession
            /\ q.state = "active"
            /\ q.currentBlock = s.currentBlock
            /\ q.timer = s.timer
        BY <1>1 DEF NewSession
      <4>2. AckBlock(s, a) = Finish(q, "ok") \/ AckBlock(s, a) = FillWindow(q)
        BY DEF AckBlock
      <4> HIDE DEF q
      <4>3. Kept(Finish(q, "ok"))
        BY <4>1 DEF Finish, NewSession
      <4>4. Kept(FillWindow(q))
        BY <4>1, FillWindowKeeps
      <4>5. QED
        BY <3>2, <4>2, <4>3, <4>4
    <3>3. \/ sessions' = sessions
          \/ \E a : sessions' = [sessions EXCEPT ![t] = AckBlock(s, a)]
      BY <1>1, <2>3 DEF SessionReceivesAck
    <3> HIDE DEF s
    <3>4. QED
      BY <1>1, <1>2, <3>1, <3>2, <3>3 DEF Active, s
  <2>4. CASE SessionReceivesError(m, t)
    <3>1. sessions' = [sessions EXCEPT ![t] = Finish(s, "failed")]
      BY <2>4 DEF SessionReceivesError
    <3>2. Kept(Finish(s, "failed"))
      BY <1>1 DEF Finish, NewSession
    <3> HIDE DEF s
    <3>3. QED
      BY <1>1, <1>2, <3>1, <3>2 DEF Active, s
  <2>5. CASE SessionIgnores(m, t)
    BY <1>1, <1>2, <2>1, <2>5 DEF SessionIgnores, Active
  <2>6. QED
    BY <2>2, <2>3, <2>4, <2>5
<1>3. QED
  BY <1>1, <1>2

(* A session reads a datagram.                                              *)
LEMMA LimitReceives ==
    ASSUME LimitInv, IInv, IInv', NEW t \in Tids, ThrottledReceives(t)
    PROVE  LimitInv'
<1>1. PICK m \in net : \/ SessionReceivesAckOfOack(m, t)
                      \/ SessionReceivesAck(m, t)
                      \/ SessionReceivesError(m, t)
                      \/ SessionIgnores(m, t)
  BY DEF ThrottledReceives, SessionReceives
<1>2. m.to # "client" /\ \E R : Deliver(m, R)
  BY <1>1 DEF SessionReceivesAckOfOack, SessionReceivesAck, SessionReceivesError,
              SessionIgnores
<1>3. withheld \subseteq net' /\ (Duplication => net \subseteq net')
  BY <1>2, WithheldStays DEF LimitInv
<1>4. /\ Active(t)
      /\ sessions'[t].currentBlock = sessions[t].currentBlock
      /\ Active(t)' => sessions'[t].timer = sessions[t].timer
      /\ ~Active(t)' => ~sessions'[t].timer
      /\ \A u \in Tids \ {t} : sessions'[u] = sessions[u]
  BY <1>1, ReceivesKeeps
<1>5. CASE Active(t)' /\ UNCHANGED limitVars
  <2>1. \A p \in held[t] : MayWait(t, p)'
    BY DEF ThrottledReceives, Reads, IsSending
  <2>2. QED
    BY <1>3, <1>4, <1>5, <2>1, LimitQuiet
<1>6. CASE ~Active(t)' /\ StopTimers(t)
  BY <1>3, <1>4, <1>6, LimitStops
<1>7. QED
  BY <1>5, <1>6 DEF ThrottledReceives

(* The blocks of B, of which k is the last, as session t sends them.        *)
LEMMA BlocksSent ==
    ASSUME NEW t \in Tids, NEW s, s.cut = {}, NEW B \in SUBSET Nat, NEW k \in B,
           \A b \in B : b <= k
    PROVE  LET S == DataOf(t, s, B)
           IN  /\ Block(t, k) \in S
               /\ \A p \in S : p \in Message /\ p.to = "client" /\ p.tid = t
               /\ \A p \in S : p.blk <= Block(t, k).blk
               /\ \A p, q \in S : p.blk = q.blk => p = q
               /\ \A p \in S : \E b \in B : p = Block(t, b)
<1> DEFINE S == DataOf(t, s, B)
<1>1. S = {Block(t, b) : b \in B} /\ S \in SUBSET Message
  BY DataOfUncut DEF Block
<1>2. \A b \in B : /\ Block(t, b).blk = b
                   /\ Block(t, b).to = "client"
                   /\ Block(t, b).tid = t
  BY DEF Block, Data
<1> HIDE DEF S
<1>3. QED
  BY <1>1, <1>2 DEF S

(* A block that was read is sent with those that waited for it.             *)
LEMMA LimitReads ==
    ASSUME NothingUnnoticed, LimitInv, IInv, IInv', NEW t \in Tids,
           ThrottledReads(t)
    PROVE  LimitInv'
<1> DEFINE s == sessions[t]
           sent == (s.currentBlock + 1)..sessions'[t].currentBlock
<1>1. /\ sessions \in [Tids -> Session]
      /\ s \in Session
      /\ DOMAIN s = DOMAIN NewSession
      /\ InOrder(s)
      /\ s.cut = {}
      /\ s.oackPending => s.readTasks = {}
      /\ s.currentBlock \in Nat
      /\ s.timer \in BOOLEAN
  BY SessionFacts DEF SessionInv, NothingSent, Session
<1>2. IF sent # {} THEN SendsDeferred(t, DataOf(t, sessions'[t], sent))
                   ELSE UNCHANGED limitVars
  BY DEF ThrottledReads
<1>3. PICK b \in s.readTasks : BlockRead(t, b) \/ BlockReadIgnored(t, b)
  BY DEF ThrottledReads, SessionReads, BlockReadCut, NothingUnnoticed
<1>4. ~s.oackPending
  BY <1>1, <1>3
<1>5. CASE BlockReadIgnored(t, b)
  <2> DEFINE r == [s EXCEPT !.readTasks = @ \ {b}]
  <2>1. sessions' = [sessions EXCEPT ![t] = r] /\ UNCHANGED net
    BY <1>1, <1>5 DEF BlockReadIgnored
  <2>2. /\ r.state = s.state
        /\ r.oackPending = s.oackPending
        /\ r.currentBlock = s.currentBlock
        /\ r.windowCache = s.windowCache
        /\ r.timer = s.timer
    BY <1>1 DEF NewSession
  <2> HIDE DEF r
  <2>3. sessions'[t] = r /\ \A u \in Tids \ {t} : sessions'[u] = sessions[u]
    BY <1>1, <2>1
  <2>4. sent = {}
    BY <1>1, <2>2, <2>3, SMT
  <2>5. UNCHANGED limitVars
    BY <1>2, <2>4
  <2>6. \A p \in held[t] : MayWait(t, p)'
    BY <2>2, <2>3, <2>5 DEF LimitInv, LimitOf, MayWait, limitVars
  <2>7. Active(t)' = Active(t) /\ (sessions'[t].timer => Active(t)')
    BY <2>2, <2>3 DEF LimitInv, LimitOf, Active
  <2>8. withheld \subseteq net' /\ (Duplication => net \subseteq net')
    BY <2>1, WithheldStays DEF LimitInv
  <2>9. QED
    BY <2>2, <2>3, <2>5, <2>6, <2>7, <2>8, LimitQuiet
<1>6. CASE BlockRead(t, b)
  <2> DEFINE read == s.readBuffer \cup {b}
             new(k) == (s.currentBlock + 1)..k
             r(k) == [s EXCEPT
                        !.readTasks = @ \ {b},
                        !.readBuffer = read \ new(k),
                        !.currentBlock = k,
                        !.sentLastBlock = IF new(k) = {} THEN @ ELSE IsShort(s, k),
                        !.windowCache = @ \cup new(k),
                        !.timer = @ \/ new(k) # {}]
  <2>1. PICK k \in s.currentBlock..(s.nextBlockToSend - 1) :
            /\ sessions' = [sessions EXCEPT ![t] = FillWindow(r(k))]
            /\ Send(DataOf(t, s, new(k)))
            /\ Active(t)
    <3>1. [s EXCEPT !.cut = s.cut] = s
      BY <1>1 DEF Session
    <3>2. SendRead(t, b, s.cut)
      BY <1>6 DEF BlockRead
    <3> HIDE DEF s
    <3>3. QED
      BY <3>1, <3>2 DEF SendRead, s
  <2> DEFINE q == r(k)
             f == FillWindow(q)
  <2>2. /\ DOMAIN q = DOMAIN NewSession
        /\ q.state = s.state
        /\ q.oackPending = s.oackPending
        /\ q.currentBlock = k
        /\ q.windowCache = s.windowCache \cup new(k)
        /\ q.timer = (s.timer \/ new(k) # {})
        /\ q.cut = s.cut
    BY <1>1 DEF NewSession
  <2> HIDE DEF q
  <2>3. /\ f.state = "active"
        /\ ~f.oackPending
        /\ f.currentBlock = k
        /\ f.windowCache = s.windowCache \cup new(k)
        /\ f.timer = (s.timer \/ new(k) # {})
        /\ f.cut = {}
    BY <1>1, <1>4, <2>1, <2>2, FillWindowKeeps DEF Active
  <2>4. sessions' = [sessions EXCEPT ![t] = f]
    BY <2>1 DEF q
  <2> HIDE DEF f
  <2>5. sessions'[t] = f /\ \A u \in Tids \ {t} : sessions'[u] = sessions[u]
    BY <1>1, <2>4
  <2>6. k \in Nat /\ s.currentBlock <= k /\ sent = new(k)
    BY <1>1, <2>1, <2>3, <2>5, SMT DEF Session
  <2>7. Active(t)' /\ Active(t)
    BY <2>1, <2>3, <2>5 DEF Active
  <2>8. withheld \subseteq net' /\ (Duplication => net \subseteq net')
    BY <2>1, WithheldStays DEF LimitInv
  <2>9. \A p \in held[t] : \E x \in s.windowCache : p = Block(t, x)
    BY <1>4 DEF LimitInv, LimitOf, MayWait
  <2>10. CASE sent = {}
    <3>1. s.currentBlock + 1 \notin new(k)
      BY <2>6, <2>10
    <3>2. k = s.currentBlock
      BY <1>1, <2>6, <3>1, SMT
    <3>3. UNCHANGED limitVars
      BY <1>2, <2>10
    <3>4. sessions'[t].timer = sessions[t].timer
      BY <1>1, <2>3, <2>5, <2>6, <2>10
    <3>5. \A p \in held[t] : MayWait(t, p)'
      BY <2>3, <2>5, <2>9, <3>3 DEF MayWait, Block
    <3>6. sessions'[t].currentBlock = sessions[t].currentBlock
      BY <2>3, <2>5, <3>2
    <3>7. QED
      BY <2>5, <2>7, <2>8, <3>3, <3>4, <3>5, <3>6, LimitQuiet
  <2>11. CASE sent # {}
    <3> DEFINE S == DataOf(t, f, sent)
    <3>1. SendsDeferred(t, S)
      BY <1>2, <2>5, <2>11
    <3>2. /\ k \in sent /\ sent \in SUBSET Nat /\ \A x \in sent : x <= k
      <4>1. PICK x \in new(k) : TRUE
        BY <2>6, <2>11
      <4>2. k \in new(k) /\ new(k) \in SUBSET Nat /\ \A y \in new(k) : y <= k
        BY <1>1, <2>6, <4>1, SMT
      <4>3. QED
        BY <2>6, <4>2
    <3> HIDE DEF sent, s
    <3>3. /\ Block(t, k) \in S
          /\ \A p \in S : p \in Message /\ p.to = "client" /\ p.tid = t
          /\ \A p \in S : p.blk <= Block(t, k).blk
          /\ \A p, x \in S : p.blk = x.blk => p = x
          /\ \A p \in S : \E x \in sent : p = Block(t, x)
      BY <2>3, <3>2, BlocksSent
    <3>4. S \subseteq net'
      <4>1. \A x : PayloadOf(f, x) = PayloadOf(s, x)
        BY <1>1, <2>3 DEF PayloadOf
      <4>2. S = DataOf(t, s, sent)
        BY <4>1 DEF DataOf
      <4>3. QED
        BY <2>1, <2>6, <4>2 DEF Send, s
    <3>5. sessions'[t].timer
      BY <2>3, <2>5, <2>6, <2>11
    <3> DEFINE last == Block(t, k)
    <3>6. last = Block(t, sessions'[t].currentBlock)
      BY <2>3, <2>5
    <3> HIDE DEF S
    <3>7. \A p \in S \cup held[t] :
            \E x \in sessions'[t].windowCache : p = Block(t, x)
      BY <2>3, <2>5, <2>6, <2>9, <3>3
    <3> HIDE DEF last
    <3>8. /\ last \in S
          /\ \A p \in S : p.blk <= last.blk
      BY <3>3 DEF last
    <3>9. QED
      BY <2>5, <2>7, <2>8, <3>1, <3>3, <3>4, <3>5, <3>6, <3>7, <3>8, LimitSends
  <2>12. QED
    BY <2>10, <2>11
<1>7. QED
  BY <1>3, <1>5, <1>6

(* A session times out.                                                     *)
LEMMA LimitTimesOut ==
    ASSUME LimitInv, IInv, IInv', NEW t \in Tids, ThrottledTimeout(t)
    PROVE  LimitInv'
<1> DEFINE s == sessions[t]
<1>1. /\ sessions \in [Tids -> Session]
      /\ s \in Session
      /\ DOMAIN s = DOMAIN NewSession
      /\ InOrder(s)
      /\ s.cut = {}
      /\ s.state = "active"
      /\ s.currentBlock \in Nat
      /\ s.lastAckedBlock \in Nat
      /\ s.windowCache \in SUBSET Nat
  BY SessionFacts DEF SessionInv, Session, ThrottledTimeout, SessionTimeout,
                      SessionTimesOut, Active
<1>2. \A p \in held[t] : \E b \in s.windowCache : p = Block(t, b)
  BY DEF LimitInv, LimitOf, MayWait, ThrottledTimeout
<1>3. CASE s.retries + 1 > MaxRetries
  <2> DEFINE e == Finish([s EXCEPT !.retries = @ + 1], "failed")
  <2>1. sessions' = [sessions EXCEPT ![t] = e] /\ UNCHANGED net
    BY <1>3 DEF ThrottledTimeout, SessionTimeout, SessionTimesOut
  <2>2. e.state = "failed" /\ ~e.timer
    BY <1>1 DEF Finish, NewSession
  <2> HIDE DEF e
  <2>3. sessions'[t] = e /\ \A u \in Tids \ {t} : sessions'[u] = sessions[u]
    BY <1>1, <2>1
  <2>4. ~Active(t)' /\ ~sessions'[t].timer
    BY <2>2, <2>3 DEF Active
  <2>5. StopTimers(t)
    BY <2>4 DEF ThrottledTimeout
  <2>6. withheld \subseteq net' /\ (Duplication => net \subseteq net')
    BY <2>1, WithheldStays DEF LimitInv
  <2>7. QED
    BY <2>3, <2>4, <2>5, <2>6, LimitStops
<1>4. CASE ~(s.retries + 1 > MaxRetries)
  <2> DEFINE r == [s EXCEPT !.retries = @ + 1, !.timer = s.windowCache # {}]
  <2>1. /\ sessions' = [sessions EXCEPT ![t] = r]
        /\ net' = net \cup DataOf(t, s, s.windowCache)
        /\ UNCHANGED losses
    BY <1>4 DEF ThrottledTimeout, SessionTimeout, SessionTimesOut
  <2>2. /\ r.state = "active"
        /\ r.oackPending = s.oackPending
        /\ r.currentBlock = s.currentBlock
        /\ r.windowCache = s.windowCache
        /\ r.timer = (s.windowCache # {})
        /\ r.cut = {}
    BY <1>1 DEF NewSession
  <2> HIDE DEF r
  <2>3. sessions'[t] = r /\ \A u \in Tids \ {t} : sessions'[u] = sessions[u]
    BY <1>1, <2>1
  <2>4. Active(t)' /\ Active(t)
    BY <1>1, <2>2, <2>3 DEF Active
  <2>5. withheld \subseteq net' /\ (Duplication => net \subseteq net')
    BY <2>1 DEF LimitInv, LimitTypes
  <2>6. CASE s.windowCache # {}
    <3> DEFINE B == s.windowCache
               S == DataOf(t, r, B)
               last == Block(t, s.currentBlock)
    <3>1. SendsDeferred(t, S)
      BY <2>2, <2>3, <2>4, <2>6 DEF ThrottledTimeout
    <3>2. /\ s.currentBlock \in B /\ \A x \in B : x <= s.currentBlock
      BY <1>1, <2>6, SMT DEF InOrder
    <3>3. /\ last \in S
          /\ \A p \in S : p \in Message /\ p.to = "client" /\ p.tid = t
          /\ \A p \in S : p.blk <= last.blk
          /\ \A p, x \in S : p.blk = x.blk => p = x
          /\ \A p \in S : \E x \in B : p = Block(t, x)
      BY <1>1, <2>2, <3>2, BlocksSent
    <3>4. S \subseteq net'
      <4>1. \A x : PayloadOf(r, x) = PayloadOf(s, x)
        BY <1>1, <2>2 DEF PayloadOf
      <4>2. S = DataOf(t, s, B)
        BY <4>1 DEF DataOf
      <4>3. QED
        BY <2>1, <4>2
    <3>5. sessions'[t].timer
      BY <2>2, <2>3, <2>6
    <3>6. last = Block(t, sessions'[t].currentBlock)
      BY <2>2, <2>3
    <3>7. sessions'[t].windowCache = B
      BY <2>2, <2>3
    <3> HIDE DEF S, B, last, s
    <3>8. \A p \in S \cup held[t] :
            \E x \in sessions'[t].windowCache : p = Block(t, x)
      BY <1>2, <3>3, <3>7 DEF B
    <3>9. QED
      BY <2>3, <2>4, <2>5, <3>1, <3>3, <3>4, <3>5, <3>6, <3>8, LimitSends
  <2>7. CASE s.windowCache = {}
    <3>1. held[t] = {}
      BY <1>2, <2>7
    <3>2. /\ armed' = [armed EXCEPT ![t] = FALSE]
          /\ UNCHANGED <<held, deaf, withheld>>
      BY <2>2, <2>3, <2>4, <2>7 DEF ThrottledTimeout
    <3>3. /\ LimitTypes'
          /\ ~armed'[t]
          /\ \A u \in Tids \ {t} : armed'[u] = armed[u] /\ held'[u] = held[u]
      BY <2>5, <3>2 DEF LimitInv, LimitTypes
    <3>4. Block(t, s.currentBlock) \notin withheld
      BY <2>4, <3>1 DEF LimitInv, LimitOf
    <3>5. Block(t, sessions'[t].currentBlock) = Block(t, s.currentBlock)
      BY <2>2, <2>3
    <3>6. LimitOf(t)'
      BY <2>2, <2>3, <2>7, <3>1, <3>2, <3>3, <3>4, <3>5 DEF LimitOf
    <3>7. QED
      BY <2>3, <2>5, <3>2, <3>3, <3>6, OneSession
  <2>8. QED
    BY <2>6, <2>7
<1>5. QED
  BY <1>3, <1>4

(* The packet that waits is sent.                                           *)
LEMMA LimitSendTimeout ==
    ASSUME LimitInv, NEW t \in Tids, SendTimeout(t)
    PROVE  LimitInv'
<1>1. /\ held' = [held EXCEPT ![t] = {}]
      /\ armed' = [armed EXCEPT ![t] = TRUE]
      /\ withheld' = withheld \ held[t]
      /\ net \subseteq net'
      /\ UNCHANGED <<sessions, deaf>>
      /\ held[t] # {}
  BY DEF SendTimeout, IsSending, Send
<1>2. /\ LimitTypes'
      /\ armed'[t]
      /\ held'[t] = {}
      /\ \A u \in Tids \ {t} : armed'[u] = armed[u] /\ held'[u] = held[u]
  BY <1>1 DEF LimitInv, LimitTypes
<1>3. LimitOf(t)
  BY DEF LimitInv
<1>4. sessions[t].timer /\ Active(t)
  BY <1>1, <1>3 DEF LimitOf
<1> DEFINE last == Block(t, sessions[t].currentBlock)
<1>5. last \notin withheld'
  BY <1>1, <1>3, <1>4 DEF LimitOf
<1>6. Block(t, sessions[t].currentBlock)' = last
  BY <1>1
<1> HIDE DEF last
<1>7. LimitOf(t)'
  BY <1>1, <1>2, <1>4, <1>5, <1>6 DEF LimitOf, Active
<1>8. QED
  BY <1>1, <1>2, <1>7, OneSession

(* Whatever the client makes of a datagram, it has taken it.                *)
LEMMA ClientDelivers ==
    ASSUME NEW m,
           \/ ReceiveData(m)
           \/ ReceiveDataWriteFails(m)
           \/ ReceiveUnexpectedData(m)
           \/ ReceiveOack(m)
           \/ ReceiveError(m)
           \/ ReceiveStray(m)
    PROVE  \E R : Deliver(m, R)
<1>1. CASE ReceiveData(m)
  BY <1>1 DEF ReceiveData
<1>2. CASE ReceiveDataWriteFails(m)
  BY <1>2 DEF ReceiveDataWriteFails
<1>3. CASE ReceiveUnexpectedData(m) \/ ReceiveOack(m)
  BY <1>3 DEF ReceiveUnexpectedData, ReceiveOack
<1>4. CASE ReceiveError(m) \/ ReceiveStray(m)
  BY <1>4 DEF ReceiveError, ReceiveStray
<1>5. QED
  BY <1>1, <1>2, <1>3, <1>4

(* A step of the server's own port, the client, the user or the network, or *)
(* a datagram that makes a session deaf.                                    *)
LEMMA LimitOthers ==
    ASSUME LimitInv,
           \/ \E t \in Tids : GoesDeaf(t)
           \/ ServerRejects /\ UNCHANGED limitVars
           \/ ThrottledClientReceives
           \/ ClientTimeout /\ UNCHANGED limitVars
           \/ UserActs /\ UNCHANGED limitVars
           \/ ThrottledNetworkLoses
           \/ ThrottledNetworkDiscards
           \/ UNCHANGED throttledVars
    PROVE  LimitInv'
<1> USE DEF LimitInv, LimitTypes
<1>1. CASE \E t \in Tids : GoesDeaf(t)
  <2>1. PICK t \in Tids : GoesDeaf(t)
    BY <1>1
  <2>2. deaf' \in [Tids -> BOOLEAN] /\ UNCHANGED <<sessions, armed, held, withheld, net>>
    BY <2>1 DEF GoesDeaf, vars
  <2>3. QED
    BY <2>2, LimitRests
<1>2. CASE ServerRejects /\ UNCHANGED limitVars
  <2>1. PICK m \in net : RejectRequest(m)
    BY <1>2 DEF ServerRejects
  <2>2. UNCHANGED <<sessions, armed, held, deaf, withheld>>
    BY <1>2, <2>1 DEF RejectRequest, limitVars
  <2>3. m.to # "client" /\ \E R : Deliver(m, R)
    BY <2>1 DEF RejectRequest
  <2>4. withheld \subseteq net' /\ (Duplication => net \subseteq net')
    BY <2>3, WithheldStays
  <2>5. QED
    BY <2>2, <2>4, LimitRests
<1>3. CASE ThrottledClientReceives
  <2>1. UNCHANGED <<sessions, armed, held, deaf, withheld>>
    BY <1>3 DEF ThrottledClientReceives, limitVars
  <2>2. \E m \in net \ withheld : \E R : Deliver(m, R)
    BY <1>3, ClientDelivers DEF ThrottledClientReceives
  <2>3. withheld \subseteq net' /\ (Duplication => net \subseteq net')
    BY <2>2, WithheldStays
  <2>4. QED
    BY <2>1, <2>3, LimitRests
<1>4. CASE (ClientTimeout \/ UserActs) /\ UNCHANGED limitVars
  <2>1. UNCHANGED <<sessions, armed, held, deaf, withheld>>
    BY <1>4 DEF ClientTimeout, UserActs, limitVars
  <2>2. (\E R : Send(R)) \/ UNCHANGED net
    BY <1>4 DEF ClientTimeout, ClientTimesOut, UserActs, Abort, BeginWhileRunning
  <2>3. withheld \subseteq net' /\ (Duplication => net \subseteq net')
    BY <2>2, WithheldStays
  <2>4. QED
    BY <2>1, <2>3, LimitRests
<1>5. CASE ThrottledNetworkLoses
  <2>1. UNCHANGED <<sessions, armed, held, deaf, withheld>>
    BY <1>5 DEF ThrottledNetworkLoses, limitVars
  <2>2. \E m \in net \ withheld : Lose(m)
    BY <1>5 DEF ThrottledNetworkLoses
  <2>3. withheld \subseteq net' /\ (Duplication => net \subseteq net')
    BY <2>2, WithheldStays
  <2>4. QED
    BY <2>1, <2>3, LimitRests
<1>6. CASE ThrottledNetworkDiscards
  <2>1. UNCHANGED <<sessions, armed, held, deaf>>
    BY <1>6 DEF ThrottledNetworkDiscards
  <2>2. PICK m \in net : Discard(m) /\ withheld' = withheld \ {m}
    BY <1>6 DEF ThrottledNetworkDiscards
  <2>3. withheld' \subseteq withheld \cap net' /\ ~Duplication
    BY <2>2 DEF Discard
  <2>4. QED
    BY <2>1, <2>3, LimitRests
<1>7. CASE UNCHANGED throttledVars
  <2>1. UNCHANGED <<sessions, armed, held, deaf, withheld, net>>
    BY <1>7 DEF throttledVars
  <2>2. QED
    BY <2>1, LimitRests
<1>8. QED
  BY <1>1, <1>2, <1>3, <1>4, <1>5, <1>6, <1>7

-----------------------------------------------------------------------------
\* The theorems

(* The invariant of Download, and that of the limit.                        *)
ThrottledInv == IInv /\ LimitInv

LEMMA ThrottledInitInv == ThrottledInit => ThrottledInv
<1> SUFFICES ASSUME ThrottledInit PROVE ThrottledInv
  OBVIOUS
<1>1. /\ armed = [t \in Tids |-> FALSE]
      /\ held = [t \in Tids |-> {}]
      /\ deaf = [t \in Tids |-> FALSE]
      /\ withheld = {}
  BY DEF ThrottledInit
<1>2. \A t \in Tids : ~sessions[t].timer
  BY DEF ThrottledInit, Init, SessionsInit, NewSession
<1>3. LimitInv
  BY <1>1, <1>2 DEF LimitInv, LimitTypes, LimitOf
<1>4. QED
  BY <1>3, InitIInv DEF ThrottledInit, ThrottledInv

LEMMA ThrottledNextInv ==
    ASSUME NothingUnnoticed, ThrottledInv, [ThrottledNext]_throttledVars
    PROVE  ThrottledInv'
<1>1. IInv /\ LimitInv
  BY DEF ThrottledInv
<1>2. IInv'
  <2>1. CASE [Next]_vars
    BY <1>1, <2>1, NextIInv
  <2>2. CASE /\ \E t \in Tids : Send(held[t])
             /\ UNCHANGED <<sessions, client, receiveBuffer, file>>
    BY <1>1, <2>2, SendTimeoutKeeps
  <2>3. CASE /\ \E m \in net : Discard(m)
             /\ UNCHANGED <<sessions, client, receiveBuffer, file>>
    <3>1. NetTypeOK' /\ net' \subseteq net
      BY <1>1, <2>3 DEF Discard, IInv, TypeOK, NetTypeOK
    <3>2. QED
      BY <1>1, <2>3, <3>1, NetworkStep
  <2>4. QED
    BY <2>1, <2>2, <2>3, ThrottledStep
<1>3. LimitInv'
  BY <1>1, <1>2, LimitStarts, LimitReceives, LimitReads, LimitTimesOut,
     LimitSendTimeout, LimitOthers DEF ThrottledNext
<1>4. QED
  BY <1>2, <1>3 DEF ThrottledInv

(* Download and the limit keep their invariants together: what has waited   *)
(* may be sent, because it is in the window still.                          *)
THEOREM ThrottledInductive ==
    ASSUME NothingUnnoticed
    PROVE  ThrottledSpec => []ThrottledInv
<1>1. ThrottledInv /\ [ThrottledNext]_throttledVars => ThrottledInv'
  BY ThrottledNextInv
<1>2. QED
  BY <1>1, ThrottledInitInv, PTL DEF ThrottledSpec

(* Whatever is delayed, dropped or not read: the file is a beginning of the *)
(* server's, success means the whole file, and nothing is acknowledged      *)
(* before it is written.                                                    *)
THEOREM ThrottledIsSafe ==
    ASSUME NothingUnnoticed
    PROVE  ThrottledSpec => [](/\ FileIsPrefix
                               /\ ClientOkMeansWholeFile
                               /\ SessionOkMeansClientOk
                               /\ AckedBlocksAreWritten)
<1>1. ThrottledInv => /\ FileIsPrefix
                      /\ ClientOkMeansWholeFile
                      /\ SessionOkMeansClientOk
                      /\ AckedBlocksAreWritten
  BY IInvPrefix, IInvWhole, IInvFollows, IInvWritten DEF ThrottledInv
<1>2. QED
  BY <1>1, ThrottledInductive, PTL

(* If the network keeps what it repeats, a download under a limit is a      *)
(* download.                                                                *)
THEOREM ThrottledImplementsDownload ==
    ASSUME Duplication, NothingUnnoticed
    PROVE  ThrottledSpec => Spec
<1>1. ThrottledInit => Init
  BY DEF ThrottledInit
<1>2. ASSUME ThrottledInv, [ThrottledNext]_throttledVars PROVE [Next]_vars
  <2>1. CASE /\ \E t \in Tids : Send(held[t])
             /\ UNCHANGED <<sessions, client, receiveBuffer, file>>
    <3>1. PICK t \in Tids : Send(held[t])
      BY <2>1
    <3>2. held[t] \subseteq net
      BY <1>2 DEF ThrottledInv, LimitInv, LimitOf
    <3>3. QED
      BY <2>1, <3>1, <3>2 DEF Send, vars
  <2>2. QED
    BY <1>2, <2>1, ThrottledStep DEF Discard
<1>3. QED
  BY <1>1, <1>2, ThrottledInductive, PTL DEF ThrottledSpec, Spec

(* Whatever the limit holds back, a session's timer runs or a packet waits  *)
(* exactly when its timer would run without a limit.                        *)
THEOREM TimersAlwaysAgree ==
    ASSUME NothingUnnoticed
    PROVE  ThrottledSpec => []TimersAgree
<1>1. ThrottledInv => TimersAgree
  BY DEF ThrottledInv, LimitInv, LimitOf, TimersAgree, IsSending
<1>2. QED
  BY <1>1, ThrottledInductive, PTL

(* Of the blocks an active session has sent, the last is never dropped: it  *)
(* waits until it is sent.                                                  *)
THEOREM LastBlockWaits ==
    ASSUME NothingUnnoticed
    PROVE  ThrottledSpec => []LastBlockGoesOut
<1>1. ASSUME ThrottledInv PROVE LastBlockGoesOut
  <2>1. \A t \in Tids : sessions[t].cut = {}
    BY <1>1, SessionFacts DEF ThrottledInv, SessionInv
  <2>2. \A t \in Tids : Data("client", t, sessions[t].currentBlock,
                             PayloadOf(sessions[t], sessions[t].currentBlock))
                            = Block(t, sessions[t].currentBlock)
    BY <2>1 DEF PayloadOf, Block
  <2>3. QED
    BY <1>1, <2>2 DEF ThrottledInv, LimitInv, LimitOf, LastBlockGoesOut
<1>2. QED
  BY <1>1, ThrottledInductive, PTL
=============================================================================
