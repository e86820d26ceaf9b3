--------------------------- MODULE ThrottledUpload ---------------------------
(***************************************************************************)
(* An upload under a speed limit. The limit adds to every session a timer  *)
(* and one pending packet: what cannot be sent now waits there, and the    *)
(* session reads nothing meanwhile. How long a packet has to wait is what  *)
(* TokenBucket is about; here it is any time, or none.                     *)
(*                                                                         *)
(* The steps are those of Upload, with what the limit does on top. net has *)
(* what the sessions have handed to sendPacketDeferred() as well as what   *)
(* has really been sent; withheld tells the one from the other.            *)
(***************************************************************************)
EXTENDS Upload

VARIABLES
    timer,    \* whether m_timer of a session is active
    held,     \* m_pendingSendPacket while m_sendTimer is active: {} or {packet}
    deaf,     \* whether readyRead() of its socket is not emitted any more
    withheld  \* the packets in net that have not been sent

limitVars     == <<timer, held, deaf, withheld>>
throttledVars == <<net, losses, sessions, receiveBuffer, file, creator, client,
                   windowCache, timer, held, deaf, withheld>>

LimitTypeOK ==
    /\ timer \in [Tids -> BOOLEAN]
    /\ held \in [Tids -> SUBSET Message]
    /\ \A t \in Tids : Cardinality(held[t]) <= 1
    /\ deaf \in [Tids -> BOOLEAN]
    /\ withheld \subseteq net

ThrottledInit ==
    /\ Init
    /\ timer = [t \in Tids |-> FALSE]
    /\ held = [t \in Tids |-> {}]
    /\ deaf = [t \in Tids |-> FALSE]
    /\ withheld = {}

-----------------------------------------------------------------------------

\* sendPacketImmediate(), and armRetransmit() unless the session is over
SendNow(t, packet) ==
    /\ timer' = [timer EXCEPT ![t] = Active(t)']
    /\ held' = [held EXCEPT ![t] = IF Active(t)' THEN @ ELSE {}]
    /\ withheld' = withheld \ {packet}

\* Mutant: what waits is not replaced
KeepWaiting(t, packet) ==
    /\ timer' = [timer EXCEPT ![t] = FALSE]
    /\ held' = [held EXCEPT ![t] = IF ~Active(t)' THEN {}
                                   ELSE IF @ # {} THEN @
                                   ELSE {packet}]
    /\ withheld' = withheld \cup ({packet} \ net)

\* The packet waits, in the place of another one that may do so. When the
\* session is over, finish() stops the timer at once.
SendLater(t, packet) ==
    /\ timer' = [timer EXCEPT ![t] = FALSE]
    /\ held' = [held EXCEPT ![t] = IF Active(t)' THEN {packet} ELSE {}]
    /\ withheld' = withheld \cup ({packet} \ net)

\* sendPacketDeferred() of the session's last packet
SendDeferred(t) ==
    /\ \/ SendNow(t, LastPacket(t, sessions'[t]))
       \/ SendLater(t, LastPacket(t, sessions'[t]))
    /\ UNCHANGED deaf

\* finish() stops both timers.
StopTimers(t) ==
    /\ timer' = [timer EXCEPT ![t] = FALSE]
    /\ held' = [held EXCEPT ![t] = {}]
    /\ UNCHANGED <<deaf, withheld>>

\* The timer for a packet that waits
IsSending(t) == held[t] # {}

ThrottledStarts(t) ==
    /\ SessionStarts(t)
    /\ IF Active(t)' THEN SendDeferred(t) ELSE UNCHANGED limitVars

\* onReadyRead() returns at once while a packet waits.
Reads(t) == ~IsSending(t) /\ ~deaf[t]

\* The ACK has to wait, but onReadyRead() does not look again before it has read
\* all there is: processDatagram() drops what has come with the DATA or comes
\* before the loop ends. No network has lost it, and nothing counts it.
AnswersLater(m, t) ==
    /\ AnswersUnexpectedData(m, t)
    /\ SendLater(t, LastPacket(t, sessions'[t]))
    /\ \E dropped \in SUBSET {d \in net : d.to = "session" /\ d.tid = t} :
        net' = (IF Duplication THEN net ELSE net \ ({m} \cup dropped))
                    \cup {Ack("client", t, sessions[t].currentBlock)}
    /\ UNCHANGED <<losses, deaf>>

ThrottledReceives(t) ==
    /\ Reads(t)
    /\ \E m \in net :
        /\ Fresh(m)
        /\ \/ /\ SessionReceivesData(m, t) \/ SessionIgnores(m, t)
              /\ UNCHANGED limitVars
           \/ /\ SessionReceivesUnexpectedData(m, t)
              /\ SendNow(t, LastPacket(t, sessions'[t]))
              /\ UNCHANGED deaf
           \/ AnswersLater(m, t)
           \/ SessionReceivesError(m, t) /\ StopTimers(t)
    /\ UNCHANGED clientVars

\* readyRead() is emitted once for a datagram that is not read, and not again
\* until it is.
GoesDeaf(t) ==
    /\ IsSending(t)
    /\ \E m \in net : m.to = "session" /\ m.tid = t
    /\ deaf' = [deaf EXCEPT ![t] = TRUE]
    /\ UNCHANGED <<vars, timer, held, withheld>>

ThrottledWrites(t) ==
    /\ \/ BlockWritten(t) /\ SendDeferred(t)
       \/ BlockWriteFails(t) /\ StopTimers(t)
       \/ BlockWriteIgnored(t) /\ UNCHANGED limitVars
    /\ UNCHANGED clientVars

ThrottledTimeout(t) ==
    /\ timer[t]
    /\ SessionTimeout(t)
    /\ IF Active(t)' THEN SendDeferred(t) ELSE StopTimers(t)

\* Mutant: the retransmission timer is not armed
SendsUnarmed(t) ==
    /\ IsSending(t)
    /\ held' = [held EXCEPT ![t] = {}]
    /\ withheld' = withheld \ held[t]
    /\ Send(held[t])
    /\ UNCHANGED <<sessions, receiveBuffer, file, creator, clientVars, timer, deaf>>

\* Mutant: the packet is dropped
SendsNothing(t) ==
    /\ IsSending(t)
    /\ held' = [held EXCEPT ![t] = {}]
    /\ timer' = [timer EXCEPT ![t] = TRUE]
    /\ UNCHANGED <<vars, deaf, withheld>>

\* onSendTimerTimeout(). (A copy of the packet may have left before and arrived.)
SendTimeout(t) ==
    /\ IsSending(t)
    /\ held' = [held EXCEPT ![t] = {}]
    /\ timer' = [timer EXCEPT ![t] = TRUE]
    /\ withheld' = withheld \ held[t]
    /\ Send(held[t])
    /\ UNCHANGED <<sessions, receiveBuffer, file, creator, clientVars, deaf>>

-----------------------------------------------------------------------------
\* The client and the network have only what has been sent.

ThrottledClientReceives ==
    /\ \E m \in net \ withheld :
        /\ Fresh(m)
        /\ \/ ReceiveOack(m)
           \/ ReceiveFirstAck(m)
           \/ ReceiveAck(m)
           \/ ReceiveUnexpectedAck(m)
           \/ ReceiveError(m)
           \/ ReceiveStray(m)
    /\ UNCHANGED <<serverVars, limitVars>>

ThrottledNetworkLoses ==
    /\ \E m \in net \ withheld : ~Unread(m) /\ MayGetLost(m) /\ Lose(m)
    /\ UNCHANGED <<serverVars, clientVars, limitVars>>

\* Besides what Upload discards: what a deaf session does not read, and what was
\* replaced and will never be sent.
ThrottledNetworkDiscards ==
    /\ \E m \in net :
        /\ \/ Unread(m)
           \/ m.to = "session" /\ deaf[m.tid]
           \/ m \in withheld
        /\ m \in withheld => m \notin held[m.tid]
        /\ Discard(m)
        /\ withheld' = withheld \ {m}
    /\ UNCHANGED <<serverVars, clientVars, timer, held, deaf>>

ThrottledNext ==
    \/ \E t \in Tids :
        \/ ThrottledStarts(t)
        \/ ThrottledReceives(t)
        \/ GoesDeaf(t)
        \/ ThrottledWrites(t)
        \/ ThrottledTimeout(t)
        \/ SendTimeout(t)
    \/ ServerRejects /\ UNCHANGED limitVars
    \/ ThrottledClientReceives
    \/ ClientTimeout /\ UNCHANGED limitVars
    \/ UserActs /\ UNCHANGED limitVars
    \/ ThrottledNetworkLoses
    \/ ThrottledNetworkDiscards

ThrottledSpec == ThrottledInit /\ [][ThrottledNext]_throttledVars

\* As in Upload, with one more timer.
ThrottledLiveSpec ==
    /\ ThrottledSpec
    /\ \A t \in Tids :
        /\ WF_throttledVars(ThrottledStarts(t))
        /\ WF_throttledVars(ThrottledReceives(t))
        /\ WF_throttledVars(ThrottledWrites(t))
        /\ WF_throttledVars(ThrottledTimeout(t))
        /\ WF_throttledVars(SendTimeout(t))
    /\ WF_throttledVars(ThrottledClientReceives)
    /\ WF_throttledVars(ClientTimeout /\ UNCHANGED limitVars)
    /\ WF_throttledVars(ThrottledNetworkDiscards)

-----------------------------------------------------------------------------
\* Safety

\* An active session always has a timer that will wake it: it waits for an
\* answer or for its turn to send, whatever replaced or repeated what.
AlwaysTimed == \A t \in Tids : Active(t) => timer[t] \/ IsSending(t)

\* There is room for one packet only, and a second one replaces it: what gets
\* lost that way is never the session's last word.
LastPacketGoesOut ==
    \A t \in Tids : Active(t) /\ LastPacket(t, sessions[t]) \in withheld =>
        held[t] = {LastPacket(t, sessions[t])}

-----------------------------------------------------------------------------
\* Liveness

\* The upload ends for a reason other than that somebody waits in vain: it
\* succeeds, is refused, fails on the disk or is aborted.
EndsForAReason ==
    \/ ~Running /\ (client.retries <= MaxRetries \/ creator = NoTid)
    \/ \E t \in Tids : sessions[t].state = "failed" /\ sessions[t].retries <= MaxRetries

\* With no more losses than retries and timeouts longer than the round trip, an
\* upload under a limit succeeds or ends for a reason, however many datagrams are
\* dropped because the answer to one before them has to wait; except that its
\* final ACK may be withheld for ever, or a datagram that comes while a packet
\* waits may make the session deaf.
SucceedsUnlessMuted ==
    <>(\/ EndsForAReason
       \/ \E m \in withheld : IsFinalAck(m)
       \/ \E t \in Tids : deaf[t])
=============================================================================
