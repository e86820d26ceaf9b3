-------------------------- MODULE ThrottledDownload --------------------------
(***************************************************************************)
(* A download under a speed limit, as ThrottledUpload is an upload under   *)
(* one. Here several packets may be sent one after the other, but still    *)
(* only one may wait: of a window the last one that has to, and those      *)
(* before it are dropped.                                                  *)
(*                                                                         *)
(* net has what the sessions have handed to sendPacketDeferred() as well   *)
(* as what has really been sent; withheld tells the one from the other.    *)
(***************************************************************************)
EXTENDS Download

VARIABLES
    armed,    \* whether m_timer of a session is active
    held,     \* m_pendingSendPacket while m_sendTimer is active: {} or {packet}
    deaf,     \* whether readyRead() of its socket is not emitted any more
    withheld  \* the packets in net that have not been sent

limitVars     == <<armed, held, deaf, withheld>>
throttledVars == <<net, losses, sessions, client, receiveBuffer, file,
                   armed, held, deaf, withheld>>

ThrottledInit ==
    /\ Init
    /\ armed = [t \in Tids |-> FALSE]
    /\ held = [t \in Tids |-> {}]
    /\ deaf = [t \in Tids |-> FALSE]
    /\ withheld = {}

-----------------------------------------------------------------------------

\* The packets in S are sent by session t one after the other, in the order of
\* their blocks; those in late have to wait, each in the place of the one
\* before. The timer is left as the last packet leaves it.

\* Mutant: what waits is not replaced
SendFirstLate(t, S, late) ==
    /\ held' = [held EXCEPT ![t] =
            IF @ # {} THEN @
            ELSE {p \in late : \A q \in late : p.blk <= q.blk}]
    /\ armed' = [armed EXCEPT ![t] = \A q \in late : \E p \in S \ late : q.blk < p.blk]
    /\ withheld' = (withheld \ (S \ late)) \cup (late \ net)
    /\ UNCHANGED deaf

\* Mutant: the timer stopped for a packet that waits is not armed by the next
SendStopped(t, S, late) ==
    /\ held' = [held EXCEPT ![t] =
            IF late = {} THEN @
            ELSE {p \in late : \A q \in late : q.blk <= p.blk}]
    /\ armed' = [armed EXCEPT ![t] = FALSE]
    /\ withheld' = (withheld \ (S \ late)) \cup (late \ net)
    /\ UNCHANGED deaf

SendDeferred(t, S, late) ==
    /\ held' = [held EXCEPT ![t] =
            IF late = {} THEN @
            ELSE {p \in late : \A q \in late : q.blk <= p.blk}]
    /\ armed' = [armed EXCEPT ![t] = \A q \in late : \E p \in S \ late : q.blk < p.blk]
    /\ withheld' = (withheld \ (S \ late)) \cup (late \ net)
    /\ UNCHANGED deaf

SendsDeferred(t, S) == \E late \in SUBSET S : SendDeferred(t, S, late)

\* finish() stops both timers.
StopTimers(t) ==
    /\ armed' = [armed EXCEPT ![t] = FALSE]
    /\ held' = [held EXCEPT ![t] = {}]
    /\ UNCHANGED <<deaf, withheld>>

\* The timer for a packet that waits
IsSending(t) == held[t] # {}

ThrottledStarts(t) ==
    /\ SessionStarts(t)
    /\ IF sessions'[t].oackPending THEN SendsDeferred(t, {Oack(t)})
                                   ELSE UNCHANGED limitVars

\* onReadyRead() returns at once while a packet waits.
Reads(t) == ~IsSending(t) /\ ~deaf[t]

ThrottledReceives(t) ==
    /\ Reads(t)
    /\ SessionReceives(t)
    /\ IF Active(t)' THEN UNCHANGED limitVars ELSE StopTimers(t)

\* readyRead() is emitted once for a datagram that is not read, and not again
\* until it is.
GoesDeaf(t) ==
    /\ IsSending(t)
    /\ \E m \in net : m.to = "session" /\ m.tid = t
    /\ deaf' = [deaf EXCEPT ![t] = TRUE]
    /\ UNCHANGED <<vars, armed, held, withheld>>

\* A read is handled while a packet waits, too.
ThrottledReads(t) ==
    /\ SessionReads(t)
    /\ LET sent == (sessions[t].currentBlock + 1)..sessions'[t].currentBlock
       IN  IF sent # {} THEN SendsDeferred(t, DataOf(t, sessions'[t], sent))
                        ELSE UNCHANGED limitVars

\* What is in windowCache is sent again; nothing else arms the timer.
ThrottledTimeout(t) ==
    /\ armed[t]
    /\ SessionTimeout(t)
    /\ LET s == sessions'[t]
       IN  \/ Active(t)' /\ s.windowCache # {}
                /\ SendsDeferred(t, DataOf(t, s, s.windowCache))
           \/ Active(t)' /\ s.windowCache = {}
                /\ armed' = [armed EXCEPT ![t] = FALSE]
                /\ UNCHANGED <<held, deaf, withheld>>
           \/ ~Active(t)' /\ StopTimers(t)

\* Mutant: the retransmission timer is not armed
SendsUnarmed(t) ==
    /\ IsSending(t)
    /\ held' = [held EXCEPT ![t] = {}]
    /\ withheld' = withheld \ held[t]
    /\ Send(held[t])
    /\ UNCHANGED <<sessions, client, receiveBuffer, file, armed, deaf>>

\* onSendTimerTimeout(). (A copy of the packet may have left before and arrived.)
SendTimeout(t) ==
    /\ IsSending(t)
    /\ held' = [held EXCEPT ![t] = {}]
    /\ armed' = [armed EXCEPT ![t] = TRUE]
    /\ withheld' = withheld \ held[t]
    /\ Send(held[t])
    /\ UNCHANGED <<sessions, client, receiveBuffer, file, deaf>>

-----------------------------------------------------------------------------
\* The client and the network have only what has been sent.

ThrottledClientReceives ==
    /\ \E m \in net \ withheld :
        /\ Arrives(m)
        /\ \/ ReceiveData(m)
           \/ ReceiveDataWriteFails(m)
           \/ ReceiveUnexpectedData(m)
           \/ ReceiveOack(m)
           \/ ReceiveError(m)
           \/ ReceiveStray(m)
    /\ UNCHANGED <<sessions, limitVars>>

ThrottledNetworkLoses ==
    /\ \E m \in net \ withheld : ~Unread(m) /\ Lose(m)
    /\ UNCHANGED <<sessions, client, receiveBuffer, file, limitVars>>

\* A packet that was replaced: it waits no more and has not been sent.
Dropped(m) == m \in withheld /\ m \notin held[m.tid]

\* Besides what Download discards: what a deaf session does not read, and what
\* was dropped.
ThrottledNetworkDiscards ==
    /\ \E m \in net :
        /\ \/ Unread(m)
           \/ m.to = "session" /\ deaf[m.tid]
           \/ Dropped(m)
        /\ m \in withheld => Dropped(m)
        /\ Discard(m)
        /\ withheld' = withheld \ {m}
    /\ UNCHANGED <<sessions, client, receiveBuffer, file, armed, held, deaf>>

ThrottledNext ==
    \/ \E t \in Tids :
        \/ ThrottledStarts(t)
        \/ ThrottledReceives(t)
        \/ GoesDeaf(t)
        \/ ThrottledReads(t)
        \/ ThrottledTimeout(t)
        \/ SendTimeout(t)
    \/ ServerRejects /\ UNCHANGED limitVars
    \/ ThrottledClientReceives
    \/ ClientTimeout /\ UNCHANGED limitVars
    \/ UserActs /\ UNCHANGED limitVars
    \/ ThrottledNetworkLoses
    \/ ThrottledNetworkDiscards

ThrottledSpec == ThrottledInit /\ [][ThrottledNext]_throttledVars

\* As in Download, with one more timer.
ThrottledLiveSpec ==
    /\ ThrottledSpec
    /\ \A t \in Tids :
        /\ WF_throttledVars(ThrottledStarts(t))
        /\ WF_throttledVars(ThrottledReceives(t))
        /\ WF_throttledVars(ThrottledReads(t))
        /\ WF_throttledVars(ThrottledTimeout(t))
        /\ WF_throttledVars(SendTimeout(t))
    /\ WF_throttledVars(ThrottledClientReceives)
    /\ WF_throttledVars(ClientTimeout /\ UNCHANGED limitVars)
    /\ WF_throttledVars(ThrottledNetworkDiscards)

-----------------------------------------------------------------------------
\* Safety

\* The limit never leaves a session asleep: whenever its timer would run
\* without a limit, it runs or a packet waits for its turn, and never otherwise.
TimersAgree ==
    \A t \in Tids : sessions[t].timer <=> armed[t] \/ IsSending(t)

\* Blocks of a window may be dropped for one that waits, but never the last of
\* them: as long as it has not been sent it waits, whatever was repeated since.
LastBlockGoesOut ==
    \A t \in Tids :
        LET s == sessions[t]
            last == Data("client", t, s.currentBlock, PayloadOf(s, s.currentBlock))
        IN  Active(t) /\ last \in withheld => held[t] = {last}

-----------------------------------------------------------------------------
\* Liveness

\* The download ends for a reason other than that somebody waits in vain: it
\* succeeds, is refused, fails on the disk or is aborted.
EndsForAReason == ~Running /\ client.retries <= MaxRetries

\* With no more losses than retries and timeouts longer than the round trip and
\* any wait, a download under a limit succeeds or ends for a reason, except that
\* a block may be dropped, or that a datagram that comes while one waits may
\* make the session deaf.
SucceedsUnlessMuted ==
    <>(\/ EndsForAReason
       \/ \E m \in withheld : Dropped(m)
       \/ \E t \in Tids : deaf[t])
=============================================================================
