------------------------------ MODULE Download ------------------------------
(***************************************************************************)
(* A download: one TftpClient, and the sessions the server starts for its  *)
(* request. Every copy of the request that reaches the server starts one.  *)
(*                                                                         *)
(* The protocol itself cannot tell an old datagram from a new one with the *)
(* same 16-bit number, nor a late OACK from the first. Fresh and LateOack  *)
(* say which of those the network may deliver.                             *)
(***************************************************************************)
EXTENDS ReadSession, DownloadClient

CONSTANTS
    LateOack,       \* an OACK may still arrive when the client has replied
    PatientTimers   \* timeouts are long: see MaySessionTimeOut

ASSUME DownloadAssumption ==
    /\ LateOack \in BOOLEAN
    /\ PatientTimers \in BOOLEAN

vars == <<net, losses, sessions, client, receiveBuffer, file>>

TypeOK ==
    /\ NetTypeOK
    /\ SessionsTypeOK
    /\ ClientTypeOK

Init ==
    /\ NetInit(Rrq)
    /\ SessionsInit
    /\ ClientInit

-----------------------------------------------------------------------------
\* Hypotheses about the network and the clocks

\* m is less than a whole turn of the block numbers behind the candidates it
\* is compared with: no datagram lives while 65536 blocks are transferred.
Fresh(m) ==
    CASE m.op = "DATA" -> m.blk + BlockMod > client.block + Window
      [] m.op = "ACK"  -> m.blk + BlockMod > sessions[m.tid].currentBlock
      [] OTHER         -> TRUE

\* No OACK of the session it is locked to reaches a client that has sent an ACK.
\* One of another session may come at any time: it is a stray.
OackInTime(m) ==
    m.op = "OACK" /\ m.tid = client.tid => LateOack \/ client.lastPacket = "RRQ"

Arrives(m) == Fresh(m) /\ OackInTime(m)

\* With patient timers nothing times out while a datagram or a read is under
\* way. Both ends then wait equally long, so the client does not time out
\* twice while a session whose timer runs does not at all.
Quiet == net = {} /\ \A t \in Tids : sessions[t].readTasks = {}

MaySessionTimeOut(t) == PatientTimers => Quiet

MayClientTimeOut ==
    PatientTimers =>
        /\ Quiet
        /\ \A t \in Tids : sessions[t].timer => client.retries <= sessions[t].retries

-----------------------------------------------------------------------------

SessionStarts(t) ==
    \E m \in net :
        /\ \/ StartSession(m, t)
           \/ StartFailsToBind(m, t)
           \/ StartFailsToOpen(m, t)
        /\ UNCHANGED <<client, receiveBuffer, file>>

ServerRejects ==
    /\ \E m \in net : RejectRequest(m)
    /\ UNCHANGED <<client, receiveBuffer, file>>

SessionReceives(t) ==
    \E m \in net :
        /\ Arrives(m)
        /\ \/ SessionReceivesAckOfOack(m, t)
           \/ SessionReceivesAck(m, t)
           \/ SessionReceivesError(m, t)
           \/ SessionIgnores(m, t)
        /\ UNCHANGED <<client, receiveBuffer, file>>

SessionReads(t) ==
    /\ \E b \in sessions[t].readTasks :
        \/ BlockRead(t, b)
        \/ BlockReadCut(t, b)
        \/ BlockReadIgnored(t, b)
    /\ UNCHANGED <<client, receiveBuffer, file>>

SessionTimeout(t) ==
    /\ MaySessionTimeOut(t)
    /\ SessionTimesOut(t)
    /\ UNCHANGED <<client, receiveBuffer, file>>

ClientReceives ==
    \E m \in net :
        /\ Arrives(m)
        /\ \/ ReceiveData(m)
           \/ ReceiveDataWriteFails(m)
           \/ ReceiveUnexpectedData(m)
           \/ ReceiveOack(m)
           \/ ReceiveError(m)
           \/ ReceiveStray(m)
        /\ UNCHANGED sessions

ClientTimeout ==
    /\ MayClientTimeOut
    /\ ClientTimesOut
    /\ UNCHANGED sessions

UserActs ==
    /\ Abort \/ BeginWhileRunning
    /\ UNCHANGED sessions

\* Nobody reads the port m goes to, or m is older than datagrams get.
Unread(m) ==
    \/ m.to = "client" /\ ~Running
    \/ m.to = "session" /\ ~Active(m.tid)
    \/ ~Arrives(m)

NetworkLoses ==
    /\ \E m \in net : ~Unread(m) /\ Lose(m)
    /\ UNCHANGED <<sessions, client, receiveBuffer, file>>

NetworkDiscards ==
    /\ \E m \in net : Unread(m) /\ Discard(m)
    /\ UNCHANGED <<sessions, client, receiveBuffer, file>>

Next ==
    \/ \E t \in Tids :
        \/ SessionStarts(t)
        \/ SessionReceives(t)
        \/ SessionReads(t)
        \/ SessionTimeout(t)
    \/ ServerRejects
    \/ ClientReceives
    \/ ClientTimeout
    \/ UserActs
    \/ NetworkLoses
    \/ NetworkDiscards

Spec == Init /\ [][Next]_vars

\* The event loops run: queued events are handled and armed timers fire.
\* Nothing is promised about the network or the user.
EventLoops ==
    /\ \A t \in Tids : WF_vars(SessionReads(t)) /\ WF_vars(SessionTimeout(t))
    /\ WF_vars(ClientTimeout)

\* And what is in the network leaves it: nothing has to get lost.
NetworkMoves ==
    /\ \A t \in Tids : WF_vars(SessionStarts(t)) /\ WF_vars(SessionReceives(t))
    /\ WF_vars(ClientReceives)
    /\ WF_vars(NetworkDiscards)

FairSpec == Spec /\ EventLoops
LiveSpec == Spec /\ EventLoops /\ NetworkMoves

-----------------------------------------------------------------------------
\* Safety

\* What the client has written is the beginning of the server's file, each
\* block once and in order, whatever was lost, repeated or overtaken on the
\* way and however often the 16-bit numbers have wrapped.
FileIsPrefix == \A i \in DOMAIN file : file[i] = Payload(i)

\* transferFinished(true) at the client: the whole file has been written.
ClientOkMeansWholeFile ==
    client.result = "ok" => /\ N <= Len(file)
                            /\ \A i \in DOMAIN file : file[i] = Payload(i)

\* finished(true) at a session: it is the one the client talks to, and that
\* client has finished its download successfully (in the same event handler
\* that sent the last ACK).
SessionOkMeansClientOk ==
    \A t \in Tids : sessions[t].state = "ok" =>
        client.tid = t /\ client.result = "ok"

\* A block is acknowledged when it is in the file, never before: neither an
\* ACK on its way nor a session's window runs ahead of the disk. (A user who
\* aborts removes the file.)
AckedBlocksAreWritten ==
    client.result # "aborted" =>
        /\ \A m \in net : m.op = "ACK" => m.blk <= Len(file)
        /\ \A t \in Tids : sessions[t].lastAckedBlock <= Len(file)

\* The blocks a session keeps for retransmission are exactly those it has
\* sent and the client has not acknowledged, and they fit in the window: one
\* timeout repeats every block that may be missing, and the client's search
\* over a window finds each of them.
UnackedBlocksAreKept ==
    \A t \in Tids :
        LET s == sessions[t]
        IN  /\ s.windowCache = (s.lastAckedBlock + 1)..s.currentBlock
            /\ s.currentBlock <= s.lastAckedBlock + Window

\* Seen from outside a download is a Transfer: the receiver is the client, its
\* file is what it has written (past the end of the source it writes nothing),
\* and the senders that can report success are the sessions.
T == INSTANCE Transfer WITH
        written   <- SubSeq(file, 1, IF Len(file) <= N THEN Len(file) ELSE N),
        receiver  <- CASE Running                -> "busy"
                       [] client.result = "ok"   -> "ok"
                       [] OTHER                  -> "failed",
        confirmed <- \E t \in Tids : sessions[t].state = "ok"

\* The download implements the transfer that its two ends promise: the file
\* grows block by block and in order, is reported complete exactly when it
\* is, and no sender reports success before the receiver does.
ImplementsTransfer == T!Spec

\* Both ends report one outcome and keep it: a late packet, timeout or read
\* never revives or reverses a transfer that is over.
OutcomeIsFinal ==
    [][/\ client.result # "running" => UNCHANGED <<client, file>>
       /\ \A t \in Tids : sessions[t].state \in {"ok", "failed"} =>
            sessions'[t].state = sessions[t].state]_vars

-----------------------------------------------------------------------------
\* What makes these true: an inductive invariant

\* It needs an OACK in time, and no disk error that the code does not notice.
NothingUnnoticed ==
    /\ ~LateOack
    /\ "cut" \notin ServerFaults
    /\ "flush" \notin ClientFaults

\* The places a session keeps blocks in, in their order.
InOrder(s) ==
    /\ s.lastAckedBlock <= s.currentBlock
    /\ s.currentBlock < s.nextBlockToSend
    /\ s.nextBlockToSend <= s.lastAckedBlock + Window + 1
    /\ s.windowCache = (s.lastAckedBlock + 1)..s.currentBlock
    /\ s.readBuffer \subseteq (s.currentBlock + 1)..(s.nextBlockToSend - 1)
    /\ s.readTasks \subseteq (s.currentBlock + 1)..(s.nextBlockToSend - 1)
    /\ s.readBuffer \cap s.readTasks = {}
    /\ s.sentLastBlock => N <= s.currentBlock

\* A session that has not begun to send has nothing in any of them.
NothingSent(s) ==
    /\ s.currentBlock = 0
    /\ s.nextBlockToSend = 1
    /\ s.lastAckedBlock = 0
    /\ s.readBuffer = {}
    /\ s.readTasks = {}
    /\ s.windowCache = {}
    /\ ~s.sentLastBlock

SessionInv(s) ==
    /\ InOrder(s)
    /\ s.state = "unused" => NothingSent(s) /\ ~s.oackPending
    /\ s.oackPending => NothingSent(s)
    /\ s.state = "ok" => N <= s.lastAckedBlock
    /\ s.state \in {"unused", "active"} => s.retries <= MaxRetries
    /\ s.cut = {}

\* Only what was sent is on its way, and only the client's own session is
\* acknowledged.
MessageInv(m) ==
    /\ m.op \in {"DATA", "OACK"} => m.to = "client" /\ m.tid \in Tids
    /\ m.to = "session" => m.tid \in Tids
    /\ m.op = "DATA" => /\ m.blk \in 1..sessions[m.tid].currentBlock
                        /\ m.payload = Payload(m.blk)
    /\ m.op = "ACK" => /\ m.to = "session"
                       /\ m.tid = client.tid
                       /\ m.blk <= client.block

\* What a session believes the client has, the client has.
AckInv(t) ==
    IF t = client.tid
    THEN /\ sessions[t].lastAckedBlock <= client.block
         /\ client.block <= sessions[t].currentBlock
    ELSE sessions[t].lastAckedBlock = 0

\* receiveBuffer holds sent blocks beyond the current one, each in its place.
BufferInv ==
    \A b \in DOMAIN receiveBuffer :
        /\ client.tid \in Tids
        /\ b \in (client.block + 1)..sessions[client.tid].currentBlock
        /\ receiveBuffer[b] = Payload(b)

FileInv ==
    IF client.result = "aborted"
    THEN file = << >>
    ELSE /\ Len(file) = client.block
         /\ \A i \in DOMAIN file : file[i] = Payload(i)

ClientInv ==
    /\ client.tid = NoTid => client.block = 0
    /\ client.lastPacket = "ACK" => client.tid \in Tids
    /\ client.lastPacket = "RRQ" /\ Running => client.block = 0
    /\ Running => client.retries <= MaxRetries
    /\ IF client.result = "ok" THEN N <= client.block ELSE client.block < N

IInv ==
    /\ TypeOK
    /\ \A t \in Tids : SessionInv(sessions[t])
    /\ \A m \in net : MessageInv(m)
    /\ \A t \in Tids : AckInv(t)
    /\ BufferInv
    /\ FileInv
    /\ ClientInv

-----------------------------------------------------------------------------
\* Liveness

\* Every session ends: its blocks are acknowledged, an ERROR reaches it, or
\* it gives up, with no help from the network at all.
EverySessionEnds == \A t \in Tids : Active(t) ~> ~Active(t)

\* A client never waits for ever.
ClientEnds == <>(~Running)

\* With no more losses than retries and timeouts longer than the round trip,
\* the download succeeds.
ClientSucceeds == <>(client.result = "ok")
=============================================================================
