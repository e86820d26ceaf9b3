------------------------------- MODULE Upload -------------------------------
(***************************************************************************)
(* An upload: one TftpClient, and the sessions the server starts for its   *)
(* request. Every copy of the request that reaches the server starts one,  *)
(* but only the first finds that the file does not exist.                  *)
(*                                                                         *)
(* As in a download, the protocol cannot tell an old datagram from a new   *)
(* one with the same 16-bit number; Fresh keeps the old ones out. A late   *)
(* OACK needs no hypothesis: the client starts again with block 1, and the *)
(* session answers what it has written.                                    *)
(***************************************************************************)
EXTENDS WriteSession, UploadClient

CONSTANTS
    NeverLost,      \* datagrams that never get lost: see MayGetLost
    PatientTimers   \* timeouts are long: see MaySessionTimeOut

\* The server accepts whatever options this client asks for.
ASSUME UploadAssumption ==
    /\ Options = AsksForOptions
    /\ NeverLost \subseteq {"request", "final ACK"}
    /\ PatientTimers \in BOOLEAN

serverVars == <<sessions, receiveBuffer, file, creator>>
clientVars == <<client, windowCache>>

vars == <<net, losses, sessions, receiveBuffer, file, creator, client, windowCache>>

TypeOK ==
    /\ NetTypeOK
    /\ SessionsTypeOK
    /\ ClientTypeOK

Init ==
    /\ NetInit(Wrq)
    /\ SessionsInit
    /\ ClientInit

-----------------------------------------------------------------------------
\* Hypotheses about the network and the clocks

\* m is less than a whole turn of the block numbers behind the candidates it
\* is compared with: no datagram lives while 65536 blocks are transferred.
Fresh(m) ==
    CASE m.op \in {"ACK", "OACK"} -> m.blk + BlockMod >= client.nextBlockToSend
      [] m.op = "DATA" -> m.blk + BlockMod > sessions[m.tid].currentBlock + Window
      [] OTHER -> TRUE

IsFinalAck(m) == m.op = "ACK" /\ sessions[m.tid].state = "ok"

MayGetLost(m) ==
    /\ m.op = "WRQ" => "request" \notin NeverLost
    /\ IsFinalAck(m) => "final ACK" \notin NeverLost

\* With patient timers nothing times out while a datagram or a write is under
\* way. Both ends then wait equally long, so none times out twice while the
\* other does not at all.
Quiet == net = {} /\ \A t \in Tids : sessions[t].writing = 0

MaySessionTimeOut(t) ==
    PatientTimers => Quiet /\ (Running => sessions[t].retries <= client.retries)

MayClientTimeOut ==
    PatientTimers =>
        Quiet /\ \A t \in Tids : Active(t) => client.retries <= sessions[t].retries

-----------------------------------------------------------------------------

SessionStarts(t) ==
    /\ \E m \in net : \/ StartSession(m, t)
                      \/ StartFailsToBind(m, t)
                      \/ StartFailsToOpen(m, t)
    /\ UNCHANGED clientVars

ServerRejects ==
    /\ \E m \in net : RejectRequest(m)
    /\ UNCHANGED clientVars

SessionReceives(t) ==
    /\ \E m \in net :
        /\ Fresh(m)
        /\ \/ SessionReceivesData(m, t)
           \/ SessionReceivesUnexpectedData(m, t)
           \/ SessionReceivesError(m, t)
           \/ SessionIgnores(m, t)
    /\ UNCHANGED clientVars

SessionWrites(t) ==
    /\ BlockWritten(t) \/ BlockWriteFails(t) \/ BlockWriteIgnored(t)
    /\ UNCHANGED clientVars

SessionTimeout(t) ==
    /\ MaySessionTimeOut(t)
    /\ SessionTimesOut(t)
    /\ UNCHANGED clientVars

ClientReceives ==
    /\ \E m \in net :
        /\ Fresh(m)
        /\ \/ ReceiveOack(m)
           \/ ReceiveFirstAck(m)
           \/ ReceiveAck(m)
           \/ ReceiveUnexpectedAck(m)
           \/ ReceiveError(m)
           \/ ReceiveStray(m)
    /\ UNCHANGED serverVars

ClientTimeout ==
    /\ MayClientTimeOut
    /\ ClientTimesOut
    /\ UNCHANGED serverVars

UserActs ==
    /\ Abort \/ BeginWhileRunning
    /\ UNCHANGED serverVars

\* Nobody reads the port m goes to, or m is older than datagrams get.
Unread(m) ==
    \/ m.to = "client" /\ ~Running
    \/ m.to = "session" /\ ~Active(m.tid)
    \/ ~Fresh(m)

NetworkLoses ==
    /\ \E m \in net : ~Unread(m) /\ MayGetLost(m) /\ Lose(m)
    /\ UNCHANGED <<serverVars, clientVars>>

NetworkDiscards ==
    /\ \E m \in net : Unread(m) /\ Discard(m)
    /\ UNCHANGED <<serverVars, clientVars>>

Next ==
    \/ \E t \in Tids :
        \/ SessionStarts(t)
        \/ SessionReceives(t)
        \/ SessionWrites(t)
        \/ SessionTimeout(t)
    \/ ServerRejects
    \/ ClientReceives
    \/ ClientTimeout
    \/ UserActs
    \/ NetworkLoses
    \/ NetworkDiscards

Spec == Init /\ [][Next]_vars

\* The event loops run: queued events are handled and armed timers fire.
\* Nothing is promised about the network or the user.
EventLoops ==
    /\ \A t \in Tids : WF_vars(SessionWrites(t)) /\ WF_vars(SessionTimeout(t))
    /\ WF_vars(ClientTimeout)

\* And what is in the network leaves it: nothing has to get lost.
NetworkMoves ==
    /\ \A t \in Tids : WF_vars(SessionStarts(t)) /\ WF_vars(SessionReceives(t))
    /\ WF_vars(ClientReceives)
    /\ WF_vars(NetworkDiscards)

FairSpec == Spec /\ EventLoops
LiveSpec == Spec /\ EventLoops /\ NetworkMoves

-----------------------------------------------------------------------------
\* Safety

\* What has been written is the beginning of the client's file, each block
\* once and in order, whatever was lost, repeated or overtaken on the way, and
\* whether or not a late OACK made the client start again.
FileIsPrefix ==
    /\ Len(file) <= N
    /\ \A i \in DOMAIN file : file[i] = Payload(i)

\* finished(true) at a session: it created the file, and has all of it.
SessionOkMeansWholeFile ==
    \A t \in Tids : sessions[t].state = "ok" =>
        /\ creator = t
        /\ Len(file) = N
        /\ \A i \in DOMAIN file : file[i] = Payload(i)

\* transferFinished(true) at the client: its session has the whole file.
ClientOkMeansSessionOk ==
    client.result = "ok" =>
        client.tid \in Tids /\ sessions[client.tid].state = "ok"

\* A block is acknowledged when it is in the file, not when it has arrived:
\* neither an ACK on its way nor the client's window runs ahead of the disk.
AckedBlocksAreWritten ==
    /\ \A m \in net : m.op = "ACK" => m.blk <= Len(file)
    /\ client.lastAckedBlock <= Len(file)

\* The client keeps exactly what it has sent and the session has not
\* acknowledged, each block as it was sent first, and no more than a window.
UnackedBlocksAreKept ==
    /\ DOMAIN windowCache = (client.lastAckedBlock + 1)..(client.nextBlockToSend - 1)
    /\ \A b \in DOMAIN windowCache : windowCache[b] = Payload(b)
    /\ client.nextBlockToSend <= client.lastAckedBlock + Window + 1

\* Seen from outside an upload is a Transfer: the receiver is the session that
\* created the file, and the client is the sender that reports success.
T == INSTANCE Transfer WITH
        written   <- file,
        receiver  <- IF creator = NoTid \/ Active(creator)
                     THEN "busy" ELSE sessions[creator].state,
        confirmed <- client.result = "ok"

\* The upload implements the transfer that its two ends promise.
ImplementsTransfer == T!Spec

\* Both ends report one outcome and keep it, and a session that is over leaves
\* its file alone, whatever write tasks it still has.
OutcomeIsFinal ==
    [][/\ client.result # "running" => UNCHANGED client
       /\ \A t \in Tids : sessions[t].state \in {"ok", "failed"} =>
            /\ sessions'[t].state = sessions[t].state
            /\ creator = t => UNCHANGED file]_vars

\* A file that exists is never created again, and what has been written into
\* it stays.
NoOverwrite ==
    [][creator # NoTid => /\ creator' = creator
                          /\ Len(file) <= Len(file')]_vars

-----------------------------------------------------------------------------
\* What makes these true: an inductive invariant

\* It needs a source that can be read twice if an OACK may make the client
\* do so, and no disk error that the code does not notice.
NothingUnnoticed ==
    /\ Pipe => ~Options /\ ~Netascii
    /\ "cut" \notin ClientFaults
    /\ "flush" \notin ServerFaults

\* b was sent before the client could have turned round the block numbers and
\* started again.
InThisTurn(b) == b < client.nextBlockToSend \/ b < BlockMod

\* p is what block b of the file holds.
GoodBlock(b, p) ==
    /\ b \in 1..N
    /\ p = Payload(b)
    /\ InThisTurn(b)

SessionInv(t) ==
    LET s == sessions[t]
        buffer == receiveBuffer[t]
    IN  /\ s.state \in {"active", "ok"} => t = creator
        /\ s.state = "unused" => t # creator
        /\ t # creator => s.currentBlock = 0
        /\ t # client.tid =>
                s.currentBlock = 0 /\ s.writing = 0 /\ DOMAIN buffer = {}
        /\ IF s.state = "ok" THEN s.currentBlock = N ELSE s.currentBlock < N
        /\ s.state \in {"unused", "active"} => s.retries <= MaxRetries
        /\ s.state = "unused" => s.writing = 0
        /\ s.state = "active" /\ s.writing # 0 =>
                s.writing = s.currentBlock + 1 /\ GoodBlock(s.writing, s.payload)
        /\ \A b \in DOMAIN buffer : GoodBlock(b, buffer[b])
        /\ s.lastPacket = "OACK" => Options

FileInv ==
    IF creator = NoTid
    THEN file = << >>
    ELSE /\ Len(file) = sessions[creator].currentBlock
         /\ \A i \in DOMAIN file : file[i] = Payload(i)

\* Only what was sent is on its way, and only what was written is
\* acknowledged.
MessageInv(m) ==
    /\ m.to = "session" => m.tid \in Tids
    /\ m.op \in {"OACK", "ACK"} => m.to = "client" /\ m.tid \in Tids
    /\ m.op = "OACK" => Options /\ m.blk = 0
    /\ m.op = "ACK" => m.blk <= sessions[m.tid].currentBlock
    /\ m.op = "DATA" => /\ m.to = "session"
                        /\ m.tid = client.tid
                        /\ GoodBlock(m.blk, m.payload)
                        /\ m.blk <= sessions[m.tid].currentBlock + Window

CacheInv ==
    /\ UnackedBlocksAreKept
    /\ client.lastAckedBlock < client.nextBlockToSend
    /\ client.nextBlockToSend <= N + 1
    /\ IF client.lastBlockSent
       THEN \/ client.nextBlockToSend = N + 1
            \/ client.nextBlockToSend = 1   \* after a late OACK
       ELSE client.nextBlockToSend <= N
    /\ Pipe => client.position = client.nextBlockToSend - 1

ClientInv ==
    /\ client.tid = NoTid => client.nextBlockToSend = 1 /\ ~client.lastBlockSent
    /\ client.tid \in Tids =>
        /\ client.lastAckedBlock <= sessions[client.tid].currentBlock
        /\ InThisTurn(sessions[client.tid].currentBlock)
    /\ client.result = "ok" => client.lastAckedBlock = N
    /\ Running => client.retries <= MaxRetries

IInv ==
    /\ TypeOK
    /\ \A t \in Tids : SessionInv(t)
    /\ FileInv
    /\ \A m \in net : MessageInv(m)
    /\ CacheInv
    /\ ClientInv

-----------------------------------------------------------------------------
\* Liveness

\* Every session ends, with no help from the network at all.
EverySessionEnds == \A t \in Tids : Active(t) ~> ~Active(t)

\* A client never waits for ever.
ClientEnds == <>(~Running)

\* With no more losses than retries and timeouts longer than the round trip,
\* the upload succeeds.
ClientSucceeds == <>(client.result = "ok")
=============================================================================
