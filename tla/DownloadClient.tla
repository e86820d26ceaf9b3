--------------------------- MODULE DownloadClient ---------------------------
(***************************************************************************)
(* The client's side of a download: TftpClient in Mode::Download, from the *)
(* moment begin() has sent the request.                                    *)
(*                                                                         *)
(* While the client runs its timer is always armed (every accepted packet  *)
(* and every timeout restarts it), so the timer needs no variable.         *)
(***************************************************************************)
EXTENDS Network, Sequences

CONSTANT ClientFaults  \* what may happen, see ClientEvents

\* The disk refuses a write, or does so only when buffered data are flushed at
\* the end, which nobody looks at; the user aborts or begins another transfer.
ClientEvents == {"write", "flush", "abort", "begin"}

ASSUME ClientAssumption == ClientFaults \subseteq ClientEvents

VARIABLES
    client,         \* the members of TftpClient a download uses
    receiveBuffer,  \* m_receiveBuffer: blocks that wait for the one before
    file            \* the payloads written, one per block

Client == [result     : {"running", "ok", "failed", "aborted"},
           tid        : Tids \cup {NoTid},   \* the port locked onto, if any
           block      : Nat,
           windowSize : {1, Window},
           retries    : 0..MaxRetries + 1,
           lastPacket : {"RRQ", "ACK"}]      \* an ACK is always of block

ClientTypeOK ==
    /\ client \in Client
    /\ DOMAIN receiveBuffer \subseteq Nat
    /\ receiveBuffer \in [DOMAIN receiveBuffer -> Payloads]
    /\ file \in Seq(Payloads)

Rrq == Msg("RRQ", "server", NoTid, 0)

ClientInit ==
    /\ client = [result |-> "running", tid |-> NoTid, block |-> 0,
                 windowSize |-> 1, retries |-> 0, lastPacket |-> "RRQ"]
    /\ receiveBuffer = [b \in {} |-> 0]
    /\ file = << >>

Running == client.result = "running"

\* Mutant: a client that is done still reads its socket
FromPeerEver(m) == /\ m.to = "client"
                   /\ client.tid \in {NoTid, m.tid}

\* The client takes m: the first reply fixes the port it listens to.
FromPeer(m) == /\ Running
               /\ m.to = "client"
               /\ client.tid \in {NoTid, m.tid}

\* Mutant: "<=" for "<", a full block ends the file
EndsFileAlways(payload) == TRUE

\* nextPayload.size() < m_blockSize, at the client
EndsFile(payload) == payload \in {0, N}

\* The numbers handleData() looks for
Expected == (client.block + 1)..(client.block + client.windowSize)

-----------------------------------------------------------------------------

\* Mutant: DATA is written as it comes, whatever its number
ReceiveDataUnchecked(m) ==
    /\ FromPeer(m)
    /\ m.op = "DATA"
    /\ client' = [client EXCEPT
            !.tid = m.tid,
            !.block = @ + 1,
            !.retries = 0,
            !.lastPacket = "ACK",
            !.result = IF EndsFile(m.payload) THEN "ok" ELSE @]
    /\ file' = Append(file, m.payload)
    /\ UNCHANGED receiveBuffer
    /\ Deliver(m, {Ack("session", m.tid, client.block + 1)})

\* DATA of an expected block: it is buffered, and the blocks that are now in
\* order, up to k, are written and acknowledged together.
ReceiveData(m) ==
    /\ FromPeer(m)
    /\ m.op = "DATA"
    /\ \E b \in Expected :
        /\ IsFirstMatch(Expected, b, Wire(m.blk))
        /\ LET buffer == Put(receiveBuffer, b, m.payload)
           IN  \E k \in client.block..(client.block + Cardinality(DOMAIN buffer)) :
                /\ IsRunEnd(DOMAIN buffer, client.block, k)
                /\ LET last == \E x \in (client.block + 1)..k : EndsFile(buffer[x])
                   IN  client' = [client EXCEPT
                            !.tid = m.tid,
                            !.block = k,
                            !.retries = 0,
                            !.lastPacket = "ACK",
                            !.result = IF last THEN "ok" ELSE @]
                /\ receiveBuffer' = Without(buffer, (client.block + 1)..k)
                /\ LET whole == file \o Run(buffer, client.block, k)
                   IN  \/ file' = whole
                       \/ /\ "flush" \in ClientFaults
                          /\ client'.result = "ok"
                          /\ \E n \in 0..(Len(whole) - 1) : file' = SubSeq(whole, 1, n)
                /\ Deliver(m, {Ack("session", m.tid, k)})

\* Mutant: a failed write is acknowledged like any other
ReceiveDataWriteUnchecked(m) ==
    /\ FromPeer(m)
    /\ m.op = "DATA"
    /\ \E b \in Expected :
        /\ IsFirstMatch(Expected, b, Wire(m.blk))
        /\ b = client.block + 1
        /\ client' = [client EXCEPT !.tid = m.tid, !.block = b, !.retries = 0,
                                   !.lastPacket = "ACK"]
        /\ Deliver(m, {Ack("session", m.tid, b)})
    /\ UNCHANGED <<receiveBuffer, file>>

\* The disk refuses one of the blocks to write: those before it are written,
\* nothing is acknowledged. (Netascii data are kept in memory until the end,
\* and to write no bytes cannot fail.)
ReceiveDataWriteFails(m) ==
    /\ "write" \in ClientFaults
    /\ ~Netascii
    /\ FromPeer(m)
    /\ m.op = "DATA"
    /\ \E b \in Expected :
        /\ IsFirstMatch(Expected, b, Wire(m.blk))
        /\ LET buffer == Put(receiveBuffer, b, m.payload)
           IN  \E k \in client.block..(client.block + Cardinality(DOMAIN buffer)) :
                /\ (client.block + 1)..(k + 1) \subseteq DOMAIN buffer
                /\ HasBytes(buffer[k + 1])
                /\ client' = [client EXCEPT
                        !.tid = m.tid,
                        !.block = k,
                        !.retries = 0,
                        !.result = "failed"]
                /\ receiveBuffer' = Without(buffer, (client.block + 1)..(k + 1))
                /\ file' = file \o Run(buffer, client.block, k)
                /\ Deliver(m, {})

\* DATA of any other block: acknowledge again what has arrived.
ReceiveUnexpectedData(m) ==
    /\ FromPeer(m)
    /\ m.op = "DATA"
    /\ NoMatch(Expected, Wire(m.blk))
    /\ client' = [client EXCEPT !.tid = m.tid]
    /\ Deliver(m, {Ack("session", m.tid, client.block)})
    /\ UNCHANGED <<receiveBuffer, file>>

\* OACK, whenever it comes: start counting from 0, keep what was written.
ReceiveOack(m) ==
    /\ FromPeer(m)
    /\ m.op = "OACK"
    /\ client' = [client EXCEPT
            !.tid = m.tid,
            !.block = 0,
            !.windowSize = Window,
            !.retries = 0,
            !.lastPacket = "ACK"]
    /\ Deliver(m, {Ack("session", m.tid, 0)})
    /\ UNCHANGED <<receiveBuffer, file>>

ReceiveError(m) ==
    /\ FromPeer(m)
    /\ m.op = "ERROR"
    /\ client' = [client EXCEPT !.tid = m.tid, !.result = "failed"]
    /\ Deliver(m, {})
    /\ UNCHANGED <<receiveBuffer, file>>

\* A datagram from another port than the locked one is answered with an ERROR.
ReceiveStray(m) ==
    /\ Running
    /\ m.to = "client"
    /\ client.tid \notin {NoTid, m.tid}
    /\ Deliver(m, IF m.tid = NoTid THEN {} ELSE {Msg("ERROR", "session", m.tid, 0)})
    /\ UNCHANGED <<client, receiveBuffer, file>>

\* The last packet is sent again, to the server or to the session locked onto.
Retransmission ==
    IF client.lastPacket = "ACK" THEN Ack("session", client.tid, client.block)
    ELSE IF client.tid = NoTid THEN Rrq
    ELSE Msg("RRQ", "session", client.tid, 0)

\* Mutant: no limit to the retries
ClientTimesOutAlways ==
    /\ Running
    /\ client' = [client EXCEPT !.retries = @ + 1]
    /\ Send({Retransmission})
    /\ UNCHANGED <<receiveBuffer, file>>

\* Mutant: the retries are not counted
ClientTimesOutUncounted ==
    /\ Running
    /\ Send({Retransmission})
    /\ UNCHANGED <<client, receiveBuffer, file>>

ClientTimesOut ==
    /\ Running
    /\ IF client.retries + 1 > MaxRetries
       THEN /\ client' = [client EXCEPT !.retries = @ + 1, !.result = "failed"]
            /\ UNCHANGED <<net, losses>>
       ELSE /\ client' = [client EXCEPT !.retries = @ + 1]
            /\ Send({Retransmission})
    /\ UNCHANGED <<receiveBuffer, file>>

\* abort(): tell the session, if there is one, and remove the partial file.
Abort ==
    /\ "abort" \in ClientFaults
    /\ Running
    /\ client' = [client EXCEPT !.result = "aborted"]
    /\ Send(IF client.tid = NoTid THEN {} ELSE {Msg("ERROR", "session", client.tid, 0)})
    /\ file' = << >>
    /\ UNCHANGED receiveBuffer

\* begin() of another transfer: fail() ends the one in progress.
BeginWhileRunning ==
    /\ "begin" \in ClientFaults
    /\ Running
    /\ client' = [client EXCEPT !.result = "failed"]
    /\ UNCHANGED <<receiveBuffer, file, net, losses>>
=============================================================================
