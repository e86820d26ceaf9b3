---------------------------- MODULE UploadClient ----------------------------
(***************************************************************************)
(* The client's side of an upload: TftpClient in Mode::Upload, from the    *)
(* moment begin() has sent the request.                                    *)
(*                                                                         *)
(* The client reads a block when it sends it first and keeps the packet in *)
(* windowCache until it is acknowledged. A local file is read at the       *)
(* block's place, standard input where the last read ended.                *)
(*                                                                         *)
(* While the client runs its timer is always armed (the request, every     *)
(* block and every timeout arm it), so the timer needs no variable.        *)
(***************************************************************************)
EXTENDS Network

CONSTANTS
    Pipe,            \* the source is standard input
    AsksForOptions,  \* m_optionsRequested
    ClientFaults     \* what may happen, see ClientEvents

\* read() fails and gives no bytes ("cut"): the code takes that for the end of
\* the file; the user aborts or begins another transfer.
ClientEvents == {"cut", "abort", "begin"}

\* The size of a local file is always sent, as an option.
ASSUME ClientAssumption ==
    /\ Pipe \in BOOLEAN
    /\ AsksForOptions \in BOOLEAN
    /\ ClientFaults \subseteq ClientEvents
    /\ ~AsksForOptions => Pipe

VARIABLES
    client,      \* the members of TftpClient an upload uses
    windowCache  \* m_windowCache: the payloads sent and not acknowledged

Client == [result          : {"running", "ok", "failed", "aborted"},
           tid             : Tids \cup {NoTid},   \* the port locked onto, if any
           windowSize      : {1, Window},
           lastAckedBlock  : Nat,
           nextBlockToSend : Nat,
           lastBlockSent   : BOOLEAN,
           position        : Nat,   \* how many blocks of a pipe have been read
           retries         : 0..MaxRetries + 1]

ClientTypeOK ==
    /\ client \in Client
    /\ DOMAIN windowCache \subseteq Nat
    /\ windowCache \in [DOMAIN windowCache -> Payloads]

Wrq == Msg("WRQ", "server", NoTid, 0)

NoBlocks == [b \in {} |-> 0]

ClientInit ==
    /\ client = [result |-> "running", tid |-> NoTid, windowSize |-> 1,
                 lastAckedBlock |-> 0, nextBlockToSend |-> 1,
                 lastBlockSent |-> FALSE, position |-> 0, retries |-> 0]
    /\ windowCache = NoBlocks

Running == client.result = "running"

\* Mutant: a client that is done still reads its socket
FromPeerEver(m) == /\ m.to = "client"
                   /\ client.tid \in {NoTid, m.tid}

\* The client takes m: the first reply fixes the port it listens to.
FromPeer(m) == /\ Running
               /\ m.to = "client"
               /\ client.tid \in {NoTid, m.tid}

\* What sendDataBlock(b) reads in a run of them that starts at nextBlockToSend
\* and fails at the blocks in cut. Netascii data come from a buffer that
\* begin() fills from local files only.
ReadBlock(c, cut, b) ==
    IF b \in cut \/ (Netascii /\ Pipe) THEN 0
    ELSE IF Pipe THEN Payload(c.position + 1 + (b - c.nextBlockToSend))
    ELSE Payload(b)

\* The reads that may fail: any one of the next blocks
Cuts(c) ==
    {{}} \cup IF "cut" \in ClientFaults /\ ~Netascii
              THEN {{b} : b \in c.nextBlockToSend..(c.nextBlockToSend + Window - 1)}
              ELSE {}

\* payload.size() < m_blockSize
IsShort(payload) == payload \in {0, N}

\* Mutant: the window is one block too large
WindowEndBeyond(c) == c.lastAckedBlock + c.windowSize + 1

\* The last block that fits in the window
WindowEnd(c) == c.lastAckedBlock + c.windowSize

\* fillWindow() with the members c and the blocks cache: the blocks up to last
\* are read, sent and kept. It stops when the window is full or a short block
\* has been sent, ever.
FillWindow(m, c, cache) ==
    \E cut \in Cuts(c), last \in (c.nextBlockToSend - 1)..WindowEnd(c) :
        LET sent == c.nextBlockToSend..last
            read == [b \in sent |-> ReadBlock(c, cut, b)]
        IN  /\ c.lastBlockSent => sent = {}
            /\ \A b \in sent : IsShort(read[b]) => b = last
            /\ \/ last = WindowEnd(c)
               \/ c.lastBlockSent
               \/ last \in sent /\ IsShort(read[last])
            /\ client' = [c EXCEPT
                    !.nextBlockToSend = last + 1,
                    !.lastBlockSent = IF sent = {} THEN @ ELSE IsShort(read[last]),
                    !.position = IF Pipe THEN @ + last + 1 - c.nextBlockToSend ELSE @]
            /\ windowCache' = [b \in DOMAIN cache \cup sent |->
                                    IF b \in sent THEN read[b] ELSE cache[b]]
            /\ Deliver(m, {Data("session", c.tid, b, read[b]) : b \in sent})

-----------------------------------------------------------------------------

\* OACK, whenever it comes: start sending from block 1.
ReceiveOack(m) ==
    /\ FromPeer(m)
    /\ m.op = "OACK"
    /\ FillWindow(m, [client EXCEPT !.tid = m.tid,
                                    !.windowSize = Window,
                                    !.retries = 0,
                                    !.lastAckedBlock = 0,
                                    !.nextBlockToSend = 1], NoBlocks)

\* ACK 0 accepts a request without options.
IsFirstAck(m) ==
    /\ m.op = "ACK"
    /\ Wire(m.blk) = 0
    /\ client.lastAckedBlock = 0
    /\ client.nextBlockToSend = 1
    /\ ~AsksForOptions

ReceiveFirstAck(m) ==
    /\ FromPeer(m)
    /\ IsFirstAck(m)
    /\ FillWindow(m, [client EXCEPT !.tid = m.tid, !.retries = 0], NoBlocks)

\* An ACK of a block in windowCache: all the blocks before it were written.
ReceiveAck(m) ==
    /\ FromPeer(m)
    /\ m.op = "ACK"
    /\ ~IsFirstAck(m)
    /\ \E a \in DOMAIN windowCache :
        /\ IsFirstMatch(DOMAIN windowCache, a, Wire(m.blk))
        /\ a > client.lastAckedBlock
        /\ LET c == [client EXCEPT !.tid = m.tid,
                                   !.retries = 0,
                                   !.lastAckedBlock = a]
               cache == Without(windowCache, (client.lastAckedBlock + 1)..a)
           IN  IF c.lastBlockSent /\ DOMAIN cache = {}
               THEN /\ client' = [c EXCEPT !.result = "ok"]
                    /\ windowCache' = cache
                    /\ Deliver(m, {})
               ELSE FillWindow(m, c, cache)

\* An ACK of any other block is ignored.
ReceiveUnexpectedAck(m) ==
    /\ FromPeer(m)
    /\ m.op = "ACK"
    /\ ~IsFirstAck(m)
    /\ \/ NoMatch(DOMAIN windowCache, Wire(m.blk))
       \/ \E a \in DOMAIN windowCache :
            /\ IsFirstMatch(DOMAIN windowCache, a, Wire(m.blk))
            /\ a <= client.lastAckedBlock
    /\ client' = [client EXCEPT !.tid = m.tid]
    /\ Deliver(m, {})
    /\ UNCHANGED windowCache

ReceiveError(m) ==
    /\ FromPeer(m)
    /\ m.op = "ERROR"
    /\ client' = [client EXCEPT !.tid = m.tid, !.result = "failed"]
    /\ Deliver(m, {})
    /\ UNCHANGED windowCache

\* A datagram from another port than the locked one is answered with an ERROR.
ReceiveStray(m) ==
    /\ Running
    /\ m.to = "client"
    /\ client.tid \notin {NoTid, m.tid}
    /\ Deliver(m, IF m.tid = NoTid THEN {} ELSE {Msg("ERROR", "session", m.tid, 0)})
    /\ UNCHANGED <<client, windowCache>>

\* Mutant: the retries are not counted
ClientTimesOutUncounted ==
    /\ Running
    /\ Send({Data("session", client.tid, b, windowCache[b]) : b \in DOMAIN windowCache})
    /\ UNCHANGED <<client, windowCache>>

\* Mutant: a client that is done still times out
ClientTimesOutAlways ==
    /\ client' = [client EXCEPT !.retries = @ + 1]
    /\ UNCHANGED <<windowCache, net, losses>>

\* The blocks in windowCache are sent again. The request never is.
ClientTimesOut ==
    /\ Running
    /\ LET c == [client EXCEPT !.retries = @ + 1]
       IN  IF c.retries > MaxRetries
           THEN /\ client' = [c EXCEPT !.result = "failed"]
                /\ UNCHANGED <<net, losses>>
           ELSE /\ client' = c
                /\ Send({Data("session", c.tid, b, windowCache[b]) :
                            b \in DOMAIN windowCache})
    /\ UNCHANGED windowCache

\* abort(): tell the session, if there is one.
Abort ==
    /\ "abort" \in ClientFaults
    /\ Running
    /\ client' = [client EXCEPT !.result = "aborted"]
    /\ Send(IF client.tid = NoTid THEN {} ELSE {Msg("ERROR", "session", client.tid, 0)})
    /\ UNCHANGED windowCache

\* begin() of another transfer: fail() ends the one in progress.
BeginWhileRunning ==
    /\ "begin" \in ClientFaults
    /\ Running
    /\ client' = [client EXCEPT !.result = "failed"]
    /\ UNCHANGED <<windowCache, net, losses>>
=============================================================================
