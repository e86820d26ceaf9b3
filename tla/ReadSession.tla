----------------------------- MODULE ReadSession ----------------------------
(***************************************************************************)
(* The server's side of a download: TftpSession for an RRQ, in the mode in *)
(* which every session has a socket of its own, without speed limits.      *)
(*                                                                         *)
(* A session keeps blocks in five places, always in this order:            *)
(*                                                                         *)
(*    acked | windowCache | readBuffer, readTasks | not yet asked for      *)
(*          ^ lastAckedBlock                                               *)
(*                        ^ currentBlock          ^ nextBlockToSend        *)
(*                                                                         *)
(* Blocks are read by tasks of the global thread pool, which finish in any *)
(* order, so a block may wait in readBuffer for the one before it.         *)
(***************************************************************************)
EXTENDS Network

CONSTANTS
    Options,       \* the request carries options, so the session answers OACK
    ServerFaults   \* what may fail, see ReadFaults

\* A pool task fails to open or seek ("read"), or read() returns no bytes where
\* there are some ("cut"): the code takes that for the end of the file.
ReadFaults == {"reject", "bind", "open", "read", "cut"}

\* The window is 1 unless the windowsize option was accepted.
ASSUME ReadSessionAssumption ==
    /\ Options \in BOOLEAN
    /\ ServerFaults \subseteq ReadFaults
    /\ ~Options => Window = 1

VARIABLE sessions

Session == [state           : {"unused", "active", "ok", "failed"},
            oackPending     : BOOLEAN,
            currentBlock    : Nat,
            nextBlockToSend : Nat,
            lastAckedBlock  : Nat,
            sentLastBlock   : BOOLEAN,
            readTasks       : SUBSET Nat,
            readBuffer      : SUBSET Nat,
            windowCache     : SUBSET Nat,
            cut             : SUBSET Nat,
            retries         : 0..MaxRetries + 1,
            timer           : BOOLEAN]

SessionsTypeOK == sessions \in [Tids -> Session]

\* The members as the constructor leaves them.
NewSession == [state |-> "unused", oackPending |-> FALSE, currentBlock |-> 0,
               nextBlockToSend |-> 1, lastAckedBlock |-> 0,
               sentLastBlock |-> FALSE, readTasks |-> {}, readBuffer |-> {},
               windowCache |-> {}, cut |-> {}, retries |-> 0, timer |-> FALSE]

SessionsInit == sessions = [t \in Tids |-> NewSession]

Active(t) == sessions[t].state = "active"

\* finish(): the first outcome stands, and no timer runs any more.
Finish(s, outcome) ==
    IF s.state \in {"ok", "failed"} THEN s
    ELSE [s EXCEPT !.state = outcome, !.timer = FALSE]

\* Mutant: the window is one block too large
LastToReadBeyond(s) == s.lastAckedBlock + Window + 1

\* The last block fillWindow() asks for: it keeps at most Window blocks
\* beyond the acknowledged one, and at most Window read tasks.
LastToRead(s) ==
    LET room == s.lastAckedBlock + Window
        idle == s.nextBlockToSend - 1 + Window - Cardinality(s.readTasks)
    IN  IF room <= idle THEN room ELSE idle

FillWindow(s) ==
    IF s.sentLastBlock \/ LastToRead(s) < s.nextBlockToSend THEN s
    ELSE [s EXCEPT
            !.readTasks = @ \cup (s.nextBlockToSend..LastToRead(s)),
            !.nextBlockToSend = LastToRead(s) + 1]

\* What block b holds in session s.
PayloadOf(s, b) == IF b \in s.cut THEN 0 ELSE Payload(b)

\* Mutant: "<=" for "<" one block early
IsShortEarly(s, b) == PayloadOf(s, b) \in {0, N - 1, N}

\* payload.size() < m_blockSize
IsShort(s, b) == PayloadOf(s, b) \in {0, N}

\* DATA as sent and as repeated
DataOf(t, s, S) == {Data("client", t, b, PayloadOf(s, b)) : b \in S}

\* A netascii block is cut out of the converted data, and one that starts at
\* its end is an error; a seek to or past the end of a file is none.
ReadOk(b) == Netascii => b < N \/ (b = N /\ ~LastEmpty)

-----------------------------------------------------------------------------

\* The server accepts a request: a new session on a port of its own.
StartSession(m, t) ==
    /\ m.op = "RRQ"
    /\ m.to = "server"
    /\ sessions[t].state = "unused"
    /\ LET s == [sessions[t] EXCEPT !.state = "active"]
       IN  IF Options
           THEN /\ sessions' = [sessions EXCEPT ![t] =
                        [s EXCEPT !.oackPending = TRUE, !.timer = TRUE]]
                /\ Deliver(m, {Oack(t)})
           ELSE /\ sessions' = [sessions EXCEPT ![t] = FillWindow(s)]
                /\ Deliver(m, {})

\* start() cannot bind a socket, and says nothing to the client.
StartFailsToBind(m, t) ==
    /\ "bind" \in ServerFaults
    /\ m.op = "RRQ"
    /\ m.to = "server"
    /\ sessions[t].state = "unused"
    /\ sessions' = [sessions EXCEPT ![t] = Finish(@, "failed")]
    /\ Deliver(m, {})

\* start() cannot open the file, or does not know the mode: sendError().
StartFailsToOpen(m, t) ==
    /\ "open" \in ServerFaults
    /\ m.op = "RRQ"
    /\ m.to = "server"
    /\ sessions[t].state = "unused"
    /\ sessions' = [sessions EXCEPT ![t] = Finish(@, "failed")]
    /\ Deliver(m, {Msg("ERROR", "client", t, 0)})

\* The server refuses the request (a limit or a policy) from its own port.
RejectRequest(m) ==
    /\ "reject" \in ServerFaults
    /\ m.op = "RRQ"
    /\ m.to = "server"
    /\ Deliver(m, {Msg("ERROR", "client", NoTid, 0)})
    /\ UNCHANGED sessions

\* onDataBlockRead() of block b. The blocks that are now in order, up to k,
\* are sent and kept for retransmission; then the window is filled again.
SendRead(t, b, cut) ==
    /\ Active(t)
    /\ b \in sessions[t].readTasks
    /\ LET s == [sessions[t] EXCEPT !.cut = cut]
           read == s.readBuffer \cup {b}
       IN  \E k \in s.currentBlock..(s.nextBlockToSend - 1) :
            /\ IsRunEnd(read, s.currentBlock, k)
            /\ LET sent == (s.currentBlock + 1)..k
                   t1 == [s EXCEPT
                            !.readTasks = @ \ {b},
                            !.readBuffer = read \ sent,
                            !.currentBlock = k,
                            !.sentLastBlock = IF sent = {} THEN @ ELSE IsShort(s, k),
                            !.windowCache = @ \cup sent,
                            !.timer = @ \/ sent # {}]
               IN  /\ sessions' = [sessions EXCEPT ![t] = FillWindow(t1)]
                   /\ Send(DataOf(t, s, sent))

BlockRead(t, b) == ReadOk(b) /\ SendRead(t, b, sessions[t].cut)

\* read() fails, and the block is taken for the end of the file.
BlockReadCut(t, b) ==
    /\ "cut" \in ServerFaults
    /\ ~Netascii
    /\ SendRead(t, b, sessions[t].cut \cup {b})

\* The read failed, or the session is over: the handler only counts the task.
\* (The session object is taken to exist as long as its tasks; see README.)
BlockReadIgnored(t, b) ==
    /\ b \in sessions[t].readTasks
    /\ ~Active(t) \/ ~ReadOk(b) \/ "read" \in ServerFaults
    /\ sessions' = [sessions EXCEPT ![t].readTasks = @ \ {b}]
    /\ UNCHANGED <<net, losses>>

\* ACK 0 answers the OACK: the transfer starts. Other ACKs are ignored.
SessionReceivesAckOfOack(m, t) ==
    /\ m.op = "ACK"
    /\ m.to = "session"
    /\ m.tid = t
    /\ Active(t)
    /\ sessions[t].oackPending
    /\ sessions' =
        IF Wire(m.blk) = 0
        THEN [sessions EXCEPT ![t] = FillWindow(
                [@ EXCEPT !.retries = 0, !.oackPending = FALSE,
                          !.lastAckedBlock = 0, !.nextBlockToSend = 1,
                          !.windowCache = {}])]
        ELSE sessions
    /\ Deliver(m, {})

\* Mutant: only the acknowledged block is dropped
AckOnlyBlock(s, a) ==
    LET t1 == [s EXCEPT !.retries = 0,
                        !.windowCache = @ \ {a},
                        !.lastAckedBlock = a]
    IN  IF t1.sentLastBlock /\ t1.windowCache = {}
        THEN Finish(t1, "ok")
        ELSE FillWindow(t1)

\* handleAck() after the block it acknowledges, a, has been found.
AckBlock(s, a) ==
    LET t1 == [s EXCEPT !.retries = 0,
                        !.windowCache = @ \ ((s.lastAckedBlock + 1)..a),
                        !.lastAckedBlock = a]
    IN  IF t1.sentLastBlock /\ t1.windowCache = {}
        THEN Finish(t1, "ok")
        ELSE FillWindow(t1)

\* An ACK of a block in windowCache: all the blocks before it arrived too.
\* An ACK of any other block is ignored.
SessionReceivesAck(m, t) ==
    /\ m.op = "ACK"
    /\ m.to = "session"
    /\ m.tid = t
    /\ Active(t)
    /\ ~sessions[t].oackPending
    /\ LET s == sessions[t]
       IN  \/ \E a \in s.windowCache :
                /\ IsFirstMatch(s.windowCache, a, Wire(m.blk))
                /\ sessions' = [sessions EXCEPT ![t] =
                        IF a > s.lastAckedBlock THEN AckBlock(s, a) ELSE s]
           \/ /\ NoMatch(s.windowCache, Wire(m.blk))
              /\ UNCHANGED sessions
    /\ Deliver(m, {})

SessionReceivesError(m, t) ==
    /\ m.op = "ERROR"
    /\ m.to = "session"
    /\ m.tid = t
    /\ Active(t)
    /\ sessions' = [sessions EXCEPT ![t] = Finish(@, "failed")]
    /\ Deliver(m, {})

\* Anything else that reaches a reading session's port.
SessionIgnores(m, t) ==
    /\ m.op \notin {"ACK", "ERROR"}
    /\ m.to = "session"
    /\ m.tid = t
    /\ Active(t)
    /\ Deliver(m, {})
    /\ UNCHANGED sessions

\* Mutant: the retransmission does not arm the timer again
SessionTimesOutOnce(t) ==
    /\ Active(t)
    /\ sessions[t].timer
    /\ LET s == sessions[t]
       IN  IF s.retries + 1 > MaxRetries
           THEN /\ sessions' = [sessions EXCEPT ![t] = Finish(s, "failed")]
                /\ UNCHANGED net
           ELSE /\ sessions' = [sessions EXCEPT ![t] =
                        [s EXCEPT !.retries = @ + 1, !.timer = FALSE]]
                /\ net' = net \cup DataOf(t, s, s.windowCache)
    /\ UNCHANGED losses

\* The timer is a single shot: only sending a packet arms it again.
SessionTimesOut(t) ==
    /\ Active(t)
    /\ sessions[t].timer
    /\ LET s == sessions[t]
       IN  IF s.retries + 1 > MaxRetries
           THEN /\ sessions' = [sessions EXCEPT ![t] =
                        Finish([s EXCEPT !.retries = @ + 1], "failed")]
                /\ UNCHANGED net
           ELSE /\ sessions' = [sessions EXCEPT ![t] =
                        [s EXCEPT !.retries = @ + 1,
                                  !.timer = s.windowCache # {}]]
                /\ net' = net \cup DataOf(t, s, s.windowCache)
    /\ UNCHANGED losses
=============================================================================
