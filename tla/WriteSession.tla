---------------------------- MODULE WriteSession ----------------------------
(***************************************************************************)
(* The server's side of an upload: TftpSession for a WRQ, in the mode in   *)
(* which every session has a socket of its own, without speed limits.      *)
(*                                                                         *)
(* Blocks wait in receiveBuffer and are written one at a time: a task of   *)
(* the global thread pool takes the block that follows currentBlock, and   *)
(* posts the write back to the session. What arrives meanwhile is compared *)
(* with the old currentBlock.                                              *)
(*                                                                         *)
(* While a session is active its timer is always armed (start(), every ACK *)
(* and every timeout arm it), so the timer needs no variable.              *)
(***************************************************************************)
EXTENDS Network, Sequences

CONSTANTS
    Options,       \* the request carries options, so the session answers OACK
    ServerFaults   \* what may fail, see WriteFaults

\* The disk refuses a block ("write"), or does so only when buffered data are
\* flushed at the end, which nobody looks at ("flush").
WriteFaults == {"reject", "bind", "open", "write", "flush"}

ASSUME WriteSessionAssumption ==
    /\ Options \in BOOLEAN
    /\ ServerFaults \subseteq WriteFaults
    /\ ~Options => Window = 1

VARIABLES
    sessions,
    receiveBuffer,  \* m_receiveBuffer of each session
    file,           \* the payloads in the file, one per block written (in
                    \* netascii mode they are in m_netasciiData until the end)
    creator         \* the session that created the file, if it exists

Session == [state        : {"unused", "active", "ok", "failed"},
            currentBlock : Nat,
            lastPacket   : {"OACK", "ACK"},   \* an ACK is always of currentBlock
            writing      : Nat,               \* the block a task has, or 0
            payload      : Payloads,          \* and its payload
            retries      : 0..MaxRetries + 1]

SessionsTypeOK ==
    /\ sessions \in [Tids -> Session]
    /\ DOMAIN receiveBuffer = Tids
    /\ \A t \in Tids :
        /\ DOMAIN receiveBuffer[t] \subseteq Nat
        /\ receiveBuffer[t] \in [DOMAIN receiveBuffer[t] -> Payloads]
    /\ file \in Seq(Payloads)
    /\ creator \in Tids \cup {NoTid}

\* The members as the constructor leaves them.
NewSession == [state |-> "unused", currentBlock |-> 0, lastPacket |-> "ACK",
               writing |-> 0, payload |-> 0, retries |-> 0]

SessionsInit ==
    /\ sessions = [t \in Tids |-> NewSession]
    /\ receiveBuffer = [t \in Tids |-> [b \in {} |-> 0]]
    /\ file = << >>
    /\ creator = NoTid

Active(t) == sessions[t].state = "active"

\* finish(): the first outcome stands.
Finish(s, outcome) ==
    IF s.state \in {"ok", "failed"} THEN s ELSE [s EXCEPT !.state = outcome]

\* m_lastPacket as sent by session t with the members s.
LastPacket(t, s) ==
    IF s.lastPacket = "OACK" THEN Oack(t) ELSE Ack("client", t, s.currentBlock)

\* The numbers handleData() looks for
Expected(s) ==
    (s.currentBlock + 1)..(s.currentBlock + (IF Options THEN Window ELSE 1))

\* Mutant: "<=" for "<", a full block ends the file
EndsFileAlways(payload) == TRUE

\* size < m_blockSize
EndsFile(payload) == payload \in {0, N}

\* A task is started for the block after currentBlock, if it is in the buffer
\* and no task is under way.
TakeNext(s, buffer) ==
    IF s.writing = 0 /\ s.currentBlock + 1 \in DOMAIN buffer
    THEN [s EXCEPT !.writing = s.currentBlock + 1,
                   !.payload = buffer[s.currentBlock + 1]]
    ELSE s

\* What is left in the buffer.
LeaveRest(s, buffer) ==
    IF s.writing = 0 THEN Without(buffer, {s.currentBlock + 1}) ELSE buffer

-----------------------------------------------------------------------------

ServerTakesRequest(m, t) ==
    /\ m.op = "WRQ"
    /\ m.to = "server"
    /\ sessions[t].state = "unused"

\* Mutant: an existing file is opened again
StartOnAnyFile(m, t) ==
    /\ ServerTakesRequest(m, t)
    /\ creator' = t
    /\ LET s == [sessions[t] EXCEPT
                    !.state = "active",
                    !.lastPacket = IF Options THEN "OACK" ELSE "ACK"]
       IN  /\ sessions' = [sessions EXCEPT ![t] = s]
           /\ Deliver(m, {LastPacket(t, s)})
    /\ UNCHANGED <<receiveBuffer, file>>

\* The server accepts a request: a new session on a port of its own creates
\* the file.
StartSession(m, t) ==
    /\ ServerTakesRequest(m, t)
    /\ creator = NoTid
    /\ creator' = t
    /\ LET s == [sessions[t] EXCEPT
                    !.state = "active",
                    !.lastPacket = IF Options THEN "OACK" ELSE "ACK"]
       IN  /\ sessions' = [sessions EXCEPT ![t] = s]
           /\ Deliver(m, {LastPacket(t, s)})
    /\ UNCHANGED <<receiveBuffer, file>>

\* start() cannot bind a socket, and says nothing to the client.
StartFailsToBind(m, t) ==
    /\ "bind" \in ServerFaults
    /\ ServerTakesRequest(m, t)
    /\ sessions' = [sessions EXCEPT ![t] = Finish(@, "failed")]
    /\ Deliver(m, {})
    /\ UNCHANGED <<receiveBuffer, file, creator>>

\* start() finds that the file exists, cannot create it or does not know the
\* mode: sendError(). The second copy of a request always finds the file.
StartFailsToOpen(m, t) ==
    /\ creator # NoTid \/ "open" \in ServerFaults
    /\ ServerTakesRequest(m, t)
    /\ sessions' = [sessions EXCEPT ![t] = Finish(@, "failed")]
    /\ Deliver(m, {Msg("ERROR", "client", t, 0)})
    /\ UNCHANGED <<receiveBuffer, file, creator>>

\* The server refuses the request (a limit or a policy) from its own port.
RejectRequest(m) ==
    /\ "reject" \in ServerFaults
    /\ m.op = "WRQ"
    /\ m.to = "server"
    /\ Deliver(m, {Msg("ERROR", "client", NoTid, 0)})
    /\ UNCHANGED <<sessions, receiveBuffer, file, creator>>

SessionTakes(m, t) ==
    /\ m.to = "session"
    /\ m.tid = t
    /\ Active(t)

\* Mutant: any block is taken for the one that follows
SessionReceivesDataUnchecked(m, t) ==
    /\ SessionTakes(m, t)
    /\ m.op = "DATA"
    /\ LET s == sessions[t]
           buffer == Put(receiveBuffer[t], s.currentBlock + 1, m.payload)
       IN  /\ sessions' = [sessions EXCEPT ![t] = TakeNext(s, buffer)]
           /\ receiveBuffer' = [receiveBuffer EXCEPT ![t] = LeaveRest(s, buffer)]
    /\ Deliver(m, {})
    /\ UNCHANGED <<file, creator>>

\* DATA of an expected block: it is buffered, and acknowledged when written.
SessionReceivesData(m, t) ==
    /\ SessionTakes(m, t)
    /\ m.op = "DATA"
    /\ LET s == sessions[t]
       IN  \E b \in Expected(s) :
            /\ IsFirstMatch(Expected(s), b, Wire(m.blk))
            /\ LET buffer == Put(receiveBuffer[t], b, m.payload)
               IN  /\ sessions' = [sessions EXCEPT ![t] = TakeNext(s, buffer)]
                   /\ receiveBuffer' =
                        [receiveBuffer EXCEPT ![t] = LeaveRest(s, buffer)]
    /\ Deliver(m, {})
    /\ UNCHANGED <<file, creator>>

\* What DATA of any other block does to the session
AnswersUnexpectedData(m, t) ==
    /\ SessionTakes(m, t)
    /\ m.op = "DATA"
    /\ NoMatch(Expected(sessions[t]), Wire(m.blk))
    /\ sessions' = [sessions EXCEPT ![t].lastPacket = "ACK"]
    /\ UNCHANGED <<receiveBuffer, file, creator>>

\* It acknowledges again what has been written.
SessionReceivesUnexpectedData(m, t) ==
    /\ AnswersUnexpectedData(m, t)
    /\ Deliver(m, {Ack("client", t, sessions[t].currentBlock)})

SessionReceivesError(m, t) ==
    /\ SessionTakes(m, t)
    /\ m.op = "ERROR"
    /\ sessions' = [sessions EXCEPT ![t] = Finish(@, "failed")]
    /\ Deliver(m, {})
    /\ UNCHANGED <<receiveBuffer, file, creator>>

\* Anything else that reaches a writing session's port.
SessionIgnores(m, t) ==
    /\ SessionTakes(m, t)
    /\ m.op \notin {"DATA", "ERROR"}
    /\ Deliver(m, {})
    /\ UNCHANGED <<sessions, receiveBuffer, file, creator>>

\* onDataBlockWritten(): the task's block is in the file. It is acknowledged,
\* and the next one is taken; a short block ends the session, and its ACK is
\* never sent again.
BlockWritten(t) ==
    /\ Active(t)
    /\ sessions[t].writing # 0
    /\ LET s == [sessions[t] EXCEPT !.currentBlock = sessions[t].writing,
                                    !.writing = 0,
                                    !.retries = 0,
                                    !.lastPacket = "ACK"]
           last == EndsFile(s.payload)
           whole == Append(file, s.payload)
       IN  /\ sessions' = [sessions EXCEPT ![t] =
                IF last THEN Finish(s, "ok") ELSE TakeNext(s, receiveBuffer[t])]
           /\ receiveBuffer' = [receiveBuffer EXCEPT ![t] =
                IF last THEN @ ELSE LeaveRest(s, @)]
           /\ \/ file' = whole
              \/ /\ "flush" \in ServerFaults
                 /\ last
                 /\ \E n \in 0..(Len(whole) - 1) : file' = SubSeq(whole, 1, n)
           /\ Send({Ack("client", t, s.currentBlock)})
    /\ UNCHANGED creator

\* Mutant: the failed block is acknowledged
BlockWriteUnchecked(t) ==
    /\ Active(t)
    /\ sessions[t].writing # 0
    /\ sessions' = [sessions EXCEPT ![t].currentBlock = sessions[t].writing,
                                    ![t].writing = 0]
    /\ Send({Ack("client", t, sessions[t].writing)})
    /\ UNCHANGED <<receiveBuffer, file, creator>>

\* The disk refuses the block. (Netascii data are kept in memory until the
\* end, and to write no bytes cannot fail.)
BlockWriteFails(t) ==
    /\ "write" \in ServerFaults
    /\ ~Netascii
    /\ Active(t)
    /\ sessions[t].writing # 0
    /\ HasBytes(sessions[t].payload)
    /\ sessions' = [sessions EXCEPT ![t] =
            Finish([@ EXCEPT !.writing = 0], "failed")]
    /\ Send({Msg("ERROR", "client", t, 0)})
    /\ UNCHANGED <<receiveBuffer, file, creator>>

\* The session is over and its file closed: nothing is written. (Netascii data are
\* still appended in memory, which nobody reads any more. The session object is
\* taken to exist as long as its tasks; see README.)
BlockWriteIgnored(t) ==
    /\ ~Active(t)
    /\ sessions[t].writing # 0
    /\ sessions' = [sessions EXCEPT ![t].writing = 0]
    /\ UNCHANGED <<receiveBuffer, file, creator, net, losses>>

\* Mutant: the retries are not counted
SessionTimesOutUncounted(t) ==
    /\ Active(t)
    /\ Send({LastPacket(t, sessions[t])})
    /\ UNCHANGED <<sessions, receiveBuffer, file, creator>>

\* The last packet is sent again, or the session gives up.
SessionTimesOut(t) ==
    /\ Active(t)
    /\ LET s == [sessions[t] EXCEPT !.retries = @ + 1]
       IN  IF s.retries > MaxRetries
           THEN /\ sessions' = [sessions EXCEPT ![t] = Finish(s, "failed")]
                /\ UNCHANGED <<net, losses>>
           ELSE /\ sessions' = [sessions EXCEPT ![t] = s]
                /\ Send({LastPacket(t, s)})
    /\ UNCHANGED <<receiveBuffer, file, creator>>
=============================================================================
