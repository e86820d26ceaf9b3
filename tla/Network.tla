------------------------------ MODULE Network -------------------------------
(***************************************************************************)
(* UDP between one client and a server: the server's own port and one port *)
(* (transfer identifier, TID) per session.  The program does not implement *)
(* this part; it is what QUdpSocket and the network promise, that is, very *)
(* little.                                                                 *)
(*                                                                         *)
(* With Duplication, a datagram once sent may be delivered at any later    *)
(* time, any number of times, in any order, or never.  Without it, every   *)
(* datagram is delivered at most once, in any order, and at most MaxLosses *)
(* of those that somebody waits for get lost.                              *)
(***************************************************************************)
EXTENDS Blocks

CONSTANTS
    Tids,         \* the ports sessions may be given
    NoTid,        \* no port; also the server's own port, which is no session's
    Duplication,  \* whether datagrams may be delivered more than once
    MaxLosses     \* how many may be lost when they may not (a bound)

ASSUME NetworkAssumption ==
    /\ NoTid \notin Tids
    /\ Duplication \in BOOLEAN
    /\ MaxLosses \in Nat

VARIABLES
    net,    \* the datagrams on their way
    losses  \* how many have been lost

(***************************************************************************)
(* A datagram names the session it is from or for.  blk is the sender's    *)
(* 64-bit block number, of which the receiver sees only Wire(blk).         *)
(***************************************************************************)
Ops == {"RRQ", "WRQ", "OACK", "DATA", "ACK", "ERROR"}

Message == [op  : Ops,
            to  : {"server", "session", "client"},
            tid : Tids \cup {NoTid},
            blk : Nat,
            payload : Payloads]   \* of a DATA

Data(to, t, b, p) ==
    [op |-> "DATA", to |-> to, tid |-> t, blk |-> b, payload |-> p]

Msg(op, to, t, b) ==
    [op |-> op, to |-> to, tid |-> t, blk |-> b, payload |-> 0]

Oack(t)       == Msg("OACK", "client", t, 0)
Ack(to, t, b) == Msg("ACK", to, t, b)

NetTypeOK ==
    /\ net \subseteq Message
    /\ losses \in 0..MaxLosses

NetInit(first) ==
    /\ net = {first}
    /\ losses = 0

\* replies leave an endpoint
Send(replies) == /\ net' = net \cup replies
                 /\ UNCHANGED losses

\* An endpoint takes m off the network and answers with replies.
Deliver(m, replies) ==
    /\ net' = (IF Duplication THEN net ELSE net \ {m}) \cup replies
    /\ UNCHANGED losses

\* A datagram somebody waits for gets lost.
Lose(m) ==
    /\ ~Duplication
    /\ losses < MaxLosses
    /\ net' = net \ {m}
    /\ losses' = losses + 1

\* A datagram reaches a port that nobody reads any more.
Discard(m) ==
    /\ ~Duplication
    /\ net' = net \ {m}
    /\ UNCHANGED losses
=============================================================================
