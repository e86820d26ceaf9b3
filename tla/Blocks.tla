------------------------------- MODULE Blocks -------------------------------
(***************************************************************************)
(* The source file cut into blocks, and the 16-bit numbers blocks carry on *)
(* the wire.                                                               *)
(*                                                                         *)
(* Both ends count blocks with a qint64 and send quint16(block); a peer    *)
(* recovers the 64-bit number by looking, in a small range of candidates,  *)
(* for the first one whose low 16 bits are the number it received.         *)
(***************************************************************************)
EXTENDS Integers, FiniteSets

CONSTANTS
    BlockMod,   \* how many wire numbers there are: 2^16 in the code
    N,          \* the file's last block: the first one shorter than blksize
    Window,     \* the negotiated window size (RFC 7440), 1 without options
    LastEmpty,  \* the file is a multiple of blksize: block N has no bytes
    Netascii,   \* the mode is netascii, not octet
    MaxRetries  \* m_maxRetries, 5 in the code

\* A window (at most 64 blocks) is far smaller than the number space (65536).
ASSUME BlocksAssumption ==
    /\ N \in Nat \ {0}
    /\ Window \in Nat \ {0}
    /\ MaxRetries \in Nat
    /\ LastEmpty \in BOOLEAN
    /\ Netascii \in BOOLEAN
    /\ BlockMod \in Nat
    /\ Window < BlockMod

\* quint16(block)
Wire(b) == b % BlockMod

\* b is the first member of S with wire number w: where the search loops of
\* handleAck and handleData stop.
IsFirstMatch(S, b, w) ==
    /\ b \in S
    /\ Wire(b) = w
    /\ \A c \in S : Wire(c) = w => b <= c

\* The search loops run out of candidates: block64 (acked64) stays -1.
NoMatch(S, w) == \A b \in S : Wire(b) # w

\* D holds cur + 1, ..., k and not k + 1: where a loop
\* "while (buffer.contains(current + 1))" that starts at cur stops.
IsRunEnd(D, cur, k) ==
    /\ k >= cur
    /\ (cur + 1)..k \subseteq D
    /\ k + 1 \notin D

\* What a block holds: its own piece of the file, or nothing past the end
\* (reading at or after the end of a file gives no bytes).
Payload(b) == IF b <= N THEN b ELSE 0

Payloads == 0..N

\* The payload is not empty.
HasBytes(payload) == payload # 0 /\ ~(payload = N /\ LastEmpty)

\* QMap: [] =, take() and a run of take()s of lo + 1, ..., hi
Put(f, x, v) == [y \in DOMAIN f \cup {x} |-> IF y = x THEN v ELSE f[y]]
Without(f, S) == [y \in DOMAIN f \ S |-> f[y]]
Run(f, lo, hi) == [i \in 1..(hi - lo) |-> f[lo + i]]
=============================================================================
