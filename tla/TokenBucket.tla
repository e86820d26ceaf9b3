----------------------------- MODULE TokenBucket -----------------------------
(***************************************************************************)
(* The speed limits of the server: a bucket for each session, one for all  *)
(* of them together, and one for the requests of each client address.      *)
(*                                                                         *)
(* A packet for which there are not enough tokens is charged all the same  *)
(* and sent when the debt is paid; a request is refused instead. Tokens    *)
(* are counted in parts of a byte (of a request) such that a bucket gets   *)
(* its limit per tick; so nothing is rounded but the delay.                *)
(***************************************************************************)
EXTENDS Integers, FiniteSets

CONSTANTS
    Sessions,
    Global,          \* the bucket of all sessions
    Addresses,       \* client addresses
    SessionLimit,    \* m_sessionLimit, bytes per second
    GlobalLimit,     \* m_globalLimit
    RequestLimit,    \* m_maxRequestsPerSecond
    BlockSize,       \* what a packet has at most, in bytes
    GlobalBurst,     \* 65536.0 * 2.0
    TicksPerSecond,  \* 1000
    MaxDebt          \* a bound on the debt of a bucket

ASSUME BucketAssumption ==
    /\ Global \notin Sessions
    /\ Global \notin Addresses
    /\ Sessions \cap Addresses = {}
    /\ IsFiniteSet(Sessions)
    /\ {SessionLimit, GlobalLimit, RequestLimit, BlockSize, TicksPerSecond} \subseteq Nat \ {0}
    /\ GlobalBurst \in Nat
    /\ MaxDebt \in Nat

VARIABLES
    tokens,    \* m_sessionTokens, m_globalTokens, the tokens of m_ipRateLimiters
    started,   \* whether the timer of the bucket is valid
    wait,      \* what is left of m_sendTimer, in ticks
    pending,   \* the size of m_pendingSendPacket, 0 if none waits
    allowance  \* what a bucket may still let through, see RateRespected

vars == <<tokens, started, wait, pending, allowance>>

Buckets == Sessions \cup {Global} \cup Addresses
Bytes(n) == n * TicksPerSecond
Sizes    == {Bytes(n) : n \in 1..BlockSize}

Larger(a, b)  == IF a > b THEN a ELSE b
Smaller(a, b) == IF a < b THEN a ELSE b

Rate(b) == IF b \in Sessions THEN SessionLimit
           ELSE IF b = Global THEN GlobalLimit
           ELSE RequestLimit

\* The tokens of a bucket when it is first used: those of a second
Initial(b) == IF b \in Addresses THEN Bytes(5) ELSE Bytes(Rate(b))

\* The tokens it holds at most
Full(b) == IF b \in Sessions THEN Larger(Bytes(2 * BlockSize), Initial(b))
           ELSE IF b = Global THEN Larger(Bytes(GlobalBurst), Initial(b))
           ELSE Bytes(5)

\* What may get through at once: a full bucket, and a packet that waits for each
\* of the sessions that use it.
Burst(b) == IF b \in Sessions THEN Full(b) + Bytes(BlockSize)
            ELSE IF b = Global THEN Full(b) + Cardinality(Sessions) * Bytes(BlockSize)
            ELSE Full(b)

TypeOK ==
    /\ tokens \in [Buckets -> Int]
    /\ \A b \in Buckets : tokens[b] <= Full(b)
    /\ started \in [Buckets -> BOOLEAN]
    /\ wait \in [Sessions -> Nat]
    /\ pending \in [Sessions -> Sizes \cup {0}]
    /\ allowance \in [Buckets -> Int]

Init ==
    /\ tokens = [b \in Buckets |-> Initial(b)]
    /\ started = [b \in Buckets |-> FALSE]
    /\ wait = [s \in Sessions |-> 0]
    /\ pending = [s \in Sessions |-> 0]
    /\ allowance = [b \in Buckets |-> Burst(b)]

-----------------------------------------------------------------------------

\* What a bucket that is in use has a tick later
Refilled(b) == Smaller(tokens[b] + Rate(b), Full(b))

\* A millisecond passes.
Tick ==
    /\ tokens' = [b \in Buckets |-> IF started[b] THEN Refilled(b) ELSE tokens[b]]
    /\ wait' = [s \in Sessions |-> IF wait[s] > 0 THEN wait[s] - 1 ELSE 0]
    /\ allowance' = [b \in Buckets |-> Smaller(allowance[b] + Rate(b), Burst(b))]
    /\ UNCHANGED <<started, pending>>

\* Mutant: the debt of earlier packets is not waited for
IsShortDelay(b, size, d) ==
    IF tokens[b] >= size
    THEN d = 0
    ELSE Rate(b) * d >= size /\ Rate(b) * (d - 1) < size

\* requestSessionDelay() and requestGlobalDelay(): the least number of ticks
\* after which the tokens are enough
IsDelay(b, size, d) ==
    IF tokens[b] >= size
    THEN d = 0
    ELSE Rate(b) * d >= size - tokens[b] /\ Rate(b) * (d - 1) < size - tokens[b]

\* sendPacketDeferred(): both buckets are charged, and the longer delay counts.
\* A packet that has to wait replaces the one that waits already.
SendPacket(s, size) ==
    /\ \A b \in {s, Global} : tokens[b] - size >= -MaxDebt
    /\ tokens' = [b \in Buckets |-> IF b \in {s, Global} THEN tokens[b] - size ELSE tokens[b]]
    /\ started' = [b \in Buckets |-> started[b] \/ b \in {s, Global}]
    /\ \E d, e \in 0..(MaxDebt + 1) :
        /\ IsDelay(s, size, d)
        /\ IsDelay(Global, size, e)
        /\ IF Larger(d, e) = 0
           THEN /\ allowance' = [b \in Buckets |->
                        IF b \in {s, Global} THEN allowance[b] - size ELSE allowance[b]]
                /\ UNCHANGED <<wait, pending>>
           ELSE /\ wait' = [wait EXCEPT ![s] = Larger(d, e)]
                /\ pending' = [pending EXCEPT ![s] = size]
                /\ UNCHANGED allowance

\* onSendTimerTimeout(), on time or late (never early, as a coarse timer may be)
SendTimeout(s) ==
    /\ pending[s] # 0
    /\ wait[s] = 0
    /\ pending' = [pending EXCEPT ![s] = 0]
    /\ allowance' = [b \in Buckets |->
            IF b \in {s, Global} THEN allowance[b] - pending[s] ELSE allowance[b]]
    /\ UNCHANGED <<tokens, started, wait>>

\* finish() stops the timer; another session begins with a bucket of its own.
SessionEnds(s) ==
    /\ tokens' = [tokens EXCEPT ![s] = Initial(s)]
    /\ started' = [started EXCEPT ![s] = FALSE]
    /\ wait' = [wait EXCEPT ![s] = 0]
    /\ pending' = [pending EXCEPT ![s] = 0]
    /\ allowance' = [allowance EXCEPT ![s] = Burst(s)]

\* listen() invalidates the timer of the common bucket, whose debt is forgotten
\* with it; the sessions go on.
Listen ==
    /\ tokens' = [tokens EXCEPT ![Global] = Initial(Global)]
    /\ started' = [started EXCEPT ![Global] = FALSE]
    /\ allowance' = [allowance EXCEPT ![Global] = Burst(Global)]
    /\ UNCHANGED <<wait, pending>>

HasToken(a) == tokens[a] >= Bytes(1)

\* A request passes the limiter. (One that does not starts the bucket.)
AdmitRequest(a) ==
    /\ HasToken(a)
    /\ tokens' = [tokens EXCEPT ![a] = @ - Bytes(1)]
    /\ started' = [started EXCEPT ![a] = TRUE]
    /\ allowance' = [allowance EXCEPT ![a] = @ - Bytes(1)]
    /\ UNCHANGED <<wait, pending>>

Next ==
    \/ Tick
    \/ \E s \in Sessions :
        \/ \E size \in Sizes : SendPacket(s, size)
        \/ SendTimeout(s)
        \/ SessionEnds(s)
    \/ Listen
    \/ \E a \in Addresses : AdmitRequest(a)

Spec == Init /\ [][Next]_vars

-----------------------------------------------------------------------------
\* "The global bandwidth limit in bytes per second", the session's and that of
\* requests: in no period of time, whenever it begins, does a bucket let through
\* more than its limit allows for that time and one burst. (The allowance grows
\* with time up to a burst; every packet really sent is taken from it.)
Respected(b) == allowance[b] >= 0

RateRespected == \A b \in Buckets : Respected(b)
=============================================================================
