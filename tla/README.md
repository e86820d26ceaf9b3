# AetherTFTP in TLA+

TLA+ models of the TFTP client and server in `src/src/core`, of the server's
metrics exporter and of the two front ends of the client, TLC runs that check
them on small instances, and TLAPS proofs of what matters most for every value
of the constants. Every definition is translated from the source;
`PROJECT.json` names the lines each one stands for.

## The system

| part | state | operations | talks to |
|---|---|---|---|
| `TftpSession` (one per accepted request) | block counters, window cache, read buffer, receive buffer, retries, retransmission timer; under a speed limit a token bucket, one pending packet, its timer | `start`, `processDatagram`, `onDataBlockRead`, `onDataBlockWritten`, `onTimeout`, `onSendTimerTimeout`, `finish` | its client by UDP, the thread pool by queued calls, the server by the signal `finished` |
| `TftpClient` | block counters, window cache, receive buffer, locked TID, last packet, retries | `begin`, `onReadyRead`, `onTimeout`, `abort` | a session by UDP, its caller by `transferFinished` |
| `TftpServer` | socket, registry of sessions (single-port mode), counters, access rules, token buckets of all sessions together and of each client address | `listen`, `close`, `onReadyRead`, setters, the `finished` handler | sessions, clients, the exporter |
| `tftp_protocol` | none | build and parse packets, netascii, clamping | all |
| `MetricsExporter` | connections and their deadlines | accept, answer, time out, stop | the server, which starts and stops it |
| `EmbeddedWebServer`, `PxeProxyDhcp` | a socket | one reply per request | the server's statistics |
| `CliRunner` | one client or server | parse, run, exit code | client, server |
| GUI (`MainWindow`, `TransferModel`) | a table and a queue of transfers, up to `m_maxConcurrent` clients | start, cancel, finished, next, clear, settings | clients, server |

What makes it hard: datagrams get lost, repeated and reordered; blocks are
read by pool tasks that finish in any order and call back by queued
invocations; block numbers are 16 bits on the wire and 64 bits inside; a timer
is a single shot that only sending arms again; handlers of one object are run
to completion by one event loop, but a session, its client and its tasks
interleave freely; sessions are deleted, and servers closed and reopened,
while all of this goes on. `PROJECT.json` lists each hazard at its line.

What each part has to keep right:

* a download: the file is the server's file, whatever the network does; nobody
  reports success too early; everybody stops in the end;
* an upload: the same with the roles exchanged, with one write task at a time;
* speed limits: no bucket lets through more than its limit, and a limit only
  delays: the last packet goes out, and a session is never left without a timer;
* the server: datagrams are routed to the session they belong to, the limits on
  sessions hold, the counters count each transfer once, also when the server is
  closed and reopened under its sessions;
* the exporter: one response for each connection, and no more connections than it
  may have;
* the GUI: no more clients than slots, the oldest transfer first, each ends in
  one state, and the table says what is the case.

## Modules

| module | models |
|---|---|
| `Blocks` | the file as blocks, wire numbers, the search loops of `handleAck` and `handleData` |
| `Network` | UDP between a client, the server's port and the sessions' ports (external) |
| `ReadSession`, `WriteSession` | `TftpSession` for an RRQ and for a WRQ, many of them |
| `DownloadClient`, `UploadClient` | `TftpClient` in `Mode::Download` and in `Mode::Upload` |
| `Download`, `Upload` | a client and its sessions together: `Next`, fairness, properties |
| `Transfer` | what a transfer promises, abstractly, whichever side receives |
| `ThrottledDownload`, `ThrottledUpload` | the same sessions under a speed limit: the packet that waits, the two timers |
| `TokenBucket` | how long a packet waits: the buckets of sessions, of all together, and of requests |
| `Policy` | `TftpServer::isAllowed`: subnet rules, lists, read-only |
| `Server` | `TftpServer`: requests, registry, limits, counters, `listen` and `close` |
| `MetricsExporter` | HTTP connections, their deadline, start, stop and deletion |
| `Service` | server and exporter together, with the properties of both |
| `TransferQueue` | `MainWindow`'s queue and clients, the rows of `TransferModel` |
| `CliRunner` | `runTransfer` from the command line to the exit code |
| `Application` | the two front ends, fairness and properties |
| `MCDownload`, `MCUpload`, `MCService`, `MCTokenBucket` | for TLC: symmetry, and the access rules of the `Service` run |
| `Blocks_proofs`, `Download_proofs`, `Upload_proofs`, `ThrottledDownload_proofs`, `ThrottledUpload_proofs`, `TokenBucket_proofs`, `Service_proofs`, `Application_proofs` | the theorems |

    Blocks <- Network <- ReadSession,  DownloadClient <- Download <- ThrottledDownload
                      <- WriteSession, UploadClient   <- Upload   <- ThrottledUpload
    Transfer: INSTANCEd by Download and by Upload
    Policy <- Server, MetricsExporter <- Service
    TransferQueue, CliRunner <- Application
    TokenBucket

The groups meet where their environments are: a session of `Server` transfers
some bytes and finishes once, which is what `Download` and `Upload` show of it;
a client of `TransferQueue` and of `CliRunner` emits `transferFinished` once,
which they show as well; a packet of `ThrottledDownload` and `ThrottledUpload`
waits for any time, and `TokenBucket` says for how long.

Data are abstracted to block numbers: block `b` of the source has the payload
`b`, a read that gives no bytes has the payload `0`, and block `N` is the short
one. So a file is right if and only if it is the sequence of its indices. A
`DATA` in `net` carries the sender's 64-bit number; the receiver looks only at
`Wire(blk)`, as the code does, and finds its own 64-bit number by the code's
search. `file` holds what `QFile::write` has accepted (in netascii mode what
`m_netasciiData` has), so "written" below does not mean "on the disk": the two
differ when buffered data cannot be flushed (`"flush"`).

One action is one run of an event handler:

| action | code |
|---|---|
| `SessionReceivesAck` | `TftpSession::handleAck` with the `fillWindow` it ends in |
| `BlockRead` | `onDataBlockRead` with its loop and `fillWindow` |
| `SessionReceivesData` | `TftpSession::handleData`, which may start a write task |
| `BlockWritten` | `onDataBlockWritten`: the ACK, then the next task or `finish` |
| `ReceiveData` | `TftpClient::handleData` with its loop, the ACK and `succeed` |
| `ReceiveAck` | `TftpClient::handleAck` with `fillWindow` or `succeed` |
| `SendTimeout` | `onSendTimerTimeout`: the packet that waited, and the timer for its answer |
| `GoesDeaf` | `onReadyRead` returning at once because a packet waits |
| `AnswersLater` | `handleData` whose ACK has to wait, and the rest of that loop of `onReadyRead`, in which `processDatagram` drops what it reads |
| `StartSession`, `StartFails` | `TftpServer::onReadyRead` for a request that passes, up to the return of `start()` |
| `Finishes` | the server's handler of `finished` |
| `Answer` | `MetricsExporter::sendResponse`, for a request or a deadline |
| `ProcessQueue` | `MainWindow::processQueue` with the handlers that run inside its loop |
| `HandlesFinished` | the handler of `transferFinished`, which ends in `processQueue` |

A pool task is a member of `readTasks`, or the block in `writing`, from the
moment it is started until its queued call has been handled; that it may be
handled at any time, read tasks in any order, is the interleaving of
`SessionReads` and `SessionWrites` with all the rest.

The client's timer, and that of a session that writes, need no variable: they
are armed as long as their owner runs. That of a session that reads does, because
it is not: `timer` is `m_timer->isActive()`.

Under a speed limit the sessions take the steps of `Download` and `Upload`, and
`sendPacketDeferred` decides what comes of each packet: it is sent at once and
the timer armed, or it waits in `held`, in the place of one that waits already,
and the timer is stopped. `net` has what the sessions handed over, `withheld`
what of it has not been sent; client and network see only the rest. So the
timers of the unlimited models become the two of the limited ones (`armed` or
`timer`, and `held`), and their properties can be used for these.

In `Server`, `stale` and `rival` are no state of the program. They tell which
sessions the properties of the registry are about (see below). `TokenBucket` has
an `allowance` for each bucket, which grows with time up to a burst and of which
every packet really sent is taken: that it never gets below zero says that the
limit holds in every period of time.

### Hypotheses

About the network: the code cannot tell an old datagram from a new one with the
same 16-bit number. `Fresh` says that no DATA, ACK or (in an upload) OACK is
delivered once the receiver is a whole turn of numbers further (65536 blocks,
minus a window). Everything else is allowed: with `Duplication` the set `net`
only grows, so any datagram ever sent can be delivered at any later time, any
number of times, or never.

About the clocks: `wait` in `TokenBucket` ends when it is over or later, never
sooner. `m_sendTimer` is a `Qt::CoarseTimer`, which may be 5 % early; a packet may
then leave that much before its bucket would have let it, and what it owes is
still charged.

`NothingUnnoticed` names what the safety properties need besides, because the
code goes wrong without it:

| part | without it |
|---|---|
| download: `~LateOack`, no OACK of its session reaches a client that has sent an ACK (those of other sessions are strays, and may) | a late one makes it count from 0 again, and write blocks twice |
| upload: a pipe is sent without options | a repeated OACK makes it start again, but standard input is read on |
| upload: a pipe is not sent as netascii | `begin` fills `m_netasciiData` from local files only, so the file is empty |
| download: no read of the server fails with no bytes (`"cut"` in `ServerFaults`); upload: none of the client | no bytes mean the end of the file, and both ends report success for a part of it |
| download: the client's final flush does not fail (`"flush"` in `ClientFaults`); upload: nor the server's | nobody looks at the result of `flush` |

The counterexamples are listed under "Where the code does otherwise".

A late OACK in the upload of a local file needs no hypothesis: it makes the
client start again with block 1, and the session, which compares numbers only
with what it has written, answers with the ACK of that. The runs and the theorems
include it.

## Runs

| run | question | bounds | states |
|---|---|---|---|
| `DownloadWindowed` | safety of a download with options | 6 blocks, window 3, numbers modulo 4, 1 retry, 2 sessions, every fault but `"cut"`, `"flush"` | 542,470 |
| `DownloadEnds` | every session ends, and the client | 3 blocks, stop and wait, numbers modulo 3, 2 retries, 2 sessions, every fault but `"read"` | 48,300 |
| `DownloadSucceeds` | the download succeeds if losses are no more than retries | 4 blocks, window 2, 2 losses, 2 retries, 3 sessions | 11,519 |
| `UploadWindowed` | safety of an upload of a local file, OACKs repeated | 5 blocks, window 2, numbers modulo 3, 1 retry, 2 sessions, every fault but `"cut"`, `"flush"` | 85,674 |
| `UploadEnds` | every session ends, and the client | 3 blocks from standard input, stop and wait, numbers modulo 3, 1 retry, 2 sessions, every fault | 37,754 |
| `UploadSucceeds` | the upload succeeds if losses are no more than retries, and neither the request nor the final ACK is lost | 4 blocks, window 2, 2 losses, 2 retries | 862 |
| `ThrottledDownload` | the timers of a session under a limit, the last block, and success | 4 blocks, window 3, numbers modulo 4, 1 loss, 1 retry, 2 sessions, faults of server and client | 416,117 |
| `ThrottledUpload` | the same for an upload | 4 blocks, window 2, 2 losses as in `UploadSucceeds`, 2 retries, faults | 33,573 |
| `TokenBucket` | no bucket lets through more than its limit and a burst | 2 sessions, 1 address, limits of 1 byte (request) a second, packets of 1 byte, a burst of 2, 2 ticks a second, `MaxDebt` 4 bytes a bucket | 1,521,492 |
| `Service` | registry, limits, counters, connections | 2 endpoints of one address, 3 session objects (`Sids`), at most 2 sessions and 1 for an address, 1 byte (`MaxBytes`); 2 connections, of which 1 is taken | 428,112 |
| `Application` | table, queue, slots; every transfer ends | `MaxTransfers` 5, up to 3 slots | 31,863 |

The safety runs of downloads and uploads check the type invariant, that the file
is always a beginning of the source, what success means at either end, that
nothing is acknowledged before it is written, that exactly the unacknowledged
blocks are kept, that outcomes are final, that an upload overwrites nothing, and
the refinement of `Transfer`. The theorems below cover the same for every window,
with and without options.

Numbers wrap in them (`BlockMod < N`), so the search loops meet numbers of two
turns at once; two sessions are what one repeated request makes, and a third
differs from the second in nothing the client sees. More retries only lengthen
behaviours that the repeating network already contains.

`ThrottledDownload` has a window of 3, so that a block that waits is replaced
while another is read, and losses of any datagram. Any packet may wait or not, so
a limit that sets in and ends at any time is among them.

`TokenBucket` has the smallest numbers for which packets wait several ticks, one
session pays the debt of another, and a bucket fills up. `MaxDebt` bounds what a
bucket may owe; the theorems hold for every such bound. In `Service`, two endpoints of one
address are what the limit per address needs, and three session objects what the
registry needs: one that stays, one that ends, one that takes its place. The
exporter is full with one connection, so that the second is refused. In
`Application` five transfers on up to three slots are enough for some to run, some
to wait and some to be cancelled or cleared at the same time.

`CHECK_DEADLOCK FALSE` because a transfer is over some time, and session objects,
transfers and debts are bounded. All runs enumerate their state space completely.
No bound limits an action except those named: `MaxLosses`, only in the runs without
`Duplication`, `MaxDebt`, `MaxBytes`, `Sids`, and `MaxTransfers`.

### Where the code does otherwise than it says

The run `DownloadOackUnanswered` asks whether every session ends when options are
used, and ends with a counterexample: not if its OACK stays unanswered, for then
nothing arms the timer again. `findings` in `PROJECT.json` quotes the comments that
say otherwise.

For the following, change a run as said:

| change | what fails | why |
|---|---|---|
| `DownloadWindowed` with 2 blocks, window 1, 1 session, no faults, `LateOack = TRUE` | `ClientOkMeansWholeFile` | an OACK that is repeated late makes the client count from 0 again, and blocks are written twice |
| `DownloadEnds` under `LiveSpec` with 4 blocks, `BlockMod = 4`, `Duplication = FALSE`, `PatientTimers`, `Netascii` and `LastEmpty`, no faults | `ClientSucceeds` | the empty block that ends a netascii file of full blocks is an error for `read()` |
| `UploadWindowed` with `Pipe = TRUE` | `SessionOkMeansWholeFile` | standard input is read on, not again, when a repeated OACK makes the client start again |
| `UploadEnds` with `Netascii = TRUE`, no faults | `SessionOkMeansWholeFile` | `begin` fills `m_netasciiData` from local files only, so standard input arrives as an empty file |
| `UploadSucceeds` without `"request"` in `NeverLost` | `ClientSucceeds` | the client's WRQ is never repeated |
| `UploadSucceeds` without `"final ACK"` in `NeverLost` | `ClientSucceeds` | that ACK is sent once: the client reports failure although the file is complete |
| `UploadSucceeds` with 2 blocks | `ClientSucceeds` | the file fits in one window: `m_lastBlockSent` stays set when a repeated OACK starts the upload again |
| `DownloadWindowed` with `"cut"` in `ServerFaults`, or `"flush"` in `ClientFaults`; `UploadWindowed` with these exchanged | `ClientOkMeansWholeFile`, `SessionOkMeansWholeFile` | a read error is taken for the end of the file, and nobody looks at the result of `flush` |
| `DownloadEnds` with `"read"` in `ServerFaults` | `EverySessionEnds` | a failed read in the pool is dropped, and with it the session's next timer |
| `ThrottledUpload` with no losses and no faults, and the property `ClientSucceeds` | `ClientSucceeds` | the final ACK waits under a limit, and `finish()` stops the timer it waits for |
| `Service` with `AddressLimitHolds` | the limit per address | only single-port mode fills the registry that is counted |
| `Service` with `TotalOnlyGrows` | a counter goes down | the bytes of a finished session are counted twice until its object is deleted |
| `Application` with the property `CommandReturns` | a command hangs | `begin()` fails and emits `transferFinished` before the loop it is to end has started |

`SucceedsUnlessMuted` names three more: under a limit the blocks of a window that
have to wait replace each other, so that all but the last are dropped and must be
repeated, at the cost of a retry; a datagram that arrives while a packet waits is
not read, and Qt does not emit `readyRead()` again before it is, so that the
session is deaf from then on; and the final ACK of an upload. It does not except
what gets lost without that: when the ACK of an unexpected DATA has to wait,
`onReadyRead` reads on to the end, and `processDatagram` drops what it reads. The
run has any number of such drops besides the losses, and the upload recovers from
them, since the ACK that waits still goes out. `SessionsAreHeard`
names another: a session's end removes the entry of its endpoint in the registry,
whoever has it. It may be that of a later session, if the mode was changed or the
server closed in between.

Seen while reading, and not shown by a run: the access level for addresses without
a rule is never looked at; a number of slots read from the settings may be 0, and
then the queue waits for ever (the spin box starts at 1, which is what the model
has); refused and answered connections of the exporter have no deadline for the
rest of their response; `EmbeddedWebServer` takes every segment of a request for a
request; the handler of `finished` has the session object deleted while pool tasks
may still have its address, which they give to `invokeMethod` when they are done
(Qt drops the calls queued before the deletion, but knows nothing of the tasks). A
windowed session sends empty blocks after the short one, since it has
asked for them before it knew (they are modelled, and no property minds them).

### Fairness

`EventLoops`: a queued call of a pool task is handled, an armed timer fires.
That is all Qt promises, and all that `EverySessionEnds` and `ClientEnds`
assume. Weak fairness of a timeout leaves out one thing: every ACK and every
block sent restarts a timer, so a network that repeats old datagrams for ever,
always sooner than the timeout, could keep it from firing; the specifications
take it that no network does.

`ClientSucceeds` adds that what is in the network leaves it (`NetworkMoves`) and,
with `PatientTimers`, that timeouts (5 s) are longer than a round trip and
equally long at both ends: without that no retransmission protocol can promise
anything.

`SucceedsUnlessMuted` assumes the same of the limited models
(`ThrottledLiveSpec`), and that the timer of a packet that waits fires.

`FairSpec` of `Application` says that a client that runs ends some time, which is
what `DownloadEnds` and `UploadEnds` show. Nothing is assumed of the user.

## Proofs

For all values of the constants that their assumptions allow. Those about
transfers hold under `NothingUnnoticed`: for any file length, window, number space
larger than the window, number of retries and of sessions, any faults, with or
without duplication. Those about buckets and the server hold for any limits,
rules, sessions, endpoints and connections, those about the front ends for any
number of transfers and of slots. Every safety property of a run is stated by a
theorem.

| module | `Spec =>` |
|---|---|
| `Download_proofs` | `[]IInv`, `[]TypeOK`, `[]FileIsPrefix`, `[]ClientOkMeansWholeFile`, `[]SessionOkMeansClientOk`, `[]AckedBlocksAreWritten`, `[]UnackedBlocksAreKept`, `OutcomeIsFinal`, `ImplementsTransfer` |
| `Upload_proofs` | `[]IInv`, `[]TypeOK`, `[]FileIsPrefix`, `[]SessionOkMeansWholeFile`, `[]ClientOkMeansSessionOk`, `[]AckedBlocksAreWritten`, `[]UnackedBlocksAreKept`, `OutcomeIsFinal`, `NoOverwrite`, `ImplementsTransfer` |
| `ThrottledDownload_proofs` | under a limit the same file, outcomes and acknowledgements (`ThrottledIsSafe`), `[]TimersAgree`, `[]LastBlockGoesOut`; over a network that repeats, the specification of `Download` |
| `ThrottledUpload_proofs` | the same for an upload, `[]LimitTypeOK`, `[]AlwaysTimed`, `[]LastPacketGoesOut`; over a network that repeats, the specification of `Upload` |
| `TokenBucket_proofs` | `[]BucketInv`, `[]TypeOK`, `[]RateRespected`; and the same of every period of time (`LimitInEveryPeriod`) |
| `Service_proofs` | `[]ServiceInv`, `[]TypeOK`, `[]EachTransferCountedOnce`, `[]RegistryIsSound`, `[]SessionsAreHeard`, `[]LimitsHold`, `[]BytesCountedOnce`, `[]OneResponse`; and that one rule decides about an address (`OneRuleDecides`) |
| `Application_proofs` | `[]ApplicationInv`, `[]TypeOK`, `[]RowsTellTheTruth`, `StartsInOrder`; and that rows only go forward (`RowsGoForward`) |

### Transfers

The properties are not inductive by themselves. The `IInv` of a download adds

* `InOrder`: a session's blocks lie in order: acknowledged, kept in
  `windowCache`, read or being read, not yet asked for;
* `MessageInv`: only sent blocks are in the network, and only the client's own
  session is acknowledged, never further than the client got;
* `AckInv`: `lastAckedBlock <= client.block <= currentBlock` for the client's
  session, and nothing acknowledged at any other;
* `BufferInv` and `FileInv`: buffered and written blocks are the right ones;
* `ClientInv`: the client runs exactly as long as it lacks block `N`.

That of an upload adds

* `SessionInv`: only the session that created the file and that the client has
  locked onto holds anything; a write task has the block that follows
  `currentBlock`, and the session is done exactly when that is `N`;
* `FileInv`: the file is as long as that session's `currentBlock`;
* `MessageInv`: no ACK runs ahead of `currentBlock`, no DATA a window ahead of it;
* `CacheInv`: what the client keeps, and where it stands in the source, also
  after it has started again;
* `InThisTurn`, in all of them: after a late OACK the session may be *ahead* of
  the client, so that `currentBlock < nextBlockToSend` is lost; but then it is
  still in the first turn of numbers, since an OACK is fresh only then.

The heart is `MatchIsSame` in `Blocks_proofs`: among candidates that lie less
than a turn from the block that was sent, the search on 16-bit numbers finds
that block or none. `AckedBlockFound`, `AckFound` and the two lemmas `DataFound`
instantiate it for the four search loops; that their candidates are near enough
is what `Fresh` and the invariant give together. Each action then has its lemma,
and `NextIInv` puts them together.

For the refinements, `StepKeepsOutcomes` says what a step does to outcomes and
the file; with the invariant before and after it, each step is a `Write`, a
`GiveUp`, a `Confirm` or a stutter of `Transfer`.

### Speed limits

A limited session takes a step of the unlimited one, a step that sends what has
waited, or none that the unlimited one would notice (`ThrottledStep`). So `IInv` of
`Download` and of `Upload` still holds, if what waits may be sent at any later
time: `MayWait` (in an upload `HeldInv`) says that it is an OACK still unanswered
or a block still unacknowledged, and such packets satisfy `MessageInv` for as long
as they wait. Over a network that repeats, `net` still has them, so that sending
them late is delivering them late, and the limited specification implements the
unlimited one.

`LimitInv` adds what the limit is about: one packet at most waits; a timer runs
exactly when an unlimited session's would (`TimersAgree`, `AlwaysTimed`); the
last packet has been sent or waits. The last is the delicate part: it must hold
when an older block is repeated and sent at once, or has to wait itself.

The invariant of a session's bucket is that it has charged whatever it has let
through (`allowance >= tokens + pending`), and that the packet that waits does so
until the debt is paid (`tokens + Rate * wait >= 0`); a tick keeps both, because a
bucket that is in use is refilled by as much as `wait` loses.

The bucket all sessions share is charged by each and paid back for all. It has
charged what they owe together, and at any time `w` from now it may let through
all that will have been sent by then: `allowance + Rate * w` covers the packets
that wait no longer than `w` (`GlobalInv`). What sessions owe is a set of units
(`Owed`, `OwedWithin(w)`) rather than a sum, so that a packet that leaves takes its
units out of the set, and the cardinalities of the library's theorems do the
arithmetic (`PacketUnits`, `LessOwed`, `RoomForOwed`).

`RateRespected` speaks of `allowance`, which the model has and the program has
not. `LimitInEveryPeriod` does without it: `PeriodSpec` adds what a bucket has let
through (`spent`) since some moment, and for how long (`elapsed`), where the moment
may be any; and `spent <= Burst + Rate * elapsed` holds for every bucket.

### The server

`ServiceInv` has the properties and, for the two that are not inductive, what
makes them so: an entry of the registry is lost when any session of its endpoint
ends, so `SessionsAreHeard` needs `NoTwin`, that there is no other one: a request of
an endpoint in the registry goes to its session and begins none, a session that
began before has made the new one a `rival`, and closing the server makes all
`stale`. And `LimitsHold` needs `SessionsAreHeard`, since the limit per address
counts the registry: every session counted in `HeardAt` has an entry.

The limit on the exporter's connections (`RoomInv`) holds since one is tracked only
where there is room, and every other step tracks fewer.

The bytes are counted as a set of pairs of a session and a number (`BytesOf`), so
that their sum is a cardinality and the sessions can be split into those that
run, those that have ended and those to come. `BytesInv` says that the history has
the bytes of those that have ended. `ExactTotal` says more than the property:
what is reported is every byte once, and a second time those of the objects that
have ended and are not deleted yet.

`OneRuleDecides` is about `isAllowed`: of the rules that match an address there is
always a best one, and only one. The loop of the code finds it by comparing;
the proof takes the rule that the fewest others beat.

### Front ends

`ApplicationInv` says that the queue has the ids in their order and exactly the rows
that say "queued" (`Agree`), that rows that run have clients, and that ids to come
have no row. `QueueProcessed` shows what `processQueue` makes of that, from whatever
handler it is called: it takes a beginning of the queue, so that what it leaves is
younger (`Increasing`, `Suffix`), and has a slot for each client that it starts, also
where some fail at once and leave theirs to the next (`SlotForEach`). That no
signal comes too late for its row needs the invariant as well: a client that ends
has a row that runs, or that was cancelled just before.

### What the proofs assume, and what they leave

The assumptions are those named in the modules: types, `Window < BlockMod` (64 <
65536 in the code), limits of a bucket above zero (zero means no limit, and no
bucket). Only model-checked is everything about liveness: TLAPS does not reason
about fairness.

## Not modelled

* `EmbeddedWebServer`, `PxeProxyDhcp`: one reply to one packet or segment, from the
  server's getters or from the bytes of the packet; they keep no state between two.
* The bytes: netascii conversion, the PSK cipher, packet formats, option texts.
  Negotiation is what comes of it (options or none, the window), netascii is where
  its file ends. They are pure functions on byte strings, which the unit tests
  compare with examples.
* `resolveSafePath` and `isPathAllowed`: functions of path strings and of the file
  system. `Server` lets a request be refused at any time, which is all they do.
* The counter of retransmissions and the texts of the metrics.
* Command line arguments, and the command that runs a server, which never returns.
* Single-port mode under a limit: there the server's socket is read all the time, and
  whatever comes for a session while its packet waits is dropped. `ThrottledDownload`
  and `ThrottledUpload` have a socket per session, which drops datagrams only in the
  loop in which the answer to one of them had to wait, and goes deaf otherwise.
* The life of a session object: the models of transfers keep it as long as a task
  of it runs (`BlockReadIgnored`, `BlockWriteIgnored`), although the server deletes it
  when it has finished. `OutcomeIsFinal` is therefore about what late tasks do to a
  session that still exists. What a task does with an object that is gone is not
  defined, and no state of these models. (`Server` has the deletion, but no tasks.)
* The rest of the GUI (theme, charts, settings, profiles), logging, packaging.
* `src/i18n/*.ts`: XML tables of translated texts, not code; there is nothing in
  them that has a state.

What could still be added along the same lines: option negotiation and the
clamping of its values, netascii and path resolution as functions against
reference definitions over bounded inputs; single-port mode under a limit.
