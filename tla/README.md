# fm2l-veriblock: a TLA+ model of the miner

The program under `src/` mines VeriBlock with FPGA cards: it keeps one TCP
session with a pool (UCP, JSON lines), hands block headers to the cards over
serial ports and submits the nonces they return as shares. This directory holds
TLA+ modules for it, TLC configurations that check them on small instances, and
TLAPS proofs of the main safety properties.

The pool's side is modelled for the Linux build (the `#else` branches of `_WIN32`);
opening the cards, the hand-off of work and talking to the cards are modelled for both
builds, and the hash for 64-bit longs.

## 1. Inventory

| Component | Code | State | Operations | Modelled by |
|---|---|---|---|---|
| Pool connection | `UCPClient.h` 265-645, 773-887, 1018-1228 | `ucpServerSocket`, `reconnecting`, `workAvailable`, `runThread` | `connectToServer`, `setupLoginAndSubscribe`, `reconnect`, `cyclicRun`, `submitWork`, the constructor | `UCPClient`, `PoolLink` |
| Share accounting | `UCPClient.h` 73-76, 998-1010, 1100-1119, 1152-1158 | `sentShares`, `validShares`, `invalidShares`, `lastAcknowledgement` | increment, acknowledge, reset, the unresponsive test | `ShareLedger` |
| Miner threads | `veri-fm2l.cpp` 657-922 | `stratum_sock_lock`, `lastNonce1`, header, job id, timestamp | fetch work, write it to the card, read a nonce, submit | `UCPClient` (control), `JobHandoff` (data), `SerialLink` (counts of bytes), `HeaderBytes` (their values) |
| Start and restart | `veri-fm2l.cpp` 924-1175, `run.sh` | options, device list | parse, connect, start the miners, join; restart | `Launch`; `UCPClient` (connection, restart) |
| Work snapshot | `UCPClient.h` 890-997, `veri-fm2l.cpp` 313-330 | `headerToHash`, `jobId`, extra nonces | written by the receiver, copied by `getWork` | `JobHandoff`, `JobRegisters`, `HeaderBytes` |
| Framing and parsing | `UCPClient.h` 129-263, 647-830 | message buffer, cursor | reads that complete a message, command type, JSON, hex | `Framing`, `CommandChannel`; hex: `HeaderBytes` |
| Serial link | `veri-fm2l.cpp` 561-653, `libs/rs232-*.c` | the global `fd`, port table | open, write a header, read four bytes | `SerialLink`, `PortTable` |
| vBlake | `veri-fm2l.cpp` 124-195, 526-558 | none | hash and search; not called by the miner | `VBlake` |
| Logging, declarations, JSON library, Windows headers, scripts | `Log.h`, `Constants.h`, `Miner.h`, `picojson.h`, `incs/win`, `*.sh`, `*.bat` | | | not modelled |

**Threads.** The main thread constructs `UCPClient`, which connects, starts the
receiver thread (`cyclicRun`) and waits for a first job; it then creates one
miner thread per device and joins them. Miners take `stratum_sock_lock` to copy
work and to submit; the receiver takes no lock. Both the receiver (after an
empty read) and a miner (after a failed `send`) reconnect, through the same code,
the same socket field and the same flag.

**What is hard here.** The flag is tested and the socket used in separate steps;
two reconnections may overlap; a closed descriptor may be read by another
thread; a blocked `recv` outlives the `close` of its descriptor; a message in
the same segment as an earlier one is dropped; failed attempts keep their
descriptors; the counters are plain integers shared by two threads; a send to a
reset connection kills the process; the wait for work depends on the very thread
that may be reconnecting. Miners open their cards at once through one global
descriptor, or through a table of ports whose entries keep closed handles; a card
does not know where a header begins, nor a miner where an answer does, so one lost
byte or word puts both out of step for good. `PROJECT.json` lists the hazards with
their lines.

**What makes each component correct.** Connection: nobody waits for a flag that
nobody will lower; one submitter at a time; when
reconnections are over, the shared socket is open and subscribed; reconnections
and the launch end. Accounting: the counts are bounded by the shares sent, none
is counted twice, and the program gives up on a pool when it has been silent for
the limit, neither earlier nor later. Work snapshot: header,
job number, extra nonce and nonce of a share belong to one job, and no device is
left on an old one. Framing: commands in order, each at most once, and none lost
without need. Serial link: a miner talks to its own card, headers and nonces are cut
at the right bytes, the card hashes the header that the pool rebuilds, and nobody waits for a card that has nothing to say. Start: every
card of every list is tried, and no index passes the arrays. Hash: the reference's.

## 2. Modules

* `PoolLink`: the kernel's sockets and the pool, from the way `UCPClient.h` uses
  them (external). A connection has an open flag (our descriptor), a network
  state (`up`, `fin`, `rst`, `gone`, `refused`), the pool's view of the session
  and a queue of unread messages. `rd[t]` is the connection thread `t` is blocked
  on; a connection stays alive while a thread is blocked on it (`Settle`).
  `RecvData` may take several queued messages and delivers the first, since the
  parser reads one JSON value of the buffer. A request sent out of turn is
  ignored by the pool. `SendKills` is SIGPIPE: no handler, no `MSG_NOSIGNAL`.
* `UCPClient`: the main thread, the receiver and the miners over `PoolLink`. `pc[t]`
  names the next system call or shared access. Correspondence:

  | pc | code |
  |---|---|
  | `socket` | `socket()`, `connect()` in `connectToServer` |
  | `caps`, `auth`, `sub` | the three `recv()` of `setupLoginAndSubscribe` and the checks of their replies |
  | `sendAuth`, `sendSub` | its two `send()` |
  | `shut` | its `close()` after an error |
  | `waitWork` | the loop on `workAvailable` |
  | `recv`, `more` | first and further reads of `cyclicRun` |
  | `drop`, `raise` | `close()`, then `reconnecting = true` |
  | `getWork`, `hash`, `found` | the mining loop: before `getWork`, waiting for the card, before the lock |
  | `check`, `send`, `quit` | the test of the flag, `send()` and the unresponsive exit of `submitWork` |
  | `exit` | inside `promptExit()`, which sleeps while the others run on |
  | `join` | `main()` waiting for the miners |

  `opener`, the last thread that stored a socket, is a history variable.
* `ShareLedger`: the counters with a read and its write as two steps (`incLoad`,
  `incStore`, and so on). Connections are reduced to: a share arrives or not, an
  answer arrives or not, either thread reconnects. `attempts`, `seen`, `acked`,
  `excused`, `resets` and `raced` are history.
* `JobHandoff`: a job's way from the pool over the fields of `UCPClient` and a
  miner's copy to its device, and back as a nonce. Correspondence:

  | State | Code |
  |---|---|
  | `field` | `headerToHash` in its parts (`block` bytes 0-35, `root` 36-51, `difficulty` 56-59), `jobId`, `ExtraNonceStart` |
  | `todo`, `msg` | the assignments of `cyclicRun` still to be made, for the command being parsed |
  | `wire` | jobs that `recv()` may return; one read may take several |
  | `lock` | `stratum_sock_lock` |
  | `pc`, `timestamp`, `header`, `job`, `nonce`, `lastNonce1` | the locals of `miner_thread`; `nonce` is `recv_ok` too, and `left` is what `memcpy` has still to copy |
  | `build` | which of the `_WIN32` branches were compiled |
  | `device`, `serial` | the header a card searches, and its reports not yet read (external) |

  `Store` makes one assignment, `Copy` copies one part of the header, so receiver
  and miner interleave as they do without a common lock. A round is `ReadClock`,
  `LockForWork`, `Copy`, `ReadJobId`, `WriteHeader` and `Poll`. In the Windows build a
  miner may have read 1000 times in vain (`Outlast`, `veri-fm2l.cpp` 820-822); from then on
  every read (`PollLate`), one that returns a report included, is followed by another
  `getWork` into the same header (`LockForWork` and `Copy` at `again` and `recopy`) and
  by `LookAgain`: with the old job number the loop goes on as `recv_ok` says, with a
  newer one the report in hand is dropped and control goes to `restart_here`, which is
  `WriteHeader` at `rewrite`, with the old timestamp. `taken`, `clean`, `found` and
  `crossed` are history; `crossed` has the miners whose last restart found a report of
  the old header in the port, until a header is written to an empty port.
* `JobRegisters`: what the miners may still take the fields for, although nothing keeps
  the receiver out while they copy: registers that only move on to newer jobs, each
  fetched by itself. `Registers` in `JobHandoff` is the refinement mapping: the
  registers are `block`, `root`, `difficulty` and `jobId`, `issued` is the newest job,
  and a reader's copies are a miner's `header` and `job`. A part of the header not
  copied again yet still shows the round before, as the array in `miner_thread` does.
* `CommandChannel`, `Framing`: what the receive loop promises, and the loop.
  `CommandChannel` loses commands and hands on the others in order. In `Framing` a
  byte is its offset in all that the pool has written; `pos` is the next byte to be
  read, `start` and `good` say which bytes the buffer begins with, `cursor` and
  `more` are the locals `cursor` and `check1Count`. `FirstRead`, `MoreRead`,
  `MoreNothing` and `Parse` are the calls of `recv()` and of `getCommandType()`; a
  session may end between any two of them, and another thread may have closed the
  descriptor. `Chan` is the refinement mapping.
* `Launch`: `main()`. The options come in any order and number; a device is a number,
  and a list of names is what the properties need of `-nl`. `fate` says how the
  process ended: `throws` is an exception that nobody catches. The store of a device's
  name (1012) has no test: with more names than `MAX_GPUS` in all it goes behind
  `devportnames`, the model has the name in `names` and stops at `undefined`, and
  nothing is said of such a run from there on.
* `PortTable`: `rs232-win.c`. `ports` and `handle` are the fields of `comDevices`,
  `openOn` what Windows knows of a handle's value, which it gives out again after
  the handle is closed.
* `SerialLink`: extends the two with the miner threads and the cards. Correspondence:

  | pc | code |
  |---|---|
  | `start` | before `open()` in `openserial`, or before `comFindPort()` |
  | `test`, `flush`, `set`, `return` | Linux: the reads of the global `fd` behind it |
  | `close`, `create`, `state` | Windows: inside `comOpen()`, under `miner_port_lock` |
  | `write` | before the `write()` of word `word` of a header |
  | `poll` | in the loop around `recvserial()` |
  | `ended` | returned |

  A card (external) counts words and bytes: `words` of a header it has, `due` answers
  and `left` bytes of one still to come, `unread` bytes in the port. Which bytes they
  are follows from the counts. It may be in the middle of anything when the program
  starts. `raced`, `refused`, `upset`, `mixed` and `garbled` are history.
* `VBlake`: `B2B_G`, the rounds, and the search of `kernel_vblake()`; a word is the set
  of its one bits, and a step is one use of `B2B_G` or one test of a hash. The
  reference in `vBlake.java` is `ReferenceWords` and `ReferenceByte`.
* `HeaderBytes`: the values of the bytes, from the text of a job to the card and back to
  a share, for one miner and rounds that nobody disturbs. `MiningJob` and
  `MiningMempoolUpdate` are the stores of `cyclicRun` with `extractByteFromHex`,
  `getWork` the copy with its timestamp, `WriteWord` one word through `unpack_uint64`,
  `recvserial` the loop around it with the subtraction and the turn of the nonce,
  `submitWork` the comparison with `lastNonce1`. The machine is little-endian. `Answer`
  is the card (external): it adds to a nonce the 129 that the code takes off. `meant`,
  `found`, `share` and `withheld` are history.
* `MCUCPClient`, `MCShareLedger`, `MCJobHandoff`, `MCFraming`, `MCCards`, `MCVBlake`,
  `MCHeaderBytes`: the instances TLC checks.
* `UCPClientProofs`, `ShareLedgerProofs`, `JobHandoffProofs`, `FramingProofs`,
  `SerialProofs`, `HeaderBytesProofs`, `VBlakeProofs`: theorems.

`UCPClient` leaves the unresponsive decision open (any send may lead to `quit`),
and `ShareLedger` decides it: the two share no variables, and each allows the
other's behaviour. In the same way `UCPClient` has the control of a miner among
reconnections, with work as a flag, and `JobHandoff` has its data within one
session: every session starts over with a full job, and a miner keeps its locals
through a reconnection.

**Abstractions.** Messages are commands without content; `NOISE` stands for any
text that changes nothing, `BAD` for a command whose parsing throws. The receiver
of `UCPClient` gets each message whole or as noise; a message split over two reads is
`Framing`'s. Undefined behaviour at line 790 (`message[-1]`,
`message[-2]`) is a free choice of the answer. A first `recv()` of 0 in the set-up
leaves old stack content, which may or may not be a capabilities text. The two
accesses `reconnect()` makes after `connectToServer()` are in `ShareLedger`; here
the end of the wait and the fall of the flag are one step, since nothing shared
is read between them. A miner whose device cannot be opened has no place in
`UCPClient` or `JobHandoff`: it touches neither the client nor the work, and
`SerialLink` has it.

In `JobHandoff` a job is a number that stands for every value its message carries,
so a field says which job its value is from. The assignments that no header and no
share is made of (`blockHeight` and the hash strings, `miningTarget`, `ExtraNonceEnd`)
are left out. Only `getWork`'s debugging print (324-370, `DEBUG_WORKER` is defined) reads
them, in the same race with the receiver as the copy; that print is left out with them,
and with it what reading a string while it is assigned may do. `block` is one field
although it is written in five pieces: a copy torn inside it needs the same overlap as
one torn between the fields. The clock is no variable: a round reads any time that is
not before the last one's. The timestamp of the job
is left out because `embedTimestampInHeader` replaces it in the copy. A report is
whole and is not 0, which `recvserial` cannot tell from nothing; `startNonce`, the
first `lastNonce1`, is none of the nonces. The bytes of the port are `SerialLink`'s, and
what they say is `HeaderBytes`', which has those edges.

`Open` of `UCPClient` is `socket()`, the store of the field and `connect()` (1190-1196) in one step.

In `SerialLink` a read finds what is there or nothing; a read that finds nothing
changes nothing and is left out, so the loop count of the Windows build is too, and
`Restart` may come at any poll. A repetition of a nonce, the job and the pool are
`JobHandoff`'s. On Linux `write()` may fail, and -1 is then `memcpy()`'s length: the
process ends. `findPattern()` reads on behind the list of names; names it finds there
count as names of the list. In `Framing` the first JSON value of a buffer is a whole
command or none: a command begins with a brace, and pieces of two do not close it.

## 3. Runs

Each run answers one question. All bounds are constants of the configuration.

| Run | Question | Instance | Result |
|---|---|---|---|
| `client_safety` | do flag, lock and socket always have a responsible thread, and who can take whose replies? | 2 miners, 2 descriptors, all eight messages, one fault, one constructor retry | holds, 92 thousand states |
| `client_live` | do a reconnection and the launch end? | 1 miner that finds nothing, 3 descriptors, 2 faults, an outage, queue of 2 | holds, 145 thousand states |
| `ledger_safety` | do the races on the counters break the statistics or the exit? | limit 3, 6 shares, 2 reconnections | holds, 2.4 million states |
| `handoff` | do header, job number, extra nonce and nonce belong together, does nothing go back to an older job, and does every job reach the device? | either build, 3 jobs, 2 on the wire, 1 miner, 1 nonce, one report per header, 2 times | holds, 526 thousand states |
| `framing` | does the receive loop deliver what it must, in order? | 3 commands of two lengths, a buffer of 5, 1 further read, 2 interruptions | holds, 109 thousand states |
| `cards` | does every miner come to talk to its own card, about one header and one answer at a time? | 2 threads, 2 cards, one of them cut off in the middle of an answer, 2 lists, 3 tables of 2 ports, 2 handles, headers of 2 words | holds, 1.2 million states |
| `hash` | is the search right about the header noted in the source? | 3 nonces up to the noted one | holds, 388 states |
| `bytes` | does the card hash the header that the pool rebuilds from the share? | 2 jobs in both cases of letters, 3 damaged ones, 3 roots, 2 times, 8 nonces | holds, 22 thousand states |
| `share_race` | is submission blocked while reconnecting? | 1 miner, 1 fault | violated |
| `outage` | does a reconnection outlast an outage of the pool? | 2 descriptors, 1 outage | violated |
| `retry_abort` | does the constructor's retry work? | 1 retry, no fault | violated |
| `ledger_reset` | does the limit mean the same after a reconnection? | limit 2, 7 shares, 1 reconnection | violated |

What the passing runs check, in words:

* `ReconnectFlagHeldByReconnector`: while `reconnecting` is up, some thread is in
  `connectToServer()` on its way to lower it.
* `SubmitHoldsLock`: `submitWork()`, its reconnection included, belongs to the
  holder of `stratum_sock_lock`.
* `QuiescentSubscribed`: when no thread is reconnecting the shared socket is open
  and its session subscribed, however reconnections overlapped before.
* `MisdirectedOnlyByRace`: a share goes to an unsubscribed session only while
  another thread replaces the socket.
* `SetupSharedWithReceiverOnly`: while a thread waits for a reply of its set-up, nobody
  else is in `recv()` on the same socket, unless one of the two is the receiver; and when
  the other is the constructor, a first attempt of it has failed. Two miners never take
  each other's replies, and no first attempt loses one.
* `OnlyLeaksStrandTheReceiver`, `ConstructorReturns`: liveness, below. The first is the
  counterpart of the violated
  `OutageIsSurvived`: leaked descriptors are the only reason for it.
* `SentNeverFarAhead`, `AnswersWereSent`, `SilenceIsNoticed`, `ExitMeansSilence`:
  bounds on the counters and on the exit that depends on them.
* `SettledWork`: between two commands the fields of `UCPClient` are those of one job.
  It fails only by the reader's own loss: a full job dropped behind another command
  leaves the next update on top of an older block, which the hypothesis names.
* `MixedOnlyByOverlap`: a miner writes a header with another job's number in hand, at the
  start of a round or at a restart of the Windows build, only when
  the receiver took a command during the copy, was storing one when it began, or had
  dropped a full job.
* `NonceOfItsRound`: with a device that reports once per header, a nonce is
  submitted with the job number and the timestamp of the header it was found for, although
  the port is never flushed. With two reports it is false, and nothing in the code could
  tell. On Windows it has an exception, `crossed`: a report that comes between the last
  read and a restart with a newer job stays in the port, is taken for the answer to the
  new header and goes out under the new job number, and the answers after it are one
  round late until a header is written to an empty port. The check shows that this
  restart is the only way.
* `ExtraNonceOfItsJob`: the extra nonce of a share, read when the share is built, is
  its job's until a newer full job is taken off the wire.
* `JobsOnlyMoveOn`: `JobHandoff` implements `JobRegisters`. A torn copy mixes jobs, but no
  field of it is ever older than the one the miner had, nor is the job number.
* `JobReachesDevice`: a job that `UCPClient` holds between two commands, or a newer
  one, is eventually the one the device searches.
* `CommandsInOrder`: `Framing` implements `CommandChannel`. `OnlyFollowersAreLost`: on a
  session that was never interrupted, and while no line came in too many pieces, a
  buffer hands on the command it begins with. `QuietDelivery`: a command in at most
  as many pieces as the loop reads, with none behind it, is handed on.
* `OwnCard`: a miner reads and writes its own card, with its line set up, unless
  another `open()` came between its own and its return, or a port is listed twice.
  `NoCardLeftOut`: a miner gives up on a card that is there only after such a race, a
  setting Windows refuses, or for a port `comEnumerate()` cannot see: COM100 and
  above, one behind a name with the number 0, one behind `COM_MAXDEVICES` others.
* `ListedCardsAreTried`: `main()` returns, and `run.sh` starts it again, only after
  every card of every `-nl` was tried, whatever `-d` has said before or after.
* `NoncesAreWhole`, `HeadersAreWhole`: while no byte and no word was lost, and a card has
  one user, a nonce is one answer and a header is one miner's. `WaitsForItsCard`: under
  the same conditions a miner that polls has an answer coming.
* `KnownAnswer`: the header in the comment at `veri-fm2l.cpp` 768 has the nonce noted
  under it, 129 less than the number the card reports. `ReferenceAgrees`: the word
  that is tested and reported is the beginning of the reference's hash.
  `MixingCanBeUndone`: no use of `B2B_G` loses a bit.

* `HashedAsMeant`: what the card hashes is, field by field, what the pool rebuilds from
  the job, its last root, the time and the nonce of the share.
  `OnlyThreeNoncesAreWithheld`: a nonce that the card finds is submitted unless its answer
  is 0 or 0x3fffffff, or its reverse is `lastNonce1`, which is `startNonce` at first.
  `EndsOnlyOnBadText`: no well-formed text of the right length ends the process.

**Why the bounds are enough.** Two miners and the receiver give every overlap of
two reconnections (miners exclude each other by the lock, so a third adds
nothing), and a miner waiting outside. A connection matters only through the
socket field and the readers, at most one per thread; six connections never run
out before the descriptors do (`ConnsAssumption`). One fault
gives a reset, a silent close, a wrong reply or a refused request in the middle of
any handshake or of the mining, and what overlaps after it needs no second one: a
receiver that reads the end and a miner whose `send` fails reconnect together. Two
faults in `client_live` make a reconnection fail and its retry too, and the outage
makes any number of attempts fail; three descriptors let two attempts leak and a third
one succeed. For the counters the limit must be crossed twice with a reconnection
between, which six shares with limit three allow. For the hand-off three jobs are a
full job, an update and a full job in any order, two on the wire let one be
dropped behind the other, and a port of two reports holds one that has crossed a restart
with the answer behind it; miners share nothing there but the lock, so one meets
every interleaving with the receiver, and the proofs are for any number. For framing,
three commands make a buffer that begins in one command, holds a second and ends in
a third; one further read makes the loop give up, and a buffer of five is filled by
two commands. For the cards two threads race and share a card, two words make a header
that begins and ends, answers come whole or in halves, and the lists of names have a
port twice, one above 99, one above 255, one with the number 0 and a name that is no
port. For the bytes the jobs have a different value in every byte, numbers with their
highest bit clear and the bytes below at their limits, and the nonces carry and borrow
through each byte; TLC's integers end at 2^31. The proofs of section 4 remove the bounds for
the safety properties; `KnownAnswer` alone is about one header and needs no other.

**Fairness** (`FairSpec`). Each thread takes a step it can take (the operating
system schedules it; none of the code's waits is a busy loop that excludes
others); a pool that is up answers the requests it has, and a pool that is down
comes back. Jobs, faults and outages are never obliged to happen. `client_live`
has no device that finds nonces, so that the receiver reconnects alone: with a
miner reconnecting too, one thread may take the other's reply and leave it in
`recv()` without a limit, which no fairness repairs (a hazard listed in
`PROJECT.json`; `SetupSharedWithReceiverOnly` says between whom it can happen).
`ConstructorReturns` excludes the same theft in the constructor: a retry that meets a
running receiver. In `JobHandoff` the miners run
and a searching device reports a nonce or the end of its range; the receiver may stop
anywhere, and the pool need not issue jobs. `handoff` has one miner: a pthread mutex promises its waiters no
order, and with several miners one could be passed over for ever. In `Framing` the
receiver runs, and nothing is asked of the pool.

**Violations.** The four violation runs are disagreements between what the program
says and what it does; `PROJECT.json` quotes the lines. In short: the test of
`reconnecting` does not cover the `send` behind it; failed attempts leak their
descriptors until `socket()` fails for ever; the constructor's retry calls
`start()` twice, which is `std::terminate`; `lastAcknowledgement` survives the
reset of `sentShares` and stretches the limit.

## 4. Proofs

TLAPS checks `UCPClientProofs`, `ShareLedgerProofs`, `JobHandoffProofs`,
`FramingProofs`, `SerialProofs`, `HeaderBytesProofs` and `VBlakeProofs`, for every set of
miners, every number of connections, descriptors, faults, outages, retries, jobs and
reports, every `AckLimit`, every length of command and of header, every list of devices
and table of ports, every job and nonce, every header that is hashed. The assumptions are those of the modules: the threads are distinct
(`ThreadsAssumption`), the bounds are natural numbers, the pool sends known
messages.

*Pool connection.* The inductive invariant `IInv` has two groups of conjuncts
beside the types. `Control` (flag, lock, the main thread comes first)
speaks of program counters only. `Custody` says who answers for the shared
socket: threads block only where the code reads; the **opener**, the last thread
to store a socket, reads its replies from that socket and no other; the socket
is open unless somebody is on the way to replace it; it is subscribed unless its
opener is still asking. The last two need `OpenerReadsSock` and the fact that a
subscription reply is in flight only on a subscribed session
(`SubOkMeansSubscribed`): the opener that takes such a reply took it from the
socket itself. `QuiescentSubscribed` and `MisdirectedOnlyByRace` follow from the
invariant. For `SetupSharedWithReceiverOnly` it has `Overtaking`: a thread that is in a set-up
but no longer its opener was overtaken by the receiver (`OvertakenByReceiver`), for two
miners exclude each other by the lock and the constructor is done before there are
miners; and the receiver runs before the constructor is done only after a failed attempt
(`ReceiverAfterFailure`). The proof has a lemma per system call (`RecvEffect`, `SendEffect`,
`CloseEffect`, `OpenEffect`, `PoolEffect`), then four lemmas over all actions
(`TypeStep`, `ControlStep`, `CustodyStep`, `OvertakingStep`); `StepCustody` is the argument that
most actions share.

*Share accounting.* `LedgerInv` adds to the types what the registers hold between a
read and its write (`RegistersBound`: a count loaded for the increment excludes
the share being counted, a count loaded for a reset is at most the shares
answered) and, until the first reset, that `sentShares` is exact (`FirstEra`).
`ExitMeansSilence` needs `Drift`, which holds through the resets as well: unless a
submission overlapped a reconnection of the receiver, neither `sentShares` nor the
answers, those still due included, run more than two ahead of the shares sent since the
one that `lastAcknowledgement` covers. The counter alone would not do: a reset sets it to
the answers, and an answer may be counted before the share it is for.

*Work hand-off.* `HandoffInv` follows a job along its way. `Numbering` and `InOrder`:
jobs wait on the wire in the order of issue, and the block that a waiting update
belongs to was taken before it or waits in front of it; so what a read takes last
is never older than what was taken before. `Storage` says for each point inside a
command which fields hold it already (`StoringFull`, `StoringUpdate`) and that
between commands block, difficulty and extra nonce are of one full job (`Settled`).
`Copies`: a clean copy in progress agrees with fields that have not moved, and a
full job being stored is newer than the block of any job copied before it (`CleanJob`,
for the miner's job and for the one its device was given), which is
why the extra nonce cannot change under a share without a newer full job having been
taken. `Rounds`: a miner that polls, looks again or submits holds the job and the time that
its device searches, and only the Windows build looks again. `Devices`: with one report
per header, and for a miner that no report has crossed, the port is empty and the
device idle unless its miner is waiting for it. The proof has a lemma per action and group
(`ReceiveKeepsOrder`, `StoreKeepsStorage`, `MineKeepsCopies`, `ReportKeepsReporting`,
and so on); the four properties follow from the invariant.

`JobsOnlyMoveOn` is the refinement of `JobRegisters`. Its reason is `Ascending`: what is
still to be stored of a command is older than the command (`StoredOnce`: no assignment is made twice),
no field is newer than the command, and what waits on the wire is newer. So a store is an
`Advance` of its field, or leaves the registers alone (the extra nonce, which no miner
copies) (`StoreAdvances`); the copy of a part and the reading of the job number are a `Fetch`
each (`CopyFetches`); and every other action issues a job or stutters.

*Framing.* `FramingInv` is inductive and is the invariant of the run. `Lines`: commands lie one
behind the other. `Positions`: what the buffer begins with was read, and what was
handed on lies before it. `Undisturbed`: without an interruption the buffer is
contiguous and begins at a line. For the refinement each step is a step of
`CommandChannel` or leaves its variables alone: the next command is the first that
begins at or behind the buffer's beginning, which moves only forward, and `Parse`
hands on a command that is at least the next one (`NextUnique` and `NextIs`
say that `NextCommand` is well defined).

*Cards.* `SerialInv` has a part for each argument. `LaunchInv` orders `main()`. `LinuxInv`:
while nobody overtakes a thread, `fd` is its device from `open()` to the return.
`WindowsInv`: an open handle is in the first entry of its device (`TableInv`), so a
stale value is never somebody else's unless a port is listed twice (`DistinctOf`).
`PortsInv`: the table is what `comEnumerate()` saw. `NoncesInv`: unread bytes and bytes
to come are whole answers. `HeadersInv`: a card and its only user agree on how much of
a header has been sent. The proof has a lemma per action and part.

`WaitsForItsCard` needs one more, `WaitInv`. Its conclusion is a sum, and what keeps the
sum positive is that the last word of a header is the card's last word too. On Linux that
is `HeadersInv`. On Windows a port may be listed twice for other miners, which `HeadersInv`
gives up on, so `WaitInv` speaks of one miner at a time: a handle is open only for a miner
named for its device that has it (`OpenedBy`), and as long as nobody else is named for
a device or reaches it by a stale value (`Unshared`), it has been sent nothing before its
miner mines, and agrees with the miner afterwards (`WordsOf`). A miner that is alone on its
card was alone on it before the step (`SoleBefore`): another one that reached it would
have to lose its handle, and the two share that handle (`OneHandle`).

*Bytes.* `OffsetCancels` follows the carry of the card's addition and the borrow of the
code's subtraction from the lowest byte up: they meet at each byte. `NonceInv` says that
an answer is that of the nonce found and the nonce in hand its reverse, and that of the
three reasons only an answer of 0 leaves the miner in its round, so that what was
withheld is still compared with the `lastNonce1` it was withheld for. `RoundInv` adds the
header: `Layout` gives the field at each offset, of the client's header (`JobInv`) and of
the miner's copy (`CopyInv`), and `SentInv` the bytes that have gone out, word by word with
the highest byte first. Lemmas say what a store of bytes at an offset changes and what it
keeps (`PutField`, `PutKeeps`), which byte two characters give (`ByteIsDecoded`), and that a
field of what was sent is the field of the header (`FieldIsHashed`). With them
`HashedAsMeant` is one field after another, for every text of a job and every number.

*Hash.* A word is the set of its bits, and a sum of two is their difference and the
carries. `AddBits` and `CarryUp` give each bit and each carry from those below, so what holds of
bit 0 and is handed on holds of all 64 (`EveryBit`; a set of bits stands for the predicate
of an induction, which the provers take). That addition associates (`AddAssociates`) and
that a complement and one undo it (`AddComplement`, `SubtractUndoes`) are shown that way;
with `XorUndoes`, `RotateUndoes` and, for the last two lines of `B2B_G`, `LinesComplement`, each
line of `B2B_G` is undone in turn: `MixingCanBeUndone`. `ReferenceAgrees` says that three of
the reference's eight folded words make the first, and that its bytes are the word's.

*Left to TLC.* Liveness (`OnlyLeaksStrandTheReceiver`,
`ConstructorReturns`, `JobReachesDevice`, `QuietDelivery`) is out of the prover's reach.
`KnownAnswer` is the hash of one header, which is computation and not an argument.

## 5. Not modelled

* The Windows branches of `UCPClient.h`: there a read error reconnects (831-853) and an
  empty message does not.
* The second look of the Windows build in `HeaderBytes`, whose rounds nobody disturbs.
* What a process does after it has stored a device's name behind `devportnames`.
* `Framing` and `UCPClient` are not composed: `UCPClient` takes a message whole or as
  noise, which is what `Framing` hands on or drops.
* Which fields a command has, and of which JSON type: a field is missing (`BAD`) or holds
  its job's value.
* `HeaderBytes` is not composed with `JobHandoff`: a header mixed from two jobs has the
  bytes of each, in the parts that `JobHandoff` tells apart.
* A device's name is a number: names that are too long for their arrays, and the host
  and port beyond what decides whether `main()` goes on, are left out.
* The ranges of nonces: `startNonce` and `end_nonce` never reach a card (`HeaderBytes` has
  what the first does to a share).
* `rs232-linux.c` is linked and never called. Logging, declarations, the vendored JSON
  library and the vendored headers of pthreads hold no state of the program's logic;
  the other start scripts are `run.sh` with other arguments.

Beside the findings, the help text disagrees with the code where nothing depends on it:
it gives `-nl` the default COM8 or /dev/ttyUSB0 (`veri-fm2l.cpp` 404) and `-d` the default
0 (403), and without `-nl` the one thread has an empty name and ends, while every
number given to `-d` is refused, because there are never any GPUs to count (967).
