# Verification of device-agent

device-agent runs on a small Linux unit beside a radiation monitoring post (MP).
It reads the post over a serial line, keeps the readings in a queue and a file,
switches a satellite modem on and off, and sends the readings to a server over
TCP. Its code is `src/device-agent/src`; `src/config/src/config.cpp` is the web
page that edits its configuration; `src/os` is a vendored Linux kernel and is left
aside. The repository has no tests and no documents besides its comments, so the
models are translated from the code.

## The system

| Part | State it keeps | Operations | Interacts with |
|---|---|---|---|
| Reader thread (`DataTask::doReadData`) | current packet | request reading, queue, save, health check, rest | serial line, data queue, file, system clock |
| Sender thread (`DataTask::doProcess`) | session state | load file, negotiate, send, wait for the next cycle | data queue, data port, modem flag, `bControlDone` |
| Data queue (`DataPacketQueue`) | list of packets, mutex | Push, Pop, Save, Load | reader, sender, main thread, `Current.data` |
| Control thread (`ControlTask::doProcess`) | modem and channel state | power on, get and carry out a command, negotiate, sleep | modem, control port, serial line, data thread through flags |
| Modem (`Modem`) | `bPowerOff`, `bModemOpen`, answer cache | PowerOn, PowerOff | AT port (TCP 9998) |
| Channel negotiation (`Protocol::negoiateChannel` and its callers) | counters, `bControlDone`, `bExtCommunicationError` | connect, receive the assigned port, acknowledge, connect again | `TCPPort`, server |
| TCP port (`TCPPort`) | socket, `bConnected`, last action | Open, Connect, Close, Read, Write | server, modem |
| Status queue (`HealthCheck`, `HealthCheckReport`) | last status, queue | check, report | serial line, data port |
| Command transfer and history (`TransferCmd`, `HistoryDataTransfer`, `SendQueueData`) | local queue | relay | serial line, control port |
| Timers (`setReservedTime`, `PatrolRest`, `SleepForPowerOn`) | reserved times | wait | system clock |
| Framing and CRC (`Packet`, `CRC16`) | byte buffer | receive, resynchronise, check | serial line, TCP ports |
| Serial line (`SerialPort`) | descriptor | Lock, Read, Write | all threads |
| Configuration (`Config`, `config.cpp`) | key-value file | read, save | all parts |
| Supervision (`main`, `main_work`) | worker process | start, power-off save, reboot | all parts |

What is hard in it: three threads share the queue, the file and unprotected flags;
the process can end at any step; a TCP connection can stop working at any step and
answers may come late; the threads meet only by sleeping and polling; the system
clock is set while others measure time with it. `PROJECT.json` lists these hazards
with their lines and the properties that watch them.

What makes the parts correct:

- data path: no reading that was queued is dropped before the server has it, a
  restart finds it in the file, and it arrives in the end;
- power cycle: the data thread notices every off period, on period and control
  connection, so that every cycle of the line carries a data session;
- modem: every call returns and releases the AT port, and `bPowerOff` is false
  only if the line was really connected;
- negotiation: bounded, on both ports, without leaking sockets, and ending on the
  assigned port;
- status: the server's view of the post ends up as the post's last status;
- serial line: a request gets its own answer while the threads take turns, and the
  line recovers from answers left behind;
- commands and history: a record is dropped only after the server has dealt with it,
  the control thread always gets back to its commands, the server gets answers only
  to commands it sent (it does not);
- framing: what is received was sent, and damage costs no more than the frames up to
  the next silence;
- timers: no reading of the post is skipped, rests are not too long, health checks
  recur.

## Modules

| Module | Models |
|---|---|
| `Delivery` | abstract: readings are accepted, delivered in order, or lost |
| `StoreForward` | data path: reader, sender, main thread, queue, file, connection, crashes |
| `PowerCycle` | timed loops of the control and the data thread |
| `Modem` | AT dialogue of `PowerOn` and `PowerOff` |
| `Negotiation` | channel negotiation over one `TCPPort` |
| `StatusReport` | health check, status queue and its report |
| `SerialBus` | reader and control thread on the serial line |
| `CommandRelay` | commands of the server, their transfer, history data |
| `Crc16`, `Framing` | checksum; frames and answers in a stream of bytes |
| `Timers` | timers, clock setting and rests of the reader |
| `MC...` | instances of these for TLC |
| `...Proofs` | theorems about the module they are named after; `LineProofs` about `SerialBus` and `Framing` |

The modules meet where one abstracts what another details: a received packet in
`StoreForward`, `StatusReport` and `CommandRelay` is what `SerialBus` says a thread may
read and `Framing` says a read yields; `PowerCycle` leaves open what `Modem`,
`Negotiation` and `CommandRelay` take as long as they do.

A definition under a comment "Fault:" is a plausible mistake in the definition after
it. None is part of a specification: replacing the definition by its fault makes a
property fail, which shows that the property depends on that piece of code.

**StoreForward.** `queue`, `file` and `toLoad` are the list, `Current.data` and the
records `Load` has yet to read; `spc`, `rpc`, `mpc` are the three threads. `Save` is
two steps, the `open` with `O_TRUNC` outside the mutex and the writes under it, which
is where a crash or the other saver can come between; two savers that overlap write
over one another from offset 0 (`Overlay`). A crash while a save is under way leaves
some prefix of the queue. A frame is its data number and whether it is a reading;
the number a 16-bit counter gives is taken to be fresh (a wrap after 65536 readings
is not modelled). Packets in transit when a connection ends either arrived before or
are gone. `NegoiateDataChannel` succeeding stands for what `PowerCycle` and
`Negotiation` model in detail. `SIGPIPE` on a reset connection, which nothing
handles, is one of the ways to `Crash`.

**PowerCycle.** `dtime` and `ctime` are the seconds the two threads still sleep.
`Tick` lets a second pass; the data thread runs within the second in which its sleep
ends, the control thread may be delayed further by the modem and the network. `idle`
is the time since the newest action stamp of the two server ports, which
`IsTimeForSleep` compares with `nIdleTimeSetting`. `clock` tells that the system
clock was set away from those stamps. `Reboot` is one step from `PowerOff` to the
restarted threads.

**Modem.** `at` is the stage of the dialogue, `sent` and `rx` are commands and answers
in transit. The modem confirms, refuses or ignores the first command; an answer that
arrives after the timeout stays in `rx` and is read as the answer to the next
command. Closing the port may leave commands in transit carried out or not. `named` is
the configuration: `CheckContext` searches the answer for `USERNAME` and `LOCAL_IP`,
and a string that is not configured, the default for both, is found in every answer.

**Negotiation.** Counters and flags have the names of the code. A frame that arrives
is taken for an assignment whatever it is, and a fragment left by a reset connection
too, so the port received is any of `Assigned` or 0.

**StatusReport.** `statusQueue` and `nLastStatus` are shared by the reader, which
takes a changed status, and the sender, which reports it; `known` is what the server
stored last. Statuses and data packets have numbers from one small set, which the
post may repeat; `blurred` records that a number came up twice. The 32 status bits
are abstract values; the two error bits that the agent sends to the post are part of
what the post may answer.

**SerialBus.** `cmd`, `phase` and `tries` are where each thread is in its exchange,
`reqs` and `rx` what the post has yet to answer and the threads to read. An answer
carries the request it answers, which no code looks at. `Lock` has no action: `flock`
on a descriptor that both threads share grants the lock to both. When both read, a
frame goes to either or is torn; a thread left with a piece of a frame finds, as
`Framing` shows, only the last frame before a silence. The command `"empty"` is what
`CommandRelay` finds the control thread doing after a silent wait. At the start the
answers to the requests of `main_work` may be under way.

**CommandRelay.** `left` is the command word that stays in the buffer of the cleared
packet, `empty` that the packet has no contents. `conn` is `"failing"` while the
connection is broken and the agent has not noticed. Record numbers are pairs of
digits (`Byte` = 2) so that the wrong byte order (`Swap`) matters. `owed`, `stored`,
`refused`, `answered` and `blurred` are history. An answer to a record request may be
missing or a frame that answers something else. The reboot of an unreachable network
is in `PowerCycle`.

**Crc16, Framing.** `crc_table_itut` is the table of the code; `TableAssumption`
compares every entry, and a step with the table, with the bitwise definition.
`Framing` takes the checksum as a parameter, `Crc`; the run gives it that of `Crc16`.
In `Arrive` a burst grows by whole frames, answers and scraps; after `Call` each action
reads a byte as the loops of `ReceiveFrameFrom` and `ReceiveAckFrom` do. `parts` says
where in `bytes` each part lies and `got` what the calls returned and where they were
then, so that the properties speak of places, not only of contents. A pause shorter
than the time-out of `Read` makes no difference, a longer one begins a new burst with
an empty cache. The exception of a TCP port in the middle of a frame, which leaves the
fragment in the packet, is in `Negotiation`. `FramesReceived` has to except bytes that
pass the check and are no frame (`Collision`): no checksum of 16 bits rules them out,
and in one burst of forty of the run a start token three bytes before the rest of a
frame passes for its header, which the checksum does not cover. `OnlySentFrames` says
that even then the content was sent.

**Timers.** `now` is the local clock in seconds, `off` how far it is ahead of the
post's. The clock drifts during rests and is set as `RequestCurrentData` and `main_work`
do, to a time that is old: `SerialPort::Read` sleeps for a time-out before it reads the
answer (`Ages`). An exchange takes as long as its reads wait. With whole answers or none
that is two time-outs for a read: 6 s for the time, 20 s for the condition, 12 s for the
reading (three tries of two reads with 1 s) and 2 s for the health check, which sets no
time-out and has that of the reading (`TimeOut`, `ConditionOut`, `DataOut`, `HealthOut`).
A damaged answer costs up to four, and `TransferCmd` may set the time-out of the shared
port to 5 s at any moment: then 20, 40, 120 and 20 s are the longest (`TimeTakes` and the
like, `DataMax`, `HealthMax`). Left out is a line on which noise never pauses for a time-out, where a
read lasts as long as the noise. An interval comes from the post or, when a foreign
frame or none is read, from `Foreign`: 120 s, or the eighth byte of that frame in
minutes. A thread that finds nothing to sleep for because the product overflowed goes round
until a second has passed. `asked`, `checked`, `sure`, `agreed` and `late` are history;
`late` adds up what exchanges took longer than foreseen, and an old time beyond `TimeOut`.
`Word` and `Micro` scale the 32-bit product of `PatrolRest` so that it wraps within the run.

## Runs

| Run | Checks | Bounds | Result |
|---|---|---|---|
| `sf_safety` | `TypeOK`, `AcceptedKept`, `FileCoversQueue`, `LossOnlyAtRisk`, `ImplementsDelivery` | 2 readings, retry limit 0, 2 packets in transit, 2 crashes | holds, 4.1 million states |
| `sf_live` | `EventuallyDelivered` | 2 readings, 1 packet in transit, no crash | holds |
| `sf_stray` | `OnlyReadingsQueued` | as `sf_live` | violated |
| `power_cycle` | `TypeOK`, `OffPeriodSeen`, `OnPeriodSeen`, `ControlSeen`, `SessionsRecur` | the delays of the code | holds |
| `modem` | `TypeOK`, `PortReleased`, `ContextConfirmed`, `OnMeansConnected`, `CallsReturn` | the retries of the code, answers late by two commands | holds |
| `negotiation` | `TypeOK`, `OneSocket`, `BothPortsTried`, `ConnectedToAssigned`, `OpensBounded`, `CallEnds` | the retry limits of the code, two assigned ports | holds |
| `status` | `TypeOK`, `CurrentStatusKept`, `StatusArrives` | 2 statuses, 3 numbers, 2 packets in transit, 1 crash | holds |
| `serial` | `TypeOK`, `AnswersMatch`, `Resync` | the tries of the code, 2 answers left behind | holds |
| `relay` | `TypeOK`, `ServedInFull`, `PoppedStored`, `TransferEnds` | 4 numbers, batch of 2, 3 packets in transit, the tries of the code | holds |
| `relay_repeat` | `AnswersOwed` | as `relay` | violated |
| `framing` | `Unspliced`, `OnlySentFrames`, `FramesReceived`, `FirstAnswerRead` | bursts of 4 parts out of 11, cache of 32 bytes | holds, 1.0 million states |
| `timers` | `TypeOK`, `RestsUntilDue`, `NoReadingSkipped`, `HealthGap` | the times of the code, interval 60 s, drift up to 2 s a rest, 180 s from the start | holds, 13 million states |

Why the bounds are enough. In the data path two readings show every relation between
a packet and another one (a stale ACK, order, a stray frame with the same number);
the retry limit only sets how often the same exchange is repeated before the session
ends, and 0 already has both outcomes; two crashes give a crash during the recovery
from a crash. The proofs remove the bounds for all safety properties but
`OnlySentFrames`. `PowerCycle`, `Modem` and `Negotiation` are checked with the constants of the code; `MaxLate` = 2
lets two stale answers be in transit at once, more only repeats the shift.
In `StatusReport` three numbers allow two queued statuses and a data packet.
In `SerialBus` two is the number of answers for which `Resync` holds: with
`MaxPending` = 3 the three answers of a round without health check stay one round
behind for ever. In `CommandRelay` a batch of 2 is the least with an order, four
numbers give transfers shorter and longer than a batch, and three packets in transit
let a pass meet the answers to the pass before (with 4 in transit everything holds
too). In `Framing` four parts allow a frame before, between and after two pieces of
damage; the two frames contain every control character that the code looks for, in
the machine number too. In `Timers` the horizon is three
intervals of the post: a first round, one that is late and the one after it. The times
that an exchange takes are the ends and the limits of what the code allows (none, the
longest foreseen, the longest of all), since the properties compare sums of them; the
clock starts as far behind as an old answer puts it, right, or `MaxOff` ahead, and 26 is
the largest `MaxOff` that leaves a margin in an interval of 60 s, which is the shortest
the post can have. The foreign intervals are that of the post, the default, and one that wraps.

Deadlock is checked in every run but `timers`, which ends at its horizon.

**Fairness.** `sf_live`: the sender and the steps of the reader after a packet was
received go on (they are threads that never block for ever: every read has a
timeout); requesting a further reading is not fair, for the post may be silent. The
network and the server are strongly fair for a packet written on a working
connection, an answer in time and the pop it causes: they may fail again and again
but not always, without which no retry could help. `power_cycle`: the polls of the data
thread, the end of a session and time. The control thread is not fair; what the
property needs of it (the line is switched off, the control channel comes up, again
and again, and reboots end at some time) is its hypothesis. `modem`: the agent's calls go on, and a command in
transit is answered or lost. `negotiation`: every call of `Connect` and `Read`
returns, which the socket timeouts see to. `status`: as `sf_live`; besides, not
every session begins with a late answer, and sessions recur (`power_cycle`).
`serial`: the timers of the reader run out again and again and its calls return, both
of which time sees to; the post answers a request or drops it. That the control
thread falls silent and no read ends early any more is the hypothesis of `Resync`.
`relay`: the calls of the control thread return, and an answer is not too late every
time; that the server accepts all records from some time on is the hypothesis of
`TransferEnds`.

## What the runs show

- A queued reading is lost only if the process ends while a save is due, under way or
  failed, or if the power-off event arrives while the file is still being loaded
  (`LossOnlyAtRisk`). In those windows it can be lost: `Save` replaces the file in
  place.
- The file may hold readings that were delivered (`Pop` does not save, and an empty
  queue is not saved): they are sent again after a restart and cause no other harm.
- `RequestCurrentData` says in a comment that it reads again "if not the right
  answer"; it does not check the second frame, which is queued if it is a stray
  answer (`sf_stray`). While it is queued, a reading with the same number is not.
- The data thread's 10 s poll misses no off period because `PowerOn` sleeps 11 s; a
  margin of one second. The theorem says which inequality is needed.
- Sessions recur only if the line is switched off again and again: a data session is
  started once in each on period, so continuous control traffic keeps the modem on
  and the readings queued. The sleep that would have paced sessions is commented out
  (`DataTask.cpp:102`).
- Setting the clock back makes `IsTimeForSleep` true until the clock has caught up:
  `ControlSeen` and `SessionsRecur` except that case.
- `bControlDone` stays true after the control channel was lost, until the idle time
  is over; the data thread then negotiates without a control channel.
- A late `OK` can make `ConnectIP` succeed with the line down (`OnMeansConnected`
  excepts late answers). It cannot make `CheckContext` accept a missing context if
  `USERNAME` or `LOCAL_IP` is configured (`ContextConfirmed`). With neither, which is the
  default and how `ARM/agent.conf` is shipped, `CheckContext` accepts every `OK`, late or not,
  and says nothing about the context.
- A changed status is remembered in `nLastStatus` before `Push` may drop it, and an
  ACK is told from another by its number alone: `CurrentStatusKept` holds only while
  numbers are not repeated. A restart forgets the queue (`SaveStatus` is never
  called) and starts from status 0.
- The port assigned in the second negotiation of `NegoiateControlChannel` and
  `NegoiateDataChannel` is acknowledged and never connected to: `retry_connect` is 1.
- Nothing keeps the two threads apart on the serial line (`flock` on a shared
  descriptor, and three requests that do not even lock), and no answer is checked
  against its request but the first frame of a reading. `AnswersMatch` therefore
  holds only while they happen to take turns. The line recovers only by
  the second read of `RequestCurrentData`, which takes up to two answers too many out
  of the line (`Resync`).
- After a silent wait the control thread carries out the command before again with an
  empty packet (`relay_repeat`): it reads the serial line without asking, forwards
  what it reads, or reports an internal communication error. A silent line is the
  usual case, and each such wait disturbs the reader's exchanges.
- A history transfer of fewer than 10 records sends nothing, and a longer one only
  its first 10: the count is compared with 10 and never reset. The numbers of the
  request are read in the wrong byte order, and the checksum is not renewed when the
  start number changes. `ServedInFull` is what is left.
- An ACK pops all records up to its number. A record that the server refused is
  dropped when it accepts a later one, and where numbers do not ascend (a wrap, a
  stray frame) records that the server never saw are popped, or the loop of
  `SendQueueData` never ends; `PoppedStored` and `TransferEnds` except those cases.
- `ReceiveFrameFrom` never takes damaged bytes for a frame, but the machine number and
  the byte after it are outside the checksum. A stray start token costs every frame up
  to the last before a silence. When the cache exceeds 4056 bytes the
  first start token is given up and the rest is not checked (`continue` in
  `do ... while (false)`): a frame that it is then is lost at the next silence.
- `ReceiveAckFrom` reads until the silence and counts the first answer only.
- No reading is skipped while rounds know the post's time and interval and every
  exchange takes what its own time-out foresees, although the clock is set to times that
  are seconds old. Damaged answers and the time-out of `TransferCmd` can make a round longer
  than a minute; then as many readings are skipped as the post makes in that time, and
  no more (`NoReadingSkipped`). A round that gets no interval, or reads it from a foreign
  frame, sets the timer by 120 s or by up to 255 minutes and loses readings of a post with
  shorter intervals; one that gets no time while the local clock is ahead asks early,
  and skips one later.
- The timers are taken before `main_work` sets the clock (`Protocol.h:33`): a clock
  set back at the start delays the first request and health check by that much, and
  one set back later delays the health check likewise (`HealthGap` counts both). A health
  check also waits for the exchanges of the round before it, two or three minutes at
  worst.
- For intervals above 35 minutes the product in `PatrolRest` overflows: the reader
  spins or wakes early, but never sleeps too long (`RestsUntilDue`). In
  `SleepForPowerOn` the same product sets a wrong wake time for the modem.
- The configuration page saves the key `MIN_SINGAL` (`config.cpp:177`), the agent reads
  `MIN_SIGNAL` (`Config.cpp:222`): the level set there has no effect.
- `negoiateChannel` can return 0 with the port connected to the well-known port; the
  control thread then waits for commands there until the idle time is over.

## Proofs

Every safety property of the runs is a theorem, for every value of the constants that
the named assumption of the module admits, except `OnlySentFrames`. Each proof
module states an inductive invariant (`IInv`, for `Framing` `BurstInv`), proves that `Init` establishes it and
that every step keeps it (one step of the proof per action), and derives the
properties. TLC checked each invariant on an instance before it was proved.

| Module | Theorems | Properties they state |
|---|---|---|
| `StoreForwardProofs` | `TypeCorrect`, `ReadingsKept`, `FileCovers` | `TypeOK`, `AcceptedKept`, `FileCoversQueue` |
| | `LossesExplained`, `Implements` | `LossOnlyAtRisk`, `ImplementsDelivery` |
| `PowerCycleProofs` | `TypeCorrect`, `OffSeen`, `OnSeen`, `ControlNoticed` | `TypeOK`, `OffPeriodSeen`, `OnPeriodSeen`, `ControlSeen` |
| `ModemProofs` | `TypeCorrect`, `PortAlwaysReleased`, `ContextBeforeConnect` | `TypeOK`, `PortReleased`, `ContextConfirmed` |
| | `OnConnected`, `CallsBounded` | `OnMeansConnected` |
| `NegotiationProofs` | `TypeCorrect`, `OneDescriptor`, `GivesUpAfterBoth` | `TypeOK`, `OneSocket`, `BothPortsTried` |
| | `AssignedPort`, `BoundedOpens`, `CallsBounded` | `ConnectedToAssigned`, `OpensBounded` |
| `StatusReportProofs` | `TypeCorrect`, `StatusKept` | `TypeOK`, `CurrentStatusKept` |
| `LineProofs` | `TypeCorrect`, `OwnAnswers` | `TypeOK`, `AnswersMatch` |
| | `FramingTypes` (`FramingTypeOK`), `BurstUnspliced` | `Unspliced` |
| | `FirstAnswerIsRead`, `ReceivedFrames`, `BurstsEnd` | `FirstAnswerRead`, `FramesReceived` |
| `CommandRelayProofs` | `TypeCorrect`, `PopsDealt`, `BatchServed` | `TypeOK`, `PoppedStored`, `ServedInFull` |
| `TimersProofs` | `TypeCorrect`, `RestInTime` | `TypeOK`, `RestsUntilDue` |
| | `NothingSkipped`, `HealthInterval` | `NoReadingSkipped`, `HealthGap` |

**StoreForward**, for every `MaxNo`, `RetryLimit`, `MaxWire` and `MaxCrashes`.
`IInv` adds to the properties: `AcksStored` (a positive
answer in transit names a reading the server has, which makes a pop safe), `Loadable`
(numbers are unique in the queue, and no stray packet in the queue or before it in
the file hides a reading that `Load` has yet to push) and `Windows` (the reader runs
only after the load, a save during the load is a `fault`, and a file being written
holds nothing but queued or delivered readings). `AcceptedKept` is not inductive
without the first two: a pop, or a `Push` that finds the number taken, could drop a
reading. `FileCoversQueue` is not without the third: the writes of one saver could
leave in the file what the other left there.

**StoreForward implements Delivery.** The refinement needs more (`RInv`). `Known`: the
agent holds only readings that were accepted and are not counted as lost, and the
post's numbers ascend, so that `Push` appends the largest. `OnWire`: a packet in
transit is the front of the queue or a repetition of one that the server has, so that
no packet of an earlier pop reaches the server as something new. `InOrder`: no
undelivered reading stands behind a later one, in the queue and in the queue that
`Load` will make of the file. The file itself may be out of order: when two savers
overlap, what is left of one follows what the other wrote, and `Load` gets an ordered
queue only because `Push` passes over the numbers it already has (`Mergeable`).
`Saves` says why no more than that can happen: the file that both have truncated is
empty until one of them writes. From `RInv`, `ServerStores` of a packet new to the
server is `Deliver` of the oldest pending reading (`OldestFirst`), `PushData` is
`Accept`, a save under a running `Load` and a crash are `Lose`, and every other step
is a stutter.

**PowerCycle**, for all delays that `DelaysAssumption` admits. None of the three action
properties is inductive: each speaks of the moment of a change. The invariant
relates the two sleeps before it: while `PowerOn` sleeps, `dtime + OpenTime <= PollOff
+ ctime` for a data thread in its 10 s poll (`BeforeOn`), likewise for the grace
period before `PowerOff` (`BeforeOff`) and for the one-second poll of `bControlDone`
(`BeforeReset`). At `ctime = 0` they contradict `PollOff < OpenTime` and `Idle / 2 <
Idle`.

**Modem**, for any numbers of attempts and of late answers. Answers do not name their
commands, so a late one may be taken for another; `ContextConfirmed` holds all the
same because the only command that takes a context away, `AT+CFUN`, is in transit only
when the dialogue is about to end (`ResetLast`): an unread answer that reports a
context is still true. The theorem is about a configuration with a user name or an
address; without them the code has nothing to tell such an answer by. `InStep` says that without late answers one command or answer
is in transit, and that while `ConnectIP` waits it is its own; that gives
`OnMeansConnected`.

**Negotiation**, for all limits with `OpenTries = 2 * SwitchAfter` and at least two
`AnswerTries` (as in the code) and any assigned ports. `BothPortsTried` needs
`OtherTried`: a silent connection, or `SwitchAfter` failures in a row, made the port now
used the other of the two. `OpensBounded` needs `OpensCounted`: each silent connection
accounts for at most `OpenTries` Opens.

**StatusReport**, for any statuses, numbers, retries and packets in transit. Only the
first queued status is in transit (`OnlyHeadSent`), behind a report of it there are only
reports of it (`HeadSentLast`), and once it is answered the server knows it and nothing
older is on its way (`AnsweredKnown`). Without the middle one a pop would be unsafe: an
older report still in transit could overwrite the status the server had just answered.

**SerialBus**, for any relayed commands, tries and answers left behind. `Awaited` bounds
the frames in transit by the reads that wait for them; `InTurn` says that while nothing
was mixed one thread is on the line, with one frame at most, which is its own.
`AnswersMatch` is about the moment of a read and follows from `InTurn`.

**Framing**, for any checksum, any frames that pass it and fit into the cache, any answers
and fragments, and bursts of any number of parts. `PartsLaid` and `CacheRead` say that
the parts lie behind one another and that the cache is what was read last, as long as it
may be (`ReadTo`). `FrameInv` cuts the burst at the first start token that belongs to no
frame. Before it (`InStep`) the calls are between frames or the cache is the beginning of
one, which passes the check exactly at its end, and every frame read so far was
returned (`Counted`). Behind it (`OutOfStep`), in a burst that fits into the cache, the
cache begins with that token, so nothing passes before the silence, and then
`slipToNextStartToken` stops at every start token: it cannot pass over that of the last
frame. In a longer burst the cache may be given up in the middle of anything, and only
the first half holds. `AckInv` is the like of it for `ReceiveAckFrom`.

**CommandRelay**, for any width of a byte, batch, tries and stray numbers, given that a
batch fits in transit. An ACK pops all numbers up to its own. That is safe because each
pass sends the queue in ascending order, so that what precedes a record in the queue
was dealt with or precedes it on the wire too (`Orderly`); `Kept` follows what the
transfer received until the server has dealt with it.

**Timers**, for all intervals, durations of exchanges, ages of the post's time, drifts and
widths of an int that `TimersAssumption` admits. The argument is made in the post's
time, which never goes back: at each place of the loop it is bounded by the time of
the reading that is expected, and what the exchanges since then took too long (`InTime`),
and by that of the last health check (`HealthInTime`). `Sure` says that in a round that
got the time both clocks have passed the expected reading: a time that is old ends the
wait late, never early. The assumption states the margins these bounds need. An overdue
timer is no further back than an `int` of microseconds can tell (140 s after the longest
exchanges, against 2147 s), and a health check takes no longer than its period (20 s,
against 30 s). A round of exchanges that take what is foreseen and that is late by
the clock or by the last answer ends before the next reading: `MaxOff` + 2 + 6 + 20 + 5
seconds, against the shortest interval of 60 s, so the clock may be off by 26 s, more than
the 20 s of the oldest answer. No margin is needed of exchanges that take longer: `late`
counts them, and the theorem says what they cost.

**The lengths of calls.** Three theorems state what the liveness properties need
besides fairness: a number (`Left`) that every step of a call decreases and that
nothing else changes. `CallsBounded` of `NegotiationProofs`: at most `ConnectTries + 2 *
AnswerTries * (OpenTries + 1)` steps (59 with the limits of the code), although a
connection resets the count of failures and a refused port starts a second
negotiation. `CallsBounded` of `ModemProofs`: `PowerOn` takes at most `36 * Tries + 35`
steps (143) and `PowerOff` at most `3 * OffTries + 2` (17), because no stage of the
dialogue leads to an earlier one (`StagesAscend`), the fall-back of the second time
routine included, and because the attempts at opening and at writing share one
counter in `PowerOff`. `BurstsEnd` of `LineProofs`: a burst of `n` bytes is used up within
`4n + 3` steps, so that `FramesReceived` and `FirstAnswerRead`, which speak of that moment,
are not empty. The three were evaluated by TLC on the instances of the runs (the last
with bursts of 3 parts) before they were proved.

Only model-checked, because it is out of the prover's reach:

- the liveness properties `EventuallyDelivered`, `SessionsRecur`, `CallsReturn`,
  `CallEnds`, `StatusArrives`, `Resync` and `TransferEnds`, which rest on fairness (for
  `CallsReturn` and `CallEnds` the rest of the argument is proved, see above);
- `OnlySentFrames`, which depends on the values of the checksum: it holds for the
  frames and fragments of the run and cannot for all. That `Crc16` computes the
  checksum is evaluated, for its `Bitwise` operators are closed to the prover.

## Not modelled

The debug log, GPIO set-up and the start-up configuration are I/O without state that
the agent reads back. The configuration file is written and read sequentially, the
reader at the start only; its values are constants of the models, and no model would
say more of its keys than a comparison of the two lists. `TCPPort::waitConnect`,
`TCPPort::Bind`, `Protocol::Sleep`, `Protocol::SaveStatus` and the second
`CRC16::crc16` are never called. The contents of readings and commands do not matter
to the properties. A truncated ACK, whose number `IsAckNo` would read beyond the end
of the buffer, is taken as not matching.
