# Fingerprint node: a TLA+ model, its checks and its proofs

The repository is the firmware of an alarm system's fingerprint node: an
STM32F103 under ChibiOS, an R503 fingerprint sensor on a UART, and the RS485 bus
with the gateway (address 0) and the other nodes. This directory holds TLA+
modules that model the part of it where several activities meet, TLC
configurations that check them, and proofs that TLAPS checks. Sources are named
relative to `src/`.

    tlc -config node_enroll.cfg MCFingerNode.tla    # and so on, see "Runs"
    tlapm FingerNodeProofs.tla                      # and so on, see "Proofs"

## 1. The system

| Component | Source | State | Operations | Meets |
|---|---|---|---|---|
| Node state | `ohs_func.h` | `nodeState.mode`, `.lastMode` | `setNodeMode`, `setLastNodeMode`, `isAuthAllowed` | written by main (once) and RS485Thread, read by all threads |
| Sensor lock | `main.c` | `R503Sem` | wait, signal | main and RS485Thread |
| Main thread | `main.c` | `count`, `lastLedMode`, `fpErrCount`, `fingerCount`, `fingerPassed`, `location` | boot; loop: LED and health check, scan, report | sensor, mode, bus |
| RS485Thread | `ohs_th_rs485.h` | pending flags, `conf`, `finger[]`, `compressed[]` | mode commands, enroll, push, delete, flush, get, query, registration, time, display; idle tick | sensor, mode, bus, flash |
| Fingerprint operations | `ohs_func.h` | `finger[]` | `enrollFinger`, `downloadTemplate`, `uploadTemplate` | called by RS485Thread |
| R503 driver | `source/R503.c`, `R503Packet.c` | `data[]`, `send[]`, the sensor's library and character buffers | one function per command | both threads |
| Multipart protocol | `ohs_multipart.h` | `mpRx`, the buffer `compressed[]` | `mpRxProcess`, `mpRxCheckTimeout`, `sendDataMultipart` | gateway, peers |
| Peer synchronisation | `ohs_th_rs485.h` | `conf.pendingSync` | add, remove, clear, retry; `syncDeleteToNodes` | peers, flash |
| Configuration | `source/eeprom2flash.c`, `reg_defaults.h` | `conf` in flash | `readFromFlash`, `writeToFlash`, `setDefault` | main at boot, RS485Thread |
| Gateway contact | `ohs_th_service.h`, `ohs_th_rs485.h` | `lastGwContact`, `pingPending` | keepalive, ping, time beacon | main (LED), display |
| Display | `ohs_th_display.h`, `ohs_ssd1309.h` | hold and countdown counters | draw | written by RS485Thread, service, main |
| Sounds, blinker | `ohs_th_rtttl.h`, `source/tone.c`, `ohs_th_blinker.h` | mailbox of 5 | play | output only |
| Radio, NFC | `source/rfm69.c`, `ohs_th_radio.h`, `ohs_nfc_pn532.h` | - | - | off in the default build |
| Conversions | `source/rle.c`, `source/date_time.c` | - | pure functions | RS485Thread |

What is hard:

* *Scheduling.* main, RS485Thread and the sound thread have the same priority
  and no time slice (`cfg/chconf.h:128`): they switch only where one blocks,
  that is at semaphores, sleeps and the timed reads and writes of the UART and
  the bus. What happens between two such points is one step, but a handler has
  many of them, and the mode and the sensor may change at each.
* *One sensor, two users.* `R503Sem` is taken and given back several times
  within one handler, once without being taken at all (`R503Start`).
* *The mode as a lock.* `MODE_ENROLLMENT` keeps the main loop off the sensor;
  it must come and go with the handler, on every error path.
* *A sensor that fails*: wrong answers, lost replies, a disconnection (each
  command then costs 10 s), and a library that survives a power loss while the
  state of the node does not.
* *A lossy bus*: a chunk that was given up may have arrived, one that was
  acknowledged may arrive twice; only one message is held while a handler runs.
* *A 16-bit clock* that comes round every 32.8 s, and a calendar clock that the
  gateway sets while the contact with it is measured with that clock.
* *A flash page* that is erased and written halfword by halfword, with power lost
  at any point.
* *A panel without a buffer*: what a screen does not overwrite stays, and the
  thread that draws has the lowest priority, so what it shows changes under it.

`PROJECT.json` lists these as hazards at the lines where they bite, with the
properties that cover them.

## 2. Modules

| Module | Models | Role |
|---|---|---|
| `NodeModes` | `authMode_t` and the mode commands | constants |
| `NodeState` | `nodeState`, `R503Sem` | state shared by the threads |
| `FingerNode` | main (boot, loop) and RS485Thread with the fingerprint operations | the core |
| `TemplateStore` | what the node promises about its library | abstract specification of `FingerNode` |
| `FingerNodeProofs` | | theorems on `FingerNode`: lock, modes, refinement, the count and the IDs it reports |
| `AuthLoop` | main's loop with its data: LED, health, matches, report | component |
| `AuthLoopProofs` | | theorems on `AuthLoop` |
| `Multipart` | sender and receiver of multipart messages | component |
| `MultipartProofs` | | theorems on `Multipart` |
| `SensorLink` | the R503 driver and its packets | component |
| `SensorLinkProofs` | | theorems on `SensorLink` |
| `ConfFlash` | `conf` and its page in the flash | state shared by the boot and RS485Thread |
| `PeerSync` | registration, IDs and the table of pending syncs, saved with `ConfFlash` | component |
| `PeerSyncProofs` | | theorems on `PeerSync` and `ConfFlash` |
| `Calendar` | the conversions of `source/date_time.c`, and an RTC | pure functions |
| `GwContact` | service thread, ping, time beacon, over `Calendar` | component |
| `GwContactProofs` | | theorems on `GwContact` and `Calendar` |
| `Ssd1309` | what the drawing functions do to the panel | pure functions |
| `Display` | the display thread and what the others do to its state, over `Ssd1309` | component |
| `DisplayProofs` | | theorems on `Display` and `Ssd1309` |
| `Rle` | the run-length code of the templates | pure functions |
| `RleProofs` | | theorems on `Rle` |
| `MC...` | instances | constants for TLC |

**FingerNode.** The program counters `mpc` and `rpc` name the sensor command a
thread has in flight or what it is blocked on; an action is the code between two
such points, with every call in it. `job` is the handler RS485Thread is in.

| `rpc` | code |
|---|---|
| `wait` | `chEvtWaitAnyTimeout`, `ohs_th_rs485.h:368` |
| `acquire` | `chBSemWait(&R503Sem)` of a handler |
| `count`, `tail` | `sendTemplateCountToGateway`, then the end of the idle tick |
| `capture`, `lift`, `create`, `store` | `enrollFinger` (`ohs_func.h:118-190`); `store` also `uploadTemplate` |
| `drain`, `load`, `fetch`, `send` | the rest of 'E', and 'G' |
| `fill` | `uploadTemplate`, before `store` |
| `erase`, `forward` | delete and flush; `syncDeleteToNodes` |

| `mpc` | code |
|---|---|
| `start`, `startsleep`, `contact` | `main.c:370-400` |
| `top` | the top of the loop |
| `ledwait`, `led` | `main.c:467-506` |
| `scanwait`, `scan`, `match` | `main.c:578-624` |

A signal of `R503Sem` hands it to the queued thread (`SemSignal`), as ChibiOS
does; so "signal, then wait again" of one thread makes it queue behind the other
(`SemYield`). A command to the sensor succeeds, or fails with or without having
had its effect (`LibAfterFailure`). The sensor may be lost at any time and found
again, with what was in its character buffer or without; it is not found in the
short time between two commands of which the second needs what the first left in
it (`SensorFound`). The message with the count may be lost. A template is a model
value and stands for its own ID. A power cycle resets everything but the library
and the flash. The feature images are of one finger, only character buffer 1 is
kept (the others hold nothing another thread uses), and compression is left out.
History: `countMissed` (no count has arrived since one was lost or could not be
read, or a failed store was carried out) and `unsure` (the slots whose last change was an
enrollment, failed, or was cut by a power loss).

**TemplateStore** has the library and the request being served; a request is
accepted, then served in one step or dropped. `FingerNode` implements it with
`store <- lib` and `request <- Request`, read off `job`, `slot` and `tmpl`.

**AuthLoop** refines the view of main's loop: which LED command was sent for
which mode, the counters of errors and matches, the location. RS485Thread is
reduced to setting the mode between any two sensor commands; connectivity of the
gateway to a free choice. History variables: `ledMode` (what the sensor's LED
shows), `matched` (the locations matched since the last report), `held` (scans
begun since the first of them), `lifted` (one of these found no finger).

**Multipart** has senders that repeat or give up chunks and begin again at once, with
the same message or another one; a driver that holds one message; the receiver's
loop, in which a handler about to send throws away what has come; a clock modulo
`Wrap`, and handlers that keep the loop busy and may use the buffer of the chunks.
The buffer says of each chunk who sent it and of which message. History: `age`,
the unwrapped age of the message in progress; `blinded`, a single handler has kept
the loop until that age was `Wrap`; `shared`, a handler has used the buffer since it
began; `hurried`, the senders that began another message while the receiver was
not done with their last; `got`, what was just put together.

**SensorLink** is one level below: what the other modules take for one step, a
command, is here a packet, an answer found in a queue of bytes, and a result. A
byte is a record that knows the packet it was sent in and its place there, so a
head, a length and a checksum are right or wrong by what was lost, altered or
left over, not by chance. `Received` is `R503PacketReceive` as a function of the
queue; the commands differ in the size of the answer and in what they return
(`ResultOf`). The sensor and the line are external: the sensor speaks when asked,
in time or not at all. History: `own` (what came back is the answer to this
command), `outOfStep` (a packet was bad and no read has timed out since).
`FingerNode` and `AuthLoop` take it that a command that reports success has done
its work; `AnswerIsOwn` is what justifies that, up to the first bad packet.

**ConfFlash** has the page as an array of halfwords, as `writeToFlash` sees it.
An action is what happens between two points at which losing power makes a
difference: the erase, and the programming of each halfword. A halfword that is
not blank is not changed by programming it, which is what makes the check for an
erase (`NeedsErase`) matter. Only a power loss during an erase leaves part of the
old page; which parts is `Erasures`. History: `whole`, the configuration the page
has parts of.

**PeerSync** extends it with RS485Thread's operations on `conf`. Between two
writes of one handler (delete; a push or retry to one peer after the other)
`sync` holds its locals. Whether a peer acknowledges, and whether a template can
be downloaded, is a free choice. An entry of the table is two halfwords, its mask
a set of addresses. History: `owed`, what peers failed to acknowledge and still
lack, and `excused`, set when the table was full or a write was cut short.

**GwContact**. In each second the service thread and RS485Thread pass their loop
once, in any order; RS485Thread may be kept from idling for `MaxBusy` seconds in
a row. The service thread reads the clock and `lastGwContact` in two steps, as
its statement allows (`ServiceSample`, `ServiceDecide`), and the difference is
unsigned, so that a time in the future counts as long ago. The clock is a date
counted by an RTC of its own rules (external), and everything that looks at it
goes through `Calendar`. History: `silence`, `stepped`, `calm`.

**Display**. `Ssd1309` abstracts the pixels of a page to the set of the screens
they belong to, in the text and at the two columns beside it; so what is left of
another screen can be seen without a font. A pass of the thread is one action, or
three if it draws a screen: other threads run in between, never the reverse
(`LOWPRIO`). History: `base` (the screen last drawn), `skipped` (the last pass for a
screen was that of an arming without a maximum, which draws none), `delayed`.

**Rle** takes the powers of two of the code, 64 and 256, as constants, so that
inputs of a few bytes reach the limits of the short and the long form and of a
count.

## 3. Runs

| Run | Bounds | Shows |
|---|---|---|
| `node_enroll` | 1 slot, 2 templates, 2 images, 1 poll per image, `LedPeriod` 1; sensor errors, power loss; messages of all kinds | type, lock, mode and buffer invariants, `LibraryRefined` |
| `node_ids` | 1 slot, 2 templates; enroll, push, delete, flush, query; sensor errors, sensor lost and found, messages lost, power loss | `IdNamesTemplate`, `CountIsFresh` |
| `node_live` | 1 slot, 1 template; enroll and push for ever; working sensor | `ThreadListens`, `MainLoops` |
| `auth_loop` | 3 modes, 2 slots, `FINGER_PASSED` 1, cool-down -2, `LedPeriod` 1, one transient error, sensor plugged in and out | reports and sensor health |
| `multipart` | 2 senders, messages of 2, 2 and 3 chunks, other traffic, timeout 1, busy 3, `Wrap` 4 | `MessageIsWhole`, `FromOneSender`, `NeverStale` |
| `enroll_sensor_loss` | the sensor may be lost | finding: `MainLoops` fails |
| `sensor_link` | answers of 1, 3 and 5 bytes and 2 data packets of 2, queue of 24 bytes, one answer damaged or cut short, sensor plugged in and out | framing of the driver |
| `stale_answer` | the commands of a scan, queue of 256 bytes, one answer damaged | finding: `OkMeansDone` fails |
| `peer_sync` | 1 slot, 2 entries, 3 locations, peers 1 and 3, 1 registration, 1 ID; power lost at any point | flash and pending table |
| `contact` | timeout 7 s, keepalive 3 s, retry 1 s, busy 1 s, 19 s from 28 Feb and 31 Dec 2024 23:59:56; beacons that step by -1, 0 and 8 s | gateway contact and calendar |
| `display` | disarmed, arming, armed home and alarm; rejected and enrollment screens; delay, retry and hold of 1 | the panel, and that an alarm is shown |
| `rle` | all sequences of 2 bytes up to length 15; `Low` 6, `High` 2 | `RoundTrip`, `FitsBehindHeader` |

Why the bounds are enough. Two images distinguish the first, the last and the
hand-over between them, and `image`, `attempts` and `count` are only compared
with their limits. One slot suffices where slots do not interact (one operation
is served at a time, about one slot); that a push or a delete leaves the others
alone is what the theorems add, which are about any number of them. Two
templates tell an old from a new one; they are interchangeable, hence the symmetry
set, used for safety only. `node_enroll` takes states for one that differ only in the
history of the count and of failed changes, which no action reads (`VIEW NoReports`). In
`AuthLoop`, `FINGER_PASSED` 1 leaves scans before, at and after the limit, and
the cool-down -2 scans below 0; three modes cover the classes the loop tells
apart (reports at once, waits for the hold, does not scan). In `Multipart`, two
contents of equal length are what the receiver cannot tell apart, the third is
what it can; the clock comes round after 4 ticks, and a handler of up to 3 passes
its end with another, or with the age the message already has. States that differ
only in what no later step reads (old chunks in the buffer, the time itself, a
message that is done with) count as one (`VIEW WhatMatters`). In `SensorLink` head and checksum
have their real sizes, on which the way back into step depends; the template is 2 packets
instead of 12, a first and a last; a queue of 24 bytes holds more than a whole
answer, so that an old one can be found, and less than what a given-up transfer
leaves, so that some of it is dropped. In `PeerSync` one location has a slot with
an ID and two have none, which is all the code asks of it; three locations fill a
table of two entries; address 2 is the node's own and 4 and up are past the
limit. The page is 7 halfwords; an erase that is cut short leaves either end
blank up to any point. In `GwContact` the times keep their order (retry <
keepalive < timeout, and a keepalive with a busy bus fits into a timeout, as 60
and 120 s do); 19 s hold an outage longer than the timeout and the recovery from
it, and both starts cross midnight four seconds in. In `Display` one unit of each
counter is enough, as the thread only compares them with zero and with the value
before; the screens of armed away and of the entry delay, which are in `Drawn`,
are left out of the instance for its size, and are drawn like the armed home and
the arming screen. In `Rle`, 15 bytes are longer than the largest count (12), and
two values suffice, as bytes are only compared with the one before.

Assumptions of the runs: the sensor answers `R503Start` within 3 s and the
gateway sends nothing but queries during the boot (`node_*`; see section 5 for
what happens without); the sensor works (`node_live`; `enroll_sensor_loss` drops
it). Nothing is assumed of the senders of `multipart`, of the length of a handler
or of the messages between two chunks.

`display` takes it that the boot is over before the gateway commands anything, and
that a write to the panel arrives; `contact` that no thread is a whole second late
but for the `MaxBusy` seconds of RS485Thread. These are below 58 in
`ContactAssumption`, which a push or a download stays far below, but an enrollment
without a finger does not (`ohs_func.h:118-168`): during one, and for a ping after
it, the node may look offline although the gateway is there.

`enroll_sensor_loss` switches the deadlock check off: a thread that waits for
ever for a lost sensor is what it looks for. So do `contact`, whose time ends, and
`rle`, whose inputs do. All other runs check deadlock.

### Fairness

`node_live`: `WF(MainNext)`, `WF(RsNext)`, `WF(ThreeSeconds)`. The two threads
have equal priority and block in every round of their loops, so each gets the
processor again; every command to a working sensor returns within its timeouts;
and time passes. `RsNext` includes that a finger is lifted in the end: without
it an enrollment need not end. Nothing is assumed of the gateway (`Deliver` is
not fair) and nothing strong: that the main loop is not kept from the sensor
follows from the semaphore's hand-over. `AuthLoop`: `WF(MainNext)`, for the same
reasons. `SensorLink`: `WF(Driver)`, as each read ends after 10 s at the latest,
and `WF(Command)`, as main asks the sensor in each round. `Display`:
`WF(DisplayThread)`; it has the lowest priority, but every other thread sleeps or
waits in each round of its loop. In `AuthLoop`,
`LossIsFlagged`, `RecoveryIsSeen` and `HoldIsReported` say in their
premises what must hold from some point on.

## 4. Proofs

Eight modules prove the following, for every value of the constants that the
named assumption of the component's module allows (TLC evaluates each of these
in every run of the module). What a theorem assumes beyond that is a hypothesis
in its statement, and named in the last column.

`FingerNodeProofs`:

| Theorem | States | Assumes |
|---|---|---|
| `TypeCorrect` | `[]TypeOK` | - |
| `SensorExclusiveOnceStarted` | `[](mpc # "start" => SensorExclusive)` | - |
| `SensorIsExclusive` | `[]SensorExclusive` | `CalmBoot` |
| `EnrollModeEnds` | `[]EnrollModeIffServing` | `CalmBoot` |
| `CommandedModeKept` | `[]ModeIsCommanded` | `CalmBoot` |
| `EnrollmentIsUndisturbed` | `[]EnrollmentUndisturbed` | `CalmBoot` |
| `SentTemplateIsStored` | `[]SendsWhatIsStored` | - |
| `LibraryIsRefined` | `FingerNode` implements `TemplateStore` | - |
| `ReportedCountIsFresh` | `[]CountIsFresh` | - |
| `SlotIdNamesTemplate` | `[]IdNamesTemplate` | - |

`AuthLoopProofs`, for any numbers of scans, slots, errors and LED periods:

| Theorem | States | Assumes |
|---|---|---|
| `TypeCorrect` | `[]TypeOK` | - |
| `ReportFollowsMatch` | `[]ReportsAMatch` | - |
| `ReportWaitsForScans` | `[]WaitsUnlessArmed` | - |

`MultipartProofs`, for any senders, messages of up to 32 chunks, timeout and length of
a handler:

| Theorem | States | Assumes |
|---|---|---|
| `TypeCorrect` | `[]TypeOK` | - |
| `UnfinishedIsGivenUp` | `[]NeverStale` | - |
| `MessageIsOneThatWasSent` | `[]MessageIsWhole` | - |
| `ChunksAreOfOneSender` | `[]FromOneSender` | - |

`SensorLinkProofs`, for a template of any number of packets of any size, any queue
and any number of bytes lost or altered, one after the other:

| Theorem | States | Assumes |
|---|---|---|
| `TypeCorrect` | `[]TypeOK` | - |
| `DriverIsInStep` | `[]StaleOnlyAfterBadPacket` | - |
| `SuccessIsAnswered` | `[]AnswerIsOwn` | - |
| `UploadIsWhole` | `[]TransferIsWhole` | - |

`DisplayProofs`, for all modes and any delays, holds and retries:

| Theorem | States | Assumes |
|---|---|---|
| `TypeCorrect` | `[]TypeOK` | - |
| `ResidueOnlyOfSkippedArming` | `[]NoResidue` | - |
| `HomeArmIsSilent` | `HomeArmDrawsNothing` | - |

`PeerSyncProofs`, for any number of slots and entries, any locations and
addresses, and power losses anywhere:

| Theorem | States | Assumes |
|---|---|---|
| `TypeCorrect` | `[]TypeOK` | - |
| `WritesTake` | `[]ProgramsErasedOnly` | - |
| `FlashIsWhole` | `[]NeverMixed` | - |
| `EachEntryHasItsOwnLocation` | `[]OneEntryPerLocation` | - |
| `TableIsOwed` | `[]PendingIsOwed` | - |

`GwContactProofs`, for any timeout, cadences, `MaxBusy`, steps of the clock and
spans of time up to `LastYear`:

| Theorem | States | Assumes |
|---|---|---|
| `DateComesBack` | `DateTime(UnixSecond(d)) = d` for every date `d` | - |
| `SecondComesBack` | `UnixSecond(DateTime(n)) = n` for every second `n` | - |
| `DatesAlwaysAgree` | `[]DatesAgree` | - |
| `ConnectedAlwaysIsHeard` | `[]ConnectedIsHeard` | - |
| `AlwaysRegainsContact` | `[]RegainsContact` | - |
| `AlwaysRetriesWhileLost` | `[]RetriesWhileLost` | - |

`RleProofs`, for inputs of every length over any set of numbers:

| Theorem | States | Assumes |
|---|---|---|
| `AlwaysRoundTrip` | `[]RoundTrip` | - |
| `AlwaysFits` | `[]FitsBehindHeader` | `Low > 4` |

`ContactAssumption` keeps the dates in 1980 to `LastYear`, at most 2037 (the RTC counts
from 1980, and from 2038 on the product of 32 bits in the code may pass 2^31), and
takes `KEEPALIVE_SECS + MaxBusy + 2 < GW_TIMEOUT_SECS`, as the values of the code are.

### The hypotheses

Each of them leaves out something the firmware does not handle, or the code has not.
* `CalmBoot`: the sensor is ready before the boot count is due and only queries
  arrive while main boots. Without it TLC finds the properties violated: items 10
  and 11 of section 5.
* `Low > 4`: it is 64 in the code, and 6 in the run. With 4, three literals would
  need a command of two bytes, and the bound of `rle.h` would be wrong.

The other theorems have no hypothesis, but four properties have exceptions, which
are part of what they state, and each of which is reached in the runs:
* `IdNamesTemplate` is about slots that are not `unsure`, `CountIsFresh` about times
  that are not `countMissed`;
* `MessageIsWhole` is about messages whose sender did not hurry and that no handler
  wrote into (`FromOneSender` is about those as well), `NeverStale` about messages that no single
  handler has kept the loop from for as long as the clock takes to come round;
* `NoResidue` leaves page 3 of the startup screen out, and names the pages that are
  drawn over another screen when that of an arming was skipped;
* `OneEntryPerLocation` allows the mask of an entry what a power loss leaves.

### The arguments

**FingerNode.** `TypeInv` strengthens the type with which `rpc` goes with which
`job` (`JobInv`) and with what the LED step needs (`LedInv`). `LockInv` says that
a thread at a sensor command, the boot excepted, owns `R503Sem`, and that a
thread in the queue is at the step that waits; `SensorExclusive` alone is not
inductive because it does not say who owns the semaphore. `BootInv` says that
RS485Thread is not on the sensor during a calm boot. `ModeInv` joins the mode,
the last mode and the commanded one with `job`: while an enrollment is served
the last mode is a commanded mode, so going back never restores
`MODE_ENROLLMENT`. `UndisturbedInv` adds that the main thread, once it has been
let pass, does not come back before the handler ends. `BufferInv` follows a
template from the slot through character buffer 1 to `finger[]`: as long as
RS485Thread owns the semaphore the buffer is what it loaded. For the refinement
each action is a step of `TemplateStore` or leaves `lib` and `Request` alone; it
uses `BufferInv`, since a store puts what is in the buffer, not what is asked.

For the count (`FreshInv`) one must add that an enrollment or a push that is
between its store and its end has not asked for the count yet, and that a count
which is asked for, in progress or missed need not be fresh. For the IDs
(`IdsInv`) one needs `BufferInv` again: the template that a push stores is the one
whose ID it writes, though main used the sensor in between; and a slot leaves
`unsure` only when both are written.

**AuthLoop.** `LoopInv` relates the three counters of a held finger. `NoCountInv`:
while no match is counted, `fingerPassed` is at most 0 outside a scan and 1 within
one. `CountInv`: from the first match on there are matched slots, the location is
one of them, and `fingerPassed` counts no more than the scans held since, plus
one. So a report at `FINGER_PASSED` has a match behind it that no earlier report
used up, and as many scans, with a finger or without.

**Multipart.** `AgeInv`: the 16-bit clock differs from the start of the message by
its age, up to one round, and the loop has looked at it since the age passed the
timeout, unless a handler is in the way; if none stays in the way until the age is
`Wrap`, the test in `mpRxCheckTimeout` is exact. `OneSenderInv`: every chunk that is
in the buffer and marked as received is of the sender the reassembly is for, of a
message with as many chunks, and in its place, or was overwritten by a handler. From
it alone follows `FromOneSender`. `LastMessageInv`: what the receiver has of a
sender that has not hurried, in the driver and in the buffer, is all of the message
it sent last. `MessageIsWhole` is not inductive without both, since it speaks of
complete messages only.

**SensorLink.** What a byte is, follows from the packet it was sent in and its place
there. `CutAt(q, t, o, d)`: the queue `q` is the stream `t` after its byte `o`,
with the byte `d` missing and the end cut off. That is all a damaged line, a
full queue and the reads before can have done to it (`DamagedIsCut`, `WholeIsCut`,
`ReceivedIs`), and `NextPacket` is the central lemma: what `R503PacketReceive`
accepts from such a queue is the next packet of the stream, and leaves a queue
that is cut at the one after. A packet with a byte missing ends in a wrong
checksum or start code. `InStep` then says, as long as no packet was bad since a
read timed out, that the queue is what is left of the stream of the command in
progress, and empty between two commands. The stream of a template is given in
closed form, as a function of the index, and its packets are found by division
(`DataPacketAt`), so that no induction is needed.

**Display.** `Shows(p, s, P)`: the pages `p` of the panel show nothing but the screen
`s`. One lemma for each drawing function and one for each screen say which pages
it clears, overwrites or leaves; `DrawnShows` puts them together. `LastInv` follows
one pass of the thread: what it takes for drawn (`last`), or is about to, is the
screen drawn last, unless the pass before was for an arming and skipped; `CleanInv`
says that this screen is all the panel shows, but for the pages that `Allowed`
names. `PassAdds` says which pages a tick and the header touch. `DelayInv` says
that a maximum left of a countdown was left by a delay or a retry.

**PeerSync.** The invariant is `TypeInv /\ FlashInv /\ EntryInv /\ PendingInv`.
What the runs check of the flash is not inductive: while a write is under way one
must know how far it has come. `FlashInv` says that the page is `conf` below `at`
and blank from there on, and that `whole` is then `conf`; without a write, that
every halfword is that of `whole` or blank. So after a power loss the next boot
finds either the version, and takes the page as it is, or none, and sets the
default; in both cases what it runs with has no location twice, which `EntryInv` says
of `whole` as well as of `conf`. A page that ends between the location and the mask
of a new entry has a blank mask, from which the retries take only peers
(`OfPeers`). `PendingInv` follows what is owed through the
power loss: the flash knows it while RAM does not. `Layout` shows that the
halfwords of entries, slots and head do not overlap, for any numbers of them;
`AddedEntry`, `RemovedEntry` and `ClearedEntry` say what each operation does to
the entries and to `Pending`; one lemma per action (`RegisterStep` ...
`CrashStep`) then has one step for each part of the invariant.

**GwContact.** The conversions first. What a loop of the code counts off is in
`Calendar` the size of the set of years or months that are over; `CountIsBound` says
that such a set is a range and its size where the loop stops. `MonthStep` shows
that the function of the months, defined by recursion, is its table (its thirteen
values are the witness, so that no induction is needed), `YearStep` that a year
begins 365 or 366 days after the one before. So a day is in one year and one
month (`OneYear`, `OneMonth`), the ones that are counted (`YearCounted`,
`MonthCounted`), and the conversions undo each other. `SecondPasses` joins them with
the RTC, which knows nothing of them: its next date is the next second.

What the runs check of the contact is not inductive, since it says nothing of the
pings to come. `UntilAsked` and `UntilDone` are bounds on the seconds until the
service thread asks for the next ping and until RS485Thread has sent it: each second
takes one off, and no other step adds to them before the ping is sent. `RegainInv`
then says that the seconds since the last loss and those until the next ping are
together within `Patience`, or contact is young enough; `RetryInv` says the same
of the cadence of the retries, for which `AskInv` follows the one ping that may have
been asked for while the node still was connected. `SampledInv` bounds how old the
clock is that the service thread compares with.

**Rle.** Both functions are recursive, and the induction theorems of the library
take an operator, which the provers cannot instantiate. `Induction` is the same for
a set of numbers: the least number outside it, which `WFMin` provides, would be
in it. With it `CodesExist` and `SaysExist` show that there are functions that
satisfy the recursions, so that `Compress` and `Decompress` do (`CompressIs`,
`DecompressIs`). `Repeats` and `Literals` say what a block is: a run of one byte, or
bytes up to the next run, the end or the limit. `CommandRead`: the count and the
kind of a command are read as written, from one byte or two. `BlockRead`: where a
block begins in the code, the decoder returns what it was made of and goes on
where the next one begins. `DecompressCompress` follows by induction over what is
left of the input. The length needs more than the bound itself (`Fits`): a rest of
one byte takes two, and a rest that begins with a run stays below the bound, which
pays for the one literal that may stand before it. The indices of the code have 16
bits; templates are shorter than that by far.

### Only model-checked

Each inductive invariant was first checked by TLC. (The type of `Multipart` is in no run;
it is proved.) What stays with TLC:

* All liveness and what follows from fairness (`ThreadListens`, `MainLoops`,
  `LossIsFlagged`, `RecoveryIsSeen`, `HoldIsReported`, `SilenceResyncs`,
  `AlarmIsShown`), which is out of the prover's reach. The fairness in a
  specification is not used by any of the proofs.

## 5. Findings and known deviations

Two findings have a run of their own:

1. `enroll_sensor_loss`: the wait for the finger to be lifted (`ohs_func.h:166`)
   never ends on a lost sensor and holds `R503Sem`, so both threads are stuck.
2. `stale_answer`: after a bad start code (`source/R503Packet.c:160`) the driver
   reads the rest of that packet as the next answer. In the trace a byte of a
   12-byte answer is lost: nine of its eleven bytes are read and fail the start
   code, and two stay. With the 16 bytes of the next answer, to a search, they are
   two times nine, on which two more commands fail; then the queue begins with a
   whole packet. So three commands fail, the fourth is told the result of the
   third, and every later one that of the one before. (Over answers of 12 bytes
   alone, reads of nine bytes would not get back into step after eleven.)
   `StaleOnlyAfterBadPacket` shows that emptying the queue on that error and on a
   bad checksum would do.

The others are properties that the modules state and no run checks, because TLC
finds them violated. Each can be seen by putting it into a configuration here, in
the place of the properties there, with the constants named:

3. `IdZeroIsNoTemplate`, in `node_ids.cfg` with `Commands <- SyncCommands` and
   `PowerLoss = FALSE`: the result of `R503DeleteTemplate` and `R503EmptyLibrary` is
   ignored (`ohs_th_rs485.h:520`, `533`). A delete while the sensor is away clears
   the ID, "0 = no template" (`main.c:116`), and the template stays and matches.
4. `CountIsLive`, there too, with `MessagesLost` the only fault: the count is sent
   once and the flag cleared whatever becomes of it (`ohs_th_rs485.h:95`, `390`), so
   the number the gateway shows as live is that from before the change.
   `CountIsFresh` says that only this, a sensor that does not answer, and a store
   that failed half-way make it old.
5. `HeldUnlessArmed`, in `auth_loop.cfg`: `fingerPassed` counts scans, with a finger
   or without, and is reset without one only while nothing has matched
   (`main.c:652`): a finger that is matched and lifted is reported four scans later,
   though the comment at 601 has it depend on the length of the hold.
   `WaitsUnlessArmed` is what holds.
6. `AsSent`, in `multipart.cfg` with `OtherTraffic = FALSE`: a message given up
   half-way and the next one of the same length are put together as one
   (`ohs_multipart.h:81`), as no chunk says which message it belongs to. The retries
   after 200 ms (`ohs_th_rs485.h:282`, `321`) send the same message and do no harm;
   another template of that length does.
7. `AsSent`, there with `Contents <- OneContent` and without the symmetry: the
   replies to 'G' and 'E' are put together in `compressed` (`ohs_th_rs485.h:550`,
   `497`), where the chunks of a message may be (`575`).
8. `GivenUpInTime`, in `multipart.cfg`: after a handler of about 32.8 s an old message
   looks young (`ohs_multipart.h:48`) and the next chunk of that length joins it.
9. `ExitDelayHasItsScreen`, in `display.cfg`: a pass for an arming draws nothing if no
   delay has come yet (`ohs_th_display.h:154`), and no other pass follows it, so an
   exit delay that comes later has "Exit: Ns", its bar and the header drawn over the
   disarmed screen until it is over. The code tells a home arm from an away arm by
   the order of two messages of the gateway, which is not in the repository.
10. `SensorExclusive`, in `node_enroll.cfg` with `SensorReadyFirst = FALSE`:
    `R503Start` (`main.c:371`) uses the sensor without `R503Sem` while RS485Thread
    may send its boot count.
11. `AccessReenabled`, there with `EarlyCommands <- BusyBoot`: `main.c:403`
    overwrites what RS485Thread did to the mode during the boot; after an
    enrollment the node stays in `MODE_ENROLLMENT`.
12. `ReportsWhatMatched`, in `auth_loop.cfg` with `OneMode` and `MaxFaults = 0`: a
    search without a match overwrites the location of an earlier match
    (`source/R503.c:698`), which is then reported.
13. `LedResynced`, there too: the LED is not set again after a disconnection that
    lasted for two LED updates (`main.c:503`, `519`).
14. `IdIsAssigned`, in `peer_sync.cfg`: if power is lost in a write after its first
    halfword, the version, the next boot takes the rest of the page as it is,
    blank. Then the IDs are 0xFFFF, which is neither assigned nor "no template"
    (`main.c:116`), and `conf.reg` is blank, so that a registration matches no
    element (`ohs_th_rs485.h:448`) and is dropped.
15. `EntryHasPeer`, there too: if power is lost between the location of a new entry
    and its mask (`ohs_th_rs485.h:202-203`), the mask is blank. The retries take
    the peers out of it, and the own address and those past the limit stay
    (`211-213`): nothing but a delete of that location or a flush frees the entry.
    `addPendingSync` has one caller, `syncFingerprintToNodes`, and that has none.

Seen while modelling, not stated as properties:

* A delete is forwarded to each peer once, its result is ignored
  (`ohs_th_rs485.h:239`), and it clears the pending table, so a peer that missed
  it keeps the template.
* `syncFingerprintToNodes` and the retry send a header of four bytes
  (`ohs_th_rs485.h:270`), where the receiver expects six (`581`).
* A beacon that steps the clock back by a second, or ahead by the timeout, makes
  the node look offline until the next ping (`ohs_th_rs485.h:417`, `465`). This is
  why `ConnectedIsHeard` is about an unmoved clock only; `RegainsContact` bounds it.
* The startup screen does not clear page 3 after "FP error!"
  (`ohs_th_display.h:336`). In a home arm the header, and the ticks of a countdown left by
  an entry delay or a retry of the link, are drawn over the screen before, or, with
  `dispCountdownMax` left by one, the whole exit screen; `NoResidue` names the pages and
  `HomeArmDrawsNothing` excepts the maximum.
* `lastErrorFlags` and `lastStep` are read again after the screen was drawn
  (`ohs_th_display.h:435`), so a change during the drawing is not shown.
* The examples in `source/rle.c` are not what the code writes: 0x64 (29) is 0x5E, and
  the 0x01 before a literal of one byte (23) is 0x00.

## 6. Not modelled

The parameters read from the R503 at boot; a sensor that answers after more than
10 s; the RS485 driver, which is not in the repository, beyond holding one
message; sounds, blinker, radio and NFC (pure output, or off in the default
build); `searchFinger` and `calculateDST`, which nothing calls. Of the display:
texts, the name of a zone and the enrollment step, writes that fail, and the
decrements of the two counters (`ohs_th_display.h:401`, `413`) as more than one
step. `FingerNode` takes a write of `conf` as one step; `PeerSync` has its steps
and leaves out the library. So a power loss between the two is in `FingerNode`, one
within the write of an ID in `PeerSync`. A template that
does not compress is sent raw (`ohs_th_rs485.h:500`), which `Rle` leaves out.

## 7. Plan

In this order; all are done.

1. `NodeModes`, `NodeState`, `FingerNode`, `TemplateStore` and their proofs.
2. `AuthLoop`.
3. `Multipart`.
4. `SensorLink`.
5. `ConfFlash` and `PeerSync` with their proofs.
6. `Calendar` and `GwContact`.
7. `Ssd1309` and `Display`.
8. `Rle`.
9. Proofs about `FingerNode` (count and IDs), `AuthLoop`, `Multipart`, `SensorLink`
   and `Display`.
10. Proofs about `Calendar` (the two conversions are inverse) and `GwContact`.
11. Proofs about `Rle`.
