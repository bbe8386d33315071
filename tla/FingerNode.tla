---------------------------- MODULE FingerNode -----------------------------
(***************************************************************************)
(* One fingerprint node: the main thread (main.c), which polls the R503     *)
(* sensor for fingers, and RS485Thread (ohs_th_rs485.h), which serves the   *)
(* gateway's commands, several of which use the sensor too.  They share the *)
(* sensor, nodeState and R503Sem.                                           *)
(*                                                                         *)
(* A thread's program counter names the sensor command it has in flight, or *)
(* what it is blocked on; an action is the code from one such point to the  *)
(* next.  Both threads run at NORMALPRIO with no time slice, so these are   *)
(* the points where the scheduler can switch between them.                  *)
(*                                                                         *)
(* A template is a model value and is also the ID the gateway assigned to   *)
(* it; a slot is below FINGERS_SIZE.  charBuf is the sensor's character      *)
(* buffer 1, which both threads use (the others only enrollment does); the   *)
(* images of one enrollment are all of one finger.                           *)
(***************************************************************************)
EXTENDS NodeState, FiniteSets

CONSTANTS
    Slots,              \* template locations of the sensor
    Templates,          \* fingerprint templates
    Live,               \* features of a finger scanned for authentication
    Commands,           \* what the gateway and the peers may send
    EarlyCommands,      \* ... while the main thread is still booting
    FeatureCount,       \* FEATURE_COUNT, images per enrollment
    MaxAttempts,        \* 40 in the code, polls for one image
    LedPeriod,          \* 10 in the code, loops between two LED updates
    SensorReadyFirst,   \* the sensor answers R503Start within the first 3 s
    SensorFaults,       \* a command to the sensor may fail
    SensorDrops,        \* the sensor may be disconnected
    SensorReturns,      \* ... and be connected again
    MessagesLost,       \* a message to the gateway may be lost
    PowerLoss           \* the node may lose power and boot again

Messages ==
    [kind : {"mode"}, mode : CommandedModes]
      \cup [kind : {"enroll", "delete", "peerDelete", "get"}, slot : Slots]
      \cup [kind : {"push"}, slot : Slots, tmpl : Templates]
      \cup [kind : {"flush", "query"}]

Contents == Templates \cup {None}

ASSUME ConstantsAssumption ==
    /\ Commands \subseteq Messages
    /\ EarlyCommands \subseteq Messages
    /\ FeatureCount \in Nat \ {0}
    /\ MaxAttempts \in Nat \ {0}
    /\ LedPeriod \in Nat \ {0}
    /\ {SensorReadyFirst, SensorFaults, SensorDrops, SensorReturns,
        MessagesLost, PowerLoss} \subseteq BOOLEAN
    /\ IsFiniteSet(Slots)
    /\ None \notin Templates \cup Messages \cup Threads \cup Nat
    /\ Live \notin Contents

VARIABLES
    mpc,          \* main thread: where it is
    count,        \* main thread: loops until the next LED update
    gwSeen,       \* lastGwContact # 0
    rpc,          \* RS485Thread: where it is
    job,          \* RS485Thread: the operation it is serving
    slot,         \* ... the template location it is about
    tmpl,         \* ... the finger being enrolled, or finger[]
    image,        \* ... enrollFinger's i
    attempts,     \* ... enrollFinger's attempts
    inbox,        \* the one received message the RS485 driver can hold
    bootTimer,    \* 3 s have passed since RS485Thread started
    bootCountSent, countPushPending, idTablePushPending,
    fpId,         \* conf.fpId, the gateway's ID for the template of each slot
    reported,     \* the last template count sent to the gateway
    lib,          \* the sensor's library (survives a power loss)
    charBuf,      \* the sensor's character buffer 1
    sensorUp,     \* the sensor is connected
    commanded,    \* history: the mode the gateway last commanded
    countMissed,  \* history: the gateway was not told of a change
    unsure        \* history: slots whose last change was an enrollment, failed
                  \* or was cut by a power loss

stateVars  == <<mode, lastMode>>
semVars    == <<holder, waiting>>
mainVars   == <<mpc, count>>
jobVars    == <<rpc, job, slot, tmpl, image, attempts>>
flagVars   == <<bootCountSent, countPushPending, idTablePushPending>>
reportVars == <<reported, fpId, countMissed, unsure>>
sensorVars == <<lib, charBuf>>
worldVars  == <<bootTimer, sensorUp>>
\* What the main thread leaves alone, and what a job of RS485Thread does.
mainFrame  == <<jobVars, flagVars, reportVars, lib, worldVars, inbox, gwSeen,
                commanded>>
jobFrame   == <<mainVars, worldVars, inbox, gwSeen, commanded>>
vars == <<stateVars, semVars, mainVars, jobVars, flagVars, reportVars,
          sensorVars, worldVars, inbox, gwSeen, commanded>>

----------------------------------------------------------------------------
MainPcs == {"start", "startsleep", "contact", "top",
            "ledwait", "led", "scanwait", "scan", "match"}
RsPcs == {"wait", "acquire", "count", "tail", "capture", "lift", "create",
          "store", "drain", "load", "fetch", "send", "fill", "erase",
          "forward"}
Jobs == {"none", "bootcount", "count", "enroll", "upload", "get", "push",
         "delete", "peerDelete", "flush"}

\* Where a thread has a command to the sensor in flight.
MainOnSensor == {"start", "led", "scan", "match"}
RsOnSensor == {"count", "capture", "lift", "create", "store", "drain", "load",
               "fetch", "fill", "erase"}

\* RS485Thread is inside a handler that put the node in MODE_ENROLLMENT.
Enrolling == job \in {"enroll", "upload", "push"}

Booted == mpc \notin {"start", "startsleep", "contact"}

TemplateCount == Cardinality({s \in Slots : lib[s] # None})

ModesTyped ==
    mode \in Modes /\ lastMode \in Modes /\ commanded \in CommandedModes

SemTyped == holder \in Threads \cup {None} /\ waiting \subseteq Threads

MainTyped == mpc \in MainPcs /\ count \in -1 .. LedPeriod

JobTyped ==
    /\ rpc \in RsPcs /\ job \in Jobs
    /\ slot \in Slots \cup {None} /\ tmpl \in Contents \cup {Live}
    /\ image \in 0 .. FeatureCount /\ attempts \in 0 .. MaxAttempts

FlagsTyped ==
    /\ inbox \in Messages \cup {None}
    /\ gwSeen \in BOOLEAN /\ bootTimer \in BOOLEAN /\ sensorUp \in BOOLEAN
    /\ bootCountSent \in BOOLEAN /\ countPushPending \in BOOLEAN
    /\ idTablePushPending \in BOOLEAN

StoreTyped ==
    /\ fpId \in [Slots -> Contents]
    /\ reported \in Nat \cup {None}
    /\ lib \in [Slots -> Contents \cup {Live}]
    /\ charBuf \in Contents \cup {Live}
    /\ countMissed \in BOOLEAN /\ unsure \subseteq Slots

TypeOK ==
    ModesTyped /\ SemTyped /\ MainTyped /\ JobTyped /\ FlagsTyped /\ StoreTyped

----------------------------------------------------------------------------
\* Power-on: main() starts the threads, then R503Start; RS485Thread finds no
\* pending sync (nothing in the firmware adds one) and enters its loop.
Init ==
    /\ mode = MODE_UNINITIALIZED /\ lastMode = MODE_UNINITIALIZED
    /\ SemInit
    /\ mpc = "start" /\ count = -1 /\ gwSeen = FALSE
    /\ rpc = "wait" /\ job = "none" /\ slot = None /\ tmpl = None
    /\ image = 0 /\ attempts = 0 /\ inbox = None /\ bootTimer = FALSE
    /\ bootCountSent = FALSE /\ countPushPending = FALSE
    /\ idTablePushPending = FALSE /\ commanded = MODE_DISARMED
    /\ charBuf = None
    /\ fpId = [s \in Slots |-> None] /\ reported = None
    /\ lib = [s \in Slots |-> None] /\ sensorUp = TRUE
    /\ countMissed = FALSE /\ unsure = {}

----------------------------------------------------------------------------
(* The sensor: a command succeeds or returns an error code.  One that fails *)
(* on a connected sensor may still have had its effect: only the reply was  *)
(* lost.                                                                    *)
Succeeds == sensorUp
Fails    == ~sensorUp \/ SensorFaults

\* A command that changes the library, failing.
LibAfterFailure(effect) ==
    \/ UNCHANGED lib
    \/ sensorUp /\ lib' = effect

Stored == [lib EXCEPT ![slot] = charBuf]
Erased == [s \in Slots |-> IF job = "flush" \/ s = slot THEN None ELSE lib[s]]

\* The slots that the change of the library being made is about.
Target == IF job = "flush" THEN Slots ELSE {slot}

\* Mutant: a push stores its template and not its ID.
IdsWithoutPush == fpId

IdsWithPush == [fpId EXCEPT ![slot] = tmpl]

\* Mutant: a delete leaves conf.fpId alone.
IdsKept == fpId

IdsErased ==
    [s \in Slots |-> IF job = "flush" \/ s = slot THEN None ELSE fpId[s]]

\* Mutant: a change of the library asks for no new count.
NoCountAsked == UNCHANGED countPushPending

AskForCount == countPushPending' = TRUE

----------------------------------------------------------------------------
(* The main thread.                                                         *)
StartOk ==
    /\ mpc = "start" /\ Succeeds
    /\ mpc' = "contact"
    /\ UNCHANGED <<stateVars, semVars, count, charBuf, mainFrame>>

StartFails ==
    /\ mpc = "start" /\ Fails
    /\ mpc' = "startsleep"
    /\ UNCHANGED <<stateVars, semVars, count, charBuf, mainFrame>>

StartAgain ==
    /\ mpc = "startsleep" /\ mpc' = "start"
    /\ UNCHANGED <<stateVars, semVars, count, charBuf, mainFrame>>

\* The wait for the gateway ends, the node enters its first mode.
EnterLoop ==
    /\ mpc = "contact" /\ gwSeen
    /\ SetNodeMode(MODE_DISARMED)
    /\ mpc' = "top" /\ count' = -1
    /\ UNCHANGED <<semVars, charBuf, mainFrame>>

\* Mutant: the counter is not set again.
CountDownOnly == count - 1

NextCount == IF count > 0 THEN count - 1 ELSE LedPeriod

\* An iteration that does not update the LED: on to the scan if authentication
\* is allowed, else the next iteration.
LoopNoLed ==
    /\ mpc = "top" /\ count # 0
    /\ count' = NextCount
    /\ \/ IsAuthAllowed /\ SemTake("main") /\ mpc' = "scan"
       \/ IsAuthAllowed /\ SemQueue("main") /\ mpc' = "scanwait"
       \/ ~IsAuthAllowed /\ UNCHANGED <<mpc, semVars>>
    /\ UNCHANGED <<stateVars, charBuf, mainFrame>>

LoopLedQueues ==
    /\ mpc = "top" /\ count = 0
    /\ mpc' = "ledwait" /\ SemQueue("main")
    /\ UNCHANGED <<stateVars, count, charBuf, mainFrame>>

\* With the semaphore: R503SetAuraLED for the mode, or R503CheckSensor if
\* nothing changed.
LedStart ==
    /\ \/ mpc = "top" /\ count = 0 /\ SemTake("main")
       \/ mpc = "ledwait" /\ holder = "main" /\ UNCHANGED semVars
    /\ mpc' = "led"
    /\ UNCHANGED <<stateVars, count, charBuf, mainFrame>>

\* After the LED block: signal, count--, and the authentication check.
AfterLed ==
    /\ count' = count - 1
    /\ \/ IsAuthAllowed /\ SemKeep /\ mpc' = "scan"
       \/ IsAuthAllowed /\ SemYield("main") /\ mpc' = "scanwait"
       \/ ~IsAuthAllowed /\ SemSignal /\ mpc' = "top"

\* The mode changed to one the switch has no case for: no command at all.
LedSkip ==
    /\ mode = MODE_ENROLLMENT
    /\ \/ mpc = "ledwait" /\ holder = "main" /\ AfterLed
       \/ mpc = "top" /\ count = 0 /\ holder = None
          /\ count' = -1 /\ UNCHANGED <<mpc, semVars>>
    /\ UNCHANGED <<stateVars, charBuf, mainFrame>>

LedDone ==
    /\ mpc = "led" /\ AfterLed
    /\ UNCHANGED <<stateVars, charBuf, mainFrame>>

ScanResume ==
    /\ mpc = "scanwait" /\ holder = "main"
    /\ mpc' = "scan"
    /\ UNCHANGED <<stateVars, semVars, count, charBuf, mainFrame>>

\* No image, or no finger is due yet: on with the next iteration.
ScanNoFinger ==
    /\ mpc = "scan"
    /\ mpc' = "top" /\ SemSignal
    /\ UNCHANGED <<stateVars, count, charBuf, mainFrame>>

ScanFinger ==
    /\ mpc = "scan" /\ Succeeds
    /\ mpc' = "match"
    /\ UNCHANGED <<stateVars, semVars, count, charBuf, mainFrame>>

\* Extract the features into character buffer 1, search, light the LED.
MatchDone ==
    /\ mpc = "match"
    /\ \/ Succeeds /\ charBuf' = Live
       \/ Fails /\ UNCHANGED charBuf
    /\ mpc' = "top" /\ SemSignal
    /\ UNCHANGED <<stateVars, count, mainFrame>>

MainNext ==
    \/ StartOk \/ StartFails \/ StartAgain \/ EnterLoop
    \/ LoopNoLed \/ LoopLedQueues \/ LedStart \/ LedSkip \/ LedDone
    \/ ScanResume \/ ScanNoFinger \/ ScanFinger \/ MatchDone

----------------------------------------------------------------------------
(* RS485Thread.                                                             *)
\* Back to chEvtWaitAnyTimeout.
Return ==
    /\ rpc' = "wait" /\ job' = "none"
    /\ slot' = None /\ tmpl' = None /\ image' = 0 /\ attempts' = 0

\* The first sensor command of each operation.
FirstStep(j) ==
    CASE j \in {"bootcount", "count"} -> "count"
      [] j = "enroll" -> "capture"
      [] j = "upload" -> "drain"
      [] j = "get" -> "load"
      [] j = "push" -> "fill"
      [] OTHER -> "erase"

\* Mutant: without chBSemWait.
StartJobUnlocked(j, s, t) ==
    /\ job' = j /\ slot' = s /\ tmpl' = t /\ image' = 1 /\ attempts' = 0
    /\ rpc' = FirstStep(j) /\ UNCHANGED semVars

\* The handler of a sensor operation starts by taking R503Sem.
StartJob(j, s, t) ==
    /\ job' = j /\ slot' = s /\ tmpl' = t /\ image' = 1 /\ attempts' = 0
    /\ \/ SemTake("rs485") /\ rpc' = FirstStep(j)
       \/ SemQueue("rs485") /\ rpc' = "acquire"

GoTo(pc) == rpc' = pc /\ UNCHANGED <<job, slot, tmpl, image, attempts>>

\* A message is taken from the driver; a peer's delete is the only one that
\* does not come from the gateway.
Take(m) ==
    /\ rpc = "wait" /\ inbox = m /\ inbox' = None
    /\ gwSeen' = (gwSeen \/ m.kind # "peerDelete")

HandleMode(m) ==
    /\ Take(m) /\ m.kind = "mode"
    /\ SetNodeMode(m.mode) /\ commanded' = m.mode
    /\ UNCHANGED <<semVars, mainVars, jobVars, flagVars, reportVars,
                   sensorVars, worldVars>>

\* The finger on the sensor during the enrollment is the user's choice.
HandleEnroll(m) ==
    /\ Take(m) /\ m.kind = "enroll"
    /\ SetNodeMode(MODE_ENROLLMENT)
    /\ \E t \in Templates : StartJob("enroll", m.slot, t)
    /\ UNCHANGED <<mainVars, flagVars, reportVars, sensorVars, worldVars,
                   commanded>>

HandlePush(m) ==
    /\ Take(m) /\ m.kind = "push"
    /\ SetNodeMode(MODE_ENROLLMENT)
    /\ StartJob("push", m.slot, m.tmpl)
    /\ UNCHANGED <<mainVars, flagVars, reportVars, sensorVars, worldVars,
                   commanded>>

HandleSlot(m) ==
    /\ Take(m) /\ m.kind \in {"delete", "peerDelete", "get"}
    /\ StartJob(m.kind, m.slot, tmpl)
    /\ UNCHANGED <<stateVars, mainVars, flagVars, reportVars, sensorVars,
                   worldVars, commanded>>

HandleFlush(m) ==
    /\ Take(m) /\ m.kind = "flush"
    /\ StartJob("flush", None, tmpl)
    /\ UNCHANGED <<stateVars, mainVars, flagVars, reportVars, sensorVars,
                   worldVars, commanded>>

HandleQuery(m) ==
    /\ Take(m) /\ m.kind = "query"
    /\ idTablePushPending' = TRUE
    /\ UNCHANGED <<stateVars, semVars, mainVars, jobVars, bootCountSent,
                   countPushPending, reportVars, sensorVars, worldVars,
                   commanded>>

\* An idle tick: the boot count once 3 s have passed, else a pending count.
IdleCount ==
    /\ rpc = "wait" /\ inbox = None
    /\ \/ ~bootCountSent /\ bootTimer /\ StartJob("bootcount", None, tmpl)
       \/ /\ bootCountSent \/ ~bootTimer
          /\ countPushPending /\ StartJob("count", None, tmpl)
    /\ UNCHANGED <<stateVars, flagVars, reportVars, sensorVars, jobFrame>>

\* An idle tick with no count to send: straight to the ID table.
IdleIds ==
    /\ rpc = "wait" /\ inbox = None /\ idTablePushPending
    /\ bootCountSent \/ ~bootTimer
    /\ ~countPushPending
    /\ GoTo("tail")
    /\ UNCHANGED <<stateVars, semVars, flagVars, reportVars, sensorVars,
                   jobFrame>>

\* The end of an idle tick: sendIdTableToGateway if it is pending.
IdleTail ==
    /\ rpc = "tail"
    /\ idTablePushPending' = FALSE
    /\ Return
    /\ UNCHANGED <<stateVars, semVars, bootCountSent, countPushPending,
                   reportVars, sensorVars, jobFrame>>

Acquire ==
    /\ rpc = "acquire" /\ holder = "rs485"
    /\ GoTo(FirstStep(job))
    /\ UNCHANGED <<stateVars, semVars, flagVars, reportVars, sensorVars,
                   jobFrame>>

\* sendTemplateCountToGateway: rs485SendMsgWithACK's result is ignored, and if the
\* sensor does not answer nothing is sent, or a number of no meaning is:
\* R503GetValidTemplateCount returns the first byte of the last reply, which after
\* a timeout is the code of an earlier command, and count is uninitialised.
SendCount ==
    \/ Succeeds /\ reported' = TemplateCount /\ countMissed' = FALSE
    \/ Succeeds /\ MessagesLost /\ UNCHANGED reported /\ countMissed' = TRUE
    \/ /\ Fails /\ reported' \in {reported} \cup 0 .. Cardinality(Slots)
       /\ countMissed' = TRUE

\* The flag is cleared whatever the outcome.
CountDone ==
    /\ rpc = "count" /\ SendCount
    /\ bootCountSent' = (bootCountSent \/ job = "bootcount")
    /\ countPushPending' = (countPushPending /\ job = "bootcount")
    /\ SemSignal /\ GoTo("tail")
    /\ UNCHANGED <<stateVars, idTablePushPending, fpId, unsure, sensorVars,
                   jobFrame>>

----------------------------------------------------------------------------
(* enrollFinger and the upload that follows it.                             *)
\* No finger, or an image or features the sensor rejects: try again.
CaptureMiss ==
    /\ rpc = "capture" /\ attempts < MaxAttempts
    /\ attempts' = attempts + 1
    /\ UNCHANGED <<stateVars, semVars, rpc, job, slot, tmpl, image, flagVars,
                   reportVars, sensorVars, jobFrame>>

\* The features of image i go to character buffer i.
CaptureOk ==
    /\ rpc = "capture" /\ attempts < MaxAttempts /\ Succeeds
    /\ charBuf' = IF image = 1 THEN tmpl ELSE charBuf
    /\ GoTo("lift")
    /\ UNCHANGED <<stateVars, semVars, flagVars, reportVars, lib, jobFrame>>

\* The finger is off: R503TakeImage returned R503_NO_FINGER.  Until it does,
\* the thread polls for ever.
FingerLifted ==
    /\ rpc = "lift" /\ Succeeds
    /\ \/ image = FeatureCount /\ GoTo("create")
       \/ /\ image < FeatureCount
          /\ image' = image + 1 /\ attempts' = 0 /\ rpc' = "capture"
          /\ UNCHANGED <<job, slot, tmpl>>
    /\ UNCHANGED <<stateVars, semVars, flagVars, reportVars, sensorVars,
                   jobFrame>>

\* The template goes to buffer 1.  A sensor that was lost in between has only the
\* features of the later images, or none: it may do with them or not.
CreateDone ==
    /\ rpc = "create" /\ Succeeds /\ GoTo("store")
    /\ charBuf' = IF charBuf = None THEN tmpl ELSE charBuf
    /\ UNCHANGED <<stateVars, semVars, flagVars, reportVars, lib, jobFrame>>

\* The timeout of the capture loop, and a template that cannot be created.
EnrollFails ==
    /\ \/ rpc = "capture" /\ attempts = MaxAttempts
       \/ rpc = "create" /\ (Fails \/ charBuf = None)
    /\ SemSignal /\ SetLastNodeMode /\ Return
    /\ UNCHANGED <<flagVars, reportVars, sensorVars, jobFrame>>

\* enrollFinger returns R503_OK, still in MODE_ENROLLMENT, and its caller takes
\* the semaphore again.
EnrollStored ==
    /\ rpc = "store" /\ job = "enroll" /\ Succeeds
    /\ lib' = Stored
    /\ \/ SemKeep /\ rpc' = "drain"
       \/ SemYield("rs485") /\ rpc' = "acquire"
    /\ job' = "upload" /\ UNCHANGED <<slot, tmpl, image, attempts>>
    /\ unsure' = unsure \cup {slot}
    /\ UNCHANGED <<stateVars, flagVars, reported, fpId, countMissed, charBuf,
                   jobFrame>>

\* R503StoreTemplate failed, for enrollFinger or for uploadTemplate: no count is
\* asked for, no ID is written.
StoreFails ==
    /\ rpc = "store" /\ Fails
    /\ LibAfterFailure(Stored)
    /\ unsure' = unsure \cup {slot}
    /\ countMissed' = (countMissed \/ lib' # lib)
    /\ SemSignal /\ SetLastNodeMode /\ Return
    /\ UNCHANGED <<flagVars, reported, fpId, charBuf, jobFrame>>

\* The LED command is done; a message that arrived during the enrollment is
\* read and dropped, so that the driver can send.
Drain ==
    /\ rpc = "drain"
    /\ inbox' = None /\ GoTo("load")
    /\ UNCHANGED <<stateVars, semVars, mainVars, flagVars, reportVars,
                   sensorVars, worldVars, gwSeen, commanded>>

----------------------------------------------------------------------------
(* downloadTemplate, for the upload after an enrollment and for 'F' 'G'.    *)
\* Mutant: the template that was just stored is taken to be in the buffer still.
LoadSkipped ==
    /\ rpc = "load" /\ Succeeds /\ lib[slot] # None /\ GoTo("fetch")
    /\ UNCHANGED <<stateVars, semVars, flagVars, reportVars, sensorVars,
                   jobFrame>>

LoadDone ==
    /\ rpc = "load" /\ Succeeds /\ lib[slot] # None
    /\ charBuf' = lib[slot] /\ GoTo("fetch")
    /\ UNCHANGED <<stateVars, semVars, flagVars, reportVars, lib, jobFrame>>

\* 'G' gives the sensor back before it sends, the upload only after.
FetchDone ==
    /\ rpc = "fetch" /\ Succeeds
    /\ tmpl' = charBuf /\ rpc' = "send"
    /\ \/ job = "get" /\ SemSignal
       \/ job = "upload" /\ UNCHANGED semVars
    /\ UNCHANGED <<stateVars, job, slot, image, attempts, flagVars, reportVars,
                   sensorVars, jobFrame>>

\* Mutant: the 'E' handler keeps the semaphore.
EndUploadHolding ==
    UNCHANGED semVars /\ SetLastNodeMode /\ AskForCount /\ Return

\* Mutant: it asks for no count.
EndUploadQuiet ==
    SemSignal /\ SetLastNodeMode /\ UNCHANGED countPushPending /\ Return

\* The end of the 'E' handler, whether or not the upload worked.
EndUpload ==
    /\ SemSignal /\ SetLastNodeMode /\ countPushPending' = TRUE /\ Return

DownloadFails ==
    /\ \/ rpc = "load" /\ (Fails \/ lib[slot] = None)
       \/ rpc = "fetch" /\ Fails
    /\ \/ job = "get" /\ SemSignal /\ Return
          /\ UNCHANGED <<stateVars, countPushPending>>
       \/ job = "upload" /\ EndUpload
    /\ UNCHANGED <<bootCountSent, idTablePushPending, reportVars, sensorVars,
                   jobFrame>>

SendDone ==
    /\ rpc = "send"
    /\ \/ job = "get" /\ Return
          /\ UNCHANGED <<stateVars, semVars, countPushPending>>
       \/ job = "upload" /\ EndUpload
    /\ UNCHANGED <<bootCountSent, idTablePushPending, reportVars, sensorVars,
                   jobFrame>>

----------------------------------------------------------------------------
(* A pushed template: uploadTemplate, then its ID.                          *)
FillDone ==
    /\ rpc = "fill" /\ Succeeds
    /\ charBuf' = tmpl /\ GoTo("store")
    /\ UNCHANGED <<stateVars, semVars, flagVars, reportVars, lib, jobFrame>>

FillFails ==
    /\ rpc = "fill" /\ Fails
    /\ SemSignal /\ SetLastNodeMode /\ Return
    /\ UNCHANGED <<flagVars, reportVars, sensorVars, jobFrame>>

PushStored ==
    /\ rpc = "store" /\ job = "push" /\ Succeeds
    /\ lib' = Stored
    /\ fpId' = IdsWithPush /\ AskForCount
    /\ unsure' = unsure \ {slot}
    /\ SemSignal /\ SetLastNodeMode /\ Return
    /\ UNCHANGED <<bootCountSent, idTablePushPending, reported, countMissed,
                   charBuf, jobFrame>>

(* Delete and flush; the sensor's answer is ignored.                        *)
EraseDone ==
    /\ rpc = "erase"
    /\ \/ Succeeds /\ lib' = Erased /\ unsure' = unsure \ Target
       \/ Fails /\ LibAfterFailure(Erased) /\ unsure' = unsure \cup Target
    /\ fpId' = IdsErased /\ AskForCount
    /\ SemSignal
    /\ \/ job = "delete" /\ GoTo("forward")
       \/ job # "delete" /\ Return
    /\ UNCHANGED <<stateVars, bootCountSent, idTablePushPending, reported,
                   countMissed, charBuf, jobFrame>>

\* syncDeleteToNodes: before each of its sends it drops a received message.
ForwardDelete ==
    /\ rpc = "forward"
    /\ inbox' \in {inbox, None}
    /\ Return
    /\ UNCHANGED <<stateVars, semVars, mainVars, flagVars, reportVars,
                   sensorVars, worldVars, gwSeen, commanded>>

Handle ==
    \E m \in Messages :
        \/ HandleMode(m) \/ HandleEnroll(m) \/ HandlePush(m) \/ HandleSlot(m)
        \/ HandleFlush(m) \/ HandleQuery(m)

RsNext ==
    \/ Handle
    \/ IdleCount \/ IdleIds \/ IdleTail \/ Acquire \/ CountDone
    \/ CaptureMiss \/ CaptureOk \/ FingerLifted \/ CreateDone \/ EnrollFails
    \/ EnrollStored \/ StoreFails \/ Drain \/ LoadDone \/ FetchDone
    \/ DownloadFails \/ SendDone \/ FillDone \/ FillFails \/ PushStored
    \/ EraseDone \/ ForwardDelete

----------------------------------------------------------------------------
(* The world around the node.                                               *)
Deliver ==
    /\ inbox = None
    /\ inbox' \in IF Booted THEN Commands ELSE EarlyCommands
    /\ UNCHANGED <<stateVars, semVars, mainVars, jobVars, flagVars, reportVars,
                   sensorVars, worldVars, gwSeen, commanded>>

ThreeSeconds ==
    /\ ~bootTimer /\ bootTimer' = TRUE
    /\ SensorReadyFirst => mpc \notin {"start", "startsleep"}
    /\ UNCHANGED <<stateVars, semVars, mainVars, jobVars, flagVars, reportVars,
                   sensorVars, sensorUp, inbox, gwSeen, commanded>>

\* A command in flight fails.
SensorLost ==
    /\ SensorDrops /\ sensorUp /\ sensorUp' = FALSE
    /\ UNCHANGED <<stateVars, semVars, mainVars, jobVars, flagVars, reportVars,
                   sensorVars, bootTimer, inbox, gwSeen, commanded>>

\* The sensor is connected again, with what was in its buffer or without ("the
\* sensor's own hardware state is lost across a disconnect", main.c:521).  Not
\* before a command that follows the one before at once, and needs what that left
\* in the sensor, has failed.
SensorFound ==
    /\ SensorReturns /\ ~sensorUp /\ sensorUp' = TRUE
    /\ rpc \notin {"create", "store", "fetch"}
    /\ charBuf' \in {charBuf, None}
    /\ UNCHANGED <<stateVars, semVars, mainVars, jobVars, flagVars, reportVars,
                   lib, bootTimer, inbox, gwSeen, commanded>>

\* A library command in flight is carried out or not.
PowerCycle ==
    /\ PowerLoss
    /\ mode' = MODE_UNINITIALIZED /\ lastMode' = MODE_UNINITIALIZED
    /\ holder' = None /\ waiting' = {}
    /\ mpc' = "start" /\ count' = -1 /\ gwSeen' = FALSE
    /\ Return /\ inbox' = None /\ bootTimer' = FALSE
    /\ bootCountSent' = FALSE /\ countPushPending' = FALSE
    /\ idTablePushPending' = FALSE /\ commanded' = MODE_DISARMED
    /\ charBuf' = None
    /\ \/ UNCHANGED lib
       \/ sensorUp /\ rpc = "store" /\ lib' = Stored
       \/ sensorUp /\ rpc = "erase" /\ lib' = Erased
    /\ unsure' = IF rpc \in {"store", "erase"} THEN unsure \cup Target
                                               ELSE unsure
    /\ UNCHANGED <<reported, fpId, countMissed, sensorUp>>

Environment ==
    Deliver \/ ThreeSeconds \/ SensorLost \/ SensorFound \/ PowerCycle

Next == MainNext \/ RsNext \/ Environment

Spec == Init /\ [][Next]_vars

\* Both threads keep running (neither is starved: equal priority, and every
\* loop of either sleeps), time passes, and a finger is lifted in the end.
Fairness == WF_vars(MainNext) /\ WF_vars(RsNext) /\ WF_vars(ThreeSeconds)

FairSpec == Spec /\ Fairness

----------------------------------------------------------------------------
(* Properties.                                                              *)

\* R503Sem does its work: the two threads never have commands to the sensor in
\* flight at the same time, so no reply can be taken for another's and no
\* character buffer is overwritten under its user (main.c:577, ohs_func.h:115).
SensorExclusive == ~(mpc \in MainOnSensor /\ rpc \in RsOnSensor)

\* The node is in MODE_ENROLLMENT exactly while RS485Thread serves an
\* enrollment or a push: no outcome, timeout or sensor error, leaves it there
\* ("re-enable main loop R503 access", ohs_th_rs485.h:513 and 605).
EnrollModeIffServing == Booted => (mode = MODE_ENROLLMENT <=> Enrolling)

\* When a handler is done the main loop has its access to the sensor back.  No
\* run checks it: it fails if an enrollment arrives during the boot (README,
\* section 5).
AccessReenabled == Booted /\ rpc = "wait" => mode # MODE_ENROLLMENT

\* The mode the node is in, or goes back to after an enrollment, is the one the
\* gateway commanded last: setLastNodeMode never restores an older one.
ModeIsCommanded ==
    Booted => commanded = IF mode = MODE_ENROLLMENT THEN lastMode ELSE mode

\* From the first image of an enrollment to the end of its upload, also while
\* the semaphore is handed over in between, the main loop neither scans for
\* authentication nor is about to (ohs_func.h:206).
EnrollmentUndisturbed ==
    Enrolling /\ (rpc # "acquire" \/ job = "upload")
        => mpc \notin {"scanwait", "scan", "match"}

\* A template on its way to the gateway or a peer is the one in the slot it is
\* labelled with, whatever ran between the store, the load and the fetch.
SendsWhatIsStored == rpc = "send" => tmpl = lib[slot]

\* The change of the library RS485Thread is making.
Request ==
    CASE job \in {"enroll", "push"} ->
             [op |-> "put", slot |-> slot, tmpl |-> tmpl]
      [] job \in {"delete", "peerDelete"} /\ rpc # "forward" ->
             [op |-> "delete", slot |-> slot]
      [] job = "flush" -> [op |-> "flush"]
      [] OTHER -> None

\* The library changes only as the requests the node was sent ask, whichever
\* command of a request fails and wherever the power is lost.
Library == INSTANCE TemplateStore WITH store <- lib, request <- Request

LibraryRefined == Library!Spec

\* conf.fpId and the library agree on every slot, the empty ones included: an ID
\* is that of the template in its slot, and 0 means no template.  They come apart
\* only in a slot whose last change was an enrollment, which writes no ID, failed,
\* or was cut by a power loss before the ID was written (ohs_th_rs485.h:484, 520,
\* 591); a push or a delete that succeeds brings them together again.
IdNamesTemplate == \A s \in Slots \ unsure : fpId[s] = lib[s]

\* "0 = no template" (main.c:116), for a node on which no finger is enrolled: when
\* no operation is going on, a slot without an ID holds no template.  No run
\* checks it: it fails after a delete that the sensor did not carry out (README,
\* section 5).
IdZeroIsNoTemplate ==
    rpc = "wait" => \A s \in Slots : fpId[s] = None => lib[s] = None

\* When RS485Thread has nothing left to send, the count it last reported to the
\* gateway is the number of templates in the sensor, whatever came between the
\* change and the idle tick and whichever of its two flags made it send.  It is
\* not so only from a count that could not be read or did not arrive, or a store
\* reported as failed that was carried out, to the next count that arrives
\* (ohs_th_rs485.h:84-95, 385-391).
CountIsFresh ==
    rpc = "wait" /\ bootCountSent /\ ~countPushPending /\ ~countMissed
        => reported = TemplateCount

\* "So the Fingerprints page can show live sensor status without needing to query
\* a node on demand" (ohs_th_rs485.h:79-80): with nothing left to send, the count
\* that the gateway was last told is that of the templates in the sensor.  No run
\* checks it: it fails after a count whose message is lost (README, section 5).
CountIsLive ==
    rpc = "wait" /\ bootCountSent /\ ~countPushPending /\ reported # None
        => reported = TemplateCount

\* RS485Thread always comes back to listen to the bus.
ThreadListens == []<>(rpc = "wait")

\* The main loop always comes round again: an operation of RS485Thread, or a
\* series of them, cannot keep the sensor from it for ever.
MainLoops == [](Booted => <>(mpc = "top"))

============================================================================
