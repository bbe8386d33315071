-------------------------- MODULE FingerNodeProofs --------------------------
(***************************************************************************)
(* Theorems about FingerNode, for every value of its constants: it is type  *)
(* correct; R503Sem keeps the two threads' sensor commands apart; the node  *)
(* is in MODE_ENROLLMENT exactly while a handler needs it, and goes back to *)
(* the mode the gateway commanded; what is sent is what is stored; the      *)
(* library changes only as TemplateStore says; and the count and the IDs    *)
(* that the gateway has of it are those of the templates.                  *)
(***************************************************************************)
EXTENDS FingerNode, TLAPS, FiniteSetTheorems

USE DEF Threads, Modes, CommandedModes, MODE_UNINITIALIZED, MODE_ENROLLMENT,
        MODE_ARMING, MODE_DISARMED, MODE_ARMED_HOME,
        MainPcs, RsPcs, Jobs, Contents,
        vars, stateVars, semVars, mainVars, jobVars, flagVars, reportVars,
        sensorVars, worldVars, mainFrame, jobFrame,
        SetNodeMode, SetLastNodeMode, SemTake, SemQueue, SemSignal, SemKeep,
        SemYield, GoTo, Return, Take, IsAuthAllowed, NextCount,
        IdsErased, IdsWithPush, AskForCount, SendCount, Target

----------------------------------------------------------------------------
\* What a message of each kind carries.
LEMMA MessageFields ==
    \A m \in Messages :
        /\ m.kind = "mode" => m.mode \in CommandedModes
        /\ m.kind \in {"enroll", "delete", "peerDelete", "get", "push"}
             => m.slot \in Slots
        /\ m.kind = "push" => m.tmpl \in Templates
BY DEF Messages

\* Template counts are numbers.
LEMMA CountsAreNaturals ==
    TypeOK => TemplateCount \in Nat /\ Cardinality(Slots) \in Nat
<1> IsFiniteSet(Slots)
  BY ConstantsAssumption
<1> IsFiniteSet({s \in Slots : lib[s] # None})
  BY FS_Subset, {s \in Slots : lib[s] # None} \subseteq Slots
<1> QED
  BY FS_CardinalityType DEF TemplateCount

----------------------------------------------------------------------------
(* Type correctness.                                                        *)

\* The operation RS485Thread serves at each point, and what it is about.
JobInv ==
    /\ rpc = "wait" => job = "none"
    /\ rpc = "acquire" => job # "none"
    /\ rpc = "count" => job \in {"bootcount", "count"}
    /\ rpc = "tail" => job \in {"none", "bootcount", "count"}
    /\ rpc \in {"capture", "lift", "create"} => job = "enroll"
    /\ rpc = "store" => job \in {"enroll", "push"}
    /\ rpc = "drain" => job = "upload"
    /\ rpc \in {"load", "fetch", "send"} => job \in {"get", "upload"}
    /\ rpc = "fill" => job = "push"
    /\ rpc = "erase" => job \in {"delete", "peerDelete", "flush"}
    /\ rpc = "forward" => job = "delete"
    /\ job \in {"enroll", "upload", "push", "get", "delete", "peerDelete"}
         => slot \in Slots
    /\ job \in {"enroll", "push"} => tmpl \in Templates

\* The LED block is entered with the counter at 0 and decrements it once.
LedInv == mpc \in {"ledwait", "led"} => count = 0

TypeInv == TypeOK /\ JobInv /\ LedInv

\* The modes.
LEMMA ModesTypedStep ==
    TypeInv /\ [Next]_vars => ModesTyped'
<1> SUFFICES ASSUME TypeInv, [Next]_vars PROVE ModesTyped'
  OBVIOUS
<1> USE ConstantsAssumption DEF ConstantsAssumption, TypeInv, TypeOK,
           ModesTyped, SemTyped,
           MainTyped, JobTyped, FlagsTyped, StoreTyped, JobInv
<1>1. CASE MainNext
  BY <1>1 DEF MainNext, StartOk, StartFails, StartAgain, EnterLoop,
     LoopNoLed, LoopLedQueues, LedStart, LedSkip, AfterLed, LedDone,
     ScanResume, ScanNoFinger, ScanFinger, MatchDone
<1>2. CASE Handle
  BY <1>2, MessageFields DEF Handle, HandleMode, HandleEnroll, StartJob,
     FirstStep, HandlePush, HandleSlot, HandleFlush, HandleQuery
<1>3. CASE RsNext /\ ~Handle
  BY <1>3 DEF RsNext, IdleCount, StartJob, FirstStep, IdleIds, IdleTail,
     Acquire, CountDone, CaptureMiss, CaptureOk, FingerLifted, CreateDone,
     EnrollFails, EnrollStored, Stored, StoreFails, LibAfterFailure, Drain,
     LoadDone, FetchDone, DownloadFails, EndUpload, SendDone, FillDone,
     FillFails, PushStored, EraseDone, Erased, ForwardDelete
<1>4. CASE Environment
  BY <1>4 DEF Environment, Deliver, ThreeSeconds, SensorLost, SensorFound,
     PowerCycle, Stored, Erased
<1>5. CASE UNCHANGED vars
  BY <1>5
<1> QED
  BY <1>1, <1>2, <1>3, <1>4, <1>5 DEF Next

\* The semaphore.
LEMMA SemTypedStep ==
    TypeInv /\ [Next]_vars => SemTyped'
<1> SUFFICES ASSUME TypeInv, [Next]_vars PROVE SemTyped'
  OBVIOUS
<1> USE ConstantsAssumption DEF ConstantsAssumption, TypeInv, TypeOK,
           ModesTyped, SemTyped,
           MainTyped, JobTyped, FlagsTyped, StoreTyped, JobInv
<1>1. CASE MainNext
  BY <1>1 DEF MainNext, StartOk, StartFails, StartAgain, EnterLoop,
     LoopNoLed, LoopLedQueues, LedStart, LedSkip, AfterLed, LedDone,
     ScanResume, ScanNoFinger, ScanFinger, MatchDone
<1>2. CASE Handle
  BY <1>2, MessageFields DEF Handle, HandleMode, HandleEnroll, StartJob,
     FirstStep, HandlePush, HandleSlot, HandleFlush, HandleQuery
<1>3. CASE RsNext /\ ~Handle
  BY <1>3 DEF RsNext, IdleCount, StartJob, FirstStep, IdleIds, IdleTail,
     Acquire, CountDone, CaptureMiss, CaptureOk, FingerLifted, CreateDone,
     EnrollFails, EnrollStored, Stored, StoreFails, LibAfterFailure, Drain,
     LoadDone, FetchDone, DownloadFails, EndUpload, SendDone, FillDone,
     FillFails, PushStored, EraseDone, Erased, ForwardDelete
<1>4. CASE Environment
  BY <1>4 DEF Environment, Deliver, ThreeSeconds, SensorLost, SensorFound,
     PowerCycle, Stored, Erased
<1>5. CASE UNCHANGED vars
  BY <1>5
<1> QED
  BY <1>1, <1>2, <1>3, <1>4, <1>5 DEF Next

\* RS485Thread's variables.
LEMMA JobTypedStep ==
    TypeInv /\ [Next]_vars => JobTyped'
<1> SUFFICES ASSUME TypeInv, [Next]_vars PROVE JobTyped'
  OBVIOUS
<1> USE ConstantsAssumption DEF ConstantsAssumption, TypeInv, TypeOK,
           ModesTyped, SemTyped,
           MainTyped, JobTyped, FlagsTyped, StoreTyped, JobInv
<1>1. CASE MainNext
  BY <1>1 DEF MainNext, StartOk, StartFails, StartAgain, EnterLoop,
     LoopNoLed, LoopLedQueues, LedStart, LedSkip, AfterLed, LedDone,
     ScanResume, ScanNoFinger, ScanFinger, MatchDone
<1>2. CASE Handle
  BY <1>2, MessageFields DEF Handle, HandleMode, HandleEnroll, StartJob,
     FirstStep, HandlePush, HandleSlot, HandleFlush, HandleQuery
<1>3. CASE RsNext /\ ~Handle
  BY <1>3 DEF RsNext, IdleCount, StartJob, FirstStep, IdleIds, IdleTail,
     Acquire, CountDone, CaptureMiss, CaptureOk, FingerLifted, CreateDone,
     EnrollFails, EnrollStored, Stored, StoreFails, LibAfterFailure, Drain,
     LoadDone, FetchDone, DownloadFails, EndUpload, SendDone, FillDone,
     FillFails, PushStored, EraseDone, Erased, ForwardDelete
<1>4. CASE Environment
  BY <1>4 DEF Environment, Deliver, ThreeSeconds, SensorLost, SensorFound,
     PowerCycle, Stored, Erased
<1>5. CASE UNCHANGED vars
  BY <1>5
<1> QED
  BY <1>1, <1>2, <1>3, <1>4, <1>5 DEF Next

\* The flags and the received message.
LEMMA FlagsTypedStep ==
    TypeInv /\ [Next]_vars => FlagsTyped'
<1> SUFFICES ASSUME TypeInv, [Next]_vars PROVE FlagsTyped'
  OBVIOUS
<1> USE ConstantsAssumption DEF ConstantsAssumption, TypeInv, TypeOK,
           ModesTyped, SemTyped,
           MainTyped, JobTyped, FlagsTyped, StoreTyped, JobInv
<1>1. CASE MainNext
  BY <1>1 DEF MainNext, StartOk, StartFails, StartAgain, EnterLoop,
     LoopNoLed, LoopLedQueues, LedStart, LedSkip, AfterLed, LedDone,
     ScanResume, ScanNoFinger, ScanFinger, MatchDone
<1>2. CASE Handle
  BY <1>2, MessageFields DEF Handle, HandleMode, HandleEnroll, StartJob,
     FirstStep, HandlePush, HandleSlot, HandleFlush, HandleQuery
<1>3. CASE RsNext /\ ~Handle
  BY <1>3 DEF RsNext, IdleCount, StartJob, FirstStep, IdleIds, IdleTail,
     Acquire, CountDone, CaptureMiss, CaptureOk, FingerLifted, CreateDone,
     EnrollFails, EnrollStored, Stored, StoreFails, LibAfterFailure, Drain,
     LoadDone, FetchDone, DownloadFails, EndUpload, SendDone, FillDone,
     FillFails, PushStored, EraseDone, Erased, ForwardDelete
<1>4. CASE Environment
  BY <1>4 DEF Environment, Deliver, ThreeSeconds, SensorLost, SensorFound,
     PowerCycle, Stored, Erased, Booted
<1>5. CASE UNCHANGED vars
  BY <1>5
<1> QED
  BY <1>1, <1>2, <1>3, <1>4, <1>5 DEF Next

\* The sensor and the ID table.
LEMMA StoreTypedStep ==
    TypeInv /\ [Next]_vars => StoreTyped'
<1> SUFFICES ASSUME TypeInv, [Next]_vars PROVE StoreTyped'
  OBVIOUS
<1> USE ConstantsAssumption DEF ConstantsAssumption, TypeInv, TypeOK,
           ModesTyped, SemTyped,
           MainTyped, JobTyped, FlagsTyped, StoreTyped, JobInv
<1>1. CASE MainNext
  BY <1>1 DEF MainNext, StartOk, StartFails, StartAgain, EnterLoop,
     LoopNoLed, LoopLedQueues, LedStart, LedSkip, AfterLed, LedDone,
     ScanResume, ScanNoFinger, ScanFinger, MatchDone
<1>2. CASE Handle
  BY <1>2, MessageFields DEF Handle, HandleMode, HandleEnroll, StartJob,
     FirstStep, HandlePush, HandleSlot, HandleFlush, HandleQuery
<1>3. CASE RsNext /\ ~Handle
  <2>1. CASE IdleCount
    BY <2>1, CountsAreNaturals DEF IdleCount, StartJob, FirstStep
  <2>2. CASE IdleIds
    BY <2>2, CountsAreNaturals DEF IdleIds
  <2>3. CASE IdleTail
    BY <2>3, CountsAreNaturals DEF IdleTail
  <2>4. CASE Acquire
    BY <2>4, CountsAreNaturals DEF Acquire, FirstStep
  <2>5. CASE CountDone
    <3>1. countMissed' = TRUE \/ countMissed' = FALSE
      BY <2>5 DEF CountDone
    <3>2. reported' \in Nat \cup {None}
      BY <2>5, CountsAreNaturals DEF CountDone
    <3>3. UNCHANGED <<lib, fpId, charBuf, unsure>>
      BY <2>5 DEF CountDone
    <3> QED
      BY <3>1, <3>2, <3>3
  <2>6. CASE CaptureMiss
    BY <2>6, CountsAreNaturals DEF CaptureMiss
  <2>7. CASE CaptureOk
    BY <2>7, CountsAreNaturals DEF CaptureOk
  <2>8. CASE FingerLifted
    BY <2>8, CountsAreNaturals DEF FingerLifted
  <2>9. CASE CreateDone
    BY <2>9, CountsAreNaturals DEF CreateDone
  <2>10. CASE EnrollFails
    BY <2>10, CountsAreNaturals DEF EnrollFails
  <2>11. CASE EnrollStored
    BY <2>11, CountsAreNaturals DEF EnrollStored, Stored
  <2>12. CASE StoreFails
    BY <2>12, CountsAreNaturals DEF StoreFails, Stored, LibAfterFailure
  <2>13. CASE Drain
    BY <2>13, CountsAreNaturals DEF Drain
  <2>14. CASE LoadDone
    BY <2>14, CountsAreNaturals DEF LoadDone
  <2>15. CASE FetchDone
    BY <2>15, CountsAreNaturals DEF FetchDone
  <2>16. CASE DownloadFails
    BY <2>16, CountsAreNaturals DEF DownloadFails, EndUpload
  <2>17. CASE SendDone
    BY <2>17, CountsAreNaturals DEF SendDone, EndUpload
  <2>18. CASE FillDone
    BY <2>18, CountsAreNaturals DEF FillDone
  <2>19. CASE FillFails
    BY <2>19, CountsAreNaturals DEF FillFails
  <2>20. CASE PushStored
    BY <2>20, CountsAreNaturals DEF PushStored, Stored
  <2>21. CASE EraseDone
    BY <2>21, CountsAreNaturals DEF EraseDone, Erased, LibAfterFailure
  <2>22. CASE ForwardDelete
    BY <2>22, CountsAreNaturals DEF ForwardDelete
  <2> QED
    BY <1>3, <2>1, <2>2, <2>3, <2>4, <2>5, <2>6, <2>7, <2>8, <2>9, <2>10,
       <2>11, <2>12, <2>13, <2>14, <2>15, <2>16, <2>17, <2>18, <2>19, <2>20,
       <2>21, <2>22 DEF RsNext
<1>4. CASE Environment
  BY <1>4 DEF Environment, Deliver, ThreeSeconds, SensorLost, SensorFound,
     PowerCycle, Stored, Erased
<1>5. CASE UNCHANGED vars
  BY <1>5
<1> QED
  BY <1>1, <1>2, <1>3, <1>4, <1>5 DEF Next

\* The main thread's variables.
LEMMA MainTypedStep ==
    TypeInv /\ [Next]_vars => MainTyped' /\ LedInv'
<1> SUFFICES ASSUME TypeInv, [Next]_vars PROVE MainTyped' /\ LedInv'
  OBVIOUS
<1> USE ConstantsAssumption DEF ConstantsAssumption, TypeInv, TypeOK,
           ModesTyped, SemTyped,
           MainTyped, JobTyped, FlagsTyped, StoreTyped, JobInv, LedInv
<1>1. CASE MainNext
  BY <1>1 DEF MainNext, StartOk, StartFails, StartAgain, EnterLoop,
     LoopNoLed, LoopLedQueues, LedStart, LedSkip, AfterLed, LedDone,
     ScanResume, ScanNoFinger, ScanFinger, MatchDone
<1>2. CASE Handle
  BY <1>2 DEF Handle, HandleMode, HandleEnroll, StartJob, FirstStep,
     HandlePush, HandleSlot, HandleFlush, HandleQuery
<1>3. CASE RsNext /\ ~Handle
  BY <1>3 DEF RsNext, IdleCount, StartJob, FirstStep, IdleIds, IdleTail,
     Acquire, CountDone, CaptureMiss, CaptureOk, FingerLifted, CreateDone,
     EnrollFails, EnrollStored, Stored, StoreFails, LibAfterFailure, Drain,
     LoadDone, FetchDone, DownloadFails, EndUpload, SendDone, FillDone,
     FillFails, PushStored, EraseDone, Erased, ForwardDelete
<1>4. CASE Environment
  BY <1>4 DEF Environment, Deliver, ThreeSeconds, SensorLost, SensorFound,
     PowerCycle, Stored, Erased
<1>5. CASE UNCHANGED vars
  BY <1>5
<1> QED
  BY <1>1, <1>2, <1>3, <1>4, <1>5 DEF Next

\* The operation being served.
LEMMA JobInvStep ==
    TypeInv /\ [Next]_vars => JobInv'
<1> SUFFICES ASSUME TypeInv, [Next]_vars PROVE JobInv'
  OBVIOUS
<1> USE ConstantsAssumption DEF ConstantsAssumption, TypeInv, TypeOK,
           ModesTyped, SemTyped,
           MainTyped, JobTyped, FlagsTyped, StoreTyped, JobInv
<1>1. CASE MainNext
  BY <1>1 DEF MainNext, StartOk, StartFails, StartAgain, EnterLoop,
     LoopNoLed, LoopLedQueues, LedStart, LedSkip, AfterLed, LedDone,
     ScanResume, ScanNoFinger, ScanFinger, MatchDone
<1>2. CASE Handle
  <2> PICK m \in Messages :
           \/ HandleMode(m) \/ HandleEnroll(m) \/ HandlePush(m) \/ HandleSlot(m)
           \/ HandleFlush(m) \/ HandleQuery(m)
    BY <1>2 DEF Handle
  <2>1. CASE HandleMode(m)
    BY <2>1, MessageFields DEF HandleMode
  <2>2. CASE HandleEnroll(m)
    BY <2>2, MessageFields DEF HandleEnroll, StartJob, FirstStep
  <2>3. CASE HandlePush(m)
    BY <2>3, MessageFields DEF HandlePush, StartJob, FirstStep
  <2>4. CASE HandleSlot(m)
    BY <2>4, MessageFields DEF HandleSlot, StartJob, FirstStep
  <2>5. CASE HandleFlush(m)
    BY <2>5, MessageFields DEF HandleFlush, StartJob, FirstStep
  <2>6. CASE HandleQuery(m)
    BY <2>6, MessageFields DEF HandleQuery
  <2> QED
    BY <2>1, <2>2, <2>3, <2>4, <2>5, <2>6
<1>3. CASE RsNext /\ ~Handle
  <2>1. CASE IdleCount
    BY <2>1 DEF IdleCount, StartJob, FirstStep
  <2>2. CASE IdleIds
    BY <2>2 DEF IdleIds
  <2>3. CASE IdleTail
    BY <2>3 DEF IdleTail
  <2>4. CASE Acquire
    BY <2>4 DEF Acquire, FirstStep
  <2>5. CASE CountDone
    BY <2>5 DEF CountDone
  <2>6. CASE CaptureMiss
    BY <2>6 DEF CaptureMiss
  <2>7. CASE CaptureOk
    BY <2>7 DEF CaptureOk
  <2>8. CASE FingerLifted
    BY <2>8 DEF FingerLifted
  <2>9. CASE CreateDone
    BY <2>9 DEF CreateDone
  <2>10. CASE EnrollFails
    BY <2>10 DEF EnrollFails
  <2>11. CASE EnrollStored
    BY <2>11 DEF EnrollStored, Stored
  <2>12. CASE StoreFails
    BY <2>12 DEF StoreFails, Stored, LibAfterFailure
  <2>13. CASE Drain
    BY <2>13 DEF Drain
  <2>14. CASE LoadDone
    BY <2>14 DEF LoadDone
  <2>15. CASE FetchDone
    BY <2>15 DEF FetchDone
  <2>16. CASE DownloadFails
    BY <2>16 DEF DownloadFails, EndUpload
  <2>17. CASE SendDone
    BY <2>17 DEF SendDone, EndUpload
  <2>18. CASE FillDone
    BY <2>18 DEF FillDone
  <2>19. CASE FillFails
    BY <2>19 DEF FillFails
  <2>20. CASE PushStored
    BY <2>20 DEF PushStored, Stored
  <2>21. CASE EraseDone
    BY <2>21 DEF EraseDone, Erased, LibAfterFailure
  <2>22. CASE ForwardDelete
    BY <2>22 DEF ForwardDelete
  <2> QED
    BY <1>3, <2>1, <2>2, <2>3, <2>4, <2>5, <2>6, <2>7, <2>8, <2>9, <2>10,
       <2>11, <2>12, <2>13, <2>14, <2>15, <2>16, <2>17, <2>18, <2>19, <2>20,
       <2>21, <2>22 DEF RsNext
<1>4. CASE Environment
  BY <1>4 DEF Environment, Deliver, ThreeSeconds, SensorLost, SensorFound,
     PowerCycle, Stored, Erased
<1>5. CASE UNCHANGED vars
  BY <1>5
<1> QED
  BY <1>1, <1>2, <1>3, <1>4, <1>5 DEF Next

\* The node is well typed when it is switched on.
LEMMA TypeInit == Init => TypeInv
<1> SUFFICES ASSUME Init PROVE TypeInv
  OBVIOUS
<1> USE ConstantsAssumption DEF ConstantsAssumption, Init, SemInit
<1>1. ModesTyped /\ SemTyped
  BY DEF ModesTyped, SemTyped
<1>2. MainTyped /\ JobTyped
  BY DEF MainTyped, JobTyped
<1>3. FlagsTyped
  BY DEF FlagsTyped
<1>4. StoreTyped
  BY DEF StoreTyped
<1>5. JobInv /\ LedInv
  BY DEF JobInv, LedInv
<1> QED
  BY <1>1, <1>2, <1>3, <1>4, <1>5 DEF TypeInv, TypeOK

\* Every step keeps it so.
LEMMA TypeStep == TypeInv /\ [Next]_vars => TypeInv'
BY ModesTypedStep, SemTypedStep, MainTypedStep, JobTypedStep, FlagsTypedStep,
   StoreTypedStep, JobInvStep DEF TypeInv, TypeOK

\* ... always.
LEMMA TypeInvariant == Spec => []TypeInv
BY TypeInit, TypeStep, PTL DEF Spec

\* Every variable keeps its type, whatever fails and whenever the power does.
THEOREM TypeCorrect == Spec => []TypeOK
<1>1. TypeInv => TypeOK
  BY DEF TypeInv
<1> QED
  BY <1>1, TypeInvariant, PTL

----------------------------------------------------------------------------
(* R503Sem.                                                                 *)

\* RS485Thread is in a part of a handler that owns the semaphore; an upload
\* keeps it while it sends the template.
RsOwns == rpc \in RsOnSensor \/ (rpc = "send" /\ job = "upload")

\* Who owns and who awaits the semaphore, by where the threads are.
LockInv ==
    /\ holder = "main"
         => mpc \in {"ledwait", "led", "scanwait", "scan", "match"}
    /\ mpc \in {"led", "scan", "match"} => holder = "main"
    /\ mpc \in {"ledwait", "scanwait"} => holder = "main" \/ "main" \in waiting
    /\ "main" \in waiting
         => mpc \in {"ledwait", "scanwait"} /\ holder = "rs485"
    /\ holder = "rs485" => rpc = "acquire" \/ RsOwns
    /\ RsOwns => holder = "rs485"
    /\ "rs485" \in waiting => rpc = "acquire" /\ holder = "main"

\* The semaphore is free at first.
LEMMA LockInit == Init => LockInv
BY ConstantsAssumption
   DEF ConstantsAssumption, Init, SemInit, LockInv, RsOwns, RsOnSensor

\* Every step keeps it: a thread signals only what it owns, and the one the
\* semaphore is handed to is blocked on it.
LEMMA LockStep ==
    TypeInv /\ LockInv /\ [Next]_vars => LockInv'
<1> SUFFICES ASSUME TypeInv, LockInv, [Next]_vars PROVE LockInv'
  OBVIOUS
<1> USE ConstantsAssumption DEF ConstantsAssumption, TypeInv, TypeOK, SemTyped,
           JobTyped, JobInv, LockInv, RsOwns, RsOnSensor
<1>1. CASE MainNext
  <2>1. CASE StartOk
    BY <2>1 DEF StartOk
  <2>2. CASE StartFails
    BY <2>2 DEF StartFails
  <2>3. CASE StartAgain
    BY <2>3 DEF StartAgain
  <2>4. CASE EnterLoop
    BY <2>4 DEF EnterLoop
  <2>5. CASE LoopNoLed
    BY <2>5 DEF LoopNoLed
  <2>6. CASE LoopLedQueues
    BY <2>6 DEF LoopLedQueues
  <2>7. CASE LedStart
    BY <2>7 DEF LedStart
  <2>8. CASE LedSkip
    BY <2>8 DEF LedSkip, AfterLed
  <2>9. CASE LedDone
    BY <2>9 DEF LedDone, AfterLed
  <2>10. CASE ScanResume
    BY <2>10 DEF ScanResume
  <2>11. CASE ScanNoFinger
    BY <2>11 DEF ScanNoFinger
  <2>12. CASE ScanFinger
    BY <2>12 DEF ScanFinger
  <2>13. CASE MatchDone
    BY <2>13 DEF MatchDone
  <2> QED
    BY <1>1, <2>1, <2>2, <2>3, <2>4, <2>5, <2>6, <2>7, <2>8, <2>9, <2>10,
       <2>11, <2>12, <2>13 DEF MainNext
<1>2. CASE Handle
  <2> PICK m \in Messages :
           \/ HandleMode(m) \/ HandleEnroll(m) \/ HandlePush(m) \/ HandleSlot(m)
           \/ HandleFlush(m) \/ HandleQuery(m)
    BY <1>2 DEF Handle
  <2>1. CASE HandleMode(m)
    BY <2>1 DEF HandleMode
  <2>2. CASE HandleEnroll(m)
    BY <2>2 DEF HandleEnroll, StartJob, FirstStep
  <2>3. CASE HandlePush(m)
    BY <2>3 DEF HandlePush, StartJob, FirstStep
  <2>4. CASE HandleSlot(m)
    BY <2>4 DEF HandleSlot, StartJob, FirstStep
  <2>5. CASE HandleFlush(m)
    BY <2>5 DEF HandleFlush, StartJob, FirstStep
  <2>6. CASE HandleQuery(m)
    BY <2>6 DEF HandleQuery
  <2> QED
    BY <2>1, <2>2, <2>3, <2>4, <2>5, <2>6
<1>3. CASE RsNext /\ ~Handle
  <2>1. CASE IdleCount
    BY <2>1 DEF IdleCount, StartJob, FirstStep
  <2>2. CASE IdleIds
    BY <2>2 DEF IdleIds
  <2>3. CASE IdleTail
    BY <2>3 DEF IdleTail
  <2>4. CASE Acquire
    BY <2>4 DEF Acquire, FirstStep
  <2>5. CASE CountDone
    BY <2>5 DEF CountDone
  <2>6. CASE CaptureMiss
    BY <2>6 DEF CaptureMiss
  <2>7. CASE CaptureOk
    BY <2>7 DEF CaptureOk
  <2>8. CASE FingerLifted
    BY <2>8 DEF FingerLifted
  <2>9. CASE CreateDone
    BY <2>9 DEF CreateDone
  <2>10. CASE EnrollFails
    BY <2>10 DEF EnrollFails
  <2>11. CASE EnrollStored
    BY <2>11 DEF EnrollStored, Stored
  <2>12. CASE StoreFails
    BY <2>12 DEF StoreFails, Stored, LibAfterFailure
  <2>13. CASE Drain
    BY <2>13 DEF Drain
  <2>14. CASE LoadDone
    BY <2>14 DEF LoadDone
  <2>15. CASE FetchDone
    BY <2>15 DEF FetchDone
  <2>16. CASE DownloadFails
    BY <2>16 DEF DownloadFails, EndUpload
  <2>17. CASE SendDone
    BY <2>17 DEF SendDone, EndUpload
  <2>18. CASE FillDone
    BY <2>18 DEF FillDone
  <2>19. CASE FillFails
    BY <2>19 DEF FillFails
  <2>20. CASE PushStored
    BY <2>20 DEF PushStored, Stored
  <2>21. CASE EraseDone
    BY <2>21 DEF EraseDone, Erased, LibAfterFailure
  <2>22. CASE ForwardDelete
    BY <2>22 DEF ForwardDelete
  <2> QED
    BY <1>3, <2>1, <2>2, <2>3, <2>4, <2>5, <2>6, <2>7, <2>8, <2>9, <2>10,
       <2>11, <2>12, <2>13, <2>14, <2>15, <2>16, <2>17, <2>18, <2>19, <2>20,
       <2>21, <2>22 DEF RsNext
<1>4. CASE Environment
  BY <1>4 DEF Environment, Deliver, ThreeSeconds, SensorLost, SensorFound,
     PowerCycle, Stored, Erased
<1>5. CASE UNCHANGED vars
  BY <1>5
<1> QED
  BY <1>1, <1>2, <1>3, <1>4, <1>5 DEF Next

\* ... always.
LEMMA LockInvariant == Spec => []LockInv
BY LockInit, LockStep, TypeInvariant, PTL DEF Spec

\* Once the sensor has been found (the boot loop uses it without R503Sem), the
\* threads never have sensor commands in flight together: whatever the commands
\* the gateway sends, and whenever.
THEOREM SensorExclusiveOnceStarted ==
    Spec => [](mpc # "start" => SensorExclusive)
<1>1. LockInv => (mpc # "start" => SensorExclusive)
  BY DEF LockInv, RsOwns, SensorExclusive, MainOnSensor
<1> QED
  BY <1>1, LockInvariant, PTL

----------------------------------------------------------------------------
(* Boot.                                                                    *)

\* The sensor answers within RS485Thread's first 3 s and the gateway sends
\* nothing that needs the sensor or sets the mode until the node listens: the
\* two boot races do not happen.
CalmBoot == SensorReadyFirst /\ \A m \in EarlyCommands : m.kind = "query"

\* Until the main loop starts the node serves no command of the gateway, and
\* until the sensor is found RS485Thread does not use it.
BootInv ==
    /\ ~Booted =>
         /\ mode = MODE_UNINITIALIZED /\ commanded = MODE_DISARMED
         /\ job \in {"none", "bootcount"} /\ ~countPushPending
         /\ inbox # None => inbox.kind = "query"
    /\ mpc \in {"start", "startsleep"} => ~bootTimer /\ job = "none"

\* At power-on nothing has been received.
LEMMA BootInit == Init => BootInv
BY DEF Init, BootInv, Booted

\* Every step keeps it.
LEMMA BootStep ==
    ASSUME CalmBoot PROVE TypeInv /\ BootInv /\ [Next]_vars => BootInv'
<1> SUFFICES ASSUME TypeInv, BootInv, [Next]_vars PROVE BootInv'
  OBVIOUS
<1> USE ConstantsAssumption DEF ConstantsAssumption, TypeInv, TypeOK, ModesTyped,
           JobInv, CalmBoot, BootInv, Booted
<1>1. CASE MainNext
  <2>1. CASE StartOk
    BY <2>1 DEF StartOk
  <2>2. CASE StartFails
    BY <2>2 DEF StartFails
  <2>3. CASE StartAgain
    BY <2>3 DEF StartAgain
  <2>4. CASE EnterLoop
    BY <2>4 DEF EnterLoop
  <2>5. CASE LoopNoLed
    BY <2>5 DEF LoopNoLed
  <2>6. CASE LoopLedQueues
    BY <2>6 DEF LoopLedQueues
  <2>7. CASE LedStart
    BY <2>7 DEF LedStart
  <2>8. CASE LedSkip
    BY <2>8 DEF LedSkip, AfterLed
  <2>9. CASE LedDone
    BY <2>9 DEF LedDone, AfterLed
  <2>10. CASE ScanResume
    BY <2>10 DEF ScanResume
  <2>11. CASE ScanNoFinger
    BY <2>11 DEF ScanNoFinger
  <2>12. CASE ScanFinger
    BY <2>12 DEF ScanFinger
  <2>13. CASE MatchDone
    BY <2>13 DEF MatchDone
  <2> QED
    BY <1>1, <2>1, <2>2, <2>3, <2>4, <2>5, <2>6, <2>7, <2>8, <2>9, <2>10,
       <2>11, <2>12, <2>13 DEF MainNext
<1>2. CASE Handle
  <2> PICK m \in Messages :
           \/ HandleMode(m) \/ HandleEnroll(m) \/ HandlePush(m) \/ HandleSlot(m)
           \/ HandleFlush(m) \/ HandleQuery(m)
    BY <1>2 DEF Handle
  <2>1. CASE HandleMode(m)
    BY <2>1 DEF HandleMode
  <2>2. CASE HandleEnroll(m)
    BY <2>2 DEF HandleEnroll, StartJob, FirstStep
  <2>3. CASE HandlePush(m)
    BY <2>3 DEF HandlePush, StartJob, FirstStep
  <2>4. CASE HandleSlot(m)
    BY <2>4 DEF HandleSlot, StartJob, FirstStep
  <2>5. CASE HandleFlush(m)
    BY <2>5 DEF HandleFlush, StartJob, FirstStep
  <2>6. CASE HandleQuery(m)
    BY <2>6 DEF HandleQuery
  <2> QED
    BY <2>1, <2>2, <2>3, <2>4, <2>5, <2>6
<1>3. CASE RsNext /\ ~Handle
  <2>1. CASE IdleCount
    BY <2>1 DEF IdleCount, StartJob, FirstStep
  <2>2. CASE IdleIds
    BY <2>2 DEF IdleIds
  <2>3. CASE IdleTail
    BY <2>3 DEF IdleTail
  <2>4. CASE Acquire
    BY <2>4 DEF Acquire, FirstStep
  <2>5. CASE CountDone
    BY <2>5 DEF CountDone
  <2>6. CASE CaptureMiss
    BY <2>6 DEF CaptureMiss
  <2>7. CASE CaptureOk
    BY <2>7 DEF CaptureOk
  <2>8. CASE FingerLifted
    BY <2>8 DEF FingerLifted
  <2>9. CASE CreateDone
    BY <2>9 DEF CreateDone
  <2>10. CASE EnrollFails
    BY <2>10 DEF EnrollFails
  <2>11. CASE EnrollStored
    BY <2>11 DEF EnrollStored, Stored
  <2>12. CASE StoreFails
    BY <2>12 DEF StoreFails, Stored, LibAfterFailure
  <2>13. CASE Drain
    BY <2>13 DEF Drain
  <2>14. CASE LoadDone
    BY <2>14 DEF LoadDone
  <2>15. CASE FetchDone
    BY <2>15 DEF FetchDone
  <2>16. CASE DownloadFails
    BY <2>16 DEF DownloadFails, EndUpload
  <2>17. CASE SendDone
    BY <2>17 DEF SendDone, EndUpload
  <2>18. CASE FillDone
    BY <2>18 DEF FillDone
  <2>19. CASE FillFails
    BY <2>19 DEF FillFails
  <2>20. CASE PushStored
    BY <2>20 DEF PushStored, Stored
  <2>21. CASE EraseDone
    BY <2>21 DEF EraseDone, Erased, LibAfterFailure
  <2>22. CASE ForwardDelete
    BY <2>22 DEF ForwardDelete
  <2> QED
    BY <1>3, <2>1, <2>2, <2>3, <2>4, <2>5, <2>6, <2>7, <2>8, <2>9, <2>10,
       <2>11, <2>12, <2>13, <2>14, <2>15, <2>16, <2>17, <2>18, <2>19, <2>20,
       <2>21, <2>22 DEF RsNext
<1>4. CASE Environment
  <2>1. CASE Deliver
    BY <2>1 DEF Deliver
  <2>2. CASE ThreeSeconds
    BY <2>2 DEF ThreeSeconds
  <2>3. CASE SensorLost \/ SensorFound
    BY <2>3 DEF SensorLost, SensorFound
  <2>4. CASE PowerCycle
    BY <2>4 DEF PowerCycle, Stored, Erased
  <2> QED
    BY <1>4, <2>1, <2>2, <2>3, <2>4 DEF Environment
<1>5. CASE UNCHANGED vars
  BY <1>5
<1> QED
  BY <1>1, <1>2, <1>3, <1>4, <1>5 DEF Next

\* ... always.
LEMMA BootInvariant == ASSUME CalmBoot PROVE Spec => []BootInv
<1>1. TypeInv /\ BootInv /\ [Next]_vars => BootInv'
  BY BootStep
<1> QED
  BY <1>1, BootInit, TypeInvariant, PTL DEF Spec

\* After a calm boot the threads never have sensor commands in flight together.
THEOREM SensorIsExclusive == ASSUME CalmBoot PROVE Spec => []SensorExclusive
<1>1. TypeInv /\ LockInv /\ BootInv => SensorExclusive
  BY DEF TypeInv, TypeOK, JobTyped, JobInv, LockInv, BootInv, RsOwns,
         SensorExclusive, MainOnSensor, RsOnSensor
<1> QED
  BY <1>1, BootInvariant, LockInvariant, TypeInvariant, PTL

----------------------------------------------------------------------------
(* MODE_ENROLLMENT.                                                         *)

\* setLastNodeMode is only ever called in MODE_ENROLLMENT, once, and lastMode
\* is then the mode last commanded.
ModeInv == EnrollModeIffServing /\ ModeIsCommanded

\* At power-on the main loop has not started.
LEMMA ModeInit == Init => ModeInv
BY DEF Init, ModeInv, EnrollModeIffServing, ModeIsCommanded, Booted

\* Every step keeps it.
LEMMA ModeStep ==
    ASSUME CalmBoot PROVE TypeInv /\ BootInv /\ ModeInv /\ [Next]_vars => ModeInv'
<1> SUFFICES ASSUME TypeInv, BootInv, ModeInv, [Next]_vars PROVE ModeInv'
  OBVIOUS
<1> USE DEF TypeInv, TypeOK, ModesTyped, JobInv, CalmBoot, BootInv, Booted, ModeInv,
           EnrollModeIffServing, ModeIsCommanded, Enrolling
<1>1. CASE MainNext
  BY <1>1 DEF MainNext, StartOk, StartFails, StartAgain, EnterLoop,
     LoopNoLed, LoopLedQueues, LedStart, LedSkip, AfterLed, LedDone,
     ScanResume, ScanNoFinger, ScanFinger, MatchDone
<1>2. CASE Handle
  <2> PICK m \in Messages :
           \/ HandleMode(m) \/ HandleEnroll(m) \/ HandlePush(m) \/ HandleSlot(m)
           \/ HandleFlush(m) \/ HandleQuery(m)
    BY <1>2 DEF Handle
  <2>1. CASE HandleMode(m)
    BY <2>1, MessageFields DEF HandleMode
  <2>2. CASE HandleEnroll(m)
    BY <2>2, MessageFields DEF HandleEnroll, StartJob, FirstStep
  <2>3. CASE HandlePush(m)
    BY <2>3, MessageFields DEF HandlePush, StartJob, FirstStep
  <2>4. CASE HandleSlot(m)
    BY <2>4, MessageFields DEF HandleSlot, StartJob, FirstStep
  <2>5. CASE HandleFlush(m)
    BY <2>5, MessageFields DEF HandleFlush, StartJob, FirstStep
  <2>6. CASE HandleQuery(m)
    BY <2>6, MessageFields DEF HandleQuery
  <2> QED
    BY <2>1, <2>2, <2>3, <2>4, <2>5, <2>6
<1>3. CASE RsNext /\ ~Handle
  <2>1. CASE IdleCount
    BY <2>1 DEF IdleCount, StartJob, FirstStep
  <2>2. CASE IdleIds
    BY <2>2 DEF IdleIds
  <2>3. CASE IdleTail
    BY <2>3 DEF IdleTail
  <2>4. CASE Acquire
    BY <2>4 DEF Acquire, FirstStep
  <2>5. CASE CountDone
    BY <2>5 DEF CountDone
  <2>6. CASE CaptureMiss
    BY <2>6 DEF CaptureMiss
  <2>7. CASE CaptureOk
    BY <2>7 DEF CaptureOk
  <2>8. CASE FingerLifted
    BY <2>8 DEF FingerLifted
  <2>9. CASE CreateDone
    BY <2>9 DEF CreateDone
  <2>10. CASE EnrollFails
    BY <2>10 DEF EnrollFails
  <2>11. CASE EnrollStored
    BY <2>11 DEF EnrollStored, Stored
  <2>12. CASE StoreFails
    BY <2>12 DEF StoreFails, Stored, LibAfterFailure
  <2>13. CASE Drain
    BY <2>13 DEF Drain
  <2>14. CASE LoadDone
    BY <2>14 DEF LoadDone
  <2>15. CASE FetchDone
    BY <2>15 DEF FetchDone
  <2>16. CASE DownloadFails
    BY <2>16 DEF DownloadFails, EndUpload
  <2>17. CASE SendDone
    BY <2>17 DEF SendDone, EndUpload
  <2>18. CASE FillDone
    BY <2>18 DEF FillDone
  <2>19. CASE FillFails
    BY <2>19 DEF FillFails
  <2>20. CASE PushStored
    BY <2>20 DEF PushStored, Stored
  <2>21. CASE EraseDone
    BY <2>21 DEF EraseDone, Erased, LibAfterFailure
  <2>22. CASE ForwardDelete
    BY <2>22 DEF ForwardDelete
  <2> QED
    BY <1>3, <2>1, <2>2, <2>3, <2>4, <2>5, <2>6, <2>7, <2>8, <2>9, <2>10,
       <2>11, <2>12, <2>13, <2>14, <2>15, <2>16, <2>17, <2>18, <2>19, <2>20,
       <2>21, <2>22 DEF RsNext
<1>4. CASE Environment
  BY <1>4 DEF Environment, Deliver, ThreeSeconds, SensorLost, SensorFound,
     PowerCycle, Stored, Erased
<1>5. CASE UNCHANGED vars
  BY <1>5
<1> QED
  BY <1>1, <1>2, <1>3, <1>4, <1>5 DEF Next

\* ... always.
LEMMA ModeInvariant == ASSUME CalmBoot PROVE Spec => []ModeInv
<1>1. TypeInv /\ BootInv /\ ModeInv /\ [Next]_vars => ModeInv'
  BY ModeStep
<1> QED
  BY <1>1, ModeInit, TypeInvariant, BootInvariant, PTL DEF Spec

\* After a calm boot the node is in MODE_ENROLLMENT exactly while a handler
\* that set it is being served, whatever the sensor answers.
THEOREM EnrollModeEnds == ASSUME CalmBoot PROVE Spec => []EnrollModeIffServing
<1>1. ModeInv => EnrollModeIffServing
  BY DEF ModeInv
<1> QED
  BY <1>1, ModeInvariant, PTL

\* ... and it leaves it for the mode the gateway commanded last.
THEOREM CommandedModeKept == ASSUME CalmBoot PROVE Spec => []ModeIsCommanded
<1>1. ModeInv => ModeIsCommanded
  BY DEF ModeInv
<1> QED
  BY <1>1, ModeInvariant, PTL

\* The main thread is not queued for a scan either once RS485Thread has the
\* semaphore for an enrollment it waited for.
UndisturbedInv ==
    EnrollmentUndisturbed /\ (Enrolling /\ holder = "rs485" => mpc # "scanwait")

\* At power-on nothing is being enrolled.
LEMMA UndisturbedInit == Init => UndisturbedInv
BY DEF Init, UndisturbedInv, EnrollmentUndisturbed, Enrolling

\* The main thread, queued while RS485Thread enrolls, is queued for the LED and
\* finds authentication barred when it has finished with it.
LEMMA UndisturbedStep ==
    ASSUME CalmBoot
    PROVE  TypeInv /\ LockInv /\ BootInv /\ ModeInv /\ UndisturbedInv /\ [Next]_vars
             => UndisturbedInv'
<1> SUFFICES ASSUME TypeInv, LockInv, BootInv, ModeInv, UndisturbedInv, [Next]_vars
             PROVE  UndisturbedInv'
  OBVIOUS
<1> USE ConstantsAssumption DEF ConstantsAssumption, TypeInv, TypeOK, ModesTyped,
           SemTyped, JobTyped, JobInv, LockInv, RsOwns, RsOnSensor, BootInv, Booted,
           ModeInv, EnrollModeIffServing, Enrolling, UndisturbedInv,
           EnrollmentUndisturbed
<1>1. CASE MainNext
  <2>1. CASE StartOk
    BY <2>1 DEF StartOk
  <2>2. CASE StartFails
    BY <2>2 DEF StartFails
  <2>3. CASE StartAgain
    BY <2>3 DEF StartAgain
  <2>4. CASE EnterLoop
    BY <2>4 DEF EnterLoop
  <2>5. CASE LoopNoLed
    BY <2>5 DEF LoopNoLed
  <2>6. CASE LoopLedQueues
    BY <2>6 DEF LoopLedQueues
  <2>7. CASE LedStart
    BY <2>7 DEF LedStart
  <2>8. CASE LedSkip
    BY <2>8 DEF LedSkip, AfterLed
  <2>9. CASE LedDone
    BY <2>9 DEF LedDone, AfterLed
  <2>10. CASE ScanResume
    BY <2>10 DEF ScanResume
  <2>11. CASE ScanNoFinger
    BY <2>11 DEF ScanNoFinger
  <2>12. CASE ScanFinger
    BY <2>12 DEF ScanFinger
  <2>13. CASE MatchDone
    BY <2>13 DEF MatchDone
  <2> QED
    BY <1>1, <2>1, <2>2, <2>3, <2>4, <2>5, <2>6, <2>7, <2>8, <2>9, <2>10,
       <2>11, <2>12, <2>13 DEF MainNext
<1>2. CASE Handle
  <2> PICK m \in Messages :
           \/ HandleMode(m) \/ HandleEnroll(m) \/ HandlePush(m) \/ HandleSlot(m)
           \/ HandleFlush(m) \/ HandleQuery(m)
    BY <1>2 DEF Handle
  <2>1. CASE HandleMode(m)
    BY <2>1 DEF HandleMode
  <2>2. CASE HandleEnroll(m)
    BY <2>2 DEF HandleEnroll, StartJob, FirstStep
  <2>3. CASE HandlePush(m)
    BY <2>3 DEF HandlePush, StartJob, FirstStep
  <2>4. CASE HandleSlot(m)
    BY <2>4 DEF HandleSlot, StartJob, FirstStep
  <2>5. CASE HandleFlush(m)
    BY <2>5 DEF HandleFlush, StartJob, FirstStep
  <2>6. CASE HandleQuery(m)
    BY <2>6 DEF HandleQuery
  <2> QED
    BY <2>1, <2>2, <2>3, <2>4, <2>5, <2>6
<1>3. CASE RsNext /\ ~Handle
  <2>1. CASE IdleCount
    BY <2>1 DEF IdleCount, StartJob, FirstStep
  <2>2. CASE IdleIds
    BY <2>2 DEF IdleIds
  <2>3. CASE IdleTail
    BY <2>3 DEF IdleTail
  <2>4. CASE Acquire
    BY <2>4 DEF Acquire, FirstStep
  <2>5. CASE CountDone
    BY <2>5 DEF CountDone
  <2>6. CASE CaptureMiss
    BY <2>6 DEF CaptureMiss
  <2>7. CASE CaptureOk
    BY <2>7 DEF CaptureOk
  <2>8. CASE FingerLifted
    BY <2>8 DEF FingerLifted
  <2>9. CASE CreateDone
    BY <2>9 DEF CreateDone
  <2>10. CASE EnrollFails
    BY <2>10 DEF EnrollFails
  <2>11. CASE EnrollStored
    BY <2>11 DEF EnrollStored, Stored
  <2>12. CASE StoreFails
    BY <2>12 DEF StoreFails, Stored, LibAfterFailure
  <2>13. CASE Drain
    BY <2>13 DEF Drain
  <2>14. CASE LoadDone
    BY <2>14 DEF LoadDone
  <2>15. CASE FetchDone
    BY <2>15 DEF FetchDone
  <2>16. CASE DownloadFails
    BY <2>16 DEF DownloadFails, EndUpload
  <2>17. CASE SendDone
    BY <2>17 DEF SendDone, EndUpload
  <2>18. CASE FillDone
    BY <2>18 DEF FillDone
  <2>19. CASE FillFails
    BY <2>19 DEF FillFails
  <2>20. CASE PushStored
    BY <2>20 DEF PushStored, Stored
  <2>21. CASE EraseDone
    BY <2>21 DEF EraseDone, Erased, LibAfterFailure
  <2>22. CASE ForwardDelete
    BY <2>22 DEF ForwardDelete
  <2> QED
    BY <1>3, <2>1, <2>2, <2>3, <2>4, <2>5, <2>6, <2>7, <2>8, <2>9, <2>10,
       <2>11, <2>12, <2>13, <2>14, <2>15, <2>16, <2>17, <2>18, <2>19, <2>20,
       <2>21, <2>22 DEF RsNext
<1>4. CASE Environment
  BY <1>4 DEF Environment, Deliver, ThreeSeconds, SensorLost, SensorFound,
     PowerCycle, Stored, Erased
<1>5. CASE UNCHANGED vars
  BY <1>5
<1> QED
  BY <1>1, <1>2, <1>3, <1>4, <1>5 DEF Next

\* After a calm boot the main loop neither scans nor is about to from the first
\* image of an enrollment to the end of the upload.
THEOREM EnrollmentIsUndisturbed ==
    ASSUME CalmBoot PROVE Spec => []EnrollmentUndisturbed
<1>1. TypeInv /\ LockInv /\ BootInv /\ ModeInv /\ UndisturbedInv /\ [Next]_vars
        => UndisturbedInv'
  BY UndisturbedStep
<1>2. UndisturbedInv => EnrollmentUndisturbed
  BY DEF UndisturbedInv
<1> QED
  BY <1>1, <1>2, UndisturbedInit, TypeInvariant, LockInvariant, BootInvariant,
     ModeInvariant, PTL DEF Spec

----------------------------------------------------------------------------
(* The sensor's character buffer.                                           *)

\* What the buffer holds at each point of an enrollment, a push and a download.
BufferInv ==
    /\ rpc \in {"lift", "create"} => charBuf \in {tmpl, None}
    /\ rpc = "store" => charBuf = tmpl
    /\ rpc = "capture" => image = 1 \/ (image > 1 /\ charBuf \in {tmpl, None})
    /\ rpc = "acquire" /\ job = "enroll" => image = 1
    /\ rpc = "fetch" => charBuf = lib[slot]
    /\ SendsWhatIsStored

\* At power-on RS485Thread uses no buffer.
LEMMA BufferInit == Init => BufferInv
BY DEF Init, BufferInv, SendsWhatIsStored

\* The main thread writes the buffer only with the semaphore, so never between
\* two steps of RS485Thread that rely on it.
LEMMA BufferStep ==
    TypeInv /\ LockInv /\ BufferInv /\ [Next]_vars => BufferInv'
<1> SUFFICES ASSUME TypeInv, LockInv, BufferInv, [Next]_vars PROVE BufferInv'
  OBVIOUS
<1> USE ConstantsAssumption DEF ConstantsAssumption, TypeInv, TypeOK, JobTyped,
           JobInv, LockInv, RsOwns, RsOnSensor, BufferInv, SendsWhatIsStored
<1>1. CASE MainNext
  <2>1. CASE StartOk
    BY <2>1 DEF StartOk
  <2>2. CASE StartFails
    BY <2>2 DEF StartFails
  <2>3. CASE StartAgain
    BY <2>3 DEF StartAgain
  <2>4. CASE EnterLoop
    BY <2>4 DEF EnterLoop
  <2>5. CASE LoopNoLed
    BY <2>5 DEF LoopNoLed
  <2>6. CASE LoopLedQueues
    BY <2>6 DEF LoopLedQueues
  <2>7. CASE LedStart
    BY <2>7 DEF LedStart
  <2>8. CASE LedSkip
    BY <2>8 DEF LedSkip, AfterLed
  <2>9. CASE LedDone
    BY <2>9 DEF LedDone, AfterLed
  <2>10. CASE ScanResume
    BY <2>10 DEF ScanResume
  <2>11. CASE ScanNoFinger
    BY <2>11 DEF ScanNoFinger
  <2>12. CASE ScanFinger
    BY <2>12 DEF ScanFinger
  <2>13. CASE MatchDone
    BY <2>13 DEF MatchDone
  <2> QED
    BY <1>1, <2>1, <2>2, <2>3, <2>4, <2>5, <2>6, <2>7, <2>8, <2>9, <2>10,
       <2>11, <2>12, <2>13 DEF MainNext
<1>2. CASE Handle
  <2> PICK m \in Messages :
           \/ HandleMode(m) \/ HandleEnroll(m) \/ HandlePush(m) \/ HandleSlot(m)
           \/ HandleFlush(m) \/ HandleQuery(m)
    BY <1>2 DEF Handle
  <2>1. CASE HandleMode(m)
    BY <2>1 DEF HandleMode
  <2>2. CASE HandleEnroll(m)
    BY <2>2 DEF HandleEnroll, StartJob, FirstStep
  <2>3. CASE HandlePush(m)
    BY <2>3 DEF HandlePush, StartJob, FirstStep
  <2>4. CASE HandleSlot(m)
    BY <2>4 DEF HandleSlot, StartJob, FirstStep
  <2>5. CASE HandleFlush(m)
    BY <2>5 DEF HandleFlush, StartJob, FirstStep
  <2>6. CASE HandleQuery(m)
    BY <2>6 DEF HandleQuery
  <2> QED
    BY <2>1, <2>2, <2>3, <2>4, <2>5, <2>6
<1>3. CASE RsNext /\ ~Handle
  <2>1. CASE IdleCount
    BY <2>1 DEF IdleCount, StartJob, FirstStep
  <2>2. CASE IdleIds
    BY <2>2 DEF IdleIds
  <2>3. CASE IdleTail
    BY <2>3 DEF IdleTail
  <2>4. CASE Acquire
    BY <2>4 DEF Acquire, FirstStep
  <2>5. CASE CountDone
    BY <2>5 DEF CountDone
  <2>6. CASE CaptureMiss
    BY <2>6 DEF CaptureMiss
  <2>7. CASE CaptureOk
    BY <2>7 DEF CaptureOk
  <2>8. CASE FingerLifted
    BY <2>8 DEF FingerLifted
  <2>9. CASE CreateDone
    BY <2>9 DEF CreateDone
  <2>10. CASE EnrollFails
    BY <2>10 DEF EnrollFails
  <2>11. CASE EnrollStored
    BY <2>11 DEF EnrollStored, Stored
  <2>12. CASE StoreFails
    BY <2>12 DEF StoreFails, Stored, LibAfterFailure
  <2>13. CASE Drain
    BY <2>13 DEF Drain
  <2>14. CASE LoadDone
    BY <2>14 DEF LoadDone
  <2>15. CASE FetchDone
    BY <2>15 DEF FetchDone
  <2>16. CASE DownloadFails
    BY <2>16 DEF DownloadFails, EndUpload
  <2>17. CASE SendDone
    BY <2>17 DEF SendDone, EndUpload
  <2>18. CASE FillDone
    BY <2>18 DEF FillDone
  <2>19. CASE FillFails
    BY <2>19 DEF FillFails
  <2>20. CASE PushStored
    BY <2>20 DEF PushStored, Stored
  <2>21. CASE EraseDone
    BY <2>21 DEF EraseDone, Erased, LibAfterFailure
  <2>22. CASE ForwardDelete
    BY <2>22 DEF ForwardDelete
  <2> QED
    BY <1>3, <2>1, <2>2, <2>3, <2>4, <2>5, <2>6, <2>7, <2>8, <2>9, <2>10,
       <2>11, <2>12, <2>13, <2>14, <2>15, <2>16, <2>17, <2>18, <2>19, <2>20,
       <2>21, <2>22 DEF RsNext
<1>4. CASE Environment
  BY <1>4 DEF Environment, Deliver, ThreeSeconds, SensorLost, SensorFound,
     PowerCycle, Stored, Erased
<1>5. CASE UNCHANGED vars
  BY <1>5
<1> QED
  BY <1>1, <1>2, <1>3, <1>4, <1>5 DEF Next

\* ... always.
LEMMA BufferInvariant == Spec => []BufferInv
BY BufferInit, BufferStep, TypeInvariant, LockInvariant, PTL DEF Spec

\* A template sent to the gateway or a peer is the one in the slot it is labelled
\* with; this needs no assumption about the boot.
THEOREM SentTemplateIsStored == Spec => []SendsWhatIsStored
<1>1. BufferInv => SendsWhatIsStored
  BY DEF BufferInv
<1> QED
  BY <1>1, BufferInvariant, PTL

----------------------------------------------------------------------------
(* FingerNode implements TemplateStore.                                     *)

\* Request, case by case.
RequestCases ==
    /\ job \in {"enroll", "push"}
         => Request = [op |-> "put", slot |-> slot, tmpl |-> tmpl]
    /\ job \in {"delete", "peerDelete"} /\ rpc # "forward"
         => Request = [op |-> "delete", slot |-> slot]
    /\ job = "flush" => Request = [op |-> "flush"]
    /\ job \notin {"enroll", "push", "delete", "peerDelete", "flush"}
         => Request = None
    /\ job = "delete" /\ rpc = "forward" => Request = None

\* It is, now and in the next state.
LEMMA RequestServed == RequestCases /\ RequestCases'
BY DEF RequestCases, Request

USE DEF RequestCases

\* A step that leaves the job alone leaves the request alone.
LEMMA RequestUnchanged ==
    UNCHANGED <<rpc, job, slot, tmpl>> => UNCHANGED Request
BY DEF Request

\* The request being served is one the abstract store knows.
LEMMA RequestIsOne ==
    ASSUME TypeInv, job \in {"enroll", "push", "delete", "peerDelete", "flush"},
           rpc # "forward"
    PROVE  Request \in Library!Requests
<1> USE DEF TypeInv, JobInv, Library!Requests
<1>1. CASE job \in {"enroll", "push"}
  BY <1>1, RequestServed
<1>2. CASE job \in {"delete", "peerDelete"}
  BY <1>2, RequestServed
<1>3. CASE job = "flush"
  BY <1>3, RequestServed
<1> QED
  BY <1>1, <1>2, <1>3

\* What a store and an erase do to the library is what the request asks for.
LEMMA StoredAsAsked ==
    ASSUME TypeInv, BufferInv, rpc = "store" PROVE Stored = Library!After(Request)
<1>1. Request = [op |-> "put", slot |-> slot, tmpl |-> tmpl] /\ charBuf = tmpl
  BY RequestServed DEF TypeInv, JobInv, BufferInv
<1> QED
  BY <1>1 DEF TypeInv, TypeOK, StoreTyped, Stored, Library!After

LEMMA ErasedAsAsked ==
    ASSUME TypeInv, rpc = "erase" PROVE Erased = Library!After(Request)
<1>1. CASE job = "flush"
  <2>1. Request = [op |-> "flush"]
    BY <1>1, RequestServed
  <2> QED
    BY <1>1, <2>1 DEF Erased, Library!After
<1>2. CASE job \in {"delete", "peerDelete"}
  <2>1. Request = [op |-> "delete", slot |-> slot]
    BY <1>2, RequestServed
  <2> QED
    BY <1>2, <2>1 DEF Erased, Library!After
<1> QED
  BY <1>1, <1>2 DEF TypeInv, JobInv

\* An empty library with no request.
LEMMA LibraryInit == Init => Library!Init
BY RequestServed DEF Init, Library!Init

\* Every step is one of the abstract store's or leaves it alone.
LEMMA LibraryStep ==
    TypeInv /\ BufferInv /\ [Next]_vars => [Library!Next]_<<lib, Request>>
<1> SUFFICES ASSUME TypeInv, BufferInv, [Next]_vars
             PROVE  [Library!Next]_<<lib, Request>>
  OBVIOUS
<1> USE DEF TypeInv, JobInv
<1>1. CASE MainNext
  BY <1>1, RequestUnchanged DEF MainNext, StartOk, StartFails, StartAgain,
     EnterLoop, LoopNoLed, LoopLedQueues, LedStart, LedSkip, AfterLed,
     LedDone, ScanResume, ScanNoFinger, ScanFinger, MatchDone
<1>2. CASE Handle
  <2> PICK m \in Messages :
           \/ HandleMode(m) \/ HandleEnroll(m) \/ HandlePush(m) \/ HandleSlot(m)
           \/ HandleFlush(m) \/ HandleQuery(m)
    BY <1>2 DEF Handle
  <2>1. CASE HandleMode(m)
    BY <2>1, RequestUnchanged DEF HandleMode
  <2>2. CASE HandleEnroll(m)
    <3>1. Request = None /\ UNCHANGED lib
      BY <2>2, RequestServed DEF HandleEnroll
    <3>2. Request' \in Library!Requests
      BY <2>2, MessageFields, RequestServed DEF HandleEnroll, StartJob, FirstStep,
           Library!Requests
    <3> QED
      BY <3>1, <3>2 DEF Library!Next, Library!Accept
  <2>3. CASE HandlePush(m)
    <3>1. Request = None /\ UNCHANGED lib
      BY <2>3, RequestServed DEF HandlePush
    <3>2. Request' \in Library!Requests
      BY <2>3, MessageFields, RequestServed DEF HandlePush, StartJob, FirstStep,
           Library!Requests
    <3> QED
      BY <3>1, <3>2 DEF Library!Next, Library!Accept
  <2>4. CASE HandleSlot(m)
    <3>1. Request = None /\ UNCHANGED lib
      BY <2>4, RequestServed DEF HandleSlot
    <3>2. CASE m.kind = "get"
      BY <2>4, <3>1, <3>2, RequestServed DEF HandleSlot, StartJob
    <3>3. CASE m.kind \in {"delete", "peerDelete"}
      <4>1. Request' \in Library!Requests
        BY <2>4, <3>3, MessageFields, RequestServed DEF HandleSlot, StartJob, FirstStep,
           Library!Requests
      <4> QED
        BY <3>1, <4>1 DEF Library!Next, Library!Accept
    <3> QED
      BY <2>4, <3>2, <3>3 DEF HandleSlot
  <2>5. CASE HandleFlush(m)
    <3>1. Request = None /\ UNCHANGED lib
      BY <2>5, RequestServed DEF HandleFlush
    <3>2. Request' \in Library!Requests
      BY <2>5, MessageFields, RequestServed DEF HandleFlush, StartJob, FirstStep,
           Library!Requests
    <3> QED
      BY <3>1, <3>2 DEF Library!Next, Library!Accept
  <2>6. CASE HandleQuery(m)
    BY <2>6, RequestUnchanged DEF HandleQuery
  <2> QED
    BY <2>1, <2>2, <2>3, <2>4, <2>5, <2>6
<1>3. CASE RsNext /\ ~Handle
  <2>1. CASE IdleCount
    BY <2>1, RequestServed DEF IdleCount, StartJob, FirstStep
  <2>2. CASE IdleIds
    BY <2>2, RequestServed DEF IdleIds
  <2>3. CASE IdleTail
    BY <2>3, RequestServed DEF IdleTail
  <2>4. CASE Acquire
    BY <2>4, RequestServed DEF Acquire, FirstStep
  <2>5. CASE CountDone
    BY <2>5, RequestServed DEF CountDone
  <2>6. CASE CaptureMiss
    BY <2>6, RequestServed DEF CaptureMiss
  <2>7. CASE CaptureOk
    BY <2>7, RequestServed DEF CaptureOk
  <2>8. CASE FingerLifted
    BY <2>8, RequestServed DEF FingerLifted
  <2>9. CASE CreateDone
    BY <2>9, RequestServed DEF CreateDone
  <2>10. CASE EnrollFails
    BY <2>10, RequestServed DEF EnrollFails, Library!Next, Library!Drop
  <2>11. CASE EnrollStored
    <3>1. Request \in Library!Requests /\ Stored = Library!After(Request)
      BY <2>11, RequestIsOne, StoredAsAsked DEF EnrollStored
    <3>2. lib' = Stored /\ Request' = None
      BY <2>11, RequestServed DEF EnrollStored
    <3> QED
      BY <3>1, <3>2 DEF Library!Next, Library!Serve
  <2>12. CASE StoreFails
    <3>1. Request \in Library!Requests /\ Stored = Library!After(Request)
      BY <2>12, RequestIsOne, StoredAsAsked DEF StoreFails
    <3>2. lib' \in {lib, Stored} /\ Request' = None
      BY <2>12, RequestServed DEF StoreFails, LibAfterFailure
    <3> QED
      BY <3>1, <3>2 DEF Library!Next, Library!Serve, Library!Drop
  <2>13. CASE Drain
    BY <2>13, RequestServed DEF Drain
  <2>14. CASE LoadDone
    BY <2>14, RequestServed DEF LoadDone
  <2>15. CASE FetchDone
    BY <2>15, RequestServed DEF FetchDone
  <2>16. CASE DownloadFails
    BY <2>16, RequestServed DEF DownloadFails, EndUpload
  <2>17. CASE SendDone
    BY <2>17, RequestServed DEF SendDone, EndUpload
  <2>18. CASE FillDone
    BY <2>18, RequestServed DEF FillDone
  <2>19. CASE FillFails
    BY <2>19, RequestServed DEF FillFails, Library!Next, Library!Drop
  <2>20. CASE PushStored
    <3>1. Request \in Library!Requests /\ Stored = Library!After(Request)
      BY <2>20, RequestIsOne, StoredAsAsked DEF PushStored
    <3>2. lib' = Stored /\ Request' = None
      BY <2>20, RequestServed DEF PushStored
    <3> QED
      BY <3>1, <3>2 DEF Library!Next, Library!Serve
  <2>21. CASE EraseDone
    <3>1. Request \in Library!Requests /\ Erased = Library!After(Request)
      BY <2>21, RequestIsOne, ErasedAsAsked DEF EraseDone
    <3>2. lib' \in {lib, Erased} /\ Request' = None
      BY <2>21, RequestServed DEF EraseDone, LibAfterFailure
    <3> QED
      BY <3>1, <3>2 DEF Library!Next, Library!Serve, Library!Drop
  <2>22. CASE ForwardDelete
    BY <2>22, RequestServed DEF ForwardDelete
  <2> QED
    BY <1>3, <2>1, <2>2, <2>3, <2>4, <2>5, <2>6, <2>7, <2>8, <2>9, <2>10,
       <2>11, <2>12, <2>13, <2>14, <2>15, <2>16, <2>17, <2>18, <2>19, <2>20,
       <2>21, <2>22 DEF RsNext
<1>4. CASE Environment
  <2>1. CASE Deliver
    BY <2>1, RequestUnchanged DEF Deliver
  <2>2. CASE ThreeSeconds
    BY <2>2, RequestUnchanged DEF ThreeSeconds
  <2>3. CASE SensorLost \/ SensorFound
    BY <2>3, RequestUnchanged DEF SensorLost, SensorFound
  <2>4. CASE PowerCycle
    <3>1. Request' = None
      BY <2>4, RequestServed DEF PowerCycle
    <3>2. CASE UNCHANGED lib
      BY <3>1, <3>2 DEF Library!Next, Library!Drop
    <3>3. CASE rpc = "store" /\ lib' = Stored
      BY <3>1, <3>3, RequestIsOne, StoredAsAsked DEF Library!Next, Library!Serve
    <3>4. CASE rpc = "erase" /\ lib' = Erased
      BY <3>1, <3>4, RequestIsOne, ErasedAsAsked DEF Library!Next, Library!Serve
    <3> QED
      BY <2>4, <3>2, <3>3, <3>4 DEF PowerCycle
  <2> QED
    BY <1>4, <2>1, <2>2, <2>3, <2>4 DEF Environment
<1>5. CASE UNCHANGED vars
  BY <1>5, RequestUnchanged
<1> QED
  BY <1>1, <1>2, <1>3, <1>4, <1>5 DEF Next

\* The detailed node, with both threads, the sensor's faults, its loss and losses
\* of power, changes its library only as TemplateStore does.
THEOREM LibraryIsRefined == Spec => LibraryRefined
<1>1. TypeInv /\ BufferInv /\ [Next]_vars => [Library!Next]_<<lib, Request>>
  BY LibraryStep
<1> QED
  BY <1>1, LibraryInit, TypeInvariant, BufferInvariant, PTL
     DEF Spec, LibraryRefined, Library!Spec

----------------------------------------------------------------------------
(* What the gateway knows of the library: the count it was told and the IDs *)
(* it gave.  The node's history says when they may come apart from it.      *)
USE ConstantsAssumption
HIDE DEF Threads, Modes, CommandedModes, MODE_UNINITIALIZED, MODE_ENROLLMENT,
         MODE_ARMING, MODE_DISARMED, MODE_ARMED_HOME,
         MainPcs, RsPcs, Jobs, Contents,
         SetNodeMode, SetLastNodeMode, SemTake, SemQueue, SemSignal, SemKeep,
         SemYield, Take, IsAuthAllowed, NextCount, IdsErased, IdsWithPush,
         SendCount, Target

----------------------------------------------------------------------------
(* The main thread and the handlers that only start an operation leave the  *)
(* library and all that is said of it alone.                                *)
StoreVars == <<lib, reportVars>>

\* The main thread touches nothing of it, nor what RS485Thread is doing.
LEMMA MainLeavesStore ==
    ASSUME MainNext
    PROVE  UNCHANGED <<StoreVars, jobVars, flagVars>>
BY DEF MainNext, StoreVars, StartOk, StartFails, StartAgain, EnterLoop,
       LoopNoLed, LoopLedQueues, LedStart, LedSkip, AfterLed, LedDone,
       ScanResume, ScanNoFinger, ScanFinger, MatchDone

\* A message that is served starts an operation, or asks for the ID table.
LEMMA HandlerLeavesStore ==
    ASSUME Handle
    PROVE  /\ UNCHANGED <<StoreVars, bootCountSent, countPushPending>>
           /\ rpc = "wait"
<1>1. PICK m \in Messages :
           \/ HandleMode(m) \/ HandleEnroll(m) \/ HandlePush(m) \/ HandleSlot(m)
           \/ HandleFlush(m) \/ HandleQuery(m)
  BY DEF Handle
<1>2. Take(m)
  BY <1>1 DEF HandleMode, HandleEnroll, HandlePush, HandleSlot, HandleFlush,
              HandleQuery
<1>3. UNCHANGED <<StoreVars, bootCountSent, countPushPending>>
  BY <1>1 DEF HandleMode, HandleEnroll, HandlePush, HandleSlot, HandleFlush,
              HandleQuery, StoreVars
<1> QED BY <1>2, <1>3 DEF Take

\* Nor do the steps of RS485Thread that neither change the library, nor count,
\* nor end an upload.
QuietStep ==
    \/ IdleCount \/ IdleIds \/ IdleTail \/ Acquire \/ CaptureMiss \/ CaptureOk
    \/ FingerLifted \/ CreateDone \/ EnrollFails \/ Drain \/ LoadDone
    \/ FetchDone \/ FillDone \/ FillFails \/ ForwardDelete

LEMMA QuietLeavesStore ==
    ASSUME QuietStep
    PROVE  UNCHANGED <<StoreVars, bootCountSent, countPushPending>>
BY DEF QuietStep, StoreVars, IdleCount, IdleIds, IdleTail, Acquire, CaptureMiss,
       CaptureOk, FingerLifted, CreateDone, EnrollFails, Drain, LoadDone,
       FetchDone, FillDone, FillFails, ForwardDelete

\* They end no upload either.
LEMMA QuietKeepsUpload ==
    ASSUME QuietStep, TypeInv, job = "upload" PROVE job' = "upload"
BY DEF QuietStep, TypeInv, JobInv, IdleCount, IdleIds, IdleTail, Acquire,
       CaptureMiss, CaptureOk, FingerLifted, CreateDone, EnrollFails, Drain,
       LoadDone, FetchDone, FillDone, FillFails, ForwardDelete, StartJob

----------------------------------------------------------------------------
(* The count.                                                               *)

\* Whatever changes the library asks for a new count before RS485Thread is done
\* with it: at once, or at the end of the upload after an enrollment.
FreshInv ==
    bootCountSent /\ ~countPushPending /\ job # "upload" /\ ~countMissed
        => reported = TemplateCount

\* No step that leaves the library and the flags alone disturbs that.
LEMMA FreshFrame ==
    ASSUME FreshInv,
           UNCHANGED <<StoreVars, bootCountSent, countPushPending>>,
           job = "upload" => job' = "upload"
    PROVE  FreshInv'
BY DEF FreshInv, StoreVars, TemplateCount

\* The boot count and the pushed count are both of the library as it is.
LEMMA FreshStep == TypeInv /\ FreshInv /\ [Next]_vars => FreshInv'
<1> SUFFICES ASSUME TypeInv, FreshInv, [Next]_vars PROVE FreshInv'
  OBVIOUS
<1> USE DEF TypeInv, JobInv
<1>1. CASE MainNext
  BY <1>1, MainLeavesStore, FreshFrame
<1>2. CASE Handle
  BY <1>2, HandlerLeavesStore, FreshFrame
<1>3. CASE RsNext /\ ~Handle
  <2>1. CASE QuietStep
    BY <2>1, QuietLeavesStore, QuietKeepsUpload, FreshFrame
  <2>2. CASE CountDone
    BY <2>2 DEF CountDone, SendCount, FreshInv, TemplateCount
  <2>3. CASE EnrollStored
    BY <2>3 DEF EnrollStored, FreshInv
  <2>4. CASE StoreFails
    <3>1. CASE lib' = lib
      BY <2>4, <3>1 DEF StoreFails, FreshInv, TemplateCount, TypeOK, FlagsTyped
    <3>2. CASE lib' # lib
      BY <2>4, <3>2 DEF StoreFails, FreshInv
    <3> QED BY <3>1, <3>2
  <2>5. CASE DownloadFails
    <3>1. CASE job = "get"
      BY <2>5, <3>1, FreshFrame DEF DownloadFails, StoreVars
    <3>2. CASE job = "upload"
      BY <2>5, <3>2 DEF DownloadFails, EndUpload, FreshInv
    <3> QED BY <2>5, <3>1, <3>2 DEF DownloadFails
  <2>6. CASE SendDone
    <3>1. CASE job = "get"
      BY <2>6, <3>1, FreshFrame DEF SendDone, StoreVars
    <3>2. CASE job = "upload"
      BY <2>6, <3>2 DEF SendDone, EndUpload, FreshInv
    <3> QED BY <2>6, <3>1, <3>2 DEF SendDone
  <2>7. CASE PushStored
    BY <2>7 DEF PushStored, FreshInv
  <2>8. CASE EraseDone
    BY <2>8 DEF EraseDone, FreshInv
  <2> QED
    BY <1>3, <2>1, <2>2, <2>3, <2>4, <2>5, <2>6, <2>7, <2>8
       DEF RsNext, QuietStep
<1>4. CASE Environment
  <2>1. CASE PowerCycle
    BY <2>1 DEF PowerCycle, FreshInv
  <2>2. CASE Environment /\ ~PowerCycle
    BY <2>2, FreshFrame DEF Environment, Deliver, ThreeSeconds, SensorLost,
       SensorFound, StoreVars
  <2> QED BY <1>4, <2>1, <2>2
<1>5. CASE UNCHANGED vars
  BY <1>5, FreshFrame DEF StoreVars
<1> QED
  BY <1>1, <1>2, <1>3, <1>4, <1>5 DEF Next

\* With nothing left to send, the count the gateway was last told is that of the
\* templates in the sensor, through enrollments, pushes, deletes and flushes that
\* succeed or fail, power losses and a sensor that errs, is lost and is found,
\* unless a count was lost or could not be read, or a store reported as failed was
\* carried out, since the last count that arrived (ohs_th_rs485.h:84-95, 385-391).
THEOREM ReportedCountIsFresh == Spec => []CountIsFresh
<1>1. Init => FreshInv
  BY DEF Init, FreshInv
<1>2. TypeInv /\ FreshInv /\ [Next]_vars => FreshInv'
  BY FreshStep
<1>3. TypeInv /\ FreshInv => CountIsFresh
  BY DEF TypeInv, JobInv, FreshInv, CountIsFresh
<1> QED
  BY <1>1, <1>2, <1>3, TypeInvariant, PTL DEF Spec

----------------------------------------------------------------------------
(* The IDs.                                                                 *)

\* No step that leaves the library, the IDs and the history alone disturbs them.
LEMMA IdsFrame ==
    ASSUME IdNamesTemplate, UNCHANGED StoreVars PROVE IdNamesTemplate'
BY DEF IdNamesTemplate, StoreVars, reportVars

\* A push that is stored brings the ID of what is stored (ohs_th_rs485.h:588-593),
\* a slot that is erased loses its ID (ohs_th_rs485.h:523, 538).
LEMMA IdsStep ==
    TypeInv /\ BufferInv /\ IdNamesTemplate /\ [Next]_vars => IdNamesTemplate'
<1> SUFFICES ASSUME TypeInv, BufferInv, IdNamesTemplate, [Next]_vars
             PROVE  IdNamesTemplate'
  OBVIOUS
<1> USE DEF TypeInv, JobInv
<1>0. lib \in [Slots -> Contents \cup {Live}] /\ fpId \in [Slots -> Contents]
  BY DEF TypeOK, StoreTyped
<1>1. CASE MainNext
  BY <1>1, MainLeavesStore, IdsFrame
<1>2. CASE Handle
  BY <1>2, HandlerLeavesStore, IdsFrame
<1>3. CASE RsNext /\ ~Handle
  <2>1. CASE QuietStep
    BY <2>1, QuietLeavesStore, IdsFrame
  <2>2. CASE CountDone
    BY <2>2, <1>0 DEF CountDone, SendCount, IdNamesTemplate
  <2>3. CASE EnrollStored
    <3>1. lib' = Stored /\ fpId' = fpId /\ unsure' = unsure \cup {slot}
      BY <2>3 DEF EnrollStored
    <3> QED BY <1>0, <3>1 DEF Stored, IdNamesTemplate
  <2>4. CASE StoreFails
    <3>1. lib' \in {lib, Stored} /\ fpId' = fpId /\ unsure' = unsure \cup {slot}
      BY <2>4 DEF StoreFails, LibAfterFailure
    <3> QED BY <1>0, <3>1 DEF Stored, IdNamesTemplate
  <2>5. CASE DownloadFails \/ SendDone
    BY <2>5, IdsFrame DEF DownloadFails, SendDone, StoreVars
  <2>6. CASE PushStored
    <3>1. charBuf = tmpl /\ slot \in Slots
      BY <2>6 DEF PushStored, BufferInv
    <3>2. lib' = Stored /\ fpId' = IdsWithPush /\ unsure' = unsure \ {slot}
      BY <2>6 DEF PushStored
    <3> QED BY <1>0, <3>1, <3>2 DEF Stored, IdsWithPush, IdNamesTemplate
  <2>7. CASE EraseDone
    <3>1. /\ fpId' = IdsErased
          /\ \/ lib' = Erased /\ unsure' = unsure \ Target
             \/ lib' \in {lib, Erased} /\ unsure' = unsure \cup Target
      BY <2>7 DEF EraseDone, LibAfterFailure
    <3> QED BY <1>0, <3>1 DEF Erased, IdsErased, Target, IdNamesTemplate
  <2> QED
    BY <1>3, <2>1, <2>2, <2>3, <2>4, <2>5, <2>6, <2>7 DEF RsNext, QuietStep
<1>4. CASE Environment
  <2>1. CASE PowerCycle
    <3>1. CASE UNCHANGED lib
      <4>1. fpId' = fpId /\ unsure \subseteq unsure'
        BY <2>1 DEF PowerCycle
      <4> QED BY <1>0, <3>1, <4>1 DEF IdNamesTemplate
    <3>2. CASE rpc = "store" /\ lib' = Stored
      <4>1. fpId' = fpId /\ unsure' = unsure \cup {slot}
        BY <2>1, <3>2 DEF PowerCycle, Target
      <4> QED BY <1>0, <3>2, <4>1 DEF Stored, IdNamesTemplate
    <3>3. CASE rpc = "erase" /\ lib' = Erased
      <4>1. fpId' = fpId /\ unsure' = unsure \cup Target
        BY <2>1, <3>3 DEF PowerCycle
      <4> QED BY <1>0, <3>3, <4>1 DEF Erased, Target, IdNamesTemplate
    <3> QED BY <2>1, <3>1, <3>2, <3>3 DEF PowerCycle
  <2>2. CASE Environment /\ ~PowerCycle
    BY <2>2, IdsFrame DEF Environment, Deliver, ThreeSeconds, SensorLost,
       SensorFound, StoreVars
  <2> QED BY <1>4, <2>1, <2>2
<1>5. CASE UNCHANGED vars
  BY <1>5, IdsFrame DEF StoreVars
<1> QED
  BY <1>1, <1>2, <1>3, <1>4, <1>5 DEF Next

\* conf.fpId and the library come apart only in a slot whose last change was an
\* enrollment, failed, or was cut by a power loss: on every other one, whatever
\* order pushes, deletes, flushes and faults come in, an ID is that of the template
\* in its slot and ID 0 means that there is none (main.c:116).
THEOREM SlotIdNamesTemplate == Spec => []IdNamesTemplate
<1>1. Init => IdNamesTemplate
  BY DEF Init, IdNamesTemplate
<1>2. TypeInv /\ BufferInv /\ IdNamesTemplate /\ [Next]_vars => IdNamesTemplate'
  BY IdsStep
<1> QED
  BY <1>1, <1>2, TypeInvariant, BufferInvariant, PTL DEF Spec
============================================================================
