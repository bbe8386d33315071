------------------------------ MODULE AuthLoop ------------------------------
(***************************************************************************)
(* The main loop of main.c in full: the LED block with its health check of  *)
(* the R503 sensor, and the scan that counts matches and reports them to    *)
(* the gateway.  FingerNode has the same loop with less data and the other  *)
(* thread in full; here RS485Thread only sets the mode, between any two     *)
(* sensor commands.                                                        *)
(*                                                                         *)
(* The gateway's contact is abstracted: in MODE_DISARMED it may have        *)
(* changed since the last LED command.  Songs and NFC are left out.         *)
(***************************************************************************)
EXTENDS NodeModes, FiniteSets

CONSTANTS
    Slots,           \* template locations
    NodeModesUsed,   \* the modes RS485Thread sets
    NoMode,          \* (authMode_t)0xFF
    None,            \* DUMMY_NO_VALUE; and no report
    LedPeriod,       \* 10 in the code
    FINGER_PASSED,          \* 4 in the code
    FINGER_PASSED_COOLDOWN, \* -4 in the code
    MaxFaults,       \* errors of a connected sensor: a bound for TLC
    SensorLoss       \* the sensor may be unplugged, and plugged in again

ASSUME AuthLoopAssumption ==
    /\ NodeModesUsed \subseteq Modes \ {MODE_UNINITIALIZED}
    /\ NoMode \notin Modes /\ None \notin Slots
    /\ LedPeriod \in Nat \ {0} /\ FINGER_PASSED \in Nat
    /\ FINGER_PASSED_COOLDOWN \in Int /\ FINGER_PASSED_COOLDOWN < 0
    /\ MaxFaults \in Nat /\ SensorLoss \in BOOLEAN

VARIABLES
    mode,           \* nodeState.mode
    mpc,            \* where the loop is: the sensor command in flight
    count,          \* loops until the next LED block
    ledModeChanged,
    target,         \* the mode the LED command in flight is for
    lastLedMode,
    fpErrCount,
    fpError,        \* INIT_ERROR_FP is set
    fingerCount, fingerPassed, location,
    sensorUp,       \* the sensor is connected
    faults,         \* errors it has made
    ledMode,        \* history: the mode the LED in the sensor shows
    matched,        \* history: locations matched since the last report
    held,           \* history: scans begun since the first of them
    lifted,         \* history: one of these found no finger
    sent            \* the report just sent, or None

ledVars   == <<ledModeChanged, target, lastLedMode, ledMode>>
errVars   == <<fpErrCount, fpError>>
matchVars == <<fingerCount, location, matched, lifted>>
vars == <<mode, mpc, count, ledVars, errVars, matchVars, fingerPassed, held,
          sensorUp, faults, sent>>

Armed == mode \in {MODE_ARMED_AWAY, MODE_ARMED_HOME}

\* Consecutive errors, counted no further than the limit they are compared to.
ErrorLimit == 3
MoreErrors == IF fpErrCount < ErrorLimit THEN fpErrCount + 1 ELSE ErrorLimit

TypeOK ==
    /\ mode \in Modes /\ {lastLedMode, ledMode, target} \subseteq Modes \cup {NoMode}
    /\ mpc \in {"top", "ledwait", "led", "check", "image", "match"}
    /\ count \in -1 .. LedPeriod
    /\ {ledModeChanged, fpError, sensorUp, lifted} \subseteq BOOLEAN
    /\ fpErrCount \in 0 .. ErrorLimit /\ faults \in 0 .. MaxFaults
    /\ fingerCount \in 0 .. FINGER_PASSED + 1
    /\ fingerPassed \in FINGER_PASSED_COOLDOWN .. FINGER_PASSED + 1
    /\ location \in Slots \cup {None} /\ matched \subseteq Slots
    /\ held \in 0 .. FINGER_PASSED + 1
    /\ sent = None \/ sent.location \in Slots

Init ==
    /\ mode = MODE_DISARMED /\ mpc = "top" /\ count = -1
    /\ ledModeChanged = FALSE /\ target = NoMode
    /\ lastLedMode = NoMode /\ ledMode = NoMode
    /\ fpErrCount = 0 /\ fpError = FALSE
    /\ fingerCount = 0 /\ fingerPassed = 0 /\ location = None
    /\ sensorUp = TRUE /\ faults = 0
    /\ matched = {} /\ held = 0 /\ lifted = FALSE /\ sent = None

----------------------------------------------------------------------------
\* What a command to the sensor returns: R503_OK, R503_TIMEOUT or another error.
Returns(r) ==
    \/ sensorUp /\ r = "ok" /\ UNCHANGED faults
    \/ sensorUp /\ r \in {"timeout", "other"}
       /\ faults < MaxFaults /\ faults' = faults + 1
    \/ ~sensorUp /\ r = "timeout" /\ UNCHANGED faults

\* Mutant: fingerPassed stops one short.
AuthenticateShort ==
    \/ /\ mode >= MODE_ARMING
       /\ fingerPassed' = IF fingerPassed < FINGER_PASSED THEN fingerPassed + 1
                          ELSE fingerPassed
       /\ mpc' = "image" /\ UNCHANGED held
    \/ mode < MODE_ARMING /\ mpc' = "top" /\ UNCHANGED <<fingerPassed, held>>

\* The end of the LED block, and on to a scan if authentication is allowed.
Authenticate ==
    \/ /\ mode >= MODE_ARMING
       /\ fingerPassed' = fingerPassed + 1 /\ mpc' = "image"
       /\ held' = IF fingerCount > 0 /\ held <= FINGER_PASSED
                  THEN held + 1 ELSE held
    \/ mode < MODE_ARMING /\ mpc' = "top" /\ UNCHANGED <<fingerPassed, held>>

\* Mutant: count is never reset.
CountDownOnly == count - 1

NextCount == IF count > 0 THEN count - 1 ELSE LedPeriod

Loop ==
    /\ mpc = "top" /\ count # 0 /\ count' = NextCount
    /\ Authenticate
    /\ sent' = None
    /\ UNCHANGED <<mode, ledVars, errVars, matchVars, sensorUp, faults>>

\* ledModeChanged is worked out before the wait for R503Sem.
LedBlock ==
    /\ mpc = "top" /\ count = 0
    /\ \E gwChanged \in BOOLEAN :
           ledModeChanged' = (\/ mode # lastLedMode
                              \/ mode = MODE_DISARMED /\ gwChanged)
    /\ mpc' = "ledwait" /\ sent' = None
    /\ UNCHANGED <<mode, count, target, lastLedMode, ledMode, errVars, matchVars,
                   fingerPassed, held, sensorUp, faults>>

\* With R503Sem: R503CheckSensor, or R503SetAuraLED for what is now the mode.
LedCommand ==
    /\ mpc = "ledwait"
    /\ \/ /\ ~ledModeChanged /\ mpc' = "check" /\ UNCHANGED target
       \/ /\ ledModeChanged /\ mode # MODE_ENROLLMENT
          /\ mpc' = "led" /\ target' = mode
    /\ UNCHANGED <<mode, count, ledModeChanged, lastLedMode, ledMode, errVars,
                   matchVars, fingerPassed, held, sensorUp, faults, sent>>

\* The switch has no case for MODE_ENROLLMENT: no command, no health check.
LedNoCase ==
    /\ mpc = "ledwait" /\ ledModeChanged /\ mode = MODE_ENROLLMENT
    /\ lastLedMode' = mode /\ count' = count - 1
    /\ Authenticate
    /\ UNCHANGED <<mode, ledModeChanged, target, ledMode, errVars, matchVars,
                   sensorUp, faults, sent>>

\* The health check on the result r of the LED block's command, which leaves
\* lastLedMode at led unless it has just found the sensor disconnected.
Health(r, led) ==
    \/ /\ r = "ok"
       /\ fpErrCount' = 0 /\ fpError' = FALSE /\ lastLedMode' = led
    \/ /\ r = "timeout"
       /\ fpError' = TRUE /\ UNCHANGED fpErrCount
       /\ lastLedMode' = IF fpError THEN led ELSE NoMode
    \/ /\ r = "other"
       /\ fpErrCount' = MoreErrors
       /\ fpError' = (fpError \/ MoreErrors >= ErrorLimit)
       /\ lastLedMode' = IF fpError' /\ ~fpError THEN NoMode ELSE led

\* lastLedMode is the mode when the command has returned, whatever it returned.
LedDone ==
    /\ mpc = "led" /\ count' = count - 1
    /\ \E r \in {"ok", "timeout", "other"} :
           /\ Returns(r) /\ Health(r, mode)
           /\ \/ sensorUp /\ ledMode' = target
              \/ r # "ok" /\ UNCHANGED ledMode
    /\ Authenticate
    /\ UNCHANGED <<mode, ledModeChanged, target, matchVars, sensorUp, sent>>

CheckDone ==
    /\ mpc = "check" /\ count' = count - 1
    /\ \E r \in {"ok", "timeout", "other"} : Returns(r) /\ Health(r, lastLedMode)
    /\ Authenticate
    /\ UNCHANGED <<mode, ledModeChanged, target, ledMode, matchVars, sensorUp,
                   sent>>

----------------------------------------------------------------------------
(* The scan.                                                                *)
\* Mutants: reports without a match; reports one scan early.
ReportsAnything(n) == n >= 0 /\ (fingerPassed > FINGER_PASSED \/ Armed)
ReportsEarly(n) == n > 0 /\ (fingerPassed >= FINGER_PASSED \/ Armed)

\* One match reports at once in an armed mode, else when scans enough have passed.
Reports(n) == n > 0 /\ (fingerPassed > FINGER_PASSED \/ Armed)

\* Matches, counted no further than a hold lasts: only 0 is told apart.
MoreMatches == IF fingerCount <= FINGER_PASSED + 1 THEN fingerCount + 1
               ELSE fingerCount

\* The scan ends with n matches counted, location at loc: fingerPassed is reset
\* if there is no match, and a report restarts the count below 0.  A finger that
\* is off resets nothing.
EndScan(n, loc, m, off) ==
    /\ mpc' = "top"
    /\ \/ /\ Reports(n)
          /\ sent' = [location |-> loc, matched |-> m, held |-> held,
                      lifted |-> lifted \/ off, armed |-> Armed]
          /\ fingerCount' = 0 /\ fingerPassed' = FINGER_PASSED_COOLDOWN
          /\ location' = None /\ matched' = {} /\ held' = 0 /\ lifted' = FALSE
       \/ /\ ~Reports(n)
          /\ fingerPassed' = IF n = 0 THEN -1 ELSE fingerPassed
          /\ fingerCount' = n /\ location' = loc /\ matched' = m
          /\ lifted' = (n > 0 /\ (lifted \/ off))
          /\ UNCHANGED <<sent, held>>

\* Mutant: only an image shows that the sensor works.
ImageAnsweredFingerOnly ==
    /\ mpc = "image" /\ sensorUp
    /\ \/ /\ fingerPassed >= 0 /\ mpc' = "match"
          /\ fpErrCount' = 0 /\ fpError' = FALSE
          /\ UNCHANGED <<matchVars, fingerPassed, held, sent>>
       \/ /\ fpErrCount' = MoreErrors
          /\ fpError' = (fpError \/ MoreErrors >= ErrorLimit)
          /\ EndScan(fingerCount, location, matched, TRUE)
    /\ UNCHANGED <<mode, count, ledVars, sensorUp, faults>>

\* R503TakeImage answered: with an image, of no use while fingerPassed is below 0,
\* or that there is no finger.
ImageAnswered ==
    /\ mpc = "image" /\ sensorUp
    /\ fpErrCount' = 0 /\ fpError' = FALSE
    /\ \/ /\ fingerPassed >= 0 /\ mpc' = "match"
          /\ UNCHANGED <<matchVars, fingerPassed, held, sent>>
       \/ fingerPassed < 0 /\ EndScan(fingerCount, location, matched, FALSE)
       \/ EndScan(fingerCount, location, matched, TRUE)
    /\ UNCHANGED <<mode, count, ledVars, sensorUp, faults>>

\* Mutant: an error counts as no finger.
ImageFailsAsNoFinger ==
    /\ mpc = "image"
    /\ \E r \in {"timeout", "other"} : Returns(r)
    /\ fpErrCount' = 0 /\ fpError' = FALSE
    /\ EndScan(fingerCount, location, matched, FALSE)
    /\ UNCHANGED <<mode, count, ledVars, sensorUp>>

ImageFails ==
    /\ mpc = "image"
    /\ \E r \in {"timeout", "other"} : Returns(r)
    /\ fpErrCount' = MoreErrors
    /\ fpError' = (fpError \/ MoreErrors >= ErrorLimit)
    /\ EndScan(fingerCount, location, matched, FALSE)
    /\ UNCHANGED <<mode, count, ledVars, sensorUp>>

\* The LED shows the result of the search, over the mode it showed.
ShowResult ==
    /\ ledMode' \in {ledMode, NoMode}
    /\ UNCHANGED <<ledModeChanged, target, lastLedMode>>

\* R503ExtractFeatures and R503SearchFinger; whatever the answer to the search,
\* location takes the number in it.
Match ==
    /\ mpc = "match" /\ sensorUp
    /\ \E s \in Slots : EndScan(MoreMatches, s, matched \cup {s}, FALSE)
    /\ ShowResult
    /\ UNCHANGED <<mode, count, errVars, sensorUp, faults>>

NoMatch ==
    /\ mpc = "match" /\ sensorUp
    /\ \E s \in Slots : EndScan(fingerCount, s, matched, FALSE)
    /\ ShowResult
    /\ UNCHANGED <<mode, count, errVars, sensorUp, faults>>

\* No features in the image, or no answer.
MatchFails ==
    /\ mpc = "match"
    /\ EndScan(fingerCount, location, matched, FALSE)
    /\ UNCHANGED <<mode, count, ledVars, errVars, sensorUp, faults>>

MainNext ==
    \/ Loop \/ LedBlock \/ LedCommand \/ LedNoCase \/ LedDone \/ CheckDone
    \/ ImageAnswered \/ ImageFails \/ Match \/ NoMatch \/ MatchFails

----------------------------------------------------------------------------
(* RS485Thread sets the mode; the sensor comes and goes.                    *)
ModeChange ==
    /\ mode' \in NodeModesUsed \ {mode}
    /\ UNCHANGED <<mpc, count, ledVars, errVars, matchVars, fingerPassed, held,
                   sensorUp, faults, sent>>

Unplugged ==
    /\ SensorLoss /\ sensorUp /\ sensorUp' = FALSE
    /\ UNCHANGED <<mode, mpc, count, ledVars, errVars, matchVars, fingerPassed,
                   held, faults, sent>>

\* The sensor has lost its LED state.
PluggedIn ==
    /\ ~sensorUp /\ sensorUp' = TRUE /\ ledMode' = NoMode
    /\ UNCHANGED <<mode, mpc, count, ledModeChanged, target, lastLedMode, errVars,
                   matchVars, fingerPassed, held, faults, sent>>

Next == MainNext \/ ModeChange \/ Unplugged \/ PluggedIn

Spec == Init /\ [][Next]_vars

\* The main thread keeps running: every sensor command returns within the R503
\* timeouts, and no thread of a higher priority runs for long.
FairSpec == Spec /\ WF_vars(MainNext)

----------------------------------------------------------------------------
(* Properties.                                                              *)

\* A report follows a match that no report followed before, however scans fail
\* and modes change in between.
ReportsAMatch == sent # None => sent.matched # {}

\* In a mode that is not armed a match is not reported before FINGER_PASSED more
\* scans have begun since the first one that matched, from boot on and after every
\* report (main.c:99, 657): whether or not these find a finger.
WaitsUnlessArmed == sent # None /\ ~sent.armed => sent.held >= FINGER_PASSED

\* ... "if the hold turns out to be long enough" (main.c:601-602): no scan between
\* the match and its report has found the finger gone.  No run checks it: it
\* fails (README, section 5).
HeldUnlessArmed == sent # None /\ ~sent.armed => ~sent.lifted

\* The location reported is one that was matched ("location of the found
\* finger", R503.c:680; "fingerId Fingerprint ID", ohs_th_rs485.h:133).  No run
\* checks it: it fails (README, section 5).
ReportsWhatMatched == sent # None => sent.location \in sent.matched

Working == mode # MODE_ENROLLMENT

\* A matched finger that stays on the sensor is reported in the end, whatever
\* errors the sensor makes and whatever the mode becomes, unless an enrollment bars
\* the loop for good.
HoldIsReported ==
    <>[]Working => [](fingerCount > 0 => <>(fingerCount = 0 \/ lifted))

\* A sensor that is gone for good is flagged for good, whichever path of the
\* loop meets it first (main.c:507).
LossIsFlagged == <>[](~sensorUp /\ Working) => <>[]fpError

\* A sensor that is back for good has the flag cleared for good (main.c:515).
RecoveryIsSeen == <>[](sensorUp /\ Working) => <>[]~fpError

\* A sensor that comes back from a disconnection that was flagged gets its LED
\* set again ("force a real LED resync on recovery", main.c:520).  No run checks
\* it: it fails (README, section 5).
LedResynced == [](fpError /\ sensorUp => <>(~sensorUp \/ ledMode = mode))

============================================================================
