--------------------------- MODULE AuthLoopProofs ---------------------------
(***************************************************************************)
(* Theorems about AuthLoop: what the main loop counts from a match to its   *)
(* report, for every FINGER_PASSED and FINGER_PASSED_COOLDOWN, every        *)
(* LedPeriod and set of Slots, any number of sensor errors, and with or     *)
(* without loss of the sensor.                                             *)
(***************************************************************************)
EXTENDS AuthLoop, TLAPS

\* TypeOK in two parts: what no scan touches, and what it counts.
NodeTyped ==
    /\ mode \in Modes /\ {lastLedMode, ledMode, target} \subseteq Modes \cup {NoMode}
    /\ ledModeChanged \in BOOLEAN /\ fpError \in BOOLEAN /\ sensorUp \in BOOLEAN
    /\ fpErrCount \in 0 .. ErrorLimit /\ faults \in 0 .. MaxFaults

CountsTyped ==
    /\ mpc \in {"top", "ledwait", "led", "check", "image", "match"}
    /\ fingerCount \in 0 .. FINGER_PASSED + 1
    /\ fingerPassed \in FINGER_PASSED_COOLDOWN .. FINGER_PASSED + 1
    /\ held \in 0 .. FINGER_PASSED + 1
    /\ location \in Slots \cup {None} /\ matched \subseteq Slots

InScan == mpc \in {"image", "match"}

\* The LED block runs when the count is 0, and ends the wait for it.
LedInv == mpc \in {"ledwait", "led", "check"} => count = 0

\* fingerPassed is at most FINGER_PASSED when a scan begins, and a scan that
\* finds it above reports or resets it; an image is searched from 0 on only.
PassedInv ==
    /\ ~InScan => fingerPassed <= FINGER_PASSED
    /\ mpc = "match" => fingerPassed >= 0

\* No match is counted: the scans before do not count for the next one.
NoCountInv ==
    fingerCount = 0 =>
        held = 0 /\ fingerPassed <= IF InScan THEN 1 ELSE 0

\* Matches are counted: fingerPassed has not been reset since the first of
\* them, which it had reached at 0 or 1, so that it counts the scans since.
CountInv ==
    fingerCount > 0 =>
        /\ matched # {} /\ location \in Slots
        /\ 0 <= fingerPassed
        /\ fingerCount <= IF InScan THEN fingerPassed ELSE fingerPassed + 1
        /\ fingerPassed <= held + 1

SentInv ==
    sent # None =>
        /\ sent.location \in Slots /\ sent.matched # {}
        /\ ~sent.armed => sent.held >= FINGER_PASSED

ScanInv == PassedInv /\ NoCountInv /\ CountInv

LoopInv ==
    /\ NodeTyped /\ CountsTyped /\ count \in -1 .. LedPeriod
    /\ LedInv /\ ScanInv /\ SentInv /\ lifted \in BOOLEAN

USE AuthLoopAssumption DEF ErrorLimit, vars, ledVars, errVars, matchVars,
                           InScan, ScanInv, PassedInv, NoCountInv, CountInv

----------------------------------------------------------------------------
\* The end of the LED block: a scan begins with one more scan passed, and
\* one more since the match if one is counted, or the loop starts again.
LEMMA AuthenticateStep ==
    ASSUME CountsTyped, ScanInv, ~InScan, Authenticate, UNCHANGED matchVars
    PROVE  CountsTyped' /\ ScanInv'
<1>1. CASE mode < MODE_ARMING /\ mpc' = "top" /\ UNCHANGED <<fingerPassed, held>>
  BY <1>1 DEF CountsTyped
<1>2. CASE mode >= MODE_ARMING /\ fingerPassed' = fingerPassed + 1 /\ mpc' = "image"
           /\ held' = IF fingerCount > 0 /\ held <= FINGER_PASSED THEN held + 1 ELSE held
  <2>1. fingerPassed' \in FINGER_PASSED_COOLDOWN .. FINGER_PASSED + 1
    BY <1>2 DEF CountsTyped
  <2>2. held' \in 0 .. FINGER_PASSED + 1
    BY <1>2 DEF CountsTyped
  <2>3. CountsTyped'
    BY <1>2, <2>1, <2>2 DEF CountsTyped
  <2>4. PassedInv'
    BY <1>2
  <2>5. NoCountInv'
    BY <1>2 DEF CountsTyped
  <2>6. CountInv'
    BY <1>2, <2>1, <2>2 DEF CountsTyped
  <2> QED BY <2>3, <2>4, <2>5, <2>6
<1> QED BY <1>1, <1>2 DEF Authenticate

\* The end of a scan, with no match or one match more than before it: a report
\* follows a match, and outside an armed mode FINGER_PASSED scans more.
LEMMA EndScanStep ==
    ASSUME CountsTyped, ScanInv, SentInv, InScan,
           NEW n \in Nat, NEW loc \in Slots \cup {None}, NEW m \in SUBSET Slots,
           NEW off \in BOOLEAN,
           \/ n = fingerCount /\ m = matched
              /\ (fingerCount > 0 => loc \in Slots)
           \/ n = fingerCount + 1 /\ m # {} /\ loc \in Slots /\ fingerPassed >= 0,
           EndScan(n, loc, m, off)
    PROVE  CountsTyped' /\ ScanInv' /\ SentInv'
<1>1. n > 0 => m # {} /\ loc \in Slots /\ fingerPassed >= 0 /\ n <= fingerPassed + 1
               /\ fingerPassed <= held + 1
  BY DEF CountsTyped
<1>2. CASE Reports(n)
  <2>1. /\ mpc' = "top" /\ fingerCount' = 0 /\ fingerPassed' = FINGER_PASSED_COOLDOWN
        /\ location' = None /\ matched' = {} /\ held' = 0
        /\ sent' = [location |-> loc, matched |-> m, held |-> held,
                    lifted |-> lifted \/ off, armed |-> Armed]
    BY <1>2 DEF EndScan
  <2>2. CountsTyped' /\ ScanInv'
    BY <2>1 DEF CountsTyped
  <2>3. n > 0 /\ (fingerPassed > FINGER_PASSED \/ Armed)
    BY <1>2 DEF Reports
  <2>4. ~Armed => held >= FINGER_PASSED
    BY <2>3, <1>1 DEF CountsTyped
  <2>5. SentInv'
    BY <2>1, <2>3, <2>4, <1>1 DEF SentInv
  <2> QED BY <2>2, <2>5
<1>3. CASE ~Reports(n)
  <2>1. /\ mpc' = "top" /\ fingerPassed' = IF n = 0 THEN -1 ELSE fingerPassed
        /\ fingerCount' = n /\ location' = loc /\ matched' = m
        /\ UNCHANGED <<sent, held>>
    BY <1>3 DEF EndScan
  <2>2. n > 0 => fingerPassed <= FINGER_PASSED
    BY <1>3 DEF Reports, CountsTyped
  <2>3. CountsTyped'
    BY <2>1, <2>2, <1>1 DEF CountsTyped
  <2>4. ScanInv'
    BY <2>1, <2>2, <1>1 DEF CountsTyped
  <2>5. SentInv'
    BY <2>1 DEF SentInv
  <2> QED BY <2>3, <2>4, <2>5
<1> QED BY <1>2, <1>3

----------------------------------------------------------------------------
\* A sensor command leaves the count of errors and the health flags in range.
LEMMA HealthTyped ==
    ASSUME NodeTyped, NEW r \in {"ok", "timeout", "other"},
           NEW led \in Modes \cup {NoMode}, Returns(r), Health(r, led)
    PROVE  /\ faults' \in 0 .. MaxFaults /\ fpErrCount' \in 0 .. ErrorLimit
           /\ fpError' \in BOOLEAN /\ lastLedMode' \in Modes \cup {NoMode}
<1>1. faults' \in 0 .. MaxFaults
  BY DEF Returns, NodeTyped
<1>2. MoreErrors \in 0 .. ErrorLimit
  BY DEF MoreErrors, NodeTyped
<1>3. (MoreErrors >= ErrorLimit) \in BOOLEAN
  BY <1>2
<1>4. fpErrCount' \in 0 .. ErrorLimit
  BY <1>2 DEF Health, NodeTyped
<1>5. fpError' \in BOOLEAN
  BY <1>3, Zenon DEF Health, NodeTyped
<1>6. lastLedMode' \in Modes \cup {NoMode}
  BY DEF Health
<1> QED BY <1>1, <1>4, <1>5, <1>6

\* The history of a lifted finger is a truth value.
LEMMA LiftedStep == lifted \in BOOLEAN /\ [Next]_vars => lifted' \in BOOLEAN
<1> SUFFICES ASSUME lifted \in BOOLEAN, [Next]_vars PROVE lifted' \in BOOLEAN
  OBVIOUS
<1>1. ASSUME NEW n, NEW loc, NEW m, NEW off, EndScan(n, loc, m, off)
      PROVE  lifted' \in BOOLEAN
  <2>1. lifted' = FALSE \/ lifted' = (n > 0 /\ (lifted \/ off))
    BY <1>1, Zenon DEF EndScan
  <2>2. (n > 0 /\ (lifted \/ off)) \in BOOLEAN
    BY Zenon
  <2> QED BY <2>1, <2>2, Zenon
<1>2. CASE UNCHANGED lifted
  BY <1>2
<1>3. CASE ~UNCHANGED lifted
  <2>1. ImageAnswered \/ ImageFails \/ Match \/ NoMatch \/ MatchFails
    BY <1>3 DEF Next, MainNext, Loop, LedBlock, LedCommand, LedNoCase, LedDone,
                CheckDone, ModeChange, Unplugged, PluggedIn
  <2>2. \E n, loc, m, off : EndScan(n, loc, m, off)
    BY <1>3, <2>1 DEF ImageAnswered, ImageFails, Match, NoMatch, MatchFails
  <2> QED BY <1>1, <2>2
<1> QED BY <1>2, <1>3

\* Every step keeps the invariant.
LEMMA LoopStep == LoopInv /\ [Next]_vars => LoopInv'
<1> SUFFICES ASSUME LoopInv, [Next]_vars PROVE LoopInv'
  OBVIOUS
<1> /\ NodeTyped /\ CountsTyped /\ count \in -1 .. LedPeriod
    /\ LedInv /\ ScanInv /\ SentInv /\ lifted \in BOOLEAN
  BY DEF LoopInv
<1> lifted' \in BOOLEAN
  BY LiftedStep
<1>0. fingerCount \in Nat /\ matched \in SUBSET Slots /\ location \in Slots \cup {None}
  BY DEF CountsTyped
<1>1. CASE Loop
  <2>1. CountsTyped' /\ ScanInv'
    BY <1>1, AuthenticateStep DEF Loop
  <2>2. NodeTyped' /\ SentInv'
    BY <1>1 DEF Loop, NodeTyped, SentInv
  <2>3. count' \in -1 .. LedPeriod
    BY <1>1 DEF Loop, NextCount
  <2>4. LedInv'
    BY <1>1 DEF Loop, LedInv, Authenticate
  <2> QED BY <2>1, <2>2, <2>3, <2>4 DEF LoopInv
<1>2. CASE LedBlock
  <2>1. CountsTyped' /\ ScanInv' /\ SentInv'
    BY <1>2 DEF LedBlock, CountsTyped, SentInv
  <2>2. NodeTyped' /\ LedInv' /\ count' \in -1 .. LedPeriod
    BY <1>2 DEF LedBlock, NodeTyped, LedInv
  <2> QED BY <2>1, <2>2 DEF LoopInv
<1>3. CASE LedCommand
  <2>1. CountsTyped' /\ ScanInv' /\ SentInv'
    BY <1>3 DEF LedCommand, CountsTyped, SentInv
  <2>2. NodeTyped' /\ LedInv' /\ count' \in -1 .. LedPeriod
    BY <1>3 DEF LedCommand, NodeTyped, LedInv
  <2> QED BY <2>1, <2>2 DEF LoopInv
<1>4. CASE LedNoCase
  <2>1. CountsTyped' /\ ScanInv'
    BY <1>4, AuthenticateStep DEF LedNoCase
  <2>2. NodeTyped' /\ SentInv'
    BY <1>4 DEF LedNoCase, NodeTyped, SentInv
  <2>3. LedInv' /\ count' \in -1 .. LedPeriod
    BY <1>4 DEF LedNoCase, LedInv, Authenticate
  <2> QED BY <2>1, <2>2, <2>3 DEF LoopInv
<1>5. CASE LedDone
  <2>1. CountsTyped' /\ ScanInv'
    BY <1>5, AuthenticateStep DEF LedDone
  <2>2. mode \in Modes \cup {NoMode}
    BY DEF NodeTyped
  <2>3. /\ faults' \in 0 .. MaxFaults /\ fpErrCount' \in 0 .. ErrorLimit
        /\ fpError' \in BOOLEAN /\ lastLedMode' \in Modes \cup {NoMode}
    BY <1>5, <2>2, HealthTyped DEF LedDone
  <2>4. NodeTyped' /\ SentInv'
    BY <1>5, <2>3 DEF LedDone, NodeTyped, SentInv
  <2>5. LedInv' /\ count' \in -1 .. LedPeriod
    BY <1>5 DEF LedDone, LedInv, Authenticate
  <2> QED BY <2>1, <2>4, <2>5 DEF LoopInv
<1>6. CASE CheckDone
  <2>1. CountsTyped' /\ ScanInv'
    BY <1>6, AuthenticateStep DEF CheckDone
  <2>2. lastLedMode \in Modes \cup {NoMode}
    BY DEF NodeTyped
  <2>3. /\ faults' \in 0 .. MaxFaults /\ fpErrCount' \in 0 .. ErrorLimit
        /\ fpError' \in BOOLEAN /\ lastLedMode' \in Modes \cup {NoMode}
    BY <1>6, <2>2, HealthTyped DEF CheckDone
  <2>4. NodeTyped' /\ SentInv'
    BY <1>6, <2>3 DEF CheckDone, NodeTyped, SentInv
  <2>5. LedInv' /\ count' \in -1 .. LedPeriod
    BY <1>6 DEF CheckDone, LedInv, Authenticate
  <2> QED BY <2>1, <2>4, <2>5 DEF LoopInv
<1>7. CASE ImageAnswered
  <2>1. /\ fpErrCount' = 0 /\ fpError' = FALSE
        /\ UNCHANGED <<mode, count, ledVars, sensorUp, faults>>
    BY <1>7 DEF ImageAnswered
  <2>2. ledModeChanged' \in BOOLEAN /\ fpError' \in BOOLEAN /\ sensorUp' \in BOOLEAN
    BY <2>1 DEF NodeTyped
  <2>3. NodeTyped' /\ count' \in -1 .. LedPeriod
    BY <2>1, <2>2 DEF NodeTyped
  <2>4. CASE fingerPassed >= 0 /\ mpc' = "match" /\ UNCHANGED <<matchVars, fingerPassed, held, sent>>
    BY <1>7, <2>3, <2>4 DEF ImageAnswered, CountsTyped, LedInv, SentInv, LoopInv
  <2>5. CASE \E off \in BOOLEAN : EndScan(fingerCount, location, matched, off)
    <3>0. PICK off \in BOOLEAN : EndScan(fingerCount, location, matched, off)
      BY <2>5
    <3>1. CountsTyped' /\ ScanInv' /\ SentInv'
      BY <1>0, <1>7, <3>0, EndScanStep DEF ImageAnswered
    <3>2. LedInv'
      BY <3>0 DEF EndScan, LedInv
    <3> QED BY <2>3, <3>1, <3>2 DEF LoopInv
  <2> QED BY <1>7, <2>4, <2>5 DEF ImageAnswered
<1>8. CASE ImageFails
  <2>1. MoreErrors \in 0 .. ErrorLimit /\ (MoreErrors >= ErrorLimit) \in BOOLEAN
    BY DEF MoreErrors, NodeTyped
  <2>2. fpError' \in BOOLEAN
    BY <1>8, <2>1, Zenon DEF ImageFails, NodeTyped
  <2>3. NodeTyped' /\ count' \in -1 .. LedPeriod
    BY <1>8, <2>1, <2>2 DEF ImageFails, NodeTyped, Returns
  <2>4. CountsTyped' /\ ScanInv' /\ SentInv'
    BY <1>0, <1>8, EndScanStep DEF ImageFails
  <2>5. LedInv'
    BY <1>8 DEF ImageFails, EndScan, LedInv
  <2> QED BY <2>3, <2>4, <2>5 DEF LoopInv
<1>9. CASE Match
  <2>1. PICK s \in Slots : EndScan(MoreMatches, s, matched \cup {s}, FALSE)
    BY <1>9 DEF Match
  <2>2. fingerCount <= FINGER_PASSED + 1
    BY DEF CountsTyped
  <2>3. MoreMatches = fingerCount + 1 /\ MoreMatches \in Nat
    BY <2>2, <1>0 DEF MoreMatches
  <2>4. matched \cup {s} \in SUBSET Slots /\ matched \cup {s} # {}
    BY DEF CountsTyped
  <2>5. fingerPassed >= 0 /\ InScan
    BY <1>9 DEF Match
  <2>6. CountsTyped' /\ ScanInv' /\ SentInv'
    BY <2>1, <2>3, <2>4, <2>5, EndScanStep
  <2>7. NodeTyped' /\ count' \in -1 .. LedPeriod
    BY <1>9 DEF Match, ShowResult, NodeTyped
  <2>8. LedInv'
    BY <2>1 DEF EndScan, LedInv
  <2> QED BY <2>6, <2>7, <2>8 DEF LoopInv
<1>10. CASE NoMatch
  <2>1. PICK s \in Slots : EndScan(fingerCount, s, matched, FALSE)
    BY <1>10 DEF NoMatch
  <2>2. CountsTyped' /\ ScanInv' /\ SentInv'
    BY <1>0, <1>10, <2>1, EndScanStep DEF NoMatch
  <2>3. NodeTyped' /\ count' \in -1 .. LedPeriod
    BY <1>10 DEF NoMatch, ShowResult, NodeTyped
  <2>4. LedInv'
    BY <2>1 DEF EndScan, LedInv
  <2> QED BY <2>2, <2>3, <2>4 DEF LoopInv
<1>11. CASE MatchFails
  <2>1. CountsTyped' /\ ScanInv' /\ SentInv'
    BY <1>0, <1>11, EndScanStep DEF MatchFails
  <2>2. NodeTyped' /\ count' \in -1 .. LedPeriod /\ LedInv'
    BY <1>11 DEF MatchFails, EndScan, NodeTyped, LedInv
  <2> QED BY <2>1, <2>2 DEF LoopInv
<1>12. CASE ModeChange
  <2>1. CountsTyped' /\ ScanInv' /\ SentInv'
    BY <1>12 DEF ModeChange, CountsTyped, SentInv
  <2>2. NodeTyped' /\ LedInv' /\ count' \in -1 .. LedPeriod
    BY <1>12 DEF ModeChange, NodeTyped, LedInv
  <2> QED BY <2>1, <2>2 DEF LoopInv
<1>13. CASE Unplugged \/ PluggedIn
  <2>1. CountsTyped' /\ ScanInv' /\ SentInv'
    BY <1>13 DEF Unplugged, PluggedIn, CountsTyped, SentInv
  <2>2. NodeTyped' /\ LedInv' /\ count' \in -1 .. LedPeriod
    BY <1>13 DEF Unplugged, PluggedIn, NodeTyped, LedInv
  <2> QED BY <2>1, <2>2 DEF LoopInv
<1>14. CASE UNCHANGED vars
  <2>1. CountsTyped' /\ ScanInv' /\ SentInv'
    BY <1>14 DEF CountsTyped, SentInv
  <2>2. NodeTyped' /\ LedInv' /\ count' \in -1 .. LedPeriod
    BY <1>14 DEF NodeTyped, LedInv
  <2> QED BY <2>1, <2>2 DEF LoopInv
<1> QED BY <1>1, <1>2, <1>3, <1>4, <1>5, <1>6, <1>7, <1>8, <1>9, <1>10, <1>11,
           <1>12, <1>13, <1>14 DEF Next, MainNext

\* It holds at boot.
LEMMA LoopInit == Init => LoopInv
<1> SUFFICES ASSUME Init PROVE LoopInv
  OBVIOUS
<1>1. MODE_DISARMED \in Modes
  BY DEF Modes, CommandedModes, MODE_DISARMED, MODE_ARMING, MODE_ARMED_HOME
<1>2. ledModeChanged \in BOOLEAN /\ fpError \in BOOLEAN /\ sensorUp \in BOOLEAN
  BY DEF Init
<1>3. NodeTyped /\ count \in -1 .. LedPeriod
  BY <1>1, <1>2 DEF Init, NodeTyped
<1>4. CountsTyped /\ LedInv /\ ScanInv /\ SentInv
  BY DEF Init, CountsTyped, LedInv, SentInv
<1>5. lifted \in BOOLEAN
  BY DEF Init
<1> QED BY <1>3, <1>4, <1>5 DEF LoopInv

\* The invariant of the main loop (main.c:407-700).
THEOREM Invariance == Spec => []LoopInv
BY LoopInit, LoopStep, PTL DEF Spec

----------------------------------------------------------------------------
\* Type correctness: no counter of the loop leaves its range, for every
\* FINGER_PASSED (main.c:99).
THEOREM TypeCorrect == Spec => []TypeOK
<1>1. LoopInv => TypeOK
  BY DEF LoopInv, TypeOK, NodeTyped, CountsTyped, SentInv
<1> QED BY <1>1, Invariance, PTL

\* A report to the gateway follows a match that no report followed before.
THEOREM ReportFollowsMatch == Spec => []ReportsAMatch
<1>1. LoopInv => ReportsAMatch
  BY DEF LoopInv, SentInv, ReportsAMatch
<1> QED BY <1>1, Invariance, PTL

\* Outside the armed modes a report waits for FINGER_PASSED more scans after the
\* first one that matched, with or without a finger.
THEOREM ReportWaitsForScans == Spec => []WaitsUnlessArmed
<1>1. LoopInv => WaitsUnlessArmed
  BY DEF LoopInv, SentInv, WaitsUnlessArmed
<1> QED BY <1>1, Invariance, PTL

=============================================================================
