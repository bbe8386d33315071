------------------------------ MODULE Display ------------------------------
(***************************************************************************)
(* The display thread (ohs_th_display.h) and the state the other threads   *)
(* show through it.  It has the lowest priority: any of them may run       *)
(* between two of its steps, but it never sees one of them half way        *)
(* through assignments that follow each other, such as those of a delay    *)
(* and its maximum.  A pass of its loop that draws a screen is three steps:*)
(* what to show is sampled, the screen is drawn, and it is noted as drawn. *)
(*                                                                         *)
(* Texts are left out, and so are the name of a zone and the enrollment    *)
(* step they show; a step that changed is one reason more to draw again.   *)
(* The gateway is taken to wait for main() to be done with its boot, of    *)
(* which FingerNode has the other case.                                    *)
(***************************************************************************)
EXTENDS NodeModes, Ssd1309

NODE_ARM_REJECTED == 18

CONSTANTS Commanded,    \* the modes the gateway commands
          Holds,        \* of the transient screens, those considered
          Delays,       \* the exit and entry delays it sends
          RetrySecs,    \* OFFLINE_RETRY_SECS
          HoldTicks,    \* how long a transient screen stays
          Probes        \* how often the panel is looked for: 5 in the code

ASSUME DisplayAssumption ==
  /\ Commanded \subseteq CommandedModes
  /\ Holds \subseteq {NODE_ARM_REJECTED, MODE_ENROLLMENT}
  /\ Delays \subseteq 0 .. 255 /\ RetrySecs \in 1 .. 255
  /\ HoldTicks \in 1 .. 255 /\ Probes \in Nat \ {0}

VARIABLES
  mode,        \* nodeState.mode
  connected,   \* a message of the gateway is recent enough
  hold,        \* dispHoldTicks and dispHoldMode
  secs, max,   \* dispCountdownSecs, dispCountdownMax
  err,         \* initErrorFlags is not 0
  pc,          \* where the display thread is
  attempt,     \* probes of the panel made
  sample,      \* its mode: what it is about to draw
  last,        \* its lastMode, lastSecs and lastErrorFlags
  panel,
  base,        \* history: the screen that was last drawn in full
  skipped,     \* history: the last pass for a screen drew none
  delayed      \* history: since an idle mode was commanded, a delay was sent
               \* or a retry of the link counted down

countdownVars == <<secs, max, delayed>>
nodeVars == <<mode, connected, err>>
panelVars == <<panel, base, skipped>>
threadVars == <<pc, attempt, sample, last>>
vars == <<nodeVars, hold, countdownVars, threadVars, panelVars>>

MODE_OFFLINE_DISP == 254
NoMode == 255
Auth == {MODE_AUTH_1, MODE_AUTH_2, MODE_AUTH_3}
IdleModes == {MODE_DISARMED, MODE_ARMED_AWAY, MODE_ARMED_HOME}
ShownModes == {MODE_UNINITIALIZED, MODE_ENROLLMENT, NODE_ARM_REJECTED, MODE_OFFLINE_DISP}
                \cup Commanded \cup {MODE_DISARMED}

(* Two modes have a screen for a sensor that is missing. *)
ScreenOf(m) ==
  [mode |-> m, err |-> m \in {MODE_DISARMED, MODE_UNINITIALIZED} /\ err]
NoScreen == [mode |-> NoMode, err |-> FALSE]
NoHold == [mode |-> NoMode, ticks |-> 0]
-----------------------------------------------------------------------------
(* RS485Thread, on messages of the gateway. *)

(* Mutant: the maximum stays that of the last delay. *)
MaxAfterKept(m) == max

(* dispCountdownMax after a command (428-430). *)
MaxAfter(m) == IF m \in IdleModes THEN 0 ELSE max

(* A mode command (424-431). *)
Command(m) ==
  /\ mode' = m
  /\ max' = MaxAfter(m)
  /\ delayed' = (delayed /\ m \notin IdleModes)
  /\ UNCHANGED <<connected, err, hold, secs, threadVars, panelVars>>

(* dispHoldMode and dispHoldTicks of a rejected arming (436-437), of an    *)
(* enrollment that is done (507-509), of a template received (597-599).    *)
Hold(m) ==
  /\ hold' = [mode |-> m, ticks |-> HoldTicks]
  /\ UNCHANGED <<nodeVars, countdownVars, threadVars, panelVars>>

(* 'D','E' (617-620) *)
ExitDelay(n) ==
  /\ secs' = n
  /\ max' = n
  /\ delayed' = TRUE
  /\ UNCHANGED <<nodeVars, hold, threadVars, panelVars>>

(* 'D','I' (621-624) *)
EntryDelay(n) ==
  /\ secs' = n
  /\ max' = IF n > max THEN n ELSE max
  /\ delayed' = TRUE
  /\ UNCHANGED <<nodeVars, hold, threadVars, panelVars>>

(* An enrollment or the store of a template begins, and ends in the mode   *)
(* before it, whichever that was.                                          *)
Enrolls ==
  /\ mode' = MODE_ENROLLMENT
  /\ UNCHANGED <<connected, err, hold, countdownVars, threadVars, panelVars>>
EnrollEnds ==
  /\ mode = MODE_ENROLLMENT
  /\ mode' \in Commanded
  /\ UNCHANGED <<connected, err, hold, countdownVars, threadVars, panelVars>>
-----------------------------------------------------------------------------
(* The other threads. *)

ContactChanges ==
  /\ connected' = ~connected
  /\ UNCHANGED <<mode, err, hold, countdownVars, threadVars, panelVars>>

(* main() sets or clears a bit of initErrorFlags (main.c:371-382, 513-637). *)
SensorChanges ==
  /\ err' = ~err
  /\ UNCHANGED <<mode, connected, hold, countdownVars, threadVars, panelVars>>

(* The wait of main() for the gateway (main.c:394-398), and the service    *)
(* thread without contact (ohs_th_service.h:61-64).                        *)
Retry ==
  /\ ~connected
  /\ secs' = RetrySecs
  /\ max' = RetrySecs
  /\ delayed' = TRUE
  /\ UNCHANGED <<nodeVars, hold, threadVars, panelVars>>

(* main.c:400-403 *)
BootDone ==
  /\ mode = MODE_UNINITIALIZED /\ connected
  /\ secs' = 0
  /\ mode' = MODE_DISARMED
  /\ UNCHANGED <<connected, err, hold, max, delayed, threadVars, panelVars>>
-----------------------------------------------------------------------------
(* Probes of the panel (366-376); without an answer the thread ends. *)
Probe ==
  /\ pc = "probe"
  /\ attempt' = attempt + 1
  /\ \/ pc' = "sleep" /\ panel' = Clear
     \/ /\ pc' = IF attempt' < Probes THEN "probe" ELSE "exit"
        /\ UNCHANGED panel
  /\ UNCHANGED <<nodeVars, hold, countdownVars, sample, last, base, skipped>>

(* The mode to show (400-407). *)
Wanted ==
  IF hold.ticks > 0 THEN hold.mode
  ELSE IF ~connected /\ mode # MODE_UNINITIALIZED THEN MODE_OFFLINE_DISP
  ELSE mode

(* Mutant: the test for zero is dropped. *)
TicksLeftWrap == (hold.ticks + 255) % 256

TicksLeft == IF hold.ticks > 0 THEN hold.ticks - 1 ELSE 0

(* dispFooter; dispRetryFooter *)
Footer(p, s) == DrawBitmap(PrintFull(Hline(p, s, 6), s, {7}), s, 7, 1)
RetryFooter(p, s) == PrintFull(p, s, {7})

(* dispHeader and dispHeaderInverted, as the loop has it (456-468). *)
Header(p, s, m) ==
  CASE m \in {MODE_UNINITIALIZED, MODE_OFFLINE_DISP}         -> p
    [] m \in {MODE_ARMED_HOME, MODE_ARMED_AWAY, MODE_ALARM}  -> PrintInverted(p, s, {0})
    [] OTHER                                                 -> PrintFull(p, s, {0})

(* The header, the separator and the blank of every screen (156-158). *)
Preamble(p, s) == PrintFull(Hline(PrintFull(p, s, {0}), s, 1), s, {2})

(* The screens of dispRender (160-347), each drawn over the preamble p. *)
Message(p, s, pages) == PrintFull(PrintBig(p, s, 3), s, pages)

Disarmed(p, s) ==
  IF s.err
  THEN Footer(Message(p, s, {5}), s)
  ELSE Footer(PrintAt(DrawBitmap(PrintFull(p, s, 3 .. 5), s, 2, 3), s, 2), s)

ArmedHome(p, s) ==
  LET blank == PrintFull(PrintInverted(p, s, {0}), s, {1, 3, 4, 5})
      block == PrintBigAt(DrawBitmap(blank, s, 2, 3), s, 3)
  IN Footer(PrintAt(PrintAt(block, s, 2), s, 5), s)

ArmedAway(p, s) == Footer(PrintFull(PrintInverted(p, s, {0}), s, 1 .. 5), s)

Countdown(p, s) == Bar(Message(p, s, 5 .. 6), s, 7)

Alarm(p, s) ==
  LET lit == PrintInverted(p, s, 0 .. 6)
  IN PrintFull(PrintBigAt(DrawBitmap(lit, s, 2, 3), s, 2), s, {7})

Offline(p, s) ==
  LET blank == PrintFull(p, s, {0, 1, 3, 4, 5})
      block == PrintAt(PrintBigAt(DrawBitmap(blank, s, 2, 3), s, 2), s, 4)
  IN RetryFooter(Hline(block, s, 6), s)

Startup(p, s) ==
  IF s.err
  THEN Message(p, s, 5 .. 7)
  ELSE LET title == PrintBigAt(PrintFull(p, s, {0, 1}), s, 2)
           block == PrintAt(DrawBitmap(PrintFull(title, s, {4, 5}), s, 4, 1), s, 4)
       IN RetryFooter(Hline(block, s, 6), s)

Drawn(p, s) ==
  LET pre == Preamble(p, s) IN
  CASE s.mode = MODE_DISARMED                            -> Disarmed(pre, s)
    [] s.mode = MODE_ARMED_HOME                          -> ArmedHome(pre, s)
    [] s.mode = MODE_ARMED_AWAY                          -> ArmedAway(pre, s)
    [] s.mode \in {MODE_ARMING} \cup Auth                -> Countdown(pre, s)
    [] s.mode = MODE_ALARM                               -> Alarm(pre, s)
    [] s.mode \in {MODE_ENROLLMENT, NODE_ARM_REJECTED}   -> Message(pre, s, 5 .. 7)
    [] s.mode = MODE_OFFLINE_DISP                        -> Offline(pre, s)
    [] s.mode = MODE_UNINITIALIZED                       -> Startup(pre, s)

(* The screen a part belongs to that is drawn again in mode m. *)
Part(m) == IF base.mode = m THEN base ELSE ScreenOf(m)

(* The countdown has ticked (438-455). *)
Ticked(m) ==
  IF m \in {MODE_UNINITIALIZED, MODE_OFFLINE_DISP}
  THEN RetryFooter(panel, Part(m))
  ELSE Bar(PrintFull(panel, Part(m), {0, IF m = MODE_ARMING THEN 5 ELSE 6}), Part(m), 7)

Counting == {MODE_ARMING, MODE_UNINITIALIZED, MODE_OFFLINE_DISP} \cup Auth

(***************************************************************************)
(* 390-423 and the branches below.  The countdown runs on every fourth     *)
(* pass, and on the eighth without anything else the header is drawn again.*)
(* The parts that a tick and the header draw depend on nothing that could  *)
(* change meanwhile, so they belong to this step.                          *)
(***************************************************************************)
Wake ==
  /\ pc = "sleep"
  /\ hold' = IF TicksLeft = 0 THEN NoHold ELSE [hold EXCEPT !.ticks = TicksLeft]
  /\ secs' \in {secs} \cup {n \in {secs - 1} : secs > 0}
  /\ \/ /\ Wanted # last.mode \/ err # last.err \/ Wanted = MODE_ENROLLMENT
        /\ pc' = "render"
        /\ sample' = Wanted
        /\ UNCHANGED <<last, panelVars>>
     \/ /\ Wanted = last.mode /\ err = last.err
        /\ IF secs' # last.secs /\ Wanted \in Counting
           THEN panel' = Ticked(Wanted) /\ last' = [last EXCEPT !.secs = secs']
           ELSE panel' \in {panel, Header(panel, Part(Wanted), Wanted)} /\ UNCHANGED last
        /\ UNCHANGED <<pc, sample, base, skipped>>
  /\ UNCHANGED <<nodeVars, max, delayed, attempt>>

(* Mutant: a home arm skips its own case but not the preamble. *)
RenderAfterPreamble ==
  /\ pc = "render"
  /\ pc' = "finish"
  /\ IF sample = MODE_ARMING /\ max = 0
     THEN panel' = Preamble(panel, ScreenOf(sample)) /\ UNCHANGED base
     ELSE /\ panel' = Drawn(panel, ScreenOf(sample))
          /\ base' = ScreenOf(sample)
  /\ skipped' = (sample = MODE_ARMING /\ max = 0)
  /\ UNCHANGED <<nodeVars, hold, countdownVars, attempt, sample, last>>

(* dispRender (428): nothing is drawn of a home arm (154). *)
Render ==
  /\ pc = "render"
  /\ pc' = "finish"
  /\ IF sample = MODE_ARMING /\ max = 0
     THEN UNCHANGED <<panel, base>>
     ELSE /\ panel' = Drawn(panel, ScreenOf(sample))
          /\ base' = ScreenOf(sample)
  /\ skipped' = (sample = MODE_ARMING /\ max = 0)
  /\ UNCHANGED <<nodeVars, hold, countdownVars, attempt, sample, last>>

(* Mutant: takes the mode as it is now for the one it has drawn. *)
FinishedLate == [mode |-> Wanted, secs |-> secs, err |-> err]

(* What the loop takes for drawn (433-436). *)
Finished == [mode |-> sample, secs |-> secs, err |-> err]

Finish ==
  /\ pc = "finish"
  /\ pc' = "sleep"
  /\ last' = Finished
  /\ sample' = NoMode
  /\ UNCHANGED <<nodeVars, hold, countdownVars, attempt, panelVars>>

-----------------------------------------------------------------------------
Init ==
  /\ mode = MODE_UNINITIALIZED
  /\ connected = FALSE /\ err = FALSE
  /\ hold = NoHold
  /\ secs = 0 /\ max = 0
  /\ pc = "probe" /\ attempt = 0
  /\ sample = NoMode
  /\ last = [mode |-> NoMode, secs |-> 0, err |-> FALSE]
  /\ panel = Dark
  /\ base = NoScreen
  /\ skipped = FALSE /\ delayed = FALSE

Gateway ==
  /\ mode # MODE_UNINITIALIZED
  /\ \/ \E m \in Commanded : Command(m)
     \/ \E m \in Holds : Hold(m)
     \/ \E n \in Delays : ExitDelay(n) \/ EntryDelay(n)
     \/ Enrolls \/ EnrollEnds

Others == ContactChanges \/ SensorChanges \/ Retry \/ BootDone

DisplayThread == Probe \/ Wake \/ Render \/ Finish

Next == Gateway \/ Others \/ DisplayThread

Spec == Init /\ [][Next]_vars /\ WF_vars(DisplayThread)
-----------------------------------------------------------------------------
TypeOK ==
  /\ mode \in ShownModes
  /\ {connected, err, skipped, delayed} \subseteq BOOLEAN
  /\ hold.ticks \in 0 .. HoldTicks
  /\ {secs, max} \subseteq 0 .. 255
  /\ pc \in {"probe", "exit", "sleep", "render", "finish"}
  /\ attempt \in 0 .. Probes
  /\ sample \in ShownModes \cup {NoMode}

(* What a page may show: the screen drawn last, and after a pass that drew *)
(* none for an arming, what the header and a tick have drawn over it since.*)
Allowed(p) ==
  {base} \cup {s \in {ScreenOf(MODE_ARMING)} : skipped /\ p \in {0, 5, 7}}

(* A screen leaves nothing of an earlier one on the panel, whichever       *)
(* screens it follows and whatever of them was drawn in part, and it is    *)
(* the screen of the mode the loop takes for drawn (156-347, 433).  Of two *)
(* exceptions it is known: the startup screen does not clear page 3 after  *)
(* the error of a missing sensor; and an arming without a maximum draws no *)
(* screen, so that its header, its "Exit" line and its bar, the pages 0, 5 *)
(* and 7, come over the screen before it.  ExitDelayHasItsScreen has what  *)
(* the second one costs.                                                   *)
NoResidue ==
  pc = "sleep" /\ base.mode # MODE_UNINITIALIZED =>
    /\ IF skipped THEN last.mode = MODE_ARMING ELSE last.mode = base.mode
    /\ \A p \in Pages : panel[p].text \cup panel[p].edge \subseteq Allowed(p)

(* What the comments at 146-153 and 217-220 say: only a home arm, which has*)
(* no exit delay, is without a screen, so the bar of an exit delay is never*)
(* drawn over the screen of the idle mode before the arming.  No run checks*)
(* it: it fails (README, section 5), as an exit delay that comes after the *)
(* pass for its arming finds that pass done with, and none follows until   *)
(* the mode changes again.                                                 *)
ExitDelayHasItsScreen ==
  base.mode \in IdleModes => ScreenOf(MODE_ARMING) \notin panel[7].text

(* The pass of a home arm, which has no exit delay, draws no screen of its *)
(* own, unless a delay or a retry of the link has left its countdown.      *)
HomeArmDrawsNothing ==
  [][pc = "render" /\ sample = MODE_ARMING /\ panel' # panel =>
       delayed]_vars

(* An alarm that lasts, with the gateway there and no transient screen in  *)
(* its way, is shown in the end and stays: no change of the mode gets lost *)
(* between two passes, not even one made during a pass.                    *)
AlarmIsShown ==
  <>[](Wanted = MODE_ALARM /\ pc # "exit") => <>[](base.mode = MODE_ALARM)
=============================================================================
