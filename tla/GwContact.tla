------------------------------ MODULE GwContact ------------------------------
(***************************************************************************)
(* Whether the node has contact with its gateway: lastGwContact and the    *)
(* clock, which RS485Thread sets, the keepalive ping the service thread    *)
(* asks RS485Thread for (ohs_th_service.h), and the test all threads make  *)
(* of them (main.c:454, ohs_th_display.h:393).                             *)
(*                                                                         *)
(* Each second RS485Thread and the service thread pass their loop once,    *)
(* in any order.  The clock is a date, and the test goes through the       *)
(* conversions of Calendar.                                                *)
(***************************************************************************)
EXTENDS Calendar, Integers

CONSTANTS GW_TIMEOUT_SECS, KEEPALIVE_SECS, OFFLINE_RETRY_SECS,
          MaxBusy,    \* seconds in a row that RS485Thread is kept from idling
          Starts,     \* dates the node may start at
          Span,       \* seconds considered after each: a bound for TLC
          Steps       \* by how much a time beacon may move the clock

ASSUME ContactAssumption ==
  /\ GW_TIMEOUT_SECS \in Nat /\ KEEPALIVE_SECS \in Nat \ {0}
  /\ OFFLINE_RETRY_SECS \in 1 .. KEEPALIVE_SECS
  /\ MaxBusy \in Nat /\ Span \in Nat /\ Steps \subseteq Int
  /\ KEEPALIVE_SECS + MaxBusy + 2 < GW_TIMEOUT_SECS
  /\ Starts \subseteq Dates
  /\ \A d \in Starts :
       UnixSecond(d) + Span < DaysToYear[LastYear + 1] * SECONDS_PER_DAY

VARIABLES
  rtc,            \* the date the RTC shows
  lastGwContact,  \* 0: never
  pingCountdown,
  pingPending,
  booted,         \* nodeState.mode is not MODE_UNINITIALIZED
  sampled,        \* the clock the service thread has read and not yet used, or 0
  due,            \* the threads that have not passed their loop this second
  busy,           \* seconds in a row RS485Thread has not idled
  silence,        \* history: seconds since a message of the gateway, up to LongSilence
  stepped,        \* history: the clock was moved since then
  calm            \* history: seconds since a ping was last lost or the clock moved

clockVars == <<rtc, stepped>>
serviceVars == <<pingCountdown, sampled>>
history == <<calm>>
vars == <<clockVars, serviceVars, lastGwContact, pingPending, booted, due, busy,
          silence, calm>>

Threads == {"service", "rs485"}
Window == UNION {UnixSecond(d) .. UnixSecond(d) + Span : d \in Starts}

nowUnixSec == UnixSecond(rtc)

(* What the three threads compute.  The difference is of unsigned 32 bits: *)
(* one below zero is not below the limit.                                  *)
ConnectedAt(now) ==
  /\ lastGwContact # 0
  /\ now - lastGwContact \in 0 .. GW_TIMEOUT_SECS - 1
Connected == ConnectedAt(nowUnixSec)

\* Seconds after which all that was waited for must have been done.
Patience == KEEPALIVE_SECS + MaxBusy + 2
LongSilence == GW_TIMEOUT_SECS + Patience
UpTo(n, limit) == IF n < limit THEN n ELSE limit
-----------------------------------------------------------------------------
(* A second passes.  No thread is ever a whole second late. *)
Second ==
  /\ due = {}
  /\ nowUnixSec + 1 \in Window
  /\ rtc' = NextSecond(rtc)
  /\ due' = Threads
  /\ silence' = UpTo(silence + 1, LongSilence)
  /\ calm' = IF booted THEN UpTo(calm + 1, Patience + 1) ELSE 0
  /\ UNCHANGED <<stepped, serviceVars, lastGwContact, pingPending, booted, busy>>

(* The service thread reads the clock ...                                  *)
ServiceSample ==
  /\ "service" \in due
  /\ sampled = 0
  /\ sampled' = nowUnixSec
  /\ due' = due \ {"service"}
  /\ UNCHANGED <<clockVars, pingCountdown, lastGwContact, pingPending, booted, busy,
                 silence, calm>>

(* Mutant: the cadence of the retries is never used. *)
NextPingSlow(connected) == KEEPALIVE_SECS

(* pingCountdown after a ping was asked for (60). *)
NextPing(connected) == IF connected THEN KEEPALIVE_SECS ELSE OFFLINE_RETRY_SECS

Counted == IF pingCountdown > 0 THEN pingCountdown - 1 ELSE 0

(* Mutant: only what is connected is kept alive. *)
AsksConnected(connected) == Counted = 0 /\ booted /\ connected

(* Whether it asks for a ping (58-59). *)
Asks(connected) == Counted = 0 /\ booted

(* ... and compares it with lastGwContact, in the order the compiler chose *)
(* (54-65): RS485Thread, of higher priority, may come between.             *)
ServiceDecide ==
  /\ sampled # 0
  /\ \E now \in {sampled, nowUnixSec} :
       IF Asks(ConnectedAt(now))
       THEN /\ pingPending' = TRUE
            /\ pingCountdown' = NextPing(ConnectedAt(now))
       ELSE /\ pingCountdown' = Counted
            /\ UNCHANGED pingPending
  /\ sampled' = 0
  /\ UNCHANGED <<clockVars, lastGwContact, booted, due, busy, silence, calm>>
-----------------------------------------------------------------------------
Heard ==
  /\ lastGwContact' = nowUnixSec
  /\ silence' = 0

(* The idle tick of RS485Thread (374-383), and what became of its ping. *)
IdleTick(answered) ==
  /\ "rs485" \in due
  /\ due' = due \ {"rs485"}
  /\ busy' = 0
  /\ IF pingPending
     THEN /\ pingPending' = FALSE
          /\ IF answered
             THEN Heard /\ stepped' = FALSE /\ UNCHANGED calm
             ELSE /\ calm' = 0
                  /\ UNCHANGED <<lastGwContact, silence, stepped>>
     ELSE UNCHANGED <<pingPending, lastGwContact, silence, stepped, calm>>
  /\ UNCHANGED <<rtc, serviceVars, booted>>

(* RS485Thread is in a handler, or a message of a peer wakes it (399). *)
Busy ==
  /\ "rs485" \in due
  /\ busy < MaxBusy
  /\ busy' = busy + 1
  /\ due' = due \ {"rs485"}
  /\ UNCHANGED <<clockVars, serviceVars, lastGwContact, pingPending, booted,
                 silence, calm>>

(* Any message of the gateway but a time beacon (417). *)
GatewayMessage ==
  /\ Heard
  /\ stepped' = FALSE
  /\ UNCHANGED <<rtc, serviceVars, pingPending, booted, due, busy, calm>>

(* 'T' (417, 462-466): the clock is moved after lastGwContact took it. *)
TimeBeacon(step) ==
  /\ nowUnixSec + step \in Window
  /\ Heard
  /\ rtc' = DateTime(nowUnixSec + step)
  /\ stepped' = (step # 0)
  /\ calm' = IF step # 0 THEN 0 ELSE calm
  /\ UNCHANGED <<serviceVars, pingPending, booted, due, busy>>

(* main() sets MODE_DISARMED once the gateway was heard (393-403). *)
Booted ==
  /\ ~booted
  /\ lastGwContact # 0
  /\ booted' = TRUE
  /\ UNCHANGED <<clockVars, serviceVars, lastGwContact, pingPending, due, busy,
                 silence, calm>>

Init ==
  /\ rtc \in Starts
  /\ lastGwContact = 0
  /\ pingCountdown = KEEPALIVE_SECS
  /\ pingPending = FALSE
  /\ booted = FALSE
  /\ sampled = 0
  /\ due = Threads
  /\ busy = 0
  /\ silence = LongSilence
  /\ stepped = FALSE
  /\ calm = 0

Next ==
  \/ Second
  \/ ServiceSample \/ ServiceDecide
  \/ \E answered \in BOOLEAN : IdleTick(answered)
  \/ Busy
  \/ GatewayMessage
  \/ \E step \in Steps : TimeBeacon(step)
  \/ Booted

Spec == Init /\ [][Next]_vars
-----------------------------------------------------------------------------
(* The node takes itself for connected exactly when the gateway was heard  *)
(* in the last GW_TIMEOUT_SECS, across the ends of days, months and years, *)
(* as long as the clock was not moved since.                               *)
ConnectedIsHeard ==
  ~stepped => (Connected <=> lastGwContact # 0 /\ silence < GW_TIMEOUT_SECS)

(* However contact was lost, to an outage of any length or to a beacon     *)
(* that moved the clock, a node is connected again one keepalive period    *)
(* after the last ping that was lost.                                      *)
RegainsContact == calm > Patience => Connected

(* A node that has been without contact for that long again asks for       *)
(* the gateway at the faster cadence of the retries, for as long as the    *)
(* silence lasts.                                                          *)
RetriesWhileLost ==
  ~stepped /\ silence = LongSilence => calm <= OFFLINE_RETRY_SECS + MaxBusy + 2

(* The two conversions undo each other across the ends of days, months and *)
(* years: the date the RTC has counted to is the one that a beacon of that *)
(* second would set, so a beacon that is right moves nothing.              *)
DatesAgree == DateTime(nowUnixSec) = rtc
=============================================================================
