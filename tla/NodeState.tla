----------------------------- MODULE NodeState -----------------------------
(***************************************************************************)
(* The two pieces of state the threads of the node share and order their   *)
(* work by: nodeState (ohs_func.h) and the binary semaphore R503Sem that    *)
(* serialises access to the R503 sensor (main.c).                           *)
(*                                                                         *)
(* The semaphore is ChibiOS's: a signal hands it straight to a queued       *)
(* thread, which runs later, so the signalling thread cannot take it back   *)
(* first.  Only two threads use it, so the queue is a set of at most one.   *)
(***************************************************************************)
EXTENDS NodeModes

CONSTANT None           \* "nobody" and "nothing": equal to no other value

VARIABLES mode,         \* nodeState.mode
          lastMode,     \* nodeState.lastMode
          holder,       \* the thread that owns R503Sem, or None
          waiting       \* the threads queued on R503Sem

Threads == {"main", "rs485"}

\* Mutants (setNodeMode without its first line, setLastNodeMode not called,
\* isAuthAllowed without its lower bound).
SetModeOnly(m) == mode' = m /\ UNCHANGED lastMode
KeepMode == UNCHANGED <<mode, lastMode>>
AuthOnceInitialized == mode # MODE_UNINITIALIZED

SetNodeMode(m) == mode' = m /\ lastMode' = mode

SetLastNodeMode == mode' = lastMode /\ UNCHANGED lastMode

IsAuthAllowed == mode >= MODE_ARMING

----------------------------------------------------------------------------
\* chBSemObjectInit(&R503Sem, false): free.
SemInit == holder = None /\ waiting = {}

\* chBSemWait on a free semaphore: the thread goes straight on.
SemTake(t) == holder = None /\ holder' = t /\ UNCHANGED waiting

\* chBSemWait on a taken one: the thread goes on once it is the holder.
SemQueue(t) == holder # None /\ waiting' = waiting \cup {t} /\ UNCHANGED holder

\* Mutant: the signal frees the semaphore and wakes nobody.
SemSignalWakesNone == holder' = None /\ UNCHANGED waiting

\* chBSemSignal
SemSignal ==
    \/ waiting = {} /\ holder' = None /\ UNCHANGED waiting
    \/ \E w \in waiting : holder' = w /\ waiting' = waiting \ {w}

\* chBSemSignal and, with nothing in between that could block, chBSemWait: the
\* thread keeps the semaphore if no other is queued, else it queues in turn.
SemKeep == waiting = {} /\ UNCHANGED <<holder, waiting>>

SemYield(t) ==
    \E w \in waiting : holder' = w /\ waiting' = (waiting \ {w}) \cup {t}
============================================================================
