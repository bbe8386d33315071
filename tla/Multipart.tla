------------------------------ MODULE Multipart ------------------------------
(***************************************************************************)
(* The multipart protocol of ohs_multipart.h: messages too long for one bus *)
(* message are cut into numbered chunks, which RS485Thread of the receiver  *)
(* puts together in one buffer.  A chunk says where it belongs and of how   *)
(* many, but not of which message.                                          *)
(*                                                                         *)
(* Senders are the gateway and the peers, each with a copy of the sending   *)
(* half.  The RS485 driver (external) of the receiver holds one message; a  *)
(* sender repeats a chunk until it is acknowledged or the repeats are used  *)
(* up, so a chunk may arrive twice and a chunk that was given up may have   *)
(* arrived.  A sender may begin again at once.                              *)
(*                                                                         *)
(* A tick is the second RS485Thread waits for a message at most; a handler  *)
(* keeps it from the next message for up to MaxBusy of them.                *)
(***************************************************************************)
EXTENDS Integers, FiniteSets

CONSTANTS
    Senders,
    Contents,       \* what a message can say
    Chunks,         \* chunks of the message of each content
    None, Other,    \* nothing; a message of another kind, and its reply
    MP_TIMEOUT,     \* 3 s in the code
    Wrap,           \* ticks until systime_t comes round, 32 in the code
    MaxBusy,        \* the longest time a handler takes
    MaxIdle,        \* ... and a pass of the loop without a message
    OtherTraffic    \* other messages come, too

Indices == UNION {0 .. Chunks[c] - 1 : c \in Contents}

ChunkMsgs == {m \in [from : Senders, content : Contents, index : Indices] :
                 m.index < Chunks[m.content]}

Pieces == Senders \X Contents \X Indices

ASSUME MultipartAssumption ==
    /\ Contents # {} /\ Chunks \in [Contents -> 1 .. 32]
    /\ MP_TIMEOUT \in Nat /\ Wrap \in Nat /\ MP_TIMEOUT + 1 < Wrap
    /\ MaxBusy \in Nat /\ MaxIdle \in 0 .. MaxBusy
    /\ None \notin Contents \cup Senders \cup ChunkMsgs \cup Indices \cup Pieces
    /\ Other \notin Contents \cup Senders \cup ChunkMsgs \cup Pieces \cup {None}
    /\ OtherTraffic \in BOOLEAN

VARIABLES
    sending,        \* the message each sender is sending or sent last, or None
    next,           \* ... and the chunk of it that is next, None if there is none
    inbox,          \* the message the receiver's driver holds, or None
    rx,             \* mpRx
    buf,            \* compressed, in chunks
    now,            \* chVTGetSystemTimeX
    busy,           \* ticks the running handler still takes
    looped,         \* the loop has run in this tick
    age,            \* history: ticks since the reassembly began, up to Wrap
    blinded,        \* history: a handler kept the loop until age was Wrap
    shared,         \* history: a handler used compressed since it began
    hurried,        \* history: senders that began another message while their
                    \* last one was still in the receiver, unfinished
    got             \* the message just put together, with its histories, or None

senderVars == <<sending, next, hurried>>
timeVars == <<now, busy, looped, age, blinded>>
vars == <<senderVars, inbox, rx, buf, shared, timeVars, got>>

TypeOK ==
    /\ sending \in [Senders -> Contents \cup {None}]
    /\ next \in [Senders -> Indices \cup {None}]
    /\ \A s \in Senders : next[s] # None =>
          sending[s] # None /\ next[s] < Chunks[sending[s]]
    /\ inbox \in ChunkMsgs \cup {None, Other}
    /\ rx.active \in BOOLEAN /\ rx.chunksTotal \in 0 .. 32
    /\ rx.chunksReceived \subseteq 0 .. rx.chunksTotal - 1
    /\ rx.senderAddress \in Senders \cup {None} /\ rx.startTime \in 0 .. Wrap - 1
    /\ buf \in [Indices -> Pieces \cup {None, Other}]
    /\ now \in 0 .. Wrap - 1 /\ busy \in 0 .. MaxBusy
    /\ looped \in BOOLEAN /\ age \in 0 .. Wrap /\ blinded \in BOOLEAN
    /\ shared \in BOOLEAN /\ hurried \subseteq Senders

\* mpRxReset
RxReset == [active |-> FALSE, chunksTotal |-> 0, chunksReceived |-> {},
            senderAddress |-> None, startTime |-> 0]

Init ==
    /\ sending = [s \in Senders |-> None] /\ next = [s \in Senders |-> None]
    /\ inbox = None /\ rx = RxReset /\ buf = [i \in Indices |-> None]
    /\ now = 0 /\ busy = 0 /\ looped = FALSE /\ age = 0 /\ blinded = FALSE
    /\ shared = FALSE /\ hurried = {} /\ got = None

----------------------------------------------------------------------------
(* A sender: sendDataMultipart, called again 200 ms after it failed with     *)
(* the same message, or at any time with another one.                       *)

\* The receiver has not done with the last message of s.
Unfinished(s) ==
    \/ inbox \in ChunkMsgs /\ inbox.from = s
    \/ rx.active /\ rx.senderAddress = s

Begin(s) ==
    /\ next[s] = None /\ next' = [next EXCEPT ![s] = 0]
    /\ \E c \in Contents :
          /\ sending' = [sending EXCEPT ![s] = c]
          /\ hurried' = IF ~Unfinished(s) THEN hurried \ {s}
                        ELSE IF c = sending[s] THEN hurried ELSE hurried \cup {s}
    /\ UNCHANGED <<inbox, rx, buf, shared, timeVars, got>>

\* sendDataMultipart returns.
End(s) == next' = [next EXCEPT ![s] = None]

\* The chunk is in the receiver's driver.  Its acknowledgement arrives, and the
\* next chunk is due; or it is lost, and the chunk is repeated or given up.
Deliver(s) ==
    /\ next[s] # None /\ inbox = None
    /\ inbox' = [from |-> s, content |-> sending[s], index |-> next[s]]
    /\ \/ next[s] < Chunks[sending[s]] - 1 /\ next' = [next EXCEPT ![s] = @ + 1]
       \/ UNCHANGED next
       \/ End(s)
    /\ UNCHANGED <<sending, hurried, rx, buf, shared, timeVars, got>>

\* sendDataDirect failed: the rest of the message is not sent.
GiveUp(s) ==
    /\ next[s] # None /\ End(s)
    /\ UNCHANGED <<sending, hurried, inbox, rx, buf, shared, timeVars, got>>

\* A message of another kind.
SendOther ==
    /\ OtherTraffic /\ inbox = None /\ inbox' = Other
    /\ UNCHANGED <<senderVars, rx, buf, shared, timeVars, got>>

----------------------------------------------------------------------------
(* The receiver: RS485Thread's loop, with mpRxCheckTimeout at its top.      *)
\* Mutant: the time is not taken modulo its width.
ElapsedPlain == now - rx.startTime

Elapsed == (now - rx.startTime) % Wrap

\* mpRxCheckTimeout
AfterTimeout == IF rx.active /\ Elapsed > MP_TIMEOUT THEN RxReset ELSE rx

\* The reassembly a first chunk begins.
NewReassembly(m) ==
    [active |-> TRUE, chunksTotal |-> Chunks[m.content],
     chunksReceived |-> {}, senderAddress |-> m.from, startTime |-> now]

\* Mutant: a chunk of another sender joins in.
StartedAnySender(r, m) ==
    IF r.active /\ r.chunksTotal = Chunks[m.content] THEN r ELSE NewReassembly(m)

\* The reassembly a chunk joins: the one in progress if its sender and number
\* of chunks match, else a new one.
Started(r, m) ==
    IF /\ r.active /\ r.senderAddress = m.from
       /\ r.chunksTotal = Chunks[m.content]
    THEN r ELSE NewReassembly(m)

\* Mutant: expectedMask lacks the last chunk.
ExpectedButLast(n) == 0 .. n - 2

\* expectedMask
Expected(n) == 0 .. n - 1

\* A pass of the loop that leaves the reassembly as the check of the time did and
\* takes b ticks.
PassTakes(b) ==
    /\ rx' = AfterTimeout /\ looped' = TRUE /\ busy' = b
    /\ age' = IF rx'.active THEN age ELSE 0
    /\ blinded' = (rx'.active /\ (blinded \/ age + b >= Wrap))

\* No message: the ping, the count and the table of IDs are sent.
Idle ==
    /\ busy = 0 /\ inbox = None
    /\ \E b \in 0 .. MaxIdle : PassTakes(b)
    /\ shared' = (shared /\ rx'.active) /\ got' = None
    /\ UNCHANGED <<senderVars, inbox, buf, now>>

\* mpRxProcess.  A complete message is served, for a while, and mpRx reset.
Chunk ==
    /\ busy = 0 /\ inbox \in ChunkMsgs /\ inbox' = None
    /\ LET r     == Started(AfterTimeout, inbox)
           first == r.chunksReceived = {}
           all   == r.chunksReceived \cup {inbox.index}
           full  == inbox.index \notin r.chunksReceived /\ all = Expected(r.chunksTotal) IN
       /\ buf' = IF inbox.index \in r.chunksReceived THEN buf
                 ELSE [buf EXCEPT ![inbox.index] =
                          <<inbox.from, inbox.content, inbox.index>>]
       /\ \/ /\ full /\ rx' = RxReset /\ busy' \in 0 .. MaxBusy
             /\ got' = [from    |-> inbox.from,
                        pieces  |-> [i \in 0 .. r.chunksTotal - 1 |-> buf'[i]],
                        hurried |-> inbox.from \in hurried,
                        shared  |-> shared /\ ~first]
          \/ /\ ~full /\ rx' = [r EXCEPT !.chunksReceived = all]
             /\ got' = None /\ UNCHANGED busy
       /\ age' = IF first \/ full THEN 0 ELSE age
       /\ blinded' = (blinded /\ ~first /\ ~full)
       /\ shared' = (shared /\ ~first /\ ~full)
    /\ looped' = TRUE
    /\ UNCHANGED <<senderVars, now>>

\* Another handler; 'F' 'G' and 'F' 'E' put their reply together where the chunks
\* are kept.
ServeOther ==
    /\ busy = 0 /\ inbox = Other /\ inbox' = None
    /\ \E b \in 0 .. MaxBusy : PassTakes(b)
    /\ \/ UNCHANGED buf /\ shared' = (shared /\ rx'.active)
       \/ /\ \E n \in Indices :
                buf' = [i \in Indices |-> IF i <= n THEN Other ELSE buf[i]]
          /\ shared' = rx'.active
    /\ got' = None
    /\ UNCHANGED <<senderVars, now>>

\* A handler that is about to send throws away what has come meanwhile.
DropMessage ==
    /\ busy > 0 /\ inbox # None /\ inbox' = None /\ got' = None
    /\ UNCHANGED <<senderVars, rx, buf, shared, timeVars>>

Receiver == Idle \/ Chunk \/ ServeOther \/ DropMessage

\* A second: the loop runs at least once, unless a handler is still running.
Tick ==
    /\ busy > 0 \/ looped
    /\ now' = (now + 1) % Wrap
    /\ busy' = IF busy > 0 THEN busy - 1 ELSE 0
    /\ looped' = FALSE
    /\ age' = IF rx.active /\ age < Wrap THEN age + 1 ELSE age
    /\ got' = None
    /\ UNCHANGED <<senderVars, inbox, rx, buf, shared, blinded>>

Next ==
    \/ \E s \in Senders : Begin(s) \/ Deliver(s) \/ GiveUp(s)
    \/ SendOther \/ Receiver \/ Tick

Spec == Init /\ [][Next]_vars

----------------------------------------------------------------------------
(* Properties.                                                              *)
Whole(s, c) == [i \in 0 .. Chunks[c] - 1 |-> <<s, c, i>>]

\* A message put together is one that was sent, with every chunk in its place,
\* whatever was lost, repeated, given up and tried again -- unless its sender had
\* begun it while the receiver was not done with another one (no chunk tells
\* them apart, ohs_multipart.h:80-92), or a handler had put its own data into
\* compressed meanwhile (ohs_th_rs485.h:550-557).
MessageIsWhole ==
    got # None /\ ~got.hurried /\ ~got.shared =>
        \E c \in Contents : got.pieces = Whole(got.from, c)

\* Hurried or not, no message is made of chunks of two senders or of messages of
\* two lengths, however their chunks take turns (ohs_multipart.h:80-82); what is
\* not a chunk in it is what a handler put there.
FromOneSender ==
    got # None =>
        \A i \in DOMAIN got.pieces :
            \/ got.shared /\ got.pieces[i] = Other
            \/ \E c \in Contents : /\ got.pieces[i] = <<got.from, c, i>>
                                   /\ DOMAIN got.pieces = 0 .. Chunks[c] - 1

\* A pass of the loop leaves no message that is past the timeout, wherever the
\* clock has come round since it began (ohs_multipart.h:46-51) -- unless one
\* handler kept the loop until the message was as old as the clock is wide, as an
\* enrollment may.
NeverStale == rx.active /\ looped => age <= MP_TIMEOUT \/ blinded

\* The header's "destBuf[0..rx->receivedLength-1] is complete"
\* (ohs_multipart.h:57), of every message.  No run checks it: it fails for a
\* sender that goes on to another message, and if a handler uses compressed
\* (README, section 5).
AsSent == got # None => \E c \in Contents : got.pieces = Whole(got.from, c)

\* A pass of the loop leaves no message that is past MP_TIMEOUT_MS: "Timed wait
\* allows periodic mpRx timeout checks" (ohs_th_rs485.h:367).  No run checks it: it
\* fails after a handler that takes nearly as long as the clock is wide (README,
\* section 5).
GivenUpInTime == rx.active /\ looped => age <= MP_TIMEOUT

============================================================================
