----------------------------- MODULE SensorLink -----------------------------
(***************************************************************************)
(* The R503 driver (source/R503.c, R503Packet.c): a command is a packet to   *)
(* the sensor, whose answer is found in the byte stream of the UART.         *)
(*                                                                         *)
(* The driver never empties the receive queue of the UART.  It asks for the  *)
(* nine bytes of a head, for as many bytes as the head announces, and for    *)
(* the two of the checksum; what an error leaves behind is read as the       *)
(* beginning of the next answer.  A read that times out has taken all there  *)
(* was.                                                                     *)
(*                                                                         *)
(* The threads use the driver one at a time (SensorIsExclusive of            *)
(* FingerNodeProofs), so there is one command at a time here.  The sensor     *)
(* (external) speaks only when asked, and answers before the 10 s are over    *)
(* or not at all; what it sends is in queue at once, lost and altered bytes   *)
(* included.  A write to the UART cannot time out, as nothing holds it up.    *)
(***************************************************************************)
EXTENDS Integers, Sequences

CONSTANTS
    Commands,       \* the commands the threads send
    Packets,        \* data packets of a template, and
    PacketSize,     \* the bytes of each: dataPacketSize
    QueueSize,      \* SERIAL_BUFFERS_SIZE
    MaxFaults       \* bound: answers damaged or cut short

HEAD == 9           \* start code 1-2, address 3-6, type 7, length 8-9
CHECKSUM == 2

(***************************************************************************)
(* The commands, by what their answer holds and what they make of it.        *)
(***************************************************************************)
InfoCommands == {"ReadParameters", "ReadDeviceInfo"}
StateCommands == {"SetAuraLED", "HandShake", "CheckSensor"}
SettingCommands == {"SetSecurityLevel", "SetPacketSize"}
ControlCommands == {"CancelInstruction", "SoftReset"}
ImageCommands == {"TakeImage", "ExtractFeatures", "CreateTemplate"}
SlotCommands == {"StoreTemplate", "GetTemplate"}
TransferCommands == {"UploadTemplate", "DownloadTemplate"}
EraseCommands == {"DeleteTemplate", "EmptyLibrary"}
SearchCommands == {"SearchFinger"}
\* These return data[0] whether or not R503Send failed ...
UncheckedCommands == {"GetValidTemplateCount", "GetRandomNumber"}
\* ... and these do not look at it.
SentCommands == {"GetTemplateCount", "MatchFinger"}

AllCommands ==
    UNION {InfoCommands, StateCommands, SettingCommands, ControlCommands, ImageCommands,
           SlotCommands, TransferCommands, EraseCommands, SearchCommands,
           UncheckedCommands, SentCommands}

\* The payload of the answer, the confirmation code included.
AnswerSize(c) ==
    CASE c = "ReadParameters" -> 17
      [] c = "ReadDeviceInfo" -> 47
      [] c \in SearchCommands \cup {"GetRandomNumber"} -> 5
      [] c \in SentCommands \cup {"GetValidTemplateCount"} -> 3
      [] OTHER -> 1

ASSUME LinkAssumption ==
    /\ Commands \subseteq AllCommands
    /\ Packets \in Nat \ {0} /\ PacketSize \in Nat \ {0}
    /\ QueueSize \in Nat /\ MaxFaults \in Nat

Codes == {"OK", "Error"}                                \* what the sensor answers
Failures == {"INVALID_START_CODE", "CHECKSUM_MISMATCH", "TIMEOUT"}
Results == Codes \cup Failures

VARIABLES
    queue,          \* bytes for the driver, read and unread by the UART
    connected,      \* the sensor hears and is heard
    faults,         \* answers damaged or cut short so far
    pc,             \* "idle", or what the driver waits for: "answer" or "data"
    cmd,            \* the command in progress, or the last
    code,           \* data[0]
    ret,            \* what the last command returned
    own,            \* history: what came back was the answer to this command
    chunks,         \* data packets received in this command
    outOfStep       \* history: a packet was bad, and no read has timed out since

linkVars == <<queue, connected, faults>>
callVars == <<pc, cmd, code, ret, own, chunks, outOfStep>>
vars == <<linkVars, callVars>>

(***************************************************************************)
(* Bytes.  Each knows the packet it was sent in and its place there.         *)
(***************************************************************************)
PacketOf(size, more, value) == [size |-> size, more |-> more, code |-> value]

Sent(p) == [i \in 1 .. HEAD + p.size + CHECKSUM |->
               [of |-> p, pos |-> i, bad |-> FALSE, own |-> TRUE]]

\* The data packets of a template, one after the other.
PacketSpan == HEAD + PacketSize + CHECKSUM

DataStream ==
    [i \in 1 .. Packets * PacketSpan |->
        [of |-> PacketOf(PacketSize, i <= (Packets - 1) * PacketSpan, "OK"),
         pos |-> ((i - 1) % PacketSpan) + 1, bad |-> FALSE, own |-> TRUE]]

\* What the sensor sends when it is asked for c.
Answer(c, value) ==
    Sent(PacketOf(AnswerSize(c), FALSE, value))
        \o (IF c = "UploadTemplate" /\ value = "OK" THEN DataStream ELSE <<>>)

First(s, n) == SubSeq(s, 1, n)
After(s, n) == SubSeq(s, n + 1, Len(s))

Damaged(s) ==
    {[s EXCEPT ![i].bad = TRUE] : i \in DOMAIN s}
        \cup {First(s, i - 1) \o After(s, i) : i \in DOMAIN s}

Stale(s) == [i \in DOMAIN s |-> [s[i] EXCEPT !.own = FALSE]]

\* Nobody reads between two commands: what does not fit is dropped.
Held(s) == IF Len(s) > QueueSize THEN First(s, QueueSize) ELSE s

(***************************************************************************)
(* R503PacketReceive, on what is in the queue.                               *)
(***************************************************************************)
At(s, i) == s[i].pos = i /\ ~s[i].bad

StartCode(s) == At(s, 1) /\ At(s, 2)

\* The length the head announces.  A head that is not the first nine bytes of
\* a packet has some other byte in the place of the high one, which is not zero:
\* the length is then more than ever comes.  An altered byte, or one of the
\* payload, makes it anything.
Announced(s) ==
    IF At(s, 8) /\ At(s, 9) THEN {s[9].of.size}
    ELSE IF s[8].pos \in (1 .. 9) \ {8} THEN {Len(s)}
    ELSE 0 .. Len(s)

\* The checksum covers all but start code and address.
ChecksumValid(s, n) ==
    /\ n = s[1].of.size
    /\ \A i \in 3 .. HEAD + n + CHECKSUM : s[i].pos = i /\ (i > 6 => ~s[i].bad)

\* data[0] after a payload that starts with byte b.
CodeRead(b) == IF b.pos = HEAD + 1 /\ ~b.bad THEN {b.of.code} ELSE Codes

\* Mutant: the driver's own error goes where the sensor's code goes.
OutcomeMixed(result, rest, value) ==
    [ret |-> result, rest |-> rest, code |-> IF result = "OK" THEN value ELSE result]

Outcome(result, rest, value) == [ret |-> result, rest |-> rest, code |-> value]

\* Mutant: a read that times out takes nothing.
ReceivedAllOrNothing(s) ==
    IF Len(s) < HEAD THEN {Outcome("TIMEOUT", s, code)}
    ELSE IF ~StartCode(s) THEN {Outcome("INVALID_START_CODE", After(s, HEAD), code)}
    ELSE LET end == HEAD + s[9].of.size + CHECKSUM
         IN  IF Len(s) < end THEN {Outcome("TIMEOUT", After(s, HEAD), code)}
             ELSE {Outcome(IF ChecksumValid(s, s[9].of.size) THEN "OK" ELSE "CHECKSUM_MISMATCH",
                           After(s, end), value) : value \in CodeRead(s[HEAD + 1])}

Received(s) ==
    IF Len(s) < HEAD THEN {Outcome("TIMEOUT", <<>>, code)}
    ELSE IF ~StartCode(s) THEN {Outcome("INVALID_START_CODE", After(s, HEAD), code)}
    ELSE UNION {LET end == HEAD + n + CHECKSUM
                    payload == IF n > 0 /\ Len(s) > HEAD THEN CodeRead(s[HEAD + 1]) ELSE {code}
                IN  {CASE Len(s) < end -> Outcome("TIMEOUT", <<>>, value)
                       [] Len(s) >= end /\ ChecksumValid(s, n) ->
                            Outcome("OK", After(s, end), value)
                       [] OTHER -> Outcome("CHECKSUM_MISMATCH", After(s, end), value)
                     : value \in payload}
                : n \in Announced(s)}

(***************************************************************************)
(* The driver.                                                              *)
(***************************************************************************)
\* R503PacketSend, and what the sensor makes of it.
Send(c) ==
    /\ pc = "idle"
    /\ pc' = "answer" /\ cmd' = c /\ chunks' = 0 /\ own' = FALSE
    /\ IF connected
         THEN \E value \in Codes :
                LET answer == Answer(c, value)
                IN  \/ /\ queue' = Stale(queue) \o answer
                       /\ UNCHANGED <<connected, faults>>
                    \/ /\ faults < MaxFaults /\ faults' = faults + 1
                       /\ \/ /\ \E s \in Damaged(answer) : queue' = Stale(queue) \o s
                             /\ UNCHANGED connected
                          \/ /\ \E n \in DOMAIN answer : queue' = Stale(queue) \o First(answer, n)
                             /\ connected' = FALSE
         ELSE /\ queue' = Stale(queue)
              /\ UNCHANGED <<connected, faults>>
    /\ UNCHANGED <<code, ret, outOfStep>>

\* The command returns to its caller.
Return(result, rest) ==
    /\ pc' = "idle"
    /\ ret' = result
    /\ queue' = Held(rest)
    /\ UNCHANGED <<connected, faults, cmd>>

Noted(result) ==
    CASE result = "TIMEOUT" -> FALSE
      [] result \in {"INVALID_START_CODE", "CHECKSUM_MISMATCH"} -> TRUE
      [] OTHER -> outOfStep

\* What the function of command c returns.
ResultOf(c, received, value) ==
    CASE c \in UncheckedCommands -> value
      [] c \notin UncheckedCommands /\ received # "OK" -> received
      [] c \in SentCommands /\ received = "OK" -> "OK"
      [] OTHER -> value

Answered ==
    /\ pc = "answer"
    /\ \E r \in Received(queue) :
         /\ code' = r.code
         /\ outOfStep' = Noted(r.ret)
         /\ own' = (r.ret = "OK" /\ queue[1].own)
         /\ UNCHANGED chunks
         /\ IF cmd = "UploadTemplate" /\ r.ret = "OK" /\ r.code = "OK"
              THEN /\ pc' = "data" /\ queue' = r.rest
                   /\ UNCHANGED <<connected, faults, cmd, ret>>
              ELSE Return(ResultOf(cmd, r.ret, r.code), r.rest)

\* Mutant: one data packet, whatever its type.
DataReceivedOnce ==
    /\ pc = "data"
    /\ \E r \in Received(queue) :
         /\ outOfStep' = Noted(r.ret)
         /\ own' = (own /\ r.ret = "OK" /\ queue[1].own)
         /\ chunks' = IF r.ret = "OK" THEN chunks + 1 ELSE chunks
         /\ UNCHANGED code
         /\ Return(r.ret, r.rest)

\* The loop of R503ReceiveData; the packets go to the caller's buffer.
DataReceived ==
    /\ pc = "data"
    /\ \E r \in Received(queue) :
         /\ outOfStep' = Noted(r.ret)
         /\ own' = (own /\ r.ret = "OK" /\ queue[1].own)
         /\ chunks' = IF r.ret = "OK" THEN chunks + 1 ELSE chunks
         /\ UNCHANGED code
         /\ IF r.ret = "OK" /\ queue[1].of.more
              THEN /\ queue' = r.rest
                   /\ UNCHANGED <<connected, faults, pc, cmd, ret>>
              ELSE Return(r.ret, r.rest)

\* The sensor is unplugged, or back.
Plug ==
    /\ pc = "idle"
    /\ connected' = ~connected
    /\ UNCHANGED <<queue, faults, callVars>>

Init ==
    /\ queue = <<>> /\ connected = TRUE /\ faults = 0
    /\ pc = "idle" /\ cmd \in Commands
    /\ code = "OK"                                       \* static storage is zero
    /\ ret = "TIMEOUT" /\ own = FALSE /\ chunks = 0 /\ outOfStep = FALSE

Driver == Answered \/ DataReceived
Command == \E c \in Commands : Send(c)

Next == Driver \/ Command \/ Plug

(***************************************************************************)
(* Main asks the sensor at least every 2.2 s, and each read of the driver    *)
(* ends, at the latest after its 10 s.                                       *)
(***************************************************************************)
Spec == Init /\ [][Next]_vars /\ WF_vars(Driver) /\ WF_vars(Command)

-----------------------------------------------------------------------------
PacketsSent == [size : Nat, more : BOOLEAN, code : Codes]

\* The type of every variable.
TypeOK ==
    /\ queue \in Seq([of : PacketsSent, pos : Nat \ {0}, bad : BOOLEAN, own : BOOLEAN])
    /\ connected \in BOOLEAN /\ faults \in 0 .. MaxFaults
    /\ pc \in {"idle", "answer", "data"} /\ cmd \in Commands
    /\ code \in Codes /\ ret \in Results
    /\ own \in BOOLEAN /\ outOfStep \in BOOLEAN /\ chunks \in Nat

\* R503PacketReceive leaves bytes behind only where it reports a bad packet, on
\* every path, and a timeout makes up for it: between two commands the queue
\* is empty unless a packet was bad and no read has timed out since.
StaleOnlyAfterBadPacket == pc = "idle" /\ ~outOfStep => queue = <<>>

\* As long as that has not happened, a command that reports success has read
\* its own answer, not that of an earlier command, and the sensor says so too.
\* R503GetValidTemplateCount and R503GetRandomNumber are no such commands:
\* they return an old data[0] when they fail.  Nor do R503GetTemplateCount and
\* R503MatchFinger look at what the sensor says.
AnswerIsOwn ==
    pc = "idle" /\ ret = "OK" /\ ~outOfStep /\ cmd \notin UncheckedCommands
        => own /\ (cmd \notin SentCommands => code = "OK")

\* R503UploadTemplate reports success only when all data packets of the
\* template have come, whatever was lost on the line (R503.c:108-119).
TransferIsWhole ==
    pc = "idle" /\ cmd = "UploadTemplate" /\ ret = "OK" /\ ~outOfStep => chunks = Packets

\* A disconnected sensor brings the driver back into step: the queue is used up
\* and stays empty.  (Nothing else is sure to.)
SilenceResyncs == <>[](~connected) => <>[](pc = "idle" => queue = <<>>)

\* "Returns R503_OK if successful" (R503.c:683, and likewise for every command):
\* a command returns R503_OK only if the sensor answered this command with OK.
OkMeansDone == pc = "idle" /\ ret = "OK" => own /\ code = "OK"
============================================================================
