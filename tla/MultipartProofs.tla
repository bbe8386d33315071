-------------------------- MODULE MultipartProofs --------------------------
(***************************************************************************)
(* Theorems about Multipart, for every set of senders and of messages, every*)
(* timeout the clock has room for, and handlers of any length: which messages*)
(* a message put together is made of, and when an unfinished one is given up.*)
(***************************************************************************)
EXTENDS Multipart, TLAPS

\* mpRx is always the structure it is in C.
RxStructs ==
    {r \in [active : BOOLEAN, chunksTotal : 0 .. 32, chunksReceived : SUBSET Indices,
            senderAddress : Senders \cup {None}, startTime : 0 .. Wrap - 1] :
        r.chunksReceived \subseteq 0 .. r.chunksTotal - 1}

TypeInv == TypeOK /\ rx \in RxStructs

USE MultipartAssumption
    DEF vars, senderVars, timeVars

\* A chunk of a message is one of those a receiver knows; each message has one.
LEMMA IndexOfChunk ==
    /\ \A c \in Contents : Chunks[c] \in 1 .. 32
    /\ \A c \in Contents : \A i \in 0 .. Chunks[c] - 1 : i \in Indices
    /\ \A i \in Indices : i \in Nat
BY DEF Indices

LEMMA ZeroIsAChunk == 0 \in Indices
<1>1. PICK c \in Contents : TRUE
  OBVIOUS
<1>2. Chunks[c] \in 1 .. 32
  BY <1>1, IndexOfChunk
<1>3. 0 \in 0 .. Chunks[c] - 1
  BY <1>2
<1> QED BY <1>1, <1>3, IndexOfChunk

\* What the fields of a chunk are.
LEMMA ChunkTyped ==
    ASSUME NEW m \in ChunkMsgs
    PROVE  /\ m.from \in Senders /\ m.content \in Contents /\ m.index \in Indices
           /\ m.index \in 0 .. Chunks[m.content] - 1
           /\ Chunks[m.content] \in 0 .. 32
           /\ <<m.from, m.content, m.index>> \in Pieces
<1>1. m.from \in Senders /\ m.content \in Contents /\ m.index \in Indices
      /\ m.index < Chunks[m.content]
  BY DEF ChunkMsgs
<1> QED BY <1>1, IndexOfChunk DEF Pieces

\* mpRx is reset to a structure, and a reassembly begins as one.
LEMMA ResetTyped == RxReset \in RxStructs
BY DEF RxReset, RxStructs

LEMMA TimeoutTyped == ASSUME TypeInv PROVE AfterTimeout \in RxStructs
BY ResetTyped DEF AfterTimeout, TypeInv

LEMMA StartedTyped ==
    ASSUME TypeInv, NEW m \in ChunkMsgs
    PROVE  /\ Started(AfterTimeout, m) \in RxStructs
           /\ Started(AfterTimeout, m).active
           /\ Started(AfterTimeout, m).chunksTotal = Chunks[m.content]
           /\ Started(AfterTimeout, m).senderAddress = m.from
           /\ \/ Started(AfterTimeout, m) = rx /\ rx.active /\ AfterTimeout = rx
              \/ Started(AfterTimeout, m) = NewReassembly(m)
<1>1. m.from \in Senders /\ Chunks[m.content] \in 0 .. 32 /\ now \in 0 .. Wrap - 1
  BY ChunkTyped DEF TypeInv, TypeOK
<1>2. NewReassembly(m) \in RxStructs
  BY <1>1 DEF NewReassembly, RxStructs
<1>3. AfterTimeout.active => AfterTimeout = rx /\ rx.active
  BY DEF AfterTimeout, RxReset
<1> QED BY <1>2, <1>3, TimeoutTyped DEF Started, NewReassembly

\* What a chunk leaves of the reassembly.
LEMMA ChunkLeaves ==
    ASSUME TypeInv, Chunk
    PROVE  LET r == Started(AfterTimeout, inbox)
               all == r.chunksReceived \cup {inbox.index} IN
           /\ inbox \in ChunkMsgs
           /\ all \subseteq Indices /\ all \subseteq 0 .. r.chunksTotal - 1
           /\ \/ rx' = RxReset
              \/ /\ rx' = [r EXCEPT !.chunksReceived = all]
                 /\ rx'.active /\ rx'.chunksTotal = r.chunksTotal
                 /\ rx'.chunksReceived = all /\ rx'.senderAddress = r.senderAddress
                 /\ rx'.startTime = r.startTime
           /\ rx' \in RxStructs
<1> DEFINE r == Started(AfterTimeout, inbox)
           all == r.chunksReceived \cup {inbox.index}
<1>1. inbox \in ChunkMsgs
  BY DEF Chunk
<1>2. r \in RxStructs /\ r.active /\ r.chunksTotal = Chunks[inbox.content]
  BY <1>1, StartedTyped
<1>3. all \subseteq Indices /\ all \subseteq 0 .. r.chunksTotal - 1
  BY <1>1, <1>2, ChunkTyped DEF RxStructs
<1>4. rx' = RxReset \/ rx' = [r EXCEPT !.chunksReceived = all]
  BY DEF Chunk
<1> HIDE DEF r, all
<1>5. ASSUME rx' = [r EXCEPT !.chunksReceived = all]
      PROVE  /\ rx'.active /\ rx'.chunksTotal = r.chunksTotal
             /\ rx'.chunksReceived = all /\ rx'.senderAddress = r.senderAddress
             /\ rx'.startTime = r.startTime /\ rx' \in RxStructs
  BY <1>2, <1>3, <1>5 DEF RxStructs
<1>6. rx' \in RxStructs
  BY <1>4, <1>5, ResetTyped
<1> QED BY <1>1, <1>3, <1>4, <1>5, <1>6 DEF r, all

\* Type correctness at start, and kept by every step.
LEMMA TypeInit == Init => TypeInv
<1> SUFFICES ASSUME Init PROVE TypeInv
  OBVIOUS
<1>1. rx \in RxStructs
  BY ResetTyped DEF Init
<1>2. looped \in BOOLEAN /\ blinded \in BOOLEAN /\ shared \in BOOLEAN
  BY DEF Init
<1>3. /\ sending \in [Senders -> Contents \cup {None}]
      /\ next \in [Senders -> Indices \cup {None}]
      /\ \A s \in Senders : next[s] = None
      /\ buf \in [Indices -> Pieces \cup {None, Other}]
  BY DEF Init
<1>4. TypeOK
  BY <1>1, <1>2, <1>3 DEF Init, RxStructs, TypeOK
<1> QED BY <1>1, <1>4 DEF TypeInv

\* The time and the histories, after a pass of the loop.
LEMMA PassTyped ==
    ASSUME TypeInv, NEW b \in 0 .. MaxBusy, PassTakes(b)
    PROVE  /\ rx' \in RxStructs /\ looped' \in BOOLEAN /\ busy' \in 0 .. MaxBusy
           /\ age' \in 0 .. Wrap /\ blinded' \in BOOLEAN /\ rx'.active \in BOOLEAN
<1>1. rx' \in RxStructs
  BY TimeoutTyped DEF PassTakes
<1>2. rx'.active \in BOOLEAN
  BY <1>1 DEF RxStructs
<1>3. blinded' \in BOOLEAN
  BY Zenon DEF PassTakes
<1>4. age' \in 0 .. Wrap /\ looped' \in BOOLEAN /\ busy' \in 0 .. MaxBusy
  BY DEF PassTakes, TypeInv, TypeOK
<1> QED BY <1>1, <1>2, <1>3, <1>4

\* What is enough for the type after a step of the receiver.
LEMMA ReceiverTyped ==
    ASSUME TypeInv, UNCHANGED senderVars, inbox' = None, UNCHANGED now,
           rx' \in RxStructs, buf' \in [Indices -> Pieces \cup {None, Other}],
           looped' \in BOOLEAN, busy' \in 0 .. MaxBusy, age' \in 0 .. Wrap,
           blinded' \in BOOLEAN, shared' \in BOOLEAN
    PROVE  TypeInv'
<1>1. rx'.active \in BOOLEAN /\ rx'.chunksTotal \in 0 .. 32
      /\ rx'.chunksReceived \subseteq 0 .. rx'.chunksTotal - 1
      /\ rx'.senderAddress \in Senders \cup {None} /\ rx'.startTime \in 0 .. Wrap - 1
  BY DEF RxStructs
<1> QED BY <1>1 DEF TypeInv, TypeOK, RxStructs

LEMMA TypeStep == TypeInv /\ [Next]_vars => TypeInv'
<1> SUFFICES ASSUME TypeInv, [Next]_vars PROVE TypeInv'
  OBVIOUS
<1> USE DEF TypeInv
<1>1. ASSUME NEW s \in Senders, Begin(s) PROVE TypeInv'
  <2>1. PICK c \in Contents :
          /\ sending' = [sending EXCEPT ![s] = c]
          /\ next' = [next EXCEPT ![s] = 0]
          /\ hurried' \subseteq Senders
    BY <1>1 DEF Begin, TypeOK
  <2>2. 0 < Chunks[c] /\ c # None
    BY IndexOfChunk
  <2>3. \A q \in Senders : next'[q] # None =>
          sending'[q] # None /\ next'[q] < Chunks[sending'[q]]
    BY <2>1, <2>2 DEF TypeOK
  <2> QED BY <1>1, <2>1, <2>3, ZeroIsAChunk DEF Begin, TypeOK
<1>2. ASSUME NEW s \in Senders, Deliver(s) PROVE TypeInv'
  <2>1. /\ sending[s] \in Contents /\ next[s] \in Indices /\ next[s] \in Nat
        /\ next[s] < Chunks[sending[s]]
    BY <1>2, IndexOfChunk DEF Deliver, TypeOK
  <2>2. inbox' \in ChunkMsgs
    BY <1>2, <2>1 DEF Deliver, ChunkMsgs
  <2>3. CASE UNCHANGED next
    BY <1>2, <2>2, <2>3 DEF Deliver, TypeOK
  <2>4. CASE End(s)
    BY <1>2, <2>2, <2>4 DEF Deliver, End, TypeOK
  <2>5. CASE next[s] < Chunks[sending[s]] - 1 /\ next' = [next EXCEPT ![s] = @ + 1]
    <3>1. next[s] + 1 \in Indices /\ next[s] + 1 < Chunks[sending[s]]
      BY <2>1, <2>5, IndexOfChunk
    <3>2. next' \in [Senders -> Indices \cup {None}]
      BY <2>5, <3>1 DEF TypeOK
    <3>3. \A q \in Senders : next'[q] # None =>
            sending[q] # None /\ next'[q] < Chunks[sending[q]]
      BY <2>1, <2>5, <3>1 DEF TypeOK
    <3> QED BY <1>2, <2>2, <3>2, <3>3 DEF Deliver, TypeOK
  <2> QED BY <1>2, <2>3, <2>4, <2>5 DEF Deliver
<1>3. ASSUME NEW s \in Senders, GiveUp(s) PROVE TypeInv'
  BY <1>3 DEF GiveUp, End, TypeOK
<1>4. CASE SendOther
  BY <1>4 DEF SendOther, TypeOK
<1>5. CASE Idle
  <2>1. PICK b \in 0 .. MaxBusy : PassTakes(b)
    BY <1>5 DEF Idle
  <2>2. shared' \in BOOLEAN
    BY <1>5, Zenon DEF Idle
  <2>3. buf' \in [Indices -> Pieces \cup {None, Other}] /\ inbox' = None
        /\ UNCHANGED <<senderVars, now>>
    BY <1>5 DEF Idle, TypeOK
  <2> QED BY <2>1, <2>2, <2>3, PassTyped, ReceiverTyped
<1>6. CASE Chunk
  <2> DEFINE r == Started(AfterTimeout, inbox)
             first == r.chunksReceived = {}
             full == inbox.index \notin r.chunksReceived
                     /\ r.chunksReceived \cup {inbox.index} = Expected(r.chunksTotal)
  <2>1. rx' \in RxStructs /\ inbox \in ChunkMsgs
    BY <1>6, ChunkLeaves
  <2>2. inbox.index \in Indices /\ <<inbox.from, inbox.content, inbox.index>> \in Pieces
    BY <2>1, ChunkTyped
  <2>3. buf' \in [Indices -> Pieces \cup {None, Other}]
    BY <1>6, <2>2 DEF Chunk, TypeOK
  <2>4. busy' \in 0 .. MaxBusy /\ age' \in 0 .. Wrap
    BY <1>6 DEF Chunk, TypeOK
  <2>5. /\ blinded' = (blinded /\ ~first /\ ~full)
        /\ shared' = (shared /\ ~first /\ ~full)
    BY <1>6 DEF Chunk
  <2>6. blinded' \in BOOLEAN /\ shared' \in BOOLEAN
    BY <2>5, Zenon
  <2>7. UNCHANGED <<senderVars, now>> /\ looped' \in BOOLEAN /\ inbox' = None
    BY <1>6 DEF Chunk
  <2> HIDE DEF r, first, full
  <2> QED BY <2>1, <2>3, <2>4, <2>6, <2>7, ReceiverTyped
<1>7. CASE ServeOther
  <2>1. PICK b \in 0 .. MaxBusy : PassTakes(b)
    BY <1>7 DEF ServeOther
  <2>2. rx'.active \in BOOLEAN
    BY <2>1, PassTyped
  <2>3. shared' = (shared /\ rx'.active) \/ shared' = rx'.active
    BY <1>7 DEF ServeOther
  <2>4. shared' \in BOOLEAN
    BY <2>2, <2>3, Zenon
  <2>5. buf' \in [Indices -> Pieces \cup {None, Other}]
    BY <1>7 DEF ServeOther, TypeOK
  <2>6. inbox' = None /\ UNCHANGED <<senderVars, now>>
    BY <1>7 DEF ServeOther
  <2> QED BY <2>1, <2>4, <2>5, <2>6, PassTyped, ReceiverTyped
<1>8. CASE DropMessage
  BY <1>8 DEF DropMessage, TypeOK
<1>9. CASE Tick
  <2>1. now' \in 0 .. Wrap - 1
    BY <1>9 DEF Tick, TypeOK
  <2>2. busy' \in 0 .. MaxBusy
    BY <1>9 DEF Tick, TypeOK
  <2>3. age' \in 0 .. Wrap
    BY <1>9 DEF Tick, TypeOK
  <2>4. looped' \in BOOLEAN
    BY <1>9 DEF Tick
  <2> QED BY <1>9, <2>1, <2>2, <2>3, <2>4 DEF Tick, TypeOK
<1>10. CASE UNCHANGED vars
  BY <1>10 DEF TypeOK
<1> QED
  BY <1>1, <1>2, <1>3, <1>4, <1>5, <1>6, <1>7, <1>8, <1>9, <1>10 DEF Next, Receiver

\* ... always.
LEMMA TypeInvariant == Spec => []TypeInv
BY TypeInit, TypeStep, PTL DEF Spec

\* Type correctness: no index, clock or counter leaves its range, and no chunk is
\* received beyond the number of chunks of its message (ohs_multipart.h:61-106).
THEOREM TypeCorrect == Spec => []TypeOK
<1>1. TypeInv => TypeOK
  BY DEF TypeInv
<1> QED BY <1>1, TypeInvariant, PTL

----------------------------------------------------------------------------
(* Time.                                                                    *)

\* Unless a handler has kept the loop for too long, the clock shows the age of
\* the reassembly, and will when the running handler is done; the loop has looked
\* at it since the age last passed the timeout.
AgeInv ==
    rx.active =>
        /\ rx.chunksReceived # {}
        /\ ~blinded =>
             /\ now = rx.startTime + age \/ now = rx.startTime + age - Wrap
             /\ age + busy < Wrap
             /\ looped => age <= MP_TIMEOUT

\* Arithmetic of the clock.
LEMMA ClockArithmetic ==
    ASSUME NEW a \in 0 .. Wrap - 1
    PROVE  a % Wrap = a /\ (a - Wrap) % Wrap = a /\ Wrap % Wrap = 0
OBVIOUS

\* The time elapsed that mpRxCheckTimeout works out is the age, also when the
\* clock has come round since.
LEMMA ElapsedIsAge ==
    ASSUME TypeInv, AgeInv, rx.active, ~blinded
    PROVE  Elapsed = age /\ age < Wrap
<1>1. busy \in Nat /\ age \in Nat /\ now \in Int /\ rx.startTime \in Int
  BY DEF TypeInv, TypeOK
<1>2. age \in 0 .. Wrap - 1
  BY <1>1 DEF AgeInv
<1>3. now - rx.startTime = age \/ now - rx.startTime = age - Wrap
  BY <1>1 DEF AgeInv
<1> QED BY <1>2, <1>3, ClockArithmetic DEF Elapsed

\* What mpRxCheckTimeout leaves is the reassembly there was, within the timeout
\* or blinded.
LEMMA AfterTimeoutIsYoung ==
    ASSUME TypeInv, AgeInv, AfterTimeout.active
    PROVE  AfterTimeout = rx /\ rx.active /\ (~blinded => age <= MP_TIMEOUT)
<1>1. AfterTimeout = rx /\ rx.active /\ ~(Elapsed > MP_TIMEOUT)
  BY DEF AfterTimeout, RxReset
<1>2. age \in Nat
  BY DEF TypeInv, TypeOK
<1> QED BY <1>1, <1>2, ElapsedIsAge

\* A pass of the loop that takes b ticks.
LEMMA PassAge ==
    ASSUME TypeInv, AgeInv, NEW b \in 0 .. MaxBusy, PassTakes(b), UNCHANGED now
    PROVE  AgeInv'
<1> SUFFICES ASSUME rx'.active PROVE AgeInv'
  BY DEF AgeInv
<1>1. /\ rx' = rx /\ rx.active /\ age' = age /\ (~blinded => age <= MP_TIMEOUT)
      /\ busy' = b
  BY AfterTimeoutIsYoung DEF PassTakes
<1>2. ~blinded' => ~blinded /\ ~(age + b >= Wrap)
  BY <1>1 DEF PassTakes
<1>3. age \in Nat /\ b \in Nat
  BY DEF TypeInv, TypeOK
<1> QED BY <1>1, <1>2, <1>3 DEF AgeInv

\* The clock moves with the age, and the loop looks at it in time.
LEMMA AgeStep == TypeInv /\ AgeInv /\ [Next]_vars => AgeInv'
<1> SUFFICES ASSUME TypeInv, AgeInv, [Next]_vars PROVE AgeInv'
  OBVIOUS
<1>0. /\ busy \in 0 .. MaxBusy /\ age \in 0 .. Wrap /\ looped \in BOOLEAN
      /\ now \in 0 .. Wrap - 1
  BY DEF TypeInv, TypeOK
<1>1. CASE UNCHANGED <<rx, timeVars>>
  BY <1>1 DEF AgeInv
<1>2. ASSUME NEW s \in Senders, Begin(s) \/ Deliver(s) \/ GiveUp(s) PROVE AgeInv'
  BY <1>1, <1>2 DEF Begin, Deliver, GiveUp
<1>3. CASE SendOther \/ DropMessage
  BY <1>1, <1>3 DEF SendOther, DropMessage
<1>4. CASE Idle \/ ServeOther
  <2>1. PICK b \in 0 .. MaxBusy : PassTakes(b) /\ UNCHANGED now
    BY <1>4 DEF Idle, ServeOther
  <2> QED BY <2>1, PassAge
<1>5. CASE Chunk
  <2> DEFINE r == Started(AfterTimeout, inbox)
             all == r.chunksReceived \cup {inbox.index}
             full == inbox.index \notin r.chunksReceived /\ all = Expected(r.chunksTotal)
  <2> SUFFICES ASSUME rx'.active PROVE AgeInv'
    BY DEF AgeInv
  <2>1. ~full
    BY <1>5 DEF Chunk, RxReset
  <2>2. /\ looped' = TRUE /\ now' = now /\ busy = 0 /\ busy' = 0
        /\ age' = IF r.chunksReceived = {} THEN 0 ELSE age
        /\ blinded' = (blinded /\ ~(r.chunksReceived = {}))
    BY <1>5, <2>1 DEF Chunk
  <2>3. inbox \in ChunkMsgs /\ rx'.startTime = r.startTime /\ rx'.chunksReceived = all
    BY <1>5, ChunkLeaves DEF RxReset
  <2>4. rx'.chunksReceived # {}
    BY <2>3
  <2>5. CASE r = rx /\ rx.active /\ AfterTimeout = rx
    <3>1. r.chunksReceived # {} /\ (~blinded => age <= MP_TIMEOUT)
      BY <2>5, AfterTimeoutIsYoung DEF AgeInv
    <3>2. age' = age /\ rx'.startTime = rx.startTime
      BY <2>2, <2>3, <2>5, <3>1
    <3>3. ~blinded' => ~blinded
      BY <2>2, <3>1
    <3> HIDE DEF r, all, full
    <3> QED BY <2>2, <2>4, <2>5, <3>1, <3>2, <3>3 DEF AgeInv
  <2>6. CASE r = NewReassembly(inbox)
    <3>1. r.chunksReceived = {} /\ r.startTime = now
      BY <2>6 DEF NewReassembly
    <3>2. age' = 0 /\ rx'.startTime = now
      BY <2>2, <2>3, <3>1
    <3> HIDE DEF r, all, full
    <3> QED BY <1>0, <2>2, <2>4, <3>2 DEF AgeInv
  <2> QED BY <2>3, <2>5, <2>6, StartedTyped
<1>6. CASE Tick
  <2> SUFFICES ASSUME rx.active, ~blinded PROVE AgeInv'
    BY <1>6 DEF Tick, AgeInv
  <2>1. /\ UNCHANGED <<rx, blinded>> /\ looped' = FALSE /\ now' = (now + 1) % Wrap
        /\ busy' = (IF busy > 0 THEN busy - 1 ELSE 0)
        /\ age' = (IF rx.active /\ age < Wrap THEN age + 1 ELSE age)
        /\ busy > 0 \/ looped
    BY <1>6 DEF Tick
  <2>2. age' = age + 1
    BY <2>1, ElapsedIsAge
  <2>3. age' + busy' < Wrap
    BY <1>0, <2>1, <2>2 DEF AgeInv
  <2>4. now' = rx.startTime + age' \/ now' = rx.startTime + age' - Wrap
    <3>1. now + 1 < Wrap => now' = now + 1
      BY <1>0, <2>1, ClockArithmetic
    <3>2. now + 1 = Wrap => now' = 0
      BY <2>1, ClockArithmetic
    <3>3. age' < Wrap /\ rx.startTime \in 0 .. Wrap - 1
      BY <1>0, <2>1, <2>2, <2>3 DEF TypeInv, TypeOK
    <3> QED BY <1>0, <2>2, <3>1, <3>2, <3>3 DEF AgeInv
  <2> QED BY <2>1, <2>3, <2>4 DEF AgeInv
<1>7. CASE UNCHANGED vars
  BY <1>1, <1>7
<1> QED
  BY <1>2, <1>3, <1>4, <1>5, <1>6, <1>7 DEF Next, Receiver

LEMMA AgeInvariant == Spec => []AgeInv
<1>1. Init => AgeInv
  BY DEF Init, RxReset, AgeInv
<1>2. TypeInv /\ AgeInv /\ [Next]_vars => AgeInv'
  BY AgeStep
<1> QED BY <1>1, <1>2, TypeInvariant, PTL DEF Spec

\* A pass of the loop leaves no message past the timeout, for every timeout and
\* clock and handlers of any length -- unless one handler kept the loop until the
\* message was as old as the clock is wide (ohs_multipart.h:46-51).
THEOREM UnfinishedIsGivenUp == Spec => []NeverStale
<1>1. AgeInv => NeverStale
  BY DEF AgeInv, NeverStale
<1> QED BY <1>1, AgeInvariant, PTL

----------------------------------------------------------------------------
(* Contents.                                                                *)

\* A chunk of the reassembly is of its sender and of a message as long, unless a
\* handler has written over it.
OneSenderInv ==
    rx.active => \A i \in rx.chunksReceived :
        \/ shared /\ buf[i] = Other
        \/ \E c \in Contents : /\ buf[i] = <<rx.senderAddress, c, i>>
                               /\ Chunks[c] = rx.chunksTotal

\* What the receiver has of a sender that waits until it is done is of the
\* message that the sender began last.
LastMessage(s) ==
    /\ inbox \in ChunkMsgs /\ inbox.from = s => inbox.content = sending[s]
    /\ rx.active /\ rx.senderAddress = s =>
          \/ shared
          \/ \A i \in rx.chunksReceived : buf[i] = <<s, sending[s], i>>

LastMessageInv == \A s \in Senders \ hurried : LastMessage(s)

WholeInv == OneSenderInv /\ LastMessageInv /\ FromOneSender /\ MessageIsWhole

\* The chunks a reassembly has after another: of its sender, and of the sender's
\* last message if that did not hurry.
LEMMA ChunkPieces ==
    ASSUME TypeInv, OneSenderInv, LastMessageInv, Chunk
    PROVE  LET r == Started(AfterTimeout, inbox)
               all == r.chunksReceived \cup {inbox.index}
               sh == shared /\ ~(r.chunksReceived = {}) IN
           /\ \A i \in all :
                 \/ sh /\ buf'[i] = Other
                 \/ \E c \in Contents : /\ buf'[i] = <<inbox.from, c, i>>
                                        /\ Chunks[c] = r.chunksTotal
           /\ inbox.from \notin hurried =>
                 /\ inbox.content = sending[inbox.from]
                 /\ sh \/ \A i \in all : buf'[i] = <<inbox.from, inbox.content, i>>
<1> DEFINE r == Started(AfterTimeout, inbox)
           all == r.chunksReceived \cup {inbox.index}
           sh == shared /\ ~(r.chunksReceived = {})
           Mine(i, c) == buf'[i] = <<inbox.from, c, i>>
<1>1. inbox \in ChunkMsgs /\ all \subseteq Indices
  BY ChunkLeaves
<1>2. /\ inbox.from \in Senders /\ inbox.content \in Contents /\ inbox.index \in Indices
      /\ r.chunksTotal = Chunks[inbox.content] /\ r.senderAddress = inbox.from
  BY <1>1, ChunkTyped, StartedTyped
<1>3. buf' = IF inbox.index \in r.chunksReceived THEN buf
             ELSE [buf EXCEPT ![inbox.index] =
                      <<inbox.from, inbox.content, inbox.index>>]
  BY DEF Chunk
<1>4. buf \in [Indices -> Pieces \cup {None, Other}]
  BY DEF TypeInv, TypeOK
<1>5. \A i \in r.chunksReceived : buf'[i] = buf[i]
  BY <1>1, <1>2, <1>3, <1>4
<1>6. inbox.index \notin r.chunksReceived => Mine(inbox.index, inbox.content)
  BY <1>2, <1>3, <1>4
<1>7. inbox.from \notin hurried => inbox.content = sending[inbox.from]
  BY <1>1, <1>2 DEF LastMessageInv, LastMessage
<1>8. CASE r.chunksReceived = {}
  BY <1>2, <1>6, <1>7, <1>8
<1>9. CASE r.chunksReceived # {}
  <2>1. r = rx /\ rx.active
    BY <1>1, <1>9, StartedTyped DEF NewReassembly
  <2>2. sh = shared
    BY <1>9, Zenon DEF TypeInv, TypeOK
  <2>3. \A i \in r.chunksReceived :
          \/ sh /\ buf'[i] = Other
          \/ \E c \in Contents : Mine(i, c) /\ Chunks[c] = r.chunksTotal
    BY <1>2, <1>5, <2>1, <2>2 DEF OneSenderInv
  <2>4. inbox.from \notin hurried =>
          sh \/ \A i \in r.chunksReceived : Mine(i, inbox.content)
    BY <1>2, <1>5, <1>7, <2>1, <2>2 DEF LastMessageInv, LastMessage
  <2> HIDE DEF r, sh, Mine
  <2>5. \A i \in all :
          \/ sh /\ buf'[i] = Other
          \/ \E c \in Contents : Mine(i, c) /\ Chunks[c] = r.chunksTotal
    BY <1>2, <1>6, <2>3
  <2>6. inbox.from \notin hurried => sh \/ \A i \in all : Mine(i, inbox.content)
    BY <1>6, <2>4
  <2> QED BY <1>7, <2>5, <2>6 DEF r, sh, Mine
<1> QED BY <1>8, <1>9

\* Passes of the loop that are not of a chunk.
LEMMA PassKeeps ==
    ASSUME TypeInv, OneSenderInv, LastMessageInv, Idle \/ ServeOther
    PROVE  OneSenderInv' /\ LastMessageInv'
<1>1. rx' = AfterTimeout /\ inbox' = None /\ UNCHANGED senderVars
  BY DEF Idle, ServeOther, PassTakes
<1>2. CASE ~rx'.active
  BY <1>1, <1>2 DEF OneSenderInv, LastMessageInv, LastMessage
<1>3. CASE rx'.active
  <2>1. rx' = rx /\ rx.active
    BY <1>1, <1>3 DEF AfterTimeout, RxReset
  <2>2. rx.chunksReceived \subseteq Indices
    BY DEF TypeInv, RxStructs
  <2>3. CASE UNCHANGED buf /\ (shared' <=> shared)
    BY <1>1, <2>1, <2>3 DEF OneSenderInv, LastMessageInv, LastMessage
  <2>4. CASE /\ \E n \in Indices :
                   buf' = [i \in Indices |-> IF i <= n THEN Other ELSE buf[i]]
             /\ shared'
    <3>1. \A i \in rx.chunksReceived : buf'[i] = Other \/ buf'[i] = buf[i]
      BY <2>2, <2>4
    <3>2. rx' = rx /\ shared' /\ inbox' \notin ChunkMsgs
      BY <1>1, <2>1, <2>4
    <3>3. OneSenderInv'
      <4>1. ASSUME NEW i \in rx.chunksReceived
            PROVE  \/ buf'[i] = Other
                   \/ \E c \in Contents : /\ buf'[i] = <<rx.senderAddress, c, i>>
                                          /\ Chunks[c] = rx.chunksTotal
        BY <2>1, <3>1 DEF OneSenderInv
      <4> QED BY <3>2, <4>1 DEF OneSenderInv
    <3>4. LastMessageInv'
      BY <3>2 DEF LastMessageInv, LastMessage
    <3> QED BY <3>3, <3>4
  <2>5. CASE UNCHANGED buf /\ shared' = (shared /\ rx'.active)
    <3>1. shared' <=> shared
      BY <1>3, <2>5
    <3> QED BY <2>3, <2>5, <3>1
  <2>6. CASE /\ \E n \in Indices :
                   buf' = [i \in Indices |-> IF i <= n THEN Other ELSE buf[i]]
             /\ shared' = rx'.active
    <3>1. shared'
      BY <1>3, <2>6
    <3> QED BY <2>4, <2>6, <3>1
  <2> QED BY <2>5, <2>6 DEF Idle, ServeOther
<1> QED BY <1>2, <1>3

\* What a sender does leaves the reassembly as it is.
LEMMA SenderKeeps ==
    ASSUME TypeInv, LastMessageInv, NEW s \in Senders,
           Begin(s) \/ Deliver(s) \/ GiveUp(s)
    PROVE  LastMessageInv'
<1>0. sending \in [Senders -> Contents \cup {None}]
  BY DEF TypeInv, TypeOK
<1>1. CASE Begin(s)
  <2>1. UNCHANGED <<inbox, rx, buf, shared>>
    BY <1>1 DEF Begin
  <2>2. PICK c \in Contents :
          /\ sending' = [sending EXCEPT ![s] = c]
          /\ hurried' = IF ~Unfinished(s) THEN hurried \ {s}
                        ELSE IF c = sending[s] THEN hurried ELSE hurried \cup {s}
    BY <1>1 DEF Begin
  <2>3. ASSUME NEW q \in Senders \ hurried', q # s PROVE LastMessage(q)'
    <3>1. q \notin hurried /\ sending'[q] = sending[q]
      BY <1>0, <2>2, <2>3
    <3>2. LastMessage(q)
      BY <3>1 DEF LastMessageInv
    <3> QED BY <2>1, <3>1, <3>2 DEF LastMessage
  <2>4. ASSUME s \notin hurried' PROVE LastMessage(s)'
    <3>1. CASE ~Unfinished(s)
      BY <2>1, <3>1 DEF Unfinished, LastMessage
    <3>2. CASE Unfinished(s)
      <4>1. c = sending[s] /\ s \notin hurried
        BY <2>2, <2>4, <3>2
      <4>2. sending'[s] = sending[s]
        BY <1>0, <2>2, <4>1
      <4>3. LastMessage(s)
        BY <4>1 DEF LastMessageInv
      <4> QED BY <2>1, <4>2, <4>3 DEF LastMessage
    <3> QED BY <3>1, <3>2
  <2> QED BY <2>3, <2>4 DEF LastMessageInv
<1>2. CASE Deliver(s)
  <2>1. /\ UNCHANGED <<sending, hurried, rx, buf, shared>>
        /\ inbox' = [from |-> s, content |-> sending[s], index |-> next[s]]
    BY <1>2 DEF Deliver
  <2> QED BY <2>1 DEF LastMessageInv, LastMessage
<1>3. CASE GiveUp(s)
  BY <1>3 DEF GiveUp, LastMessageInv, LastMessage
<1> QED BY <1>1, <1>2, <1>3

\* A chunk, and what it completes.
LEMMA ChunkStep ==
    ASSUME TypeInv, OneSenderInv, LastMessageInv, Chunk
    PROVE  OneSenderInv' /\ LastMessageInv' /\ FromOneSender' /\ MessageIsWhole'
<1> DEFINE r == Started(AfterTimeout, inbox)
           first == r.chunksReceived = {}
           all == r.chunksReceived \cup {inbox.index}
           full == inbox.index \notin r.chunksReceived /\ all = Expected(r.chunksTotal)
           sh == shared /\ ~first
<1>1. /\ \A i \in all :
            \/ sh /\ buf'[i] = Other
            \/ \E c \in Contents : /\ buf'[i] = <<inbox.from, c, i>>
                                   /\ Chunks[c] = r.chunksTotal
      /\ inbox.from \notin hurried =>
            /\ inbox.content = sending[inbox.from]
            /\ sh \/ \A i \in all : buf'[i] = <<inbox.from, inbox.content, i>>
  BY ChunkPieces
<1>2. /\ inbox \in ChunkMsgs /\ inbox.content \in Contents
      /\ r.chunksTotal = Chunks[inbox.content] /\ r.senderAddress = inbox.from
  BY StartedTyped, ChunkTyped DEF Chunk
<1>3. /\ shared' = (shared /\ ~first /\ ~full)
      /\ inbox' = None /\ UNCHANGED senderVars
      /\ \/ /\ full /\ rx' = RxReset
            /\ got' = [from    |-> inbox.from,
                       pieces  |-> [i \in 0 .. r.chunksTotal - 1 |-> buf'[i]],
                       hurried |-> inbox.from \in hurried,
                       shared  |-> sh]
         \/ ~full /\ rx' = [r EXCEPT !.chunksReceived = all] /\ got' = None
  BY DEF Chunk
<1>4. rx'.active => /\ rx'.chunksReceived = all /\ rx'.chunksTotal = r.chunksTotal
                    /\ rx'.senderAddress = r.senderAddress
  BY ChunkLeaves DEF RxReset
<1>5. CASE ~full /\ got' = None
  <2>1. shared' <=> sh
    BY <1>3, <1>5
  <2> HIDE DEF r, all, sh, full, first
  <2>2. OneSenderInv'
    BY <1>1, <1>2, <1>4, <2>1 DEF OneSenderInv
  <2>3. LastMessageInv'
    BY <1>1, <1>2, <1>3, <1>4, <2>1 DEF LastMessageInv, LastMessage
  <2> QED BY <1>5, <2>2, <2>3 DEF FromOneSender, MessageIsWhole
<1>6. CASE full /\ rx' = RxReset
  <2>1. OneSenderInv' /\ LastMessageInv'
    BY <1>3, <1>6 DEF RxReset, OneSenderInv, LastMessageInv, LastMessage
  <2>2. all = 0 .. r.chunksTotal - 1
    BY <1>6 DEF Expected
  <2>3. /\ got'.from = inbox.from /\ got'.shared = sh
        /\ got'.hurried = (inbox.from \in hurried)
        /\ got'.pieces = [i \in all |-> buf'[i]]
    <3>1. ~(~full)
      BY <1>6
    <3> HIDE DEF full, sh, first, r, all
    <3> QED BY <1>3, <2>2, <3>1
  <2> HIDE DEF r, all, sh, full, first
  <2>4. FromOneSender'
    <3>1. ASSUME NEW i \in all
          PROVE  \/ got'.shared /\ got'.pieces[i] = Other
                 \/ \E c \in Contents : /\ got'.pieces[i] = <<got'.from, c, i>>
                                        /\ DOMAIN got'.pieces = 0 .. Chunks[c] - 1
      <4>1. got'.pieces[i] = buf'[i] /\ DOMAIN got'.pieces = 0 .. r.chunksTotal - 1
        BY <2>2, <2>3
      <4> QED BY <1>1, <2>3, <4>1
    <3>2. DOMAIN got'.pieces = all
      BY <2>3
    <3> QED BY <3>1, <3>2 DEF FromOneSender
  <2>5. MessageIsWhole'
    <3> SUFFICES ASSUME ~got'.hurried, ~got'.shared
                 PROVE  got'.pieces = Whole(inbox.from, inbox.content)
      BY <1>2, <2>3 DEF MessageIsWhole, Whole
    <3>1. \A i \in all : buf'[i] = <<inbox.from, inbox.content, i>>
      BY <1>1, <2>3
    <3> QED BY <1>2, <2>2, <2>3, <3>1 DEF Whole
  <2> QED BY <2>1, <2>4, <2>5
<1> QED BY <1>3, <1>5, <1>6

LEMMA WholeStep == TypeInv /\ WholeInv /\ [Next]_vars => WholeInv'
<1> SUFFICES ASSUME TypeInv, WholeInv, [Next]_vars PROVE WholeInv'
  OBVIOUS
<1> USE DEF WholeInv
<1>1. CASE got' = None \/ UNCHANGED got
  <2>1. FromOneSender' /\ MessageIsWhole'
    BY <1>1 DEF FromOneSender, MessageIsWhole, Whole
  <2>2. CASE \E s \in Senders : Begin(s) \/ Deliver(s) \/ GiveUp(s)
    <3>1. OneSenderInv'
      BY <2>2 DEF Begin, Deliver, GiveUp, OneSenderInv
    <3> QED BY <2>1, <2>2, <3>1, SenderKeeps
  <2>3. CASE SendOther \/ DropMessage
    BY <2>1, <2>3 DEF SendOther, DropMessage, OneSenderInv, LastMessageInv, LastMessage
  <2>4. CASE Idle \/ ServeOther
    BY <2>1, <2>4, PassKeeps
  <2>5. CASE Chunk
    BY <2>5, ChunkStep
  <2>6. CASE Tick \/ UNCHANGED vars
    BY <2>1, <2>6 DEF Tick, OneSenderInv, LastMessageInv, LastMessage
  <2> QED BY <2>2, <2>3, <2>4, <2>5, <2>6 DEF Next, Receiver
<1>2. CASE Chunk
  BY <1>2, ChunkStep
<1>3. CASE \E s \in Senders : Begin(s) \/ Deliver(s) \/ GiveUp(s)
  BY <1>1, <1>3 DEF Begin, Deliver, GiveUp
<1>4. CASE SendOther \/ Idle \/ ServeOther \/ DropMessage \/ Tick \/ UNCHANGED vars
  BY <1>1, <1>4 DEF SendOther, Idle, ServeOther, DropMessage, Tick
<1> QED
  BY <1>2, <1>3, <1>4 DEF Next, Receiver

LEMMA WholeInvariant == Spec => []WholeInv
<1>1. Init => WholeInv
  BY DEF Init, RxReset, WholeInv, OneSenderInv, LastMessageInv, LastMessage,
         FromOneSender, MessageIsWhole
<1>2. TypeInv /\ WholeInv /\ [Next]_vars => WholeInv'
  BY WholeStep
<1> QED BY <1>1, <1>2, TypeInvariant, PTL DEF Spec

\* A message put together is one that was sent, for any senders and messages and
\* whatever is lost, repeated, given up or tried again, unless its sender had gone
\* on to it from another while the receiver was not done with that, or a handler
\* used compressed meanwhile (ohs_multipart.h:61-106, ohs_th_rs485.h:550-557).
THEOREM MessageIsOneThatWasSent == Spec => []MessageIsWhole
<1>1. WholeInv => MessageIsWhole
  BY DEF WholeInv
<1> QED BY <1>1, WholeInvariant, PTL

\* Whatever the senders do, no message is made of chunks of two of them or of
\* messages of two lengths (ohs_multipart.h:80-82).
THEOREM ChunksAreOfOneSender == Spec => []FromOneSender
<1>1. WholeInv => FromOneSender
  BY DEF WholeInv
<1> QED BY <1>1, WholeInvariant, PTL

=============================================================================
