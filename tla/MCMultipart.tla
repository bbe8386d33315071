---------------------------- MODULE MCMultipart ----------------------------
(***************************************************************************)
(* Instances of Multipart for TLC.                                          *)
(***************************************************************************)
EXTENDS Multipart, TLC

CONSTANTS c2, d2, d3

\* Two messages of two chunks, which a receiver cannot tell apart, and one of
\* three.
MCContents == {c2, d2, d3}

\* Senders that only ever say one thing (README, section 5).
OneContent == {c2}

MCChunks == [c \in Contents |-> IF c = d3 THEN 3 ELSE 2]

\* Senders are alike, and so are the two messages of two chunks.
SameKinds == Permutations(Senders) \cup Permutations({c2, d2})

\* What later steps can depend on, the view of a state: of the buffer the chunks
\* that are marked as received (a chunk is written when it is marked), of the
\* clock the time elapsed, and of a message that is no longer sent what the
\* receiver has not done with (Begin forgets the rest).  The last part is always
\* TRUE: it has TLC evaluate buf, which it must write to its queue as a whole.
WhatMatters ==
    <<[s \in Senders |->
          IF next[s] = None /\ ~Unfinished(s) THEN None
          ELSE <<sending[s], next[s], s \in hurried>>],
      inbox, [rx EXCEPT !.startTime = IF rx.active THEN Elapsed ELSE 0],
      [i \in rx.chunksReceived |-> buf[i]], busy, looped, age, blinded, shared,
      got, buf = [i \in Indices |-> buf[i]]>>
============================================================================
