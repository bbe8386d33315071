----------------------------- MODULE MCGwContact -----------------------------
(* An instance of GwContact for TLC. *)
EXTENDS GwContact

Late(year, month, day) ==
  [year |-> year - 1980, month |-> month, day |-> day, second |-> SECONDS_PER_DAY - 4]

(* Shortly before a leap day and before the end of a leap year. *)
FewStarts == {Late(2024, 2, 28), Late(2024, 12, 31)}

\* A clock that is ahead, right, and behind by more than the timeout.
FewSteps == {-1, 0, GW_TIMEOUT_SECS + 1}
=============================================================================
