----------------------------- MODULE MCAuthLoop -----------------------------
(***************************************************************************)
(* Instances of AuthLoop for TLC.                                           *)
(***************************************************************************)
EXTENDS AuthLoop

\* One mode that reports at once, one that waits, one that does not scan.
ThreeModes == {MODE_DISARMED, MODE_ARMED_AWAY, MODE_ENROLLMENT}

\* Enough for the deviations of README, section 5.
OneMode == {MODE_DISARMED}
Cooldown == -2
============================================================================
