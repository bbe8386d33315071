----------------------------- MODULE MCDisplay -----------------------------
(* An instance of Display for TLC. *)
EXTENDS Display

FewCommanded == {MODE_DISARMED, MODE_ARMING, MODE_ARMED_HOME, MODE_ALARM}
OneDelay == {1}
=============================================================================
