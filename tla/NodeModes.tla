----------------------------- MODULE NodeModes -----------------------------
(***************************************************************************)
(* authMode_t (ohs_func.h): the modes of the node.  All but the first two   *)
(* are set by the gateway, which numbers its mode commands alike.           *)
(***************************************************************************)
EXTENDS Integers

\* authMode_t
MODE_UNINITIALIZED == 0
MODE_ENROLLMENT    == 1
MODE_ARMING        == 10
MODE_ALARM         == 11
MODE_AUTH_1        == 12
MODE_AUTH_2        == 13
MODE_AUTH_3        == 14
MODE_ARMED_AWAY    == 15
MODE_DISARMED      == 16
MODE_ARMED_HOME    == 17

\* NODE_CMD_ARMING ... NODE_CMD_ARMED_HOME, the modes the gateway can command
CommandedModes == MODE_ARMING .. MODE_ARMED_HOME
Modes == {MODE_UNINITIALIZED, MODE_ENROLLMENT} \cup CommandedModes
============================================================================
