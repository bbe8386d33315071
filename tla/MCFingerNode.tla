---------------------------- MODULE MCFingerNode ----------------------------
(***************************************************************************)
(* Instances of FingerNode for TLC: the sets of messages the runs send.     *)
(***************************************************************************)
EXTENDS FingerNode, TLC

ModeMsgs == [kind : {"mode"}, mode : {MODE_DISARMED, MODE_ARMED_AWAY}]
EnrollMsgs == [kind : {"enroll"}, slot : Slots]
PushMsgs == [kind : {"push"}, slot : Slots, tmpl : Templates]
DeleteMsgs == [kind : {"delete", "peerDelete"}, slot : Slots]
GetMsgs == [kind : {"get"}, slot : Slots]
FlushMsg == [kind |-> "flush"]
QueryMsg == [kind |-> "query"]

ArmMsg == [kind |-> "mode", mode |-> MODE_ARMED_AWAY]

\* Fingers are enrolled, sent, stored and deleted while the alarm is armed and
\* disarmed.
AllCommands ==
    ModeMsgs \cup EnrollMsgs \cup GetMsgs \cup PushMsgs \cup DeleteMsgs
        \cup {FlushMsg}

\* The gateway manages the templates, and no finger is enrolled on this node ...
SyncCommands ==
    {FlushMsg} \cup PushMsgs \cup [kind : {"delete"}, slot : Slots]

\* ... or fingers are enrolled too.
LibraryCommands == SyncCommands \cup EnrollMsgs

\* The operations that put the node in MODE_ENROLLMENT.
EnrollOrPush == EnrollMsgs \cup PushMsgs

\* While the main thread boots the gateway sends nothing that changes the mode.
QuietBoot == {QueryMsg}

\* ... or it does (README, section 5).
BusyBoot == {ArmMsg} \cup EnrollMsgs

\* It does not matter which template is which.
TemplateSymmetry == Permutations(Templates)

\* All but the count reported and the history of counts and changes, which no
\* action reads: the view of a state for properties that do not look at them.
NoReports ==
    <<stateVars, semVars, mainVars, jobVars, flagVars, fpId, sensorVars,
      worldVars, inbox, gwSeen, commanded>>
============================================================================
