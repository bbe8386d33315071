------------------------------- MODULE PeerSync -------------------------------
(***************************************************************************)
(* RS485Thread's changes of conf: the registration, the IDs of the         *)
(* templates, and the table of templates that peers on the bus have yet to *)
(* get (ohs_th_rs485.h:189-334), each saved with ConfFlash's writeToFlash. *)
(* retryPendingSyncs runs when the thread starts.  syncFingerprintToNodes, *)
(* which fills the table, is here a call the environment may make: in the  *)
(* repository nobody does.                                                 *)
(***************************************************************************)
EXTENDS ConfFlash, FiniteSetsExt

CONSTANTS Locs,       \* locations a message can name
          Ids,        \* IDs the gateway assigns
          Names,      \* registrations
          MaxAddr,    \* FINGER_SYNC_MAX_ADDR
          OwnAddr     \* rs485cfg.address

ASSUME PeerAssumption == /\ Locs \subseteq 0 .. NoLoc - 1
                         /\ Ids \subseteq 1 .. ERASED - 1
                         /\ Names \subseteq 1 .. ERASED - 1
                         /\ MaxAddr \in 1 .. 8
                         /\ OwnAddr \in 1 .. 8

VARIABLES sync,         \* what RS485Thread is doing: its loop and the locals
          owed,         \* history: <<location, address>> not acknowledged
          excused       \* history: power was lost during a write, or a
                        \* pending sync found the table full

peerVars == <<sync, owed, excused>>
vars == <<flashVars, peerVars>>

Peers == (1 .. MaxAddr) \ {OwnAddr}

(* Mutant: the own address and those past the limit are not passed over. *)
ReceiversAll(mask) == mask

(* The addresses of the loops 275-277 and 315-316. *)
Receivers(mask) == mask \cap Peers

Idle == [kind |-> "none", i |-> 0, loc |-> 0, to |-> {}]
Retry(i, loc, to) == [kind |-> "retry", i |-> i, loc |-> loc, to |-> to]
PushOf(loc, to) == [kind |-> "push", i |-> 0, loc |-> loc, to |-> to]
DeleteOf(loc) == [kind |-> "delete", i |-> 0, loc |-> loc, to |-> {}]
-----------------------------------------------------------------------------
EntriesOf(c, loc) == {i \in Entries : c[LocAt(i)] = loc}
Pending(c) ==
  {p \in Locs \X (1 .. 8) :
     \E i \in Entries : c[LocAt(i)] = p[1] /\ p[2] \in c[MaskAt(i)]}

(* Mutant: takes the first entry that is free or of the location. *)
AddPendingFirst(c, loc, addr) ==
  LET i == Min(EntriesOf(c, loc) \cup EntriesOf(c, NoLoc))
  IN [c EXCEPT ![MaskAt(i)] = IF c[LocAt(i)] = loc THEN @ \cup {addr} ELSE {addr},
               ![LocAt(i)] = loc]

(* addPendingSync: the entry of the location, else the first free one. *)
AddPending(c, loc, addr) ==
  IF EntriesOf(c, loc) # {}
  THEN [c EXCEPT ![MaskAt(Min(EntriesOf(c, loc)))] = @ \cup {addr}]
  ELSE LET i == Min(EntriesOf(c, NoLoc))
       IN [c EXCEPT ![LocAt(i)] = loc, ![MaskAt(i)] = {addr}]
NoRoom(c, loc) == EntriesOf(c, loc) = {} /\ EntriesOf(c, NoLoc) = {}

(* removePendingSyncAddr: the last address frees the entry. *)
RemovePending(c, loc, addr) ==
  IF EntriesOf(c, loc) = {} THEN c
  ELSE LET i == Min(EntriesOf(c, loc))
           left == c[MaskAt(i)] \ {addr}
       IN [c EXCEPT ![MaskAt(i)] = left,
                    ![LocAt(i)] = IF left = {} THEN NoLoc ELSE loc]

(* Mutant: never cleared, the table waits for the peers. *)
ClearNothing(c, loc) == c

(* clearPendingSync *)
ClearPending(c, loc) ==
  IF EntriesOf(c, loc) = {} THEN c
  ELSE LET i == Min(EntriesOf(c, loc))
       IN [c EXCEPT ![LocAt(i)] = NoLoc, ![MaskAt(i)] = {}]

(* The functions return without a write when they find no entry. *)
SaveIfFound(c, loc) ==
  IF EntriesOf(conf, loc) = {} THEN UNCHANGED flashVars ELSE WriteToFlash(c)
-----------------------------------------------------------------------------
Ready == phase = "idle" /\ sync = Idle

(* 'R' (446-461): a blank reg is that of no element. *)
Register(n) ==
  /\ Ready
  /\ conf[RegAt] # Blank[RegAt]
  /\ WriteToFlash([conf EXCEPT ![RegAt] = n, ![VersionAt] = VERSION])
  /\ UNCHANGED peerVars

(* A push from the gateway that the sensor has stored (588-592). *)
SetId(loc, id) ==
  /\ Ready
  /\ loc \in Slots
  /\ WriteToFlash([conf EXCEPT ![IdAt(loc)] = id])
  /\ UNCHANGED peerVars

(* 'D' (517-530): two writes, one after the other. *)
Delete(loc) ==
  /\ Ready
  /\ SaveIfFound(ClearPending(conf, loc), loc)
  /\ sync' = DeleteOf(loc)
  /\ owed' = {p \in owed : p[1] # loc}
  /\ UNCHANGED excused

DeleteId ==
  /\ phase = "idle"
  /\ sync.kind = "delete"
  /\ IF sync.loc \in Slots
     THEN WriteToFlash([conf EXCEPT ![IdAt(sync.loc)] = 0])
     ELSE UNCHANGED flashVars
  /\ sync' = Idle
  /\ UNCHANGED <<owed, excused>>

(* 'A' (531-544) *)
Flush ==
  /\ Ready
  /\ WriteToFlash([w \in Words |->
       IF w \in {VersionAt, RegAt} THEN conf[w] ELSE Default[w]])
  /\ owed' = {}
  /\ UNCHANGED <<sync, excused>>
-----------------------------------------------------------------------------
(* syncFingerprintToNodes (297-334), the template having been downloaded. *)
SyncFingerprint(loc) ==
  /\ Ready
  /\ sync' = PushOf(loc, Receivers(1 .. 8))
  /\ UNCHANGED <<flashVars, owed, excused>>

Receiver == Min(sync.to)
Sent == [sync EXCEPT !.to = @ \ {Receiver}]
Sending(kind) == phase = "idle" /\ sync.kind = kind /\ sync.to # {}

(* The peer acknowledged every chunk in one of three attempts. *)
SendOK(kind) ==
  /\ Sending(kind)
  /\ SaveIfFound(RemovePending(conf, sync.loc, Receiver), sync.loc)
  /\ owed' = owed \ {<<sync.loc, Receiver>>}
  /\ sync' = Sent
  /\ UNCHANGED excused

PushFails ==
  /\ Sending("push")
  /\ sync' = Sent
  /\ \/ /\ NoRoom(conf, sync.loc)
        /\ excused' = TRUE
        /\ owed' = {}
        /\ UNCHANGED flashVars
     \/ /\ ~NoRoom(conf, sync.loc)
        /\ WriteToFlash(AddPending(conf, sync.loc, Receiver))
        /\ owed' = IF excused THEN {} ELSE owed \cup {<<sync.loc, Receiver>>}
        /\ UNCHANGED excused

RetryFails ==
  /\ Sending("retry")
  /\ sync' = Sent
  /\ UNCHANGED <<flashVars, owed, excused>>

PushDone ==
  /\ phase = "idle" /\ sync.kind = "push" /\ sync.to = {}
  /\ sync' = Idle
  /\ UNCHANGED <<flashVars, owed, excused>>

(***************************************************************************)
(* The loop of retryPendingSyncs (256-268): the next entry, whose mask and *)
(* location are copied, or none left.  The download may fail.              *)
(***************************************************************************)
RetryEntry ==
  /\ phase = "idle" /\ sync.kind = "retry" /\ sync.to = {}
  /\ LET i == sync.i + 1
     IN \/ /\ i > NEntries
           /\ sync' = Idle
        \/ /\ i <= NEntries
           /\ \/ sync' = Retry(i, 0, {})
              \/ /\ conf[LocAt(i)] # NoLoc
                 /\ sync' = Retry(i, conf[LocAt(i)], Receivers(conf[MaskAt(i)]))
  /\ UNCHANGED <<flashVars, owed, excused>>
-----------------------------------------------------------------------------
Start == Boot /\ sync' = Retry(0, 0, {}) /\ UNCHANGED <<owed, excused>>

Crash ==
  /\ PowerLoss
  /\ sync' = Idle
  /\ IF phase \in {"erase", "program"}
     THEN excused' = TRUE /\ owed' = {}
     ELSE UNCHANGED <<owed, excused>>

Save == (Erase \/ Program) /\ UNCHANGED peerVars

Init ==
  /\ FlashInit
  /\ sync = Idle
  /\ owed = {}
  /\ excused = FALSE

Next ==
  \/ Start \/ Save \/ Crash
  \/ \E n \in Names : Register(n)
  \/ \E loc \in Locs, id \in Ids : SetId(loc, id)
  \/ \E loc \in Locs : Delete(loc) \/ SyncFingerprint(loc)
  \/ DeleteId \/ Flush
  \/ \E kind \in {"push", "retry"} : SendOK(kind)
  \/ PushFails \/ RetryFails \/ PushDone \/ RetryEntry

Spec == Init /\ [][Next]_vars
-----------------------------------------------------------------------------
TypeOK ==
  /\ \A c \in {page, conf, whole} :
       /\ DOMAIN c = Words
       /\ \A i \in Entries : c[LocAt(i)] \in Locs \cup {NoLoc} /\ c[MaskAt(i)] \subseteq 1 .. 8
       /\ \A s \in Slots : c[IdAt(s)] \in Ids \cup {0, ERASED}
  /\ phase \in {"off", "idle", "erase", "program"}
  /\ at \in Words
  /\ sync.kind \in {"none", "retry", "push", "delete"}
  /\ sync.i \in 0 .. NEntries
  /\ sync.loc \in Locs \cup {0}
  /\ sync.to \subseteq Peers
  /\ owed \subseteq Locs \X Peers
  /\ excused \in BOOLEAN

(* writeToFlash programs a halfword only while it is erased, whatever an   *)
(* earlier write that was cut short has left: the flash would not take it. *)
ProgramsErasedOnly ==
  phase = "program" => \A w \in at .. Size : page[w] = Blank[w]

(* What is in the flash is all of one configuration, but for blanks, and   *)
(* never a mixture of two: what a boot finds there is one that was run     *)
(* with or was being written.  When RS485Thread is between two calls it is *)
(* what the thread goes by.                                                *)
NeverMixed ==
  /\ \A w \in Words : page[w] \in {whole[w], Blank[w]}
  /\ phase = "idle" => page = conf

(* A mask of addresses a template is sent to, or one that a write which was *)
(* cut short between location and mask left blank, so that it has all the   *)
(* others.                                                                  *)
OfPeers(mask) == mask # {} /\ (mask \subseteq Peers \/ (1 .. 8) \ Peers \subseteq mask)

(* No location has two entries of the pending table: the code stops at the  *)
(* first it finds (194, 210, 222).  A taken entry has an address to send    *)
(* to, and only such, unless a power loss left its mask blank; then it has  *)
(* the own address and those past the limit until a delete or a flush,      *)
(* which is all it has in the end (EntryHasPeer).                           *)
OneEntryPerLocation ==
  phase = "idle" =>
    \A i, j \in Entries :
      conf[LocAt(i)] # NoLoc =>
        /\ conf[LocAt(i)] = conf[LocAt(j)] => i = j
        /\ OfPeers(conf[MaskAt(i)])

(* main.c:104: the addresses of an entry are such as a sync failed for; so  *)
(* a taken entry has a peer to send to.  No run checks it: it fails after a *)
(* write that is cut short between location and mask, once the retries      *)
(* have reached all peers (README, section 5).                              *)
EntryHasPeer ==
  phase = "idle" =>
    \A i \in Entries : conf[LocAt(i)] # NoLoc => conf[MaskAt(i)] \cap Peers # {}

(* The table is exactly the templates that peers failed to acknowledge and *)
(* that have been neither sent since nor deleted, as long as it was never  *)
(* full and no write to the flash was cut short.                           *)
PendingIsOwed ==
  phase = "idle" /\ ~excused => Pending(conf) = owed

(* main.c:116: a slot has the ID its gateway assigned, or 0 for no         *)
(* template.  No run checks it: it fails after a write that is cut short   *)
(* behind the version, which leaves an ID of 0xFFFF (README, section 5).    *)
IdIsAssigned ==
  phase = "idle" => \A s \in Slots : conf[IdAt(s)] \in Ids \cup {0}
=============================================================================
