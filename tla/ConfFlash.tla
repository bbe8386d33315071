------------------------------ MODULE ConfFlash ------------------------------
(***************************************************************************)
(* The configuration of the node (conf, main.c:111-117) and its copy in    *)
(* the last page of the flash (source/eeprom2flash.c): an array of         *)
(* halfwords, read whole at boot and written whole, one halfword after the *)
(* other, after an erase.  Power may be lost between any two of them.      *)
(*                                                                         *)
(* A halfword holds a number, but the failMask of a pending entry is the   *)
(* set of the bus addresses whose bits are set.  reg is one halfword here: *)
(* which registration the gateway gave last.                               *)
(***************************************************************************)
EXTENDS Naturals

CONSTANTS NSlots,     \* template slots with an ID (FINGERS_SIZE)
          NEntries,   \* entries of the table of pending syncs (PENDING_SYNC_SLOTS)
          Erasures    \* sets of halfwords an erase that is cut short may leave blank

ASSUME SlotsAssumption == NSlots \in Nat /\ NEntries \in Nat

VARIABLES page,       \* the flash page FLASH_EE_REGION, by halfword
          conf,       \* conf in RAM
          phase,      \* where the program is in writeToFlash; "off" without power
          at,         \* i of the loop 66: the next halfword to program
          whole       \* history: the configuration the page has parts of

flashVars == <<page, conf, phase, at, whole>>

VERSION == 104
ERASED == 65535       \* 0xFFFF, what an erased halfword reads as
NoLoc == ERASED       \* the location of a free entry
Slots == 0 .. NSlots - 1
Entries == 1 .. NEntries

VersionAt == 1
RegAt == 2
LocAt(i) == 1 + 2 * i
MaskAt(i) == 2 + 2 * i
IdAt(s) == 3 + 2 * NEntries + s
Size == 2 + 2 * NEntries + NSlots
Words == 1 .. Size

(* An erased page. *)
Blank == [w \in Words |-> IF \E i \in Entries : w = MaskAt(i) THEN 1 .. 8 ELSE ERASED]

(* setDefault *)
Default == [w \in Words |->
              CASE w = VersionAt                     -> VERSION
                [] \E i \in Entries : w = LocAt(i)   -> NoLoc
                [] \E i \in Entries : w = MaskAt(i)  -> {}
                [] OTHER                             -> 0]
-----------------------------------------------------------------------------
(* Mutant: looks at the first halfword only. *)
NeedsEraseFirst == page[VersionAt] # Blank[VersionAt]

(* Whether writeToFlash has to erase before it programs (47-51). *)
NeedsErase == page # Blank

(***************************************************************************)
(* writeToFlash(&conf, sizeof(conf)) called with conf = c.  The checks     *)
(* only read and nobody else writes the page, so they belong to the call.  *)
(***************************************************************************)
WriteToFlash(c) ==
  /\ conf' = c
  /\ IF page = c
     THEN phase' = "idle" /\ UNCHANGED <<page, at, whole>>
     ELSE /\ IF NeedsErase
             THEN phase' = "erase" /\ UNCHANGED whole
             ELSE phase' = "program" /\ whole' = c
          /\ UNCHANGED <<page, at>>

(* Page erase (53-61): the processor waits for the end of it. *)
Erase ==
  /\ phase = "erase"
  /\ page' = Blank
  /\ phase' = "program"
  /\ whole' = conf
  /\ UNCHANGED <<conf, at>>

(***************************************************************************)
(* The flash controller (external): a halfword that is not erased is left  *)
(* as it is; the error flag it sets is not looked at.                      *)
(***************************************************************************)
Programmed(w, v) == IF page[w] = Blank[w] THEN v ELSE page[w]

(* One round of the loop 66-68, and with the last one the return. *)
Program ==
  /\ phase = "program"
  /\ page' = [page EXCEPT ![at] = Programmed(at, conf[at])]
  /\ IF at < Size
     THEN at' = at + 1 /\ UNCHANGED phase
     ELSE at' = 1 /\ phase' = "idle"
  /\ UNCHANGED <<conf, whole>>

(***************************************************************************)
(* Power is lost.  RAM is; a page whose erase was cut short may be blank   *)
(* in any part.                                                            *)
(***************************************************************************)
PowerLoss ==
  /\ phase # "off"
  /\ phase' = "off"
  /\ conf' = Blank
  /\ IF phase = "erase"
     THEN \E blank \in Erasures :
            page' = [w \in Words |-> IF w \in blank THEN Blank[w] ELSE page[w]]
     ELSE UNCHANGED page
  /\ at' = 1
  /\ UNCHANGED whole

(* main.c:345-350: readFromFlash, and setDefault if the version is another. *)
Boot ==
  /\ phase = "off"
  /\ IF page[VersionAt] = VERSION
     THEN conf' = page /\ phase' = "idle" /\ whole' = page /\ UNCHANGED <<page, at>>
     ELSE WriteToFlash(Default)

(* A node fresh from the factory, or with a firmware of another version. *)
FlashInit ==
  /\ page \in {Blank, [Default EXCEPT ![VersionAt] = VERSION - 1, ![RegAt] = 1]}
  /\ conf = Blank
  /\ phase = "off"
  /\ at = 1
  /\ whole = page
=============================================================================
