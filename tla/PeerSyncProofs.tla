---------------------------- MODULE PeerSyncProofs ----------------------------
(***************************************************************************)
(* Theorems about PeerSync, for any number of slots and entries, and       *)
(* wherever in an erase or a write the power is lost.                      *)
(***************************************************************************)
EXTENDS PeerSync, WellFoundedInduction, TLAPS

Below == {p \in Nat \X Nat : p[1] < p[2]}

(* CHOOSE in Min has something to choose. *)
LEMMA MinIsMember ==
  ASSUME NEW S, S \subseteq Nat, S # {}
  PROVE  Min(S) \in S
<1>1. IsWellFoundedOn(Below, Nat)
  BY NatLessThanWellFounded DEF Below, OpToRel
<1>2. PICK x \in S : \A y \in S : <<y, x>> \notin Below
  BY <1>1, WFMin
<1>3. ASSUME NEW y \in S PROVE x <= y
  <2>1. <<y, x>> \in Below <=> y < x
    BY DEF Below
  <2>2. QED
    BY <1>2, <2>1
<1>4. QED
  BY <1>3 DEF Min
-----------------------------------------------------------------------------
LEMMA PeersAreAddresses == Peers \subseteq 1 .. 8 /\ Peers \subseteq Nat
  BY PeerAssumption DEF Peers

(* A configuration: each halfword in its range.                            *)
IsConf(c) ==
  /\ c = [w \in Words |-> c[w]]
  /\ \A i \in Entries : c[LocAt(i)] \in Locs \cup {NoLoc} /\ c[MaskAt(i)] \subseteq 1 .. 8
  /\ \A s \in Slots : c[IdAt(s)] \in Ids \cup {0, ERASED}

Syncs ==
  [kind : {"none", "retry", "push", "delete"}, i : 0 .. NEntries,
   loc : Locs \cup {0}, to : SUBSET Peers]

TypeInv ==
  /\ IsConf(page) /\ IsConf(conf) /\ IsConf(whole)
  /\ phase \in {"off", "idle", "erase", "program"}
  /\ at \in Words
  /\ sync \in Syncs
  /\ sync.to # {} => sync.loc \in Locs
  /\ sync.kind = "delete" => sync.loc \in Locs
  /\ owed \subseteq Locs \X Peers
  /\ excused \in BOOLEAN

(* How far a write has come. *)
FlashInv ==
  /\ NeverMixed
  /\ phase # "program" => at = 1
  /\ phase = "program" =>
       /\ whole = conf
       /\ \A w \in Words : (w < at => page[w] = conf[w]) /\ (w >= at => page[w] = Blank[w])

(* The table of one configuration. *)
OneEntry(c) ==
  \A i, j \in Entries :
    c[LocAt(i)] # NoLoc => (c[LocAt(i)] = c[LocAt(j)] => i = j) /\ OfPeers(c[MaskAt(i)])

(* Kept of what runs and of what the flash has parts of. *)
EntryInv ==
  /\ OneEntry(whole)
  /\ phase # "off" => OneEntry(conf) /\ conf[VersionAt] = VERSION

(* Without power it is the flash that knows what is owed. *)
PendingInv ==
  ~excused =>
    /\ phase # "off" => Pending(conf) = owed
    /\ phase = "off" /\ page[VersionAt] = VERSION => Pending(page) = owed
    /\ phase = "off" /\ page[VersionAt] # VERSION => owed = {}

Inv == TypeInv /\ FlashInv /\ EntryInv /\ PendingInv
-----------------------------------------------------------------------------
(* The halfwords of an entry, of a slot and of the head are all different. *)
LEMMA Layout ==
  /\ Size \in Nat /\ 1 \in Words /\ 2 \in Words /\ Words \subseteq Nat
  /\ \A i \in Entries :
       /\ LocAt(i) \in Words /\ MaskAt(i) \in Words
       /\ LocAt(i) \notin {1, 2} /\ MaskAt(i) \notin {1, 2}
       /\ \A j \in Entries :
            /\ LocAt(i) # MaskAt(j)
            /\ i # j => LocAt(i) # LocAt(j) /\ MaskAt(i) # MaskAt(j)
       /\ \A s \in Slots : LocAt(i) # IdAt(s) /\ MaskAt(i) # IdAt(s)
  /\ \A s \in Slots : IdAt(s) \in Words /\ IdAt(s) \notin {1, 2}
  /\ \A s, r \in Slots : IdAt(s) = IdAt(r) => s = r
<1>1. /\ Size \in Nat /\ 1 \in Words /\ 2 \in Words /\ Words \subseteq Nat
  BY SlotsAssumption DEF Size, Words
<1>2. ASSUME NEW i \in Entries
      PROVE  /\ LocAt(i) \in Words /\ MaskAt(i) \in Words
             /\ LocAt(i) \notin {1, 2} /\ MaskAt(i) \notin {1, 2}
             /\ \A j \in Entries :
                  /\ LocAt(i) # MaskAt(j)
                  /\ i # j => LocAt(i) # LocAt(j) /\ MaskAt(i) # MaskAt(j)
             /\ \A s \in Slots : LocAt(i) # IdAt(s) /\ MaskAt(i) # IdAt(s)
  BY SlotsAssumption DEF Entries, Slots, Words, Size, LocAt, MaskAt, IdAt
<1>3. /\ \A s \in Slots : IdAt(s) \in Words /\ IdAt(s) \notin {1, 2}
      /\ \A s, r \in Slots : IdAt(s) = IdAt(r) => s = r
  BY SlotsAssumption DEF Slots, Words, Size, IdAt
<1>4. QED
  BY <1>1, <1>2, <1>3

LEMMA NoLocIsNone == NoLoc \notin Locs /\ ERASED # VERSION
<1>1. NoLoc \in Nat /\ ERASED # VERSION
  BY SMT DEF NoLoc, ERASED, VERSION
<1>2. Locs \subseteq 0 .. NoLoc - 1
  BY PeerAssumption
<1>3. QED
  BY <1>1, <1>2

LEMMA BlankValues ==
  /\ IsConf(Blank) /\ OneEntry(Blank)
  /\ Blank[VersionAt] # VERSION
  /\ \A i \in Entries : Blank[LocAt(i)] = NoLoc /\ Blank[MaskAt(i)] = 1 .. 8
  /\ \A s \in Slots : Blank[IdAt(s)] = ERASED
<1>1. \A i \in Entries : Blank[LocAt(i)] = NoLoc /\ Blank[MaskAt(i)] = 1 .. 8
  BY Layout DEF Blank, NoLoc
<1>2. \A s \in Slots : Blank[IdAt(s)] = ERASED
  BY Layout DEF Blank
<1>3. Blank[VersionAt] = ERASED
  BY Layout DEF Blank, VersionAt
<1>4. Blank = [w \in Words |-> Blank[w]]
  BY DEF Blank
<1>5. IsConf(Blank)
  BY <1>1, <1>2, <1>4 DEF IsConf
<1>6. OneEntry(Blank)
  BY <1>1 DEF OneEntry
<1>7. QED
  BY <1>1, <1>2, <1>3, <1>5, <1>6, NoLocIsNone

LEMMA DefaultValues ==
  /\ IsConf(Default) /\ OneEntry(Default)
  /\ Default[VersionAt] = VERSION
  /\ \A i \in Entries : Default[LocAt(i)] = NoLoc /\ Default[MaskAt(i)] = {}
<1>1. ASSUME NEW i \in Entries PROVE Default[LocAt(i)] = NoLoc
  BY Layout DEF Default, VersionAt
<1>2. ASSUME NEW i \in Entries PROVE Default[MaskAt(i)] = {}
  BY Layout DEF Default, VersionAt
<1>3. ASSUME NEW s \in Slots PROVE Default[IdAt(s)] = 0
  BY Layout DEF Default, VersionAt
<1>4. Default[VersionAt] = VERSION
  BY Layout DEF Default, VersionAt
<1>5. Default = [w \in Words |-> Default[w]]
  BY DEF Default
<1>6. QED
  BY <1>1, <1>2, <1>3, <1>4, <1>5 DEF IsConf, OneEntry
-----------------------------------------------------------------------------
(* The values of a changed configuration, from those before.               *)
LEMMA Changed ==
  ASSUME NEW c, IsConf(c), NEW w \in Words, NEW v
  PROVE  /\ [c EXCEPT ![w] = v][w] = v
         /\ \A x \in Words : x # w => [c EXCEPT ![w] = v][x] = c[x]
         /\ [c EXCEPT ![w] = v] = [x \in Words |-> [c EXCEPT ![w] = v][x]]
  BY DEF IsConf

(* What a configuration has at the entry i, and at all the others.         *)
Entry(c, i, loc, mask) ==
  /\ c[LocAt(i)] = loc
  /\ c[MaskAt(i)] = mask
SameBut(c, d, i) ==
  /\ d = [w \in Words |-> d[w]]
  /\ d[VersionAt] = c[VersionAt]
  /\ \A j \in Entries \ {i} : d[LocAt(j)] = c[LocAt(j)] /\ d[MaskAt(j)] = c[MaskAt(j)]
  /\ \A s \in Slots : d[IdAt(s)] = c[IdAt(s)]

LEMMA EntryChanged ==
  ASSUME NEW c, IsConf(c), NEW i \in Entries, NEW loc, NEW mask,
         NEW d, \/ d = [c EXCEPT ![LocAt(i)] = loc, ![MaskAt(i)] = mask]
                \/ d = [c EXCEPT ![MaskAt(i)] = mask, ![LocAt(i)] = loc]
                \/ d = [c EXCEPT ![MaskAt(i)] = mask] /\ loc = c[LocAt(i)]
  PROVE  Entry(d, i, loc, mask) /\ SameBut(c, d, i)
  BY Layout DEF IsConf, Entry, SameBut, VersionAt

(* What a change of one entry does to the table.                           *)
LEMMA EntryKept ==
  ASSUME NEW c, IsConf(c), OneEntry(c), NEW i \in Entries,
         NEW loc \in Locs \cup {NoLoc}, NEW mask \in SUBSET (1 .. 8),
         NEW d, Entry(d, i, loc, mask), SameBut(c, d, i),
         loc # NoLoc => OfPeers(mask) /\ \A j \in Entries \ {i} : c[LocAt(j)] # loc
  PROVE  /\ IsConf(d) /\ OneEntry(d)
         /\ Pending(d) = {p \in Pending(c) : p[1] # c[LocAt(i)]}
                            \cup {p \in Locs \X (1 .. 8) : p[1] = loc /\ p[2] \in mask}
<1>1. IsConf(d)
  <2>1. ASSUME NEW j \in Entries
        PROVE  d[LocAt(j)] \in Locs \cup {NoLoc} /\ d[MaskAt(j)] \subseteq 1 .. 8
    <3>1. CASE j = i
      BY <3>1 DEF Entry
    <3>2. CASE j # i
      BY <3>2 DEF IsConf, SameBut
    <3>3. QED
      BY <3>1, <3>2
  <2>2. \A s \in Slots : d[IdAt(s)] \in Ids \cup {0, ERASED}
    BY DEF IsConf, SameBut
  <2>3. d = [w \in Words |-> d[w]]
    BY DEF SameBut
  <2>4. QED
    BY <2>1, <2>2, <2>3, Zenon DEF IsConf
<1>2. OneEntry(d)
  BY DEF OneEntry, Entry, SameBut
<1>3. ASSUME NEW p \in Locs \X (1 .. 8)
      PROVE  p \in Pending(d) <=>
               \/ p \in Pending(c) /\ p[1] # c[LocAt(i)]
               \/ p[1] = loc /\ p[2] \in mask
  <2>1. p[1] # NoLoc
    <3>1. p[1] \in Locs
      OBVIOUS
    <3>2. QED
      BY <3>1, NoLocIsNone
  <2>2. p \in Pending(c) <=> \E j \in Entries : c[LocAt(j)] = p[1] /\ p[2] \in c[MaskAt(j)]
    BY DEF Pending
  <2>3. p \in Pending(d) <=> \E j \in Entries : d[LocAt(j)] = p[1] /\ p[2] \in d[MaskAt(j)]
    BY DEF Pending
  <2>4. d[LocAt(i)] = loc /\ d[MaskAt(i)] = mask
    BY DEF Entry
  <2>5. \A j \in Entries : j # i => d[LocAt(j)] = c[LocAt(j)] /\ d[MaskAt(j)] = c[MaskAt(j)]
    BY DEF SameBut
  <2>6. \A j \in Entries : c[LocAt(j)] = p[1] /\ c[LocAt(i)] = p[1] => j = i
    BY <2>1 DEF OneEntry
  <2>7. CASE p[1] = loc
    <3>1. \A j \in Entries : c[LocAt(j)] = p[1] => j = i
      BY <2>1, <2>7
    <3>2. QED
      BY <2>2, <2>3, <2>4, <2>5, <2>7, <3>1
  <2>8. CASE p[1] # loc
    BY <2>2, <2>3, <2>4, <2>5, <2>6, <2>8
  <2>9. QED
    BY <2>7, <2>8
<1>4. QED
  BY <1>1, <1>2, <1>3 DEF Pending

(* A change that leaves the table alone.                                   *)
LEMMA TableKept ==
  ASSUME NEW c, IsConf(c), OneEntry(c), NEW w \in Words,
         \A i \in Entries : w # LocAt(i) /\ w # MaskAt(i),
         NEW v, (\E s \in Slots : w = IdAt(s)) => v \in Ids \cup {0, ERASED}
  PROVE  LET d == [c EXCEPT ![w] = v]
         IN IsConf(d) /\ OneEntry(d) /\ Pending(d) = Pending(c)
<1> DEFINE d == [c EXCEPT ![w] = v]
<1>1. \A i \in Entries : d[LocAt(i)] = c[LocAt(i)] /\ d[MaskAt(i)] = c[MaskAt(i)]
  BY Layout, Changed
<1>2. \A s \in Slots : d[IdAt(s)] \in Ids \cup {0, ERASED}
  BY Layout, Changed DEF IsConf
<1>3. d = [x \in Words |-> d[x]]
  BY Changed
<1> HIDE DEF d
<1>4. IsConf(d)
  BY <1>1, <1>2, <1>3 DEF IsConf
<1>5. OneEntry(d)
  BY <1>1 DEF OneEntry
<1>6. Pending(d) = Pending(c)
  BY <1>1 DEF Pending
<1>7. QED
  BY <1>4, <1>5, <1>6 DEF d

(* The entry that a search ends at has the location searched for.          *)
LEMMA Found ==
  ASSUME NEW c, NEW loc, EntriesOf(c, loc) # {}
  PROVE  Min(EntriesOf(c, loc)) \in Entries /\ c[LocAt(Min(EntriesOf(c, loc)))] = loc
<1>1. EntriesOf(c, loc) \subseteq Nat
  BY SlotsAssumption DEF EntriesOf, Entries
<1>2. Min(EntriesOf(c, loc)) \in EntriesOf(c, loc)
  BY <1>1, MinIsMember
<1>3. QED
  BY <1>2 DEF EntriesOf

LEMMA AddedEntry ==
  ASSUME NEW c, IsConf(c), OneEntry(c), NEW loc \in Locs, NEW addr \in Peers,
         ~NoRoom(c, loc)
  PROVE  LET d == AddPending(c, loc, addr)
         IN /\ IsConf(d) /\ OneEntry(d) /\ d[VersionAt] = c[VersionAt]
            /\ Pending(d) = Pending(c) \cup {<<loc, addr>>}
<1> DEFINE d == AddPending(c, loc, addr)
<1>a. addr \in 1 .. 8
  BY PeersAreAddresses
<1>1. loc # NoLoc
  BY NoLocIsNone
<1>2. CASE EntriesOf(c, loc) # {}
  <2> DEFINE i == Min(EntriesOf(c, loc))
             mask == c[MaskAt(i)] \cup {addr}
  <2>1. i \in Entries /\ c[LocAt(i)] = loc
    BY <1>2, Found
  <2>2. d = [c EXCEPT ![MaskAt(i)] = mask]
    BY <1>2 DEF AddPending
  <2>3. mask \subseteq 1 .. 8 /\ OfPeers(mask)
    <3>1. c[MaskAt(i)] \subseteq 1 .. 8 /\ OfPeers(c[MaskAt(i)])
      BY <1>1, <2>1 DEF IsConf, OneEntry
    <3> HIDE DEF i
    <3> QED BY <1>a, <3>1 DEF OfPeers
  <2>4. \A j \in Entries \ {i} : c[LocAt(j)] # loc
    BY <1>1, <2>1 DEF OneEntry
  <2>5. \A p \in Locs \X (1 .. 8) : p \in Pending(c) /\ p[1] = loc => p[2] \in c[MaskAt(i)]
    BY <1>1, <2>1, <2>4 DEF Pending
  <2>6. \A p \in Locs \X (1 .. 8) : p[1] = loc /\ p[2] \in c[MaskAt(i)] => p \in Pending(c)
    BY <2>1 DEF Pending
  <2> HIDE DEF i, mask, d
  <2>7. Entry(d, i, loc, mask) /\ SameBut(c, d, i)
    BY <2>1, <2>2, EntryChanged
  <2>8. /\ IsConf(d) /\ OneEntry(d)
        /\ Pending(d) = {p \in Pending(c) : p[1] # c[LocAt(i)]}
                           \cup {p \in Locs \X (1 .. 8) : p[1] = loc /\ p[2] \in mask}
    <3>1. loc \in Locs \cup {NoLoc} /\ mask \in SUBSET (1 .. 8)
      BY <2>3
    <3>2. loc # NoLoc => OfPeers(mask) /\ \A j \in Entries \ {i} : c[LocAt(j)] # loc
      BY <2>3, <2>4
    <3>3. QED
      BY <2>1, <2>7, <3>1, <3>2, EntryKept
  <2>9. Pending(d) = Pending(c) \cup {<<loc, addr>>}
    <3>1. ASSUME NEW p \in Locs \X (1 .. 8)
          PROVE  p \in Pending(d) <=> p \in Pending(c) \cup {<<loc, addr>>}
      <4>1. p = <<loc, addr>> <=> p[1] = loc /\ p[2] = addr
        OBVIOUS
      <4>2. p[2] \in mask <=> p[2] \in c[MaskAt(i)] \/ p[2] = addr
        BY DEF mask
      <4>3. p \in Pending(d) <=> (p \in Pending(c) /\ p[1] # loc) \/ (p[1] = loc /\ p[2] \in mask)
        BY <2>1, <2>8
      <4>4. p[1] = loc => (p \in Pending(c) <=> p[2] \in c[MaskAt(i)])
        BY <2>5, <2>6
      <4>5. QED
        BY <4>1, <4>2, <4>3, <4>4
    <3>2. Pending(d) \subseteq Locs \X (1 .. 8) /\ Pending(c) \subseteq Locs \X (1 .. 8)
      BY DEF Pending
    <3>3. <<loc, addr>> \in Locs \X (1 .. 8)
      BY <1>a
    <3>4. QED
      BY <3>1, <3>2, <3>3
  <2>10. QED
    BY <2>7, <2>8, <2>9 DEF SameBut, d
<1>3. CASE EntriesOf(c, loc) = {}
  <2> DEFINE i == Min(EntriesOf(c, NoLoc))
             mask == {addr}
  <2>1. i \in Entries /\ c[LocAt(i)] = NoLoc
    BY <1>3, Found DEF NoRoom
  <2>2. d = [c EXCEPT ![LocAt(i)] = loc, ![MaskAt(i)] = mask]
    BY <1>3 DEF AddPending
  <2>3. \A j \in Entries : c[LocAt(j)] # loc
    BY <1>3 DEF EntriesOf
  <2>4. mask \in SUBSET (1 .. 8) /\ OfPeers(mask)
    BY PeersAreAddresses DEF OfPeers
  <2> HIDE DEF i, d, mask
  <2>5. Entry(d, i, loc, mask) /\ SameBut(c, d, i)
    BY <2>1, <2>2, EntryChanged
  <2>6. /\ IsConf(d) /\ OneEntry(d)
        /\ Pending(d) = {p \in Pending(c) : p[1] # c[LocAt(i)]}
                           \cup {p \in Locs \X (1 .. 8) : p[1] = loc /\ p[2] \in mask}
    BY <2>1, <2>3, <2>4, <2>5, EntryKept
  <2>7. \A p \in Pending(c) : p[1] # NoLoc
    BY NoLocIsNone DEF Pending
  <2>8. Pending(d) = Pending(c) \cup {<<loc, addr>>}
    BY <1>a, <2>1, <2>6, <2>7 DEF mask
  <2>9. QED
    BY <2>5, <2>6, <2>8 DEF SameBut, d
<1>4. QED
  BY <1>2, <1>3

(* What the entry of a location holds is what is pending for it.           *)
LEMMA PendingOf ==
  ASSUME NEW c, IsConf(c), OneEntry(c), NEW loc \in Locs, NEW i \in Entries,
         c[LocAt(i)] = loc
  PROVE  \A p \in Locs \X (1 .. 8) :
           p[1] = loc => (p \in Pending(c) <=> p[2] \in c[MaskAt(i)])
<1>1. \A j \in Entries : c[LocAt(j)] = loc => j = i
  BY NoLocIsNone DEF OneEntry
<1>2. QED
  BY <1>1 DEF Pending

LEMMA NothingPending ==
  ASSUME NEW c, NEW loc, EntriesOf(c, loc) = {}
  PROVE  \A p \in Pending(c) : p[1] # loc
  BY DEF EntriesOf, Pending

LEMMA RemovedEntry ==
  ASSUME NEW c, IsConf(c), OneEntry(c), NEW loc \in Locs, NEW addr \in Peers
  PROVE  LET d == RemovePending(c, loc, addr)
         IN /\ IsConf(d) /\ OneEntry(d) /\ d[VersionAt] = c[VersionAt]
            /\ Pending(d) = Pending(c) \ {<<loc, addr>>}
<1> DEFINE d == RemovePending(c, loc, addr)
<1>a. addr \in 1 .. 8
  BY PeersAreAddresses
<1>1. CASE EntriesOf(c, loc) = {}
  <2>1. d = c
    BY <1>1 DEF RemovePending
  <2>2. <<loc, addr>> \notin Pending(c)
    BY <1>1, NothingPending
  <2>3. QED
    BY <2>1, <2>2
<1>2. CASE EntriesOf(c, loc) # {}
  <2> DEFINE i == Min(EntriesOf(c, loc))
             left == c[MaskAt(i)] \ {addr}
             new == IF left = {} THEN NoLoc ELSE loc
  <2>1. i \in Entries /\ c[LocAt(i)] = loc
    BY <1>2, Found
  <2>2. d = [c EXCEPT ![MaskAt(i)] = left, ![LocAt(i)] = new]
    BY <1>2 DEF RemovePending
  <2>3. new \in Locs \cup {NoLoc} /\ left \in SUBSET (1 .. 8)
    BY <2>1 DEF IsConf
  <2>4. new # NoLoc => OfPeers(left) /\ \A j \in Entries \ {i} : c[LocAt(j)] # new
    <3>1. loc # NoLoc /\ OfPeers(c[MaskAt(i)])
      BY <2>1, NoLocIsNone DEF OneEntry
    <3>2. left # {} => OfPeers(left)
      BY <3>1 DEF OfPeers
    <3>3. \A j \in Entries \ {i} : c[LocAt(j)] # loc
      BY <2>1, <3>1 DEF OneEntry
    <3> HIDE DEF i
    <3> QED BY <3>2, <3>3
  <2>5. \A p \in Locs \X (1 .. 8) :
           p[1] = loc => (p \in Pending(c) <=> p[2] \in c[MaskAt(i)])
    BY <2>1, PendingOf
  <2>6. left = {} => new = NoLoc
    OBVIOUS
  <2>7. left # {} => new = loc
    OBVIOUS
  <2>8. left = c[MaskAt(i)] \ {addr}
    OBVIOUS
  <2> HIDE DEF i, left, new, d
  <2>9. Entry(d, i, new, left) /\ SameBut(c, d, i)
    BY <2>1, <2>2, EntryChanged
  <2>10. /\ IsConf(d) /\ OneEntry(d)
         /\ Pending(d) = {p \in Pending(c) : p[1] # c[LocAt(i)]}
                            \cup {p \in Locs \X (1 .. 8) : p[1] = new /\ p[2] \in left}
    <3>1. new \in Locs \cup {NoLoc} /\ left \in SUBSET (1 .. 8) /\ i \in Entries
      BY <2>1, <2>3
    <3>2. CASE left = {}
      <4>1. Entry(d, i, NoLoc, left) /\ new = NoLoc /\ SameBut(c, d, i)
        BY <2>6, <2>9, <3>2
      <4>2. QED
        BY <3>1, <4>1, EntryKept
    <3>3. CASE left # {}
      <4>1. Entry(d, i, loc, left) /\ new = loc /\ SameBut(c, d, i)
        BY <2>7, <2>9, <3>3
      <4>2. OfPeers(left) /\ \A j \in Entries \ {i} : c[LocAt(j)] # loc
        BY <2>4, <4>1, NoLocIsNone
      <4>3. QED
        BY <3>1, <4>1, <4>2, EntryKept
    <3>4. QED
      BY <3>2, <3>3
  <2>11. Pending(d) = Pending(c) \ {<<loc, addr>>}
    <3>1. ASSUME NEW p \in Locs \X (1 .. 8)
          PROVE  p \in Pending(d) <=> p \in Pending(c) \ {<<loc, addr>>}
      <4>1. p[1] # NoLoc
        BY NoLocIsNone
      <4>2. QED
        BY <2>1, <2>5, <2>6, <2>7, <2>8, <2>10, <4>1
    <3>2. Pending(d) \subseteq Locs \X (1 .. 8) /\ Pending(c) \subseteq Locs \X (1 .. 8)
      BY DEF Pending
    <3>3. QED
      BY <3>1, <3>2
  <2>12. QED
    BY <2>9, <2>10, <2>11 DEF SameBut, d
<1>3. QED
  BY <1>1, <1>2

LEMMA ClearedEntry ==
  ASSUME NEW c, IsConf(c), OneEntry(c), NEW loc \in Locs
  PROVE  LET d == ClearPending(c, loc)
         IN /\ IsConf(d) /\ OneEntry(d) /\ d[VersionAt] = c[VersionAt]
            /\ Pending(d) = {p \in Pending(c) : p[1] # loc}
<1> DEFINE d == ClearPending(c, loc)
<1>1. CASE EntriesOf(c, loc) = {}
  <2>1. d = c
    BY <1>1 DEF ClearPending
  <2>2. \A p \in Pending(c) : p[1] # loc
    BY <1>1, NothingPending
  <2>3. QED
    BY <2>1, <2>2
<1>2. CASE EntriesOf(c, loc) # {}
  <2> DEFINE i == Min(EntriesOf(c, loc))
             none == {}
  <2>1. i \in Entries /\ c[LocAt(i)] = loc
    BY <1>2, Found
  <2>2. d = [c EXCEPT ![LocAt(i)] = NoLoc, ![MaskAt(i)] = none]
    BY <1>2 DEF ClearPending
  <2>3. none \in SUBSET (1 .. 8)
    OBVIOUS
  <2> HIDE DEF i, d, none
  <2>4. Entry(d, i, NoLoc, none) /\ SameBut(c, d, i)
    BY <2>1, <2>2, EntryChanged
  <2>5. /\ IsConf(d) /\ OneEntry(d)
        /\ Pending(d) = {p \in Pending(c) : p[1] # c[LocAt(i)]}
                           \cup {p \in Locs \X (1 .. 8) : p[1] = NoLoc /\ p[2] \in none}
    BY <2>1, <2>3, <2>4, EntryKept
  <2>6. Pending(d) = {p \in Pending(c) : p[1] # loc}
    BY <2>1, <2>5 DEF none
  <2>7. QED
    BY <2>4, <2>5, <2>6 DEF SameBut, d
<1>3. QED
  BY <1>1, <1>2
-----------------------------------------------------------------------------
(* A write begins with the flash whole and leaves it so as far as it came. *)
LEMMA WriteBegins ==
  ASSUME IsConf(page), IsConf(whole), at \in Words, FlashInv, OneEntry(whole),
         phase \in {"off", "idle"},
         NEW c, IsConf(c), OneEntry(c), c[VersionAt] = VERSION,
         WriteToFlash(c)
  PROVE  /\ IsConf(page)' /\ IsConf(conf)' /\ IsConf(whole)'
         /\ phase' \in {"idle", "erase", "program"} /\ at' \in Words
         /\ FlashInv' /\ EntryInv'
         /\ conf' = c
<1>1. conf' = c /\ page' = page /\ at' = at /\ at = 1
  BY DEF WriteToFlash, FlashInv
<1>2. CASE page = c
  <2>1. phase' = "idle" /\ whole' = whole
    BY <1>2 DEF WriteToFlash
  <2>2. FlashInv'
    BY <1>1, <1>2, <2>1 DEF FlashInv, NeverMixed, Blank, Words, Size, MaskAt, Entries
  <2>3. QED
    BY <1>1, <2>1, <2>2 DEF EntryInv, IsConf, OneEntry
<1>3. CASE page # c /\ page # Blank
  <2>1. phase' = "erase" /\ whole' = whole
    BY <1>3 DEF WriteToFlash, NeedsErase
  <2>2. FlashInv'
    BY <1>1, <2>1 DEF FlashInv, NeverMixed
  <2>3. QED
    BY <1>1, <2>1, <2>2 DEF EntryInv, IsConf, OneEntry
<1>4. CASE page # c /\ page = Blank
  <2>1. phase' = "program" /\ whole' = c
    BY <1>4 DEF WriteToFlash, NeedsErase
  <2>2. \A w \in Words : ~(w < 1)
    BY DEF Words
  <2>3. FlashInv'
    BY <1>1, <1>4, <2>1, <2>2 DEF FlashInv, NeverMixed
  <2>4. QED
    BY <1>1, <2>1, <2>3 DEF EntryInv, IsConf, OneEntry
<1>5. QED
  BY <1>2, <1>3, <1>4
-----------------------------------------------------------------------------
(* What an action has to say of the variables that are not of the flash.   *)
PeerPart(c) ==
  /\ sync \in Syncs
  /\ sync.to # {} => sync.loc \in Locs
  /\ sync.kind = "delete" => sync.loc \in Locs
  /\ owed \subseteq Locs \X Peers
  /\ excused \in BOOLEAN
  /\ ~excused => Pending(c) = owed

LEMMA Written ==
  ASSUME Inv, phase \in {"off", "idle"},
         NEW c, IsConf(c), OneEntry(c), c[VersionAt] = VERSION,
         WriteToFlash(c), PeerPart(conf)'
  PROVE  Inv'
<1>1. /\ IsConf(page)' /\ IsConf(conf)' /\ IsConf(whole)'
      /\ phase' \in {"idle", "erase", "program"} /\ at' \in Words
      /\ FlashInv' /\ EntryInv'
  BY WriteBegins DEF Inv, TypeInv, EntryInv
<1>2. TypeInv'
  BY <1>1 DEF TypeInv, PeerPart
<1>3. PendingInv'
  BY <1>1 DEF PendingInv, PeerPart
<1>4. QED
  BY <1>1, <1>2, <1>3 DEF Inv

LEMMA Unwritten ==
  ASSUME Inv, phase = "idle", UNCHANGED flashVars, PeerPart(conf)'
  PROVE  Inv'
<1>1. /\ page' = page /\ conf' = conf /\ phase' = phase /\ at' = at /\ whole' = whole
  BY DEF flashVars
<1>2. TypeInv'
  BY <1>1 DEF Inv, TypeInv, PeerPart, IsConf
<1>3. FlashInv' /\ EntryInv'
  BY <1>1 DEF Inv, FlashInv, NeverMixed, EntryInv, OneEntry
<1>4. PendingInv'
  BY <1>1 DEF PendingInv, PeerPart
<1>5. QED
  BY <1>2, <1>3, <1>4 DEF Inv

(* What holds while RS485Thread is between two calls. *)
LEMMA Running ==
  ASSUME Inv, phase = "idle"
  PROVE  /\ IsConf(conf) /\ OneEntry(conf) /\ conf[VersionAt] = VERSION
         /\ PeerPart(conf)
  BY DEF Inv, TypeInv, EntryInv, PendingInv, PeerPart

LEMMA SyncValues ==
  /\ Idle \in Syncs /\ Idle.to = {} /\ Idle.kind = "none"
  /\ \A loc \in Locs : DeleteOf(loc) \in Syncs /\ DeleteOf(loc).to = {} /\ DeleteOf(loc).loc = loc
  /\ \A loc \in Locs, to \in SUBSET Peers :
       PushOf(loc, to) \in Syncs /\ PushOf(loc, to).loc = loc /\ PushOf(loc, to).kind = "push"
  /\ \A i \in 0 .. NEntries, loc \in Locs \cup {0}, to \in SUBSET Peers :
       /\ Retry(i, loc, to) \in Syncs
       /\ Retry(i, loc, to).loc = loc /\ Retry(i, loc, to).to = to
       /\ Retry(i, loc, to).kind = "retry"
<1>1. 0 \in 0 .. NEntries
  BY SlotsAssumption
<1>2. QED
  BY <1>1 DEF Idle, DeleteOf, PushOf, Retry, Syncs

LEMMA SentValues ==
  ASSUME Inv, sync.to # {}
  PROVE  /\ Sent \in Syncs /\ Sent.loc = sync.loc /\ Sent.kind = sync.kind
         /\ sync.loc \in Locs
         /\ Receiver \in Peers /\ Receiver \in 1 .. 8
<1>1. Receiver \in sync.to
  BY PeersAreAddresses, MinIsMember DEF Inv, TypeInv, Syncs, Receiver
<1>2. Sent \in Syncs /\ Sent.loc = sync.loc /\ Sent.kind = sync.kind
  BY DEF Inv, TypeInv, Syncs, Sent
<1>3. QED
  BY <1>1, <1>2, PeersAreAddresses DEF Inv, TypeInv, Syncs
-----------------------------------------------------------------------------
(* The operations of RS485Thread. *)
LEMMA RegisterStep ==
  ASSUME Inv, NEW n \in Names, Register(n) PROVE Inv'
<1> DEFINE d == [conf EXCEPT ![RegAt] = n]
           e == [d EXCEPT ![VersionAt] = VERSION]
<1>1. /\ IsConf(conf) /\ OneEntry(conf) /\ PeerPart(conf) /\ phase = "idle"
  BY Running DEF Register, Ready
<1>2. IsConf(d) /\ OneEntry(d) /\ Pending(d) = Pending(conf)
  BY <1>1, Layout, TableKept DEF RegAt
<1>3. IsConf(e) /\ OneEntry(e) /\ Pending(e) = Pending(d)
  <2> HIDE DEF d
  <2>1. QED
    BY <1>2, Layout, TableKept DEF VersionAt
<1>4. e[VersionAt] = VERSION
  <2> HIDE DEF d
  <2>1. VersionAt \in Words
    BY Layout DEF VersionAt
  <2>2. QED
    BY <1>2, <2>1, Changed
<1>5. WriteToFlash(e) /\ sync' = sync /\ owed' = owed /\ excused' = excused
  BY DEF Register, peerVars
<1>6. conf' = e
  BY <1>5 DEF WriteToFlash
<1> HIDE DEF e, d
<1>7. PeerPart(conf)'
  BY <1>1, <1>2, <1>3, <1>5, <1>6 DEF PeerPart
<1>8. QED
  BY <1>1, <1>3, <1>4, <1>5, <1>7, Written

LEMMA SetIdStep ==
  ASSUME Inv, NEW loc \in Locs, NEW id \in Ids, SetId(loc, id) PROVE Inv'
<1> DEFINE d == [conf EXCEPT ![IdAt(loc)] = id]
<1>1. /\ IsConf(conf) /\ OneEntry(conf) /\ conf[VersionAt] = VERSION /\ PeerPart(conf)
      /\ phase = "idle" /\ loc \in Slots
  BY Running DEF SetId, Ready
<1>2. IdAt(loc) \in Words /\ IdAt(loc) # 1 /\ \A i \in Entries : IdAt(loc) # LocAt(i) /\ IdAt(loc) # MaskAt(i)
  BY <1>1, Layout
<1>3. IsConf(d) /\ OneEntry(d) /\ Pending(d) = Pending(conf)
  BY <1>1, <1>2, TableKept
<1>4. d[VersionAt] = VERSION
  BY <1>1, <1>2, Layout, Changed DEF VersionAt
<1>5. WriteToFlash(d) /\ sync' = sync /\ owed' = owed /\ excused' = excused
  BY DEF SetId, peerVars
<1>6. conf' = d
  BY <1>5 DEF WriteToFlash
<1> HIDE DEF d
<1>7. PeerPart(conf)'
  BY <1>1, <1>3, <1>5, <1>6 DEF PeerPart
<1>8. QED
  BY <1>1, <1>3, <1>4, <1>5, <1>7, Written

LEMMA DeleteStep ==
  ASSUME Inv, NEW loc \in Locs, Delete(loc) PROVE Inv'
<1> DEFINE d == ClearPending(conf, loc)
<1>1. /\ IsConf(conf) /\ OneEntry(conf) /\ conf[VersionAt] = VERSION /\ PeerPart(conf)
      /\ phase = "idle"
  BY Running DEF Delete, Ready
<1>2. /\ IsConf(d) /\ OneEntry(d) /\ d[VersionAt] = VERSION
      /\ Pending(d) = {p \in Pending(conf) : p[1] # loc}
  BY <1>1, ClearedEntry
<1>3. /\ sync' = DeleteOf(loc) /\ owed' = {p \in owed : p[1] # loc} /\ excused' = excused
  BY DEF Delete
<1>4. /\ sync' \in Syncs /\ sync'.to = {} /\ sync'.loc \in Locs
  BY <1>3, SyncValues
<1>5. /\ owed' \subseteq Locs \X Peers /\ excused' \in BOOLEAN
      /\ ~excused' => {p \in Pending(conf) : p[1] # loc} = owed'
  BY <1>1, <1>3 DEF PeerPart
<1>6. CASE EntriesOf(conf, loc) = {}
  <2>1. UNCHANGED flashVars
    BY <1>6 DEF Delete, SaveIfFound
  <2>2. Pending(conf) = {p \in Pending(conf) : p[1] # loc}
    BY <1>6, NothingPending
  <2>3. PeerPart(conf)'
    BY <1>4, <1>5, <2>1, <2>2 DEF PeerPart, flashVars
  <2>4. QED
    BY <1>1, <2>1, <2>3, Unwritten
<1>7. CASE EntriesOf(conf, loc) # {}
  <2>1. WriteToFlash(d)
    BY <1>7 DEF Delete, SaveIfFound
  <2>2. conf' = d
    BY <2>1 DEF WriteToFlash
  <2> HIDE DEF d
  <2>3. PeerPart(conf)'
    BY <1>2, <1>4, <1>5, <2>2 DEF PeerPart
  <2>4. QED
    BY <1>1, <1>2, <2>1, <2>3, Written
<1>8. QED
  BY <1>6, <1>7

LEMMA DeleteIdStep ==
  ASSUME Inv, DeleteId PROVE Inv'
<1> DEFINE d == [conf EXCEPT ![IdAt(sync.loc)] = 0]
<1>1. /\ IsConf(conf) /\ OneEntry(conf) /\ conf[VersionAt] = VERSION /\ PeerPart(conf)
      /\ phase = "idle"
  BY Running DEF DeleteId
<1>2. sync' = Idle /\ owed' = owed /\ excused' = excused
  BY DEF DeleteId
<1>3. sync' \in Syncs /\ sync'.to = {} /\ sync'.kind = "none"
  BY <1>2, SyncValues
<1>4. CASE sync.loc \in Slots
  <2>1. IdAt(sync.loc) \in Words /\ IdAt(sync.loc) # 1
        /\ \A i \in Entries : IdAt(sync.loc) # LocAt(i) /\ IdAt(sync.loc) # MaskAt(i)
    BY <1>4, Layout
  <2>2. IsConf(d) /\ OneEntry(d) /\ Pending(d) = Pending(conf)
    BY <1>1, <2>1, TableKept
  <2>3. d[VersionAt] = VERSION
    BY <1>1, <2>1, Layout, Changed DEF VersionAt
  <2>4. WriteToFlash(d)
    BY <1>4 DEF DeleteId
  <2>5. conf' = d
    BY <2>4 DEF WriteToFlash
  <2> HIDE DEF d
  <2>6. PeerPart(conf)'
    BY <1>1, <1>2, <1>3, <2>2, <2>5 DEF PeerPart
  <2>7. QED
    BY <1>1, <2>2, <2>3, <2>4, <2>6, Written
<1>5. CASE sync.loc \notin Slots
  <2>1. UNCHANGED flashVars
    BY <1>5 DEF DeleteId
  <2>2. PeerPart(conf)'
    BY <1>1, <1>2, <1>3, <2>1 DEF PeerPart, flashVars
  <2>3. QED
    BY <1>1, <2>1, <2>2, Unwritten
<1>6. QED
  BY <1>4, <1>5

LEMMA FlushStep ==
  ASSUME Inv, Flush PROVE Inv'
<1> DEFINE d == [w \in Words |-> IF w \in {VersionAt, RegAt} THEN conf[w] ELSE Default[w]]
<1>1. /\ IsConf(conf) /\ OneEntry(conf) /\ conf[VersionAt] = VERSION /\ PeerPart(conf)
      /\ phase = "idle"
  BY Running DEF Flush, Ready
<1>2. \A i \in Entries : d[LocAt(i)] = NoLoc /\ d[MaskAt(i)] = {}
  BY Layout, DefaultValues DEF VersionAt, RegAt
<1>3. \A s \in Slots : d[IdAt(s)] \in Ids \cup {0, ERASED}
  BY Layout, DefaultValues DEF VersionAt, RegAt, IsConf
<1>4. d = [w \in Words |-> d[w]] /\ d[VersionAt] = VERSION
  BY <1>1, Layout DEF VersionAt
<1>5. WriteToFlash(d) /\ sync' = sync /\ owed' = {} /\ excused' = excused
  BY DEF Flush
<1>6. conf' = d
  BY <1>5 DEF WriteToFlash
<1> HIDE DEF d
<1>7. IsConf(d)
  BY <1>2, <1>3, <1>4 DEF IsConf
<1>8. OneEntry(d)
  BY <1>2 DEF OneEntry
<1>9. Pending(d) = {}
  BY <1>2 DEF Pending
<1>10. PeerPart(conf)'
  BY <1>1, <1>5, <1>6, <1>9 DEF PeerPart
<1>11. QED
  BY <1>1, <1>4, <1>5, <1>7, <1>8, <1>10, Written

LEMMA SyncFingerprintStep ==
  ASSUME Inv, NEW loc \in Locs, SyncFingerprint(loc) PROVE Inv'
<1>1. PeerPart(conf) /\ phase = "idle"
  BY Running DEF SyncFingerprint, Ready
<1>2. Receivers(1 .. 8) \in SUBSET Peers
  BY DEF Receivers
<1>3. sync' \in Syncs /\ sync'.loc = loc /\ sync'.kind = "push"
  BY <1>2, SyncValues DEF SyncFingerprint
<1>4. UNCHANGED <<flashVars, owed, excused>>
  BY DEF SyncFingerprint
<1>5. PeerPart(conf)'
  BY <1>1, <1>3, <1>4 DEF PeerPart, flashVars
<1>6. QED
  BY <1>1, <1>4, <1>5, Unwritten

LEMMA SendOKStep ==
  ASSUME Inv, NEW kind \in {"push", "retry"}, SendOK(kind) PROVE Inv'
<1> DEFINE d == RemovePending(conf, sync.loc, Receiver)
<1>1. /\ IsConf(conf) /\ OneEntry(conf) /\ conf[VersionAt] = VERSION /\ PeerPart(conf)
      /\ phase = "idle" /\ sync.to # {} /\ sync.kind = kind
  BY Running DEF SendOK, Sending
<1>2. /\ Sent \in Syncs /\ Sent.loc = sync.loc /\ Sent.kind = kind
      /\ sync.loc \in Locs /\ Receiver \in Peers
  BY <1>1, SentValues
<1>3. sync' = Sent /\ owed' = owed \ {<<sync.loc, Receiver>>} /\ excused' = excused
  BY DEF SendOK
<1>4. /\ IsConf(d) /\ OneEntry(d) /\ d[VersionAt] = VERSION
      /\ Pending(d) = Pending(conf) \ {<<sync.loc, Receiver>>}
  <2> DEFINE loc == sync.loc
             addr == Receiver
  <2>1. d = RemovePending(conf, loc, addr) /\ loc \in Locs /\ addr \in Peers
    BY <1>2
  <2> HIDE DEF loc, addr, d
  <2>2. /\ IsConf(d) /\ OneEntry(d) /\ d[VersionAt] = VERSION
        /\ Pending(d) = Pending(conf) \ {<<loc, addr>>}
    BY <1>1, <2>1, RemovedEntry
  <2>3. QED
    BY <2>2 DEF loc, addr
<1>5. /\ sync' \in Syncs /\ sync'.loc \in Locs /\ sync'.kind # "delete"
      /\ owed' \subseteq Locs \X Peers /\ excused' \in BOOLEAN
      /\ ~excused' => Pending(conf) \ {<<sync.loc, Receiver>>} = owed'
  BY <1>1, <1>2, <1>3 DEF PeerPart
<1>6. CASE EntriesOf(conf, sync.loc) = {}
  <2>1. UNCHANGED flashVars
    BY <1>6 DEF SendOK, SaveIfFound
  <2>2. Pending(conf) \ {<<sync.loc, Receiver>>} = Pending(conf)
    BY <1>6, NothingPending
  <2>3. PeerPart(conf)'
    BY <1>5, <2>1, <2>2 DEF PeerPart, flashVars
  <2>4. QED
    BY <1>1, <2>1, <2>3, Unwritten
<1>7. CASE EntriesOf(conf, sync.loc) # {}
  <2>1. WriteToFlash(d)
    BY <1>7 DEF SendOK, SaveIfFound
  <2>2. conf' = d
    BY <2>1 DEF WriteToFlash
  <2> HIDE DEF d
  <2>3. PeerPart(conf)'
    BY <1>4, <1>5, <2>2 DEF PeerPart
  <2>4. QED
    BY <1>1, <1>4, <2>1, <2>3, Written
<1>8. QED
  BY <1>6, <1>7

LEMMA PushFailsStep ==
  ASSUME Inv, PushFails PROVE Inv'
<1> DEFINE d == AddPending(conf, sync.loc, Receiver)
<1>1. /\ IsConf(conf) /\ OneEntry(conf) /\ conf[VersionAt] = VERSION /\ PeerPart(conf)
      /\ phase = "idle" /\ sync.to # {} /\ sync.kind = "push"
  BY Running DEF PushFails, Sending
<1>2. /\ Sent \in Syncs /\ Sent.loc = sync.loc /\ Sent.kind = "push"
      /\ sync.loc \in Locs /\ Receiver \in 1 .. 8 /\ Receiver \in Peers
  BY <1>1, SentValues
<1>3. sync' = Sent
  BY DEF PushFails
<1>4. CASE NoRoom(conf, sync.loc)
  <2>1. UNCHANGED flashVars /\ excused' = TRUE /\ owed' = {}
    BY <1>4 DEF PushFails
  <2>2. PeerPart(conf)'
    BY <1>2, <1>3, <2>1 DEF PeerPart
  <2>3. QED
    BY <1>1, <2>1, <2>2, Unwritten
<1>5. CASE ~NoRoom(conf, sync.loc)
  <2>1. /\ IsConf(d) /\ OneEntry(d) /\ d[VersionAt] = VERSION
        /\ Pending(d) = Pending(conf) \cup {<<sync.loc, Receiver>>}
    BY <1>1, <1>2, <1>5, AddedEntry
  <2>2. /\ WriteToFlash(d) /\ excused' = excused
        /\ owed' = IF excused THEN {} ELSE owed \cup {<<sync.loc, Receiver>>}
    BY <1>5 DEF PushFails
  <2>3. conf' = d
    BY <2>2 DEF WriteToFlash
  <2> HIDE DEF d
  <2>4. PeerPart(conf)'
    BY <1>1, <1>2, <1>3, <2>1, <2>2, <2>3 DEF PeerPart
  <2>5. QED
    BY <1>1, <2>1, <2>2, <2>4, Written
<1>6. QED
  BY <1>4, <1>5

LEMMA RetryFailsStep ==
  ASSUME Inv, RetryFails PROVE Inv'
<1>1. PeerPart(conf) /\ phase = "idle" /\ sync.to # {} /\ sync.kind = "retry"
  BY Running DEF RetryFails, Sending
<1>2. Sent \in Syncs /\ Sent.loc = sync.loc /\ Sent.kind = "retry" /\ sync.loc \in Locs
  BY <1>1, SentValues
<1>3. UNCHANGED <<flashVars, owed, excused>> /\ sync' = Sent
  BY DEF RetryFails
<1>4. PeerPart(conf)'
  BY <1>1, <1>2, <1>3 DEF PeerPart, flashVars
<1>5. QED
  BY <1>1, <1>3, <1>4, Unwritten

LEMMA PushDoneStep ==
  ASSUME Inv, PushDone PROVE Inv'
<1>1. PeerPart(conf) /\ phase = "idle"
  BY Running DEF PushDone
<1>2. UNCHANGED <<flashVars, owed, excused>> /\ sync' = Idle
  BY DEF PushDone
<1>3. PeerPart(conf)'
  BY <1>1, <1>2, SyncValues DEF PeerPart, flashVars
<1>4. QED
  BY <1>1, <1>2, <1>3, Unwritten

LEMMA RetryEntryStep ==
  ASSUME Inv, RetryEntry PROVE Inv'
<1>1. IsConf(conf) /\ PeerPart(conf) /\ phase = "idle"
  BY Running DEF RetryEntry
<1>2. UNCHANGED <<flashVars, owed, excused>>
  BY DEF RetryEntry
<1>3. sync' \in Syncs /\ sync'.kind # "delete" /\ (sync'.to # {} => sync'.loc \in Locs)
  <2> DEFINE i == sync.i + 1
  <2>1. i \in Nat /\ i \in 1 .. NEntries + 1
    BY <1>1, SlotsAssumption DEF PeerPart, Syncs
  <2>2. CASE sync' = Idle
    BY <2>2, SyncValues
  <2>3. CASE i <= NEntries /\ sync' = Retry(i, 0, {})
    <3>1. i \in 0 .. NEntries /\ 0 \in Locs \cup {0} /\ {} \in SUBSET Peers
      BY <2>1, <2>3, SlotsAssumption
    <3> HIDE DEF i
    <3>2. QED
      BY <2>3, <3>1 DEF Retry, Syncs
  <2>4. CASE /\ i <= NEntries /\ conf[LocAt(i)] # NoLoc
             /\ sync' = Retry(i, conf[LocAt(i)], Receivers(conf[MaskAt(i)]))
    <3>1. i \in 0 .. NEntries /\ i \in Entries
      BY <2>1, <2>4, SlotsAssumption DEF Entries
    <3>2. conf[LocAt(i)] \in Locs /\ Receivers(conf[MaskAt(i)]) \in SUBSET Peers
      BY <1>1, <2>4, <3>1 DEF IsConf, Receivers
    <3> HIDE DEF i
    <3>3. QED
      BY <2>4, <3>1, <3>2, SyncValues
  <2>5. QED
    BY <2>2, <2>3, <2>4 DEF RetryEntry
<1>4. PeerPart(conf)'
  BY <1>1, <1>2, <1>3 DEF PeerPart, flashVars
<1>5. QED
  BY <1>1, <1>2, <1>4, Unwritten
-----------------------------------------------------------------------------
(* Power and the flash. *)

(* A page that a power loss leaves has the table of what was being written,*)
(* but for entries that are free.                                          *)
LEMMA TornTable ==
  ASSUME IsConf(page), OneEntry(whole), \A w \in Words : page[w] \in {whole[w], Blank[w]}
  PROVE  OneEntry(page)
<1>1. ASSUME NEW i \in Entries
      PROVE  /\ page[LocAt(i)] # NoLoc => page[LocAt(i)] = whole[LocAt(i)]
             /\ page[MaskAt(i)] \in {whole[MaskAt(i)], 1 .. 8}
  BY Layout, BlankValues
<1>2. OfPeers(1 .. 8)
  BY DEF OfPeers
<1>3. QED
  BY <1>1, <1>2 DEF OneEntry

LEMMA StartStep ==
  ASSUME Inv, Start PROVE Inv'
<1>1. /\ phase = "off" /\ Boot /\ sync' = Retry(0, 0, {}) /\ owed' = owed /\ excused' = excused
  BY DEF Start, Boot
<1>2. sync' \in Syncs /\ sync'.to = {} /\ sync'.kind = "retry"
  <2>1. 0 \in 0 .. NEntries
    BY SlotsAssumption
  <2>2. QED
    BY <1>1, <2>1 DEF Retry, Syncs
<1>3. owed \subseteq Locs \X Peers /\ excused \in BOOLEAN
  BY DEF Inv, TypeInv
<1>4. CASE page[VersionAt] = VERSION
  <2>1. conf' = page /\ phase' = "idle" /\ whole' = page /\ page' = page /\ at' = at
    BY <1>4 DEF Start, Boot
  <2>2. OneEntry(page) /\ IsConf(page)
    BY TornTable DEF Inv, FlashInv, NeverMixed, EntryInv, TypeInv
  <2>3. TypeInv'
    BY <1>1, <1>2, <1>3, <2>1, <2>2 DEF Inv, TypeInv, IsConf
  <2>4. FlashInv'
    BY <1>1, <2>1 DEF Inv, FlashInv, NeverMixed
  <2>5. EntryInv'
    BY <1>4, <2>1, <2>2 DEF EntryInv, OneEntry
  <2>6. PendingInv'
    BY <1>1, <1>4, <2>1 DEF Inv, PendingInv
  <2>7. QED
    BY <2>3, <2>4, <2>5, <2>6 DEF Inv
<1>5. CASE page[VersionAt] # VERSION
  <2>1. WriteToFlash(Default)
    BY <1>5 DEF Start, Boot
  <2>2. conf' = Default
    BY <2>1 DEF WriteToFlash
  <2>3. Pending(Default) = {}
    BY DefaultValues DEF Pending
  <2>4. ~excused => owed = {}
    BY <1>1, <1>5 DEF Inv, PendingInv
  <2>5. PeerPart(conf)'
    BY <1>1, <1>2, <1>3, <2>2, <2>3, <2>4 DEF PeerPart
  <2>6. QED
    BY <1>1, <2>1, <2>5, DefaultValues, Written
<1>6. QED
  BY <1>4, <1>5

LEMMA SaveStep ==
  ASSUME Inv, Save PROVE Inv'
<1>1. sync' = sync /\ owed' = owed /\ excused' = excused
  BY DEF Save, peerVars
<1>2. CASE Erase
  <2>1. /\ phase = "erase" /\ page' = Blank /\ phase' = "program" /\ whole' = conf
        /\ conf' = conf /\ at' = at /\ at = 1
    BY <1>2 DEF Erase, Inv, FlashInv
  <2>2. TypeInv'
    BY <1>1, <2>1, BlankValues DEF Inv, TypeInv, IsConf
  <2>3. \A w \in Words : ~(w < 1)
    BY DEF Words
  <2>4. FlashInv'
    BY <2>1, <2>3 DEF FlashInv, NeverMixed
  <2>5. EntryInv' /\ PendingInv'
    BY <1>1, <2>1 DEF Inv, EntryInv, OneEntry, PendingInv
  <2>6. QED
    BY <2>2, <2>4, <2>5 DEF Inv
<1>3. CASE Program
  <2>1. /\ phase = "program" /\ whole = conf /\ conf' = conf /\ whole' = whole
        /\ page' = [page EXCEPT ![at] = Programmed(at, conf[at])]
    BY <1>3 DEF Program, Inv, FlashInv
  <2>2. at \in Words /\ at \in Nat /\ IsConf(page) /\ IsConf(conf)
    BY Layout DEF Inv, TypeInv
  <2>3. page'[at] = conf[at]
    BY <2>1, <2>2 DEF Programmed, Inv, FlashInv, IsConf
  <2>4. \A w \in Words : w # at => page'[w] = page[w]
    BY <2>1, <2>2 DEF IsConf
  <2>5. page' = [w \in Words |-> page'[w]]
    BY <2>1, <2>2 DEF IsConf
  <2>6. \A w \in Words : page'[w] \in {conf[w], page[w]}
    BY <2>3, <2>4
  <2>7. IsConf(page)'
    <3>1. \A i \in Entries : page'[LocAt(i)] \in Locs \cup {NoLoc} /\ page'[MaskAt(i)] \subseteq 1 .. 8
      BY <2>2, <2>6, Layout DEF IsConf
    <3>2. \A s \in Slots : page'[IdAt(s)] \in Ids \cup {0, ERASED}
      BY <2>2, <2>6, Layout DEF IsConf
    <3> DEFINE q == page'
    <3>3. IsConf(q)
      <4> HIDE DEF q
      <4>1. QED
        BY <2>5, <3>1, <3>2 DEF q, IsConf
    <3>4. QED
      BY <3>3 DEF IsConf
  <2>8. /\ \A w \in Words : w <= at => page'[w] = conf[w]
        /\ \A w \in Words : w > at => page'[w] = Blank[w]
    BY <2>1, <2>2, <2>3, <2>4, Layout DEF Inv, FlashInv
  <2>9. CASE at < Size
    <3>1. at' = at + 1 /\ phase' = "program"
      BY <1>3, <2>1, <2>9 DEF Program
    <3>2. at + 1 \in Words
      BY <2>2, <2>9, Layout DEF Words
    <3>3. TypeInv'
      BY <1>1, <2>1, <2>7, <3>1, <3>2 DEF Inv, TypeInv, IsConf
    <3>4. \A w \in Words : (w < at + 1 <=> w <= at) /\ (w >= at + 1 <=> w > at)
      BY <2>2, Layout
    <3>5. NeverMixed'
      <4>1. \A w \in Words : w <= at \/ w > at
        BY <2>2, Layout
      <4>2. \A w \in Words : page'[w] \in {whole'[w], Blank[w]}
        BY <2>1, <2>8, <4>1
      <4>3. QED
        BY <3>1, <4>2 DEF NeverMixed, Blank
    <3>6. FlashInv'
      BY <2>1, <2>8, <3>1, <3>4, <3>5 DEF FlashInv
    <3>7. EntryInv' /\ PendingInv'
      BY <1>1, <2>1, <3>1 DEF Inv, EntryInv, OneEntry, PendingInv
    <3>8. QED
      BY <3>3, <3>6, <3>7 DEF Inv
  <2>10. CASE ~(at < Size)
    <3>1. at' = 1 /\ phase' = "idle" /\ at = Size
      BY <1>3, <2>2, <2>10, Layout DEF Program, Words
    <3>2. \A w \in Words : page'[w] = conf[w]
      BY <2>8, <3>1 DEF Words
    <3>3. page' = conf
      BY <2>2, <2>5, <3>2 DEF IsConf
    <3>4. TypeInv'
      BY <1>1, <2>1, <2>7, <3>1, Layout DEF Inv, TypeInv, IsConf
    <3>5. FlashInv'
      BY <2>1, <3>1, <3>3 DEF FlashInv, NeverMixed
    <3>6. EntryInv' /\ PendingInv'
      BY <1>1, <2>1, <3>1 DEF Inv, EntryInv, OneEntry, PendingInv
    <3>7. QED
      BY <3>4, <3>5, <3>6 DEF Inv
  <2>11. QED
    BY <2>9, <2>10
<1>4. QED
  BY <1>2, <1>3 DEF Save

LEMMA CrashStep ==
  ASSUME Inv, Crash PROVE Inv'
<1>1. /\ phase # "off" /\ phase' = "off" /\ conf' = Blank /\ at' = 1 /\ whole' = whole
      /\ sync' = Idle
  BY DEF Crash, PowerLoss
<1>2. ASSUME NEW w \in Words
      PROVE  page'[w] \in {page[w], Blank[w]}
  BY DEF Crash, PowerLoss, Inv, TypeInv, IsConf
<1>3. page' = [w \in Words |-> page'[w]]
  BY DEF Crash, PowerLoss, Inv, TypeInv, IsConf
<1>4. \A w \in Words : page'[w] \in {whole[w], Blank[w]}
  BY <1>2 DEF Inv, FlashInv, NeverMixed
<1>5. IsConf(page)'
  <2>1. \A i \in Entries : page'[LocAt(i)] \in Locs \cup {NoLoc} /\ page'[MaskAt(i)] \subseteq 1 .. 8
    BY <1>2, Layout, BlankValues DEF Inv, TypeInv, IsConf
  <2>2. \A s \in Slots : page'[IdAt(s)] \in Ids \cup {0, ERASED}
    BY <1>2, Layout, BlankValues DEF Inv, TypeInv, IsConf
  <2> DEFINE q == page'
  <2>3. IsConf(q)
    <3> HIDE DEF q
    <3>1. QED
      BY <1>3, <2>1, <2>2 DEF q, IsConf
  <2>4. QED
    BY <2>3 DEF IsConf
<1>6. owed' \subseteq Locs \X Peers /\ excused' \in BOOLEAN
  BY DEF Crash, Inv, TypeInv
<1>7. TypeInv'
  BY <1>1, <1>5, <1>6, BlankValues, SyncValues, Layout DEF Inv, TypeInv, IsConf
<1>8. FlashInv'
  BY <1>1, <1>4 DEF FlashInv, NeverMixed
<1>9. EntryInv'
  BY <1>1 DEF Inv, EntryInv, OneEntry
<1>10. PendingInv'
  <2>1. CASE phase \in {"erase", "program"}
    BY <2>1 DEF Crash, PendingInv
  <2>2. CASE phase = "idle"
    <3>1. page' = page /\ page = conf /\ owed' = owed /\ excused' = excused
      BY <2>2 DEF Crash, PowerLoss, Inv, FlashInv, NeverMixed
    <3>2. page[VersionAt] = VERSION
      BY <2>2, <3>1 DEF Inv, EntryInv
    <3>3. QED
      BY <1>1, <2>2, <3>1, <3>2 DEF Inv, PendingInv
  <2>3. QED
    BY <1>1, <2>1, <2>2 DEF Inv, TypeInv
<1>11. QED
  BY <1>7, <1>8, <1>9, <1>10 DEF Inv
-----------------------------------------------------------------------------
LEMMA InvInit == Init => Inv
<1> SUFFICES ASSUME Init PROVE Inv
  OBVIOUS
<1> DEFINE old == [Default EXCEPT ![VersionAt] = VERSION - 1, ![RegAt] = 1]
<1>1. \A i \in Entries : old[LocAt(i)] = NoLoc /\ old[MaskAt(i)] = {}
  BY Layout, DefaultValues DEF VersionAt, RegAt, Default
<1>2. \A s \in Slots : old[IdAt(s)] \in Ids \cup {0, ERASED}
  BY Layout, DefaultValues DEF VersionAt, RegAt, Default, IsConf
<1>3. old = [w \in Words |-> old[w]]
  BY DefaultValues DEF IsConf
<1>4. old[VersionAt] # VERSION
  BY Layout DEF VersionAt, RegAt, Default, VERSION
<1>5. page \in {Blank, old} /\ conf = Blank /\ phase = "off" /\ at = 1 /\ whole = page
  BY DEF Init, FlashInit
<1>6. sync = Idle /\ owed = {} /\ excused = FALSE
  BY DEF Init
<1> HIDE DEF old
<1>7. IsConf(old) /\ OneEntry(old)
  BY <1>1, <1>2, <1>3 DEF IsConf, OneEntry
<1>8. IsConf(page) /\ OneEntry(page) /\ page[VersionAt] # VERSION
  BY <1>4, <1>5, <1>7, BlankValues
<1>9. TypeInv
  BY <1>5, <1>6, <1>8, BlankValues, SyncValues, Layout DEF TypeInv
<1>10. FlashInv
  BY <1>5 DEF FlashInv, NeverMixed
<1>11. EntryInv /\ PendingInv
  BY <1>5, <1>6, <1>8 DEF EntryInv, PendingInv
<1>12. QED
  BY <1>9, <1>10, <1>11 DEF Inv

LEMMA InvNext == Inv /\ [Next]_vars => Inv'
<1> SUFFICES ASSUME Inv, [Next]_vars PROVE Inv'
  OBVIOUS
<1>1. CASE Start
  BY <1>1, StartStep
<1>2. CASE Save
  BY <1>2, SaveStep
<1>3. CASE Crash
  BY <1>3, CrashStep
<1>4. ASSUME NEW n \in Names, Register(n) PROVE Inv'
  BY <1>4, RegisterStep
<1>5. ASSUME NEW loc \in Locs, NEW id \in Ids, SetId(loc, id) PROVE Inv'
  BY <1>5, SetIdStep
<1>6. ASSUME NEW loc \in Locs, Delete(loc) PROVE Inv'
  BY <1>6, DeleteStep
<1>7. ASSUME NEW loc \in Locs, SyncFingerprint(loc) PROVE Inv'
  BY <1>7, SyncFingerprintStep
<1>8. CASE DeleteId
  BY <1>8, DeleteIdStep
<1>9. CASE Flush
  BY <1>9, FlushStep
<1>10. ASSUME NEW kind \in {"push", "retry"}, SendOK(kind) PROVE Inv'
  BY <1>10, SendOKStep
<1>11. CASE PushFails
  BY <1>11, PushFailsStep
<1>12. CASE RetryFails
  BY <1>12, RetryFailsStep
<1>13. CASE PushDone
  BY <1>13, PushDoneStep
<1>14. CASE RetryEntry
  BY <1>14, RetryEntryStep
<1>15. CASE UNCHANGED vars
  BY <1>15 DEF vars, flashVars, peerVars, Inv, TypeInv, IsConf, FlashInv, NeverMixed,
               EntryInv, OneEntry, PendingInv, Pending
<1>16. QED
  BY <1>1, <1>2, <1>3, <1>4, <1>5, <1>6, <1>7, <1>8, <1>9, <1>10, <1>11, <1>12, <1>13,
     <1>14, <1>15 DEF Next

(* Inv holds in every state, whatever sequence of calls and power losses   *)
(* led to it.                                                              *)
THEOREM Invariance == Spec => []Inv
  BY InvInit, InvNext, PTL DEF Spec

(* TypeOK always holds: conf and the flash page keep to their layout       *)
(* (main.c:104-117) and what is synchronised stays within its limits.      *)
THEOREM TypeCorrect == Spec => []TypeOK
<1>1. Inv => TypeOK
  BY DEF Inv, TypeInv, TypeOK, IsConf, Syncs
<1>2. QED
  BY <1>1, Invariance, PTL

(* writeToFlash (eeprom2flash.c:64-68) never programs a halfword that is   *)
(* not erased, wherever the writes before it were cut short.               *)
THEOREM WritesTake == Spec => []ProgramsErasedOnly
<1>1. Inv => ProgramsErasedOnly
  BY SlotsAssumption DEF Inv, TypeInv, FlashInv, ProgramsErasedOnly, Words, Size
<1>2. QED
  BY <1>1, Invariance, PTL

(* The flash never holds parts of two configurations, and what the node    *)
(* goes by between two calls is what its next boot reads.                  *)
THEOREM FlashIsWhole == Spec => []NeverMixed
<1>1. Inv => NeverMixed
  BY DEF Inv, FlashInv
<1>2. QED
  BY <1>1, Invariance, PTL

(* A location has one entry of the pending table, and an entry peers to     *)
(* send to and no other address (ohs_th_rs485.h:191-229); or else it has    *)
(* every other address, from a power loss between location and mask.        *)
THEOREM EachEntryHasItsOwnLocation == Spec => []OneEntryPerLocation
<1>1. Inv => OneEntryPerLocation
  BY DEF Inv, EntryInv, OneEntry, OneEntryPerLocation
<1>2. QED
  BY <1>1, Invariance, PTL

(* As long as the table was never full and no write was cut short, it is   *)
(* exactly what peers are owed.                                            *)
THEOREM TableIsOwed == Spec => []PendingIsOwed
<1>1. Inv => PendingIsOwed
  BY DEF Inv, PendingInv, PendingIsOwed
<1>2. QED
  BY <1>1, Invariance, PTL
=============================================================================
