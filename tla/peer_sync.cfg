SPECIFICATION Spec
CONSTANTS
  NSlots = 1
  NEntries = 2
  Erasures <- Ends
  Locs <- FewLocs
  Ids <- OneId
  Names <- OneName
  MaxAddr = 3
  OwnAddr = 2
INVARIANTS TypeOK ProgramsErasedOnly NeverMixed OneEntryPerLocation PendingIsOwed
