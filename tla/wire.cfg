CONSTANTS
  Base = 5
  Lengths <- ShortAndLongest
  FirstIDs <- NewAndWorn
  MaxMessages = 3
SPECIFICATION Spec
INVARIANTS
  TypeOK
  ContentInSize
  AnnouncedIsSent
  PrintedAsPacked
  NothingInvented
