CONSTANTS
  Base = 5
  Lengths <- ShortAndLongest
  FirstIDs <- NewAndWorn
  MaxMessages = 1
SPECIFICATION Spec
INVARIANTS
  ContentAsSent
