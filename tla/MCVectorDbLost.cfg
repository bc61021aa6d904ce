SPECIFICATION Spec
CONSTANTS
  Memories = {m1, m2, m3}
  Junk = Junk
  MaxEntries = 3
  MaxFaults = 0
  MaxCrashes = 1
SYMMETRY Symmetry
INVARIANT AllRecordsLoaded
