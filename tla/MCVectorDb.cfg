SPECIFICATION Spec
CONSTANTS
  Memories = {m1, m2, m3}
  Junk = Junk
  MaxEntries = 3
  MaxFaults = 2
  MaxCrashes = 1
SYMMETRY Symmetry
INVARIANT TypeOK
INVARIANT FileMirrorsMemory
INVARIANT KillLosesNothing
INVARIANT HeaderBehindBody
PROPERTY ImplementsDurableList
