SPECIFICATION Spec
CONSTANTS
  PageUnits = 2
  MaxRefcount = 2
  Clients = {c1, c2, c3}
  NPages = 3
  Ranges <- MCRanges
  Marks <- MCMarks
  Policies = {"LruRefcount"}
  RemapPinned = FALSE
  MaxClock = 2
SYMMETRY ClientSymmetry
INVARIANTS RefcountCountsHolders HeldIsMapped
PROPERTIES HeldStaysPut 
