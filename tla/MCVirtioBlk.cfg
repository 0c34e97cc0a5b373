SPECIFICATION FairSpec
CONSTANTS
  p1 = p1
  p2 = p2
  p3 = p3
  Procs <- MCProcs
  NUM = 8
  Word = 16
VIEW View
INVARIANTS DescsConserved UsedIsValid DoneIsMoved
PROPERTIES RequestsReturn
