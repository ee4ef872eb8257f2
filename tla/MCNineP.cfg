SPECIFICATION Spec
CONSTANTS
  Threads = {t1, t2}
  FID_MAX = 6
  Programs <- MCPrograms
  MaxObj = 5
  MaxFault = 1
SYMMETRY Symmetry
INVARIANTS FidsSound NodeKeepsFile 
