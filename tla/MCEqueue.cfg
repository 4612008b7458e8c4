SPECIFICATION Spec

CONSTANTS
  Threads = {t1, t2}
  i1 = i1
  Idents = {i1}
  Changes <- UserChanges
  Routes = {flip, vblank}
  Filters = {{flip}}
  Coalescing = {vblank}
  Sourced = {vblank}
  Words = {w1}
  Wanted = {1}
  MaxPosts = 2
  MaxRaises = 0

SYMMETRY Symmetry

INVARIANTS ListIsExact Conserved NoReadySleeper
