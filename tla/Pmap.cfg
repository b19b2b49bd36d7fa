SPECIFICATION Spec
CONSTANTS
  Frame = {k1, k2, p1, p2, p3}
  Root = {k1, k2}
  Dir = {k1, k2}
  Ix = {0, 1}
  RefMod = 65536
  MaxMap = 65535
  PermChoice <- PermsBoth
  Words = {k1}
  Null = Null
SYMMETRY PageSymmetry
INVARIANTS TypeOK FreeListOK RefExact TablesUnshared TlbCoherent MmuInv
PROPERTY ImplementsVSpace
CHECK_DEADLOCK FALSE
