SPECIFICATION Spec
CONSTANTS
  k1 = k1  k2 = k2  t1 = t1
  p1 = p1  p2 = p2  p3 = p3  p4 = p4  p5 = p5  p6 = p6
  Frame = {k1, k2, t1, p1, p2, p3, p4, p5, p6}
  Root = {k1, k2}
  FreeOrder <- FreeSix
  Ix <- IxFour
  RefMod = 65536
  Null = Null
  NENV = 2
  GENSTEP = 4
  IDMOD = 16
  UTOP = 2
  UVPT = 2
  kern_pgdir = k1
  KernTab <- KernTabOne
  KernMap <- KernMapOne
  Programs <- StackOnly
  STACK <- StackVa
  TlbVa <- TlbTwo
  Word = k2
SYMMETRY PageSymmetry
INVARIANTS Private KernelShared Cr3Live Isolation
CHECK_DEADLOCK FALSE
