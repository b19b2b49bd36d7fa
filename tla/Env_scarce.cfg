SPECIFICATION Spec
CONSTANTS
  k1 = k1  k2 = k2  t1 = t1
  p1 = p1  p2 = p2  p3 = p3  p4 = p4  p5 = p5  p6 = p6
  Frame = {k1, k2, t1, p1, p2, p3, p4, p5}
  Root = {k1, k2}
  FreeOrder <- FreeFive
  Ix <- IxFour
  RefMod = 65536
  Null = Null
  NENV = 2
  GENSTEP = 4
  IDMOD = 24
  UTOP = 2
  UVPT = 2
  kern_pgdir = k1
  KernTab <- KernTabOne
  KernMap <- KernMapOne
  Programs <- OneOrNone
  STACK <- StackVa
  TlbVa <- NoVa
  Word = k2
SYMMETRY FiveSymmetry
INVARIANTS TypeOK PagesAccounted SlotsOK StaleIdsRejected
PROPERTY LoopsEnd
CHECK_DEADLOCK FALSE
