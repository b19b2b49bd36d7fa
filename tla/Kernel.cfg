SPECIFICATION Spec
CONSTANTS
  Null = Null
  At <- Places
  Say <- Phrases
  Frame <- Frames
  Root = {0, 1, 2}
  Ix <- IxSix
  RefMod = 65536
  GENSTEP = 4
  IDMOD = 16
  UTOP = 1
  UVPT = 2
  kern_pgdir = 0
  KernTab <- Tables
  KernMap <- Entries
  FreeOrder <- Free
  TlbVa <- TlbSome
  Word = 2
  envs_frame = 1
  ULIM = 18
  Image <- MyImage
  Shown <- ShownPages
  Hidden <- HiddenPages
  SomePrograms <- ThesePrograms
INVARIANT AsGraded
PROPERTIES ImplementsProcess EveryProgramEnds
CHECK_DEADLOCK FALSE
