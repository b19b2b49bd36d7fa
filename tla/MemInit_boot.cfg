SPECIFICATION Spec
CONSTANTS
  Frame <- Pages48
  Root = {}
  Ix <- Indices
  RefMod = 65536
  Null = Null
  NPT = 24
  PGSIZE = 16
  KB = 22
  UENVS = 17
  UPAGES = 18
  UVPT = 19
  KSTACK = 21
  IOPAGE = 4
  EXTPAGE = 5
  entry_pgdir = 5
  entry_pgtable = 6
  bootstack = 7
  ENDBYTE = 133
  PAGEINFO = 1
  ENVBYTES = 20
  PGKB = 4
  KB1 = 20
  KB16 = 120
  EXT16UNIT = 1
  Nvram <- NvramAll
  Enough = 20
INVARIANTS FreeExact Boots LayoutOK
PROPERTY Reachable
CHECK_DEADLOCK FALSE
