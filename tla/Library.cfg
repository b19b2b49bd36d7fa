SPECIFICATION Spec
CONSTANTS
  WORD = 2
  SECTSIZE = 4
  BUFSIZE = 5
  error_string <- Errors
  MAXARGS = 3
  Commands <- CmdNames
  PGSIZE = 4
  ADDRS = 20
  ULIM = 12
  MemSize = 8
  Numbers <- SmallNumbers
  Directives <- SomeDirectives
  Sources <- SomeSources
  Strtabs <- SomeStrtabs
  Sizes <- BufferSizes
  Sought <- Addresses
  Layouts <- GoodLayouts
  Lines <- SomeLines
  PageTables <- SomeTables
  Ask <- AskBoth
INVARIANTS MemmoveCopies NumbersReadBack FormatsAsAsked EipFound ImageLoaded ArgvIsWords ChecksEveryByte
CHECK_DEADLOCK FALSE
