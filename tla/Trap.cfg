SPECIFICATION Spec
CONSTANTS
  Points <- TwoPoints
  Caller <- CallerIds
  Ints <- SomeInts
  Faults <- SomeFaults
  KernelFaults <- SomeKernel
  Syscallno <- AllSyscallno
INVARIANTS FrameDescribesTrap
PROPERTIES Resumes KernelTrapsAreFatal
CHECK_DEADLOCK FALSE
