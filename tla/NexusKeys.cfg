SPECIFICATION Spec
CONSTANTS
  n1 = n1
  n2 = n2
  n3 = n3
  f1 = f1
  f2 = f2
  Names = {n1}
  Addrs = {a1}
  Files = {f1, f2}
  FileOf <- SafeFileName
  None = None
  MaxCalls = 2
  MaxKeys = 2
INVARIANTS KnownKeysOnDisk
