SPECIFICATION Spec
CONSTANTS
  Kind <- AllValues
  MaxLength = 3
  MaxWidth = 2
  MaxOverrun = 1
  BufferSize <- Buffers
INVARIANTS
  WritesFit
  NeverTruncated
  CarefulSucceeds
  DenseExact
