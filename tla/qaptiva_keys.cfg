SPECIFICATION Spec
CONSTANTS
  Kind <- KeysOnly
  MaxLength = 3
  MaxWidth = 2
  MaxOverrun = 1
  BufferSize <- Buffers
INVARIANTS
  ToldSizeDelivers
