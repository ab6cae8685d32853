SPECIFICATION Spec
CONSTANTS
  Kind <- Readings
  MaxLength = 3
  MaxWidth = 2
  MaxOverrun = 1
  BufferSize <- Buffers
INVARIANTS
  WritesFit
