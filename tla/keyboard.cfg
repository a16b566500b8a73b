SPECIFICATION FairSpec
CONSTANTS
  BufferSize = 4
  Chars = {a, b}
  NoChar = none
  Readers = {shell}
PROPERTIES FifoSpec FairFifoSpec
