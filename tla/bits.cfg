\* Bytes of four bits, words of three bytes, a buffer of five.
CONSTANTS
  ByteBits = 4
  IntBytes = 3
  MantissaBits = 3
  BufferBytes = 5
  Patterns <- SomePatterns
  Sources <- SomeSources
  Values = {0, 2742, 3241}
  Ranges <- SomeRanges
  MaxFields = 2
SPECIFICATION Spec
CHECK_DEADLOCK FALSE
INVARIANTS BufferIsTheFields ReadsWhatWasWritten OverrunIsNoticed
