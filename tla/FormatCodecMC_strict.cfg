\* Format texts around the grammar: the decoder against the strict grammar.
CONSTANTS
  UIntBits = 8
  ULongBits = 16
SPECIFICATION SpecTexts
INVARIANTS DecodeIsStrict
