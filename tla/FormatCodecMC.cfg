\* The decoder inverts the emitter on every valid format of small fields.
CONSTANTS
  UIntBits = 8
  ULongBits = 16
SPECIFICATION SpecFormats
INVARIANTS DecodeInvertsEncode
