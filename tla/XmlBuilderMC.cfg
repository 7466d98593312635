\* Builder on malformed and well-formed documents, no allocation failure.
CONSTANTS
  NoStr = NoStr
  k1 = k1  k2 = k2  v1 = v1  v2 = v2
  d1 = d1  d2 = d2  c1 = c1  c2 = c2
  a1 = a1  a2 = a2  nm = nm  desc = desc  tag = tag
  Keys = {k1, k2}
  Vals = {v1, v2}
  DevIds = {d1, d2}
  ChnIds = {c1, c2}
  Names = {nm}
  AttrNames = {a1, a2}
  Descs = {desc}
  Tags = {tag}
  VerTexts <- MCVerTexts
  IndexTexts <- MCIndexTexts
  FormatTexts <- MCFormatTexts
  ScaleTexts <- MCScaleTexts
  DecodeFormat <- MCDecodeFormat
  Docs <- ReferenceDocs
  UIntBits <- MCUIntBits
  LongBits <- MCLongBitsLP64
  LLongBits <- MCLLongBits
  MayFail = FALSE
SPECIFICATION Spec
INVARIANTS TypeOK NoLeak NoDangling BuildMatchesReference
PROPERTIES BuildTerminates ErrorIsFinal
