\* Callers within the count; masks of 3 and 5 channels (1 and 2 words).
CONSTANTS
  m1 = m1  m2 = m2  NoMask = NoMask
  Masks = {m1, m2}
  WordBits <- MCWordBits
  Sizes = {3, 5}
  BitsOf <- MCBitsInRange
SPECIFICATION Spec
INVARIANTS TypeOK NoOutOfBounds
PROPERTIES MaskRefinesSet
