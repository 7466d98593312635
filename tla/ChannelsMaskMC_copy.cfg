\* Masks of 5 and 6 channels: different counts, the same word count.
CONSTANTS
  m1 = m1  m2 = m2  NoMask = NoMask
  Masks = {m1, m2}
  WordBits <- MCWordBits
  Sizes = {5, 6}
  BitsOf <- MCBitsInRange
SPECIFICATION Spec
PROPERTIES MaskRefinesSet
