\* Batches of at most 2 texts, a window of 2 ticks; items of 1, 2 and 3 texts.
CONSTANTS
  a = a  b = b  a1 = a1  a2 = a2  a3 = a3  b1 = b1
  Items = {a1, a2, a3, b1}
  Keys = {a, b}
  KeyOf <- MCKeyOf
  SizeOf <- MCSizeOf
  MaxTexts = 2
  Window = 2
SPECIFICATION FairSpec
INVARIANTS TypeOK TextsCounted NeverOversleeps
PROPERTIES ImplementsBuffer TakenUnlessCrowdedOut
