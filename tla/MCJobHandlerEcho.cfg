\* Metadata over the cap in a message that is rejected for it.
CONSTANTS
  a = a  b = b  bad = bad  blank = blank  junk = junk
  query = query  passage = passage  other = other
  Texts = {a, b, bad}
  Poison = {bad}
  Unfit = {blank, junk}
  Keys = {query, passage}
  MaxItems = 2
  Batches <- MCBatches
SPECIFICATION Spec
INVARIANTS EchoCapped
CHECK_DEADLOCK FALSE
