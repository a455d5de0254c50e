\* Lists of at most two texts; plain and unusual messages of mixed keys.
CONSTANTS
  a = a  b = b  bad = bad  blank = blank  junk = junk
  query = query  passage = passage  other = other
  Texts = {a, b, bad}
  Poison = {bad}
  Unfit = {blank, junk}
  Keys = {query, passage}
  MaxItems = 2
  Batches <- MCBatches
SPECIFICATION Spec
INVARIANTS OwnVectors BlamedAlone NoneLeftOver Correlatable
CHECK_DEADLOCK FALSE
