\* A group that is never full against groups that always are.
CONSTANTS
  a = a  b = b  a1 = a1  a2 = a2  a3 = a3  b1 = b1
  Items = {a1, a2, a3, b1}
  Keys = {a, b}
  KeyOf <- MCKeyOf
  SizeOf <- MCSizeOf
  MaxTexts = 2
  Window = 2
SPECIFICATION FairSpec
PROPERTIES TakenInTheEnd
