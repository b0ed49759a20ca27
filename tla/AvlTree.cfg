SPECIFICATION Spec
CONSTANTS
  Key <- Keys7
  Data = {a, b}
  NoData = NoData
INVARIANTS Balanced GetAllSorted SearchAgrees
