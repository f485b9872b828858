SPECIFICATION Spec
CONSTANTS
  AsFloat <- MCAsFloat
  FloatText <- MCFloatText
  FloatValue <- MCFloatValue
  Leaves <- MCLeaves
  Boundary <- MCBoundary
  Keys <- MCKeys
  Counts = {15, 16}
  OddBytes = {0, 31, 55, 59, 95, 97, 129, 159, 191, 203, 249, 250, 255}
  MaxWeight = 4
INVARIANTS
  BinaryReturns
  TruncationThrows
  DecodedSettles
  TextReturns
  FilterReturns
  PatchReaches
  FlattenReturns
  PointerFollows
  OrderAgrees
PROPERTIES
  LoopGoesOn
