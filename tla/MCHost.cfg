SPECIFICATION Spec
CONSTANTS
  o1 = o1
  o2 = o2
  e1 = e1
  e2 = e2
  NoOp = none
  Ops <- TwoOps
  Emitters <- TwoEmitters
  MaxEmits = 2
INVARIANTS NoLostRing NothingDropped
PROPERTIES CallsReturn
