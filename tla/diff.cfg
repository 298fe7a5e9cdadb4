SPECIFICATION Spec
CONSTANTS
  l1 = l1
  l2 = l2
  l3 = l3
  Lines = {l1, l2, l3}
  MaxLines = 5
SYMMETRY LineNames
INVARIANTS Shortest Chained SmallChangeRight ArraysSuffice NearStaysInside
PROPERTIES Progress
CHECK_DEADLOCK FALSE
