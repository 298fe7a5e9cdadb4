SPECIFICATION Spec
CONSTANTS
  l1 = l1
  l2 = l2
  l3 = l3
  Lines = {l1, l2, l3}
  MaxLines = 4
SYMMETRY LineNames
INVARIANTS ScriptTransforms
CHECK_DEADLOCK FALSE
