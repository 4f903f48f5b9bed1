SPECIFICATION Spec
CONSTANTS
  Lists = {L1, L2}
  Items = {i1, i2, i3, i4}
  null = null
INVARIANTS
  Mirrored
PROPERTIES
  ImplementsQueues
