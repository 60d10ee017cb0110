CONSTANTS
  Senders = {s1, s2, s3, s4, s5}
  Texts = {x, y}
  PerSender = 2
  Global = 3
  MaxPending = 2
  Window = 2
  Ttl = 3
SPECIFICATION Spec
SYMMETRY Symmetry
INVARIANTS TypeOK LimitsHold
PROPERTIES GateSpec
