\* Two requests at once over two enrolments and two steps of the clock.
SPECIFICATION Spec
CONSTANTS
  Secrets = {s1, s2}
  Recovery = {k1, k2}
  Requests = {r1, r2}
  Null = Null
  MaxStep = 3
SYMMETRY Interchangeable
INVARIANTS
  TypeOK
  CodeAcceptedOnce
PROPERTIES
  OnlyDeletionTurnsOff
