\* Addresses are verified, changed, reset and taken by others, by their owners and
\* by an operator, while statements fail.
SPECIFICATION Spec
CONSTANTS
  Users = {u1, u2}
  Addresses = {a1, a2}
  LinkIds = {k1, k2}
  Requests = {r1, r2}
  Null = Null
  Events = {"register", "guest", "resend", "change", "deletion", "reset", "operator", "fault"}
SYMMETRY Interchangeable
INVARIANTS
  TypeOK
PROPERTIES
  VerifiedWasProven
  LinkOneShot
CHECK_DEADLOCK FALSE
