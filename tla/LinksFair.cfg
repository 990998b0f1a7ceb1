\* Fair handlers, without faults: is a verification link honoured, and does a
\* recovery end the links that were mailed before it?
SPECIFICATION FairSpec
CONSTANTS
  Users = {u1}
  Addresses = {a1, a2}
  LinkIds = {k1, k2}
  Requests = {r1, r2}
  Null = Null
  Events = {"register", "change", "deletion", "reset", "password",
            "expire", "remove"}
PROPERTIES
  VerificationHonoured
  RecoveryEndsLinks
CHECK_DEADLOCK FALSE
