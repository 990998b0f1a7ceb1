\* Two requests at once, two users, two Google accounts.
SPECIFICATION Spec
CONSTANTS
  Users = {u1, u2}
  Requests = {r1, r2}
  Null = Null
  g1 = g1
  g2 = g2
  a1 = a1
  a2 = a2
  Googles <- MCGoogles
  Addresses <- MCAddresses
  EmailOf <- MCEmailOf
SYMMETRY Interchangeable
INVARIANTS
  TypeOK
  NoStrandedAccount
  LinkedUserHasAddress
  NoOrphanLinks
PROPERTIES
  GoogleStaysWithOwner
