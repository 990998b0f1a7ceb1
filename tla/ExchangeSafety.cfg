\* Two exchanges of one code, with faults, deletion, purge and prune, while
\* members come and go.
SPECIFICATION XSpec
CONSTANTS
  Users = {u1}
  Services = {s1, s2}
  Public = {s2}
  TokenIds = {t1, t2}
  CodeIds = {k1}
  Requests = {r1, r2}
  org = org
  Orgs <- MCOrgs
  OrgOf <- MCOrgOf
  Null = Null
  Resolution = 1
  Grace = 1
  TTL = 1
  CodeTTL = 1
  Retention = 0
  RequireEmailVerification = TRUE
  EmailStates = {"unverified", "verified"}
  Clients = {}
  Events = {"fault", "delete", "email", "purge", "prune", "member"}
  MaxTime = 2
SYMMETRY Handlers
INVARIANTS
  XTypeOK
PROPERTIES
  OnlyFullProofConsumes
  CodeOneShot
