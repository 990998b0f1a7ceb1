\* Fair handlers answer replayed tokens and codes, beside password changes, with
\* REFRESH_TOKEN_REUSE_GRACE=0 and timestamps stored to the nearest second.
SPECIFICATION XFairSpec
CONSTANTS
  Users = {u1}
  Services = {s1}
  Public = {}
  TokenIds = {t1, t2}
  CodeIds = {k1}
  Requests = {r1, r2}
  org = org
  Orgs <- MCOrgs
  OrgOf <- MCOrgOf
  Null = Null
  Resolution = 3
  Grace = 0
  TTL = 3
  CodeTTL = 3
  Retention = 0
  RequireEmailVerification = FALSE
  EmailStates = {"verified"}
  Clients <- MCClients
  Events = {"password"}
  MaxTime = 2
PROPERTIES
  ReplayEndsFamily
  CodeReplayEndsFamily
