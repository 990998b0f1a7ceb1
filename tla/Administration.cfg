\* Two requests, a rotation and a tenant whose names are the platform's.
SPECIFICATION Spec
CONSTANTS
  adm = adm
  usr = usr
  gst = gst
  Users <- MCUsers
  Guests = {gst}
  Bootstrap = adm
  Audiences = {"platform", "tenant", "new"}
  Slugs = {"platform", "new"}
  RoleNames = {"admin"}
  Keys = {"orgs:write", "services:write", "members:write", "rbac:write"}
  SigningKeys = {k1, k2}
  Requests = {r1, r2}
  Null = Null
  TTL = 1
  MaxTime = 2
  MaxGrants = 2
  MaxEvents = 2
  Tenants <- MCTenants
SYMMETRY Interchangeable
INVARIANTS
  TypeOK
  LiveTokenVerifies
  CreatedOnce
PROPERTIES
  RevokedIsNotMinted
  OnlyGivenAct
CHECK_DEADLOCK FALSE
