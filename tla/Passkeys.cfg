\* Two handlers register passkeys and sign in with them.
SPECIFICATION Spec
CONSTANTS
  Users = {u1}
  Credentials = {c1, c2}
  PasskeyIds = {p1, p2}
  ChallengeIds = {k1, k2}
  Requests = {r1, r2}
  Null = Null
  MaxPasskeys = 1
  FreshLogin = 1
  ChallengeTTL = 1
  MaxCounter = 1
  MaxTime = 2
SYMMETRY Interchangeable
INVARIANTS
  TypeOK
  ChallengeOpensOnce
  LimitHolds
PROPERTIES
  RegisteredFresh
  CounterFallsOnlyInRace
CHECK_DEADLOCK FALSE
