\* Two sign-ins at once to one account, over two lockouts.
SPECIFICATION Spec
CONSTANTS
  Accounts = {a1}
  Requests = {r1, r2}
  MaxFailures = 2
  Lockout = 2
  MaxTime = 5
  MaxAttempts = 6
SYMMETRY SignIns
INVARIANT GuessesBounded
INVARIANT LockNeedsFullRun
