\* Two handlers at once over two changes of the password.
SPECIFICATION Spec
CONSTANTS
  Ids = {c1, c2}
  Requests = {r1, r2}
  Null = Null
  MaxChanges = 2
SYMMETRY Interchangeable
INVARIANTS
  TypeOK
  NothingOlderSurvives
  PasswordAloneOnlyWithoutTotp
