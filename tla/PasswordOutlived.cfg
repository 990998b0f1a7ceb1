\* One request at a time: does a token outlive the password it came from?
SPECIFICATION Spec
CONSTANTS
  Ids = {c1, c2}
  Requests = {r1}
  Null = Null
  MaxChanges = 1
INVARIANT NoTokenOutlivesItsPassword
