SPECIFICATION Spec
SYMMETRY Renaming
CONSTANTS
  Conn = {c1, c2, c3}
  Home = c1
  Request = {r1, r2}
  Payload = {bid}
  Capacity = 2
  TTL = 1
  MaxTime = 1
  MaxEntries = 3
CHECK_DEADLOCK FALSE
INVARIANTS
  IndexMatchesList
  NeverTwiceAtOnce
  AnswersOwnCommand
  NobodyWaitsInVain
PROPERTIES
  ForgottenForAReason
