CONSTANTS
  Requests = {r1, r2, r3}
  Raw <- MCRaw
  Normal <- MCNormal
  Wellformed = {"ann", " Ann ", "a~nn", "longann"}
  Names <- MCNames
  Trimmed <- MCTrimmed
  NoName = ""
  TooLong = {"longann", "Longname"}
  Keys <- MCKeys
  Key <- MCKey
  Passwords <- MCPasswords
  Bytes <- MCBytes
  Significant <- MCSignificant
  Ids = {i1, i2}
  NoUser = NoUser
  Inputs <- MCInputs
  NoToken = NoToken
  Second = 2
  TTL = 1
  MaxTime = 3
  Never = Never
SYMMETRY Symmetry
CHECK_DEADLOCK FALSE
SPECIFICATION Spec
INVARIANTS
  TypeOK
  OneAccount
  SessionsAreEarned
  AnswersAreTrue
PROPERTIES
  TokensExpireInTime
  ImplementsAccountBook
