\* Two requests, every output of up to two lines that are told apart.
SPECIFICATION Spec
CONSTANTS
  Requests = {r1, r2}
  NoError = NoError
  MaxLines = 2
SYMMETRY GatewaySymmetry
INVARIANTS
  TypeOK
  RetryIsHonest
  SameErrorEitherWay
  HealthExplainsFailure
  DocsListEveryFailure
