CONSTANTS
  Names = {n1, n2, n3}
  PoolSize = 2
  MappingTimeout = 2
  HandlerTime = 1
  MaxTime = 4
  AnswerLife = 1
  MaxConns = 1
  NoName = NoName
SPECIFICATION VpnSpec
INVARIANTS VpnTypeOK Consistent AnswersHonoured
PROPERTY LeaseSpec
SYMMETRY NamesAreAlike
