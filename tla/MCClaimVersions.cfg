SPECIFICATION Spec
CONSTANTS
  Creators = {c1}
  Revisers = {r1, r2}
  None = None
  MaxBase = 2
  PoolSize = 2
  MaxFaults = 1
INVARIANTS
  TypeOK
  LinearHistory
  AuthorityParity
  AnswersAreTrue
PROPERTIES
  ImplementsClaimHistory
  EveryCallAnswered
