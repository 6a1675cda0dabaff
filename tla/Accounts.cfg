SPECIFICATION MCSpec
CONSTANTS
  r1 = r1
  r2 = r2
  s1 = s1
  Request <- MCRequest
  Session <- MCSession
  Message = {m1, m2}
  Party = {customer, provider}
  Stranger = {other}
  MaxFailures = 2
  MaxTries = 1
  MaxResends = 1
  MaxPasswords = 1
  GrantChoices <- MCGrantChoices
INVARIANTS GuessesAreLimited EndedAccessEnds ReadersDoNotWrite CatalogOpensGuards MembersMissNothing
PROPERTIES SuspensionHolds
SYMMETRY Symmetry
