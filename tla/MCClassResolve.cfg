SPECIFICATION ResolveSpec
CONSTANTS
  Class <- MCClass
  Enums <- MCEnums
  Legacy <- MCLegacy
  None = None
  Dict <- MCDict
  Lower <- MCLower
  Filters <- MCFilters
  Homes <- MCHomes
  MaxTokens = 3
  MaxStatements = 2
  MaxNesting = 2
INVARIANTS
  ClassesByPolicy
  NativeContextKept
