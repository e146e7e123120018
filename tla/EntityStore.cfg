SPECIFICATION Spec
CONSTANTS
  e1 = e1  e2 = e2  r1 = r1  r2 = r2
  default = default  other = other
  NoKey = NoKey  NoEntity = NoEntity  NoSession = NoSession
  Entities <- MCEntities
  Repos <- MCRepos
  Sessions <- MCSessions
  DefaultSession = default
  SessionOf <- MCSessionOf
  Linking <- MCLinking
  Eligible <- MCEligible
  InitialValues <- MCInitialValues
  Width = 1
  MaxKey = 1
  MaxUpdates = 4
INVARIANTS LinksFollow ResolversAgree
PROPERTIES RepositoriesAreIndexes GivenKeysAreNew
