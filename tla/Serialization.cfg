CONSTANTS
  Ids <- MCIds
  Schema <- MCSchema
  IdentityKeys = "identityKeys"
  Mappings <- MCMappings
  Objects <- MCObjects
  Options <- MCOptions
  Plain <- MCPlain
  Importables <- MCImportables
  FormatsSearched = FALSE
  LiteralValues <- MCLiteralValues
SPECIFICATION SSpec
INVARIANTS
  ClassesAreUnions
  OrderFollowsDependencies
  RoundTrip
  LiteralsSettle
