SPECIFICATION Spec
CONSTANTS
  d1 = d1  f1 = f1  f2 = f2  u1 = u1  U1 = U1  u2 = u2
  p1 = p1  p2 = p2  Nothing = Nothing
  Docs <- MCDocs
  Files <- MCFiles
  Uris <- MCUris
  KeyOf <- MCKeyOf
  Asked <- MCAsked
  Parts <- MCParts
  Parsed <- MCParsed
  IdOf <- MCIdOf
  OwnId <- MCOwnId
  Stem <- MCStem
  Web <- MCWeb
  MaxLength = 2
INVARIANTS DocumentsAgree CacheIsCurrent
 
