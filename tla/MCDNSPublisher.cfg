SPECIFICATION PubLiveSpec
CONSTANTS
  api1 = api1
  db1 = db1
  any = any
  a1 = a1
  a2 = a2
  c1 = c1
  c2 = c2
  K <- MCK
  V <- MCV
  Wildcards <- MCWildcards
  ClientIntents <- MCClientIntents
  Matches <- MCMatches
  Specs <- MCSpecs
  Answers <- MCAnswers
  MaxRestarts = 1
INVARIANTS
  PubTypeOK
  PublishedWereResolved
PROPERTIES
  DeclaredNamesPublished
  UndeclaredNamesGo
