SPECIFICATION Spec
CONSTANTS
  MaxWords = 3
  MaxQuery = 3
  Lists <- MCLists
  Queries <- MCQueries
INVARIANTS
  LookupRight
  LayoutFits
  KeywordsKnown
