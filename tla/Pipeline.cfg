SPECIFICATION Spec
CONSTANT Corpora <- MCCorpora
INVARIANTS
  EachCallOnce
  ScopesKeptApart
  ChainIsReachability
  GapIffContended
  AssumedIsApart
  RowsAccounted
  InspectShowsUses
