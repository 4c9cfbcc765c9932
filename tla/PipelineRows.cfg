SPECIFICATION Spec
CONSTANT Corpora <- MCCorpora
INVARIANT
  RowPerObject
