SPECIFICATION Spec
CONSTANTS
  Site = {1}
  letter = letter
  Char = {letter}
  NUL = NUL
  None = None
  doc1 = doc1
  doc2 = doc2
  DocumentID = {doc1, doc2}
  Sent <- SentOperations
INVARIANTS MemoryFollowsDisk NeverAhead
PROPERTIES DurableStoreSpec
