SPECIFICATION Spec
CONSTANTS
  s1 = s1
  s2 = s2
  s3 = s3
  alice = alice
  bob = bob
  doc1 = doc1
  doc2 = doc2
  None = None
  Session = {s1, s2, s3}
  Client = {alice, bob}
  DocumentID = {doc1, doc2}
  ClientOf <- AliceTwice
  WantedDocument <- TwoDocuments
  MaxOps = 1
  MaxMoves = 1
  MaxKeys = 1
  MaxDrops = 0
INVARIANTS RegistryAgrees
PROPERTIES SharedLogSpec
