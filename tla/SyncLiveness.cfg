SPECIFICATION FairSpec
CONSTANTS
  s1 = s1
  s2 = s2
  s3 = s3
  alice = alice
  bob = bob
  doc1 = doc1
  doc2 = doc2
  None = None
  Session = {s1, s2}
  Client = {alice, bob}
  DocumentID = {doc1}
  ClientOf <- TwoClients
  WantedDocument <- OneDocument
  MaxOps = 1
  MaxMoves = 0
  MaxKeys = 1
  MaxDrops = 1
PROPERTIES SyncCompletes EveryoneCatchesUp
