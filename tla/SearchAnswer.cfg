CONSTANTS
  t1 = t1
  t2 = t2
  t3 = t3
  w = w
  None = None
  Topologies = {"worker"}
  ForeignKeys = FALSE
  Failing <- NothingFails
  Processes <- OneProcess
  Texts <- ThreeTexts
  Orders <- OneOrder
  Docs <- TwoDocs
  SearchRequest <- AQuery
  IndexCommands <- ThreeRequests
  TopicSeeds <- Seeds
  TOPIC_THRESHOLD = 50
  Gazetteer <- Canonical
  NGRAM_SIZE = 3
  MINHASH_SIZE = 2
  SIMHASH_SIZE = 2
  NUM_PERM = 4
  BITS = 3
  Rank <- Place
  Digest <- Bits
  Cosine <- TwoSegments
  TopK = 1
  ListFilter <- Language
  Lower <- LowerCase
  PAGE_SIZE = 1
SPECIFICATION CatalogSpec
INVARIANTS
  CatalogTypeOK
  OnlyMatching
  SteadyFound
  WholeUnlessDeleting
  NeverCapped
  CopyShows
  WalkComplete
  CountsAgree
