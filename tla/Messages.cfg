CONSTANTS
  Senders <- TwoSenders
  Codes <- ThreeCodes
  Code <- OwnCode
  QueueCap = 2
SPECIFICATION FairSpec
INVARIANTS
  TypeOK
  TakerFindsReply
PROPERTIES
  SurplusStays
  OnlyAFullQueueBlocks
