SPECIFICATION FairSpec
CONSTANTS
  Handlers = {h1, h2}
  Submissions = {3}
  DrainLimit = 3
  MaxSeq = 4
  MaxFaults = 2
  NoHandler = NoHandler
  NoCall = NoCall
  Idle = Idle
  Unread = Unread
CHECK_DEADLOCK FALSE
INVARIANTS
  TypeOK
  AppliedInOrder
  MarkCoversDecided
  AckedDecided
  SubmissionFollowsFacts
PROPERTIES
  SeqNeverReissued
  EveryFactAcked
