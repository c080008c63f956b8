\* Three writers and four records in segments of two: a round can be overtaken
\* by a rotation, by another writer's append and by a waiter of the next round.
SPECIFICATION FairSpec
CONSTANTS
  Writers = {w1, w2, w3}
  SegmentCap = 2
  MaxSequence = 4
INVARIANTS TypeOK SyncedIsDurable VisibleIsDurable DurableIsPrefix
PROPERTY WaitersAreAnswered
\* The writers may have nothing more to write.
CHECK_DEADLOCK FALSE
