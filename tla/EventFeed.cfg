SPECIFICATION FeedSpec
CONSTANTS
  Tags = {"IntentAdmitted"}
  RING_CAP = 2
  Forms = {6}
  MaxSeq = 4
INVARIANT EventsOnce
