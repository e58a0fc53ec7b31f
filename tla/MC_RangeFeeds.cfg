SPECIFICATION FeedFairSpec
CONSTANTS
  Tools = {"iptoasn", "mm-dbip", "mm-geolite2-asn"}
  Rows <- MCRows
  MaxRows = 2
  MaxFeeds = 2
  CounterMod = 8
INVARIANTS DoneIsWhole DiskIsBeginning
PROPERTIES ConversionEnds
CHECK_DEADLOCK FALSE
