SPECIFICATION FeedFairSpec
CONSTANTS
  Tools = {"mm-dbip", "mm-geolite2-asn"}
  Rows <- SomeRows
  MaxRows = 1
  MaxFeeds = 1
  CounterMod = 8
PROPERTIES CsvConversionEnds
CHECK_DEADLOCK FALSE
