SPECIFICATION FairSpec
CONSTANTS
  app = app
  test = test
  old = old
  File <- MCFile
  MaxInstalls = 3
  Assets <- MCAssets
  VersionCode <- MCVersionCode
  Absent = Absent
  Partial = Partial
  NoThumb = NoThumb
  Torn = Torn
  NoFile = NoFile
  NotServing = NotServing
INVARIANTS
  TypeOK
  UpIsComplete
  ThumbMeansComplete
PROPERTIES
  StartEnds
  StoreSpec
