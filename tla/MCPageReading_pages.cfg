CONSTANTS
  Photos <- TwoPhotos
  Handlers = {h1, h2}
  Nothing = Nothing
  MaxUploadAttempts = 2
  MaxEvents = 1
SPECIFICATION FairReadingSpec
INVARIANTS RowOnDisk TextOfImage
PROPERTY UploadEnds
CHECK_DEADLOCK FALSE
