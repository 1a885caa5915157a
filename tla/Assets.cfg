SPECIFICATION AssetsSpec
CONSTANTS
  Names <- MCNames
  EntryOf <- MCEntryOf
  BuiltIns = {"f"}
  Contents <- MCContents
  Blocks = {1, 2}
  UploadNames = {"a"}
  StatCrcMax = 2
  NoFile = NoFile
  NoUpload = NoUpload
INVARIANTS
  AssetsTypeOK
  CheckpointDescribesFile
  OpenFileUntouched
  StoredAnswerTrue
  SessionsWatched

  
