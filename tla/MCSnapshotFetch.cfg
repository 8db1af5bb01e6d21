SPECIFICATION FetchSpec
CONSTANTS
  KnownDocuments <- MCKnownDocuments
  Contents <- MCContents
  EditedRows <- MCEditedRows
  LookupWorkers = 2
  MaxEdits = 2
INVARIANTS
  NothingLost
  NothingForeign
  KnownDocumentsFetched
PROPERTIES
  FetchEnds
CHECK_DEADLOCK FALSE
