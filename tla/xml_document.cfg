SPECIFICATION Spec
CONSTANTS
  condenseWhiteSpace = TRUE
  Documents <- MCDocuments
  Files <- MCFiles
  Encodings = {"unknown", "legacy"}
  NoFile = NoFile
  Buffer = 16
  MaxSaves = 1
INVARIANTS TypeOK SavedLoads CutIsReported PrintersAgree
PROPERTY LoadedIsNormal
