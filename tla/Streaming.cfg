SPECIFICATION Spec
CONSTANTS
  Byte <- MCByte
  Uploads <- MCUploads
  UploadChunk = 4
  MaxSize = 6
  NoFile = NoFile
  ScanChunks = {1, 2, 3, 4}
  Token <- MCToken
INVARIANTS TypeOK StoredWhole NamesAgree LimitExact TextCounted PagesCounted
CHECK_DEADLOCK FALSE
