\* Every part; lines of up to most of the buffer.
CONSTANTS
  Parts = {"table", "write", "value"}
  Modulus = 6
  Names <- MCNames
  IdOf <- MCIdOf
  NoId = NoId
  Files <- MCFiles
  INI_BUFFERSIZE = 9
  KeyNames = {"a", "A", "b"}
  Values = {"one", "six", "ten"}
  Fold <- FoldCase
  NameLen <- SpellingLen
  Width <- ValueWidth
  Piece <- MCPiece
  NULL = NULL
  WriteFiles <- MCWriteFiles
  Requests <- MCRequests
  Texts <- MCTexts
  KeyLens = {1, 3, 5, 20}
  Sizes = {1, 3, 12}
  LONG_MAX = 127
SPECIFICATION SettingsSpec
INVARIANTS
  IInv
  GroupsMatchFile
  WriteIInv
  WritesEdit
  ReadersAgree
  RoundTrip
PROPERTY
  Advances
