\* Every part.
SPECIFICATION JsonPartsSpec
CONSTANTS
  Parts = {"tree", "json", "string", "print", "minify"}
  Nodes = {1, 2, 3, 4}
  Names = {"a", "A"}
  Fold <- FoldCase
  NULL = NULL
  CJSON_CIRCULAR_LIMIT = 2
  JsonTexts <- MCJsonTexts
  CJSON_NESTING_LIMIT = 2
  Literals <- MCLiterals
  JsonStrings <- MCJsonStrings
  PrintedItems <- MCPrintedItems
  Prebuffers <- MCPrebuffers
  default_buffer_size = 4
  INT_MAX = 20
  MinifyParts <- MCMinifyParts
INVARIANTS
  ListsLinked
  OwnedOnce
  JsonSafe
  ParsesValues
  StringRoundTrip
  PrintsText
  MinifyKeeps
PROPERTY Implements
