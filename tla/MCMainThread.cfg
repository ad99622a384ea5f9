\* Every part.  A byte has 4 values, so that a uint16_t has 16, and a uint32_t 256.
CONSTANTS
  Parts = {"parse", "messages", "bearing", "text", "image"}
  Messages <- MCMessages
  Points <- MCPoints
  Dirs = {10, 20}
  Pets = {0, 1}
  Received <- MCReceived
  Circle = 360
  Targets <- MCTargets
  NaN = NaN
  Radix = 4
  TEXT_CONTROL_STX = 2
  TEXT_CONTROL_ETX = 3
  TextCommands = {0, 1}
  MaxPayload = 4
  Payloads <- MCPayloads
  IMAGE_START_BYTE = 2
  CMD_IMG_BUF_INIT = 0
  CMD_IMG_DATA_TX = 1
  Types = {1}
  ImageCommands = {1, 2}
  Places <- MCPlaces
  ImageFiles <- MCImageFiles
SPECIFICATION MainSpec
INVARIANTS
  MainIInv
  MainNothingLeaks
  MainInBounds
  ListIsGrouping
  OnlyFailedLost
  SentOnce
  WarningsLast
  Nearest
  SignReads
