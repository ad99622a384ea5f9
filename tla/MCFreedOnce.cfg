\* Messages that are parsed, for the comment on line 288.
CONSTANTS
  Parts = {"parse"}
  Messages <- MCMessages
  Points <- MCPoints
  Dirs = {10, 20}
  Pets = {0, 1}
  Received <- MCReceived
  Circle = 360
  Targets <- MCTargets
  NaN = NaN
  Radix = 4
  TEXT_CONTROL_STX = 2
  TEXT_CONTROL_ETX = 3
  TextCommands = {0, 1}
  MaxPayload = 4
  Payloads <- MCPayloads
  IMAGE_START_BYTE = 2
  CMD_IMG_BUF_INIT = 0
  CMD_IMG_DATA_TX = 1
  Types = {1}
  ImageCommands = {1, 2}
  Places <- MCPlaces
  ImageFiles <- MCImageFiles
SPECIFICATION MainSpec
INVARIANTS
  FreedOnce
CHECK_DEADLOCK FALSE
