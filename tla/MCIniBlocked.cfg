\* Two writers that change a setting each.
SPECIFICATION Spec
CONSTANTS
  Keys = {1, 2}
  Values = {"x", "y", "xx"}
  Width <- ValueWidth
  Absent = Absent
  Inodes = {1, 2, 3, 4, 5, 6, 7}
  Present = {1}
  Writers = {"A", "B"}
  Readers = {}
  Requests <- TwoWriters
  MaxReads = 0
  MaxFaults = 0
PROPERTY AllFinish
CHECK_DEADLOCK FALSE
