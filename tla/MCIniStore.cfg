\* A writer of two settings and two readers; one crash, or one deletion.
SPECIFICATION Spec
CONSTANTS
  Keys = {1, 2}
  Values = {"x", "y", "xx"}
  Width <- ValueWidth
  Absent = Absent
  Inodes = {1, 2, 3, 4, 5, 6, 7, 8, 9}
  Present = {0, 1}
  Writers = {"A"}
  Readers = {"r", "s"}
  Requests <- OneWriter
  MaxReads = 2
  MaxFaults = 1
INVARIANTS
  UpdatesKept
  OneIInv
PROPERTIES
  Atomic
  AllFinish
