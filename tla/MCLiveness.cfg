\* Two signs, one packet, and a main thread that may sleep for ever.
CONSTANTS
  NumGroups = 1
  GroupId <- PairGroupId
  NumServers <- PairNumServers
  Jobs <- LiveJobs
  NumFiles = 1
  FirstFd = 3
  LastFd = 6
  Free = Free
  File = File
SPECIFICATION SleepySpec
PROPERTIES
  Reconnects
  DropDetected
  Terminates
