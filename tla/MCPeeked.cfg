\* One packet, two signs that may answer: a closed connection is kept.
CONSTANTS
  NumGroups = 1
  GroupId <- PairGroupId
  NumServers <- PairNumServers
  Jobs <- LiveJobs
  NumFiles = 1
  FirstFd = 3
  LastFd = 6
  Free = Free
  File = File
SPECIFICATION LiveSpec
PROPERTIES
  PeekedMeansAlive
