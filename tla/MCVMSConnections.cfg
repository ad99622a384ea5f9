\* Two signs in one group, descriptors to spare.
CONSTANTS
  NumGroups = 1
  GroupId <- PairGroupId
  NumServers <- PairNumServers
  Jobs <- PairJobs
  NumFiles = 1
  FirstFd = 3
  LastFd = 6
  Free = Free
  File = File
SPECIFICATION Spec
INVARIANTS
  IInv
  NoDescriptorLeak
  NobodyElsesDescriptor
  StreamsFramed
  BroadcastComplete
  CleanShutdown
  SelectSafe
PROPERTY
  KeepsBroadcast
