\* Duplicate, empty and missing groups; descriptors run out.
CONSTANTS
  NumGroups = 4
  GroupId <- ManyGroupId
  NumServers <- ManyNumServers
  Jobs <- ManyJobs
  NumFiles = 2
  FirstFd = 3
  LastFd = 4
  Free = Free
  File = File
SPECIFICATION Spec
INVARIANTS
  AddressedOnly
