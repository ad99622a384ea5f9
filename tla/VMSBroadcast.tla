---------------------------- MODULE VMSBroadcast ----------------------------
(* The program of VMSConnections keeps the promise of SignBroadcast.       *)
EXTENDS VMSConnections

\* A sign has a link while the server table has a handle for it; what went
\* over a connection that is no longer in the table is of no account.
linkMap == [s \in Server |-> socket_handle[s] # NoFd]
streamMap == [s \in Server |-> IF socket_handle[s] = NoFd THEN << >> ELSE wire[s]]

JobLengths == [k \in 1 .. Len(Jobs) |-> Jobs[k].len]
JobMembers == [k \in 1 .. Len(Jobs) |->
                 {s \in Server : IsFirstWithId(s[1], Jobs[k].group)}]

Broadcast == INSTANCE SignBroadcast WITH
  Lengths <- JobLengths,
  Members <- JobMembers,
  link    <- linkMap,
  stream  <- streamMap,
  busy    <- mutex

\* Every behaviour of the two threads, seen through the table, is one that
\* SignBroadcast allows: order, wholeness and completeness of broadcasts.
KeepsBroadcast == Broadcast!Spec

=============================================================================
