---------------------------- MODULE VMSInduction ----------------------------
(* The inductive invariant behind the safety properties of VMSConnections.  *)
EXTENDS VMSConnections

AtServer == {"read", "check", "close", "invalidate", "attempt", "connect", "store"}
BeforeSending == {"create", "asleep", "files", "reading"}
InSender == {"pick", "send"}

\* Where the two threads are says what their counters and copies hold.  The
\* mutex is held exactly while the sender is in its loop.
Control ==
  /\ main = "create" => mgr = "absent"
  /\ main \in {"cleanup", "exit"} => mgr \in {"absent", "finished"}
  /\ mutex <=> main \in InSender
  /\ mgr \in {"absent", "scan", "sleep"} /\ i < NumGroups => j <= NumServers[i]
  /\ mgr \in AtServer => Here \in Server
  /\ mgr \in {"check", "close", "invalidate"} => local_socket_handle # NoFd
  /\ mgr \in {"connect", "store"} => new_sock # NoFd
  /\ main \in {"lock"} \cup InSender => job <= Len(Jobs)
  /\ main \in InSender => /\ group_to_send \in Group
                          /\ IsFirstWithId(group_to_send, Jobs[job].group)
                          /\ pos <= NumServers[group_to_send]
  /\ main \notin InSender => pos = 0
  /\ main = "send" => Target \in Server
  /\ main # "send" => total_bytes_sent = 0

\* Outside the stale window a handle is the server's own open socket.
HandlesOpen ==
  \A s \in Server : socket_handle[s] # NoFd /\ ~Stale(s) => fdTable[socket_handle[s]] = s

\* The only file open is the one main reads.
FilesHeld ==
  /\ \A f \in Fd : fdTable[f] = File => main = "reading" /\ file_fd = f
  /\ main = "reading" => file_fd # NoFd /\ fdTable[file_fd] = File

\* The manager's copy is the server's handle, or the sender has closed it - and
\* then no file is opened any more, which could take the number.
CopyOwned ==
  /\ mgr \in {"check", "close"} =>
       \/ socket_handle[Here] = local_socket_handle
       \/ /\ main \notin BeforeSending
          /\ socket_handle[Here] = NoFd
          /\ fdTable[local_socket_handle] = Free
  /\ mgr = "invalidate" =>
       /\ fdTable[local_socket_handle] \in {Free, File}
       /\ socket_handle[Here] \in {local_socket_handle, NoFd}

NewOwned == mgr \in {"connect", "store"} => fdTable[new_sock] = Here

\* The sender's copy is the handle as long as it holds the mutex.
SenderCopy ==
  main = "send" => /\ current_socket_handle # NoFd
                   /\ socket_handle[Target] = current_socket_handle

NothingOpenAtExit == main = "exit" => \A f \in Fd : fdTable[f] = Free

\* What each handle, copy or held descriptor refers to.
Ownership ==
  /\ HandlesOpen
  /\ NoDescriptorLeak
  /\ RetryOnlyWhenInvalid
  /\ FilesHeld
  /\ CopyOwned
  /\ NewOwned
  /\ SenderCopy
  /\ NothingOpenAtExit

\* A new connection has carried nothing when it is stored.
NewIsEmpty == mgr = "store" => wire[Here] = << >>

NoEmptyChunk == \A s \in Server : \A k \in 1 .. Len(wire[s]) : wire[s][k].to > 0

\* The sender's offset is the length of what is in flight.
OffsetInFlight ==
  main = "send" /\ total_bytes_sent > 0 => wire[Target] # << >> /\ InFlight(Target)

\* What is on the wires: whole packets, of the server's own group, but for the
\* end of a stream that is being written or was given up.
Streams ==
  /\ NewIsEmpty
  /\ NoEmptyChunk
  /\ OffsetInFlight
  /\ StreamsFramed
  /\ AddressedOnly
  /\ BroadcastComplete

IInv == TypeOK /\ Control /\ Ownership /\ Streams

=============================================================================
