--------------------------- MODULE VMSConnections ---------------------------
(***************************************************************************)
(* The run time of the program: the connection manager thread of           *)
(* VMSconnection_manager.c, the sender and the main thread of reader.c,    *)
(* the server table they share under one mutex, the descriptor table of    *)
(* the process, and the signs (VMS servers) at the other end of the TCP    *)
(* connections.  A critical section that makes no blocking call is one     *)
(* step; the sender, which calls send() while it holds the mutex, is not.  *)
(***************************************************************************)
EXTENDS Integers, Sequences, FiniteSets

CONSTANTS
  NumGroups,    \* vms_servers->num_groups
  GroupId,      \* GroupId[i] = groups[i].group_id
  NumServers,   \* NumServers[i] = groups[i].num_servers
  Jobs,         \* the (packet, target group) pairs main sends, in order
  NumFiles,     \* files main opens, one after the other, before it sends
  FirstFd,      \* descriptors below it are taken before the program starts
  LastFd,       \* the process's limit on descriptors
  Free, File    \* what a descriptor is when it is no socket

NoFd == -1
Fd == FirstFd .. LastFd
Group == 0 .. NumGroups - 1
Server == UNION {{<<i, j>> : j \in 0 .. NumServers[i] - 1} : i \in Group}
Job == [group : Int, len : Nat \ {0}]

ASSUME TableAssumption ==
  /\ NumGroups \in Nat
  /\ GroupId \in [Group -> Int]
  /\ NumServers \in [Group -> Nat]

ASSUME JobsAssumption == Jobs \in Seq(Job)

ASSUME DescriptorAssumption ==
  /\ FirstFd \in Nat
  /\ LastFd \in Nat
  /\ NumFiles \in Nat
  /\ Free # File
  /\ Free \notin Server
  /\ File \notin Server

VARIABLES
  socket_handle,         \* groups[i].servers[j].socket_handle
  mutex,                 \* TRUE while the sender holds vms_servers->mutex
  keep_running_manager,  \* the flag main clears to stop the manager
  fdTable,               \* what each descriptor of the process refers to
  up,                    \* whether a sign accepts connections
  net,                   \* state of the connection to a sign, at our end
  unread,                \* whether the sign sent something on it
  wire,                  \* chunks the kernel took on the last connection
  mgr,                   \* control state of the manager thread
  i, j,                  \* its loop counters
  local_socket_handle,   \* its copy of the handle of server <<i, j>>
  new_sock,              \* the socket it is connecting
  main,                  \* control state of the main thread
  files,                 \* files main has still to open
  file_fd,               \* the file main has open
  job,                   \* index in Jobs of the packet being sent
  group_to_send,         \* index of the group it goes to
  pos,                   \* the sender's loop counter in that group
  current_socket_handle, \* the sender's copy of a handle
  total_bytes_sent

shared  == <<socket_handle, mutex, keep_running_manager>>
kernel  == <<fdTable, up, net, unread, wire>>
mgrVars == <<mgr, i, j, local_socket_handle, new_sock>>
jobVars == <<job, group_to_send, pos, current_socket_handle, total_bytes_sent>>
mainVars == <<main, files, file_fd, jobVars>>
vars == <<shared, kernel, mgrVars, mainVars>>

MgrStates == {"absent", "scan", "sleep", "read", "check", "close",
              "invalidate", "attempt", "connect", "store", "finished"}
MainStates == {"create", "asleep", "files", "reading", "next", "lock", "pick",
               "send", "stop", "join", "cleanup", "exit"}
NetStates == {"none", "ok", "lost", "closed"}
Chunk == [job : 1 .. Len(Jobs), from : Nat, to : Nat]

\* The table vms_manager_init hands to main: every handle is -1.
Init ==
  /\ socket_handle = [s \in Server |-> NoFd]
  /\ mutex = FALSE
  /\ keep_running_manager = TRUE
  /\ fdTable = [f \in Fd |-> Free]
  /\ up \in [Server -> BOOLEAN]
  /\ net = [s \in Server |-> "none"]
  /\ unread = [s \in Server |-> FALSE]
  /\ wire = [s \in Server |-> << >>]
  /\ mgr = "absent" /\ i = 0 /\ j = 0
  /\ local_socket_handle = NoFd /\ new_sock = NoFd
  /\ main = "create" /\ files = NumFiles /\ file_fd = NoFd
  /\ job = 1 /\ group_to_send = 0 /\ pos = 0
  /\ current_socket_handle = NoFd /\ total_bytes_sent = 0

-----------------------------------------------------------------------------
(* Descriptors.  The kernel hands out the lowest free one, so a number that *)
(* was closed is the first to be reused.                                    *)

IsLowestFree(f) ==
  /\ fdTable[f] = Free
  /\ \A g \in Fd : fdTable[g] = Free => f <= g

NoneFree == \A f \in Fd : fdTable[f] # Free

\* Closing a descriptor that is not open fails (EBADF) and changes nothing.
Close(f) ==
  /\ fdTable' = [fdTable EXCEPT ![f] = Free]
  /\ net' = [s \in Server |-> IF fdTable[f] = s THEN "none" ELSE net[s]]
  /\ unread' = [s \in Server |-> fdTable[f] # s /\ unread[s]]

\* The connection behind a descriptor: "none" for what is not a connected socket.
SockState(f) == IF fdTable[f] \in Server THEN net[fdTable[f]] ELSE "none"

\* Mutant: a zero return of the peeking recv(), an end of file, is not looked at.
AliveAtEOF(f) == SockState(f) # "none"

\* is_socket_alive_with_select: select() fails on a descriptor that is not
\* open, recv() on one that is no socket; a peeked end of file or error is
\* death; no event is life - even when the peer is gone without a trace
\* ("lost") - and so is data to read, which nobody ever takes from the queue:
\* the end behind it is not seen.
Alive(f) ==
  \/ SockState(f) \in {"ok", "lost"}
  \/ SockState(f) = "closed" /\ unread[fdTable[f]]

-----------------------------------------------------------------------------
(* The manager thread: vms_manager_manage_connections.                      *)

Here == <<i, j>>

\* Mutant: the loops do not look at the flag.
MgrScanForEver ==
  /\ mgr = "scan"
  /\ \/ i = NumGroups /\ mgr' = "sleep" /\ i' = 0 /\ j' = 0
     \/ i < NumGroups /\ j = NumServers[i] /\ i' = i + 1 /\ j' = 0 /\ UNCHANGED mgr
     \/ i < NumGroups /\ j < NumServers[i] /\ mgr' = "read" /\ UNCHANGED <<i, j>>
  /\ UNCHANGED <<shared, kernel, local_socket_handle, new_sock, mainVars>>

\* Mutant: the server counter starts at 1.
MgrScanFromOne ==
  /\ mgr = "scan"
  /\ \/ ~keep_running_manager /\ mgr' = "finished" /\ UNCHANGED <<i, j>>
     \/ /\ keep_running_manager /\ i = NumGroups
        /\ mgr' = "sleep" /\ i' = 0 /\ j' = 1
     \/ /\ keep_running_manager /\ i < NumGroups /\ j >= NumServers[i]
        /\ i' = i + 1 /\ j' = 1 /\ UNCHANGED mgr
     \/ /\ keep_running_manager /\ i < NumGroups /\ j < NumServers[i]
        /\ mgr' = "read" /\ UNCHANGED <<i, j>>
  /\ UNCHANGED <<shared, kernel, local_socket_handle, new_sock, mainVars>>

\* The tests at the head of the three loops and the breaks at their ends.
MgrScan ==
  /\ mgr = "scan"
  /\ \/ /\ ~keep_running_manager
        /\ mgr' = "finished"
        /\ UNCHANGED <<i, j>>
     \/ /\ keep_running_manager
        /\ i = NumGroups
        /\ mgr' = "sleep" /\ i' = 0 /\ j' = 0
     \/ /\ keep_running_manager
        /\ i < NumGroups
        /\ j = NumServers[i]
        /\ i' = i + 1 /\ j' = 0
        /\ UNCHANGED mgr
     \/ /\ keep_running_manager
        /\ i < NumGroups
        /\ j < NumServers[i]
        /\ mgr' = "read"
        /\ UNCHANGED <<i, j>>
  /\ UNCHANGED <<shared, kernel, local_socket_handle, new_sock, mainVars>>

MgrSleep ==
  /\ mgr = "sleep"
  /\ mgr' = "scan"
  /\ UNCHANGED <<shared, kernel, i, j, local_socket_handle, new_sock, mainVars>>

\* First critical section: copy the handle.
MgrRead ==
  /\ mgr = "read"
  /\ ~mutex
  /\ local_socket_handle' = socket_handle[Here]
  /\ mgr' = IF socket_handle[Here] = NoFd THEN "attempt" ELSE "check"
  /\ UNCHANGED <<shared, kernel, i, j, new_sock, mainVars>>

\* The end of the loop body: its locals go out of scope.
NextServer ==
  /\ mgr' = "scan"
  /\ j' = j + 1
  /\ local_socket_handle' = NoFd
  /\ new_sock' = NoFd
  /\ UNCHANGED i

\* The test is made without the mutex: the sender may have closed it since.
MgrCheck ==
  /\ mgr = "check"
  /\ IF Alive(local_socket_handle)
       THEN NextServer
       ELSE mgr' = "close" /\ UNCHANGED <<i, j, local_socket_handle, new_sock>>
  /\ UNCHANGED <<shared, kernel, mainVars>>

\* Mutant: a dead handle is closed but left in the table.
MgrCloseOnly ==
  /\ mgr = "close"
  /\ Close(local_socket_handle)
  /\ mgr' = "attempt"
  /\ UNCHANGED <<shared, up, wire, i, j, local_socket_handle, new_sock, mainVars>>

MgrClose ==
  /\ mgr = "close"
  /\ Close(local_socket_handle)
  /\ mgr' = "invalidate"
  /\ UNCHANGED <<shared, up, wire, i, j, local_socket_handle, new_sock, mainVars>>

\* Mutant: the handle is given up when somebody else changed it.
MgrInvalidateOthers ==
  /\ mgr = "invalidate"
  /\ ~mutex
  /\ socket_handle' = [socket_handle EXCEPT ![Here] =
                         IF @ # local_socket_handle THEN NoFd ELSE @]
  /\ mgr' = "attempt"
  /\ UNCHANGED <<mutex, keep_running_manager, kernel, i, j,
                 local_socket_handle, new_sock, mainVars>>

\* Second critical section: the handle goes unless somebody changed it.
MgrInvalidate ==
  /\ mgr = "invalidate"
  /\ ~mutex
  /\ socket_handle' = [socket_handle EXCEPT ![Here] =
                         IF @ = local_socket_handle THEN NoFd ELSE @]
  /\ mgr' = "attempt"
  /\ UNCHANGED <<mutex, keep_running_manager, kernel, i, j,
                 local_socket_handle, new_sock, mainVars>>

\* socket(): not called once the flag is down; it may find no descriptor.
MgrAttempt ==
  /\ mgr = "attempt"
  /\ \/ /\ ~keep_running_manager \/ NoneFree
        /\ NextServer
        /\ UNCHANGED fdTable
     \/ /\ keep_running_manager
        /\ \E f \in Fd :
             /\ IsLowestFree(f)
             /\ fdTable' = [fdTable EXCEPT ![f] = Here]
             /\ new_sock' = f
        /\ mgr' = "connect"
        /\ UNCHANGED <<i, j, local_socket_handle>>
  /\ UNCHANGED <<shared, up, net, unread, wire, mainVars>>

\* connect() blocks until the sign answers or the attempt fails.
MgrConnectOk ==
  /\ mgr = "connect"
  /\ up[Here]
  /\ net' = [net EXCEPT ![Here] = "ok"]
  /\ wire' = [wire EXCEPT ![Here] = << >>]
  /\ mgr' = "store"
  /\ UNCHANGED <<shared, fdTable, up, unread, i, j, local_socket_handle, new_sock,
                 mainVars>>

\* Mutant: a failed connect() does not close the new socket.
MgrConnectFailOpen ==
  /\ mgr = "connect"
  /\ ~up[Here]
  /\ NextServer
  /\ UNCHANGED <<shared, kernel, mainVars>>

MgrConnectFail ==
  /\ mgr = "connect"
  /\ ~up[Here]
  /\ Close(new_sock)
  /\ NextServer
  /\ UNCHANGED <<shared, up, wire, mainVars>>

\* Mutant: the new handle is stored without the mutex.
MgrStoreUnlocked ==
  /\ mgr = "store"
  /\ IF socket_handle[Here] \notin {NoFd, new_sock}
       THEN Close(socket_handle[Here])
       ELSE UNCHANGED <<fdTable, net, unread>>
  /\ socket_handle' = [socket_handle EXCEPT ![Here] = new_sock]
  /\ NextServer
  /\ UNCHANGED <<mutex, keep_running_manager, up, wire, mainVars>>

\* Third critical section: a handle still there is closed, then replaced.
MgrStore ==
  /\ mgr = "store"
  /\ ~mutex
  /\ IF socket_handle[Here] \notin {NoFd, new_sock}
       THEN Close(socket_handle[Here])
       ELSE UNCHANGED <<fdTable, net, unread>>
  /\ socket_handle' = [socket_handle EXCEPT ![Here] = new_sock]
  /\ NextServer
  /\ UNCHANGED <<mutex, keep_running_manager, up, wire, mainVars>>

MgrNext ==
  \/ MgrScan \/ MgrSleep \/ MgrRead \/ MgrCheck \/ MgrClose \/ MgrInvalidate
  \/ MgrAttempt \/ MgrConnectOk \/ MgrConnectFail \/ MgrStore

-----------------------------------------------------------------------------
(* The main thread: main.                                                   *)

\* pthread_create may fail; the table is then cleaned up at once.
MainCreate ==
  /\ main = "create"
  /\ \/ mgr' = "scan" /\ main' = "asleep"
     \/ mgr' = "absent" /\ main' = "cleanup"
  /\ UNCHANGED <<shared, kernel, i, j, local_socket_handle, new_sock, files,
                 file_fd, jobVars>>

\* sleep(10)
MainWake ==
  /\ main = "asleep"
  /\ main' = "files"
  /\ UNCHANGED <<shared, kernel, mgrVars, files, file_fd, jobVars>>

\* The JSON file, then one fopen() for each setting of config.ini.  Without
\* the JSON file there is nothing to send; a setting has its default.
FileOpen ==
  /\ main = "files"
  /\ files > 0
  /\ files' = files - 1
  /\ \/ \E f \in Fd :
          /\ IsLowestFree(f)
          /\ fdTable' = [fdTable EXCEPT ![f] = File]
          /\ file_fd' = f
          /\ main' = "reading"
          /\ UNCHANGED job
     \/ /\ NoneFree
        /\ job' = IF files = NumFiles THEN Len(Jobs) + 1 ELSE job
        /\ UNCHANGED <<fdTable, file_fd, main>>
  /\ UNCHANGED <<shared, up, net, unread, wire, mgrVars, group_to_send, pos,
                 current_socket_handle, total_bytes_sent>>

FileClose ==
  /\ main = "reading"
  /\ Close(file_fd)
  /\ main' = "files"
  /\ file_fd' = NoFd
  /\ UNCHANGED <<shared, up, wire, mgrVars, files, jobVars>>

\* The message is parsed, or not; its jobs are determined.
MainParse ==
  /\ main = "files"
  /\ files = 0
  /\ main' = "next"
  /\ job' \in {job, Len(Jobs) + 1}
  /\ UNCHANGED <<shared, kernel, mgrVars, files, file_fd, group_to_send, pos,
                 current_socket_handle, total_bytes_sent>>

\* Mutant: the settings are read again before every packet.
MainNextJobRereads ==
  /\ main = "next"
  /\ \/ job > Len(Jobs) /\ main' = "stop" /\ UNCHANGED <<job, files>>
     \/ job <= Len(Jobs) /\ main' = "lock" /\ UNCHANGED <<job, files>>
     \/ job <= Len(Jobs) /\ job' = job + 1 /\ main' = "files" /\ files' = 1
  /\ UNCHANGED <<shared, kernel, mgrVars, file_fd, group_to_send, pos,
                 current_socket_handle, total_bytes_sent>>

\* The loops over messages and target groups.  A packet that cannot be made
\* is passed over.
MainNextJob ==
  /\ main = "next"
  /\ \/ job > Len(Jobs) /\ main' = "stop" /\ UNCHANGED job
     \/ job <= Len(Jobs) /\ main' = "lock" /\ UNCHANGED job
     \/ job <= Len(Jobs) /\ job' = job + 1 /\ UNCHANGED main
  /\ UNCHANGED <<shared, kernel, mgrVars, files, file_fd, group_to_send, pos,
                 current_socket_handle, total_bytes_sent>>

MainStop ==
  /\ main = "stop"
  /\ keep_running_manager' = FALSE
  /\ main' = "join"
  /\ UNCHANGED <<socket_handle, mutex, kernel, mgrVars, files, file_fd, jobVars>>

\* Mutant: the table is cleaned up without joining the manager.
MainNoJoin ==
  /\ main = "join"
  /\ main' = "cleanup"
  /\ UNCHANGED <<shared, kernel, mgrVars, files, file_fd, jobVars>>

MainJoin ==
  /\ main = "join"
  /\ mgr = "finished"
  /\ main' = "cleanup"
  /\ UNCHANGED <<shared, kernel, mgrVars, files, file_fd, jobVars>>

\* vms_manager_cleanup, alone by now: every handle left is closed.
MainCleanup ==
  /\ main = "cleanup"
  /\ fdTable' = [f \in Fd |-> IF \E s \in Server : socket_handle[s] = f
                                THEN Free ELSE fdTable[f]]
  /\ LET closed == {fdTable[socket_handle[s]] :
                      s \in {r \in Server : socket_handle[r] # NoFd}}
     IN /\ net' = [s \in Server |-> IF s \in closed THEN "none" ELSE net[s]]
        /\ unread' = [s \in Server |-> s \notin closed /\ unread[s]]
  /\ socket_handle' = [s \in Server |-> NoFd]
  /\ main' = "exit"
  /\ UNCHANGED <<mutex, keep_running_manager, up, wire, mgrVars, files,
                 file_fd, jobVars>>

-----------------------------------------------------------------------------
(* The sender: send_message_to_group_thread_safe, called by main.           *)

Target == <<group_to_send, pos>>
MessageLen == Jobs[job].len
\* Mutant: send() is always given the length of the whole packet.
BytesOfAll == MessageLen

BytesLeft == MessageLen - total_bytes_sent

\* Only the first group with the wanted number is found.
IsFirstWithId(g, id) ==
  /\ GroupId[g] = id
  /\ \A h \in Group : h < g => GroupId[h] # id

\* Mutant: the mutex is taken to look the group up, not to send to it.
SendLockBriefly ==
  /\ main = "lock"
  /\ ~mutex
  /\ \/ \E g \in Group :
          /\ IsFirstWithId(g, Jobs[job].group)
          /\ group_to_send' = g
          /\ main' = "pick"
          /\ UNCHANGED job
     \/ /\ \A g \in Group : GroupId[g] # Jobs[job].group
        /\ job' = job + 1
        /\ main' = "next"
        /\ UNCHANGED group_to_send
  /\ UNCHANGED <<shared, kernel, mgrVars, files, file_fd, pos,
                 current_socket_handle, total_bytes_sent>>

SendLock ==
  /\ main = "lock"
  /\ ~mutex
  /\ \/ \E g \in Group :
          /\ IsFirstWithId(g, Jobs[job].group)
          /\ group_to_send' = g
          /\ mutex' = TRUE
          /\ main' = "pick"
          /\ UNCHANGED job
     \/ /\ \A g \in Group : GroupId[g] # Jobs[job].group
        /\ job' = job + 1
        /\ main' = "next"
        /\ UNCHANGED <<mutex, group_to_send>>
  /\ UNCHANGED <<socket_handle, keep_running_manager, kernel, mgrVars, files,
                 file_fd, pos, current_socket_handle, total_bytes_sent>>

\* The head of the loop over the group's servers, and its end.
SendPick ==
  /\ main = "pick"
  /\ \/ /\ pos < NumServers[group_to_send]
        /\ socket_handle[Target] # NoFd
        /\ current_socket_handle' = socket_handle[Target]
        /\ main' = "send"
        /\ UNCHANGED <<mutex, job, group_to_send, pos>>
     \/ /\ pos < NumServers[group_to_send]
        /\ socket_handle[Target] = NoFd
        /\ pos' = pos + 1
        /\ UNCHANGED <<mutex, main, job, group_to_send, current_socket_handle>>
     \/ /\ pos = NumServers[group_to_send]
        /\ mutex' = FALSE
        /\ main' = "next"
        /\ job' = job + 1
        /\ group_to_send' = 0 /\ pos' = 0
        /\ UNCHANGED current_socket_handle
  /\ UNCHANGED <<socket_handle, keep_running_manager, kernel, mgrVars, files,
                 file_fd, total_bytes_sent>>

SentServer ==
  /\ main' = "pick"
  /\ pos' = pos + 1
  /\ current_socket_handle' = NoFd
  /\ total_bytes_sent' = 0

\* n more bytes of the current packet on a stream.
Taken(chunks, n) ==
  LET last == chunks[Len(chunks)]
      continues == /\ chunks # << >>
                   /\ last.job = job
                   /\ last.to = total_bytes_sent
  IN IF continues
       THEN [chunks EXCEPT ![Len(chunks)].to = @ + n]
       ELSE Append(chunks, [job  |-> job,
                            from |-> total_bytes_sent,
                            to   |-> total_bytes_sent + n])

\* send() takes some of the bytes that are left; the first send() after the
\* peer closed may still do so.
SendSome ==
  /\ main = "send"
  /\ SockState(current_socket_handle) # "none"
  /\ \E n \in 1 .. BytesLeft :
       /\ wire' = [wire EXCEPT ![fdTable[current_socket_handle]] = Taken(@, n)]
       /\ IF total_bytes_sent + n = MessageLen
            THEN SentServer
            ELSE /\ total_bytes_sent' = total_bytes_sent + n
                 /\ UNCHANGED <<main, pos, current_socket_handle>>
  /\ UNCHANGED <<shared, fdTable, up, net, unread, mgrVars, files, file_fd, job,
                 group_to_send>>

\* Mutant: the rest of the packet is given up, the connection is not.
SendFailKeeps ==
  /\ main = "send"
  /\ SockState(current_socket_handle) \in {"none", "closed"}
  /\ SentServer
  /\ UNCHANGED <<shared, kernel, mgrVars, files, file_fd, job, group_to_send>>

\* send() fails: the handle is closed and given up, the rest of the packet
\* is not sent.
SendFail ==
  /\ main = "send"
  /\ SockState(current_socket_handle) \in {"none", "closed"}
  /\ IF socket_handle[Target] = current_socket_handle
       THEN /\ Close(socket_handle[Target])
            /\ socket_handle' = [socket_handle EXCEPT ![Target] = NoFd]
       ELSE UNCHANGED <<fdTable, net, unread, socket_handle>>
  /\ SentServer
  /\ UNCHANGED <<mutex, keep_running_manager, up, wire, mgrVars, files,
                 file_fd, job, group_to_send>>

MainNext ==
  \/ MainCreate \/ MainWake \/ FileOpen \/ FileClose \/ MainParse
  \/ MainNextJob \/ SendLock \/ SendPick \/ SendSome \/ SendFail
  \/ MainStop \/ MainJoin \/ MainCleanup

-----------------------------------------------------------------------------
(* The signs and the network between.                                       *)

PeerUp(s) ==
  /\ ~up[s]
  /\ up' = [up EXCEPT ![s] = TRUE]
  /\ UNCHANGED <<shared, fdTable, net, unread, wire, mgrVars, mainVars>>

\* The sign stops; a connection ends visibly or without a trace.
PeerDown(s) ==
  /\ up[s]
  /\ up' = [up EXCEPT ![s] = FALSE]
  /\ \E n \in IF net[s] = "ok" THEN {"lost", "closed"} ELSE {net[s]} :
       net' = [net EXCEPT ![s] = n]
  /\ UNCHANGED <<shared, fdTable, unread, wire, mgrVars, mainVars>>

\* The sign closes or resets the connection, or our end times out.
PeerClose(s) ==
  /\ net[s] \in {"ok", "lost"}
  /\ net' = [net EXCEPT ![s] = "closed"]
  /\ UNCHANGED <<shared, fdTable, up, unread, wire, mgrVars, mainVars>>

\* The sign says something, an acknowledgement perhaps.
PeerReply(s) ==
  /\ net[s] = "ok"
  /\ ~unread[s]
  /\ unread' = [unread EXCEPT ![s] = TRUE]
  /\ UNCHANGED <<shared, fdTable, up, net, wire, mgrVars, mainVars>>

EnvNext ==
  \E s \in Server : PeerUp(s) \/ PeerDown(s) \/ PeerClose(s) \/ PeerReply(s)

Next == MgrNext \/ MainNext \/ EnvNext

Spec == Init /\ [][Next]_vars

-----------------------------------------------------------------------------
(* Fairness.  Each thread is scheduled, and each blocking call returns: a   *)
(* sign that is connected to takes bytes, closes, or times out.             *)

LiveSpec == Spec /\ WF_vars(MgrNext) /\ WF_vars(MainNext)

\* The same, with a main thread that may sleep as long as it likes, so that
\* the manager is watched over unboundedly many rounds.
MainAwake == main # "asleep" /\ MainNext
SleepySpec == Spec /\ WF_vars(MgrNext) /\ WF_vars(MainAwake)

-----------------------------------------------------------------------------
(* Properties.                                                              *)

\* Every variable keeps its type; the sender's offset stays in the packet.
TypeOK ==
  /\ socket_handle \in [Server -> Fd \cup {NoFd}]
  /\ mutex \in BOOLEAN
  /\ keep_running_manager \in BOOLEAN
  /\ fdTable \in [Fd -> Server \cup {Free, File}]
  /\ up \in [Server -> BOOLEAN]
  /\ net \in [Server -> NetStates]
  /\ unread \in [Server -> BOOLEAN]
  /\ wire \in [Server -> Seq(Chunk)]
  /\ mgr \in MgrStates
  /\ i \in 0 .. NumGroups
  /\ j \in Nat
  /\ local_socket_handle \in Fd \cup {NoFd}
  /\ new_sock \in Fd \cup {NoFd}
  /\ main \in MainStates
  /\ files \in 0 .. NumFiles
  /\ file_fd \in Fd \cup {NoFd}
  /\ job \in 1 .. Len(Jobs) + 1
  /\ group_to_send \in Nat
  /\ pos \in Nat
  /\ current_socket_handle \in Fd \cup {NoFd}
  /\ total_bytes_sent \in Nat
  /\ main = "send" => total_bytes_sent < MessageLen

\* The window between the manager's close() and its second critical section:
\* the handle of server s is still in the table but no longer open.
Stale(s) == mgr = "invalidate" /\ s = Here /\ socket_handle[s] = local_socket_handle

\* A handle in the table is the server's own open socket, outside that window;
\* inside it the number may at most be taken by a file main reads, never by
\* the socket of another server.
HandleOwned ==
  \A s \in Server : socket_handle[s] # NoFd =>
    \/ fdTable[socket_handle[s]] = s
    \/ Stale(s) /\ fdTable[socket_handle[s]] \in {Free, File}

\* "server->socket_handle is already -1, or should have been set to -1 by the
\* check before" (VMSconnection_manager.c:285): a new socket is made, and a
\* connection stored, only for a server that has no handle.
RetryOnlyWhenInvalid ==
  mgr \in {"attempt", "connect", "store"} => socket_handle[Here] = NoFd

\* Every open socket is still known to the program: in the table, or in the
\* manager's new_sock.  None is lost, so none stays open for ever.
NoDescriptorLeak ==
  \A f \in Fd : fdTable[f] \in Server =>
    \/ socket_handle[fdTable[f]] = f
    \/ mgr \in {"connect", "store"} /\ new_sock = f /\ fdTable[f] = Here

\* Closing twice is harmless: whoever is about to close or use a descriptor
\* finds its own socket or file there, or nothing - never somebody else's,
\* although both threads close without telling each other.
NobodyElsesDescriptor ==
  /\ mgr = "close" => fdTable[local_socket_handle] \in {Free, Here}
  /\ mgr \in {"connect", "store"} => fdTable[new_sock] = Here
  /\ main = "reading" => fdTable[file_fd] = File
  /\ main = "send" => fdTable[current_socket_handle] \in {Free, Target}

\* The last chunk of a stream is the packet being sent to server s now.
InFlight(s) ==
  /\ main = "send" /\ s = Target
  /\ wire[s][Len(wire[s])] = [job |-> job, from |-> 0, to |-> total_bytes_sent]

\* What a sign receives on a connection is a sequence of whole packets: a
\* packet that is cut off is the last on its connection, whose handle is gone.
StreamsFramed ==
  \A s \in Server : \A k \in 1 .. Len(wire[s]) :
    /\ wire[s][k].from = 0
    /\ \/ wire[s][k].to = Jobs[wire[s][k].job].len
       \/ k = Len(wire[s]) /\ (InFlight(s) \/ socket_handle[s] = NoFd)

\* A sign of the group the sender has passed in its loop, and that still has a
\* handle, took the whole packet: no sign gets connected behind its back.
BroadcastComplete ==
  main \in {"pick", "send"} =>
    \A p \in 0 .. pos - 1 :
      LET s == <<group_to_send, p>> IN
      socket_handle[s] # NoFd =>
        /\ wire[s] # << >>
        /\ wire[s][Len(wire[s])] = [job |-> job, from |-> 0, to |-> MessageLen]

\* The program leaves nothing behind: the table is freed when the manager has
\* ended, with the mutex free, and no descriptor is open at exit.
CleanShutdown ==
  /\ main \in {"cleanup", "exit"} => mgr \in {"absent", "finished"} /\ ~mutex
  /\ main = "exit" => \A f \in Fd : fdTable[f] = Free

\* However often signs come and go, a handle in the table is one of the first
\* (number of servers) + 1 descriptors the program has: FD_SET, which does not
\* look at FD_SETSIZE, is safe for a table that is small enough.
SelectSafe ==
  \A s \in Server : socket_handle[s] <= FirstFd + Cardinality(Server)

\* A packet reaches signs of the addressed group only, and of the first group
\* with that number.
AddressedOnly ==
  \A s \in Server : \A k \in 1 .. Len(wire[s]) :
    IsFirstWithId(s[1], Jobs[wire[s][k].job].group)

\* The program ends, when main does not sleep for ever: the broadcast is over,
\* the manager leaves its loops, main joins it and cleans up.
Terminates == WF_vars(MainNext) => <>(main = "exit")

\* A server without a connection gets one, unless its sign stops accepting or
\* the program is shutting down.
Reconnects ==
  \A s \in Server :
    (socket_handle[s] = NoFd /\ mgr \notin {"absent", "finished"})
      ~> (socket_handle[s] # NoFd \/ ~up[s] \/ ~keep_running_manager)

\* A connection the sign has closed is given up, when it never said anything
\* on it.
DropDetected ==
  \A s \in Server :
    (socket_handle[s] # NoFd /\ net[s] = "closed" /\ ~unread[s])
      ~> (net[s] # "closed" \/ ~keep_running_manager)

\* "Data peeked, so alive" (VMSconnection_manager.c:91): a connection that
\* passes the check, because there is data to read or because nothing happened
\* on it, is not one the sign has closed.
PeekedMeansAlive ==
  [][mgr = "check" /\ mgr' = "scan" => SockState(local_socket_handle) # "closed"]_vars

=============================================================================
