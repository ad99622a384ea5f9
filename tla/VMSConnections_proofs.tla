------------------------ MODULE VMSConnections_proofs ------------------------
(* Proofs about VMSConnections: its types, with the facts on control states   *)
(* they rest on (each table access is in range, each offset in its packet);   *)
(* who owns which descriptor: that the two threads, which close descriptors   *)
(* without telling each other, neither leak one nor hit somebody else's; and  *)
(* what the signs receive: whole packets, of their own group, and each sign   *)
(* that keeps its connection the whole of every packet of a broadcast.        *)
EXTENDS VMSInduction, VMSBroadcast, FiniteSetTheorems, TLAPS

-----------------------------------------------------------------------------
(* Types and control states.                                                *)

TC == TypeOK /\ Control

\* A pair of a group and a position below its number of servers is a server.
LEMMA ServerPair ==
  ASSUME NEW g \in Group, NEW p \in Nat, p < NumServers[g]
  PROVE  <<g, p>> \in Server
BY TableAssumption DEF TableAssumption, Server, Group

\* A server is such a pair.
LEMMA ServerIsPair ==
  ASSUME NEW s \in Server
  PROVE  /\ s = <<s[1], s[2]>>
         /\ s[1] \in Group
         /\ s[2] \in 0 .. NumServers[s[1]] - 1
BY TableAssumption DEF TableAssumption, Server, Group

\* A job has a length.
LEMMA JobLength ==
  ASSUME NEW k \in 1 .. Len(Jobs)
  PROVE  Jobs[k].len \in Nat /\ Jobs[k].len > 0 /\ Jobs[k].group \in Int
<1>1. Jobs[k] \in Job
  BY JobsAssumption DEF JobsAssumption
<1> QED BY <1>1 DEF Job

LEMMA InitTC == Init => TC
<1> SUFFICES ASSUME Init PROVE TC
  OBVIOUS
<1> USE DEF Init, NoFd
<1>1. TypeOK
  <2>1. /\ net \in [Server -> NetStates]
        /\ wire \in [Server -> Seq(Chunk)]
    BY DEF NetStates
  <2>2. job \in 1 .. Len(Jobs) + 1
    BY JobsAssumption DEF JobsAssumption
  <2>3. mgr \in MgrStates /\ main \in MainStates
    BY DEF MgrStates, MainStates
  <2>4. i \in 0 .. NumGroups /\ files \in 0 .. NumFiles
    BY TableAssumption, DescriptorAssumption DEF TableAssumption, DescriptorAssumption
  <2> QED BY <2>1, <2>2, <2>3, <2>4 DEF TypeOK
<1>2. Control
  BY TableAssumption DEF TableAssumption, Group, Control, AtServer, InSender
<1> QED BY <1>1, <1>2 DEF TC

\* A step of the manager keeps the types.
LEMMA MgrTypes == TypeOK /\ Control /\ MgrNext => TypeOK'
<1> SUFFICES ASSUME TypeOK, Control, MgrNext PROVE TypeOK'
  OBVIOUS
<1> USE DEF shared, kernel, mainVars, jobVars, TypeOK, MessageLen
<1>a. ASSUME NextServer
      PROVE  /\ mgr' \in MgrStates /\ i' = i /\ j' \in Nat
             /\ local_socket_handle' = NoFd /\ new_sock' = NoFd
  BY <1>a DEF NextServer, MgrStates
<1>b. ASSUME NEW f, Close(f)
      PROVE  /\ fdTable' \in [Fd -> Server \cup {Free, File}]
             /\ net' \in [Server -> NetStates]
             /\ unread' \in [Server -> BOOLEAN]
  BY <1>b DEF Close, NetStates
<1>1. CASE MgrScan
  <2>1. mgr' \in MgrStates /\ i' \in 0 .. NumGroups /\ j' \in Nat
    BY <1>1, TableAssumption DEF TableAssumption, MgrScan, MgrStates
  <2> QED BY <1>1, <2>1 DEF MgrScan
<1>2. CASE MgrSleep
  BY <1>2 DEF MgrSleep, MgrStates
<1>3. CASE MgrRead
  BY <1>3 DEF MgrRead, MgrStates, Control, AtServer
<1>4. CASE MgrCheck
  BY <1>4, <1>a DEF MgrCheck, MgrStates
<1>5. CASE MgrClose
  BY <1>5, <1>b DEF MgrClose, MgrStates
<1>6. CASE MgrInvalidate
  BY <1>6 DEF MgrInvalidate, MgrStates
<1>7. CASE MgrAttempt
  <2>1. Here \in Server
    BY <1>7 DEF MgrAttempt, Control, AtServer
  <2>2. /\ mgr' \in MgrStates /\ i' = i /\ j' \in Nat
        /\ local_socket_handle' \in Fd \cup {NoFd}
        /\ new_sock' \in Fd \cup {NoFd}
    BY <1>7, <1>a DEF MgrAttempt, MgrStates
  <2>3. fdTable' \in [Fd -> Server \cup {Free, File}]
    BY <1>7, <2>1 DEF MgrAttempt
  <2> QED BY <1>7, <2>2, <2>3 DEF MgrAttempt
<1>8. CASE MgrConnectOk
  <2>1. net' \in [Server -> NetStates] /\ mgr' \in MgrStates
    BY <1>8 DEF MgrConnectOk, NetStates, MgrStates
  <2>2. wire' = [wire EXCEPT ![Here] = << >>]
    BY <1>8 DEF MgrConnectOk
  <2>3. << >> \in Seq(Chunk)
    OBVIOUS
  <2>4. wire' \in [Server -> Seq(Chunk)]
    BY <2>2, <2>3
  <2> QED BY <1>8, <2>1, <2>4 DEF MgrConnectOk
<1>9. CASE MgrConnectFail
  BY <1>9, <1>a, <1>b DEF MgrConnectFail
<1>10. CASE MgrStore
  <2>1. /\ fdTable' \in [Fd -> Server \cup {Free, File}]
        /\ net' \in [Server -> NetStates]
        /\ unread' \in [Server -> BOOLEAN]
    BY <1>10, <1>b DEF MgrStore
  <2>2. socket_handle' \in [Server -> Fd \cup {NoFd}]
    BY <1>10 DEF MgrStore
  <2>3. NextServer
    BY <1>10 DEF MgrStore
  <2> QED BY <1>10, <2>1, <2>2, <2>3, <1>a DEF MgrStore
<1> QED BY <1>1, <1>2, <1>3, <1>4, <1>5, <1>6, <1>7, <1>8, <1>9, <1>10 DEF MgrNext

\* A step of the manager keeps what Control says.
LEMMA MgrControl == TypeOK /\ Control /\ MgrNext => Control'
<1> SUFFICES ASSUME TypeOK, Control, MgrNext PROVE Control'
  OBVIOUS
<1> USE DEF shared, kernel, mainVars, jobVars, TypeOK, Control, AtServer, InSender, Here,
            Target, IsFirstWithId
<1>1. CASE MgrScan
  <2>1. (mgr \in {"absent", "scan", "sleep"} /\ i < NumGroups => j <= NumServers[i])'
    BY <1>1, TableAssumption DEF TableAssumption, MgrScan, Group
  <2>2. mgr' \in AtServer => Here' \in Server
    <3> SUFFICES ASSUME mgr' \in AtServer PROVE Here' \in Server
      OBVIOUS
    <3>1. /\ i < NumGroups /\ j < NumServers[i]
          /\ i' = i /\ j' = j
      BY <1>1 DEF MgrScan
    <3>2. i \in Group /\ j \in Nat
      BY <3>1, TableAssumption DEF TableAssumption, Group
    <3> QED BY <3>1, <3>2, ServerPair
  <2> QED BY <1>1, <2>1, <2>2 DEF MgrScan
<1>2. CASE MgrSleep
  BY <1>2 DEF MgrSleep
<1>3. CASE MgrRead
  BY <1>3 DEF MgrRead
<1>a. ASSUME NextServer, mgr \in AtServer
      PROVE  /\ mgr' = "scan" /\ i' = i
             /\ i < NumGroups => j' <= NumServers[i]
  <2>1. /\ Here[1] \in Group 
        /\ Here[2] \in 0 .. NumServers[Here[1]] - 1
    BY <1>a, ServerIsPair
  <2>2. j <= NumServers[i] - 1
    BY <2>1
  <2> QED BY <1>a, <2>1, <2>2, TableAssumption DEF TableAssumption, NextServer
<1>4. CASE MgrCheck
  BY <1>4, <1>a DEF MgrCheck
<1>5. CASE MgrClose
  BY <1>5 DEF MgrClose
<1>6. CASE MgrInvalidate
  BY <1>6 DEF MgrInvalidate
<1>7. CASE MgrAttempt
  <2>1. mgr' = "connect" => new_sock' # NoFd
    BY <1>7, <1>a, DescriptorAssumption DEF MgrAttempt, DescriptorAssumption, Fd, NoFd
  <2>2. \/ mgr' = "connect" /\ i' = i /\ j' = j
        \/ mgr' = "scan" /\ NextServer
    BY <1>7 DEF MgrAttempt, NextServer
  <2> QED BY <1>7, <2>1, <2>2, <1>a DEF MgrAttempt
<1>8. CASE MgrConnectOk
  BY <1>8 DEF MgrConnectOk
<1>9. CASE MgrConnectFail
  BY <1>9, <1>a DEF MgrConnectFail
<1>10. CASE MgrStore
  BY <1>10, <1>a DEF MgrStore
<1> QED BY <1>1, <1>2, <1>3, <1>4, <1>5, <1>6, <1>7, <1>8, <1>9, <1>10 DEF MgrNext

\* What Taken makes of a stream: its last chunk grows, or a chunk is added.
LEMMA TakenGrows ==
  ASSUME NEW chunks \in Seq(Chunk), NEW n \in Nat, job \in 1 .. Len(Jobs),
         total_bytes_sent \in Nat, chunks # << >>,
         chunks[Len(chunks)].job = job, chunks[Len(chunks)].to = total_bytes_sent
  PROVE  /\ Taken(chunks, n) \in Seq(Chunk)
         /\ Len(Taken(chunks, n)) = Len(chunks)
         /\ \A k \in 1 .. Len(chunks) - 1 : Taken(chunks, n)[k] = chunks[k]
         /\ Taken(chunks, n)[Len(chunks)] =
              [job  |-> job, from |-> chunks[Len(chunks)].from,
               to   |-> total_bytes_sent + n]
<1> DEFINE last == chunks[Len(chunks)]
           t == [chunks EXCEPT ![Len(chunks)].to = @ + n]
<1>1. Taken(chunks, n) = t
  BY DEF Taken
<1>2. Len(chunks) \in 1 .. Len(chunks) /\ DOMAIN chunks = 1 .. Len(chunks)
  OBVIOUS
<1>3. last \in Chunk /\ last.job = job /\ last.to = total_bytes_sent
  BY <1>2
<1> HIDE DEF last
<1>4. /\ [last EXCEPT !.to = @ + n] = [job |-> job, from |-> last.from,
                                       to |-> total_bytes_sent + n]
      /\ [last EXCEPT !.to = @ + n] \in Chunk
  <2>1. last = [job |-> job, from |-> last.from, to |-> total_bytes_sent]
    BY <1>3 DEF Chunk
  <2>2. last.from \in Nat /\ total_bytes_sent + n \in Nat
    BY <1>3 DEF Chunk
  <2> DEFINE r == [job |-> job, from |-> last.from, to |-> total_bytes_sent + n]
  <2>3. [last EXCEPT !.to = @ + n] = r
    BY <2>1
  <2>4. r \in Chunk
    BY <2>2 DEF Chunk
  <2> QED BY <2>3, <2>4
<1>5. t \in Seq(Chunk) /\ Len(t) = Len(chunks)
  BY <1>2, <1>4 DEF last
<1>6. \A k \in 1 .. Len(chunks) - 1 : t[k] = chunks[k]
  BY <1>2
<1>7. t[Len(chunks)] = [last EXCEPT !.to = @ + n]
  BY <1>2 DEF last
<1> QED BY <1>1, <1>4, <1>5, <1>6, <1>7 DEF last

LEMMA TakenAdds ==
  ASSUME NEW chunks \in Seq(Chunk), NEW n \in Nat, job \in 1 .. Len(Jobs),
         total_bytes_sent \in Nat,
         chunks # << >> => \/ chunks[Len(chunks)].job # job
                           \/ chunks[Len(chunks)].to # total_bytes_sent
  PROVE  /\ Taken(chunks, n) \in Seq(Chunk)
         /\ Len(Taken(chunks, n)) = Len(chunks) + 1
         /\ \A k \in 1 .. Len(chunks) : Taken(chunks, n)[k] = chunks[k]
         /\ Taken(chunks, n)[Len(chunks) + 1] =
              [job  |-> job, from |-> total_bytes_sent,
               to   |-> total_bytes_sent + n]
<1> DEFINE new == [job  |-> job, from |-> total_bytes_sent, to |-> total_bytes_sent + n]
<1>1. Taken(chunks, n) = Append(chunks, new)
  BY DEF Taken
<1>2. new \in Chunk
  BY DEF Chunk
<1> HIDE DEF new
<1>3. Append(chunks, new) \in Seq(Chunk)
  BY <1>2
<1> QED BY <1>1, <1>2, <1>3 DEF new

\* A step of the main thread keeps the types.
LEMMA MainTypes == TypeOK /\ Control /\ MainNext => TypeOK'
<1> SUFFICES ASSUME TypeOK, Control, MainNext PROVE TypeOK'
  OBVIOUS
<1> USE DEF shared, kernel, mgrVars, jobVars, TypeOK, MessageLen
<1>b. ASSUME NEW f, Close(f)
      PROVE  /\ fdTable' \in [Fd -> Server \cup {Free, File}]
             /\ net' \in [Server -> NetStates]
             /\ unread' \in [Server -> BOOLEAN]
  BY <1>b DEF Close, NetStates
<1>0. Len(Jobs) \in Nat
  BY JobsAssumption DEF JobsAssumption
<1>1. CASE MainCreate
  BY <1>1 DEF MainCreate, MgrStates, MainStates
<1>2. CASE MainWake
  BY <1>2 DEF MainWake, MainStates
<1>3. CASE FileOpen
  <2>1. /\ fdTable' \in [Fd -> Server \cup {Free, File}]
        /\ file_fd' \in Fd \cup {NoFd}
    BY <1>3 DEF FileOpen
  <2>2. /\ files' \in 0 .. NumFiles
        /\ job' \in 1 .. Len(Jobs) + 1
        /\ main' \in MainStates /\ main' # "send"
    BY <1>3, <1>0, DescriptorAssumption DEF DescriptorAssumption, FileOpen, MainStates
  <2> QED BY <1>3, <2>1, <2>2 DEF FileOpen
<1>4. CASE FileClose
  BY <1>4, <1>b DEF FileClose, MainStates
<1>5. CASE MainParse
  BY <1>5, <1>0 DEF MainParse, MainStates
<1>6. CASE MainNextJob
  BY <1>6, <1>0 DEF MainNextJob, MainStates
<1>7. CASE SendLock
  <2>1. main' \in MainStates /\ main' # "send"
    BY <1>7 DEF SendLock, MainStates
  <2>2. job' \in 1 .. Len(Jobs) + 1
    BY <1>7, <1>0 DEF SendLock, Control
  <2>3. group_to_send' \in Nat
    BY <1>7 DEF SendLock, Group
  <2>4. mutex' \in BOOLEAN
    BY <1>7 DEF SendLock
  <2> QED BY <1>7, <2>1, <2>2, <2>3, <2>4 DEF SendLock
<1>8. CASE SendPick
  <2>1. job \in 1 .. Len(Jobs) /\ total_bytes_sent = 0
    BY <1>8, <1>0 DEF SendPick, Control, InSender
  <2>2. /\ main' \in MainStates
        /\ job' \in 1 .. Len(Jobs) + 1
        /\ group_to_send' \in Nat /\ pos' \in Nat
    BY <1>8, <1>0, <2>1 DEF SendPick, MainStates
  <2>3. current_socket_handle' \in Fd \cup {NoFd}
    <3>1. CASE current_socket_handle' = socket_handle[Target] /\ pos < NumServers[group_to_send]
      <4>1. Target \in Server
        BY <1>8, <3>1, ServerPair DEF SendPick, Control, InSender, Target
      <4> QED BY <3>1, <4>1
    <3>2. CASE UNCHANGED current_socket_handle
      BY <3>2
    <3> QED BY <1>8, <3>1, <3>2 DEF SendPick
  <2>4. mutex' \in BOOLEAN
    BY <1>8 DEF SendPick
  <2>5. main' = "send" => job' = job
    BY <1>8 DEF SendPick
  <2>6. total_bytes_sent < MessageLen
    BY <2>1, JobLength
  <2> QED BY <1>8, <2>1, <2>2, <2>3, <2>4, <2>5, <2>6 DEF SendPick
<1>c. ASSUME SentServer
      PROVE  /\ main' = "pick" /\ pos' \in Nat
             /\ current_socket_handle' = NoFd /\ total_bytes_sent' = 0
  BY <1>c DEF SentServer
<1>9. CASE SendSome
  <2>1. PICK n \in 1 .. BytesLeft :
          /\ wire' = [wire EXCEPT ![fdTable[current_socket_handle]] = Taken(@, n)]
          /\ IF total_bytes_sent + n = MessageLen
               THEN SentServer
               ELSE /\ total_bytes_sent' = total_bytes_sent + n
                    /\ UNCHANGED <<main, pos, current_socket_handle>>
    BY <1>9 DEF SendSome
  <2>2. job \in 1 .. Len(Jobs)
    BY <1>9 DEF SendSome, Control, InSender
  <2>3. \A chunks \in Seq(Chunk) : Taken(chunks, n) \in Seq(Chunk)
    <3> SUFFICES ASSUME NEW chunks \in Seq(Chunk)
                 PROVE  Taken(chunks, n) \in Seq(Chunk)
      OBVIOUS
    <3>1. n \in Nat
      BY <2>2, JobLength DEF BytesLeft
    <3>2. CASE /\ chunks # << >> /\ chunks[Len(chunks)].job = job
               /\ chunks[Len(chunks)].to = total_bytes_sent
      BY <2>2, <3>1, <3>2, TakenGrows
    <3>3. CASE ~(/\ chunks # << >> /\ chunks[Len(chunks)].job = job
                 /\ chunks[Len(chunks)].to = total_bytes_sent)
      BY <2>2, <3>1, <3>3, TakenAdds
    <3> QED BY <3>2, <3>3
  <2>4. wire' \in [Server -> Seq(Chunk)]
    BY <2>1, <2>3
  <2>5. /\ main' \in MainStates /\ pos' \in Nat
        /\ current_socket_handle' \in Fd \cup {NoFd} /\ total_bytes_sent' \in Nat
        /\ main' = "send" => total_bytes_sent' < MessageLen
    BY <2>1, <2>2, <1>c, JobLength DEF BytesLeft, MainStates
  <2> QED BY <1>9, <2>4, <2>5 DEF SendSome
<1>10. CASE SendFail
  <2>1. socket_handle' \in [Server -> Fd \cup {NoFd}]
    BY <1>10 DEF SendFail
  <2>2. SentServer
    BY <1>10 DEF SendFail
  <2>3. /\ fdTable' \in [Fd -> Server \cup {Free, File}]
        /\ net' \in [Server -> NetStates]
        /\ unread' \in [Server -> BOOLEAN]
    BY <1>10, <1>b DEF SendFail
  <2> QED BY <1>10, <1>c, <2>1, <2>2, <2>3 DEF SendFail, MainStates
<1>11. CASE MainStop
  BY <1>11 DEF MainStop, MainStates
<1>12. CASE MainJoin
  BY <1>12 DEF MainJoin, MainStates
<1>13. CASE MainCleanup
  BY <1>13 DEF MainCleanup, MainStates, NetStates
<1> QED BY <1>1, <1>2, <1>3, <1>4, <1>5, <1>6, <1>7, <1>8, <1>9, <1>10, <1>11, <1>12,
           <1>13 DEF MainNext

\* A step of the main thread keeps what Control says.
LEMMA MainControl == TypeOK /\ Control /\ MainNext => Control'
<1> SUFFICES ASSUME TypeOK, Control, MainNext PROVE Control'
  OBVIOUS
<1> USE DEF shared, kernel, mgrVars, jobVars, TypeOK, Control, AtServer, InSender, Here,
            Target, IsFirstWithId
<1>1. CASE MainCreate
  BY <1>1 DEF MainCreate
<1>2. CASE MainWake
  BY <1>2 DEF MainWake
<1>3. CASE FileOpen
  BY <1>3 DEF FileOpen
<1>4. CASE FileClose
  BY <1>4 DEF FileClose
<1>5. CASE MainParse
  BY <1>5 DEF MainParse
<1>6. CASE MainNextJob
  BY <1>6 DEF MainNextJob
<1>7. CASE SendLock
  BY <1>7, TableAssumption DEF SendLock, TableAssumption
<1>8. CASE SendPick
  <2>1. CASE /\ pos < NumServers[group_to_send]
             /\ current_socket_handle' = socket_handle[Target]
             /\ main' = "send"
             /\ UNCHANGED <<mutex, job, group_to_send, pos>>
    <3>1. Target \in Server
      BY <1>8, <2>1, ServerPair DEF SendPick
    <3> QED BY <1>8, <2>1, <3>1 DEF SendPick
  <2>2. CASE /\ pos < NumServers[group_to_send]
             /\ pos' = pos + 1
             /\ UNCHANGED <<mutex, main, job, group_to_send>>
    <3>1. pos + 1 <= NumServers[group_to_send]
      BY <1>8, <2>2, TableAssumption DEF TableAssumption, SendPick
    <3> QED BY <1>8, <2>2, <3>1 DEF SendPick
  <2>3. CASE mutex' = FALSE /\ main' = "next" /\ pos' = 0
    BY <1>8, <2>3 DEF SendPick
  <2> QED BY <1>8, <2>1, <2>2, <2>3 DEF SendPick
<1>a. ASSUME SentServer, main = "send"
      PROVE  /\ main' = "pick" /\ pos' <= NumServers[group_to_send]
             /\ total_bytes_sent' = 0
  <2>1. Target[1] \in Group /\ Target[2] \in 0 .. NumServers[Target[1]] - 1
    BY <1>a, ServerIsPair
  <2>2. pos <= NumServers[group_to_send] - 1
    BY <2>1
  <2> QED BY <1>a, <2>1, <2>2, TableAssumption DEF TableAssumption, SentServer
<1>9. CASE SendSome
  <2>1. \/ SentServer
        \/ UNCHANGED <<main, pos>>
    BY <1>9 DEF SendSome
  <2> QED BY <1>9, <1>a, <2>1 DEF SendSome
<1>10. CASE SendFail
  BY <1>10, <1>a DEF SendFail
<1>11. CASE MainStop
  BY <1>11 DEF MainStop
<1>12. CASE MainJoin
  BY <1>12 DEF MainJoin
<1>13. CASE MainCleanup
  BY <1>13 DEF MainCleanup
<1> QED BY <1>1, <1>2, <1>3, <1>4, <1>5, <1>6, <1>7, <1>8, <1>9, <1>10, <1>11, <1>12,
           <1>13 DEF MainNext

\* The signs and the network touch neither thread's own state.
LEMMA EnvTC == TypeOK /\ Control /\ EnvNext => TypeOK' /\ Control'
<1> SUFFICES ASSUME TypeOK, Control, NEW s \in Server,
                    PeerUp(s) \/ PeerDown(s) \/ PeerClose(s) \/ PeerReply(s)
             PROVE  TypeOK' /\ Control'
  BY DEF EnvNext
<1>1. /\ UNCHANGED <<shared, fdTable, wire, mgrVars, mainVars>>
      /\ up' \in [Server -> BOOLEAN]
      /\ net' \in [Server -> NetStates]
      /\ unread' \in [Server -> BOOLEAN]
  BY DEF PeerUp, PeerDown, PeerClose, PeerReply, TypeOK, NetStates
<1>2. TypeOK'
  BY <1>1 DEF TypeOK, shared, mgrVars, mainVars, jobVars, MessageLen
<1>3. Control'
  BY <1>1 DEF Control, shared, mgrVars, mainVars, jobVars, Here, Target
<1> QED BY <1>2, <1>3

\* Every step keeps types and Control.
LEMMA NextTC == TC /\ [Next]_vars => TC'
<1> SUFFICES ASSUME TypeOK, Control, [Next]_vars PROVE TC'
  BY DEF TC
<1>1. CASE MgrNext
  BY <1>1, MgrTypes, MgrControl DEF TC
<1>2. CASE MainNext
  BY <1>2, MainTypes, MainControl DEF TC
<1>3. CASE EnvNext
  BY <1>3, EnvTC DEF TC
<1>4. CASE UNCHANGED vars
  <2>1. TypeOK'
    BY <1>4 DEF vars, shared, kernel, mgrVars, mainVars, jobVars, TypeOK, MessageLen
  <2>2. Control'
    BY <1>4 DEF vars, shared, kernel, mgrVars, mainVars, jobVars, Control, Here, Target
  <2> QED BY <2>1, <2>2 DEF TC
<1> QED BY <1>1, <1>2, <1>3, <1>4 DEF Next

\* The threads never index the table out of range, nor the sender its packet.
THEOREM TypesAndControl == Spec => []TC
BY InitTC, NextTC, PTL DEF Spec

\* Type correctness of the program of VMSConnections, for every server table,
\* list of packets and range of descriptors.
THEOREM TypeCorrect == Spec => []TypeOK
<1>1. TC => TypeOK
  BY DEF TC
<1> QED BY <1>1, TypesAndControl, PTL

-----------------------------------------------------------------------------
(* Who owns which descriptor.                                               *)

\* What is on a descriptor is told apart, and -1 is no descriptor.
LEMMA Distinct ==
  /\ NoFd \notin Fd
  /\ Free # File
  /\ Free \notin Server
  /\ File \notin Server
BY DescriptorAssumption DEF DescriptorAssumption, NoFd, Fd

LEMMA InitOwnership == Init => Ownership
BY Distinct DEF Init, Ownership, HandlesOpen, NoDescriptorLeak, RetryOnlyWhenInvalid, FilesHeld,
  CopyOwned, NewOwned, SenderCopy, NothingOpenAtExit

LEMMA MgrOwnership == TC /\ Ownership /\ MgrNext => Ownership'
<1> SUFFICES ASSUME TypeOK, Control, Ownership, MgrNext PROVE Ownership'
  BY DEF TC
<1> USE Distinct DEF Ownership, HandlesOpen, NoDescriptorLeak, RetryOnlyWhenInvalid, FilesHeld,
        CopyOwned, NewOwned, SenderCopy, NothingOpenAtExit, Stale, Here, Target,
        shared, kernel, mainVars, jobVars, AtServer, InSender, BeforeSending, TypeOK, Control
<1>1. CASE MgrScan
  BY <1>1 DEF MgrScan
<1>2. CASE MgrSleep
  BY <1>2 DEF MgrSleep
<1>3. CASE MgrRead
  BY <1>3 DEF MgrRead
<1>4. CASE MgrCheck
  BY <1>4 DEF MgrCheck, NextServer
<1>5. CASE MgrClose
  BY <1>5 DEF MgrClose, Close
<1>6. CASE MgrInvalidate
  <2>1. /\ Here \in Server /\ Here' = Here
        /\ socket_handle' = [socket_handle EXCEPT ![Here] = NoFd]
    BY <1>6 DEF MgrInvalidate
  <2>2. \A f \in Fd : fdTable[f] # Here
    <3> SUFFICES ASSUME NEW f \in Fd, fdTable[f] = Here PROVE FALSE
      OBVIOUS
    <3>0. fdTable[f] \in Server /\ mgr = "invalidate"
      BY <1>6, <2>1 DEF MgrInvalidate
    <3>1. socket_handle[Here] = f
      BY <3>0
    <3>2. fdTable[local_socket_handle] \in {Free, File} /\ f = local_socket_handle
      BY <1>6, <3>1 DEF MgrInvalidate
    <3> QED BY <2>1, <3>2
  <2>3. HandlesOpen'
    BY <1>6, <2>1 DEF MgrInvalidate
  <2>4. NoDescriptorLeak' /\ RetryOnlyWhenInvalid'
    BY <1>6, <2>1, <2>2 DEF MgrInvalidate
  <2>5. SenderCopy'
    BY <1>6 DEF MgrInvalidate
  <2>6. FilesHeld' /\ CopyOwned' /\ NewOwned' /\ NothingOpenAtExit'
    BY <1>6 DEF MgrInvalidate
  <2> QED BY <2>3, <2>4, <2>5, <2>6
<1>7. CASE MgrAttempt
  <2>1. CASE NextServer /\ UNCHANGED fdTable
    BY <1>7, <2>1 DEF MgrAttempt, NextServer
  <2>2. CASE \E f \in Fd : /\ IsLowestFree(f)
                           /\ fdTable' = [fdTable EXCEPT ![f] = Here]
                           /\ new_sock' = f
                           /\ mgr' = "connect"
                           /\ UNCHANGED <<i, j, local_socket_handle>>
    <3>1. PICK f \in Fd : /\ fdTable[f] = Free
                          /\ fdTable' = [fdTable EXCEPT ![f] = Here]
                          /\ new_sock' = f
                          /\ mgr' = "connect"
                          /\ UNCHANGED <<i, j, local_socket_handle>>
      BY <2>2 DEF IsLowestFree
    <3>2. Here \in Server /\ Here' = Here
      BY <1>7, <3>1 DEF MgrAttempt
    <3>3. UNCHANGED <<shared, up, net, unread, wire, mainVars>>
      BY <1>7 DEF MgrAttempt
    <3>4. HandlesOpen'
      BY <1>7, <3>1, <3>2, <3>3 DEF MgrAttempt
    <3>5. NoDescriptorLeak' /\ RetryOnlyWhenInvalid'
      BY <1>7, <3>1, <3>2, <3>3 DEF MgrAttempt
    <3>6. FilesHeld'
      <4>1. \A g \in Fd : fdTable'[g] = File => fdTable[g] = File
        BY <3>1, <3>2
      <4>2. main = "reading" => file_fd # f
        BY <3>1
      <4> QED BY <3>1, <3>3, <4>1, <4>2
    <3>8. NewOwned'
      BY <3>1, <3>2
    <3>7. CopyOwned' /\ SenderCopy' /\ NothingOpenAtExit'
      BY <1>7, <3>1, <3>2, <3>3 DEF MgrAttempt
    <3> QED BY <3>4, <3>5, <3>6, <3>7, <3>8
  <2> QED BY <1>7, <2>1, <2>2 DEF MgrAttempt
<1>8. CASE MgrConnectOk
  BY <1>8 DEF MgrConnectOk
<1>9. CASE MgrConnectFail
  BY <1>9 DEF MgrConnectFail, Close, NextServer
<1>10. CASE MgrStore
  <2>1. /\ Here \in Server
        /\ fdTable' = fdTable
        /\ socket_handle' = [socket_handle EXCEPT ![Here] = new_sock]
        /\ mgr' = "scan"
        /\ UNCHANGED mainVars
    BY <1>10 DEF MgrStore, NextServer
  <2>2. HandlesOpen'
    BY <1>10, <2>1 DEF MgrStore
  <2>3. NoDescriptorLeak'
    <3> SUFFICES ASSUME NEW f \in Fd, fdTable[f] \in Server
                 PROVE  socket_handle'[fdTable[f]] = f
      BY <2>1
    <3>1. CASE fdTable[f] = Here
      <4>1. socket_handle[Here] = NoFd
        BY <1>10 DEF MgrStore
      <4> QED BY <2>1, <3>1, <4>1
    <3>2. CASE fdTable[f] # Here
      BY <2>1, <3>2
    <3> QED BY <3>1, <3>2
  <2>4. SenderCopy'
    BY <1>10, <2>1 DEF MgrStore
  <2>5. RetryOnlyWhenInvalid' /\ FilesHeld' /\ CopyOwned' /\ NewOwned' /\ NothingOpenAtExit'
    BY <1>10, <2>1 DEF MgrStore
  <2> QED BY <2>2, <2>3, <2>4, <2>5
<1> QED BY <1>1, <1>2, <1>3, <1>4, <1>5, <1>6, <1>7, <1>8, <1>9, <1>10 DEF MgrNext

LEMMA MainOwnership == TC /\ Ownership /\ MainNext => Ownership'
<1> SUFFICES ASSUME TypeOK, Control, Ownership, MainNext PROVE Ownership'
  BY DEF TC
<1> USE Distinct DEF Ownership, HandlesOpen, NoDescriptorLeak, RetryOnlyWhenInvalid, FilesHeld,
        CopyOwned, NewOwned, SenderCopy, NothingOpenAtExit, Stale, Here, Target,
        shared, kernel, mgrVars, jobVars, AtServer, InSender, BeforeSending, TypeOK, Control
<1>1. CASE MainCreate
  BY <1>1 DEF MainCreate
<1>2. CASE MainWake
  BY <1>2 DEF MainWake
<1>3. CASE FileOpen
  <2>0. main = "files" /\ UNCHANGED <<shared, mgrVars>>
    BY <1>3 DEF FileOpen
  <2>1. CASE UNCHANGED <<fdTable, file_fd, main>>
    BY <2>0, <2>1
  <2>2. CASE \E f \in Fd : /\ IsLowestFree(f)
                           /\ fdTable' = [fdTable EXCEPT ![f] = File]
                           /\ file_fd' = f /\ main' = "reading"
    <3>1. PICK f \in Fd : /\ fdTable[f] = Free
                          /\ fdTable' = [fdTable EXCEPT ![f] = File]
                          /\ file_fd' = f /\ main' = "reading"
      BY <2>2 DEF IsLowestFree
    <3>2. HandlesOpen'
      BY <2>0, <3>1
    <3>3. NoDescriptorLeak' /\ RetryOnlyWhenInvalid'
      BY <2>0, <3>1
    <3>4. FilesHeld'
      BY <2>0, <3>1
    <3>5. CopyOwned' /\ NewOwned'
      BY <2>0, <3>1
    <3>6. SenderCopy' /\ NothingOpenAtExit'
      BY <2>0, <3>1
    <3> QED BY <3>2, <3>3, <3>4, <3>5, <3>6
  <2> QED BY <1>3, <2>1, <2>2 DEF FileOpen
<1>4. CASE FileClose
  <2>1. /\ main = "reading" /\ main' = "files" /\ UNCHANGED <<shared, mgrVars>>
        /\ fdTable' = [fdTable EXCEPT ![file_fd] = Free]
        /\ file_fd \in Fd /\ fdTable[file_fd] = File
    BY <1>4 DEF FileClose, Close
  <2>2. HandlesOpen'
    BY <2>1
  <2>3. NoDescriptorLeak' /\ RetryOnlyWhenInvalid'
    BY <2>1
  <2>4. FilesHeld'
    BY <2>1
  <2>5. CopyOwned'
    <3>1. mgr \in {"check", "close"} => socket_handle[Here] = local_socket_handle
      BY <2>1
    <3>2. mgr = "invalidate" => fdTable'[local_socket_handle] \in {Free, File}
      BY <2>1
    <3> QED BY <2>1, <3>1, <3>2
  <2>6. NewOwned' /\ SenderCopy' /\ NothingOpenAtExit'
    BY <2>1
  <2> QED BY <2>2, <2>3, <2>4, <2>5, <2>6
<1>5. CASE MainParse
  BY <1>5 DEF MainParse
<1>6. CASE MainNextJob
  BY <1>6 DEF MainNextJob
<1>7. CASE SendLock
  BY <1>7 DEF SendLock
<1>8. CASE SendPick
  BY <1>8 DEF SendPick
<1>9. CASE SendSome
  BY <1>9 DEF SendSome, SentServer
<1>10. CASE SendFail
  <2>1. /\ main = "send" /\ main' = "pick" /\ UNCHANGED mgrVars
        /\ Target \in Server /\ current_socket_handle \in Fd
        /\ socket_handle[Target] = current_socket_handle
        /\ fdTable' = [fdTable EXCEPT ![current_socket_handle] = Free]
        /\ socket_handle' = [socket_handle EXCEPT ![Target] = NoFd]
    BY <1>10 DEF SendFail, SentServer, Close
  <2>2. fdTable[current_socket_handle] \in {Free, Target}
    <3>1. CASE Stale(Target)
      BY <2>1, <3>1
    <3>2. CASE ~Stale(Target)
      BY <2>1, <3>2
    <3> QED BY <3>1, <3>2
  <2>3. HandlesOpen'
    BY <2>1, <2>2
  <2>4. NoDescriptorLeak'
    BY <2>1, <2>2
  <2>5. RetryOnlyWhenInvalid'
    BY <2>1
  <2>6. FilesHeld'
    BY <2>1
  <2>7. CopyOwned'
    BY <2>1, <2>2
  <2>8. NewOwned'
    BY <2>1, <2>2
  <2>9. SenderCopy' /\ NothingOpenAtExit'
    BY <2>1
  <2> QED BY <2>3, <2>4, <2>5, <2>6, <2>7, <2>8, <2>9
<1>11. CASE MainStop
  BY <1>11 DEF MainStop
<1>12. CASE MainJoin
  BY <1>12 DEF MainJoin
<1>13. CASE MainCleanup
  BY <1>13 DEF MainCleanup
<1> QED BY <1>1, <1>2, <1>3, <1>4, <1>5, <1>6, <1>7, <1>8, <1>9, <1>10, <1>11, <1>12,
           <1>13 DEF MainNext

LEMMA EnvOwnership == TC /\ Ownership /\ EnvNext => Ownership'
<1> SUFFICES ASSUME Ownership, NEW s \in Server,
                    PeerUp(s) \/ PeerDown(s) \/ PeerClose(s) \/ PeerReply(s)
             PROVE  Ownership'
  BY DEF EnvNext
<1>1. UNCHANGED <<shared, fdTable, mgrVars, mainVars>>
  BY DEF PeerUp, PeerDown, PeerClose, PeerReply
<1> QED BY <1>1 DEF shared, mgrVars, mainVars, jobVars, Ownership, HandlesOpen,
  NoDescriptorLeak, RetryOnlyWhenInvalid, FilesHeld, CopyOwned, NewOwned, SenderCopy,
  NothingOpenAtExit, Stale, Here, Target

LEMMA NextOwnership == TC /\ Ownership /\ [Next]_vars => Ownership'
<1> SUFFICES ASSUME TC, Ownership, [Next]_vars PROVE Ownership'
  OBVIOUS
<1>1. CASE UNCHANGED vars
  BY <1>1 DEF vars, shared, kernel, mgrVars, mainVars, jobVars, Ownership, HandlesOpen,
    NoDescriptorLeak, RetryOnlyWhenInvalid, FilesHeld, CopyOwned, NewOwned, SenderCopy,
    NothingOpenAtExit, Stale, Here, Target
<1> QED BY <1>1, MgrOwnership, MainOwnership, EnvOwnership DEF Next

LEMMA TypedOwnership == Spec => [](TC /\ Ownership)
<1>1. Init => TC /\ Ownership
  BY InitTC, InitOwnership
<1>2. TC /\ Ownership /\ [Next]_vars => (TC /\ Ownership)'
  BY NextTC, NextOwnership
<1> QED BY <1>1, <1>2, PTL DEF Spec

\* Every handle in the table is the server's own open connection, but for the
\* moment in which the manager has closed it and not yet said so; even then no
\* other server's socket has its number.
THEOREM HandlesAreOwned == Spec => []HandleOwned
<1>1. TC /\ Ownership => HandleOwned
  BY DEF TC, Control, Ownership, HandlesOpen, CopyOwned, Stale, HandleOwned
<1> QED BY <1>1, TypedOwnership, PTL

\* The comment of VMSconnection_manager.c:285 is right: whenever a connection
\* is attempted the server's handle is already -1, so the close() of line 294
\* finds nothing to close.
THEOREM HandleInvalidAtRetry == Spec => []RetryOnlyWhenInvalid
<1>1. Ownership => RetryOnlyWhenInvalid
  BY DEF Ownership
<1> QED BY <1>1, TypedOwnership, PTL

\* No socket is lost, however threads, signs and failures interleave.
THEOREM NothingLeaks == Spec => []NoDescriptorLeak
<1>1. Ownership => NoDescriptorLeak
  BY DEF Ownership
<1> QED BY <1>1, TypedOwnership, PTL

\* The close() the manager makes without the mutex, and every other use of a
\* descriptor, never hits what belongs to somebody else.
THEOREM DescriptorsAreOwn == Spec => []NobodyElsesDescriptor
<1>1. TC /\ Ownership => NobodyElsesDescriptor
  <2> SUFFICES ASSUME TC, Ownership PROVE NobodyElsesDescriptor
    OBVIOUS
  <2> USE DEF TC, Control, Ownership
  <2>1. mgr = "close" => fdTable[local_socket_handle] \in {Free, Here}
    BY DEF CopyOwned, HandlesOpen, Stale, AtServer
  <2>2. mgr \in {"connect", "store"} => fdTable[new_sock] = Here
    BY DEF NewOwned
  <2>3. main = "reading" => fdTable[file_fd] = File
    BY DEF FilesHeld
  <2>4. main = "send" => fdTable[current_socket_handle] \in {Free, Target}
    <3> SUFFICES ASSUME main = "send"
                 PROVE  fdTable[current_socket_handle] \in {Free, Target}
      OBVIOUS
    <3>1. /\ Target \in Server /\ current_socket_handle \in Fd
          /\ socket_handle[Target] = current_socket_handle
      BY DEF SenderCopy, TypeOK
    <3>2. CASE Stale(Target)
      <4>1. fdTable[current_socket_handle] \in {Free, File}
        BY <3>1, <3>2 DEF Stale, CopyOwned
      <4> QED BY <3>1, <4>1 DEF FilesHeld
    <3>3. CASE ~Stale(Target)
      BY <3>1, <3>3, Distinct DEF HandlesOpen
    <3> QED BY <3>2, <3>3
  <2> QED BY <2>1, <2>2, <2>3, <2>4 DEF NobodyElsesDescriptor
<1> QED BY <1>1, TypedOwnership, PTL

\* The table is torn down when the manager is gone and the mutex is free, and
\* the program ends with every descriptor closed.
THEOREM ShutdownIsClean == Spec => []CleanShutdown
<1>1. TC /\ Ownership => CleanShutdown
  BY DEF TC, Control, Ownership, InSender, NothingOpenAtExit, CleanShutdown
<1> QED BY <1>1, TypedOwnership, PTL

-----------------------------------------------------------------------------
(* How large a descriptor can get.                                          *)

\* The table has finitely many servers.
LEMMA ServersFinite == IsFiniteSet(Server) /\ Cardinality(Server) \in Nat
<1> DEFINE Row(g) == {<<g, p>> : p \in 0 .. NumServers[g] - 1}
           Rows == {Row(g) : g \in Group}
<1>1. ASSUME NEW g \in Group PROVE IsFiniteSet(Row(g))
  <2> DEFINE f == [p \in 0 .. NumServers[g] - 1 |-> <<g, p>>]
  <2>1. f \in Surjection(0 .. NumServers[g] - 1, Row(g))
    BY DEF Surjection
  <2>2. NumServers[g] \in Nat
    BY TableAssumption DEF TableAssumption
  <2>3. IsFiniteSet(0 .. NumServers[g] - 1)
    BY <2>2, FS_Interval
  <2> QED BY <2>1, <2>3, FS_Surjection
<1>2. IsFiniteSet(Rows)
  <2> DEFINE f == [g \in Group |-> Row(g)]
  <2> HIDE DEF Row
  <2>1. f \in Surjection(Group, Rows)
    BY DEF Surjection
  <2>2. IsFiniteSet(Group)
    BY TableAssumption, FS_Interval DEF TableAssumption, Group
  <2> QED BY <2>1, <2>2, FS_Surjection
<1>3. \A R \in Rows : IsFiniteSet(R)
  BY <1>1
<1>4. Server = UNION Rows
  BY DEF Server
<1>5. IsFiniteSet(Server)
  BY <1>2, <1>3, <1>4, FS_UNION
<1> QED BY <1>5, FS_CardinalityType

\* When a socket is made, the descriptors below it are taken by the sockets of
\* other servers, one each, and by at most one file.
LEMMA LowestIsSmall ==
  ASSUME TC, Ownership, mgr = "attempt", NEW f \in Fd, IsLowestFree(f)
  PROVE  f <= FirstFd + Cardinality(Server)
<1> DEFINE Below == FirstFd .. f - 1
           Others == Server \ {Here}
           Holders == Others \cup {File}
           held == [d \in Below |-> fdTable[d]]
<1>1. /\ FirstFd \in Nat /\ f \in Nat /\ f >= FirstFd
      /\ \A d \in Below : d \in Fd /\ d < f
  BY DescriptorAssumption DEF DescriptorAssumption, Fd
<1>2. /\ Here \in Server /\ socket_handle[Here] = NoFd
      /\ \A d \in Fd : fdTable[d] \in Server => socket_handle[fdTable[d]] = d
      /\ \A d \in Fd : fdTable[d] = File => file_fd = d
  BY DEF TC, Control, AtServer, Ownership, RetryOnlyWhenInvalid, NoDescriptorLeak, FilesHeld
<1>3. \A d \in Below : fdTable[d] \in Server \cup {File}
  BY <1>1, <1>2 DEF TC, TypeOK, IsLowestFree
<1>4. \A d \in Below : fdTable[d] # Here
  BY <1>1, <1>2, Distinct
<1>5. held \in [Below -> Holders]
  BY <1>3, <1>4
<1>6. \A d, e \in Below : held[d] = held[e] => d = e
  BY <1>1, <1>2, <1>3
<1>7. held \in Injection(Below, Holders)
  <2> HIDE DEF held, Below, Holders
  <2> QED BY <1>5, <1>6 DEF Injection, IsInjective
<1>8. /\ IsFiniteSet(Holders)
      /\ Cardinality(Holders) = Cardinality(Server)
  <2>1. IsFiniteSet(Others) /\ Cardinality(Others) = Cardinality(Server) - 1
    BY <1>2, ServersFinite, FS_RemoveElement
  <2>2. File \notin Others
    BY Distinct
  <2> HIDE DEF Others
  <2>3. /\ IsFiniteSet(Others \cup {File})
        /\ Cardinality(Others \cup {File}) = Cardinality(Others) + 1
    BY <2>1, <2>2, FS_AddElement
  <2> QED BY <2>1, <2>3, ServersFinite
<1>9. Cardinality(Below) <= Cardinality(Server)
  <2> HIDE DEF held, Below, Holders
  <2> QED BY <1>7, <1>8, FS_Injection
<1>10. Cardinality(Below) = f - FirstFd
  <2>1. FirstFd \in Int /\ f - 1 \in Int
    BY <1>1
  <2>2. Cardinality(Below) = IF FirstFd > f - 1 THEN 0 ELSE (f - 1) - FirstFd + 1
    BY <2>1, FS_Interval
  <2> HIDE DEF Below
  <2> QED BY <1>1, <2>2
<1> QED BY <1>1, <1>9, <1>10, ServersFinite

NewIsSmall == mgr \in {"connect", "store"} => new_sock <= FirstFd + Cardinality(Server)

LEMMA NextSmall ==
  TC /\ Ownership /\ SelectSafe /\ NewIsSmall /\ [Next]_vars => SelectSafe' /\ NewIsSmall'
<1> SUFFICES ASSUME TC, Ownership, SelectSafe, NewIsSmall, [Next]_vars
             PROVE  SelectSafe' /\ NewIsSmall'
  OBVIOUS
<1> USE DEF shared, kernel, mgrVars, mainVars, jobVars
<1>1. NoFd <= FirstFd + Cardinality(Server)
  BY ServersFinite, DescriptorAssumption DEF DescriptorAssumption, NoFd
<1>2. CASE MgrAttempt
  <2>1. UNCHANGED socket_handle /\ mgr = "attempt"
    BY <1>2 DEF MgrAttempt
  <2>2. mgr' = "connect" => \E f \in Fd : IsLowestFree(f) /\ new_sock' = f
    BY <1>2 DEF MgrAttempt, NextServer
  <2>3. mgr' # "store"
    BY <1>2 DEF MgrAttempt, NextServer
  <2> QED BY <2>1, <2>2, <2>3, LowestIsSmall DEF SelectSafe, NewIsSmall
<1>3. CASE MgrConnectOk
  BY <1>3 DEF MgrConnectOk, SelectSafe, NewIsSmall
<1>4. CASE MgrStore
  <2>1. /\ mgr = "store" /\ mgr' = "scan"
        /\ socket_handle' = [socket_handle EXCEPT ![Here] = new_sock]
    BY <1>4 DEF MgrStore, NextServer
  <2>2. \A s \in Server : socket_handle'[s] \in {socket_handle[s], new_sock}
    BY <2>1 DEF TC, TypeOK
  <2> QED BY <2>1, <2>2 DEF SelectSafe, NewIsSmall
<1>5. CASE MgrScan \/ MgrSleep \/ MgrRead \/ MgrCheck \/ MgrClose \/ MgrConnectFail
  <2>1. UNCHANGED socket_handle /\ mgr' \notin {"connect", "store"}
    BY <1>5 DEF MgrScan, MgrSleep, MgrRead, MgrCheck, MgrClose, MgrConnectFail, NextServer
  <2> QED BY <2>1 DEF SelectSafe, NewIsSmall
<1>6. CASE MgrInvalidate
  <2>1. /\ mgr' = "attempt"
        /\ \A s \in Server : socket_handle'[s] \in {socket_handle[s], NoFd}
    BY <1>6 DEF MgrInvalidate, TC, TypeOK
  <2> QED BY <1>1, <2>1 DEF SelectSafe, NewIsSmall
<1>7. CASE MainNext
  <2>1. UNCHANGED new_sock /\ (mgr' \in {"connect", "store"} => mgr' = mgr)
    BY <1>7 DEF MainNext, MainCreate, MainWake, FileOpen, FileClose, MainParse, MainNextJob,
                SendLock, SendPick, SendSome, SendFail, MainStop, MainJoin, MainCleanup
  <2>2. \A s \in Server : socket_handle'[s] \in {socket_handle[s], NoFd}
    BY <1>7 DEF MainNext, MainCreate, MainWake, FileOpen, FileClose, MainParse, MainNextJob,
                SendLock, SendPick, SendSome, SendFail, MainStop, MainJoin, MainCleanup, TC, TypeOK
  <2> QED BY <1>1, <2>1, <2>2 DEF SelectSafe, NewIsSmall
<1>8. CASE EnvNext \/ UNCHANGED vars
  <2>1. UNCHANGED <<socket_handle, new_sock, mgr>>
    BY <1>8 DEF EnvNext, PeerUp, PeerDown, PeerClose, PeerReply, vars
  <2> QED BY <2>1 DEF SelectSafe, NewIsSmall
<1> QED BY <1>2, <1>3, <1>4, <1>5, <1>6, <1>7, <1>8 DEF Next, MgrNext

\* However often signs come and go, descriptors stay below a bound that only
\* the number of servers sets.
THEOREM HandlesAreSmall == Spec => []SelectSafe
<1>1. Init => SelectSafe /\ NewIsSmall
  BY ServersFinite, DescriptorAssumption DEF DescriptorAssumption, Init, SelectSafe, NewIsSmall,
     NoFd
<1> QED BY <1>1, TypedOwnership, NextSmall, PTL DEF Spec

-----------------------------------------------------------------------------
(* What the signs receive.                                                  *)

AllInv == TC /\ Ownership /\ Streams

LEMMA InitStreams == Init => Streams
BY DEF Init, Streams, NewIsEmpty, NoEmptyChunk, OffsetInFlight, StreamsFramed,
  AddressedOnly, BroadcastComplete

\* The sender writes to nobody but the server whose turn it is.
LEMMA SendTarget ==
  ASSUME TC, Ownership, main = "send", SockState(current_socket_handle) # "none"
  PROVE  /\ Target \in Server
         /\ fdTable[current_socket_handle] = Target
         /\ socket_handle[Target] # NoFd
<1>1. /\ Target \in Server /\ current_socket_handle \in Fd
      /\ socket_handle[Target] = current_socket_handle
      /\ fdTable[current_socket_handle] \in Server
  BY DEF TC, Control, TypeOK, Ownership, SenderCopy, SockState
<1>2. ~Stale(Target)
  BY <1>1, Distinct DEF Stale, Ownership, CopyOwned
<1> QED BY <1>1, <1>2, Distinct DEF Ownership, HandlesOpen

\* The signs the sender has passed are servers of the table.
LEMMA Passed ==
  ASSUME TC, main \in InSender, NEW p \in 0 .. pos - 1
  PROVE  <<group_to_send, p>> \in Server
<1>1. /\ group_to_send \in Group /\ pos \in Nat /\ p \in Nat
      /\ NumServers[group_to_send] \in Nat /\ pos <= NumServers[group_to_send]
  BY TableAssumption DEF TableAssumption, TC, Control, TypeOK
<1> QED BY <1>1, ServerPair

\* A step that leaves alone the wires, the sender and the table's handles, but
\* may take handles out of it for good.
LEMMA QuietStreams ==
  ASSUME Streams, TC,
         UNCHANGED <<wire, main, job, group_to_send, pos, total_bytes_sent>>,
         \A s \in Server : socket_handle'[s] \in {socket_handle[s], NoFd},
         mgr' = "store" => wire[Here'] = << >>
  PROVE  Streams'
<1> USE DEF Streams
<1>1. NewIsEmpty' /\ NoEmptyChunk'
  BY DEF NewIsEmpty, NoEmptyChunk
<1>2. OffsetInFlight'
  BY DEF OffsetInFlight, InFlight, Target
<1>3. StreamsFramed'
  BY DEF StreamsFramed, InFlight, Target
<1>4. AddressedOnly'
  BY DEF AddressedOnly
<1>5. BroadcastComplete'
  <2> SUFFICES ASSUME main \in InSender, NEW p \in 0 .. pos - 1,
                      socket_handle'[<<group_to_send, p>>] # NoFd
               PROVE  LET s == <<group_to_send, p>> IN
                      /\ wire[s] # << >>
                      /\ wire[s][Len(wire[s])] =
                           [job |-> job, from |-> 0, to |-> MessageLen]
    BY DEF BroadcastComplete, InSender, MessageLen
  <2>1. socket_handle[<<group_to_send, p>>] # NoFd
    BY Passed
  <2> QED BY <2>1 DEF BroadcastComplete, InSender
<1> QED BY <1>1, <1>2, <1>3, <1>4, <1>5

\* The manager writes nothing; a connection it stores has carried nothing, and
\* is stored when nobody is sending.
LEMMA MgrStreams == AllInv /\ MgrNext => Streams'
<1> SUFFICES ASSUME TC, Ownership, Streams, MgrNext PROVE Streams'
  BY DEF AllInv
<1> USE DEF shared, kernel, mainVars, jobVars
<1>1. CASE MgrScan \/ MgrSleep \/ MgrRead \/ MgrCheck \/ MgrClose \/ MgrAttempt \/ MgrConnectFail
  <2>1. /\ UNCHANGED <<wire, main, job, group_to_send, pos, total_bytes_sent, socket_handle>>
        /\ mgr' # "store"
    BY <1>1 DEF MgrScan, MgrSleep, MgrRead, MgrCheck, MgrClose, MgrAttempt, MgrConnectFail,
                NextServer
  <2> QED BY <2>1, QuietStreams
<1>2. CASE MgrInvalidate
  <2>1. /\ UNCHANGED <<wire, main, job, group_to_send, pos, total_bytes_sent>>
        /\ \A s \in Server : socket_handle'[s] \in {socket_handle[s], NoFd}
        /\ mgr' # "store"
    BY <1>2 DEF MgrInvalidate, TC, TypeOK
  <2> QED BY <2>1, QuietStreams
<1>3. CASE MgrConnectOk
  <2>1. /\ Here \in Server /\ Here' = Here
        /\ socket_handle[Here] = NoFd
        /\ wire' = [wire EXCEPT ![Here] = << >>]
        /\ UNCHANGED <<shared, mainVars>>
    BY <1>3 DEF MgrConnectOk, TC, Control, AtServer, Ownership, RetryOnlyWhenInvalid, Here
  <2>2. \A s \in Server : wire'[s] = wire[s] \/ (wire'[s] = << >> /\ s = Here)
    BY <2>1 DEF TC, TypeOK
  <2>3. main = "send" => wire'[Target] = wire[Target] /\ Target \in Server
    BY <2>1, <2>2 DEF TC, Control, Ownership, SenderCopy
  <2>4. NewIsEmpty' /\ NoEmptyChunk'
    BY <2>1, <2>2 DEF NewIsEmpty, NoEmptyChunk, Streams, TC, TypeOK
  <2>5. OffsetInFlight'
    BY <2>1, <2>3 DEF OffsetInFlight, InFlight, Target, Streams
  <2>6. StreamsFramed'
    BY <2>1, <2>2 DEF StreamsFramed, InFlight, Target, Streams
  <2>7. AddressedOnly'
    BY <2>2 DEF AddressedOnly, Streams
  <2>8. BroadcastComplete'
    <3> SUFFICES ASSUME main \in InSender, NEW p \in 0 .. pos - 1,
                        socket_handle[<<group_to_send, p>>] # NoFd
                 PROVE  LET s == <<group_to_send, p>> IN
                        /\ wire'[s] # << >>
                        /\ wire'[s][Len(wire'[s])] =
                             [job |-> job, from |-> 0, to |-> MessageLen]
      BY <2>1 DEF BroadcastComplete, InSender, MessageLen
    <3>1. <<group_to_send, p>> \in Server
      BY Passed
    <3>2. wire'[<<group_to_send, p>>] = wire[<<group_to_send, p>>]
      BY <2>1, <2>2, <3>1
    <3> QED BY <3>2 DEF BroadcastComplete, InSender, Streams
  <2> QED BY <2>4, <2>5, <2>6, <2>7, <2>8 DEF Streams
<1>4. CASE MgrStore
  <2>1. /\ Here \in Server /\ wire[Here] = << >>
        /\ socket_handle' = [socket_handle EXCEPT ![Here] = new_sock]
        /\ main \notin InSender
        /\ mgr' = "scan"
        /\ UNCHANGED <<wire, mainVars>>
    BY <1>4 DEF MgrStore, NextServer, TC, Control, AtServer, Streams, NewIsEmpty
  <2>2. \A s \in Server : wire[s] # << >> => socket_handle'[s] = socket_handle[s]
    BY <2>1 DEF TC, TypeOK
  <2>3. NewIsEmpty' /\ NoEmptyChunk' /\ OffsetInFlight' /\ BroadcastComplete'
    BY <2>1 DEF NewIsEmpty, NoEmptyChunk, OffsetInFlight, BroadcastComplete, Streams, InSender
  <2>4. StreamsFramed'
    <3>1. ASSUME NEW s \in Server, NEW k \in 1 .. Len(wire[s])
          PROVE  wire[s] # << >> /\ socket_handle'[s] = socket_handle[s]
      BY <3>1, <2>2 DEF TC, TypeOK
    <3> QED BY <2>1, <3>1 DEF StreamsFramed, InFlight, Streams, InSender
  <2>5. AddressedOnly'
    BY <2>1 DEF AddressedOnly, Streams
  <2> QED BY <2>3, <2>4, <2>5 DEF Streams
<1> QED BY <1>1, <1>2, <1>3, <1>4 DEF MgrNext

\* What one send() does to the stream of the sign whose turn it is: after it
\* the stream ends in the packet being sent, after whole chunks only.
LEMMA SentStream ==
  ASSUME TC, Ownership, Streams, SendSome
  PROVE  \E n \in 1 .. BytesLeft : \E t \in Seq(Chunk) :
           /\ wire' = [wire EXCEPT ![Target] = t]
           /\ IF total_bytes_sent + n = MessageLen
                THEN SentServer
                ELSE /\ total_bytes_sent' = total_bytes_sent + n
                     /\ UNCHANGED <<main, pos, current_socket_handle>>
           /\ t # << >>
           /\ t[Len(t)] = [job |-> job, from |-> 0, to |-> total_bytes_sent + n]
           /\ \A k \in 1 .. Len(t) - 1 :
                k <= Len(wire[Target]) /\ t[k] = wire[Target][k]
           /\ \A k \in 1 .. Len(t) - 1 :
                t[k].from = 0 /\ t[k].to = Jobs[t[k].job].len
<1> DEFINE w == wire[Target]
<1>1. /\ main = "send" /\ SockState(current_socket_handle) # "none"
      /\ Target \in Server /\ socket_handle[Target] # NoFd
      /\ fdTable[current_socket_handle] = Target
  BY SendTarget DEF SendSome
<1>2. PICK n \in 1 .. BytesLeft :
        /\ wire' = [wire EXCEPT ![fdTable[current_socket_handle]] = Taken(@, n)]
        /\ IF total_bytes_sent + n = MessageLen
             THEN SentServer
             ELSE /\ total_bytes_sent' = total_bytes_sent + n
                  /\ UNCHANGED <<main, pos, current_socket_handle>>
  BY DEF SendSome
<1>3. /\ job \in 1 .. Len(Jobs) /\ total_bytes_sent \in Nat
      /\ w \in Seq(Chunk) /\ Len(w) \in Nat
  BY <1>1 DEF TC, TypeOK, Control, InSender
<1>4. n \in Nat
  BY <1>3, JobLength DEF BytesLeft, MessageLen
<1>5. wire' = [wire EXCEPT ![Target] = Taken(w, n)]
  BY <1>1, <1>2, <1>3 DEF TC, TypeOK
<1>6. \A k \in 1 .. Len(w) : /\ w[k].from = 0 /\ w[k].to > 0
                             /\ \/ w[k].to = Jobs[w[k].job].len
                                \/ /\ k = Len(w)
                                   /\ w[k] = [job |-> job, from |-> 0,
                                              to |-> total_bytes_sent]
  BY <1>1 DEF Streams, StreamsFramed, NoEmptyChunk, InFlight
<1> DEFINE t == Taken(w, n)
           Extends ==
             /\ t \in Seq(Chunk) /\ t # << >>
             /\ t[Len(t)] = [job |-> job, from |-> 0, to |-> total_bytes_sent + n]
             /\ \A k \in 1 .. Len(t) - 1 : k <= Len(w) /\ t[k] = w[k]
             /\ \A k \in 1 .. Len(t) - 1 : t[k].from = 0 /\ t[k].to = Jobs[t[k].job].len
<1> HIDE DEF w
<1>7. Extends
  <2>1. CASE total_bytes_sent = 0
    <3>1. w # << >> => w[Len(w)].to # total_bytes_sent
      BY <1>3, <1>6, <2>1
    <3>2. /\ t \in Seq(Chunk) /\ Len(t) = Len(w) + 1
          /\ \A k \in 1 .. Len(w) : t[k] = w[k]
          /\ t[Len(w) + 1] =
               [job |-> job, from |-> total_bytes_sent, to |-> total_bytes_sent + n]
      BY <1>3, <1>4, <3>1, TakenAdds
    <3>3. \A k \in 1 .. Len(w) : w[k].from = 0 /\ w[k].to = Jobs[w[k].job].len
      BY <1>3, <1>6, <2>1
    <3> HIDE DEF t
    <3>4. t # << >> /\ Len(t) - 1 = Len(w)
      BY <1>3, <3>2
    <3> QED BY <1>3, <2>1, <3>2, <3>3, <3>4
  <2>2. CASE total_bytes_sent > 0
    <3>1. /\ w # << >>
          /\ w[Len(w)] = [job |-> job, from |-> 0, to |-> total_bytes_sent]
      BY <1>1, <2>2 DEF Streams, OffsetInFlight, InFlight, w
    <3>2. /\ w[Len(w)].job = job /\ w[Len(w)].from = 0
          /\ w[Len(w)].to = total_bytes_sent
      BY <3>1
    <3>3. /\ t \in Seq(Chunk) /\ Len(t) = Len(w)
          /\ \A k \in 1 .. Len(w) - 1 : t[k] = w[k]
          /\ t[Len(w)] = [job |-> job, from |-> w[Len(w)].from,
                          to |-> total_bytes_sent + n]
      BY <1>3, <1>4, <3>1, <3>2, TakenGrows
    <3>4. \A k \in 1 .. Len(w) - 1 : w[k].from = 0 /\ w[k].to = Jobs[w[k].job].len
      BY <1>3, <1>6
    <3> HIDE DEF t
    <3>5. t # << >>
      BY <1>3, <3>1, <3>3
    <3> QED BY <1>3, <3>2, <3>3, <3>4, <3>5
  <2> QED BY <1>3, <2>1, <2>2
<1> HIDE DEF t
<1>8. t \in Seq(Chunk)
  BY <1>7
<1> WITNESS n \in 1 .. BytesLeft
<1> WITNESS t \in Seq(Chunk)
<1> QED BY <1>2, <1>5, <1>7 DEF w, t

\* A step of main outside the sender's loop, or into it.
LEMMA IdleStreams ==
  ASSUME Streams, TC, main \notin InSender, main' # "send", pos' = 0,
         UNCHANGED wire,
         \A s \in Server : socket_handle'[s] \in {socket_handle[s], NoFd},
         mgr' = "store" => mgr = "store" /\ Here' = Here
  PROVE  Streams'
<1> USE DEF Streams
<1>1. NewIsEmpty' /\ NoEmptyChunk' /\ OffsetInFlight'
  BY DEF NewIsEmpty, NoEmptyChunk, OffsetInFlight
<1>2. StreamsFramed'
  BY DEF StreamsFramed, InFlight, InSender
<1>3. AddressedOnly' /\ BroadcastComplete'
  BY DEF AddressedOnly, BroadcastComplete
<1> QED BY <1>1, <1>2, <1>3

\* The sender moves on in its loop without writing.
LEMMA PickStreams == AllInv /\ SendPick => Streams'
<1> SUFFICES ASSUME TC, Ownership, Streams, SendPick PROVE Streams'
  BY DEF AllInv
<1> USE DEF Streams
<1>1. /\ main = "pick" /\ total_bytes_sent = 0 /\ pos \in Nat
      /\ UNCHANGED <<wire, socket_handle, mgr, i, j, total_bytes_sent>>
  BY DEF SendPick, kernel, mgrVars, TC, TypeOK, Control
<1>2. NewIsEmpty' /\ NoEmptyChunk' /\ OffsetInFlight' /\ AddressedOnly'
  BY <1>1 DEF NewIsEmpty, NoEmptyChunk, OffsetInFlight, AddressedOnly, Here
<1>3. StreamsFramed'
  BY <1>1 DEF StreamsFramed, InFlight
<1>4. BroadcastComplete'
  <2>1. CASE main' = "send" /\ UNCHANGED <<job, group_to_send, pos>>
    BY <1>1, <2>1 DEF BroadcastComplete, MessageLen
  <2>2. CASE /\ socket_handle[Target] = NoFd
             /\ pos' = pos + 1
             /\ UNCHANGED <<main, job, group_to_send>>
    <3>1. \A p \in 0 .. pos : p \in 0 .. pos - 1 \/ p = pos
      BY <1>1
    <3> QED BY <1>1, <2>2, <3>1 DEF BroadcastComplete, MessageLen, Target
  <2>3. CASE pos' = 0
    BY <2>3 DEF BroadcastComplete
  <2> QED BY <2>1, <2>2, <2>3 DEF SendPick
<1> QED BY <1>2, <1>3, <1>4

\* A failed send() takes the connection out of the table.
LEMMA FailStreams == AllInv /\ SendFail => Streams'
<1> SUFFICES ASSUME TC, Ownership, Streams, SendFail PROVE Streams'
  BY DEF AllInv
<1> USE DEF Streams
<1>1. /\ main = "send" /\ main' = "pick" /\ pos' = pos + 1 /\ pos \in Nat
      /\ Target \in Server
      /\ socket_handle' = [socket_handle EXCEPT ![Target] = NoFd]
      /\ UNCHANGED <<wire, mgr, i, j, job, group_to_send>>
  BY DEF SendFail, SentServer, mgrVars, TC, TypeOK, Control, Ownership, SenderCopy
<1>2. \A s \in Server : socket_handle'[s] = IF s = Target THEN NoFd ELSE socket_handle[s]
  BY <1>1 DEF TC, TypeOK
<1>3. NewIsEmpty' /\ NoEmptyChunk' /\ OffsetInFlight' /\ AddressedOnly'
  BY <1>1 DEF NewIsEmpty, NoEmptyChunk, OffsetInFlight, AddressedOnly, Here
<1>4. StreamsFramed'
  BY <1>1, <1>2 DEF StreamsFramed, InFlight
<1>5. BroadcastComplete'
  <2> SUFFICES ASSUME NEW p \in 0 .. pos,
                      socket_handle'[<<group_to_send, p>>] # NoFd
               PROVE  LET s == <<group_to_send, p>> IN
                      /\ wire[s] # << >>
                      /\ wire[s][Len(wire[s])] =
                           [job |-> job, from |-> 0, to |-> MessageLen]
    BY <1>1 DEF BroadcastComplete, MessageLen
  <2>1. p # pos
    BY <1>1, <1>2 DEF Target
  <2>2. p \in 0 .. pos - 1
    BY <1>1, <2>1
  <2>3. <<group_to_send, p>> \in Server
    BY <1>1, <2>2, Passed DEF InSender
  <2>4. socket_handle[<<group_to_send, p>>] # NoFd
    BY <1>2, <2>3
  <2> QED BY <1>1, <2>2, <2>4 DEF BroadcastComplete
<1> QED BY <1>3, <1>4, <1>5

\* A send() that takes bytes.
LEMMA SomeStreams == AllInv /\ SendSome => Streams'
<1> SUFFICES ASSUME TC, Ownership, Streams, SendSome PROVE Streams'
  BY DEF AllInv
<1>1. PICK n \in 1 .. BytesLeft, t \in Seq(Chunk) :
        /\ wire' = [wire EXCEPT ![Target] = t]
        /\ IF total_bytes_sent + n = MessageLen
             THEN SentServer
             ELSE /\ total_bytes_sent' = total_bytes_sent + n
                  /\ UNCHANGED <<main, pos, current_socket_handle>>
        /\ t # << >>
        /\ t[Len(t)] = [job |-> job, from |-> 0, to |-> total_bytes_sent + n]
        /\ \A k \in 1 .. Len(t) - 1 : k <= Len(wire[Target]) /\ t[k] = wire[Target][k]
        /\ \A k \in 1 .. Len(t) - 1 : t[k].from = 0 /\ t[k].to = Jobs[t[k].job].len
  BY SentStream
<1>2. /\ main = "send" /\ Target \in Server /\ socket_handle[Target] # NoFd
      /\ UNCHANGED <<socket_handle, mgr, i, j, job, group_to_send>>
  BY SendTarget DEF SendSome, shared, mgrVars
<1>3. \A s \in Server : wire'[s] = IF s = Target THEN t ELSE wire[s]
  BY <1>1, <1>2 DEF TC, TypeOK
<1>4. /\ job \in 1 .. Len(Jobs) /\ total_bytes_sent \in Nat /\ pos \in Nat
      /\ group_to_send \in Group /\ IsFirstWithId(group_to_send, Jobs[job].group)
      /\ wire[Target] \in Seq(Chunk)
  BY <1>2 DEF TC, TypeOK, Control, InSender
<1>5. n \in Nat /\ n > 0
  BY <1>4, JobLength DEF BytesLeft, MessageLen
<1>6. \/ /\ main' = "send" /\ total_bytes_sent' = total_bytes_sent + n
         /\ Target' = Target /\ pos' = pos
      \/ /\ main' = "pick" /\ total_bytes_sent + n = MessageLen
         /\ total_bytes_sent' = 0 /\ pos' = pos + 1
  BY <1>1, <1>2 DEF SentServer, Target
<1>7. \A k \in 1 .. Len(t) : k # Len(t) => k \in 1 .. Len(t) - 1
  OBVIOUS
<1>8. NewIsEmpty'
  BY <1>2, <1>3 DEF NewIsEmpty, Streams, Ownership, RetryOnlyWhenInvalid, Here, TC, Control,
                    AtServer
<1>9. NoEmptyChunk'
  <2> SUFFICES ASSUME NEW k \in 1 .. Len(t) PROVE t[k].to > 0
    BY <1>3 DEF NoEmptyChunk, Streams
  <2>1. CASE k = Len(t)
    BY <1>1, <1>4, <1>5, <2>1
  <2>2. CASE k # Len(t)
    BY <1>1, <1>2, <1>4, <1>7, <2>2 DEF NoEmptyChunk, Streams
  <2> QED BY <2>1, <2>2
<1>10. OffsetInFlight'
  BY <1>1, <1>2, <1>3, <1>6 DEF OffsetInFlight, InFlight
<1>11. StreamsFramed'
  <2> SUFFICES ASSUME NEW s \in Server, NEW k \in 1 .. Len(wire'[s])
               PROVE  /\ wire'[s][k].from = 0
                      /\ \/ wire'[s][k].to = Jobs[wire'[s][k].job].len
                         \/ k = Len(wire'[s]) /\ (InFlight(s)' \/ socket_handle'[s] = NoFd)
    BY DEF StreamsFramed
  <2>1. CASE s # Target
    BY <1>2, <1>3, <2>1 DEF Streams, StreamsFramed, InFlight
  <2>2. CASE s = Target /\ k # Len(t)
    BY <1>1, <1>3, <1>7, <2>2
  <2>3. CASE s = Target /\ k = Len(t)
    <3>1. wire'[s][k] = [job |-> job, from |-> 0, to |-> total_bytes_sent + n]
      BY <1>1, <1>3, <2>3
    <3>2. \/ total_bytes_sent + n = Jobs[job].len
          \/ InFlight(s)'
      BY <1>2, <1>3, <1>6, <2>3, <3>1 DEF MessageLen, InFlight
    <3> QED BY <1>3, <2>3, <3>1, <3>2
  <2> QED BY <2>1, <2>2, <2>3
<1>12. AddressedOnly'
  <2> SUFFICES ASSUME NEW k \in 1 .. Len(t)
               PROVE  IsFirstWithId(Target[1], Jobs[t[k].job].group)
    BY <1>3 DEF AddressedOnly, Streams
  <2>1. CASE k = Len(t)
    BY <1>1, <1>4, <2>1 DEF Target
  <2>2. CASE k # Len(t)
    <3>1. k \in 1 .. Len(wire[Target]) /\ t[k] = wire[Target][k]
      BY <1>1, <1>4, <1>7, <2>2
    <3> QED BY <1>2, <3>1 DEF AddressedOnly, Streams
  <2> QED BY <2>1, <2>2
<1>13. BroadcastComplete'
  <2> SUFFICES ASSUME NEW p \in 0 .. pos' - 1,
                      socket_handle[<<group_to_send, p>>] # NoFd
               PROVE  LET s == <<group_to_send, p>> IN
                      /\ wire'[s] # << >>
                      /\ wire'[s][Len(wire'[s])] =
                           [job |-> job, from |-> 0, to |-> MessageLen]
    BY <1>2 DEF BroadcastComplete, MessageLen
  <2>1. CASE p = pos
    <3>1. <<group_to_send, p>> = Target /\ total_bytes_sent + n = MessageLen
      BY <1>4, <1>6, <2>1 DEF Target
    <3> QED BY <1>1, <1>2, <1>3, <3>1
  <2>2. CASE p # pos
    <3>1. p \in 0 .. pos - 1 /\ <<group_to_send, p>> # Target
      BY <1>4, <1>6, <2>2 DEF Target
    <3>2. <<group_to_send, p>> \in Server
      BY <1>2, <3>1, Passed DEF InSender
    <3> QED BY <1>2, <1>3, <3>1, <3>2 DEF BroadcastComplete, Streams
  <2> QED BY <2>1, <2>2
<1> QED BY <1>8, <1>9, <1>10, <1>11, <1>12, <1>13 DEF Streams

LEMMA MainStreams == AllInv /\ MainNext => Streams'
<1> SUFFICES ASSUME TC, Ownership, Streams, MainNext PROVE Streams'
  BY DEF AllInv
<1>1. CASE \/ MainCreate \/ MainWake \/ FileOpen \/ FileClose \/ MainParse \/ MainNextJob
           \/ SendLock \/ MainStop \/ MainJoin \/ MainCleanup
  <2>1. /\ main \notin InSender /\ main' # "send" /\ UNCHANGED pos
        /\ mgr' = "store" => mgr = "store" /\ Here' = Here
    BY <1>1 DEF MainCreate, MainWake, FileOpen, FileClose, MainParse, MainNextJob, SendLock,
                MainStop, MainJoin, MainCleanup, InSender, Here, mgrVars, jobVars
  <2>2. UNCHANGED wire
    BY <1>1 DEF MainCreate, MainWake, FileOpen, FileClose, MainParse, MainNextJob, SendLock,
                MainStop, MainJoin, MainCleanup, kernel
  <2>3. \A s \in Server : socket_handle'[s] \in {socket_handle[s], NoFd}
    BY <1>1 DEF MainCreate, MainWake, FileOpen, FileClose, MainParse, MainNextJob, SendLock,
                MainStop, MainJoin, MainCleanup, shared
  <2>4. pos' = 0
    BY <2>1 DEF TC, Control
  <2> QED BY <2>1, <2>2, <2>3, <2>4, IdleStreams
<1> QED BY <1>1, PickStreams, SomeStreams, FailStreams DEF MainNext, AllInv

LEMMA NextStreams == AllInv /\ [Next]_vars => Streams'
<1> SUFFICES ASSUME TC, Ownership, Streams, [Next]_vars PROVE Streams'
  BY DEF AllInv
<1>1. CASE EnvNext \/ UNCHANGED vars
  <2>1. UNCHANGED <<wire, main, job, group_to_send, pos, total_bytes_sent, socket_handle, mgr, i, j>>
    BY <1>1 DEF EnvNext, PeerUp, PeerDown, PeerClose, PeerReply, vars, shared, kernel, mgrVars,
                mainVars, jobVars
  <2>2. mgr' = "store" => wire[Here'] = << >>
    BY <2>1 DEF Here, Streams, NewIsEmpty
  <2> QED BY <2>1, <2>2, QuietStreams
<1> QED BY <1>1, MgrStreams, MainStreams DEF Next, AllInv

\* IInv is inductive, and so holds in every reachable state.
THEOREM Inductive == Spec => []IInv
<1>1. Init => AllInv
  BY InitTC, InitOwnership, InitStreams DEF AllInv
<1>2. AllInv /\ [Next]_vars => AllInv'
  BY NextTC, NextOwnership, NextStreams DEF AllInv
<1>3. AllInv => IInv
  BY DEF AllInv, TC, IInv
<1> QED BY <1>1, <1>2, <1>3, PTL DEF Spec

\* What a sign receives on a connection is a sequence of whole packets; only
\* the one being sent, or the last before a failure, may be cut off.
THEOREM PacketsAreWhole == Spec => []StreamsFramed
<1>1. IInv => StreamsFramed
  BY DEF IInv, Streams
<1> QED BY <1>1, Inductive, PTL

\* No sign gets a packet of another group, although descriptor numbers are
\* reused for other signs all the time.
THEOREM PacketsAreAddressed == Spec => []AddressedOnly
<1>1. IInv => AddressedOnly
  BY DEF IInv, Streams
<1> QED BY <1>1, Inductive, PTL

\* The sender leaves no sign behind that is connected and lacks the packet.
THEOREM BroadcastsAreComplete == Spec => []BroadcastComplete
<1>1. IInv => BroadcastComplete
  BY DEF IInv, Streams
<1> QED BY <1>1, Inductive, PTL

-----------------------------------------------------------------------------
(* The refinement of SignBroadcast.                                         *)

\* The sender has written part of its packet to server s, or all of it.
Served(s) ==
  /\ main \in InSender
  /\ \E p \in 0 .. pos : /\ s = <<group_to_send, p>>
                         /\ p < pos \/ total_bytes_sent > 0

\* A stream ends in an earlier packet, or in the one the sender is writing.
JobsInOrder ==
  \A s \in Server : wire[s] # << >> =>
    LET last == wire[s][Len(wire[s])].job
    IN last < job \/ (last = job /\ Served(s))

\* What a step does that writes nothing and leaves the sender alone.
LEMMA QuietOrder ==
  ASSUME JobsInOrder, UNCHANGED <<main, group_to_send, pos, total_bytes_sent, job>>,
         \A s \in Server : wire'[s] \in {wire[s], << >>}
  PROVE  JobsInOrder'
<1> SUFFICES ASSUME NEW s \in Server, wire'[s] # << >>
             PROVE  LET last == wire'[s][Len(wire'[s])].job
                    IN last < job \/ (last = job /\ Served(s)')
  BY DEF JobsInOrder
<1>1. wire'[s] = wire[s] /\ (Served(s) => Served(s)')
  BY DEF Served
<1> QED BY <1>1 DEF JobsInOrder

\* The last of a stream is a chunk.
LEMMA LastChunk ==
  ASSUME NEW w \in Seq(Chunk), w # << >>
  PROVE  /\ Len(w) \in 1 .. Len(w)
         /\ w[Len(w)] \in Chunk
         /\ w[Len(w)].job \in 1 .. Len(Jobs)
<1>1. Len(w) \in 1 .. Len(w)
  OBVIOUS
<1>2. w[Len(w)] \in Chunk
  BY <1>1
<1> QED BY <1>1, <1>2 DEF Chunk

\* What a step of main outside the sender's loop does.
LEMMA IdleOrder ==
  ASSUME JobsInOrder, TC, main \notin InSender, UNCHANGED wire,
         job' \in Nat, job' >= job
  PROVE  JobsInOrder'
<1>1. ASSUME NEW s \in Server, wire[s] # << >>
      PROVE  wire[s][Len(wire[s])].job < job'
  <2>1. wire[s][Len(wire[s])].job < job
    BY <1>1 DEF JobsInOrder, Served
  <2>2. wire[s] \in Seq(Chunk)
    BY DEF TC, TypeOK
  <2>3. wire[s][Len(wire[s])].job \in 1 .. Len(Jobs)
    BY <1>1, <2>2, LastChunk
  <2> QED BY <2>1, <2>3 DEF TC, TypeOK
<1>2. ASSUME NEW s \in Server, wire'[s] # << >>
      PROVE  wire'[s][Len(wire'[s])].job < job'
  BY <1>1, <1>2
<1> QED BY <1>2 DEF JobsInOrder

\* The sender moves on in its loop, or leaves it.
LEMMA PickOrder == AllInv /\ JobsInOrder /\ SendPick => JobsInOrder'
<1> SUFFICES ASSUME TC, JobsInOrder, SendPick PROVE JobsInOrder'
  BY DEF AllInv
<1>1. /\ main = "pick" /\ total_bytes_sent = 0 /\ total_bytes_sent' = 0
      /\ pos \in Nat /\ job \in Nat /\ UNCHANGED wire
  BY DEF SendPick, kernel, TC, TypeOK, Control
<1>2. CASE main' \in InSender /\ pos' \in {pos, pos + 1} /\ UNCHANGED <<job, group_to_send>>
  <2>1. ASSUME NEW s \in Server, Served(s) PROVE Served(s)'
    <3>1. PICK p \in 0 .. pos : s = <<group_to_send, p>> /\ p < pos
      BY <1>1, <2>1 DEF Served
    <3>2. p \in 0 .. pos' /\ p < pos'
      BY <1>1, <1>2, <3>1
    <3> QED BY <1>2, <3>1, <3>2 DEF Served
  <2> QED BY <1>1, <1>2, <2>1 DEF JobsInOrder
<1>3. CASE job' = job + 1
  <2>1. ASSUME NEW s \in Server, wire'[s] # << >>
        PROVE  wire'[s][Len(wire'[s])].job < job'
    <3>1. wire[s] \in Seq(Chunk) /\ wire[s] # << >> /\ wire'[s] = wire[s]
      BY <1>1, <2>1 DEF TC, TypeOK
    <3>2. wire[s][Len(wire[s])].job \in 1 .. Len(Jobs)
      BY <3>1, LastChunk
    <3>3. wire[s][Len(wire[s])].job < job \/ wire[s][Len(wire[s])].job = job
      BY <3>1 DEF JobsInOrder
    <3> QED BY <1>1, <1>3, <3>1, <3>2, <3>3
  <2> QED BY <2>1 DEF JobsInOrder
<1> QED BY <1>2, <1>3 DEF SendPick, InSender

\* A failed send() passes a server over.
LEMMA FailOrder == AllInv /\ JobsInOrder /\ SendFail => JobsInOrder'
<1> SUFFICES ASSUME TC, JobsInOrder, SendFail PROVE JobsInOrder'
  BY DEF AllInv
<1>1. /\ main = "send" /\ main' = "pick" /\ pos \in Nat /\ pos' = pos + 1
      /\ UNCHANGED <<wire, job, group_to_send>>
  BY DEF SendFail, SentServer, TC, TypeOK
<1>2. ASSUME NEW s \in Server, Served(s) PROVE Served(s)'
  <2>1. PICK p \in 0 .. pos : s = <<group_to_send, p>>
    BY <1>2 DEF Served
  <2>2. p \in 0 .. pos' /\ p < pos'
    BY <1>1
  <2> QED BY <1>1, <2>1, <2>2 DEF Served, InSender
<1> QED BY <1>1, <1>2 DEF JobsInOrder

\* A send() that takes bytes leaves the packet of the moment at the end.
LEMMA SomeOrder == AllInv /\ JobsInOrder /\ SendSome => JobsInOrder'
<1> SUFFICES ASSUME TC, Ownership, Streams, JobsInOrder, SendSome PROVE JobsInOrder'
  BY DEF AllInv
<1>1. PICK n \in 1 .. BytesLeft, t \in Seq(Chunk) :
        /\ wire' = [wire EXCEPT ![Target] = t]
        /\ IF total_bytes_sent + n = MessageLen
             THEN SentServer
             ELSE /\ total_bytes_sent' = total_bytes_sent + n
                  /\ UNCHANGED <<main, pos, current_socket_handle>>
        /\ t # << >>
        /\ t[Len(t)] = [job |-> job, from |-> 0, to |-> total_bytes_sent + n]
  BY SentStream
<1>2. /\ main = "send" /\ Target \in Server /\ UNCHANGED <<job, group_to_send>>
      /\ pos \in Nat /\ total_bytes_sent \in Nat /\ job \in 1 .. Len(Jobs)
  BY SendTarget DEF SendSome, TC, TypeOK, Control, InSender
<1>t. PICK target \in Server : target = Target
  BY <1>2
<1>3. \A s \in Server : wire'[s] = IF s = target THEN t ELSE wire[s]
  BY <1>1, <1>2, <1>t DEF TC, TypeOK
<1>4. n \in Nat /\ n > 0
  BY <1>2, JobLength DEF BytesLeft, MessageLen
<1>5. \/ main' = "send" /\ total_bytes_sent' > 0 /\ pos' = pos
      \/ main' = "pick" /\ total_bytes_sent' = 0 /\ pos' = pos + 1
  BY <1>1, <1>2, <1>4 DEF SentServer
<1>6. Served(target)'
  <2>1. pos \in 0 .. pos' /\ (pos < pos' \/ total_bytes_sent' > 0)
    BY <1>2, <1>5
  <2> QED BY <1>2, <1>5, <1>t, <2>1 DEF Served, Target, InSender
<1>7. ASSUME NEW s \in Server, Served(s) PROVE Served(s)'
  <2>1. PICK p \in 0 .. pos : s = <<group_to_send, p>> /\ (p < pos \/ total_bytes_sent > 0)
    BY <1>7 DEF Served
  <2>2. p \in 0 .. pos' /\ (p < pos' \/ total_bytes_sent' > 0)
    BY <1>2, <1>5, <2>1
  <2> QED BY <1>2, <1>5, <2>1, <2>2 DEF Served, InSender
<1>8. t[Len(t)].job = job
  BY <1>1
<1> QED BY <1>2, <1>3, <1>6, <1>7, <1>8 DEF JobsInOrder

LEMMA InitOrder == Init => JobsInOrder
BY DEF Init, JobsInOrder

LEMMA NextOrder == AllInv /\ JobsInOrder /\ [Next]_vars => JobsInOrder'
<1> SUFFICES ASSUME AllInv, JobsInOrder, [Next]_vars PROVE JobsInOrder'
  OBVIOUS
<1> USE DEF shared, kernel, mgrVars, mainVars, jobVars
<1>1. CASE MgrNext
  <2>1. UNCHANGED <<main, group_to_send, pos, total_bytes_sent, job>>
    BY <1>1 DEF MgrNext, MgrScan, MgrSleep, MgrRead, MgrCheck, MgrClose, MgrInvalidate,
                MgrAttempt, MgrConnectOk, MgrConnectFail, MgrStore
  <2>2. UNCHANGED wire \/ wire' = [wire EXCEPT ![Here] = << >>]
    BY <1>1 DEF MgrNext, MgrScan, MgrSleep, MgrRead, MgrCheck, MgrClose, MgrInvalidate,
                MgrAttempt, MgrConnectOk, MgrConnectFail, MgrStore
  <2>3. \A s \in Server : wire'[s] \in {wire[s], << >>}
    BY <2>2 DEF AllInv, TC, TypeOK
  <2> QED BY <2>1, <2>3, QuietOrder
<1>2. CASE EnvNext \/ UNCHANGED vars
  <2>1. UNCHANGED <<main, group_to_send, pos, total_bytes_sent, job, wire>>
    BY <1>2 DEF EnvNext, PeerUp, PeerDown, PeerClose, PeerReply, vars
  <2> QED BY <2>1, QuietOrder
<1>3. CASE \/ MainCreate \/ MainWake \/ FileOpen \/ FileClose \/ MainParse \/ MainNextJob
           \/ SendLock \/ MainStop \/ MainJoin \/ MainCleanup
  <2>1. main \notin InSender /\ UNCHANGED wire
    BY <1>3 DEF MainCreate, MainWake, FileOpen, FileClose, MainParse, MainNextJob, SendLock,
                MainStop, MainJoin, MainCleanup, InSender
  <2>2. job \in Nat /\ job <= Len(Jobs) + 1 /\ Len(Jobs) \in Nat
    BY JobsAssumption DEF JobsAssumption, AllInv, TC, TypeOK
  <2>3. job' \in {job, job + 1, Len(Jobs) + 1}
    BY <1>3 DEF MainCreate, MainWake, FileOpen, FileClose, MainParse, MainNextJob, SendLock,
                MainStop, MainJoin, MainCleanup
  <2>4. job' \in Nat /\ job' >= job
    BY <2>2, <2>3
  <2> QED BY <2>1, <2>4, IdleOrder DEF AllInv
<1> QED BY <1>1, <1>2, <1>3, PickOrder, SomeOrder, FailOrder DEF Next, MainNext

\* The packets of SignBroadcast are the jobs of main.
LEMMA JobPackets ==
  /\ Len(Jobs) \in Nat
  /\ Len(JobLengths) = Len(Jobs)
  /\ Broadcast!Packets = 1 .. Len(Jobs)
  /\ \A k \in 1 .. Len(Jobs) : JobLengths[k] = Jobs[k].len
<1>1. Len(Jobs) \in Nat
  BY JobsAssumption DEF JobsAssumption
<1> QED BY <1>1 DEF JobLengths, Broadcast!Packets

LEMMA InitMapped == Init => Broadcast!Init
BY DEF Init, Broadcast!Init, linkMap, streamMap

\* Steps that leave the table's handles, their streams, the mutex and the job
\* are nothing to SignBroadcast.
LEMMA QuietMapped ==
  ASSUME UNCHANGED <<socket_handle, mutex, job>>,
         \A s \in Server : socket_handle[s] # NoFd => wire'[s] = wire[s]
  PROVE  UNCHANGED Broadcast!vars
BY DEF Broadcast!vars, linkMap, streamMap

\* Handles that leave the table are links that go down.
LEMMA DownMapped ==
  ASSUME UNCHANGED <<wire, mutex, job>>,
         \A s \in Server : socket_handle'[s] \in {socket_handle[s], NoFd}
  PROVE  Broadcast!Next
<1> DEFINE S == {s \in Server : socket_handle'[s] = NoFd}
<1>1. linkMap' = [s \in Server |-> linkMap[s] /\ s \notin S]
  BY DEF linkMap
<1>2. streamMap' = [s \in Server |-> IF s \in S THEN << >> ELSE streamMap[s]]
  BY DEF streamMap
<1>3. Broadcast!LinksDown(S)
  BY <1>1, <1>2 DEF Broadcast!LinksDown
<1>4. S \in SUBSET Server
  OBVIOUS
<1> QED BY <1>3, <1>4 DEF Broadcast!Next

\* A job main passes over is a packet that is not begun.
LEMMA SkipMapped ==
  ASSUME UNCHANGED <<socket_handle, wire, mutex>>, ~mutex,
         job' \in job + 1 .. Len(Jobs) + 1
  PROVE  Broadcast!Next
<1>1. Broadcast!Skip
  BY JobPackets DEF Broadcast!Skip, linkMap, streamMap
<1> QED BY <1>1 DEF Broadcast!Next

LEMMA MgrMapped == AllInv /\ MgrNext => [Broadcast!Next]_(Broadcast!vars)
<1> SUFFICES ASSUME TC, Ownership, Streams, MgrNext
             PROVE  Broadcast!Next \/ UNCHANGED Broadcast!vars
  BY DEF AllInv
<1> USE DEF shared, kernel, mainVars, jobVars
<1>1. CASE MgrScan \/ MgrSleep \/ MgrRead \/ MgrCheck \/ MgrClose \/ MgrAttempt \/ MgrConnectFail
  <2>1. UNCHANGED <<socket_handle, mutex, job, wire>>
    BY <1>1 DEF MgrScan, MgrSleep, MgrRead, MgrCheck, MgrClose, MgrAttempt, MgrConnectFail
  <2> QED BY <2>1, QuietMapped
<1>2. CASE MgrInvalidate
  <2>1. /\ UNCHANGED <<wire, mutex, job>>
        /\ \A s \in Server : socket_handle'[s] \in {socket_handle[s], NoFd}
    BY <1>2 DEF MgrInvalidate, TC, TypeOK
  <2> QED BY <2>1, DownMapped
<1>3. CASE MgrConnectOk
  <2>1. /\ Here \in Server /\ socket_handle[Here] = NoFd
        /\ wire' = [wire EXCEPT ![Here] = << >>]
        /\ UNCHANGED <<socket_handle, mutex, job>>
    BY <1>3 DEF MgrConnectOk, TC, Control, AtServer, Ownership, RetryOnlyWhenInvalid
  <2>2. \A s \in Server : socket_handle[s] # NoFd => wire'[s] = wire[s]
    BY <2>1 DEF TC, TypeOK
  <2> QED BY <2>1, <2>2, QuietMapped
<1>4. CASE MgrStore
  <2>1. PICK s \in Server : s = Here
    BY <1>4 DEF MgrStore, TC, Control, AtServer
  <2>2. /\ socket_handle[s] = NoFd /\ wire[s] = << >> /\ new_sock # NoFd /\ ~mutex
        /\ socket_handle' = [socket_handle EXCEPT ![s] = new_sock]
        /\ UNCHANGED <<wire, mutex, job>>
    BY <1>4, <2>1 DEF MgrStore, TC, Control, Ownership, RetryOnlyWhenInvalid, Streams,
                      NewIsEmpty
  <2>3. \A r \in Server : socket_handle'[r] = IF r = s THEN new_sock ELSE socket_handle[r]
    BY <2>2 DEF TC, TypeOK
  <2>4. ~linkMap[s] /\ linkMap' = [linkMap EXCEPT ![s] = TRUE]
    BY <2>2, <2>3 DEF linkMap
  <2>5. streamMap' = streamMap
    BY <2>2, <2>3 DEF streamMap
  <2>6. Broadcast!LinkUp(s)
    BY <2>2, <2>4, <2>5 DEF Broadcast!LinkUp
  <2> QED BY <2>6 DEF Broadcast!Next
<1> QED BY <1>1, <1>2, <1>3, <1>4 DEF MgrNext

\* Main outside the sender's loop.
LEMMA IdleMapped ==
  ASSUME AllInv, \/ MainCreate \/ MainWake \/ FileOpen \/ FileClose \/ MainParse \/ MainNextJob
                 \/ SendLock \/ MainStop \/ MainJoin \/ MainCleanup
  PROVE  Broadcast!Next \/ UNCHANGED Broadcast!vars
<1> USE DEF shared, kernel, mgrVars, jobVars
<1>0. TC /\ job \in 1 .. Len(Jobs) + 1 /\ Len(Jobs) \in Nat
  BY JobPackets DEF AllInv, TC, TypeOK
<1>1. CASE MainCreate \/ MainWake \/ FileClose \/ MainStop \/ MainJoin
  <2>1. UNCHANGED <<socket_handle, mutex, job, wire>>
    BY <1>1 DEF MainCreate, MainWake, FileClose, MainStop, MainJoin
  <2> QED BY <2>1, QuietMapped
<1>2. CASE FileOpen \/ MainParse \/ MainNextJob
  <2>1. /\ UNCHANGED <<socket_handle, mutex, wire>> /\ ~mutex
        /\ job' \in {job, job + 1, Len(Jobs) + 1}
        /\ job' = job + 1 => job <= Len(Jobs) \/ job' = Len(Jobs) + 1
    BY <1>2, <1>0 DEF FileOpen, MainParse, MainNextJob, TC, Control, InSender
  <2>2. job' = job \/ job' \in job + 1 .. Len(Jobs) + 1
    BY <1>0, <2>1
  <2> QED BY <2>1, <2>2, QuietMapped, SkipMapped
<1>3. CASE SendLock
  <2>1. /\ UNCHANGED <<socket_handle, wire>> /\ ~mutex /\ job \in 1 .. Len(Jobs)
        /\ \/ mutex' = TRUE /\ job' = job
           \/ mutex' = mutex /\ job' = job + 1
    BY <1>3, <1>0 DEF SendLock, TC, Control
  <2>2. CASE mutex' = TRUE /\ job' = job
    <3>1. Broadcast!Begin
      BY <2>1, <2>2, JobPackets DEF Broadcast!Begin, linkMap, streamMap
    <3> QED BY <3>1 DEF Broadcast!Next
  <2>3. CASE mutex' = mutex /\ job' = job + 1
    <3>1. job' \in job + 1 .. Len(Jobs) + 1
      BY <1>0, <2>1, <2>3
    <3> QED BY <2>1, <2>3, <3>1, SkipMapped
  <2> QED BY <2>1, <2>2, <2>3
<1>4. CASE MainCleanup
  <2>1. /\ UNCHANGED <<wire, mutex, job>>
        /\ \A s \in Server : socket_handle'[s] \in {socket_handle[s], NoFd}
    BY <1>4 DEF MainCleanup
  <2> QED BY <2>1, DownMapped
<1> QED BY <1>1, <1>2, <1>3, <1>4

\* The sender's loop ends when every sign of the group that is connected has
\* the whole packet.
LEMMA PickMapped ==
  ASSUME AllInv, SendPick
  PROVE  Broadcast!Next \/ UNCHANGED Broadcast!vars
<1>0. TC /\ Streams
  BY DEF AllInv
<1>1. /\ main = "pick" /\ mutex /\ job \in 1 .. Len(Jobs)
      /\ group_to_send \in Group /\ IsFirstWithId(group_to_send, Jobs[job].group)
      /\ UNCHANGED <<socket_handle, wire>>
  BY <1>0 DEF SendPick, kernel, TC, TypeOK, Control, InSender
<1>2. CASE UNCHANGED <<mutex, job>>
  BY <1>1, <1>2, QuietMapped
<1>3. CASE pos = NumServers[group_to_send] /\ mutex' = FALSE /\ job' = job + 1
  <2>1. ASSUME NEW s \in JobMembers[job], linkMap[s] PROVE Broadcast!HasAll(s)
    <3>1. s \in Server /\ IsFirstWithId(s[1], Jobs[job].group)
      BY <1>1, <2>1 DEF JobMembers
    <3>2. socket_handle[s] # NoFd
      BY <2>1, <3>1 DEF linkMap
    <3>3. s[1] = group_to_send
      BY <1>1, <3>1, ServerIsPair DEF IsFirstWithId, Group
    <3>4. s[2] \in 0 .. pos - 1 /\ s = <<group_to_send, s[2]>>
      BY <1>3, <3>1, <3>3, ServerIsPair
    <3>5. /\ wire[s] # << >>
          /\ wire[s][Len(wire[s])] = [job |-> job, from |-> 0, to |-> MessageLen]
      BY <1>0, <1>1, <3>2, <3>4 DEF Streams, BroadcastComplete
    <3>6. streamMap[s] = wire[s]
      BY <3>1, <3>2 DEF streamMap
    <3>7. JobLengths[job] = MessageLen
      BY <1>1, JobPackets DEF MessageLen
    <3> QED BY <3>5, <3>6, <3>7 DEF Broadcast!HasAll, Broadcast!LastOf
  <2>2. Broadcast!Finish
    BY <1>1, <1>3, <2>1 DEF Broadcast!Finish, linkMap, streamMap
  <2> QED BY <2>2 DEF Broadcast!Next
<1> QED BY <1>2, <1>3 DEF SendPick

\* A failed send() takes a link down.
LEMMA FailMapped ==
  ASSUME AllInv, SendFail
  PROVE  Broadcast!Next
<1>1. /\ UNCHANGED <<wire, mutex, job>>
      /\ \A s \in Server : socket_handle'[s] \in {socket_handle[s], NoFd}
  BY DEF AllInv, SendFail, TC, TypeOK
<1> QED BY <1>1, DownMapped

\* A send() that takes bytes delivers them: it begins a packet after whole,
\* earlier ones, or goes on with the one at the end.
LEMMA SomeMapped ==
  ASSUME AllInv, JobsInOrder, SendSome
  PROVE  Broadcast!Next
<1>0. TC /\ Ownership /\ Streams
  BY DEF AllInv
<1>1. /\ main = "send" /\ SockState(current_socket_handle) # "none"
      /\ Target \in Server /\ socket_handle[Target] # NoFd
      /\ fdTable[current_socket_handle] = Target
  BY <1>0, SendTarget DEF SendSome
<1>2. PICK s \in Server : s = Target
  BY <1>1
<1>3. /\ job \in 1 .. Len(Jobs) /\ total_bytes_sent \in Nat /\ mutex
      /\ wire[s] \in Seq(Chunk) /\ Len(wire[s]) \in Nat
      /\ UNCHANGED <<socket_handle, mutex, job>>
      /\ IsFirstWithId(s[1], Jobs[job].group)
  BY <1>0, <1>1, <1>2 DEF SendSome, shared, TC, TypeOK, Control, InSender, Target
<1>4. JobLengths[job] = MessageLen /\ MessageLen \in Nat
  BY <1>3, JobPackets, JobLength DEF MessageLen
<1>5. PICK n \in 1 .. BytesLeft : wire' = [wire EXCEPT ![s] = Taken(@, n)]
  BY <1>1, <1>2 DEF SendSome
<1>6. n \in 1 .. MessageLen - total_bytes_sent /\ n \in Nat
  BY <1>3, <1>4, <1>5 DEF BytesLeft
<1>7. /\ linkMap' = linkMap /\ linkMap[s] /\ streamMap[s] = wire[s]
      /\ streamMap \in [Server -> Seq(Chunk)]
      /\ streamMap' = [streamMap EXCEPT ![s] = Taken(wire[s], n)]
  <2>1. linkMap' = linkMap /\ linkMap[s] /\ streamMap[s] = wire[s]
    BY <1>1, <1>2, <1>3 DEF linkMap, streamMap
  <2>2. << >> \in Seq(Chunk)
    OBVIOUS
  <2>3. wire \in [Server -> Seq(Chunk)]
    BY <1>0 DEF TC, TypeOK
  <2>4. streamMap \in [Server -> Seq(Chunk)]
    BY <2>2, <2>3 DEF streamMap
  <2> HIDE DEF Taken
  <2>5. \A r \in Server : wire'[r] = IF r = s THEN Taken(wire[s], n) ELSE wire[r]
    BY <1>5, <2>3
  <2>6. streamMap' = [r \in Server |-> IF r = s THEN Taken(wire[s], n) ELSE streamMap[r]]
    BY <1>1, <1>2, <1>3, <2>5 DEF streamMap
  <2> QED BY <2>1, <2>4, <2>6
<1>8. s \in JobMembers[job]
  BY <1>3 DEF JobMembers
<1>9. Broadcast!Start(s) \/ Broadcast!GoOn(s)
  <2>1. CASE total_bytes_sent = 0
    <3>1. ASSUME wire[s] # << >>
          PROVE  /\ wire[s][Len(wire[s])].to > 0
                 /\ wire[s][Len(wire[s])].job \in 1 .. Len(Jobs)
                 /\ wire[s][Len(wire[s])].to = Jobs[wire[s][Len(wire[s])].job].len
                 /\ wire[s][Len(wire[s])].job < job
      <4>1. /\ Len(wire[s]) \in 1 .. Len(wire[s])
            /\ wire[s][Len(wire[s])].job \in 1 .. Len(Jobs)
        BY <1>3, <3>1, LastChunk
      <4>2. wire[s][Len(wire[s])].to > 0
        BY <1>0, <4>1 DEF Streams, NoEmptyChunk
      <4>3. ~InFlight(s)
        BY <2>1, <4>2 DEF InFlight
      <4>4. wire[s][Len(wire[s])].to = Jobs[wire[s][Len(wire[s])].job].len
        BY <1>0, <1>1, <1>2, <4>1, <4>3 DEF Streams, StreamsFramed
      <4>5. ~Served(s)
        <5>1. \A p \in 0 .. pos : s = <<group_to_send, p>> => p = pos
          BY <1>2 DEF Target
        <5>2. pos \in Nat
          BY <1>0 DEF TC, TypeOK
        <5> QED BY <2>1, <5>1, <5>2 DEF Served
      <4> QED BY <3>1, <4>1, <4>2, <4>4, <4>5 DEF JobsInOrder
    <3>2. Taken(wire[s], n) = Append(wire[s], [job |-> job, from |-> 0, to |-> n])
      BY <1>6, <2>1, <3>1 DEF Taken
    <3>3. Broadcast!Whole(s)
      BY <1>7, <3>1, JobPackets DEF Broadcast!Whole, Broadcast!LastOf
    <3>4. wire[s] # << >> => Broadcast!LastOf(s).job < job
      BY <1>7, <3>1 DEF Broadcast!LastOf
    <3>5. n \in 1 .. JobLengths[job]
      BY <1>4, <1>6, <2>1
    <3>6. streamMap' = [streamMap EXCEPT ![s] =
                          Append(@, [job |-> job, from |-> 0, to |-> n])]
      BY <1>7, <3>2
    <3> QED BY <1>7, <3>3, <3>4, <3>5, <3>6 DEF Broadcast!Start
  <2>2. CASE total_bytes_sent > 0
    <3>1. /\ wire[s] # << >>
          /\ wire[s][Len(wire[s])] = [job |-> job, from |-> 0, to |-> total_bytes_sent]
      BY <1>0, <1>1, <1>2, <2>2 DEF Streams, OffsetInFlight, InFlight
    <3>2. wire[s][Len(wire[s])].job = job /\ wire[s][Len(wire[s])].to = total_bytes_sent
      BY <3>1
    <3>3. Taken(wire[s], n) =
            [wire[s] EXCEPT ![Len(wire[s])] = [@ EXCEPT !.to = total_bytes_sent + n]]
      BY <3>1, <3>2 DEF Taken
    <3>4. Broadcast!LastOf(s).job = job /\ Broadcast!LastOf(s).to = total_bytes_sent
      BY <1>7, <3>2 DEF Broadcast!LastOf
    <3>5. total_bytes_sent + n \in total_bytes_sent + 1 .. JobLengths[job]
      BY <1>3, <1>4, <1>6
    <3>6. streamMap' = [streamMap EXCEPT ![s][Len(streamMap[s])].to = total_bytes_sent + n]
      BY <1>7, <3>3
    <3> QED BY <1>7, <3>1, <3>4, <3>5, <3>6 DEF Broadcast!GoOn
  <2> QED BY <1>3, <2>1, <2>2
<1>10. Broadcast!Deliver(s)
  BY <1>3, <1>7, <1>8, <1>9 DEF Broadcast!Deliver
<1> QED BY <1>10 DEF Broadcast!Next

LEMMA NextMapped == AllInv /\ JobsInOrder /\ [Next]_vars => [Broadcast!Next]_(Broadcast!vars)
<1> SUFFICES ASSUME AllInv, JobsInOrder, [Next]_vars
             PROVE  Broadcast!Next \/ UNCHANGED Broadcast!vars
  OBVIOUS
<1>1. CASE EnvNext \/ UNCHANGED vars
  <2>1. UNCHANGED <<socket_handle, mutex, job, wire>>
    BY <1>1 DEF EnvNext, PeerUp, PeerDown, PeerClose, PeerReply, vars, shared, kernel,
                mainVars, jobVars
  <2> QED BY <2>1, QuietMapped
<1> QED BY <1>1, MgrMapped, IdleMapped, PickMapped, SomeMapped, FailMapped DEF Next, MainNext

\* Every behaviour of the two threads is one that SignBroadcast allows, for
\* every table, every list of packets and every number of descriptors.
THEOREM ImplementsBroadcast == Spec => KeepsBroadcast
<1>1. Init => AllInv /\ JobsInOrder /\ Broadcast!Init
  BY InitTC, InitOwnership, InitStreams, InitOrder, InitMapped DEF AllInv
<1>2. AllInv /\ JobsInOrder /\ [Next]_vars => (AllInv /\ JobsInOrder)'
  BY NextTC, NextOwnership, NextStreams, NextOrder DEF AllInv
<1>3. AllInv /\ JobsInOrder /\ [Next]_vars => [Broadcast!Next]_(Broadcast!vars)
  BY NextMapped
<1> QED BY <1>1, <1>2, <1>3, PTL DEF Spec, KeepsBroadcast, Broadcast!Spec

=============================================================================
