---------------------------- MODULE SignBroadcast ----------------------------
(***************************************************************************)
(* What the program promises a sign, whatever threads and descriptors it   *)
(* uses to keep the promise.  A sign has a link or has none.  The packets  *)
(* are broadcast one after the other to the members of their groups; a     *)
(* link carries whole packets in their order, a packet that is cut off     *)
(* takes the link with it, and a broadcast ends only when every member     *)
(* that has a link has the whole packet.  No link appears in between.      *)
(***************************************************************************)
EXTENDS Integers, Sequences

CONSTANTS
  Server,   \* the signs
  Lengths,  \* Lengths[k] is the number of bytes of packet k
  Members   \* Members[k] is the set of signs packet k is for

Packets == DOMAIN Lengths

VARIABLES
  link,     \* whether a sign has a link
  stream,   \* what went over its link: chunks [job, from, to] of packets
  busy,     \* whether a broadcast is going on
  job       \* the packet it is for, or the next

vars == <<link, stream, busy, job>>

Init ==
  /\ link = [s \in Server |-> FALSE]
  /\ stream = [s \in Server |-> << >>]
  /\ busy = FALSE
  /\ job = 1

LinkUp(s) ==
  /\ ~busy
  /\ ~link[s]
  /\ link' = [link EXCEPT ![s] = TRUE]
  /\ UNCHANGED <<stream, busy, job>>

\* Links may be lost at any time, several at once when the program ends.
LinksDown(S) ==
  /\ link' = [s \in Server |-> link[s] /\ s \notin S]
  /\ stream' = [s \in Server |-> IF s \in S THEN << >> ELSE stream[s]]
  /\ UNCHANGED <<busy, job>>

\* Packets may be passed over before they are begun.
Skip ==
  /\ ~busy
  /\ job' \in job + 1 .. Len(Lengths) + 1
  /\ UNCHANGED <<link, stream, busy>>

Begin ==
  /\ ~busy
  /\ job \in Packets
  /\ busy' = TRUE
  /\ UNCHANGED <<link, stream, job>>

LastOf(s) == stream[s][Len(stream[s])]
Whole(s) == stream[s] # << >> => LastOf(s).to = Lengths[LastOf(s).job]
HasAll(s) == stream[s] # << >> /\ LastOf(s) = [job |-> job, from |-> 0, to |-> Lengths[job]]

\* A new packet starts on a stream of whole, earlier packets.
Start(s) ==
  /\ Whole(s)
  /\ stream[s] # << >> => LastOf(s).job < job
  /\ \E n \in 1 .. Lengths[job] :
       stream' = [stream EXCEPT ![s] = Append(@, [job |-> job, from |-> 0, to |-> n])]

\* The packet goes on where it was left.
GoOn(s) ==
  /\ stream[s] # << >>
  /\ LastOf(s).job = job
  /\ \E n \in LastOf(s).to + 1 .. Lengths[job] :
       stream' = [stream EXCEPT ![s][Len(stream[s])].to = n]

Deliver(s) ==
  /\ busy
  /\ s \in Members[job]
  /\ link[s]
  /\ Start(s) \/ GoOn(s)
  /\ UNCHANGED <<link, busy, job>>

Finish ==
  /\ busy
  /\ \A s \in Members[job] : link[s] => HasAll(s)
  /\ busy' = FALSE
  /\ job' = job + 1
  /\ UNCHANGED <<link, stream>>

Next ==
  \/ \E s \in Server : LinkUp(s) \/ Deliver(s)
  \/ \E S \in SUBSET Server : LinksDown(S)
  \/ Skip
  \/ Begin
  \/ Finish

Spec == Init /\ [][Next]_vars

=============================================================================
