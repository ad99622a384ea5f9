---------------------------- MODULE MCMainThread ----------------------------
(* The inputs of the main thread.  What is large has a name of its own, for  *)
(* TLC to compute it once.                                                   *)
EXTENDS MainThread

\* Messages of up to two entries, malformed anywhere.
MCEntry ==
  {e \in Entry : /\ ~e.fields => e.conflict = "none" /\ e.host = "bare" /\ e.remote = "none"
                 /\ e.conflict = "bad" => e.host = "bare" /\ e.remote = "none"
                 /\ e.host = "bad" => e.remote = "none"}

EveryMessage ==
  {[json |-> TRUE, header |-> TRUE, list |-> TRUE, entries |-> e] :
     e \in UNION {[1 .. k -> MCEntry] : k \in 0 .. 2}}
  \cup {[json |-> x, header |-> y, list |-> z, entries |-> << >>] :
          x \in BOOLEAN, y \in BOOLEAN, z \in BOOLEAN}
MCMessages == EveryMessage

\* Messages of up to two entries whose payloads and groups coincide or not.
MCPoints == [group : {45, 135}, speed : {7, 8}]
East == [group |-> 45, speed |-> 7]
South == [group |-> 135, speed |-> 7]

Moving == [dir : {10}, host : BoundedSeq(MCPoints, 2), conflict : {FALSE},
           remote : {"none"}, pet : {NoPet}]
Colliding == [dir : {10}, host : {<< >>, <<East>>, <<South>>}, conflict : BOOLEAN,
              remote : {"none", "bare", "points"}, pet : {NoPet, 0, 1}]

Crossing == {e \in Moving : Len(e.host) = 2 /\ Last(e.host).speed = 7}
Warned == {e \in Colliding : e.conflict /\ e.remote = "points" /\ e.host # << >> /\ e.pet = 0}

\* The first group and speed are as good as any other.
Crossings == {s \in [1 .. 2 -> Crossing] : Head(s[1].host) = East}

EveryList == [1 .. 1 -> Moving \cup Colliding] \cup Crossings \cup [1 .. 2 -> Warned]
MCReceived == EveryList

\* The targets of vms_controller_determine_messages.
MCTargets == <<45, 135, 225, 315>>

\* Every payload of up to the longest length.
Units == << <<1, 0>>, <<3, 2>>, <<2, 3>>, <<1, 3, 2, 3>> >>
MCOctets == {[lead |-> k, units |-> IF k = 0 THEN <<0, 0>> ELSE Units[k]] : k \in 0 .. 4}
EveryPayload == BoundedSeq(MCOctets, MaxPayload)
MCPayloads == EveryPayload

\* Files around the lengths that matter.
Lengths == {0, 1, 2, UInt32 - 20, UInt32 - 19, UInt32 - 18, UInt32 - 12, UInt32}
MCImageFiles == {[k \in 1 .. l |-> (k * k + 1) % Radix] : l \in Lengths}
MCPlaces == { <<0, 1, 2, 3>>, <<-1, -4, 4, -2>> }

=============================================================================
