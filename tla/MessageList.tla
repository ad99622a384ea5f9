----------------------------- MODULE MessageList -----------------------------
(***************************************************************************)
(* vms_controller_determine_messages of VMScontroller.c, and what main does *)
(* with its result: which payloads are for which groups of signs, merged    *)
(* into a list when any allocation may fail, sent in the order of the list, *)
(* and freed.  A way point is given by its group, the nearest target bearing *)
(* (Bearing), and its speed.  What config.ini adds to each payload is left  *)
(* out.                                                                     *)
(***************************************************************************)
EXTENDS Integers, SequencesExt

CONSTANTS
  Points,  \* way points: records of a group and a speed
  Dirs,    \* CVIBDirCodes
  Pets,    \* times PET has, in the two decimals a payload shows
  Received \* the messages of testjson.json, as sequences of entries

NoPet == -1 \* a PET that is not there
Point == [group : Nat, speed : Nat]

\* An entry of ApproachTrafficInfoList, as sds_json_parse_message leaves it.
ApproachEntry == [dir : Dirs, host : Seq(Points), conflict : BOOLEAN,
                  remote : {"none", "bare", "points"}, pet : Pets \cup {NoPet}]

ASSUME PointsAssumption == Points \subseteq Point
ASSUME PetsAssumption == Pets \subseteq Nat
ASSUME ReceivedAssumption == Received \subseteq Seq(ApproachEntry)

VARIABLES
  list,      \* approach_traffic_info_list
  list_pc,   \* where determine_messages, or main, is
  list_i,    \* the entry, then the message, it is at
  j,         \* the group of that message
  calls,     \* the add_message_to_list calls left of this entry
  messages,  \* the elements the array of messages really has
  count,     \* VMS_MessageList_t.count
  list_live, \* allocated blocks
  failed,    \* calls of add_message_to_list that had no memory
  sent       \* what send_message_to_group_thread_safe was called with

list_vars == <<list, list_pc, list_i, j, calls, messages, count, list_live, failed, sent>>

ListBlock == <<0, "message_list">>
Array == <<0, "messages">>
PayloadOf(k) == <<k, "payload_str">>
IdsOf(k) == <<k, "target_group_ids">>

\* An element that was made room for but is not counted.
Garbage == [payload |-> <<"garbage">>, groups |-> << >>]

\* The payloads; a PET that is not there is shown as 0.
Approaching(e) == <<"approaching", e.dir, Head(e.host).speed>>
Entering == <<"entering">>
Passing(e) == <<"passing", e.dir, Last(e.host).speed>>
Warning(e) == <<"conflict", IF e.pet = NoPet THEN 0 ELSE e.pet>>

\* Mutant: the signs of the oncoming side are left out.
ApproachCallsNear(e) ==
  IF e.host = << >> THEN << >>
  ELSE << <<Approaching(e), Head(e.host).group>>, <<Passing(e), Last(e.host).group>> >>

\* The signs of a group stand on one side, those of its number and 1000 on another.
ApproachCalls(e) ==
  IF e.host = << >> THEN << >>
  ELSE << <<Approaching(e), Head(e.host).group>>,
          <<Entering, Head(e.host).group + 1000>>,
          <<Passing(e), Last(e.host).group>> >>

ConflictCalls(e) ==
  IF e.conflict /\ e.remote = "points" /\ e.host # << >>
    THEN << <<Warning(e), Head(e.host).group>>, <<Warning(e), Head(e.host).group + 1000>> >>
    ELSE << >>

ListInit ==
  /\ list \in Received
  /\ list_pc = "calloc" /\ list_i = 1 /\ j = 1 /\ calls = << >>
  /\ messages = << >> /\ count = 0 /\ list_live = {} /\ failed = {} /\ sent = << >>

NewList ==
  /\ list_pc = "calloc"
  /\ \/ list_live' = {ListBlock} /\ list_pc' = "approach"
     \/ list_pc' = "end" /\ UNCHANGED list_live
  /\ UNCHANGED <<list, list_i, j, calls, messages, count, failed, sent>>

\* Mutant: one pass for both kinds of payload.
ApproachAndConflict ==
  /\ list_pc = "approach" /\ calls = << >>
  /\ IF list_i <= Len(list)
       THEN /\ calls' = ConflictCalls(list[list_i]) \o ApproachCalls(list[list_i])
            /\ list_i' = list_i + 1 /\ UNCHANGED list_pc
       ELSE list_i' = 1 /\ list_pc' = "conflict" /\ UNCHANGED calls
  /\ UNCHANGED <<list, j, messages, count, list_live, failed, sent>>

ApproachPass ==
  /\ list_pc = "approach" /\ calls = << >>
  /\ IF list_i <= Len(list)
       THEN calls' = ApproachCalls(list[list_i]) /\ list_i' = list_i + 1 /\ UNCHANGED list_pc
       ELSE list_i' = 1 /\ list_pc' = "conflict" /\ UNCHANGED calls
  /\ UNCHANGED <<list, j, messages, count, list_live, failed, sent>>

ConflictPass ==
  /\ list_pc = "conflict" /\ calls = << >>
  /\ IF list_i <= Len(list)
       THEN calls' = ConflictCalls(list[list_i]) /\ list_i' = list_i + 1 /\ UNCHANGED list_pc
       ELSE list_i' = 1 /\ list_pc' = "send" /\ UNCHANGED calls
  /\ UNCHANGED <<list, j, messages, count, list_live, failed, sent>>

-----------------------------------------------------------------------------
(* add_message_to_list.                                                     *)

Asked == Head(calls)

\* Mutant: the search stops before the last message.
FoundShort ==
  SelectInSeq(SubSeq(messages, 1, count - 1), LAMBDA m : m.payload = Asked[1])

\* The first message counted with this payload, or 0.
Found == SelectInSeq(SubSeq(messages, 1, count), LAMBDA m : m.payload = Asked[1])

Called ==
  /\ calls # << >>
  /\ calls' = Tail(calls)
  /\ UNCHANGED <<list, list_pc, list_i, j, sent>>

AddKnown ==
  /\ Called
  /\ Found # 0 /\ Asked[2] \in ToSet(messages[Found].groups)
  /\ UNCHANGED <<messages, count, list_live, failed>>

\* Mutant: the group is added without looking whether it is there.
AddGroupAnyway ==
  /\ Called
  /\ Found # 0
  /\ messages' = [messages EXCEPT ![Found].groups = Append(@, Asked[2])]
  /\ UNCHANGED <<count, list_live, failed>>

\* realloc moves the ids or leaves them; num_target_groups is undone if it fails.
AddGroup ==
  /\ Called
  /\ Found # 0 /\ Asked[2] \notin ToSet(messages[Found].groups)
  /\ \/ /\ messages' = [messages EXCEPT ![Found].groups = Append(@, Asked[2])]
        /\ UNCHANGED failed
     \/ failed' = failed \cup {Asked} /\ UNCHANGED messages
  /\ UNCHANGED <<count, list_live>>

\* The array with room for one more than count.
Grown(m) == Append(SubSeq(messages, 1, count), m)

\* Mutant: the new message is not counted.
AddMessageUncounted ==
  /\ Called
  /\ Found = 0
  /\ messages' = Grown([payload |-> Asked[1], groups |-> <<Asked[2]>>])
  /\ list_live' = list_live \cup {Array, PayloadOf(count + 1), IdsOf(count + 1)}
  /\ UNCHANGED <<count, failed>>

AddMessage ==
  /\ Called
  /\ Found = 0
  /\ messages' = Grown([payload |-> Asked[1], groups |-> <<Asked[2]>>])
  /\ count' = count + 1
  /\ list_live' = list_live \cup {Array, PayloadOf(count + 1), IdsOf(count + 1)}
  /\ UNCHANGED failed

\* Mutant: count is not taken back when the array could grow.
AddMessageFailsCounted ==
  /\ Called
  /\ Found = 0
  /\ failed' = failed \cup {Asked}
  /\ \/ UNCHANGED <<messages, count, list_live>>
     \/ messages' = Grown(Garbage) /\ count' = count + 1 /\ list_live' = list_live \cup {Array}

\* Mutant: of two allocations of which one fails, the other is kept.
AddMessageFailsKeeps ==
  /\ Called
  /\ Found = 0
  /\ failed' = failed \cup {Asked}
  /\ \/ UNCHANGED <<messages, list_live>>
     \/ messages' = Grown(Garbage) /\ list_live' = list_live \cup {Array, PayloadOf(count + 1)}
  /\ UNCHANGED count

\* No memory for the array, or for the payload or the ids: what was allocated of
\* these two is freed again.
AddMessageFails ==
  /\ Called
  /\ Found = 0
  /\ failed' = failed \cup {Asked}
  /\ \/ UNCHANGED <<messages, list_live>>
     \/ messages' = Grown(Garbage) /\ list_live' = list_live \cup {Array}
  /\ UNCHANGED count

-----------------------------------------------------------------------------
(* main.                                                                    *)

\* create_text_control_packet may fail: the group is passed over.
Send ==
  /\ list_pc = "send" /\ list_i <= count /\ j <= Len(messages[list_i].groups)
  /\ \/ sent' = Append(sent, <<messages[list_i].payload, messages[list_i].groups[j]>>)
     \/ UNCHANGED sent
  /\ j' = j + 1
  /\ UNCHANGED <<list, list_pc, list_i, calls, messages, count, list_live, failed>>

SendNext ==
  /\ list_pc = "send" /\ list_i <= count /\ j > Len(messages[list_i].groups)
  /\ list_i' = list_i + 1 /\ j' = 1
  /\ UNCHANGED <<list, list_pc, calls, messages, count, list_live, failed, sent>>

\* free_vms_message_list frees what belongs to the messages counted.
FreeList ==
  /\ list_pc = "send" /\ list_i > count
  /\ list_live' = list_live \ ({ListBlock, Array}
                                 \cup UNION {{PayloadOf(k), IdsOf(k)} : k \in 1 .. count})
  /\ messages' = << >> /\ count' = 0
  /\ list_pc' = "end"
  /\ UNCHANGED <<list, list_i, j, calls, failed, sent>>

ListNext ==
  \/ NewList \/ ApproachPass \/ ConflictPass
  \/ AddKnown \/ AddGroup \/ AddMessage \/ AddMessageFails
  \/ Send \/ SendNext \/ FreeList

ListSpec == ListInit /\ [][ListNext]_list_vars

-----------------------------------------------------------------------------
(* Properties.                                                              *)

Payload ==
  ({"approaching", "passing"} \X Dirs \X Nat) \cup {Entering} \cup ({"conflict"} \X Nat)
Call == Payload \X Nat
ListMessage == [payload : Payload \cup {Garbage.payload}, groups : Seq(Nat)]

\* Types; the array has what count says, and one more at most.
ListTypeOK ==
  /\ list \in Received
  /\ list_pc \in {"calloc", "approach", "conflict", "send", "end"}
  /\ list_i \in Nat \ {0} /\ j \in Nat \ {0}
  /\ calls \in Seq(Call) /\ sent \in Seq(Call)
  /\ messages \in Seq(ListMessage)
  /\ count \in Nat /\ Len(messages) \in {count, count + 1}
  /\ list_live \subseteq {ListBlock, Array} \cup UNION {{PayloadOf(k), IdsOf(k)} : k \in 1 .. count}

\* Every call of the message, by the place of its entry in the two passes and its
\* place among the calls for that entry.
CallsOf(n) == IF n <= Len(list) THEN ApproachCalls(list[n]) ELSE ConflictCalls(list[n - Len(list)])
AllCalls == UNION {{n} \X (1 .. Len(CallsOf(n))) : n \in 1 .. 2 * Len(list)}
CallAt(c) == CallsOf(c[1])[c[2]]
Before(b, c) == b[1] < c[1] \/ (b[1] = c[1] /\ b[2] < c[2])

\* What the message is about: who is near, who leaves by which side, who may collide.
WantedOf(e) ==
  LET near == Head(e.host).group
  IN  IF e.host = << >> THEN {}
      ELSE {<<Approaching(e), near>>, <<Entering, near + 1000>>, <<Passing(e), Last(e.host).group>>}
           \cup IF e.conflict /\ e.remote = "points"
                  THEN {<<Warning(e), near>>, <<Warning(e), near + 1000>>} ELSE {}
Wanted == UNION {WantedOf(e) : e \in ToSet(list)}

Listed ==
  UNION {{<<m.payload, g>> : g \in ToSet(m.groups)} : m \in ToSet(SubSeq(messages, 1, count))}

\* The messages counted differ by their payloads, and the groups of each differ.
ListMerged ==
  /\ \A k, l \in 1 .. count : messages[k].payload = messages[l].payload => k = l
  /\ \A k \in 1 .. count :
       /\ messages[k].groups # << >>
       /\ \A a, b \in 1 .. Len(messages[k].groups) :
            messages[k].groups[a] = messages[k].groups[b] => a = b

\* The list is what these calls ask for: every payload once, each with its groups once,
\* in the order of their first calls.
Grouping(cs) ==
  /\ Len(messages) = count /\ ListMerged
  /\ Listed = {CallAt(c) : c \in cs}
  /\ \A k, l \in 1 .. count : k < l =>
       \A c \in cs : CallAt(c)[1] = messages[l].payload =>
         \E b \in cs : Before(b, c) /\ CallAt(b)[1] = messages[k].payload
  /\ \A k \in 1 .. count : \A x, y \in 1 .. Len(messages[k].groups) : x < y =>
       \A c \in cs : CallAt(c) = <<messages[k].payload, messages[k].groups[y]>> =>
         \E b \in cs : Before(b, c) /\ CallAt(b) = <<messages[k].payload, messages[k].groups[x]>>

\* Merging by payload groups the calls and changes nothing else: with memory for
\* all, the list has every payload once, each with its groups once, in the order of
\* their first calls (VMScontroller.c:55-112, 140-207).
ListIsGrouping == list_pc = "send" /\ failed = {} => Grouping(AllCalls)

\* A call without memory loses its own group for its own payload and no other; and
\* no group gets a payload that is not for it.
OnlyFailedLost ==
  list_pc = "send" => Listed \subseteq Wanted /\ Wanted \ failed \subseteq Listed

\* No sign is sent a payload twice for one message.
SentOnce == \A k, l \in DOMAIN sent : sent[k] = sent[l] => k = l

\* A group's warnings come after all its other payloads: a sign that shows what it
\* got last shows the warning, however the payloads were merged.
WarningsLast ==
  \A k, l \in DOMAIN sent :
    k < l /\ sent[k][1][1] = "conflict" => sent[l][1][1] = "conflict"

\* Whichever allocations failed, freeing the list frees everything.
ListNothingLeaks == list_pc = "end" => list_live = {}

\* free_vms_message_list looks at no element that is not there, and every one it
\* looks at has its payload and its ids.
FreedInBounds ==
  list_pc = "send" =>
    \A k \in 1 .. count :
      /\ k \in DOMAIN messages /\ messages[k] # Garbage
      /\ {PayloadOf(k), IdsOf(k)} \subseteq list_live

-----------------------------------------------------------------------------
(* The invariant behind them, in parts.                                     *)

\* Before there is a list there is nothing; the messages counted have a payload and
\* own what they point to until the list is freed.
ListOwned ==
  /\ list_pc = "calloc" => list_live = {} /\ count = 0
  /\ list_pc # "end" =>
       \A k \in 1 .. count :
         messages[k].payload \in Payload /\ {PayloadOf(k), IdsOf(k)} \subseteq list_live
  /\ list_pc = "end" => list_live = {}
  /\ calls # << >> => list_pc \in {"approach", "conflict"}

\* What has been sent stands in the list before the place main is at.
SentBefore(s) ==
  \E k \in 1 .. count : \E a \in 1 .. Len(messages[k].groups) :
    /\ s = <<messages[k].payload, messages[k].groups[a]>>
    /\ k < list_i \/ (k = list_i /\ a < j)
SentInOrder ==
  /\ list_pc \in {"calloc", "approach", "conflict"} => sent = << >>
  /\ list_pc = "send" => \A n \in DOMAIN sent : SentBefore(sent[n])

\* The first part of the inductive invariant: the list, the memory and the progress of
\* main agree.
ListCore == ListTypeOK /\ ListOwned /\ ListMerged /\ SentInOrder /\ SentOnce

IsWarning(payload) == payload[1] = "conflict"

\* The pass over conflicts comes last: until then there are no warnings in the list,
\* and what it adds stands behind the other payloads, or is for a warning that does.
ListOrdered ==
  /\ list_pc \in {"calloc", "approach"} =>
       /\ \A k \in 1 .. Len(calls) : ~IsWarning(calls[k][1])
       /\ \A k \in 1 .. count : ~IsWarning(messages[k].payload)
  /\ list_pc = "conflict" => \A k \in 1 .. Len(calls) : IsWarning(calls[k][1])
  /\ \A k, l \in 1 .. count :
       k < l /\ IsWarning(messages[k].payload) => IsWarning(messages[l].payload)

\* What the passes have come by is in the list, had no memory or is about to be added,
\* and nothing else is.
Accounted == Listed \cup failed \cup ToSet(calls)
ListComplete ==
  /\ list_pc = "calloc" => list_i = 1
  /\ list_pc # "end" => Listed \cup ToSet(calls) \subseteq Wanted
  /\ \A k \in 1 .. Len(list) :
       /\ list_pc \in {"conflict", "send"} \/ (list_pc = "approach" /\ k < list_i) =>
            ToSet(ApproachCalls(list[k])) \subseteq Accounted
       /\ list_pc = "send" \/ (list_pc = "conflict" /\ k < list_i) =>
            ToSet(ConflictCalls(list[k])) \subseteq Accounted

\* As far as the passes have come, the list groups the calls made; those left are the
\* last of the entry the pass is at.
Stage ==
  CASE list_pc \in {"calloc", "approach"} -> list_i - 1
    [] list_pc = "conflict" -> Len(list) + (list_i - 1)
    [] OTHER -> 2 * Len(list)
Made ==
  {c \in AllCalls : c[1] < Stage \/ (c[1] = Stage /\ c[2] <= Len(CallsOf(Stage)) - Len(calls))}
ListGrouped ==
  /\ list_pc \in {"calloc", "approach", "conflict"} => list_i <= Len(list) + 1
  /\ calls # << >> =>
       /\ list_i > 1
       /\ Len(calls) <= Len(CallsOf(Stage))
       /\ \A k \in 1 .. Len(calls) : calls[k] = CallsOf(Stage)[Len(CallsOf(Stage)) - Len(calls) + k]
  /\ failed = {} /\ list_pc # "end" => Grouping(Made)

\* The inductive invariant.
ListIInv == ListCore /\ ListOrdered /\ WarningsLast /\ ListComplete /\ ListGrouped

=============================================================================
