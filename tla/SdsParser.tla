------------------------------ MODULE SdsParser ------------------------------
(***************************************************************************)
(* sds_json_parse_message and free_sds_json_main_message of                *)
(* sds_json_parser.c: which memory blocks exist, which pointers of the     *)
(* message refer to them, and what is freed on which path.  Any allocation *)
(* may fail.  What the fields hold is left out: a part of the JSON text is *)
(* well formed or it is not.                                               *)
(***************************************************************************)
EXTENDS Integers, Sequences

CONSTANT Messages   \* the JSON texts to parse

\* An entry of ApproachTrafficInfoList: whether its mandatory fields are there,
\* its optional ConflictPos, its HostObject and its optional RemoteObject. An
\* object is malformed itself or in a way point, or has or lacks way points.
Part == {"none", "good", "bad"}
Object == {"bad", "bare", "points"}
Entry == [fields : BOOLEAN, conflict : Part, host : Object,
          remote : Object \cup {"none"}]
Message == [json : BOOLEAN, header : BOOLEAN, list : BOOLEAN, entries : Seq(Entry)]

ASSUME MessagesAssumption == Messages \subseteq Message

VARIABLES
  msg,         \* the text being parsed
  pc,          \* where the parser, or its caller, is
  idx,         \* the entry it is at
  parse_ok,
  live,        \* allocated blocks
  ptr,         \* pointers that are not NULL, named as the block they were set to
  doubleFree   \* blocks that were freed when they were not allocated

vars == <<msg, pc, idx, parse_ok, live, ptr, doubleFree>>

Json == <<0, "root_json">>
Main == <<0, "msg_data">>
List == <<0, "approach_traffic_info_list">>
Conflict(k) == <<k, "conflict_pos">>
HostPoints(k) == <<k, "host way_point_list">>
Remote(k) == <<k, "remote_object">>
RemotePoints(k) == <<k, "remote way_point_list">>
OfEntry(k) == {Conflict(k), HostPoints(k), Remote(k), RemotePoints(k)}

States == {"parse", "alloc", "header", "list", "conflict", "host", "remote", "delete",
           "parsed", "free", "end"}

Init ==
  /\ msg \in Messages
  /\ pc = "parse" /\ idx = 1 /\ parse_ok = TRUE
  /\ live = {} /\ ptr = {} /\ doubleFree = {}

Entries == msg.entries
This == Entries[idx]

Alloc(B) ==
  /\ live' = live \cup B
  /\ ptr' = ptr \cup B
  /\ UNCHANGED doubleFree

\* free() of every pointer of B that is not NULL; whoever frees says what
\* becomes of the pointers.
Free(B) ==
  /\ live' = live \ (B \cap ptr)
  /\ doubleFree' = doubleFree \cup ((B \cap ptr) \ live)

NoHeap == UNCHANGED <<live, ptr, doubleFree>>

-----------------------------------------------------------------------------
(* sds_json_parse_message up to its list.                                   *)

ParseJson ==
  /\ pc = "parse"
  /\ \/ msg.json /\ Alloc({Json}) /\ pc' = "alloc"
     \/ NoHeap /\ pc' = "end"
  /\ UNCHANGED <<msg, idx, parse_ok>>

AllocMessage ==
  /\ pc = "alloc"
  /\ \/ Alloc({Main}) /\ pc' = "header"
     \/ Free({Json}) /\ ptr' = ptr \ {Json} /\ pc' = "end"
  /\ UNCHANGED <<msg, idx, parse_ok>>

Header ==
  /\ pc = "header"
  /\ parse_ok' = (msg.header /\ msg.list)
  /\ pc' = IF parse_ok' THEN "list" ELSE "delete"
  /\ NoHeap
  /\ UNCHANGED <<msg, idx>>

AllocList ==
  /\ pc = "list"
  /\ \/ /\ Entries = << >>
        /\ pc' = "delete" /\ NoHeap /\ UNCHANGED parse_ok
     \/ /\ Entries # << >>
        /\ \/ Alloc({List}) /\ pc' = "conflict" /\ UNCHANGED parse_ok
           \/ NoHeap /\ pc' = "delete" /\ parse_ok' = FALSE
  /\ UNCHANGED <<msg, idx>>

-----------------------------------------------------------------------------
(* parse_approach_traffic_info_data, for one entry.                         *)

EntryFails == pc' = "delete" /\ parse_ok' = FALSE /\ UNCHANGED <<msg, idx>>
GoOn(where) == pc' = where /\ UNCHANGED <<msg, idx, parse_ok>>
EntryDone ==
  /\ IF idx < Len(Entries) THEN pc' = "conflict" /\ idx' = idx + 1
                           ELSE pc' = "delete" /\ idx' = idx
  /\ UNCHANGED <<msg, parse_ok>>

\* A block that is freed before anyone else sees it is as good as never made.
EntryConflict ==
  /\ pc = "conflict"
  /\ \/ This.fields /\ This.conflict = "none" /\ NoHeap /\ GoOn("host")
     \/ This.fields /\ This.conflict = "good" /\ Alloc({Conflict(idx)}) /\ GoOn("host")
     \/ (This.fields => This.conflict # "none") /\ NoHeap /\ EntryFails

\* parse_traffic_object: an object without way points allocates nothing; a
\* failure leaves nothing allocated and the pointer NULL.
Parses(object) == object \in {"bare", "points"}
MayFail(object) == object # "bare"
PointsOf(object, block) == IF object = "points" THEN {block} ELSE {}

\* Mutant: the conflict position is freed and its pointer kept.
EntryHostKeepsPointer ==
  /\ pc = "host"
  /\ \/ /\ Parses(This.host)
        /\ Alloc(PointsOf(This.host, HostPoints(idx)))
        /\ GoOn("remote")
     \/ /\ MayFail(This.host)
        /\ Free({Conflict(idx)})
        /\ UNCHANGED ptr
        /\ EntryFails

\* Mutant: the pointer is cleared, the conflict position not freed.
EntryHostForgets ==
  /\ pc = "host"
  /\ \/ /\ Parses(This.host)
        /\ Alloc(PointsOf(This.host, HostPoints(idx)))
        /\ GoOn("remote")
     \/ /\ MayFail(This.host)
        /\ ptr' = ptr \ {Conflict(idx)}
        /\ UNCHANGED <<live, doubleFree>>
        /\ EntryFails

EntryHost ==
  /\ pc = "host"
  /\ \/ /\ Parses(This.host)
        /\ Alloc(PointsOf(This.host, HostPoints(idx)))
        /\ GoOn("remote")
     \/ /\ MayFail(This.host)
        /\ Free({Conflict(idx)})
        /\ ptr' = ptr \ {Conflict(idx)}
        /\ EntryFails

\* Mutant: a remote object that does not parse is passed over.
EntryRemoteGoesOn ==
  /\ pc = "remote"
  /\ \/ This.remote = "none" /\ NoHeap /\ EntryDone
     \/ /\ Parses(This.remote)
        /\ Alloc({Remote(idx)} \cup PointsOf(This.remote, RemotePoints(idx)))
        /\ EntryDone
     \/ /\ This.remote # "none"
        /\ Free({Conflict(idx), HostPoints(idx)})
        /\ UNCHANGED ptr
        /\ EntryDone

\* A failure - of the object's own allocation, too - frees what the entry has
\* and leaves its pointers as they are.
EntryRemote ==
  /\ pc = "remote"
  /\ \/ This.remote = "none" /\ NoHeap /\ EntryDone
     \/ /\ Parses(This.remote)
        /\ Alloc({Remote(idx)} \cup PointsOf(This.remote, RemotePoints(idx)))
        /\ EntryDone
     \/ /\ This.remote # "none"
        /\ Free({Conflict(idx), HostPoints(idx)})
        /\ UNCHANGED ptr
        /\ EntryFails

-----------------------------------------------------------------------------
(* The end of the parse, and free_sds_json_main_message.                    *)

DeleteJson ==
  /\ pc = "delete"
  /\ Free({Json})
  /\ ptr' = ptr \ {Json}
  /\ pc' = IF parse_ok THEN "parsed" ELSE "free"
  /\ idx' = 1
  /\ UNCHANGED <<msg, parse_ok>>

\* The caller has a message; it frees it when it has used it.
UseMessage ==
  /\ pc = "parsed"
  /\ pc' = "free"
  /\ NoHeap
  /\ UNCHANGED <<msg, idx, parse_ok>>

\* Mutant: the loop runs to num_approach_traffic_info, that one included.
FreeEntryPastEnd ==
  /\ pc = "free"
  /\ List \in ptr
  /\ idx <= Len(Entries) + 1
  /\ Free(OfEntry(idx))
  /\ ptr' = ptr \ OfEntry(idx)
  /\ idx' = idx + 1
  /\ UNCHANGED <<msg, pc, parse_ok>>

FreeEntry ==
  /\ pc = "free"
  /\ List \in ptr
  /\ idx <= Len(Entries)
  /\ Free(OfEntry(idx))
  /\ ptr' = ptr \ OfEntry(idx)
  /\ idx' = idx + 1
  /\ UNCHANGED <<msg, pc, parse_ok>>

FreeMessage ==
  /\ pc = "free"
  /\ List \in ptr => idx > Len(Entries)
  /\ Free({List, Main})
  /\ ptr' = ptr \ {List, Main}
  /\ pc' = "end"
  /\ UNCHANGED <<msg, idx, parse_ok>>

Next ==
  \/ ParseJson \/ AllocMessage \/ Header \/ AllocList
  \/ EntryConflict \/ EntryHost \/ EntryRemote
  \/ DeleteJson \/ UseMessage \/ FreeEntry \/ FreeMessage

Spec == Init /\ [][Next]_vars

-----------------------------------------------------------------------------
(* Properties.                                                              *)

Blocks == {Json, Main, List} \cup UNION {OfEntry(k) : k \in 1 .. Len(Entries)}

\* Types; no block is known that the message cannot have.
TypeOK ==
  /\ msg \in Messages
  /\ pc \in States
  /\ idx \in 1 .. Len(Entries) + 1
  /\ parse_ok \in BOOLEAN
  /\ live \subseteq Blocks
  /\ ptr \subseteq Blocks
  /\ doubleFree \subseteq Blocks

\* On every path, whatever is malformed and whichever allocation fails, all that
\* was allocated has been freed in the end, and until then something points to it.
NothingLeaks ==
  /\ live \subseteq ptr
  /\ pc = "end" => live = {}

\* The caller gets a message whose pointers are NULL or good.
NoDangling == pc = "parsed" => ptr \subseteq live

\* What line 288 frees, "the partially allocated C struct"
\* (sds_json_parser.c:288), is allocated: nothing is freed twice.
FreedOnce == doubleFree = {}

\* Freeing twice has one cause only: an entry with a remote object, the last
\* one looked at, whose conflict position and way points were given up.
TwiceOnlyAfterRemote ==
  \A b \in doubleFree : \E k \in 1 .. Len(Entries) :
    /\ b \in {Conflict(k), HostPoints(k)}
    /\ Entries[k].remote # "none"
    /\ ~parse_ok
    /\ \A l \in k + 1 .. Len(Entries) : live \cap OfEntry(l) = {}

-----------------------------------------------------------------------------
(* The invariant behind them, in parts.                                     *)

Parsing == {"conflict", "host", "remote"}

\* What may be pointed to, by the place the parser has reached.
Known ==
  /\ pc \in {"parse", "end"} => ptr = {}
  /\ pc = "alloc" => ptr \subseteq {Json}
  /\ pc \in {"header", "list"} => ptr \subseteq {Json, Main}
  /\ pc \in {"parsed", "free"} => Json \notin ptr
  /\ List \notin ptr => ptr \subseteq {Json, Main}
  /\ pc \in {"parse", "alloc", "header", "list", "parsed"} => idx = 1
  /\ pc \in Parsing => idx <= Len(Entries) /\ List \in ptr

\* The entries the parser has not reached have no pointers, nor have those that
\* have been freed.
Fresh ==
  /\ \A k \in idx + 1 .. Len(Entries) : pc \in Parsing => ptr \cap OfEntry(k) = {}
  /\ pc = "conflict" => ptr \cap OfEntry(idx) = {}
  /\ pc = "host" => ptr \cap OfEntry(idx) \subseteq {Conflict(idx)}
  /\ pc = "remote" => ptr \cap OfEntry(idx) \subseteq {Conflict(idx), HostPoints(idx)}
  /\ \A k \in 1 .. idx - 1 : pc = "free" => ptr \cap OfEntry(k) = {}

\* A parse that has not failed has good pointers only.
Verdict ==
  /\ pc \in Parsing \cup {"parse", "alloc", "header", "list", "parsed"} => parse_ok
  /\ parse_ok => ptr \subseteq live /\ doubleFree = {}

\* The same cause for pointers that dangle, and still may be freed.
DanglingOnlyAfterRemote ==
  \A b \in ptr \ live : \E k \in 1 .. Len(Entries) :
    /\ b \in {Conflict(k), HostPoints(k)}
    /\ Entries[k].remote # "none"
    /\ ~parse_ok
    /\ \A l \in k + 1 .. Len(Entries) : live \cap OfEntry(l) = {}

\* The inductive invariant: the control state, the list and the pointers agree.
IInv ==
  /\ TypeOK /\ NothingLeaks
  /\ Known /\ Fresh /\ Verdict
  /\ DanglingOnlyAfterRemote /\ TwiceOnlyAfterRemote

=============================================================================
