----------------------------- MODULE ServerTable -----------------------------
(***************************************************************************)
(* vms_manager_init and vms_manager_cleanup of VMSconnection_manager.c: how *)
(* the sections of vms_servers.ini become groups of servers, when any       *)
(* allocation may fail; and how the table is torn down, by init itself or   *)
(* by main.                                                                 *)
(***************************************************************************)
EXTENDS Integers, SequencesExt, FiniteSets

CONSTANTS
  Modulus, \* the number of addresses, and of values of an int: 2^32
  Names,   \* names of sections
  IdOf,    \* the number sscanf finds in a name, or NoId
  NoId,
  Files    \* the INI files, as sequences of sections

NoName == ""      \* ends the reading
Address == 0 .. Modulus - 1
Missing == -1     \* a key that is not there
Malformed == -2   \* a value that is not an address
Value == Address \cup {Missing, Malformed}

\* A section and the values of its keys; for the port, whether it is not 0.
Section == [name : Names, start : Value, end : Value, port : BOOLEAN]

ASSUME ModulusAssumption == Modulus \in Nat \ {0} /\ Modulus % 2 = 0
ASSUME NamesAssumption == IdOf \in [Names -> Int \cup {NoId}] /\ NoId \notin Int
ASSUME FilesAssumption == Files \subseteq Seq(Section)

VARIABLES
  ini,           \* the file
  pc,            \* where init, its caller or cleanup is
  section_idx,   \* sections read
  num_groups,    \* VMSServers.num_groups
  groups,        \* the elements the groups array really has
  total_servers_configured,
  mutex,         \* TRUE while the mutex is initialised
  live,          \* allocated blocks
  i              \* groups cleanup has looked at

vars == <<ini, pc, section_idx, num_groups, groups, total_servers_configured, mutex, live, i>>

VmsData == <<0, "vms_data">>
Groups == <<0, "groups">>
Servers(k) == <<k, "servers">>

Init ==
  /\ ini \in Files
  /\ pc = "init" /\ section_idx = 0
  /\ num_groups = 0 /\ groups = << >> /\ total_servers_configured = 0
  /\ mutex = FALSE /\ live = {} /\ i = 0

-----------------------------------------------------------------------------
(* vms_manager_init.                                                        *)

\* ini_getsection finds sections by position, ini_gets the first with a name.
This == ini[section_idx]
Keys(section) == ini[SelectInSeq(ini, LAMBDA s : s.name = section.name)]

Complete(section) ==
  LET k == Keys(section)
  IN  k.start # Missing /\ k.end # Missing /\ k.port

\* A section that is passed over or makes a group.
Makes(section) == IdOf[section.name] # NoId /\ Complete(section)

\* int = (uint32_t - uint32_t) + 1
AsInt(n) == LET u == n % Modulus IN IF 2 * u < Modulus THEN u ELSE u - Modulus
\* Mutant: the end address is left out.
CountOpen(start, end) == AsInt(end - start)
Count(start, end) == AsInt((end - start) + 1)

InitData ==
  /\ pc = "init"
  /\ \/ live' = {VmsData} /\ mutex' = TRUE /\ pc' = "sections"
     \/ pc' = "end" /\ UNCHANGED <<live, mutex>>
  /\ UNCHANGED <<ini, section_idx, num_groups, groups, total_servers_configured, i>>

ReadSection ==
  /\ pc = "sections"
  /\ section_idx < Len(ini)
  /\ LET section == ini[section_idx + 1]
     IN  /\ section.name # NoName
         /\ pc' = IF Makes(section) THEN "grow" ELSE "sections"
  /\ section_idx' = section_idx + 1
  /\ UNCHANGED <<ini, num_groups, groups, total_servers_configured, mutex, live, i>>

NoMoreSections ==
  /\ pc = "sections"
  /\ section_idx < Len(ini) => ini[section_idx + 1].name = NoName
  /\ pc' = "built"
  /\ UNCHANGED <<ini, section_idx, num_groups, groups, total_servers_configured, mutex, live, i>>

\* A group starts with no servers: memset. num_groups counts it already when
\* realloc fails, which leaves the array as it was.
GrowGroups ==
  /\ pc = "grow"
  /\ num_groups' = num_groups + 1
  /\ \/ /\ live' = live \cup {Groups}
        /\ groups' = Append(groups, [group_id |-> IdOf[This.name], num_servers |-> 0,
                                     servers |-> << >>])
        /\ pc' = "range"
     \/ pc' = "cleanup" /\ UNCHANGED <<live, groups>>
  /\ UNCHANGED <<ini, section_idx, total_servers_configured, mutex, i>>

IsRange(keys) ==
  keys.start \in Address /\ keys.end \in Address /\ keys.start <= keys.end

\* An address that is none, or an end before the start: the group stays empty.
FillNothing ==
  /\ pc = "range" /\ ~IsRange(Keys(This))
  /\ pc' = "sections"
  /\ UNCHANGED <<ini, section_idx, num_groups, groups, total_servers_configured, mutex, live, i>>

FillGroup ==
  LET keys == Keys(This)
      n == Count(keys.start, keys.end)
  IN  /\ pc = "range" /\ IsRange(keys) /\ n >= 0
      /\ groups' = [groups EXCEPT ![num_groups] =
           [group_id |-> @.group_id, num_servers |-> n,
            servers |-> [j \in 1 .. n |-> (keys.start + j - 1) % Modulus]]]
      /\ total_servers_configured' = total_servers_configured + n
      /\ live' = live \cup {Servers(num_groups)}
      /\ pc' = "sections"
      /\ UNCHANGED <<ini, section_idx, num_groups, mutex, i>>

\* Mutant: the servers are counted before there is memory for them.
FillFailsCounted ==
  LET n == Count(Keys(This).start, Keys(This).end)
  IN  /\ pc = "range" /\ IsRange(Keys(This))
      /\ groups' = [groups EXCEPT ![num_groups].num_servers = n]
      /\ total_servers_configured' = total_servers_configured + n
      /\ pc' = "cleanup"
      /\ UNCHANGED <<ini, section_idx, num_groups, mutex, live, i>>

\* Mutant: the other sections are read all the same.
FillFailsGoesOn ==
  LET n == Count(Keys(This).start, Keys(This).end)
  IN  /\ pc = "range" /\ IsRange(Keys(This))
      /\ groups' = [groups EXCEPT ![num_groups].num_servers = n]
      /\ UNCHANGED total_servers_configured
      /\ pc' = "sections"
      /\ UNCHANGED <<ini, section_idx, num_groups, mutex, live, i>>

\* No memory for the servers: a negative number is more than there ever is.
FillFails ==
  LET n == Count(Keys(This).start, Keys(This).end)
  IN  /\ pc = "range" /\ IsRange(Keys(This))
      /\ groups' = [groups EXCEPT ![num_groups].num_servers = n]
      /\ UNCHANGED total_servers_configured
      /\ pc' = "cleanup"
      /\ UNCHANGED <<ini, section_idx, num_groups, mutex, live, i>>

-----------------------------------------------------------------------------
(* main has its table until it calls vms_manager_cleanup.                   *)

UseTable ==
  /\ pc = "built"
  /\ pc' = "cleanup"
  /\ UNCHANGED <<ini, section_idx, num_groups, groups, total_servers_configured, mutex, live, i>>

\* Mutant: the loop stops short of the last group.
CleanupGroupShort ==
  /\ pc = "cleanup" /\ i < num_groups
  /\ i' = i + 1
  /\ IF i' <= Len(groups)
       THEN /\ live' = IF i' < num_groups THEN live \ {Servers(i')} ELSE live
            /\ UNCHANGED pc
       ELSE pc' = "undefined" /\ UNCHANGED live
  /\ UNCHANGED <<ini, section_idx, num_groups, groups, total_servers_configured, mutex>>

\* Mutant: the loop includes num_groups.
CleanupGroupOneMore ==
  /\ pc = "cleanup" /\ i <= num_groups
  /\ i' = i + 1
  /\ IF i' <= Len(groups)
       THEN live' = live \ {Servers(i')} /\ UNCHANGED pc
       ELSE pc' = "undefined" /\ UNCHANGED live
  /\ UNCHANGED <<ini, section_idx, num_groups, groups, total_servers_configured, mutex>>

\* Looking at an element the array does not have is undefined behaviour.
CleanupGroup ==
  /\ pc = "cleanup" /\ i < num_groups
  /\ i' = i + 1
  /\ IF i' <= Len(groups)
       THEN live' = live \ {Servers(i')} /\ UNCHANGED pc
       ELSE pc' = "undefined" /\ UNCHANGED live
  /\ UNCHANGED <<ini, section_idx, num_groups, groups, total_servers_configured, mutex>>

CleanupData ==
  /\ pc = "cleanup" /\ i = num_groups
  /\ live' = live \ {Groups, VmsData}
  /\ groups' = << >> /\ num_groups' = 0 /\ total_servers_configured' = 0
  /\ mutex' = FALSE
  /\ pc' = "end"
  /\ UNCHANGED <<ini, section_idx, i>>

Next ==
  \/ InitData \/ ReadSection \/ NoMoreSections
  \/ GrowGroups \/ FillNothing \/ FillGroup \/ FillFails
  \/ UseTable \/ CleanupGroup \/ CleanupData

Spec == Init /\ [][Next]_vars

-----------------------------------------------------------------------------
(* Properties.                                                              *)

States == {"init", "sections", "grow", "range", "built", "cleanup", "undefined", "end"}
Blocks == {VmsData, Groups} \cup {Servers(k) : k \in 1 .. Len(ini)}
Group == [group_id : Int, num_servers : Int, servers : Seq(Address)]

\* Types; there are no more groups than sections.
TypeOK ==
  /\ ini \in Files
  /\ pc \in States
  /\ section_idx \in 0 .. Len(ini)
  /\ num_groups \in 0 .. Len(ini)
  /\ groups \in Seq(Group) /\ Len(groups) <= Len(ini)
  /\ total_servers_configured \in Nat
  /\ mutex \in BOOLEAN
  /\ live \subseteq Blocks
  /\ i \in 0 .. Len(ini)

\* What the connection manager and the sender rely on: the table main gets has as
\* many elements and servers as it says, and nothing negative.
TableUsable ==
  pc = "built" =>
    /\ num_groups = Len(groups)
    /\ \A k \in 1 .. num_groups : groups[k].num_servers = Len(groups[k].servers)

\* The sections read are those before the first without a name; each whose name
\* has a number and whose keys are there makes one group, in their order.
Read == {n \in DOMAIN ini : \A m \in 1 .. n : ini[m].name # NoName}
MadeUpTo(n) == {m \in 1 .. n : Makes(ini[m])}
GroupOf(n) == groups[Cardinality(MadeUpTo(n))]

\* A group has the addresses from the first to the last of the first section with
\* its name; the range of all addresses gives none.
InRange(section) ==
  LET k == Keys(section)
      range == {a \in Address : {k.start, k.end} \subseteq Address /\ k.start <= a /\ a <= k.end}
  IN  IF range = Address THEN {} ELSE range

\* Each address once, in order.
Ascending(list) == \A j, k \in DOMAIN list : j < k => list[j] < list[k]

GroupMatches(n) ==
  /\ GroupOf(n).group_id = IdOf[ini[n].name]
  /\ ToSet(GroupOf(n).servers) = InRange(ini[n]) /\ Ascending(GroupOf(n).servers)

\* The servers, as VMSConnections has them: by their group and their place in it.
Places == UNION {{k} \X DOMAIN groups[k].servers : k \in DOMAIN groups}

GroupsMatchFile ==
  pc = "built" =>
    /\ Len(groups) = Cardinality({n \in Read : Makes(ini[n])})
    /\ \A n \in Read : Makes(ini[n]) => GroupMatches(n)
    /\ total_servers_configured = Cardinality(Places)

\* What a group is filled from are the keys of "the current section", as
\* VMSconnection_manager.c:131 has it.
CurrentSection == pc = "range" => Keys(This) = This

\* However building ended, tearing down leaves no memory and no mutex.
NothingLeaks == pc = "end" => live = {} /\ ~mutex

\* Cleanup frees what is there: "groups may be NULL", as the comment has it (the
\* file was empty, or reading it failed).
CleanupInBounds == pc # "undefined"

\* The only way out of the array is a realloc that failed: it leaves num_groups
\* one too large.
OutOnlyAfterRealloc ==
  pc = "undefined" => num_groups = Len(groups) + 1

-----------------------------------------------------------------------------
(* The invariant behind them, in parts.                                     *)

\* Between two steps, num_groups is right but while it is ahead of the array, and
\* what is allocated belongs to a group cleanup has yet to look at.
Built ==
  /\ pc \in {"init", "sections", "grow", "built"} => num_groups = Len(groups) /\ i = 0
  /\ pc = "range" => num_groups = Len(groups) /\ num_groups > 0 /\ i = 0
  /\ pc = "grow" => IdOf[This.name] \in Int
  /\ pc \in {"init", "sections", "built"} => num_groups <= section_idx
  /\ pc = "grow" => num_groups < section_idx
  /\ pc = "range" => num_groups <= section_idx

\* Of the groups of a table to be torn down, all but the last are there.
Torn ==
  pc = "cleanup" =>
    /\ i <= num_groups /\ num_groups <= section_idx
    /\ num_groups = Len(groups) \/ num_groups = Len(groups) + 1

\* Nothing is allocated but the data, the array and servers of groups still there.
Held ==
  /\ pc = "init" => live = {} /\ ~mutex
  /\ live \subseteq {VmsData, Groups} \cup {Servers(k) : k \in i + 1 .. Len(groups)}
  /\ pc = "end" => live = {} /\ ~mutex

\* As many servers as num_servers says, where something may still use them.
Full ==
  pc \in {"init", "sections", "grow", "range", "built"} =>
    \A k \in 1 .. Len(groups) : groups[k].num_servers = Len(groups[k].servers)

\* The counters, the array and the memory agree.
Kept == TypeOK /\ Built /\ Torn /\ Held /\ Full /\ OutOnlyAfterRealloc

\* Of the sections read so far, each that makes a group has made its own, and filled it,
\* but for the one that is being looked at.
MatchSoFar ==
  pc \in {"init", "sections", "grow", "range", "built"} =>
    LET n == IF pc = "grow" THEN section_idx - 1 ELSE section_idx
    IN  /\ \A m \in 1 .. section_idx : ini[m].name # NoName
        /\ pc \in {"grow", "range"} => section_idx > 0 /\ Makes(This)
        /\ Len(groups) = Cardinality(MadeUpTo(n))
        /\ \A m \in MadeUpTo(n) : GroupMatches(m) \/ (pc = "range" /\ m = n)
        /\ pc = "range" =>
             GroupOf(n).group_id = IdOf[This.name] /\ GroupOf(n).servers = << >>
        /\ IsFiniteSet(Places) /\ total_servers_configured = Cardinality(Places)

\* Reading ends before the first section without a name.
AllRead == pc = "built" /\ section_idx < Len(ini) => ini[section_idx + 1].name = NoName

\* The inductive invariant: the table is sound, and is what the sections read say.
IInv == Kept /\ MatchSoFar /\ AllRead

=============================================================================
