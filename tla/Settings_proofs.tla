--------------------------- MODULE Settings_proofs ----------------------------
(* Proofs about ServerTable, for every file, every number of addresses and    *)
(* every allocation that fails; and about IniWrite, for every file whose lines *)
(* fit the buffer, every buffer and every call.                               *)
EXTENDS ServerTable, IniWrite, Recursion_proofs, FiniteSetTheorems,
        SequenceTheorems, TLAPS

-----------------------------------------------------------------------------
(* Helpers.                                                                 *)

\* A file is a finite sequence; the name of a section has a number or NoId.
LEMMA FileType ==
  ASSUME ini \in Files
  PROVE  /\ ini \in Seq(Section) /\ Len(ini) \in Nat
         /\ \A k \in 1 .. Len(ini) : Makes(ini[k]) => IdOf[ini[k].name] \in Int
<1>1. ini \in Seq(Section) /\ Len(ini) \in Nat
  BY FilesAssumption
<1>a. \A k \in 1 .. Len(ini) : ini[k] \in Section
  BY <1>1
<1>2. \A k \in 1 .. Len(ini) : ini[k].name \in Names
  BY <1>a DEF Section
<1>3. QED
  BY <1>1, <1>2, NamesAssumption DEF Makes

\* Conversion to int gives an integer.
LEMMA CountType ==
  ASSUME NEW start \in Address, NEW end \in Address
  PROVE  Count(start, end) \in Int
BY ModulusAssumption DEF Count, AsInt, Address

\* An address computed in 32 bits is an address.
LEMMA Wrapped ==
  ASSUME NEW a \in Int
  PROVE  a % Modulus \in Address
<1>1. Modulus \in Nat \ {0}
  BY ModulusAssumption
<1>2. QED
  BY <1>1 DEF Address

\* A list of n addresses is a sequence of that length.
LEMMA ListOfAddresses ==
  ASSUME NEW n \in Nat, NEW f \in [1 .. n -> Address]
  PROVE  f \in Seq(Address) /\ Len(f) = n
OBVIOUS

\* Replacing an element of a sequence.
LEMMA ReplacedIs ==
  ASSUME NEW S, NEW s \in Seq(S), NEW k \in 1 .. Len(s), NEW e \in S
  PROVE  /\ [s EXCEPT ![k] = e] \in Seq(S) /\ Len([s EXCEPT ![k] = e]) = Len(s)
         /\ \A l \in 1 .. Len(s) : [s EXCEPT ![k] = e][l] = IF l = k THEN e ELSE s[l]
OBVIOUS

\* Adding one at the end.
LEMMA Appended ==
  ASSUME NEW S, NEW s \in Seq(S), NEW e \in S
  PROVE  /\ Append(s, e) \in Seq(S) /\ Len(Append(s, e)) = Len(s) + 1
         /\ \A l \in 1 .. Len(s) + 1 : Append(s, e)[l] = IF l <= Len(s) THEN s[l] ELSE e
OBVIOUS

\* Blocks are told apart.
LEMMA Apart ==
  /\ VmsData # Groups
  /\ \A k \in Nat \ {0} : Servers(k) # VmsData /\ Servers(k) # Groups
  /\ \A k, l \in Nat : k # l => Servers(k) # Servers(l)
BY DEF VmsData, Groups, Servers

-----------------------------------------------------------------------------
(* Counters, array and memory.                                              *)

\* Before init there is nothing.
LEMMA InitKept == Init => Kept
<1> SUFFICES ASSUME Init PROVE Kept
  OBVIOUS
<1>1. Len(ini) \in Nat
  BY FileType DEF Init
<1>2. groups \in Seq(Group) /\ Len(groups) = 0
  BY DEF Init
<1>3. TypeOK
  <2>1. live \subseteq Blocks
    BY DEF Init
  <2>2. /\ ini \in Files /\ pc \in States /\ mutex \in BOOLEAN
        /\ section_idx = 0 /\ num_groups = 0 /\ total_servers_configured = 0 /\ i = 0
    BY DEF Init, States
  <2>3. 0 \in 0 .. Len(ini) /\ 0 \in Nat /\ 0 <= Len(ini)
    BY <1>1
  <2>4. QED
    BY <1>2, <2>1, <2>2, <2>3 DEF TypeOK
<1>4. QED
  BY <1>2, <1>3 DEF Init, Kept, Built, Torn, Held, Full, OutOnlyAfterRealloc

\* Every step keeps it.
LEMMA StepKept == Kept /\ [Next]_vars => Kept'
<1> SUFFICES ASSUME Kept, [Next]_vars PROVE Kept'
  OBVIOUS
<1> USE DEF Kept, TypeOK, Built, Torn, Held, Full, OutOnlyAfterRealloc, States
<1>0. Len(ini) \in Nat /\ Len(groups) \in Nat
  BY FileType
<1>1. CASE InitData
  <2>1. TypeOK'
    BY <1>1, <1>0 DEF InitData, Blocks
  <2>2. Built' /\ Torn' /\ OutOnlyAfterRealloc'
    BY <1>1, <1>0, FileType DEF InitData, This
  <2>3. Held'
    BY <1>1, <1>0 DEF InitData
  <2>4. Full'
    BY <1>1, <1>0 DEF InitData
  <2>5. QED
    BY <2>1, <2>2, <2>3, <2>4
<1>2. CASE ReadSection
  <2>c. section_idx \in Nat /\ section_idx < Len(ini)
    BY <1>2, <1>0 DEF ReadSection
  <2>a. /\ pc = "sections" /\ section_idx + 1 \in 1 .. Len(ini)
        /\ section_idx' = section_idx + 1
        /\ pc' = IF Makes(ini[section_idx + 1]) THEN "grow" ELSE "sections"
        /\ UNCHANGED <<ini, num_groups, groups, total_servers_configured, mutex, live, i>>
    BY <1>2, <1>0, <2>c DEF ReadSection
  <2>b. pc' = "grow" => IdOf[This.name]' \in Int
    BY <2>a, FileType DEF This
  <2>1. TypeOK'
    BY <1>0, <2>a DEF Blocks
  <2>2. Built' /\ Torn' /\ OutOnlyAfterRealloc'
    BY <1>0, <2>a, <2>b
  <2>3. Held'
    BY <1>2, <1>0 DEF ReadSection
  <2>4. Full'
    BY <1>2, <1>0 DEF ReadSection
  <2>5. QED
    BY <2>1, <2>2, <2>3, <2>4
<1>3. CASE NoMoreSections
  <2>1. TypeOK'
    BY <1>3, <1>0 DEF NoMoreSections, Blocks
  <2>2. Built' /\ Torn' /\ OutOnlyAfterRealloc'
    BY <1>3, <1>0, FileType DEF NoMoreSections, This
  <2>3. Held'
    BY <1>3, <1>0 DEF NoMoreSections
  <2>4. Full'
    BY <1>3, <1>0 DEF NoMoreSections
  <2>5. QED
    BY <2>1, <2>2, <2>3, <2>4
<1>4. CASE GrowGroups
  <2> DEFINE new == [group_id |-> IdOf[This.name], num_servers |-> 0, servers |-> << >>]
  <2>1. new \in Group /\ new.num_servers = Len(new.servers)
    BY <1>4 DEF GrowGroups, Group
  <2>2. \/ groups' = Append(groups, new) /\ pc' = "range"
        \/ groups' = groups /\ pc' = "cleanup"
    BY <1>4 DEF GrowGroups
  <2> HIDE DEF new
  <2>3. /\ groups' \in Seq(Group)
        /\ Len(groups') = IF pc' = "range" THEN Len(groups) + 1 ELSE Len(groups)
    BY <2>1, <2>2, Appended
  <2>4. TypeOK'
    BY <1>4, <1>0, <2>3 DEF GrowGroups, Blocks
  <2>5. Built' /\ Torn' /\ OutOnlyAfterRealloc'
    BY <1>4, <1>0, <2>3 DEF GrowGroups
  <2>6. Held'
    BY <1>4, <1>0, <2>3 DEF GrowGroups
  <2>7. Full'
    <3>1. CASE groups' = groups
      BY <1>4, <3>1 DEF GrowGroups
    <3>2. CASE groups' = Append(groups, new)
      <4>1. \A k \in 1 .. Len(groups) + 1 :
              groups'[k] = IF k <= Len(groups) THEN groups[k] ELSE new
        BY <2>1, <3>2, Appended
      <4>2. pc = "grow" /\ Len(groups') = Len(groups) + 1
        BY <1>4, <2>1, <3>2, Appended DEF GrowGroups
      <4>3. QED
        BY <4>1, <4>2, <1>0, <2>1
    <3>3. QED
      BY <2>2, <3>1, <3>2
  <2>8. QED
    BY <2>4, <2>5, <2>6, <2>7
<1>5. CASE FillNothing
  <2>1. TypeOK'
    BY <1>5, <1>0 DEF FillNothing, Blocks
  <2>2. Built' /\ Torn' /\ OutOnlyAfterRealloc'
    BY <1>5, <1>0, FileType DEF FillNothing, This
  <2>3. Held'
    BY <1>5, <1>0 DEF FillNothing
  <2>4. Full'
    BY <1>5, <1>0 DEF FillNothing
  <2>5. QED
    BY <2>1, <2>2, <2>3, <2>4
<1>6. CASE FillGroup
  <2> DEFINE keys == Keys(This)
             n == Count(keys.start, keys.end)
             servers == [j \in 1 .. n |-> (keys.start + j - 1) % Modulus]
             group == [group_id |-> groups[num_groups].group_id, num_servers |-> n,
                       servers |-> servers]
  <2>1. /\ keys.start \in Address /\ keys.end \in Address /\ n >= 0
        /\ groups' = [groups EXCEPT ![num_groups] = group]
    BY <1>6 DEF FillGroup, IsRange
  <2>2. num_groups \in 1 .. Len(groups) /\ groups[num_groups] \in Group
    BY <1>6, <1>0 DEF FillGroup
  <2>3. n \in Nat
    BY <2>1, CountType
  <2>4. servers \in Seq(Address) /\ Len(servers) = n
    <3>1. \A j \in 1 .. n : (keys.start + j - 1) % Modulus \in Address
      <4> HIDE DEF keys, n
      <4> QED
        <5>1. keys.start \in Int
          BY <2>1, ModulusAssumption DEF Address
        <5>2. \A j \in 1 .. n : keys.start + j - 1 \in Int
          BY <5>1, <2>3
        <5>3. QED
          BY <5>2, Wrapped
    <3>2. servers \in [1 .. n -> Address]
      BY <3>1
    <3> HIDE DEF servers, n
    <3>3. QED
      BY <2>3, <3>2, ListOfAddresses
  <2> HIDE DEF servers, n, keys
  <2>5. group \in Group /\ group.num_servers = Len(group.servers)
    <3>1. groups[num_groups].group_id \in Int
      BY <2>2 DEF Group
    <3>2. QED
      BY <3>1, <2>3, <2>4 DEF Group
  <2> HIDE DEF group
  <2>6. groups' \in Seq(Group) /\ Len(groups') = Len(groups)
    BY <2>1, <2>2, <2>5, ReplacedIs
  <2>7. /\ pc = "range" /\ pc' = "sections"
        /\ UNCHANGED <<ini, section_idx, num_groups, mutex, i>>
        /\ total_servers_configured' = total_servers_configured + n
        /\ live' = live \cup {Servers(num_groups)}
    BY <1>6 DEF FillGroup, n, keys
  <2>8. TypeOK' /\ Built' /\ Torn' /\ OutOnlyAfterRealloc'
    BY <1>0, <2>2, <2>3, <2>6, <2>7 DEF Blocks
  <2>9. Held'
    BY <1>0, <2>2, <2>6, <2>7
  <2>10. Full'
    BY <1>0, <2>1, <2>2, <2>5, <2>7, ReplacedIs
  <2>11. QED
    BY <2>8, <2>9, <2>10
<1>7. CASE FillFails
  <2> DEFINE n == Count(Keys(This).start, Keys(This).end)
             group == [groups[num_groups] EXCEPT !.num_servers = n]
  <2>1. n \in Int
    BY <1>7, CountType DEF FillFails, IsRange
  <2>2. groups' = [groups EXCEPT ![num_groups] = group]
    BY <1>7 DEF FillFails
  <2>3. num_groups \in 1 .. Len(groups) /\ groups[num_groups] \in Group
    BY <1>7, <1>0 DEF FillFails
  <2> HIDE DEF n
  <2>4. group \in Group
    BY <2>1, <2>3 DEF Group
  <2> HIDE DEF group
  <2>5. groups' \in Seq(Group) /\ Len(groups') = Len(groups)
    BY <2>2, <2>3, <2>4, ReplacedIs
  <2>6. /\ pc = "range" /\ pc' = "cleanup"
        /\ UNCHANGED <<ini, section_idx, num_groups, total_servers_configured, mutex, live, i>>
    BY <1>7 DEF FillFails
  <2>7. QED
    BY <1>0, <2>5, <2>6 DEF Blocks
<1>8. CASE UseTable
  <2>1. TypeOK'
    BY <1>8, <1>0 DEF UseTable, Blocks
  <2>2. Built' /\ Torn' /\ OutOnlyAfterRealloc'
    BY <1>8, <1>0, FileType DEF UseTable, This
  <2>3. Held'
    BY <1>8, <1>0 DEF UseTable
  <2>4. Full'
    BY <1>8, <1>0 DEF UseTable
  <2>5. QED
    BY <2>1, <2>2, <2>3, <2>4
<1>9. CASE CleanupGroup
  <2>1. TypeOK'
    BY <1>9, <1>0 DEF CleanupGroup, Blocks
  <2>2. Built' /\ Torn' /\ OutOnlyAfterRealloc'
    BY <1>9, <1>0, FileType DEF CleanupGroup, This
  <2>3. Held'
    BY <1>9, <1>0 DEF CleanupGroup
  <2>4. Full'
    BY <1>9, <1>0 DEF CleanupGroup
  <2>5. QED
    BY <2>1, <2>2, <2>3, <2>4
<1>10. CASE CleanupData
  <2>a. groups' \in Seq(Group) /\ Len(groups') = 0
    BY <1>10 DEF CleanupData
  <2>b. pc' = "end" /\ num_groups' = 0 /\ total_servers_configured' = 0
    BY <1>10 DEF CleanupData
  <2>1. TypeOK'
    <3>1. /\ UNCHANGED <<ini, section_idx, i>> /\ mutex' = FALSE
          /\ live' \subseteq live /\ Blocks' = Blocks
      BY <1>10 DEF CleanupData, Blocks
    <3>2. 0 \in 0 .. Len(ini) /\ 0 \in Nat /\ 0 <= Len(ini) /\ "end" \in States
      BY <1>0
    <3> HIDE DEF States
    <3>3. QED
      BY <2>a, <2>b, <3>1, <3>2
  <2>2. Built' /\ Torn' /\ OutOnlyAfterRealloc'
    BY <1>10, <1>0, FileType DEF CleanupData, This
  <2>3. Held'
    BY <1>10, <1>0 DEF CleanupData
  <2>4. Full'
    BY <1>10, <1>0 DEF CleanupData
  <2>5. QED
    BY <2>1, <2>2, <2>3, <2>4
<1>11. CASE UNCHANGED vars
  BY <1>11, <1>0 DEF vars, This, Blocks
<1>12. QED
  BY <1>1, <1>2, <1>3, <1>4, <1>5, <1>6, <1>7, <1>8, <1>9, <1>10, <1>11 DEF Next

-----------------------------------------------------------------------------
(* The groups and the sections that make them.                              *)

\* While the file stays, the same sections make groups.
LEMMA SameFile ==
  ASSUME ini' = ini
  PROVE  /\ \A s : Keys(s)' = Keys(s) /\ Makes(s)' = Makes(s)
         /\ \A s : InRange(s)' = InRange(s)
         /\ \A n : MadeUpTo(n)' = MadeUpTo(n)
<1>1. \A s : Keys(s)' = Keys(s)
  BY DEF Keys, SelectInSeq
<1>2. \A s : Makes(s)' = Makes(s)
  BY <1>1 DEF Makes, Complete
<1>3. \A s : InRange(s)' = InRange(s)
  BY <1>1 DEF InRange
<1>4. \A n : MadeUpTo(n)' = MadeUpTo(n)
  BY <1>2 DEF MadeUpTo
<1>5. QED
  BY <1>1, <1>2, <1>3, <1>4

\* The sections that make a group are finitely many.
LEMMA MadeFinite ==
  ASSUME NEW n \in Nat
  PROVE  IsFiniteSet(MadeUpTo(n)) /\ Cardinality(MadeUpTo(n)) \in Nat
<1>1. IsFiniteSet(1 .. n)
  BY FS_Interval
<1>2. MadeUpTo(n) \subseteq 1 .. n
  BY DEF MadeUpTo
<1>3. QED
  BY <1>1, <1>2, FS_Subset, FS_CardinalityType

\* One section more is one group more, or none.
LEMMA OneMore ==
  ASSUME NEW n \in Nat
  PROVE  /\ Makes(ini[n + 1]) =>
              /\ MadeUpTo(n + 1) = MadeUpTo(n) \cup {n + 1}
              /\ Cardinality(MadeUpTo(n + 1)) = Cardinality(MadeUpTo(n)) + 1
         /\ ~Makes(ini[n + 1]) => MadeUpTo(n + 1) = MadeUpTo(n)
<1>1. Makes(ini[n + 1]) => MadeUpTo(n + 1) = MadeUpTo(n) \cup {n + 1}
  BY DEF MadeUpTo
<1>2. ~Makes(ini[n + 1]) => MadeUpTo(n + 1) = MadeUpTo(n)
  BY DEF MadeUpTo
<1>3. n + 1 \notin MadeUpTo(n)
  BY DEF MadeUpTo
<1>4. QED
  BY <1>1, <1>2, <1>3, MadeFinite, FS_AddElement

\* A section that makes a group has one of the groups made so far, and an earlier one
\* an earlier group.
LEMMA OwnGroup ==
  ASSUME NEW n \in Nat, NEW m \in MadeUpTo(n)
  PROVE  /\ m \in Nat \ {0} /\ m <= n
         /\ Cardinality(MadeUpTo(m)) \in 1 .. Cardinality(MadeUpTo(n))
         /\ n \in MadeUpTo(n) /\ m # n =>
              Cardinality(MadeUpTo(m)) < Cardinality(MadeUpTo(n))
<1>1. m \in Nat \ {0} /\ m <= n /\ Makes(ini[m])
  BY DEF MadeUpTo
<1>2. MadeUpTo(m) \subseteq MadeUpTo(n) /\ m \in MadeUpTo(m)
  BY <1>1 DEF MadeUpTo
<1>3. IsFiniteSet(MadeUpTo(m)) /\ IsFiniteSet(MadeUpTo(n))
  BY <1>1, MadeFinite
<1>4. Cardinality(MadeUpTo(m)) <= Cardinality(MadeUpTo(n))
  BY <1>2, <1>3, FS_Subset
<1>5. Cardinality(MadeUpTo(m)) # 0
  BY <1>2, <1>3, FS_EmptySet
<1>6. ASSUME n \in MadeUpTo(n), m # n
      PROVE  Cardinality(MadeUpTo(m)) < Cardinality(MadeUpTo(n))
  <2>1. n \notin MadeUpTo(m)
    BY <1>1, <1>6 DEF MadeUpTo
  <2>2. MadeUpTo(m) # MadeUpTo(n)
    BY <1>6, <2>1
  <2>3. Cardinality(MadeUpTo(m)) # Cardinality(MadeUpTo(n))
    BY <1>2, <1>3, <2>2, FS_Subset
  <2>4. QED
    BY <1>1, <1>4, <2>3, MadeFinite
<1>7. QED
  BY <1>1, <1>4, <1>5, <1>6, MadeFinite

-----------------------------------------------------------------------------
(* The addresses of a section.                                              *)

\* What is no range has no addresses.
LEMMA NoRange ==
  ASSUME NEW s, ~IsRange(Keys(s))
  PROVE  InRange(s) = {}
<1> DEFINE k == Keys(s)
           range == {a \in Address : {k.start, k.end} \subseteq Address
                                     /\ k.start <= a /\ a <= k.end}
<1>1. range = {}
  <2>1. \A a, b, c \in Address : a <= b /\ b <= c => a <= c
    BY ModulusAssumption DEF Address
  <2>2. QED
    BY <2>1 DEF IsRange
<1>2. QED
  BY <1>1 DEF InRange

\* A list of consecutive addresses.
LEMMA Consecutive ==
  ASSUME NEW start \in Address, NEW n \in Nat, start + n <= Modulus,
         NEW list, DOMAIN list = 1 .. n, \A j \in 1 .. n : list[j] = start + j - 1
  PROVE  /\ ToSet(list) = {a \in Address : start <= a /\ a < start + n}
         /\ Ascending(list)
<1>1. Modulus \in Nat \ {0} /\ start \in Nat /\ start < Modulus
  BY ModulusAssumption DEF Address
<1>2. ASSUME NEW j \in 1 .. n, NEW k \in 1 .. n, j < k PROVE list[j] < list[k]
  BY <1>1, <1>2
<1>3. Ascending(list)
  BY <1>2 DEF Ascending
<1>4. ASSUME NEW a \in Address, start <= a, a < start + n
      PROVE  \E j \in DOMAIN list : list[j] = a
  <2>1. a \in Nat
    BY ModulusAssumption DEF Address
  <2>2. a - start + 1 \in 1 .. n /\ start + (a - start + 1) - 1 = a
    BY <1>1, <1>4, <2>1
  <2>3. QED
    BY <2>2
<1>5. ASSUME NEW j \in 1 .. n
      PROVE  list[j] \in Address /\ start <= list[j] /\ list[j] < start + n
  BY <1>1 DEF Address
<1>6. QED
  BY <1>3, <1>4, <1>5 DEF ToSet

\* Addresses are counted in 32 bits, which no range of them exceeds.
LEMMA Listed ==
  ASSUME NEW start \in Address, NEW n \in Nat, start + n <= Modulus,
         NEW list, list = [j \in 1 .. n |-> (start + j - 1) % Modulus]
  PROVE  /\ ToSet(list) = {a \in Address : start <= a /\ a < start + n}
         /\ Ascending(list)
<1>1. Modulus \in Nat \ {0} /\ start \in Nat /\ start < Modulus
  BY ModulusAssumption DEF Address
<1>2. \A j \in 1 .. n : (start + j - 1) % Modulus = start + j - 1
  <2> TAKE j \in 1 .. n
  <2>1. start + j - 1 \in 0 .. Modulus - 1
    BY <1>1
  <2>2. \A u \in 0 .. Modulus - 1 : u % Modulus = u
    BY <1>1
  <2>3. QED
    BY <2>1, <2>2
<1>3. DOMAIN list = 1 .. n /\ \A j \in 1 .. n : list[j] = start + j - 1
  BY <1>2
<1>4. QED
  BY <1>3, Consecutive

\* The number of addresses is right, but for the range of all addresses, which is 0 in
\* 32 bits, and what is no int, which is negative.
LEMMA RightCount ==
  ASSUME NEW start \in Address, NEW end \in Address, start <= end,
         Count(start, end) >= 0
  PROVE  Count(start, end) = IF start = 0 /\ end = Modulus - 1 THEN 0 ELSE end - start + 1
<1>1. Modulus \in Nat \ {0} /\ start \in 0 .. Modulus - 1 /\ end \in 0 .. Modulus - 1
  BY ModulusAssumption DEF Address
<1> DEFINE d == (end - start) + 1
<1>2. d \in 1 .. Modulus /\ (d = Modulus <=> start = 0 /\ end = Modulus - 1)
  BY <1>1
<1>3. d % Modulus = IF d = Modulus THEN 0 ELSE d
  <2>1. \A u \in 0 .. Modulus - 1 : u % Modulus = u
    BY <1>1
  <2>2. Modulus % Modulus = 0
    BY <1>1
  <2>3. d # Modulus => d \in 0 .. Modulus - 1
    BY <1>1, <1>2
  <2>4. QED
    BY <2>1, <2>2, <2>3
<1>4. Count(start, end) = IF 2 * (d % Modulus) < Modulus THEN d % Modulus
                          ELSE (d % Modulus) - Modulus
  BY DEF Count, AsInt
<1>5. QED
  BY <1>1, <1>2, <1>3, <1>4

\* A group that was filled has the addresses of its section.
LEMMA FullRange ==
  ASSUME NEW s, IsRange(Keys(s)), NEW n, n = Count(Keys(s).start, Keys(s).end), n >= 0,
         NEW list, list = [j \in 1 .. n |-> (Keys(s).start + j - 1) % Modulus]
  PROVE  ToSet(list) = InRange(s) /\ Ascending(list)
<1> DEFINE start == Keys(s).start
           end == Keys(s).end
           range == {a \in Address : start <= a /\ a <= end}
<1>1. start \in Address /\ end \in Address /\ start <= end
  BY DEF IsRange
<1>2. InRange(s) = IF range = Address THEN {} ELSE range
  BY <1>1 DEF InRange
<1>3. n = IF start = 0 /\ end = Modulus - 1 THEN 0 ELSE end - start + 1
  BY <1>1, RightCount
<1> HIDE DEF start, end
<1>4. Modulus \in Nat \ {0} /\ start \in 0 .. Modulus - 1 /\ end \in 0 .. Modulus - 1
  BY <1>1, ModulusAssumption DEF Address
<1>5. range = Address <=> start = 0 /\ end = Modulus - 1
  BY <1>4 DEF Address
<1>6. n \in Nat /\ start + n <= Modulus
  BY <1>3, <1>4
<1>7. /\ ToSet(list) = {a \in Address : start <= a /\ a < start + n}
      /\ Ascending(list)
  BY <1>1, <1>6, Listed DEF start
<1>8. CASE start = 0 /\ end = Modulus - 1
  <2>1. {a \in Address : start <= a /\ a < start + n} = {}
    BY <1>3, <1>4, <1>8 DEF Address
  <2>2. QED
    BY <1>2, <1>5, <1>7, <1>8, <2>1
<1>9. CASE ~(start = 0 /\ end = Modulus - 1)
  <2>1. start + n = end + 1
    BY <1>3, <1>4, <1>9
  <2>2. range = {a \in Address : start <= a /\ a < start + n}
    BY <1>4, <2>1 DEF Address
  <2>3. QED
    BY <1>2, <1>5, <1>7, <1>9, <2>2
<1>10. QED
  BY <1>8, <1>9

-----------------------------------------------------------------------------
(* The steps.                                                               *)

\* The numbers from 1 to n are n.
LEMMA CardinalityOfInterval ==
  ASSUME NEW n \in Nat
  PROVE  IsFiniteSet(1 .. n) /\ Cardinality(1 .. n) = n
<1>1. IsFiniteSet(1 .. n) /\ Cardinality(1 .. n) = IF 1 > n THEN 0 ELSE n - 1 + 1
  BY FS_Interval
<1>2. QED
  BY <1>1

\* A group without servers adds no server to the table.
LEMMA NewGroupEmpty ==
  ASSUME groups \in Seq(Group), NEW g, g.servers = << >>, groups' = Append(groups, g)
  PROVE  Places' = Places
<1>1. /\ DOMAIN groups' = DOMAIN groups \cup {Len(groups) + 1}
      /\ \A k \in DOMAIN groups : groups'[k] = groups[k]
      /\ groups'[Len(groups) + 1] = g
  OBVIOUS
<1>2. DOMAIN g.servers = {}
  OBVIOUS
<1>3. QED
  BY <1>1, <1>2 DEF Places

\* An empty group that is filled adds its own.
LEMMA FilledGroup ==
  ASSUME groups \in Seq(Group), NEW k \in DOMAIN groups, NEW g, NEW n \in Nat,
         groups[k].servers = << >>, DOMAIN g.servers = 1 .. n,
         groups' = [groups EXCEPT ![k] = g], IsFiniteSet(Places)
  PROVE  IsFiniteSet(Places') /\ Cardinality(Places') = Cardinality(Places) + n
<1>1. /\ DOMAIN groups' = DOMAIN groups
      /\ \A l \in DOMAIN groups : groups'[l] = IF l = k THEN g ELSE groups[l]
  OBVIOUS
<1>2. DOMAIN groups[k].servers = {}
  OBVIOUS
<1>3. Places' = Places \cup ({k} \X (1 .. n))
  BY <1>1, <1>2 DEF Places
<1>4. Places \cap ({k} \X (1 .. n)) = {}
  BY <1>2 DEF Places
<1>5. IsFiniteSet({k}) /\ Cardinality({k}) = 1
  BY FS_Singleton
<1>6. IsFiniteSet(1 .. n) /\ Cardinality(1 .. n) = n
  BY CardinalityOfInterval
<1>7. IsFiniteSet({k} \X (1 .. n)) /\ Cardinality({k} \X (1 .. n)) = n
  <2>1. /\ IsFiniteSet({k} \X (1 .. n))
        /\ Cardinality({k} \X (1 .. n)) = Cardinality({k}) * Cardinality(1 .. n)
    BY <1>5, <1>6, FS_Product
  <2>2. 1 * n = n
    OBVIOUS
  <2>3. QED
    BY <1>5, <1>6, <2>1, <2>2
<1>8. Cardinality(Places) \in Nat
  BY FS_CardinalityType
<1>9. QED
  <2> DEFINE own == {k} \X (1 .. n)
  <2>1. /\ IsFiniteSet(own) /\ Cardinality(own) = n
        /\ Places' = Places \cup own /\ Places \cap own = {}
    BY <1>3, <1>4, <1>7
  <2> HIDE DEF own
  <2>2. /\ IsFiniteSet(Places \cup own)
        /\ Cardinality(Places \cup own)
             = Cardinality(Places) + Cardinality(own) - Cardinality(Places \cap own)
    BY <2>1, FS_Union
  <2>3. Cardinality(Places \cap own) = 0
    BY <2>1, FS_EmptySet
  <2>4. Cardinality(Places \cup own) = Cardinality(Places) + n
    BY <1>8, <2>1, <2>2, <2>3
  <2>5. QED
    BY <2>1, <2>2, <2>4

\* Before init there is nothing.
LEMMA InitInv == Init => IInv
<1> SUFFICES ASSUME Init PROVE IInv
  OBVIOUS
<1>1. MadeUpTo(0) = {} /\ Places = {} /\ Len(groups) = 0
  BY DEF Init, MadeUpTo, Places
<1>2. IsFiniteSet({}) /\ Cardinality({}) = 0
  BY FS_EmptySet
<1>3. MatchSoFar
  BY <1>1, <1>2 DEF Init, MatchSoFar
<1>4. QED
  BY <1>3, InitKept DEF IInv, Init, AllRead

\* A section is read: it is passed over, or about to make a group.
LEMMA MatchReadSection == IInv /\ ReadSection => MatchSoFar'
<1> SUFFICES ASSUME IInv, ReadSection PROVE MatchSoFar'
  OBVIOUS
<1>1. /\ section_idx \in Nat /\ section_idx' = section_idx + 1 /\ pc = "sections"
      /\ ini' = ini /\ groups' = groups /\ total_servers_configured' = total_servers_configured
      /\ ini[section_idx + 1].name # NoName
      /\ pc' = IF Makes(ini[section_idx + 1]) THEN "grow" ELSE "sections"
  BY FileType DEF IInv, Kept, TypeOK, ReadSection
<1>2. /\ \A m \in 1 .. section_idx : ini[m].name # NoName
      /\ Len(groups) = Cardinality(MadeUpTo(section_idx))
      /\ \A m \in MadeUpTo(section_idx) : GroupMatches(m)
      /\ IsFiniteSet(Places) /\ total_servers_configured = Cardinality(Places)
  BY <1>1 DEF IInv, MatchSoFar
<1>3. Places' = Places /\ Len(groups)' = Len(groups)
  BY <1>1 DEF Places
<1>4. \A m : GroupMatches(m)' = GroupMatches(m)
  BY <1>1, SameFile DEF GroupMatches, GroupOf
<1>5. \A m \in 1 .. section_idx + 1 : ini[m].name # NoName
  BY <1>1, <1>2
<1>6. CASE Makes(ini[section_idx + 1])
  <2>1. pc' = "grow" /\ section_idx' - 1 = section_idx /\ Makes(This)'
    BY <1>1, <1>6, SameFile DEF This
  <2>2. QED
    BY <1>1, <1>2, <1>3, <1>4, <1>5, <2>1, SameFile DEF MatchSoFar
<1>7. CASE ~Makes(ini[section_idx + 1])
  <2>1. pc' = "sections" /\ MadeUpTo(section_idx + 1) = MadeUpTo(section_idx)
    BY <1>1, <1>7, OneMore
  <2>2. QED
    BY <1>1, <1>2, <1>3, <1>4, <1>5, <2>1, SameFile DEF MatchSoFar
<1>8. QED
  BY <1>6, <1>7

\* A group is made for it, still without servers.
LEMMA MatchGrowGroups == IInv /\ GrowGroups => MatchSoFar'
<1> SUFFICES ASSUME IInv, GrowGroups PROVE MatchSoFar'
  OBVIOUS
<1> DEFINE new == [group_id |-> IdOf[This.name], num_servers |-> 0, servers |-> << >>]
<1>1. /\ pc = "grow" /\ section_idx \in Nat \ {0} /\ groups \in Seq(Group)
      /\ ini' = ini /\ section_idx' = section_idx
      /\ total_servers_configured' = total_servers_configured
      /\ (groups' = Append(groups, new) /\ pc' = "range") \/ pc' = "cleanup"
  BY FileType DEF IInv, Kept, TypeOK, MatchSoFar, GrowGroups
<1>2. /\ \A m \in 1 .. section_idx : ini[m].name # NoName
      /\ Makes(ini[section_idx])
      /\ Len(groups) = Cardinality(MadeUpTo(section_idx - 1))
      /\ \A m \in MadeUpTo(section_idx - 1) : GroupMatches(m)
      /\ IsFiniteSet(Places) /\ total_servers_configured = Cardinality(Places)
  BY <1>1 DEF IInv, MatchSoFar, This
<1>3. CASE pc' = "cleanup"
  BY <1>3 DEF MatchSoFar
<1>4. CASE groups' = Append(groups, new) /\ pc' = "range"
  <2> DEFINE k == section_idx - 1
  <2>1. k \in Nat /\ k + 1 = section_idx
    BY <1>1
  <2>2. /\ MadeUpTo(section_idx) = MadeUpTo(k) \cup {section_idx}
        /\ Cardinality(MadeUpTo(section_idx)) = Len(groups) + 1
    BY <1>2, <2>1, OneMore
  <2>3. /\ Len(groups') = Len(groups) + 1 /\ groups'[Len(groups) + 1] = new
        /\ \A l \in 1 .. Len(groups) : groups'[l] = groups[l]
    BY <1>1, <1>4
  <2>4. Places' = Places
    BY <1>1, <1>4, NewGroupEmpty
  <2>5. ASSUME NEW m \in MadeUpTo(k) PROVE GroupMatches(m)'
    <3>1. Cardinality(MadeUpTo(m)) \in 1 .. Len(groups)
      BY <1>2, <2>1, OwnGroup
    <3>2. GroupOf(m)' = GroupOf(m)
      BY <1>1, <2>3, <3>1, SameFile DEF GroupOf
    <3>3. QED
      BY <1>1, <1>2, <3>2, SameFile DEF GroupMatches
  <2>6. GroupOf(section_idx)' = new
    BY <1>1, <2>2, <2>3, SameFile DEF GroupOf
  <2>7. \A m \in MadeUpTo(section_idx) : GroupMatches(m)' \/ m = section_idx
    BY <2>2, <2>5
  <2>8. This' = This
    BY <1>1 DEF This
  <2> HIDE DEF k
  <2>9. /\ GroupOf(section_idx)'.group_id = IdOf[This'.name]
        /\ GroupOf(section_idx)'.servers = << >>
    BY <2>6, <2>8
  <2>10. Makes(This)'
    BY <1>1, <1>2, <2>8, SameFile DEF This
  <2>11. Len(groups') = Cardinality(MadeUpTo(section_idx)')
    BY <1>1, <2>2, <2>3, SameFile
  <2>12. \A m \in MadeUpTo(section_idx)' : GroupMatches(m)' \/ m = section_idx
    BY <1>1, <2>7, SameFile
  <2> HIDE DEF new
  <2>13. QED
    BY <1>1, <1>2, <1>4, <2>4, <2>9, <2>10, <2>11, <2>12 DEF MatchSoFar
<1>5. QED
  BY <1>1, <1>3, <1>4

\* A section whose addresses are no range leaves its group as it is.
LEMMA MatchFillNothing == IInv /\ FillNothing => MatchSoFar'
<1> SUFFICES ASSUME IInv, FillNothing PROVE MatchSoFar'
  OBVIOUS
<1>1. /\ pc = "range" /\ pc' = "sections" /\ ~IsRange(Keys(This))
      /\ ini' = ini /\ section_idx' = section_idx /\ groups' = groups
      /\ total_servers_configured' = total_servers_configured
  BY DEF FillNothing
<1>2. /\ \A m \in 1 .. section_idx : ini[m].name # NoName
      /\ Len(groups) = Cardinality(MadeUpTo(section_idx))
      /\ \A m \in MadeUpTo(section_idx) : GroupMatches(m) \/ m = section_idx
      /\ GroupOf(section_idx).group_id = IdOf[This.name]
      /\ GroupOf(section_idx).servers = << >>
      /\ IsFiniteSet(Places) /\ total_servers_configured = Cardinality(Places)
  BY <1>1 DEF IInv, MatchSoFar
<1>3. GroupMatches(section_idx)
  <2>1. InRange(ini[section_idx]) = {}
    BY <1>1, NoRange DEF This
  <2>2. ToSet(<< >>) = {} /\ Ascending(<< >>)
    BY DEF ToSet, Ascending
  <2>3. QED
    BY <1>2, <2>1, <2>2 DEF GroupMatches, This
<1>4. \A m : GroupMatches(m)' = GroupMatches(m)
  BY <1>1, SameFile DEF GroupMatches, GroupOf
<1>5. Places' = Places /\ Len(groups)' = Len(groups)
  BY <1>1 DEF Places
<1>6. QED
  BY <1>1, <1>2, <1>3, <1>4, <1>5, SameFile DEF MatchSoFar

\* A section with a range fills its own group with it.
LEMMA MatchFillGroup == IInv /\ FillGroup => MatchSoFar'
<1> SUFFICES ASSUME IInv, FillGroup PROVE MatchSoFar'
  OBVIOUS
<1> DEFINE keys == Keys(This)
           n == Count(keys.start, keys.end)
           list == [j \in 1 .. n |-> (keys.start + j - 1) % Modulus]
           group == [group_id |-> groups[num_groups].group_id, num_servers |-> n,
                     servers |-> list]
<1>1. /\ pc = "range" /\ pc' = "sections" /\ IsRange(keys) /\ n >= 0
      /\ ini' = ini /\ section_idx' = section_idx /\ section_idx \in Nat
      /\ groups \in Seq(Group) /\ num_groups = Len(groups) /\ num_groups \in DOMAIN groups
      /\ groups' = [groups EXCEPT ![num_groups] = group]
      /\ total_servers_configured' = total_servers_configured + n
  BY FileType DEF IInv, Kept, TypeOK, Built, FillGroup
<1>2. /\ \A m \in 1 .. section_idx : ini[m].name # NoName
      /\ section_idx > 0 /\ Makes(This)
      /\ Len(groups) = Cardinality(MadeUpTo(section_idx))
      /\ \A m \in MadeUpTo(section_idx) : GroupMatches(m) \/ m = section_idx
      /\ GroupOf(section_idx).group_id = IdOf[This.name]
      /\ GroupOf(section_idx).servers = << >>
      /\ IsFiniteSet(Places) /\ total_servers_configured = Cardinality(Places)
  BY <1>1 DEF IInv, MatchSoFar
<1>3. n \in Nat
  <2>1. n \in Int
    BY <1>1, CountType DEF IsRange
  <2>2. QED
    BY <1>1, <2>1
<1>4. ToSet(list) = InRange(This) /\ Ascending(list)
  BY <1>1, FullRange
<1>5. group.servers = list /\ group.group_id = groups[num_groups].group_id
  OBVIOUS
<1>6. DOMAIN list = 1 .. n
  OBVIOUS
<1> HIDE DEF keys, n, list, group
<1>7. GroupOf(section_idx) = groups[num_groups]
  BY <1>1, <1>2 DEF GroupOf
<1>8. IsFiniteSet(Places') /\ total_servers_configured' = Cardinality(Places')
  BY <1>1, <1>2, <1>3, <1>5, <1>6, <1>7, FilledGroup
<1>9. /\ Len(groups') = Len(groups) /\ groups'[num_groups] = group
      /\ \A l \in 1 .. Len(groups) : l # num_groups => groups'[l] = groups[l]
  BY <1>1
<1>10. GroupOf(section_idx)' = group
  BY <1>1, <1>2, <1>9, SameFile DEF GroupOf
<1>11. GroupMatches(section_idx)'
  BY <1>1, <1>2, <1>4, <1>5, <1>7, <1>10, SameFile DEF GroupMatches, This
<1>12. ASSUME NEW m \in MadeUpTo(section_idx), m # section_idx PROVE GroupMatches(m)'
  <2>1. section_idx \in MadeUpTo(section_idx)
    BY <1>1, <1>2 DEF MadeUpTo, This
  <2>2. /\ Cardinality(MadeUpTo(m)) \in 1 .. Len(groups)
        /\ Cardinality(MadeUpTo(m)) # num_groups
    BY <1>1, <1>2, <1>12, <2>1, OwnGroup
  <2>3. GroupOf(m)' = GroupOf(m)
    BY <1>1, <1>9, <2>2, SameFile DEF GroupOf
  <2>4. QED
    BY <1>1, <1>2, <1>12, <2>3, SameFile DEF GroupMatches
<1>13. \A m \in MadeUpTo(section_idx)' : GroupMatches(m)'
  BY <1>1, <1>11, <1>12, SameFile
<1>14. Len(groups') = Cardinality(MadeUpTo(section_idx)')
  BY <1>1, <1>2, <1>9, SameFile
<1>15. QED
  BY <1>1, <1>2, <1>8, <1>13, <1>14 DEF MatchSoFar

\* What is done to the groups before there are any, or when reading is over, leaves
\* them as they are.
LEMMA MatchRests ==
  ASSUME MatchSoFar, UNCHANGED <<ini, section_idx, groups, total_servers_configured>>,
         \/ pc \in {"init", "sections"} /\ pc' \in {"sections", "built", "end"}
         \/ pc' = pc
  PROVE  MatchSoFar'
<1>1. \A m : GroupMatches(m)' = GroupMatches(m)
  BY SameFile DEF GroupMatches, GroupOf
<1>2. Places' = Places /\ This' = This /\ Len(groups)' = Len(groups)
  BY DEF Places, This
<1>3. \A m : GroupOf(m)' = GroupOf(m)
  BY SameFile DEF GroupOf
<1>4. Makes(This)' = Makes(This)
  BY SameFile DEF This
<1>5. CASE pc' = pc
  BY <1>1, <1>2, <1>3, <1>4, <1>5, SameFile DEF MatchSoFar
<1>6. CASE pc \in {"init", "sections"} /\ pc' \in {"sections", "built"}
  BY <1>1, <1>2, <1>6, SameFile DEF MatchSoFar
<1>7. CASE pc' = "end"
  BY <1>7 DEF MatchSoFar
<1>8. QED
  BY <1>5, <1>6, <1>7

\* Every step keeps the invariant.
LEMMA StepInv == IInv /\ [Next]_vars => IInv'
<1> SUFFICES ASSUME IInv, [Next]_vars PROVE IInv'
  OBVIOUS
<1>1. Kept'
  BY StepKept DEF IInv
<1>2. MatchSoFar'
  <2>1. CASE InitData \/ NoMoreSections \/ UNCHANGED vars
    BY <2>1, MatchRests DEF IInv, InitData, NoMoreSections, vars
  <2>2. CASE FillFails \/ UseTable \/ CleanupGroup \/ CleanupData
    <3>1. pc' \in {"cleanup", "undefined", "end"}
      BY <2>2 DEF FillFails, UseTable, CleanupGroup, CleanupData
    <3>2. QED
      BY <3>1 DEF MatchSoFar
  <2>3. QED
    BY <2>1, <2>2, MatchReadSection, MatchGrowGroups, MatchFillNothing, MatchFillGroup
       DEF Next
<1>3. AllRead'
  <2>1. CASE NoMoreSections
    BY <2>1, FileType DEF NoMoreSections, AllRead, IInv, Kept, TypeOK
  <2>2. CASE UNCHANGED vars
    BY <2>2 DEF vars, IInv, AllRead
  <2>3. CASE Next /\ ~NoMoreSections
    <3>1. pc' # "built"
      BY <2>3 DEF Next, InitData, ReadSection, GrowGroups, FillNothing, FillGroup, FillFails,
         UseTable, CleanupGroup, CleanupData
    <3>2. QED
      BY <3>1 DEF AllRead
  <2>4. QED
    BY <2>1, <2>2, <2>3
<1>4. QED
  BY <1>1, <1>2, <1>3 DEF IInv

-----------------------------------------------------------------------------
(* Theorems.                                                                *)

\* The inductive invariant holds for every file and every failing allocation.
THEOREM TableInvariant == Spec => []IInv
<1>1. Init => IInv
  BY InitInv
<1>2. IInv /\ [Next]_vars => IInv'
  BY StepInv
<1>3. QED
  BY <1>1, <1>2, PTL DEF Spec

\* The table main gets is what VMSConnections assumes of it: counted right, with
\* as many servers as it says.
THEOREM TableIsUsable == Spec => []TableUsable
<1>1. IInv => TableUsable
  BY DEF IInv, Kept, Built, Full, TableUsable
<1>2. QED
  BY <1>1, TableInvariant, PTL

\* The table main gets is what the sections of the file say, each group with the
\* addresses of the first section with its name, however many sections and addresses.
THEOREM TableMatchesFile == Spec => []GroupsMatchFile
<1>1. IInv => GroupsMatchFile
  <2> SUFFICES ASSUME IInv, pc = "built" PROVE GroupsMatchFile
    BY DEF GroupsMatchFile
  <2>1. /\ section_idx \in Nat /\ section_idx <= Len(ini) /\ Len(ini) \in Nat
        /\ DOMAIN ini = 1 .. Len(ini)
    BY FileType DEF IInv, Kept, TypeOK
  <2>2. /\ \A m \in 1 .. section_idx : ini[m].name # NoName
        /\ section_idx < Len(ini) => ini[section_idx + 1].name = NoName
        /\ Len(groups) = Cardinality(MadeUpTo(section_idx))
        /\ \A m \in MadeUpTo(section_idx) : GroupMatches(m)
        /\ total_servers_configured = Cardinality(Places)
    BY DEF IInv, MatchSoFar, AllRead
  <2>3. Read = 1 .. section_idx
    BY <2>1, <2>2 DEF Read
  <2>4. {n \in Read : Makes(ini[n])} = MadeUpTo(section_idx)
    BY <2>3 DEF MadeUpTo
  <2>5. \A n \in Read : Makes(ini[n]) => GroupMatches(n)
    BY <2>2, <2>4
  <2>6. QED
    BY <2>2, <2>4, <2>5 DEF GroupsMatchFile
<1>2. QED
  BY <1>1, TableInvariant, PTL

\* Nothing is left of a table that has been torn down, or never was built.
THEOREM NothingIsLost == Spec => []NothingLeaks
<1>1. IInv => NothingLeaks
  BY DEF IInv, Kept, Held, NothingLeaks
<1>2. QED
  BY <1>1, TableInvariant, PTL

\* Cleanup leaves the array only after a realloc that failed.
THEOREM OneWayOut == Spec => []OutOnlyAfterRealloc
<1>1. IInv => OutOnlyAfterRealloc
  BY DEF IInv, Kept
<1>2. QED
  BY <1>1, TableInvariant, PTL

\* The configuration, the table being built and its blocks keep their types.
THEOREM TypeCorrect == Spec => []TypeOK
<1>1. IInv => TypeOK
  BY DEF IInv, Kept
<1>2. QED
  BY <1>1, TableInvariant, PTL

-----------------------------------------------------------------------------
(* Lines and their sizes.                                                    *)

\* The recursion of SizeUpTo.
LEMMA SizeUpToIs ==
  ASSUME Readable(file)
  PROVE  /\ SizeUpTo \in [0 .. Len(file) -> Nat] /\ SizeUpTo[0] = 0
         /\ \A k \in 1 .. Len(file) : SizeUpTo[k] = SizeUpTo[k - 1] + Size(file[k])
<1> DEFINE m == Len(file)
           G == [p \in Nat \X (1 .. m) |-> p[1] + Size(file[p[2]])]
           R(s) == s = [n \in 0 .. m |-> IF n = 0 THEN 0 ELSE s[n - 1] + Size(file[n])]
<1>1. m \in Nat /\ \A k \in 1 .. m : Size(file[k]) \in Nat
  BY DEF Readable
<1>2. G \in [Nat \X (1 .. m) -> Nat]
  BY <1>1
<1>3. PICK f \in Runs(Nat, 0, G, m) : TRUE
  <2> HIDE DEF G, m
  <2>1. QED
    BY <1>1, <1>2, RunExists
<1>4. /\ f \in [0 .. m -> Nat] /\ f[0] = 0
      /\ \A k \in 1 .. m : f[k] = G[<<f[k - 1], k>>]
  BY <1>3 DEF Runs
<1>5. ASSUME NEW k \in 1 .. m PROVE f[k] = f[k - 1] + Size(file[k])
  <2>0. k - 1 \in 0 .. m
    BY <1>1
  <2>1. k - 1 \in 0 .. m /\ f[k - 1] \in Nat
    BY <1>4, <2>0
  <2>2. <<f[k - 1], k>> \in Nat \X (1 .. m)
    BY <2>1
  <2>3. QED
    BY <1>4, <2>2
<1> HIDE DEF G, m
<1>6. R(f)
  <2> DEFINE h == [n \in 0 .. m |-> IF n = 0 THEN 0 ELSE f[n - 1] + Size(file[n])]
  <2>1. ASSUME NEW n \in 0 .. m PROVE f[n] = h[n]
    <3>1. n # 0 => n \in 1 .. m
      BY <1>1
    <3>2. QED
      BY <1>4, <1>5, <3>1
  <2>2. f = h
    BY <1>4, <2>1
  <2>3. QED
    BY <2>2
<1>7. SizeUpTo = CHOOSE s : R(s)
  BY DEF SizeUpTo, m
<1>8. R(SizeUpTo)
  <2> HIDE DEF R
  <2>1. QED
    BY <1>6, <1>7
<1> DEFINE s == SizeUpTo
<1>9. s = [n \in 0 .. m |-> IF n = 0 THEN 0 ELSE s[n - 1] + Size(file[n])]
  BY <1>8
<1> HIDE DEF s
<1>10. s[0] = 0 /\ \A k \in 1 .. m : s[k] = s[k - 1] + Size(file[k])
  <2>1. 0 \in 0 .. m /\ \A k \in 1 .. m : k \in 0 .. m /\ k # 0
    BY <1>1
  <2>2. QED
    BY <1>9, <2>1
<1>11. \A k \in 0 .. m : s[k] \in Nat
  <2> DEFINE I == {n \in 0 .. m : s[n] \notin Nat}
  <2>1. SUFFICES ASSUME I # {} PROVE FALSE
    OBVIOUS
  <2>a. I \subseteq Nat
    BY <1>1
  <2>2. PICK n \in I : \A y \in I : n <= y
    <3> HIDE DEF I
    <3>1. QED
      BY <2>1, <2>a, Smallest
  <2>3. n \in 1 .. m /\ n - 1 \in 0 .. m /\ n - 1 \notin I
    BY <1>1, <1>10, <2>2
  <2>4. s[n - 1] \in Nat
    BY <2>3
  <2>5. QED
    BY <1>1, <1>10, <2>2, <2>3, <2>4
<1>12. s \in [0 .. m -> Nat]
  BY <1>9, <1>11
<1>13. QED
  BY <1>10, <1>12 DEF s, m

\* Every line has a character at least.
LEMMA SizeGrows ==
  ASSUME Readable(file), NEW a \in 0 .. Len(file), NEW b \in 0 .. Len(file), a < b
  PROVE  SizeUpTo[a] < SizeUpTo[b]
<1> DEFINE I == {n \in 0 .. Len(file) : a < n /\ ~(SizeUpTo[a] < SizeUpTo[n])}
<1>1. SUFFICES ASSUME I # {} PROVE FALSE
  OBVIOUS
<1>a. I \subseteq Nat
  BY DEF Readable
<1>2. PICK n \in I : \A y \in I : n <= y
  <2> HIDE DEF I
  <2>1. QED
    BY <1>1, <1>a, Smallest
<1>0. Len(file) \in Nat /\ \A k \in 1 .. Len(file) : Size(file[k]) \in Nat \ {0}
  BY BufferAssumption DEF Readable
<1>3. n \in 1 .. Len(file) /\ n - 1 \in 0 .. Len(file) /\ n - 1 \notin I /\ a <= n - 1
  BY <1>0, <1>2
<1>4. SizeUpTo[a] <= SizeUpTo[n - 1]
  BY <1>3, SizeUpToIs
<1>5. SizeUpTo[n] = SizeUpTo[n - 1] + Size(file[n])
  BY <1>3, SizeUpToIs
<1>6. SizeUpTo[n - 1] \in Nat /\ SizeUpTo[a] \in Nat /\ Size(file[n]) \in Nat \ {0}
  BY <1>0, <1>3, SizeUpToIs
<1>7. QED
  BY <1>2, <1>4, <1>5, <1>6

\* The characters between two lines.
LEMMA SizeBetweenIs ==
  ASSUME Readable(file), NEW a \in 0 .. Len(file), NEW b \in 0 .. Len(file)
  PROVE  /\ SizeBetween(a, b) \in Int /\ SizeBetween(a, a) = 0
         /\ b < Len(file) =>
              /\ SizeBetween(a, b + 1) = SizeBetween(a, b) + Size(file[b + 1])
              /\ SizeBetween(b, b + 1) = Size(file[b + 1])
         /\ a <= b => SizeBetween(a, b) >= 0
<1>1. SizeUpTo[a] \in Nat /\ SizeUpTo[b] \in Nat
  BY SizeUpToIs
<1>2. Len(file) \in Nat
  BY DEF Readable
<1>3. ASSUME b < Len(file)
      PROVE  SizeUpTo[b + 1] = SizeUpTo[b] + Size(file[b + 1]) /\ Size(file[b + 1]) \in Int
  <2>1. b + 1 \in 1 .. Len(file) /\ (b + 1) - 1 = b
    BY <1>2, <1>3
  <2>2. SizeUpTo[b + 1] = SizeUpTo[(b + 1) - 1] + Size(file[b + 1])
    BY <2>1, SizeUpToIs
  <2>3. QED
    BY <2>1, <2>2 DEF Readable
<1>4. a < b => SizeUpTo[a] < SizeUpTo[b]
  BY SizeGrows
<1>5. QED
  BY <1>1, <1>3, <1>4 DEF SizeBetween

\* A flush writes the lines that were cached, no more and no less.
LEMMA FlushedIs ==
  ASSUME Readable(file), mark \in 0 .. Len(file),
         NEW n \in mark .. Len(file), cachelen = SizeBetween(mark, n)
  PROVE  Flushed = n
<1> DEFINE S == {k \in mark .. Len(file) : SizeBetween(mark, k) <= cachelen}
<1>0. Len(file) \in Nat
  BY DEF Readable
<1>1. \A k \in mark .. Len(file) : k \in 0 .. Len(file) /\ SizeUpTo[k] \in Nat
  <2>1. \A k \in mark .. Len(file) : k \in 0 .. Len(file)
    BY <1>0
  <2>2. QED
    BY <2>1, SizeUpToIs
<1>2. SizeUpTo[mark] \in Nat
  BY SizeUpToIs
<1>3. n \in S
  BY <1>1, <1>2 DEF SizeBetween
<1>4. ASSUME NEW k \in S PROVE k <= n
  <2>1. SizeUpTo[k] <= SizeUpTo[n]
    BY <1>1, <1>2 DEF SizeBetween
  <2>2. ~(n < k)
    BY <1>1, <2>1, SizeGrows
  <2>3. QED
    BY <1>1, <2>2 DEF Readable
<1>5. S \subseteq Int
  BY <1>0
<1> HIDE DEF S
<1>6. Max(S) = n
  <2>1. \A x \in S : (\A y \in S : x >= y) => x = n
    BY <1>3, <1>4, <1>5
  <2>2. \A y \in S : n >= y
    BY <1>3, <1>4, <1>5
  <2>3. QED
    BY <1>3, <2>1, <2>2 DEF Max
<1>7. QED
  BY <1>6 DEF S, Flushed

-----------------------------------------------------------------------------
(* What is written.                                                          *)

\* Nothing is written yet, or the last line has its terminator.
Closed(lines) == lines # << >> => Last(lines).nl

\* Lines are told apart by their fields.
LEMMA LinesMade ==
  /\ Plain("blank") \in Line /\ Merged \in Line /\ Plain("blank").nl
  /\ \A line \in Line : [line EXCEPT !.nl = TRUE] \in Line
  /\ \A section \in KeyNames : Header(section) \in Line /\ Header(section).nl
  /\ \A key \in KeyNames, value \in Values : Setting(key, value) \in Line /\ Setting(key, value).nl
BY DEF Plain, Merged, Line, Kinds, Header, Setting

\* The end of a sequence that is not empty.
LEMMA LastIs ==
  ASSUME NEW lines \in Seq(Line), lines # << >>
  PROVE  /\ Len(lines) \in Nat \ {0} /\ Len(lines) \in 1 .. Len(lines)
         /\ Last(lines) = lines[Len(lines)] /\ Last(lines) \in Line
         /\ Front(lines) \in Seq(Line)
<1>1. Len(lines) \in Nat \ {0}
  BY EmptySeq
<1>2. Len(lines) \in 1 .. Len(lines) /\ lines[Len(lines)] \in Line
  BY <1>1
<1>3. \A n \in 1 .. Len(lines) - 1 : lines[n] \in Line
  BY <1>1
<1>4. SubSeq(lines, 1, Len(lines) - 1) \in Seq(Line)
  BY <1>1, <1>3, SubSeqProperties
<1>5. QED
  BY <1>1, <1>2, <1>4 DEF Last, Front

\* A concatenation ends as its second part does.
LEMMA LastOfConcat ==
  ASSUME NEW lines \in Seq(Line), NEW more \in Seq(Line), more # << >>
  PROVE  lines \o more \in Seq(Line) /\ lines \o more # << >> /\ Last(lines \o more) = Last(more)
<1>1. Len(lines) \in Nat /\ Len(more) \in Nat \ {0}
  BY EmptySeq
<1>2. Len(lines \o more) = Len(lines) + Len(more) /\ lines \o more \in Seq(Line)
  BY ConcatProperties
<1>3. (lines \o more)[Len(lines) + Len(more)] = more[Len(more)]
  <2>1. Len(lines) + Len(more) \in 1 .. Len(lines) + Len(more)
    BY <1>1
  <2>2. ~(Len(lines) + Len(more) <= Len(lines)) /\ (Len(lines) + Len(more)) - Len(lines) = Len(more)
    BY <1>1
  <2>3. QED
    BY <2>1, <2>2, ConcatProperties
<1>4. lines \o more # << >>
  BY <1>1, <1>2, EmptySeq
<1>5. QED
  BY <1>2, <1>3, <1>4 DEF Last

\* A line is written behind a line that is closed.
LEMMA WriteIs ==
  ASSUME NEW lines \in Seq(Line), NEW line \in Line
  PROVE  /\ Write(lines, line) \in Seq(Line)
         /\ Closed(lines) => Write(lines, line) = Append(lines, line)
<1>1. CASE lines # << >> /\ ~Last(lines).nl
  <2> DEFINE end == IF line.kind = "blank" THEN [Last(lines) EXCEPT !.nl = TRUE] ELSE Merged
  <2>1. end \in Line /\ Front(lines) \in Seq(Line)
    BY <1>1, LastIs, LinesMade
  <2>2. Write(lines, line) = Append(Front(lines), end)
    BY <1>1 DEF Write
  <2> HIDE DEF end
  <2>3. QED
    BY <1>1, <2>1, <2>2, AppendProperties DEF Closed
<1>2. CASE ~(lines # << >> /\ ~Last(lines).nl)
  BY <1>2, AppendProperties DEF Write
<1>3. QED
  BY <1>1, <1>2

\* The recursion of WriteAll.
LEMMA WriteAllRun ==
  ASSUME NEW lines \in Seq(Line), NEW more \in Seq(Line)
  PROVE  \E w \in [0 .. Len(more) -> Seq(Line)] :
           /\ w[0] = lines /\ WriteAll(lines, more) = w[Len(more)]
           /\ \A k \in 1 .. Len(more) : w[k] = Write(w[k - 1], more[k])
<1> DEFINE m == Len(more)
           V == Seq(Line)
           G == [p \in V \X (1 .. m) |-> Write(p[1], more[p[2]])]
           R(w) == w = [n \in 0 .. m |-> IF n = 0 THEN lines ELSE Write(w[n - 1], more[n])]
<1>1. m \in Nat /\ \A k \in 1 .. m : more[k] \in Line
  OBVIOUS
<1>2. G \in [V \X (1 .. m) -> V]
  BY <1>1, WriteIs
<1>3. PICK f \in Runs(V, lines, G, m) : TRUE
  <2>1. lines \in V
    OBVIOUS
  <2> HIDE DEF G, m, V
  <2>2. QED
    BY <1>1, <1>2, <2>1, RunExists
<1>4. /\ f \in [0 .. m -> V] /\ f[0] = lines
      /\ \A k \in 1 .. m : f[k] = G[<<f[k - 1], k>>]
  BY <1>3 DEF Runs
<1>5. ASSUME NEW k \in 1 .. m PROVE f[k] = Write(f[k - 1], more[k])
  <2>0. k - 1 \in 0 .. m
    BY <1>1
  <2>1. f[k - 1] \in V
    BY <1>4, <2>0
  <2>2. <<f[k - 1], k>> \in V \X (1 .. m)
    BY <2>1
  <2>3. QED
    BY <1>4, <2>2
<1> HIDE DEF G, m, V
<1>6. R(f)
  <2> DEFINE h == [n \in 0 .. m |-> IF n = 0 THEN lines ELSE Write(f[n - 1], more[n])]
  <2>1. ASSUME NEW n \in 0 .. m PROVE f[n] = h[n]
    <3>1. n # 0 => n \in 1 .. m
      BY <1>1
    <3>2. QED
      BY <1>4, <1>5, <3>1
  <2>2. f = h
    BY <1>4, <2>1
  <2>3. QED
    BY <2>2
<1> DEFINE w == CHOOSE x : R(x)
<1>7. WriteAll(lines, more) = w[m]
  BY DEF WriteAll, m
<1>8. R(w)
  <2> HIDE DEF R
  <2>1. QED
    BY <1>6
<1>9. w = [n \in 0 .. m |-> IF n = 0 THEN lines ELSE Write(w[n - 1], more[n])]
  BY <1>8
<1> HIDE DEF w
<1>10. w[0] = lines /\ \A k \in 1 .. m : w[k] = Write(w[k - 1], more[k])
  <2>1. 0 \in 0 .. m /\ \A k \in 1 .. m : k \in 0 .. m /\ k # 0
    BY <1>1
  <2>2. QED
    BY <1>9, <2>1
<1>11. \A k \in 0 .. m : w[k] \in Seq(Line)
  <2> DEFINE I == {n \in 0 .. m : w[n] \notin Seq(Line)}
  <2>1. SUFFICES ASSUME I # {} PROVE FALSE
    OBVIOUS
  <2>a. I \subseteq Nat
    BY <1>1
  <2>2. PICK n \in I : \A y \in I : n <= y
    <3> HIDE DEF I
    <3>1. QED
      BY <2>1, <2>a, Smallest
  <2>3. n \in 1 .. m /\ n - 1 \in 0 .. m /\ n - 1 \notin I
    BY <1>1, <1>10, <2>2
  <2>4. w[n - 1] \in Seq(Line)
    BY <2>3
  <2>5. Write(w[n - 1], more[n]) \in Seq(Line)
    BY <1>1, <2>3, <2>4, WriteIs
  <2>6. QED
    BY <1>10, <2>2, <2>3, <2>5
<1>12. w \in [0 .. m -> Seq(Line)]
  BY <1>9, <1>11
<1>13. QED
  BY <1>7, <1>10, <1>12 DEF m

\* Lines that are closed but for the last are written as they are.
LEMMA WriteAllIs ==
  ASSUME NEW lines \in Seq(Line), NEW more \in Seq(Line)
  PROVE  /\ WriteAll(lines, more) \in Seq(Line)
         /\ ((more = << >> \/ Closed(lines)) /\ \A n \in 1 .. Len(more) - 1 : more[n].nl)
              => WriteAll(lines, more) = lines \o more
<1>1. PICK w \in [0 .. Len(more) -> Seq(Line)] :
           /\ w[0] = lines /\ WriteAll(lines, more) = w[Len(more)]
           /\ \A k \in 1 .. Len(more) : w[k] = Write(w[k - 1], more[k])
  BY WriteAllRun
<1>2. Len(more) \in Nat /\ Len(more) \in 0 .. Len(more)
  OBVIOUS
<1>3. WriteAll(lines, more) \in Seq(Line)
  BY <1>1, <1>2
<1>4. ASSUME Closed(lines), \A n \in 1 .. Len(more) - 1 : more[n].nl
      PROVE  WriteAll(lines, more) = lines \o more
  <2> DEFINE S(n) == SubSeq(more, 1, n)
             I == {n \in 0 .. Len(more) : w[n] # lines \o S(n)}
  <2>1. ASSUME I # {} PROVE FALSE
    <3>a. I \subseteq Nat
      BY <1>2
    <3>1. PICK n \in I : \A y \in I : n <= y
      <4> HIDE DEF I
      <4>1. QED
        BY <2>1, <3>a, Smallest
    <3>2. n # 0
      <4>1. S(0) = << >>
        BY SubSeqEmpty
      <4>2. QED
        BY <1>1, <3>1, <4>1, ConcatEmptySeq
    <3>3. n \in 1 .. Len(more) /\ n - 1 \in 0 .. Len(more) /\ n - 1 \notin I
      BY <1>2, <3>1, <3>2
    <3>4. w[n - 1] = lines \o S(n - 1)
      BY <3>3
    <3>5. S(n - 1) \in Seq(Line) /\ Len(S(n - 1)) = n - 1 /\ \A k \in 1 .. n - 1 : S(n - 1)[k] = more[k]
      BY <1>2, <3>3, SubSeqProperties
    <3>6. S(n) = Append(S(n - 1), more[n])
      <4>1. S(n) = S(n - 1) \o <<more[n]>>
        BY <3>3, SubSeqRecursiveSecond
      <4>2. QED
        BY <3>3, <3>5, <4>1, AppendIsConcat
    <3> HIDE DEF S
    <3>7. Closed(lines \o S(n - 1))
      <4>1. CASE n = 1
        <5>1. S(n - 1) = << >>
          BY <3>5, <4>1, EmptySeq
        <5>2. QED
          BY <1>4, <5>1, ConcatEmptySeq
      <4>2. CASE n # 1
        <5>1. n - 1 \in 1 .. n - 1 /\ n - 1 \in 1 .. Len(more) - 1
          BY <1>2, <3>3, <4>2
        <5>2. S(n - 1) # << >> /\ Last(S(n - 1)) = more[n - 1]
          BY <3>5, <5>1, EmptySeq DEF Last
        <5>3. Last(lines \o S(n - 1)) = Last(S(n - 1))
          BY <3>5, <5>2, LastOfConcat
        <5>4. QED
          BY <1>4, <5>1, <5>2, <5>3 DEF Closed
      <4>3. QED
        BY <4>1, <4>2
    <3>8. lines \o S(n - 1) \in Seq(Line) /\ more[n] \in Line
      BY <3>3, <3>5, ConcatProperties
    <3>9. w[n] = Append(lines \o S(n - 1), more[n])
      <4>1. w[n] = Write(lines \o S(n - 1), more[n])
        BY <1>1, <3>3, <3>4
      <4>2. QED
        BY <3>7, <3>8, <4>1, WriteIs
    <3>10. Append(lines \o S(n - 1), more[n]) = lines \o Append(S(n - 1), more[n])
      <4>1. <<more[n]>> \in Seq(Line)
        BY <3>8
      <4>2. \A p \in Seq(Line) : (lines \o p) \o <<more[n]>> = lines \o (p \o <<more[n]>>)
        BY <4>1, ConcatAssociative
      <4>3. Append(S(n - 1), more[n]) = S(n - 1) \o <<more[n]>>
        BY <3>5, <3>8, AppendIsConcat
      <4>4. Append(lines \o S(n - 1), more[n]) = (lines \o S(n - 1)) \o <<more[n]>>
        BY <3>8, AppendIsConcat
      <4>5. QED
        BY <3>5, <4>2, <4>3, <4>4
    <3>11. QED
      BY <3>1, <3>6, <3>9, <3>10
  <2>2. w[Len(more)] = lines \o S(Len(more))
    BY <1>2, <2>1
  <2>3. S(Len(more)) = more
    BY SubSeqFull
  <2>4. QED
    BY <1>1, <2>2, <2>3
<1>5. CASE more = << >>
  <2>1. WriteAll(lines, more) = lines
    BY <1>1, <1>5
  <2>2. QED
    BY <1>3, <1>5, <2>1, ConcatEmptySeq
<1>6. QED
  BY <1>3, <1>4, <1>5

\* The first lines of a file, and those that follow.
LEMMA Parts ==
  ASSUME NEW lines \in Seq(Line), NEW a \in 0 .. Len(lines), NEW b \in a .. Len(lines)
  PROVE  /\ SubSeq(lines, 1, a) \in Seq(Line) /\ SubSeq(lines, a + 1, b) \in Seq(Line)
         /\ Len(SubSeq(lines, 1, a)) = a /\ Len(SubSeq(lines, a + 1, b)) = b - a
         /\ SubSeq(lines, 1, a) \o SubSeq(lines, a + 1, b) = SubSeq(lines, 1, b)
         /\ SubSeq(lines, a + 1, b) \o SubSeq(lines, b + 1, Len(lines))
              = SubSeq(lines, a + 1, Len(lines))
         /\ \A n \in 1 .. b - a : SubSeq(lines, a + 1, b)[n] = lines[a + n]
<1>0. Len(lines) \in Nat
  OBVIOUS
<1>1. /\ \A n \in 1 .. a : lines[n] \in Line
      /\ \A n \in a + 1 .. b : lines[n] \in Line
  BY <1>0
<1>2. SubSeq(lines, 1, a) \in Seq(Line) /\ Len(SubSeq(lines, 1, a)) = a
  BY <1>0, <1>1, SubSeqProperties
<1>3. /\ SubSeq(lines, a + 1, b) \in Seq(Line) /\ Len(SubSeq(lines, a + 1, b)) = b - a
      /\ \A n \in 1 .. b - a : SubSeq(lines, a + 1, b)[n] = lines[a + n]
  <2>1. /\ SubSeq(lines, a + 1, b) \in Seq(Line)
        /\ Len(SubSeq(lines, a + 1, b)) = IF a + 1 <= b THEN b - (a + 1) + 1 ELSE 0
        /\ \A n \in 1 .. b - (a + 1) + 1 : SubSeq(lines, a + 1, b)[n] = lines[(a + 1) + n - 1]
    BY <1>0, <1>1, SubSeqProperties
  <2>2. a \in Int /\ b \in Int
    OBVIOUS
  <2>3. b - (a + 1) + 1 = b - a /\ \A n \in 1 .. b - a : (a + 1) + n - 1 = a + n
    BY <2>2
  <2>4. QED
    BY <2>1, <2>2, <2>3
<1>4. SubSeq(lines, 1, a) \o SubSeq(lines, a + 1, b) = SubSeq(lines, 1, b)
  <2>1. 1 \in 1 .. Len(lines) + 1 /\ a \in 1 - 1 .. Len(lines) /\ b \in a .. Len(lines)
    BY <1>0
  <2>2. QED
    BY <2>1, ConcatAdjacentSubSeq
<1>5. SubSeq(lines, a + 1, b) \o SubSeq(lines, b + 1, Len(lines)) = SubSeq(lines, a + 1, Len(lines))
  <2>1. /\ a + 1 \in 1 .. Len(lines) + 1 /\ b \in (a + 1) - 1 .. Len(lines)
        /\ Len(lines) \in b .. Len(lines)
    BY <1>0
  <2>2. QED
    BY <2>1, ConcatAdjacentSubSeq
<1>6. QED
  BY <1>2, <1>3, <1>4, <1>5

\* What a flush writes: the lines from mark to n, when these are in the cache.
LEMMA FlushIs ==
  ASSUME Readable(file), out \in Seq(Line), mark \in 0 .. Len(file),
         NEW n \in mark .. Len(file), cachelen = SizeBetween(mark, n)
  PROVE  /\ Flushed = n /\ Flush \in Seq(Line)
         /\ (mark < Len(file) => Closed(out)) =>
              /\ Flush = out \o SubSeq(file, mark + 1, n)
              /\ n < Len(file) => Closed(Flush)
<1> DEFINE more == SubSeq(file, mark + 1, n)
<1>0. file \in Seq(Line) /\ Len(file) \in Nat /\ \A k \in 1 .. Len(file) : k < Len(file) => file[k].nl
  BY DEF Readable
<1>1. Flushed = n
  BY FlushedIs
<1>2. /\ more \in Seq(Line) /\ Len(more) = n - mark
      /\ \A k \in 1 .. n - mark : more[k] = file[mark + k]
  BY <1>0, Parts
<1>3. Flush = WriteAll(out, more)
  BY <1>1 DEF Flush
<1> HIDE DEF more
<1>4. \A k \in 1 .. Len(more) - 1 : more[k].nl
  <2> SUFFICES ASSUME NEW k \in 1 .. Len(more) - 1 PROVE more[k].nl
    OBVIOUS
  <2>1. k \in 1 .. n - mark /\ mark + k \in 1 .. Len(file) /\ mark + k < Len(file)
    BY <1>0, <1>2
  <2>2. QED
    BY <1>0, <1>2, <2>1
<1>5. ASSUME mark < Len(file) => Closed(out)
      PROVE  Flush = out \o more /\ (n < Len(file) => Closed(Flush))
  <2>1. more = << >> \/ Closed(out)
    BY <1>0, <1>2, <1>5, EmptySeq
  <2>2. Flush = out \o more
    BY <1>2, <1>3, <1>4, <2>1, WriteAllIs
  <2>3. ASSUME n < Len(file) PROVE Closed(Flush)
    <3>1. CASE more = << >>
      <4>1. Flush = out
        BY <2>2, <3>1, ConcatEmptySeq
      <4>2. mark < Len(file)
        BY <1>0, <2>3
      <4>3. QED
        BY <1>5, <4>1, <4>2
    <3>2. CASE more # << >>
      <4>1. n - mark \in 1 .. n - mark /\ mark + (n - mark) = n /\ n \in 1 .. Len(file)
        BY <1>0, <1>2, <3>2, EmptySeq
      <4>2. Last(more) = file[n]
        BY <1>2, <4>1 DEF Last
      <4>3. Last(Flush) = Last(more)
        BY <1>2, <2>2, <3>2, LastOfConcat
      <4>4. QED
        BY <1>0, <2>3, <4>1, <4>2, <4>3 DEF Closed
    <3>3. QED
      BY <3>1, <3>2
  <2>4. QED
    BY <2>2, <2>3
<1>6. Flush \in Seq(Line)
  BY <1>2, <1>3, WriteAllIs
<1>7. QED
  BY <1>1, <1>5, <1>6 DEF more

\* As long as nothing is changed, what is written is the beginning of the file.
LEMMA FlushCopies ==
  ASSUME Readable(file), mark \in 0 .. Len(file), out = SubSeq(file, 1, mark),
         NEW n \in mark .. Len(file), cachelen = SizeBetween(mark, n)
  PROVE  Flush = SubSeq(file, 1, n) /\ (n < Len(file) => Closed(Flush))
<1>0. file \in Seq(Line) /\ Len(file) \in Nat /\ \A k \in 1 .. Len(file) : k < Len(file) => file[k].nl
  BY DEF Readable
<1>1. out \in Seq(Line) /\ Len(out) = mark /\ out \o SubSeq(file, mark + 1, n) = SubSeq(file, 1, n)
  BY <1>0, Parts
<1>2. ASSUME mark < Len(file) PROVE Closed(out)
  <2>1. SUFFICES ASSUME out # << >> PROVE Last(out).nl
    BY DEF Closed
  <2>2. mark \in 1 .. mark /\ mark \in 1 .. Len(file)
    BY <1>0, <1>1, <2>1, EmptySeq
  <2>3. Last(out) = file[mark]
    <3>1. SubSeq(file, 1, mark)[mark] = file[mark]
      BY <1>0, <2>2
    <3>2. QED
      BY <1>1, <3>1 DEF Last
  <2>4. QED
    BY <1>0, <1>2, <2>2, <2>3
<1>3. QED
  BY <1>1, <1>2, FlushIs

\* A turn of a loop that caches a line reads one line more.
LEMMA AccumulateIs ==
  ASSUME Readable(file), out \in Seq(Line), mark \in 0 .. Len(file), pos \in mark .. Len(file) - 1,
         cachelen = SizeBetween(mark, pos), cachelen \in 0 .. INI_BUFFERSIZE - 1, Accumulate
  PROVE  /\ pos' = pos + 1 /\ mark' \in 0 .. pos /\ out' \in Seq(Line)
         /\ cachelen' \in 0 .. INI_BUFFERSIZE - 1
         /\ cachelen' = SizeBetween(mark', pos + 1)
         /\ (out' = out /\ mark' = mark) \/ (out' = Flush /\ mark' = pos)
<1>0. /\ Len(file) \in Nat /\ pos \in 0 .. Len(file) /\ pos + 1 \in 1 .. Len(file)
      /\ pos < Len(file) /\ pos \in mark .. Len(file)
  BY DEF Readable
<1>1. Size(file[pos + 1]) \in 1 .. INI_BUFFERSIZE - 1 /\ INI_BUFFERSIZE \in Nat
  BY <1>0, BufferAssumption DEF Readable
<1>2. Flushed = pos /\ Flush \in Seq(Line)
  BY <1>0, FlushIs
<1>3. /\ SizeBetween(mark, pos + 1) = SizeBetween(mark, pos) + Size(file[pos + 1])
      /\ SizeBetween(pos, pos + 1) = Size(file[pos + 1])
  BY <1>0, SizeBetweenIs
<1>4. CASE Fits(file[pos + 1])
  BY <1>0, <1>1, <1>3, <1>4 DEF Accumulate, Fits
<1>5. CASE ~Fits(file[pos + 1])
  <2>1. out' = Flush /\ mark' = pos /\ pos' = pos + 1 /\ cachelen' = Size(file[pos + 1])
    BY <1>2, <1>5 DEF Accumulate
  <2>2. QED
    BY <1>0, <1>1, <1>2, <1>3, <2>1
<1>6. QED
  BY <1>4, <1>5

-----------------------------------------------------------------------------
(* The cache.                                                                *)

\* The least of a set of numbers.
LEMMA MinIs ==
  ASSUME NEW S, S \subseteq Nat, S # {}
  PROVE  Min(S) \in First(S)
<1>1. PICK x \in S : \A y \in S : x <= y
  BY Smallest
<1>2. Min(S) \in S /\ \A y \in S : Min(S) <= y
  BY <1>1 DEF Min
<1>3. QED
  BY <1>2 DEF First

\* What ini_puts writes is lines.
LEMMA NewLines ==
  ASSUME req \in Request, Put
  PROVE  /\ Setting(req.key, req.value) \in Line /\ Setting(req.key, req.value).nl
         /\ req.section # NULL => Header(req.section) \in Line /\ Header(req.section).nl
         /\ NewSetting \in Seq(Line)
         /\ \A n \in 1 .. Len(NewSetting) : NewSetting[n].nl
         /\ NewSetting = IF req.section = NULL THEN <<Setting(req.key, req.value)>>
                         ELSE <<Header(req.section), Setting(req.key, req.value)>>
<1>1. req.key \in KeyNames /\ req.value \in Values /\ req.section \in KeyNames \cup {NULL}
  BY DEF Request, Put
<1> DEFINE s == Setting(req.key, req.value)
           h == Header(req.section)
<1>2. s \in Line /\ s.nl /\ (req.section # NULL => h \in Line /\ h.nl)
  BY <1>1, LinesMade
<1>3. NewSetting = IF req.section = NULL THEN <<s>> ELSE <<h, s>>
  BY DEF NewSetting
<1> HIDE DEF s, h
<1>4. CASE req.section = NULL
  <2>1. NewSetting = <<s>>
    BY <1>3, <1>4
  <2>2. QED
    BY <1>2, <1>3, <2>1 DEF s, h
<1>5. CASE req.section # NULL
  <2>1. NewSetting = <<h, s>>
    BY <1>3, <1>5
  <2>2. QED
    BY <1>2, <1>3, <1>5, <2>1 DEF s, h
<1>6. QED
  BY <1>4, <1>5

\* While the file is copied.
LEMMA InCopy ==
  ASSUME CacheIsLines, write_pc \in {"section", "skip", "key", "rest"}
  PROVE  /\ file = old /\ Readable(file) /\ file \in Seq(Line) /\ Len(file) \in Nat
         /\ out \in Seq(Line) /\ mark \in 0 .. Len(file) /\ pos \in 0 .. Len(file)
         /\ ReadLines \in mark .. Len(file) /\ ReadLines <= pos
         /\ cachelen = SizeBetween(mark, ReadLines)
         /\ cachelen \in 0 .. INI_BUFFERSIZE - 1
         /\ Flushed = ReadLines /\ Flush \in Seq(Line)
         /\ write_pc # "skip" => ReadLines = pos
<1>1. /\ file = old /\ Readable(file) /\ out \in Seq(Line) /\ mark \in 0 .. Len(file)
      /\ pos \in 0 .. Len(file) /\ cachelen = SizeBetween(mark, ReadLines) /\ mark <= ReadLines
      /\ cachelen \in 0 .. INI_BUFFERSIZE - 1
  BY DEF CacheIsLines, WriteTypeOK
<1>2. file \in Seq(Line) /\ Len(file) \in Nat
  BY <1>1 DEF Readable
<1>3. ReadLines \in mark .. Len(file) /\ ReadLines <= pos /\ (write_pc # "skip" => ReadLines = pos)
  BY <1>1, <1>2 DEF ReadLines
<1>4. Flushed = ReadLines /\ Flush \in Seq(Line)
  BY <1>1, <1>3, FlushIs
<1>5. QED
  BY <1>1, <1>2, <1>3, <1>4

LEMMA SameSizes == file' = file => SizeUpTo' = SizeUpTo
BY DEF SizeUpTo

\* What is written before it takes the place of the file.
LEMMA LastPart ==
  ASSUME CacheIsLines, write_pc \in {"section", "key"}, Put
  PROVE  /\ Terminated \in Seq(Line) /\ WriteAll(Terminated, NewSetting) \in Seq(Line)
         /\ Write(Terminated, Setting(req.key, req.value)) \in Seq(Line)
<1>1. Flush \in Seq(Line) /\ req \in Request
  BY InCopy DEF CacheIsLines, WriteTypeOK
<1>2. Terminated \in Seq(Line)
  BY <1>1, LinesMade, WriteIs DEF Terminated
<1>3. QED
  BY <1>1, <1>2, NewLines, WriteIs, WriteAllIs

\* Every step keeps the cache.
LEMMA StepCache ==
  ASSUME CacheIsLines, Begun, Searched, Written, [WriteNext]_write_vars
  PROVE  CacheIsLines'
<1> USE DEF CacheIsLines, WriteTypeOK
<1>0. /\ Readable(old) /\ old \in Seq(Line) /\ Len(old) \in Nat /\ req \in Request
      /\ INI_BUFFERSIZE \in Nat /\ INI_BUFFERSIZE >= 4
  BY BufferAssumption DEF Readable
<1>1. CASE CreateFile
  BY <1>0, <1>1, NewLines DEF CreateFile, Return, write_args
<1>2. CASE NothingToDo
  BY <1>0, <1>2 DEF NothingToDo, Return, write_args
<1>3. CASE InPlace
  <2>1. file = old /\ Min(WriteFound) \in DOMAIN file
    <3>1. file = old /\ WriteFound # {}
      BY <1>3 DEF InPlace, Begun
    <3>2. WriteFound \subseteq DOMAIN file /\ DOMAIN file \subseteq Nat
      BY <1>0, <3>1 DEF WriteFound, Matches, KeyLines, Lines
    <3>3. QED
      BY <3>1, <3>2, MinIs DEF First
  <2>2. [file EXCEPT ![Min(WriteFound)] = Setting(req.key, req.value)] \in Seq(Line)
    <3>1. Put
      BY <1>3 DEF InPlace
    <3>2. Setting(req.key, req.value) \in Line
      BY <1>0, <3>1, NewLines
    <3>3. QED
      BY <1>0, <2>1, <3>2, ExceptSeq
  <2>3. QED
    BY <1>0, <1>3, <2>1, <2>2 DEF InPlace, Return, write_args
<1>4. CASE OpenTemp
  <2>1. /\ file' = old /\ file' = file /\ out' = out /\ mark' = 0 /\ pos' = 0 /\ cachelen' = 0
        /\ UNCHANGED <<exists, old, req>>
        /\ \/ write_pc' = (IF req.section = NULL THEN "skip" ELSE "section") /\ ret' = ret
           \/ write_pc' = "done" /\ ret' = 0
    BY <1>4 DEF OpenTemp, Begun, Return, write_args
  <2>2. write_pc' \in {"section", "skip", "key", "rest"} => ReadLines' = 0
    BY <2>1 DEF ReadLines
  <2>3. SizeBetween(0, 0) = 0 /\ SizeUpTo' = SizeUpTo
    BY <1>0, <2>1, SizeBetweenIs, SameSizes
  <2>4. write_pc' \in {"section", "skip", "key", "rest"} =>
           cachelen' = SizeBetween(mark, ReadLines)'
    BY <2>1, <2>2, <2>3 DEF SizeBetween
  <2>5. write_pc' \in {"section", "skip", "done"} /\ ret' \in {0, 1} /\ 0 \in 0 .. Len(old)
    BY <1>0, <2>1
  <2>6. 0 \in 0 .. INI_BUFFERSIZE - 1
    BY <1>0
  <2>7. WriteTypeOK'
    BY <1>0, <2>1, <2>5, <2>6
  <2>8. CASE write_pc' = "done"
    BY <2>7, <2>8
  <2>9. CASE write_pc' # "done"
    <3>1. ReadLines' = 0 /\ cachelen' = SizeBetween(mark, ReadLines)'
      BY <2>2, <2>4, <2>5, <2>9
    <3>2. mark' = 0 /\ file' = old /\ old' = old
      BY <2>1
    <3>4. file' = old' /\ mark' <= ReadLines'
      BY <3>1, <3>2
    <3>3. QED
      BY <2>7, <3>1, <3>4
  <2>10. QED
    BY <2>8, <2>9
<1>5. CASE SectionRead
  <2>1. /\ write_pc = "section" /\ pos < Len(file) /\ file' = file /\ ret' = ret
        /\ UNCHANGED <<exists, old, req>>
        /\ write_pc' = (IF IsSection THEN "skip" ELSE "section")
    BY <1>5 DEF SectionRead, write_args
  <2>2. req.section # NULL
    BY <2>1 DEF Searched
  <2>3. SizeUpTo' = SizeUpTo
    BY <2>1, SameSizes
  <2>a. /\ file = old /\ ReadLines = pos /\ out \in Seq(Line) /\ mark \in 0 .. Len(file)
        /\ pos \in mark .. Len(file) - 1 /\ cachelen = SizeBetween(mark, pos)
        /\ cachelen \in 0 .. INI_BUFFERSIZE - 1
    BY <1>0, <2>1, InCopy
  <2>4. CASE IsSection /\ req.key = NULL
    <3>1. pos' = pos + 1 /\ UNCHANGED <<out, mark, cachelen>> /\ write_pc' = "skip"
      BY <1>5, <2>1, <2>4 DEF SectionRead
    <3>2. ReadLines' = pos
      BY <1>0, <2>1, <2>2, <2>4, <2>a, <3>1 DEF ReadLines
    <3>3. cachelen' = SizeBetween(mark, ReadLines)'
      BY <2>3, <2>a, <3>1, <3>2 DEF SizeBetween
    <3>4. QED
      BY <1>0, <2>1, <2>a, <3>1, <3>2, <3>3
  <2>5. CASE ~(IsSection /\ req.key = NULL)
    <3>1. Accumulate
      BY <1>5, <2>5 DEF SectionRead
    <3>2. /\ pos' = pos + 1 /\ mark' \in 0 .. pos /\ out' \in Seq(Line)
          /\ cachelen' \in 0 .. INI_BUFFERSIZE - 1 /\ cachelen' = SizeBetween(mark', pos + 1)
      BY <1>0, <2>a, <3>1, AccumulateIs
    <3>3. ReadLines' = pos + 1
      BY <2>1, <2>5, <3>2 DEF ReadLines
    <3>4. cachelen' = SizeBetween(mark, ReadLines)'
      BY <2>3, <3>2, <3>3 DEF SizeBetween
    <3>5. QED
      BY <1>0, <2>1, <2>a, <3>2, <3>3, <3>4
  <2>6. QED
    BY <2>4, <2>5
<1>6. CASE SectionMissing
  <2>1. write_pc = "section" /\ Rename(IF Put THEN WriteAll(Terminated, NewSetting) ELSE Flush)
    BY <1>6 DEF SectionMissing
  <2>2. (IF Put THEN WriteAll(Terminated, NewSetting) ELSE Flush) \in Seq(Line)
    BY <2>1, InCopy, LastPart
  <2>3. QED
    BY <1>0, <2>1, <2>2 DEF Rename, Return, write_args
<1>7. CASE SkipHeader
  <2>1. write_pc = "skip" /\ Flushed = ReadLines /\ Flush \in Seq(Line) /\ file = old
        /\ ReadLines \in 0 .. Len(file)
    <3>1. write_pc = "skip"
      BY <1>7 DEF SkipHeader
    <3>2. QED
      BY <3>1, InCopy
  <2>2. /\ out' = Flush /\ cachelen' = 0 /\ mark' = pos' /\ write_pc' = "key" /\ file' = file
        /\ ret' = ret /\ UNCHANGED <<exists, old, req>> /\ pos' \in 0 .. Len(file)
    BY <1>0, <1>7, <2>1 DEF SkipHeader, write_args
  <2>3. ReadLines' = pos'
    BY <2>2 DEF ReadLines
  <2>4. SizeUpTo[pos'] - SizeUpTo[pos'] = 0
    <3>0. SizeUpTo \in [0 .. Len(file) -> Nat]
      BY <1>0, <2>1, SizeUpToIs
    <3>1. \A n \in 0 .. Len(file) : SizeUpTo[n] - SizeUpTo[n] = 0
      <4> SUFFICES ASSUME NEW n \in 0 .. Len(file) PROVE SizeUpTo[n] - SizeUpTo[n] = 0
        OBVIOUS
      <4>1. SizeUpTo[n] \in Nat
        BY <3>0
      <4>2. QED
        BY <4>1
    <3>2. QED
      BY <2>2, <3>1
  <2>5. cachelen' = SizeBetween(mark, ReadLines)'
    BY <2>2, <2>3, <2>4, SameSizes DEF SizeBetween
  <2>6. QED
    BY <1>0, <2>1, <2>2, <2>3, <2>5
<1>8. CASE KeyRead
  <2>1. /\ write_pc = "key" /\ write_pc' = "key" /\ pos < Len(file) /\ file' = file /\ ret' = ret
        /\ UNCHANGED <<exists, old, req>>
    BY <1>8 DEF KeyRead, write_args
  <2>3. SizeUpTo' = SizeUpTo
    BY <2>1, SameSizes
  <2>a. /\ file = old /\ ReadLines = pos /\ out \in Seq(Line) /\ mark \in 0 .. Len(file)
        /\ pos \in mark .. Len(file) - 1 /\ cachelen = SizeBetween(mark, pos)
        /\ cachelen \in 0 .. INI_BUFFERSIZE - 1
    BY <1>0, <2>1, InCopy
  <2>4. CASE req.key = NULL
    <3>1. pos' = pos + 1 /\ mark' = pos' /\ UNCHANGED <<out, cachelen>>
      BY <1>8, <2>4 DEF KeyRead
    <3>2. mark = pos /\ ReadLines' = pos + 1
      BY <2>1, <2>4, <3>1 DEF Written, ReadLines
    <3>3. pos \in 0 .. Len(file) /\ pos + 1 \in 0 .. Len(file)
      BY <1>0, <2>a
    <3>4. cachelen = 0 /\ SizeBetween(pos + 1, pos + 1) = 0
      BY <1>0, <2>a, <3>2, <3>3, SizeBetweenIs
    <3>5. cachelen' = SizeBetween(mark, ReadLines)'
      BY <2>3, <3>1, <3>2, <3>4 DEF SizeBetween
    <3>6. QED
      BY <1>0, <2>1, <2>a, <3>1, <3>2, <3>3, <3>5
  <2>5. CASE req.key # NULL
    <3>1. Accumulate
      BY <1>8, <2>5 DEF KeyRead
    <3>2. /\ pos' = pos + 1 /\ mark' \in 0 .. pos /\ out' \in Seq(Line)
          /\ cachelen' \in 0 .. INI_BUFFERSIZE - 1 /\ cachelen' = SizeBetween(mark', pos + 1)
      BY <1>0, <2>a, <3>1, AccumulateIs
    <3>3. ReadLines' = pos + 1
      BY <2>1, <3>2 DEF ReadLines
    <3>4. cachelen' = SizeBetween(mark, ReadLines)'
      BY <2>3, <3>2, <3>3 DEF SizeBetween
    <3>5. QED
      BY <1>0, <2>1, <2>a, <3>2, <3>3, <3>4
  <2>6. QED
    BY <2>4, <2>5
<1>9. CASE KeyMissing
  <2>1. /\ write_pc = "key"
        /\ Rename(IF Put THEN Write(Terminated, Setting(req.key, req.value)) ELSE Flush)
    BY <1>9 DEF KeyMissing
  <2>2. (IF Put THEN Write(Terminated, Setting(req.key, req.value)) ELSE Flush) \in Seq(Line)
    BY <2>1, InCopy, LastPart
  <2>3. QED
    BY <1>0, <2>1, <2>2 DEF Rename, Return, write_args
<1>10. CASE KeyFound
  <2>1. /\ write_pc = "key" /\ write_pc' = "rest" /\ pos < Len(file) /\ file' = file /\ ret' = ret
        /\ UNCHANGED <<exists, old, req>>
        /\ out' = (IF Put THEN Write(Flush, Setting(req.key, req.value)) ELSE Flush)
        /\ pos' = Flushed + 1
    BY <1>10 DEF KeyFound, write_args
  <2>2. /\ file = old /\ pos \in 0 .. Len(file) - 1 /\ Flushed = pos /\ Flush \in Seq(Line)
    BY <1>0, <2>1, InCopy
  <2>3. out' \in Seq(Line)
    BY <1>0, <2>1, <2>2, NewLines, WriteIs
  <2>4. ReadLines' = pos + 1
    BY <2>1, <2>2 DEF ReadLines
  <2>5. /\ pos \in 0 .. Len(file) /\ pos + 1 \in 0 .. Len(file) /\ pos + 1 \in 1 .. Len(file)
        /\ pos < Len(file)
    BY <1>0, <2>2
  <2>6. /\ SizeBetween(pos, pos + 1) = Size(file[pos + 1]) /\ SizeBetween(pos + 1, pos + 1) = 0
        /\ Size(file[pos + 1]) \in 1 .. INI_BUFFERSIZE - 1
    <3>1. SizeBetween(pos, pos + 1) = Size(file[pos + 1]) /\ SizeBetween(pos + 1, pos + 1) = 0
      BY <1>0, <2>2, <2>5, SizeBetweenIs
    <3>2. QED
      BY <1>0, <2>2, <2>5, <3>1 DEF Readable
  <2>7. \/ mark' = pos /\ cachelen' = Size(file[pos + 1])
        \/ mark' = pos + 1 /\ cachelen' = 0
    BY <1>10, <2>1, <2>2 DEF KeyFound
  <2>8. cachelen' = SizeBetween(mark, ReadLines)'
    BY <2>1, <2>4, <2>6, <2>7, SameSizes DEF SizeBetween
  <2>9. QED
    BY <1>0, <2>1, <2>2, <2>3, <2>4, <2>5, <2>6, <2>7, <2>8
<1>11. CASE RestRead
  <2>1. /\ write_pc = "rest" /\ write_pc' = "rest" /\ pos < Len(file) /\ file' = file /\ ret' = ret
        /\ UNCHANGED <<exists, old, req>> /\ Accumulate
    BY <1>11 DEF RestRead, write_args
  <2>3. SizeUpTo' = SizeUpTo
    BY <2>1, SameSizes
  <2>a. /\ file = old /\ ReadLines = pos /\ out \in Seq(Line) /\ mark \in 0 .. Len(file)
        /\ pos \in mark .. Len(file) - 1 /\ cachelen = SizeBetween(mark, pos)
        /\ cachelen \in 0 .. INI_BUFFERSIZE - 1
    BY <1>0, <2>1, InCopy
  <2>4. /\ pos' = pos + 1 /\ mark' \in 0 .. pos /\ out' \in Seq(Line)
        /\ cachelen' \in 0 .. INI_BUFFERSIZE - 1 /\ cachelen' = SizeBetween(mark', pos + 1)
    BY <1>0, <2>a, <2>1, AccumulateIs
  <2>5. ReadLines' = pos + 1
    BY <2>1, <2>4 DEF ReadLines
  <2>6. cachelen' = SizeBetween(mark, ReadLines)'
    BY <2>3, <2>4, <2>5 DEF SizeBetween
  <2>7. QED
    BY <1>0, <2>1, <2>a, <2>4, <2>5, <2>6
<1>12. CASE RestDone
  <2>1. write_pc = "rest" /\ Rename(Flush)
    BY <1>12 DEF RestDone
  <2>2. Flush \in Seq(Line)
    BY <2>1, InCopy
  <2>3. QED
    BY <1>0, <2>1, <2>2 DEF Rename, Return, write_args
<1>13. CASE UNCHANGED write_vars
  <2>1. UNCHANGED <<exists, old, req, write_pc, file, out, pos, mark, cachelen, ret>>
    BY <1>13 DEF write_vars
  <2>2. ReadLines' = ReadLines /\ SizeUpTo' = SizeUpTo
    BY <2>1, SameSizes DEF ReadLines
  <2>3. SizeBetween(mark, ReadLines)' = SizeBetween(mark, ReadLines)
    BY <2>1, <2>2 DEF SizeBetween
  <2>4. QED
    BY <1>0, <2>1, <2>2, <2>3
<1>14. QED
  BY <1>1, <1>2, <1>3, <1>4, <1>5, <1>6, <1>7, <1>8, <1>9, <1>10, <1>11, <1>12, <1>13
     DEF WriteNext, WriteDone

\* A turn of a loop reads one line more.
LEMMA StepAdvances ==
  ASSUME CacheIsLines, Written, WriteNext, write_pc' = write_pc, write_pc # "done"
  PROVE  pos' = pos + 1
<1>0. Readable(old) /\ Len(old) \in Nat
  BY DEF CacheIsLines, WriteTypeOK, Readable
<1>1. ASSUME write_pc \in {"section", "key", "rest"}, pos < Len(file), Accumulate
      PROVE  pos' = pos + 1
  <2>1. /\ Readable(file) /\ out \in Seq(Line) /\ mark \in 0 .. Len(file)
        /\ pos \in mark .. Len(file) - 1 /\ cachelen = SizeBetween(mark, pos)
        /\ cachelen \in 0 .. INI_BUFFERSIZE - 1
    BY <1>0, <1>1, InCopy
  <2>2. QED
    BY <1>1, <2>1, AccumulateIs
<1>2. CASE SectionRead
  BY <1>1, <1>2 DEF SectionRead
<1>3. CASE KeyRead
  BY <1>1, <1>3 DEF KeyRead
<1>4. CASE RestRead
  BY <1>1, <1>4 DEF RestRead
<1>5. QED
  BY <1>2, <1>3, <1>4
     DEF WriteNext, WriteDone, CreateFile, NothingToDo, InPlace, OpenTemp, SectionMissing,
         SkipHeader, KeyMissing, KeyFound, RestDone, Return, Rename

-----------------------------------------------------------------------------
(* The search.                                                               *)

\* There is one least element.
LEMMA OneFirst ==
  ASSUME NEW S, S \subseteq Nat, NEW s \in First(S), NEW t \in First(S)
  PROVE  s = t /\ s \in Nat /\ s \in S
BY DEF First

\* Sections begin at lines, or before the first.
LEMMA StartsAre ==
  ASSUME NEW lines \in Seq(Line), NEW section
  PROVE  /\ SectionStarts(lines, section) \subseteq 0 .. Len(lines)
         /\ SectionStarts(lines, section) \subseteq Nat
         /\ Matches(lines, section, req.key) \subseteq 1 .. Len(lines)
         /\ Matches(lines, section, req.key) \subseteq Nat
         /\ section = NULL => SectionStarts(lines, section) = {0}
         /\ section # NULL => \A n \in SectionStarts(lines, section) : n # 0
         /\ req.key = NULL => Matches(lines, section, req.key) = {}
BY DEF SectionStarts, Headers, Matches, KeyLines, Lines, SameName

\* The keys that are found are in the lines after the header, before any other.
LEMMA MatchIs ==
  ASSUME NEW lines \in Seq(Line), NEW section, NEW s \in First(SectionStarts(lines, section)),
         NEW n
  PROVE  n \in Matches(lines, section, req.key) <=>
           /\ n \in 1 .. Len(lines) /\ s < n /\ lines[n].kind = "key"
           /\ SameName(lines[n].name, req.key)
           /\ \A k \in s + 1 .. n : ~LeavesSection(lines[k])
<1>1. \A t \in First(SectionStarts(lines, section)) : t = s
  BY StartsAre, OneFirst
<1>2. n \in Lines(lines, section) <=>
        /\ n \in 1 .. Len(lines) /\ s < n
        /\ \A k \in s + 1 .. n : ~LeavesSection(lines[k])
  BY <1>1 DEF Lines
<1>3. QED
  BY <1>2 DEF Matches, KeyLines

\* When the section ends and the key was not among its lines, it is not there.
LEMMA NotFound ==
  ASSUME NEW lines \in Seq(Line), NEW section, NEW s \in First(SectionStarts(lines, section)),
         NEW p \in s .. Len(lines),
         \A n \in s + 1 .. p :
           ~LeavesSection(lines[n]) /\ n \notin Matches(lines, section, req.key),
         p < Len(lines) => LeavesSection(lines[p + 1])
  PROVE  Matches(lines, section, req.key) = {} /\ p \in SectionEnds(lines, s)
<1>0. s \in Nat /\ Len(lines) \in Nat /\ p \in Nat
  BY StartsAre, OneFirst
<1>1. ASSUME NEW n \in Matches(lines, section, req.key) PROVE FALSE
  <2>1. n \in 1 .. Len(lines) /\ s < n /\ \A k \in s + 1 .. n : ~LeavesSection(lines[k])
    BY <1>1, MatchIs
  <2>2. n \notin s + 1 .. p
    BY <1>1
  <2>3. p < Len(lines) /\ p + 1 \in s + 1 .. n
    BY <1>0, <2>1, <2>2
  <2>4. QED
    BY <2>1, <2>3
<1>2. p \in SectionEnds(lines, s)
  BY DEF SectionEnds
<1>3. QED
  BY <1>1, <1>2

\* The first line that matches.
LEMMA FoundIs ==
  ASSUME NEW lines \in Seq(Line), NEW section, NEW s \in First(SectionStarts(lines, section)),
         NEW p \in s .. Len(lines) - 1,
         \A n \in s + 1 .. p :
           ~LeavesSection(lines[n]) /\ n \notin Matches(lines, section, req.key),
         lines[p + 1].kind = "key", SameName(lines[p + 1].name, req.key)
  PROVE  p + 1 \in First(Matches(lines, section, req.key))
<1>0. s \in Nat /\ Len(lines) \in Nat /\ p \in Nat
  BY StartsAre, OneFirst
<1>1. \A k \in s + 1 .. p + 1 : ~LeavesSection(lines[k])
  BY <1>0 DEF LeavesSection
<1>2. p + 1 \in 1 .. Len(lines) /\ s < p + 1
  BY <1>0
<1>3. p + 1 \in Matches(lines, section, req.key)
  BY <1>1, <1>2, MatchIs
<1>4. ASSUME NEW n \in Matches(lines, section, req.key) PROVE p + 1 <= n
  <2>1. n \in 1 .. Len(lines) /\ s < n
    BY <1>4, MatchIs
  <2>2. n \notin s + 1 .. p
    BY <1>4
  <2>3. QED
    BY <1>0, <2>1, <2>2
<1>5. QED
  BY <1>3, <1>4 DEF First

\* Every step keeps what is known of the search.
LEMMA StepSearched ==
  ASSUME CacheIsLines, Begun, Searched, Written, [WriteNext]_write_vars
  PROVE  Begun' /\ Searched'
<1>0. Readable(old) /\ old \in Seq(Line) /\ Len(old) \in Nat /\ pos \in 0 .. Len(old)
  BY DEF CacheIsLines, WriteTypeOK, Readable
<1> DEFINE starts == SectionStarts(old, req.section)
           found == Matches(old, req.section, req.key)
<1>a. starts \subseteq Nat /\ starts \subseteq 0 .. Len(old)
  BY <1>0, StartsAre
<1>1. CASE CreateFile \/ NothingToDo \/ InPlace \/ SectionMissing \/ KeyMissing \/ RestDone
  BY <1>1 DEF Begun, Searched, CreateFile, NothingToDo, InPlace, SectionMissing, KeyMissing,
              RestDone, Rename, Return, write_args
<1>2. CASE OpenTemp
  <2>1. /\ file = old /\ pos' = 0 /\ UNCHANGED <<exists, old, req>>
        /\ \/ write_pc' = (IF req.section = NULL THEN "skip" ELSE "section")
           \/ write_pc' = "done"
    BY <1>2 DEF OpenTemp, Begun, Return, write_args
  <2>2. req.key # NULL /\ req.value = NULL => found # {}
    BY <1>2, <2>1 DEF OpenTemp, Put, WriteFound
  <2>3. Begun'
    BY <2>1, <2>2 DEF Begun
  <2>4. write_pc' = "skip" => pos' \in First(SectionStarts(old, req.section)')
    <3>1. 0 \in First({0})
      BY DEF First
    <3>2. QED
      BY <2>1, <3>1 DEF SectionStarts
  <2>5. Searched'
    BY <2>1, <2>4 DEF Searched
  <2>6. QED
    BY <2>3, <2>5
<1>3. CASE SectionRead
  <2>1. /\ write_pc = "section" /\ pos < Len(file) /\ UNCHANGED <<exists, old, req>>
        /\ write_pc' = (IF IsSection THEN "skip" ELSE "section") /\ file = old
    BY <1>3, InCopy DEF SectionRead, write_args
  <2>2. pos' = pos + 1
    <3>1. CASE IsSection /\ req.key = NULL
      BY <1>3, <3>1 DEF SectionRead
    <3>2. CASE ~(IsSection /\ req.key = NULL)
      <4>1. Accumulate
        BY <1>3, <3>2 DEF SectionRead
      <4>2. /\ Readable(file) /\ out \in Seq(Line) /\ mark \in 0 .. Len(file)
            /\ pos \in mark .. Len(file) - 1 /\ cachelen = SizeBetween(mark, pos)
            /\ cachelen \in 0 .. INI_BUFFERSIZE - 1
        BY <1>0, <2>1, InCopy
      <4>3. QED
        BY <4>1, <4>2, AccumulateIs
    <3>3. QED
      BY <3>1, <3>2
  <2>3. req.section # NULL /\ \A n \in 1 .. pos : n \notin starts
    BY <2>1 DEF Searched
  <2>4. IsSection <=> pos + 1 \in starts
    BY <1>0, <2>1, <2>3 DEF IsSection, SectionStarts, Headers
  <2>5. CASE IsSection
    <3>1. pos + 1 \in First(starts)
      <4>1. ASSUME NEW k \in starts PROVE pos + 1 <= k
        <5>1. k \in Nat /\ k # 0 /\ k \notin 1 .. pos
          BY <1>0, <1>a, <2>3, StartsAre
        <5>2. QED
          BY <1>0, <5>1
      <4>2. QED
        BY <2>4, <2>5, <4>1 DEF First
    <3>2. QED
      BY <2>1, <2>2, <2>5, <3>1 DEF Begun, Searched
  <2>6. CASE ~IsSection
    <3>1. \A n \in 1 .. pos + 1 : n \notin starts
      BY <1>0, <2>3, <2>4, <2>6
    <3>2. QED
      BY <2>1, <2>2, <2>3, <2>6, <3>1 DEF Begun, Searched
  <2>7. QED
    BY <2>5, <2>6
<1>4. CASE SkipHeader
  <2>1. /\ write_pc = "skip" /\ write_pc' = "key" /\ UNCHANGED <<exists, old, req>>
        /\ out' = Flush
        /\ pos' = (IF req.key = NULL /\ Flushed < Len(file) THEN Flushed + 1 ELSE Flushed)
    BY <1>4 DEF SkipHeader, write_args
  <2>2. /\ file = old /\ Flushed = ReadLines /\ mark \in 0 .. Len(file) /\ Readable(file)
        /\ ReadLines \in mark .. Len(file) /\ cachelen = SizeBetween(mark, ReadLines)
    BY <2>1, InCopy
  <2>3. pos \in First(starts) /\ out = SubSeq(file, 1, mark)
    BY <2>1, <2>2 DEF Searched, Written
  <2>4. ~Headless => pos' = pos
    BY <1>0, <2>1, <2>2 DEF Headless, ReadLines
  <2>5. ~Headless /\ req.key = NULL => out' = SubSeq(old, 1, pos - 1)
    <3>1. Flush = SubSeq(file, 1, ReadLines)
      BY <2>2, <2>3, FlushCopies
    <3>2. QED
      BY <2>1, <2>2, <3>1 DEF Headless, ReadLines
  <2>6. \A n \in pos + 1 .. pos : FALSE
    BY <1>0
  <2>7. ~Headless =>
          \E s \in First(starts) :
             /\ s <= pos'
             /\ \A n \in s + 1 .. pos' : ~LeavesSection(old[n]) /\ n \notin found
             /\ req.key = NULL => out' = SubSeq(old, 1, s - 1)
    BY <1>0, <2>3, <2>4, <2>5, <2>6
  <2>8. Searched'
    BY <2>1, <2>7 DEF Searched, Headless
  <2>9. QED
    BY <2>1, <2>8 DEF Begun
<1>5. CASE KeyRead
  <2>1. /\ write_pc = "key" /\ write_pc' = "key" /\ pos < Len(file) /\ ~Stops
        /\ UNCHANGED <<exists, old, req>> /\ file = old
    BY <1>5, InCopy DEF KeyRead, write_args
  <2>2. pos' = pos + 1 /\ (req.key = NULL => out' = out)
    <3>1. CASE req.key = NULL
      BY <1>5, <3>1 DEF KeyRead
    <3>2. CASE req.key # NULL
      <4>1. Accumulate
        BY <1>5, <3>2 DEF KeyRead
      <4>2. /\ Readable(file) /\ out \in Seq(Line) /\ mark \in 0 .. Len(file)
            /\ pos \in mark .. Len(file) - 1 /\ cachelen = SizeBetween(mark, pos)
            /\ cachelen \in 0 .. INI_BUFFERSIZE - 1
        BY <1>0, <2>1, InCopy
      <4>3. QED
        BY <3>2, <4>1, <4>2, AccumulateIs
    <3>3. QED
      BY <3>1, <3>2
  <2>3. CASE Headless
    BY <2>1, <2>3 DEF Begun, Searched, Headless
  <2>4. CASE ~Headless
    <3>1. PICK s \in First(starts) :
             /\ s <= pos
             /\ \A n \in s + 1 .. pos : ~LeavesSection(old[n]) /\ n \notin found
             /\ req.key = NULL => out = SubSeq(old, 1, s - 1)
      BY <2>1, <2>4 DEF Searched
    <3>2. s \in Nat
      BY <1>a, OneFirst
    <3>3. ~LeavesSection(old[pos + 1])
      BY <2>1 DEF Stops
    <3>4. pos + 1 \notin found
      <4>1. req.key # NULL => ~IsKey
        BY <2>1 DEF Stops
      <4>2. pos + 1 \in found => old[pos + 1].kind = "key" /\ SameName(old[pos + 1].name, req.key)
        BY <1>0, MatchIs
      <4>3. QED
        BY <2>1, <4>1, <4>2 DEF IsKey, SameName
    <3>5. \A n \in s + 1 .. pos + 1 : ~LeavesSection(old[n]) /\ n \notin found
      BY <1>0, <3>1, <3>2, <3>3, <3>4
    <3>6. s <= pos + 1 /\ (req.key = NULL => out' = SubSeq(old, 1, s - 1))
      BY <1>0, <2>2, <3>1, <3>2
    <3>7. Searched'
      BY <2>1, <2>2, <3>5, <3>6 DEF Searched
    <3>8. QED
      BY <2>1, <3>7 DEF Begun
  <2>5. QED
    BY <2>3, <2>4
<1>6. CASE KeyFound \/ RestRead
  BY <1>6 DEF Begun, Searched, KeyFound, RestRead, write_args
<1>7. CASE UNCHANGED write_vars
  BY <1>7 DEF write_vars, Begun, Searched, Headless
<1>8. QED
  BY <1>1, <1>2, <1>3, <1>4, <1>5, <1>6, <1>7 DEF WriteNext, WriteDone

-----------------------------------------------------------------------------
(* The change.                                                               *)

\* What a call is to make does not change during the call.
LEMMA EditPrimed ==
  ASSUME req' = req, old' = old, NEW after, Edited(old, after), file' = after
  PROVE  Edited(old, file)'
BY DEF Edited, Put, NewSetting

LEMMA RestPrimed ==
  ASSUME req' = req, old' = old, NEW after, Edited(old, after),
         after = out' \o SubSeq(old, mark' + 1, Len(old))
  PROVE  Edited(old, out \o SubSeq(old, mark + 1, Len(old)))'
BY DEF Edited, Put, NewSetting

\* A line is replaced where it is.
LEMMA InPlaceIs ==
  ASSUME NEW lines \in Seq(Line), NEW n \in 1 .. Len(lines), NEW line \in Line
  PROVE  [lines EXCEPT ![n] = line] = Replaced(lines, n, <<line>>)
<1> DEFINE a == SubSeq(lines, 1, n - 1)
           b == SubSeq(lines, n + 1, Len(lines))
           e == [lines EXCEPT ![n] = line]
           r == (a \o <<line>>) \o b
<1>0. Len(lines) \in Nat /\ n - 1 \in 0 .. Len(lines) /\ n \in 0 .. Len(lines)
  OBVIOUS
<1>1. /\ a \in Seq(Line) /\ Len(a) = n - 1
      /\ \A k \in 1 .. n - 1 : a[k] = lines[k]
  BY <1>0, SubSeqProperties
<1>2. /\ b \in Seq(Line) /\ Len(b) = Len(lines) - n
      /\ \A k \in 1 .. Len(lines) - n : b[k] = lines[n + k]
  <2>1. Len(lines) \in n .. Len(lines)
    BY <1>0
  <2>2. QED
    BY <1>0, <2>1, Parts
<1>3. /\ e \in Seq(Line) /\ Len(e) = Len(lines)
      /\ \A k \in 1 .. Len(lines) : e[k] = IF k = n THEN line ELSE lines[k]
  BY ExceptSeq
<1> HIDE DEF a, b, e
<1>4. /\ a \o <<line>> \in Seq(Line) /\ Len(a \o <<line>>) = n
      /\ \A k \in 1 .. n : (a \o <<line>>)[k] = IF k = n THEN line ELSE lines[k]
  <2>1. Append(a, line) = a \o <<line>>
    BY <1>1, AppendIsConcat
  <2>2. /\ Append(a, line) \in Seq(Line) /\ Len(Append(a, line)) = n
        /\ \A k \in 1 .. n - 1 : Append(a, line)[k] = lines[k]
        /\ Append(a, line)[n] = line
    BY <1>0, <1>1, AppendProperties
  <2>3. QED
    BY <1>0, <2>1, <2>2
<1> DEFINE c == a \o <<line>>
<1>5. /\ c \in Seq(Line) /\ Len(c) = n
      /\ \A k \in 1 .. n : c[k] = IF k = n THEN line ELSE lines[k]
  BY <1>4
<1> HIDE DEF c
<1>6. /\ c \o b \in Seq(Line) /\ Len(c \o b) = Len(lines)
      /\ \A k \in 1 .. Len(lines) : (c \o b)[k] = IF k <= n THEN c[k] ELSE b[k - n]
  <2>1. n + (Len(lines) - n) = Len(lines)
    BY <1>0
  <2>2. /\ c \o b \in Seq(Line) /\ Len(c \o b) = Len(c) + Len(b)
        /\ \A k \in 1 .. Len(c) + Len(b) :
             (c \o b)[k] = IF k <= Len(c) THEN c[k] ELSE b[k - Len(c)]
    BY <1>2, <1>5, ConcatProperties
  <2>3. Len(c) + Len(b) = Len(lines)
    BY <1>2, <1>5, <2>1
  <2>4. QED
    BY <1>5, <2>2, <2>3
<1>7. ASSUME NEW k \in 1 .. Len(e) PROVE e[k] = (c \o b)[k]
  <2>1. k \in 1 .. Len(lines)
    BY <1>3
  <2>2. CASE k <= n
    <3>1. k \in 1 .. n
      BY <1>0, <2>1, <2>2
    <3>2. QED
      BY <1>3, <1>5, <1>6, <2>1, <2>2, <3>1
  <2>3. CASE ~(k <= n)
    <3>1. k - n \in 1 .. Len(lines) - n /\ n + (k - n) = k /\ k # n
      BY <1>0, <2>1, <2>3
    <3>2. QED
      BY <1>2, <1>3, <1>6, <2>1, <2>3, <3>1
  <2>4. QED
    BY <2>2, <2>3
<1>8. e = c \o b
  BY <1>3, <1>6, <1>7, SeqEqual
<1>9. QED
  BY <1>8 DEF e, c, a, b, Replaced

\* The end of a copy to which lines are added.
LEMMA TerminatedIs ==
  ASSUME Readable(file), mark \in 0 .. Len(file), out = SubSeq(file, 1, mark),
         cachelen = SizeBetween(mark, Len(file))
  PROVE  /\ Terminated \in Terminable(file) /\ Terminated \in Seq(Line)
         /\ Closed(Terminated) /\ Flush = file
<1>0. file \in Seq(Line) /\ Len(file) \in Nat /\ Len(file) \in mark .. Len(file) /\ out \in Seq(Line)
  <2>1. file \in Seq(Line) /\ Len(file) \in Nat
    BY DEF Readable
  <2>2. QED
    BY <2>1, Parts
<1>1. Flush = file
  <2>1. Flush = SubSeq(file, 1, Len(file))
    BY <1>0, FlushCopies
  <2>2. QED
    BY <1>0, <2>1, SubSeqFull
<1>2. Flushed = Len(file)
  BY <1>0, FlushIs
<1> DEFINE blank == Plain("blank")
<1>3. blank \in Line /\ blank.nl /\ blank.kind = "blank"
  BY LinesMade DEF Plain
<1>4. CASE EndsLine
  <2>1. Terminated = file /\ file[Len(file)].nl
    BY <1>1, <1>2, <1>4 DEF Terminated, EndsLine
  <2>2. QED
    BY <1>0, <1>1, <2>1 DEF Terminable, Last, Closed
<1>5. CASE ~EndsLine /\ Closed(file)
  <2>1. Terminated = Append(file, blank)
    BY <1>0, <1>1, <1>3, <1>5, WriteIs DEF Terminated
  <2>2. Append(file, blank) \in Terminable(file)
    BY <1>5 DEF Terminable, Closed
  <2>3. Append(file, blank) \in Seq(Line) /\ Last(Append(file, blank)) = blank
    <3> HIDE DEF blank
    <3>1. Append(file, blank) \in Seq(Line) /\ Len(Append(file, blank)) = Len(file) + 1
          /\ Append(file, blank)[Len(file) + 1] = blank
      BY <1>0, <1>3, AppendProperties
    <3>2. QED
      BY <3>1 DEF Last
  <2>4. QED
    BY <1>1, <1>3, <2>1, <2>2, <2>3 DEF Closed
<1>6. CASE ~EndsLine /\ ~Closed(file)
  <2> DEFINE end == [Last(file) EXCEPT !.nl = TRUE]
  <2>1. file # << >> /\ ~Last(file).nl
    BY <1>6 DEF Closed
  <2>2. Terminated = Append(Front(file), end)
    BY <1>1, <1>3, <1>6, <2>1 DEF Terminated, Write
  <2>3. Terminated \in Terminable(file)
    BY <2>1, <2>2 DEF Terminable
  <2>4. Last(file) \in Line /\ Front(file) \in Seq(Line)
    BY <1>0, <2>1, LastIs
  <2>5. end \in Line /\ end.nl
    BY <2>4 DEF Line
  <2> HIDE DEF end
  <2>6. /\ Append(Front(file), end) \in Seq(Line)
        /\ Append(Front(file), end)[Len(Front(file)) + 1] = end
        /\ Len(Append(Front(file), end)) = Len(Front(file)) + 1
    BY <2>4, <2>5, AppendProperties
  <2>7. QED
    BY <1>1, <2>2, <2>3, <2>5, <2>6 DEF Closed, Last
<1>7. QED
  BY <1>4, <1>5, <1>6

\* In the loop for the key, after the section was found.
LEMMA InSection ==
  ASSUME CacheIsLines, Searched, Written, write_pc = "key", ~Headless
  PROVE  \E s \in First(SectionStarts(old, req.section)) :
           /\ s \in Nat /\ s <= pos /\ s <= Len(old)
           /\ \A n \in s + 1 .. pos :
                ~LeavesSection(old[n]) /\ n \notin Matches(old, req.section, req.key)
           /\ req.key = NULL => s \in 1 .. Len(old) /\ out = SubSeq(old, 1, s - 1) /\ mark = pos
<1>0. old \in Seq(Line) /\ Len(old) \in Nat /\ pos \in 0 .. Len(old)
  BY InCopy
<1>1. PICK s \in First(SectionStarts(old, req.section)) :
           /\ s <= pos
           /\ \A n \in s + 1 .. pos :
                ~LeavesSection(old[n]) /\ n \notin Matches(old, req.section, req.key)
           /\ req.key = NULL => out = SubSeq(old, 1, s - 1)
  BY DEF Searched
<1>2. s \in Nat /\ s \in SectionStarts(old, req.section) /\ s \in 0 .. Len(old)
  BY <1>0, StartsAre, OneFirst
<1>3. req.key = NULL => s # 0 /\ mark = pos
  BY <1>0, <1>2, StartsAre DEF Headless, Written
<1>4. QED
  BY <1>0, <1>1, <1>2, <1>3

\* The lines of the section, or its key, have been read; the change is made.
LEMMA KeyFoundWrites ==
  ASSUME CacheIsLines, Begun, Searched, Written, KeyFound, ~Headless
  PROVE  /\ out' # << >> /\ mark' < Len(old) => Last(out').nl
         /\ Edited(old, out' \o SubSeq(old, mark' + 1, Len(old)))
<1>1. /\ write_pc = "key" /\ pos < Len(file) /\ Stops /\ file = old /\ Readable(file)
      /\ file \in Seq(Line) /\ Len(file) \in Nat /\ pos \in 0 .. Len(file)
      /\ out \in Seq(Line) /\ mark \in 0 .. Len(file) /\ pos \in mark .. Len(file)
      /\ cachelen = SizeBetween(mark, pos) /\ Flushed = pos
  <2>1. write_pc = "key" /\ pos < Len(file) /\ Stops
    BY DEF KeyFound
  <2>2. QED
    BY <2>1, InCopy
<1>0. req \in Request
  BY DEF CacheIsLines, WriteTypeOK
<1> DEFINE starts == SectionStarts(old, req.section)
           found == Matches(old, req.section, req.key)
           setting == Setting(req.key, req.value)
           rest == SubSeq(old, pos + 1, Len(old))
           after == SubSeq(old, pos + 2, Len(old))
           leaves == LeavesSection(old[pos + 1])
<1>2. PICK s \in First(starts) :
           /\ s \in Nat /\ s <= pos /\ s <= Len(old)
           /\ \A n \in s + 1 .. pos : ~LeavesSection(old[n]) /\ n \notin found
           /\ req.key = NULL => s \in 1 .. Len(old) /\ out = SubSeq(old, 1, s - 1) /\ mark = pos
  BY <1>1, InSection
<1>3. /\ out' = (IF Put THEN Write(Flush, setting) ELSE Flush)
      /\ leaves => mark' = pos
      /\ ~leaves => mark' = pos + 1
  BY <1>1 DEF KeyFound
<1>4. pos \in s .. Len(old) /\ pos \in s .. Len(old) - 1 /\ pos + 1 \in 1 .. Len(old)
      /\ pos + 1 \in 0 .. Len(old) /\ pos + 1 + 1 = pos + 2 /\ (pos + 1) - 1 = pos
  BY <1>1, <1>2
<1>5. leaves => found = {} /\ pos \in SectionEnds(old, s)
  BY <1>1, <1>2, <1>4, NotFound
<1>6. ~leaves => pos + 1 \in First(found)
  <2>1. ASSUME ~leaves PROVE old[pos + 1].kind = "key" /\ SameName(old[pos + 1].name, req.key)
    BY <1>1, <2>1 DEF Stops, IsKey
  <2>2. QED
    BY <1>1, <1>2, <1>4, <2>1, FoundIs
<1>7. CASE req.key # NULL
  <2>1. out = SubSeq(old, 1, mark)
    BY <1>1, <1>7 DEF Written
  <2>2. Flush = SubSeq(old, 1, pos) /\ Closed(Flush) /\ Flush \in Seq(Line)
    BY <1>1, <2>1, FlushCopies, FlushIs
  <2>3. rest \in Seq(Line) /\ after \in Seq(Line)
    <3>1. Len(old) \in pos .. Len(old) /\ Len(old) \in pos + 1 .. Len(old)
      BY <1>1, <1>4
    <3>2. QED
      BY <1>1, <1>4, <3>1, Parts
  <2>4. CASE Put
    <3>1. setting \in Line /\ setting.nl
      BY <1>0, <2>4, NewLines
    <3> HIDE DEF setting
    <3>2. out' = Append(Flush, setting)
      BY <1>3, <2>2, <2>4, <3>1, WriteIs
    <3>3. out' = SubSeq(old, 1, pos) \o <<setting>>
      BY <2>2, <3>1, <3>2, AppendIsConcat
    <3>4. Last(out') = setting
      <4>1. Append(Flush, setting)[Len(Flush) + 1] = setting
            /\ Len(Append(Flush, setting)) = Len(Flush) + 1
        BY <2>2, <3>1, AppendProperties
      <4>2. QED
        BY <3>2, <4>1 DEF Last
    <3>5. CASE leaves
      <4>1. pos < Len(old) /\ out' \o rest = Inserted(old, pos, <<setting>>)
        BY <1>1, <3>3 DEF Inserted
      <4>2. Edited(old, out' \o rest)
        BY <1>2, <1>5, <2>4, <3>5, <4>1 DEF Edited, setting
      <4>3. QED
        BY <1>3, <3>1, <3>4, <3>5, <4>2
    <3>6. CASE ~leaves
      <4>1. out' \o after = Replaced(old, pos + 1, <<setting>>)
        BY <1>4, <3>3 DEF Replaced
      <4>2. Edited(old, out' \o after)
        BY <1>6, <2>4, <3>6, <4>1 DEF Edited, setting
      <4>3. QED
        BY <1>3, <1>4, <3>1, <3>4, <3>6, <4>2
    <3>7. QED
      BY <3>5, <3>6
  <2>5. CASE ~Put
    <3>1. req.value = NULL /\ found # {}
      BY <1>1, <1>7, <2>5 DEF Put, Begun
    <3>2. ~leaves /\ out' = SubSeq(old, 1, pos)
      BY <1>3, <1>5, <2>2, <2>5, <3>1
    <3>3. SubSeq(old, 1, pos) \o << >> = SubSeq(old, 1, pos)
      BY <2>2, ConcatEmptySeq
    <3>4. out' \o after = Replaced(old, pos + 1, << >>)
      BY <1>4, <3>2, <3>3 DEF Replaced
    <3>5. Edited(old, out' \o after)
      BY <1>6, <1>7, <3>1, <3>2, <3>4 DEF Edited
    <3>6. Closed(out')
      BY <1>3, <2>2, <2>5
    <3>7. QED
      BY <1>3, <1>4, <3>2, <3>5, <3>6 DEF Closed
  <2>6. QED
    BY <2>4, <2>5
<1>8. CASE req.key = NULL
  <2>1. s \in 1 .. Len(old) /\ out = SubSeq(old, 1, s - 1) /\ mark = pos /\ ~Put
    BY <1>2, <1>8 DEF Put
  <2>2. leaves
    BY <1>1, <1>8 DEF Stops
  <2>3. Closed(out) /\ out \in Seq(Line)
    <3>1. s - 1 \in 0 .. Len(old) /\ s - 1 < Len(old) /\ \A k \in 1 .. Len(old) : k < Len(old) => old[k].nl
      BY <1>1, <2>1 DEF Readable
    <3>2. out \in Seq(Line) /\ Len(out) = s - 1
      <4>1. Len(old) \in s - 1 .. Len(old)
        BY <1>1, <2>1
      <4>2. QED
        BY <1>1, <2>1, <3>1, <4>1, Parts
    <3>3. ASSUME out # << >> PROVE Last(out).nl
      <4>1. s - 1 \in 1 .. s - 1 /\ s - 1 \in 1 .. Len(old)
        BY <2>1, <3>1, <3>2, <3>3, EmptySeq
      <4>2. SubSeq(old, 1, s - 1)[s - 1] = old[s - 1]
        BY <1>1, <4>1
      <4>3. QED
        BY <2>1, <3>1, <3>2, <4>1, <4>2 DEF Last
    <3>4. QED
      BY <3>2, <3>3 DEF Closed
  <2>4. Flush = out
    <3>1. Flush = out \o SubSeq(file, pos + 1, pos)
      BY <1>1, <2>1, <2>3, FlushIs
    <3>2. SubSeq(file, pos + 1, pos) = << >>
      BY <1>1, SubSeqEmpty
    <3>3. QED
      BY <2>3, <3>1, <3>2, ConcatEmptySeq
  <2>5. out' = SubSeq(old, 1, s - 1) /\ Closed(out') /\ mark' = pos
    BY <1>3, <2>1, <2>2, <2>3, <2>4
  <2>6. Edited(old, out' \o rest)
    BY <1>2, <1>5, <1>8, <2>2, <2>5 DEF Edited
  <2>7. QED
    BY <2>5, <2>6 DEF Closed
<1>9. QED
  BY <1>7, <1>8

\* A call that makes the file, finds nothing to do or writes in place.
LEMMA ShortCuts ==
  ASSUME CacheIsLines, Begun, CreateFile \/ NothingToDo \/ InPlace, ret' # 0, ~Headless
  PROVE  Edited(old, file')
<1>0. /\ file = old /\ old \in Seq(Line) /\ Len(old) \in Nat /\ req \in Request
      /\ (~exists => old = << >>)
  BY DEF CacheIsLines, WriteTypeOK, Begun, Readable, CreateFile, NothingToDo, InPlace
<1> DEFINE starts == SectionStarts(old, req.section)
           found == Matches(old, req.section, req.key)
           setting == Setting(req.key, req.value)
<1>a. found \subseteq Nat /\ found \subseteq 1 .. Len(old) /\ WriteFound = found
  BY <1>0, StartsAre DEF WriteFound
<1>b. found # {} => Min(found) \in First(found) /\ Min(found) \in 1 .. Len(old)
  BY <1>a, MinIs DEF First
<1>1. CASE CreateFile
  <2>1. ~exists /\ ((Put /\ file' = NewSetting) \/ (~Put /\ file' = file))
    <3>1. ~exists
      BY <1>1 DEF CreateFile
    <3>2. (Put /\ file' = NewSetting) \/ (~Put /\ file' = file) \/ ret' = 0
      BY <1>1 DEF CreateFile, Return
    <3>3. QED
      BY <3>1, <3>2
  <2>2. old = << >> /\ Len(old) = 0 /\ found = {}
    <3>1. old = << >>
      BY <1>0, <2>1
    <3>2. Len(old) = 0
      BY <3>1
    <3>3. QED
      BY <1>a, <3>1, <3>2
  <2>3. CASE Put
    <3>1. << >> \in Terminable(old)
      BY <2>2 DEF Terminable
    <3>2. CASE req.section = NULL
      <4>1. 0 \in First(starts) /\ 0 \in SectionEnds(old, 0)
        <5>1. starts = {0}
          BY <1>0, <3>2, StartsAre
        <5>2. QED
          BY <2>2, <5>1 DEF First, SectionEnds
      <4>2. file' = Append(<< >>, setting)
        BY <2>1, <2>3, <3>2 DEF NewSetting
      <4>3. ~(0 < Len(old))
        BY <2>2
      <4>4. QED
        BY <2>2, <2>3, <3>1, <4>1, <4>2, <4>3 DEF Edited, setting
    <3>3. CASE req.section # NULL
      <4>1. starts = {}
        <5>1. starts \subseteq 0 .. Len(old) /\ \A n \in starts : n # 0
          BY <1>0, <3>3, StartsAre
        <5>2. QED
          BY <2>2, <5>1
      <4>2. NewSetting = << >> \o NewSetting
        BY <1>0, <2>3, NewLines, ConcatEmptySeq
      <4>3. QED
        BY <2>1, <2>2, <2>3, <3>1, <4>1, <4>2 DEF Edited
    <3>4. QED
      BY <3>2, <3>3
  <2>4. CASE ~Put
    <3>1. file' = old
      BY <1>0, <2>1, <2>4
    <3>2. CASE req.key = NULL
      <4>1. starts = {}
        <5>1. starts \subseteq 0 .. Len(old) /\ \A n \in starts : n # 0
          BY <1>0, <3>2, StartsAre DEF Headless
        <5>2. QED
          BY <2>2, <5>1
      <4>2. QED
        BY <3>1, <3>2, <4>1 DEF Edited
    <3>3. CASE req.key # NULL
      BY <2>2, <2>4, <3>1, <3>3 DEF Put, Edited
    <3>4. QED
      BY <3>2, <3>3
  <2>5. QED
    BY <2>3, <2>4
<1>2. CASE NothingToDo
  <2>1. /\ file' = old
        /\ \/ Put /\ found # {} /\ old[Min(found)].value = req.value
           \/ req.key # NULL /\ req.value = NULL /\ found = {}
    BY <1>0, <1>2, <1>a DEF NothingToDo
  <2>2. CASE Put /\ found # {} /\ old[Min(found)].value = req.value
    BY <1>b, <2>1, <2>2 DEF Edited
  <2>3. CASE req.key # NULL /\ req.value = NULL /\ found = {}
    BY <2>1, <2>3 DEF Edited
  <2>4. QED
    BY <2>1, <2>2, <2>3
<1>3. CASE InPlace
  <2>1. Put /\ found # {} /\ file' = [old EXCEPT ![Min(found)] = setting]
    BY <1>0, <1>3, <1>a DEF InPlace, Return
  <2>2. setting \in Line
    BY <1>0, <2>1, NewLines
  <2>3. file' = Replaced(old, Min(found), <<setting>>)
    BY <1>0, <1>b, <2>1, <2>2, InPlaceIs
  <2>4. QED
    BY <1>b, <2>1, <2>3 DEF Edited, setting
<1>4. QED
  BY <1>1, <1>2, <1>3

\* A section or a key that is not there is written at the end.
LEMMA EndWrites ==
  ASSUME CacheIsLines, Begun, Searched, Written, SectionMissing \/ KeyMissing, ~Headless
  PROVE  Edited(old, file')
<1>1. /\ write_pc \in {"section", "key"} /\ pos = Len(file) /\ file = old /\ Readable(file)
      /\ file \in Seq(Line) /\ Len(file) \in Nat /\ mark \in 0 .. Len(file)
      /\ cachelen = SizeBetween(mark, Len(file)) /\ out \in Seq(Line)
  <2>1. write_pc \in {"section", "key"} /\ pos = Len(file)
    BY DEF SectionMissing, KeyMissing
  <2>2. QED
    BY <2>1, InCopy
<1>0. req \in Request
  BY DEF CacheIsLines, WriteTypeOK
<1> DEFINE starts == SectionStarts(old, req.section)
           found == Matches(old, req.section, req.key)
           setting == Setting(req.key, req.value)
<1>2. ASSUME out = SubSeq(old, 1, mark)
      PROVE  /\ Terminated \in Terminable(old) /\ Terminated \in Seq(Line)
             /\ Closed(Terminated) /\ Flush = old
  BY <1>1, <1>2, TerminatedIs
<1>3. CASE SectionMissing
  <2>1. /\ write_pc = "section"
        /\ file' = (IF Put THEN WriteAll(Terminated, NewSetting) ELSE Flush)
    BY <1>3 DEF SectionMissing, Rename
  <2>2. out = SubSeq(old, 1, mark)
    BY <2>1 DEF Written
  <2>3. starts = {}
    <3>1. req.section # NULL /\ \A n \in 1 .. Len(old) : n \notin starts
      BY <1>1, <2>1 DEF Searched
    <3>2. starts \subseteq 0 .. Len(old) /\ \A n \in starts : n # 0
      BY <1>1, <3>1, StartsAre
    <3>3. QED
      BY <1>1, <3>1, <3>2
  <2>4. found = {}
    BY <2>3 DEF Matches, KeyLines, Lines, First
  <2>5. CASE Put
    <3>1. WriteAll(Terminated, NewSetting) = Terminated \o NewSetting
      <4>1. NewSetting \in Seq(Line) /\ \A n \in 1 .. Len(NewSetting) - 1 : NewSetting[n].nl
        <5>1. NewSetting \in Seq(Line) /\ \A n \in 1 .. Len(NewSetting) : NewSetting[n].nl
          BY <1>0, <2>5, NewLines
        <5>2. Len(NewSetting) \in Nat
          BY <5>1
        <5>3. QED
          BY <5>1, <5>2
      <4>2. QED
        BY <1>2, <2>2, <4>1, WriteAllIs
    <3>2. QED
      BY <1>2, <2>1, <2>2, <2>3, <2>4, <2>5, <3>1 DEF Edited
  <2>6. CASE ~Put
    <3>1. req.key = NULL
      BY <1>1, <2>4, <2>6 DEF Begun, Put
    <3>2. QED
      BY <1>2, <2>1, <2>2, <2>3, <2>6, <3>1 DEF Edited
  <2>7. QED
    BY <2>5, <2>6
<1>4. CASE KeyMissing
  <2>1. /\ write_pc = "key"
        /\ file' = (IF Put THEN Write(Terminated, setting) ELSE Flush)
    BY <1>4 DEF KeyMissing, Rename
  <2>2. PICK s \in First(starts) :
           /\ s \in Nat /\ s <= pos /\ s <= Len(old)
           /\ \A n \in s + 1 .. pos : ~LeavesSection(old[n]) /\ n \notin found
           /\ req.key = NULL => s \in 1 .. Len(old) /\ out = SubSeq(old, 1, s - 1) /\ mark = pos
    BY <2>1, InSection
  <2>3. found = {} /\ Len(old) \in SectionEnds(old, s)
    <3>1. Len(old) \in s .. Len(old) /\ ~(Len(old) < Len(old))
      BY <1>1, <2>2
    <3>2. QED
      BY <1>1, <2>2, <3>1, NotFound
  <2>4. CASE req.key # NULL
    <3>1. Put
      BY <2>1, <2>3, <2>4 DEF Begun, Put
    <3>2. out = SubSeq(old, 1, mark)
      BY <2>1, <2>4 DEF Written
    <3>3. setting \in Line
      BY <1>0, <3>1, NewLines
    <3>4. Write(Terminated, setting) = Append(Terminated, setting)
      BY <1>2, <3>2, <3>3, WriteIs
    <3>5. file' = Append(Terminated, setting) /\ Terminated \in Terminable(old)
      BY <1>2, <2>1, <3>1, <3>2, <3>4
    <3>6. ~(Len(old) < Len(old))
      BY <1>1
    <3>7. QED
      BY <2>2, <2>3, <3>1, <3>5, <3>6 DEF Edited, setting
  <2>5. CASE req.key = NULL
    <3>1. s \in 1 .. Len(old) /\ out = SubSeq(old, 1, s - 1) /\ mark = Len(file) /\ ~Put
      BY <1>1, <2>2, <2>5 DEF Put
    <3>2. Flush = out \o SubSeq(file, Len(file) + 1, Len(file))
      <4>1. Len(file) \in mark .. Len(file) /\ ~(mark < Len(file))
        BY <1>1, <3>1
      <4>2. QED
        BY <1>1, <3>1, <4>1, FlushIs
    <3>3. file' = SubSeq(old, 1, s - 1) \o SubSeq(old, Len(old) + 1, Len(old))
      BY <1>1, <2>1, <3>1, <3>2
    <3>4. QED
      BY <2>2, <2>3, <2>5, <3>3 DEF Edited
  <2>6. QED
    BY <2>4, <2>5
<1>5. QED
  BY <1>3, <1>4

\* The rest of the file is copied.
LEMMA RestWrites ==
  ASSUME CacheIsLines, Written, write_pc = "rest", ~Headless,
         NEW n \in mark .. Len(old), n = pos
  PROVE  /\ Flush \o SubSeq(old, n + 1, Len(old)) = out \o SubSeq(old, mark + 1, Len(old))
         /\ n < Len(old) => Closed(Flush)
         /\ n = Len(old) => Flush = out \o SubSeq(old, mark + 1, Len(old))
<1>1. /\ file = old /\ Readable(file) /\ file \in Seq(Line) /\ Len(file) \in Nat
      /\ out \in Seq(Line) /\ mark \in 0 .. Len(file) /\ cachelen = SizeBetween(mark, n)
  BY InCopy
<1>2. mark < Len(file) => Closed(out)
  BY <1>1 DEF Written, Closed
<1>3. Flush = out \o SubSeq(old, mark + 1, n) /\ (n < Len(old) => Closed(Flush))
  BY <1>1, <1>2, FlushIs
<1>4. /\ SubSeq(old, mark + 1, n) \in Seq(Line)
      /\ SubSeq(old, mark + 1, n) \o SubSeq(old, n + 1, Len(old)) = SubSeq(old, mark + 1, Len(old))
  BY <1>1, Parts
<1>5. SubSeq(old, n + 1, Len(old)) \in Seq(Line)
  <2>1. n \in 0 .. Len(old) /\ Len(old) \in n .. Len(old)
    BY <1>1
  <2>2. QED
    BY <1>1, <2>1, Parts
<1>6. (out \o SubSeq(old, mark + 1, n)) \o SubSeq(old, n + 1, Len(old))
        = out \o (SubSeq(old, mark + 1, n) \o SubSeq(old, n + 1, Len(old)))
  <2> DEFINE a == SubSeq(old, mark + 1, n)
             b == SubSeq(old, n + 1, Len(old))
  <2>1. out \in Seq(Line) /\ a \in Seq(Line) /\ b \in Seq(Line)
    BY <1>1, <1>4, <1>5
  <2> HIDE DEF a, b
  <2>2. (out \o a) \o b = out \o (a \o b)
    BY <2>1, ConcatAssociative
  <2>3. QED
    BY <2>2 DEF a, b
<1>7. QED
  BY <1>3, <1>4, <1>6

\* Every step keeps what is written.
LEMMA StepWritten ==
  ASSUME CacheIsLines, Begun, Searched, Written, WritesEdit, [WriteNext]_write_vars
  PROVE  Written' /\ WritesEdit'
<1>0. Readable(old) /\ old \in Seq(Line) /\ Len(old) \in Nat
  BY DEF CacheIsLines, WriteTypeOK, Readable
<1>a. ASSUME UNCHANGED req PROVE Headless' = Headless
  BY <1>a DEF Headless
<1>b. ASSUME write_pc' = "done", UNCHANGED <<old, req>>,
             ret' = 0 => file' = old,
             (ret' # 0 /\ ~Headless) => Edited(old, file')
      PROVE  Written' /\ WritesEdit'
  <2>1. Written'
    BY <1>b DEF Written
  <2>2. CASE ret' = 0
    BY <1>b, <2>1, <2>2 DEF WritesEdit
  <2>3. CASE Headless
    BY <1>a, <1>b, <2>1, <2>3 DEF WritesEdit
  <2>4. CASE ret' # 0 /\ ~Headless
    <3>1. Edited(old, file)'
      BY <1>b, <2>4, EditPrimed
    <3>2. QED
      BY <1>b, <2>1, <2>4, <3>1 DEF WritesEdit
  <2>5. QED
    BY <2>2, <2>3, <2>4
<1>1. CASE CreateFile \/ NothingToDo \/ InPlace
  <2>1. write_pc' = "done" /\ UNCHANGED <<old, req>> /\ file = old
    BY <1>1 DEF CreateFile, NothingToDo, InPlace, Return, write_args, Begun
  <2>2. ret' = 0 => file' = old
    BY <1>1, <2>1 DEF CreateFile, NothingToDo, InPlace, Return
  <2>3. QED
    BY <1>1, <1>b, <2>1, <2>2, ShortCuts
<1>2. CASE OpenTemp
  <2>1. /\ file' = old /\ out' = << >> /\ mark' = 0 /\ UNCHANGED <<old, req>>
        /\ \/ write_pc' \in {"section", "skip"}
           \/ write_pc' = "done" /\ ret' = 0
    BY <1>2 DEF OpenTemp, Begun, Return, write_args
  <2>2. CASE write_pc' = "done" /\ ret' = 0
    BY <1>b, <2>1, <2>2
  <2>3. CASE write_pc' \in {"section", "skip"}
    <3>1. SubSeq(old, 1, 0) = << >>
      BY SubSeqEmpty
    <3>2. QED
      BY <2>1, <2>3, <3>1 DEF Written, WritesEdit
  <2>4. QED
    BY <2>1, <2>2, <2>3
<1>3. ASSUME write_pc \in {"section", "key"}, write_pc' \in {"section", "skip", "key"},
             pos < Len(file), Accumulate, out = SubSeq(old, 1, mark), UNCHANGED <<old, req>>,
             write_pc' = "key" => req.key # NULL
      PROVE  Written' /\ WritesEdit'
  <2>1. /\ file = old /\ Readable(file) /\ out \in Seq(Line) /\ mark \in 0 .. Len(file)
        /\ pos \in mark .. Len(file) - 1 /\ pos \in mark .. Len(file)
        /\ cachelen = SizeBetween(mark, pos) /\ cachelen \in 0 .. INI_BUFFERSIZE - 1
    BY <1>0, <1>3, InCopy
  <2>2. (out' = out /\ mark' = mark) \/ (out' = Flush /\ mark' = pos)
    BY <1>3, <2>1, AccumulateIs
  <2>3. Flush = SubSeq(old, 1, pos)
    BY <1>3, <2>1, FlushCopies
  <2>4. out' = SubSeq(old, 1, mark')
    BY <1>3, <2>2, <2>3
  <2>5. QED
    BY <1>3, <2>4 DEF Written, WritesEdit
<1>4. CASE SectionRead
  <2>1. /\ write_pc = "section" /\ pos < Len(file) /\ write_pc' \in {"section", "skip"}
        /\ UNCHANGED <<old, req>> /\ out = SubSeq(old, 1, mark)
    BY <1>4 DEF SectionRead, write_args, Written
  <2>2. CASE IsSection /\ req.key = NULL
    <3>1. UNCHANGED <<out, mark>>
      BY <1>4, <2>2 DEF SectionRead
    <3>2. QED
      BY <2>1, <3>1 DEF Written, WritesEdit
  <2>3. CASE ~(IsSection /\ req.key = NULL)
    <3>1. Accumulate
      BY <1>4, <2>3 DEF SectionRead
    <3>2. QED
      BY <1>3, <2>1, <3>1
  <2>4. QED
    BY <2>2, <2>3
<1>5. CASE SectionMissing \/ KeyMissing
  <2>1. write_pc' = "done" /\ ret' = 1 /\ UNCHANGED <<old, req>>
    BY <1>5 DEF SectionMissing, KeyMissing, Rename, Return, write_args
  <2>2. QED
    BY <1>5, <1>b, <2>1, EndWrites
<1>6. CASE SkipHeader
  <2>1. /\ write_pc = "skip" /\ write_pc' = "key" /\ UNCHANGED <<old, req>>
        /\ out' = Flush /\ mark' = pos'
        /\ (req.key # NULL => mark' = Flushed)
    BY <1>6 DEF SkipHeader, write_args
  <2>2. /\ file = old /\ Flushed = ReadLines /\ mark \in 0 .. Len(file) /\ Readable(file)
        /\ ReadLines \in mark .. Len(file) /\ cachelen = SizeBetween(mark, ReadLines)
    BY <2>1, InCopy
  <2>3. Flush = SubSeq(old, 1, ReadLines)
    BY <2>1, <2>2, FlushCopies DEF Written
  <2>4. req.key # NULL => out' = SubSeq(old, 1, mark')
    BY <2>1, <2>2, <2>3
  <2>5. QED
    BY <2>1, <2>4 DEF Written, WritesEdit
<1>7. CASE KeyRead
  <2>1. /\ write_pc = "key" /\ write_pc' = "key" /\ pos < Len(file) /\ UNCHANGED <<old, req>>
    BY <1>7 DEF KeyRead, write_args
  <2>2. CASE req.key = NULL
    <3>1. mark' = pos'
      BY <1>7, <2>2 DEF KeyRead
    <3>2. QED
      BY <2>1, <2>2, <3>1 DEF Written, WritesEdit
  <2>3. CASE req.key # NULL
    <3>1. Accumulate /\ out = SubSeq(old, 1, mark)
      BY <1>7, <2>1, <2>3 DEF KeyRead, Written
    <3>2. QED
      BY <1>3, <2>1, <2>3, <3>1
  <2>4. QED
    BY <2>2, <2>3
<1>8. CASE KeyFound
  <2>1. write_pc' = "rest" /\ UNCHANGED <<old, req>>
    BY <1>8 DEF KeyFound, write_args
  <2>2. WritesEdit'
    BY <2>1 DEF WritesEdit
  <2>3. CASE Headless
    BY <1>a, <2>1, <2>2, <2>3 DEF Written
  <2>4. CASE ~Headless
    <3>1. /\ out' # << >> /\ mark' < Len(old) => Last(out').nl
          /\ Edited(old, out' \o SubSeq(old, mark' + 1, Len(old)))
      BY <1>8, <2>4, KeyFoundWrites
    <3>2. Edited(old, out \o SubSeq(old, mark + 1, Len(old)))'
      BY <2>1, <3>1, RestPrimed
    <3>3. QED
      BY <2>1, <2>2, <3>1, <3>2 DEF Written
  <2>5. QED
    BY <2>3, <2>4
<1>9. CASE RestRead
  <2>1. /\ write_pc = "rest" /\ write_pc' = "rest" /\ UNCHANGED <<old, req>>
        /\ pos < Len(file) /\ Accumulate
    BY <1>9 DEF RestRead, write_args
  <2>2. WritesEdit'
    BY <2>1 DEF WritesEdit
  <2>3. CASE Headless
    BY <1>a, <2>1, <2>2, <2>3 DEF Written
  <2>4. CASE ~Headless
    <3>1. /\ file = old /\ Readable(file) /\ out \in Seq(Line) /\ mark \in 0 .. Len(file)
          /\ pos \in mark .. Len(file) - 1 /\ pos \in mark .. Len(old)
          /\ cachelen = SizeBetween(mark, pos) /\ cachelen \in 0 .. INI_BUFFERSIZE - 1
      BY <1>0, <2>1, InCopy
    <3>2. (out' = out /\ mark' = mark) \/ (out' = Flush /\ mark' = pos)
      BY <2>1, <3>1, AccumulateIs
    <3>3. /\ out # << >> /\ mark < Len(old) => Last(out).nl
          /\ Edited(old, out \o SubSeq(old, mark + 1, Len(old)))
      BY <2>1, <2>4 DEF Written
    <3>4. /\ Flush \o SubSeq(old, pos + 1, Len(old)) = out \o SubSeq(old, mark + 1, Len(old))
          /\ pos < Len(old) => Closed(Flush)
      BY <2>1, <2>4, <3>1, RestWrites
    <3>5. out' \o SubSeq(old, mark' + 1, Len(old)) = out \o SubSeq(old, mark + 1, Len(old))
      BY <3>2, <3>4
    <3>6. out' # << >> /\ mark' < Len(old) => Last(out').nl
      BY <2>1, <3>1, <3>2, <3>3, <3>4 DEF Closed
    <3>7. Edited(old, out' \o SubSeq(old, mark' + 1, Len(old)))
      BY <3>3, <3>5
    <3>8. Edited(old, out \o SubSeq(old, mark + 1, Len(old)))'
      BY <2>1, <3>7, RestPrimed
    <3>9. QED
      BY <2>1, <2>2, <3>6, <3>8 DEF Written
  <2>5. QED
    BY <2>3, <2>4
<1>10. CASE RestDone
  <2>1. /\ write_pc = "rest" /\ write_pc' = "done" /\ UNCHANGED <<old, req>>
        /\ pos = Len(file) /\ file' = Flush /\ ret' = 1
    BY <1>10 DEF RestDone, Rename, Return, write_args
  <2>2. ASSUME ~Headless PROVE Edited(old, file')
    <3>1. file = old /\ pos \in mark .. Len(old)
      BY <1>0, <2>1, InCopy
    <3>2. Flush = out \o SubSeq(old, mark + 1, Len(old))
      BY <2>1, <2>2, <3>1, RestWrites
    <3>3. Edited(old, out \o SubSeq(old, mark + 1, Len(old)))
      BY <2>1, <2>2 DEF Written
    <3>4. QED
      BY <2>1, <3>2, <3>3
  <2>3. QED
    BY <1>b, <2>1, <2>2
<1>11. CASE UNCHANGED write_vars
  <2>1. UNCHANGED <<exists, old, req, write_pc, file, out, pos, mark, cachelen, ret>>
    BY <1>11 DEF write_vars
  <2>2. Headless' = Headless
    BY <1>a, <2>1
  <2>3. WritesEdit'
    <3>1. CASE write_pc = "done"
      <4>1. CASE ret = 0
        BY <2>1, <3>1, <4>1 DEF WritesEdit
      <4>2. CASE ret # 0
        <5>1. Headless \/ Edited(old, file')
          BY <2>1, <3>1, <4>2 DEF WritesEdit
        <5>2. QED
          BY <1>b, <2>1, <3>1, <4>2, <5>1
      <4>3. QED
        BY <4>1, <4>2
    <3>2. CASE write_pc # "done"
      BY <2>1, <3>2 DEF WritesEdit
    <3>3. QED
      BY <3>1, <3>2
  <2>4. Written'
    <3>1. CASE write_pc = "rest" /\ ~Headless
      <4>1. /\ out # << >> /\ mark < Len(old) => Last(out).nl
            /\ Edited(old, out \o SubSeq(old, mark + 1, Len(old)))
        BY <3>1 DEF Written
      <4>2. Edited(old, out \o SubSeq(old, mark + 1, Len(old)))'
        BY <2>1, <4>1, RestPrimed
      <4>3. QED
        BY <2>1, <3>1, <4>1, <4>2 DEF Written
    <3>2. CASE ~(write_pc = "rest" /\ ~Headless)
      BY <2>1, <2>2, <3>2 DEF Written
    <3>3. QED
      BY <3>1, <3>2
  <2>5. QED
    BY <2>3, <2>4
<1>12. QED
  BY <1>1, <1>2, <1>4, <1>5, <1>6, <1>7, <1>8, <1>9, <1>10, <1>11 DEF WriteNext, WriteDone

-----------------------------------------------------------------------------
(* The theorems.                                                             *)

\* A call begins with the file and the arguments it was given.
LEMMA WriteBegins == WriteInit => WriteIInv
<1> SUFFICES ASSUME WriteInit PROVE WriteIInv
  OBVIOUS
<1>1. Readable(old) /\ (~exists => old = << >>)
  <2>1. CASE exists = TRUE /\ old \in WriteFiles
    BY <2>1, WriteFilesAssumption
  <2>2. CASE exists = FALSE /\ old = << >>
    BY <2>2 DEF Readable
  <2>3. QED
    BY <2>1, <2>2 DEF WriteInit
<1>2. /\ exists \in BOOLEAN /\ req \in Request /\ write_pc = "look" /\ file = old /\ out = << >>
      /\ pos = 0 /\ mark = 0 /\ cachelen = 0 /\ ret = 0
  BY RequestsAssumption DEF WriteInit
<1>3. old \in Seq(Line) /\ Len(old) \in Nat
  BY <1>1 DEF Readable
<1>4. 0 \in 0 .. INI_BUFFERSIZE - 1 /\ 0 \in 0 .. Len(old) /\ << >> \in Seq(Line)
  BY <1>3, BufferAssumption
<1>5. WriteTypeOK
  BY <1>1, <1>2, <1>3, <1>4 DEF WriteTypeOK
<1>6. QED
  BY <1>1, <1>2, <1>5 DEF WriteIInv, CacheIsLines, Begun, Searched, Written, WritesEdit

\* The parts of the invariant hold together (minIni.c:657-867).
THEOREM WriteInvariant == WriteSpec => []WriteIInv
<1>1. WriteIInv /\ [WriteNext]_write_vars => WriteIInv'
  <2> SUFFICES ASSUME WriteIInv, [WriteNext]_write_vars PROVE WriteIInv'
    OBVIOUS
  <2>1. CacheIsLines /\ Begun /\ Searched /\ Written /\ WritesEdit
    BY DEF WriteIInv
  <2>2. CacheIsLines'
    BY <2>1, StepCache
  <2>3. Begun' /\ Searched'
    BY <2>1, StepSearched
  <2>4. Written' /\ WritesEdit'
    BY <2>1, StepWritten
  <2>5. QED
    BY <2>2, <2>3, <2>4 DEF WriteIInv
<1>2. QED
  BY WriteBegins, <1>1, PTL DEF WriteSpec

\* Every seek of cache_flush lands on a line (minIni.c:607-635).
THEOREM CacheHolds == WriteSpec => []CacheIsLines
<1>1. WriteIInv => CacheIsLines
  BY DEF WriteIInv
<1>2. QED
  BY WriteInvariant, <1>1, PTL

\* ini_puts changes what it was asked to change and nothing else (minIni.c:657-867).
THEOREM OneSettingChanges == WriteSpec => []WritesEdit
<1>1. WriteIInv => WritesEdit
  BY DEF WriteIInv
<1>2. QED
  BY WriteInvariant, <1>1, PTL

\* Every turn of a loop reads one line more (minIni.c:752-861).
THEOREM CallsAdvance == WriteSpec => Advances
<1>1. WriteIInv /\ [WriteNext]_write_vars
        => [write_pc' = write_pc /\ write_pc # "done" => pos' = pos + 1]_write_vars
  <2> SUFFICES ASSUME WriteIInv, WriteNext, write_pc' = write_pc, write_pc # "done"
               PROVE  pos' = pos + 1
    OBVIOUS
  <2>1. CacheIsLines /\ Written
    BY DEF WriteIInv
  <2>2. QED
    BY <2>1, StepAdvances
<1>2. QED
  BY WriteInvariant, <1>1, PTL DEF WriteSpec, Advances

-----------------------------------------------------------------------------
(* The readers of the file that ini_puts leaves (minIni.c:203-310, 390-540).  *)

\* The number of smaller elements tells the elements of a finite set of numbers apart,
\* and gives their order.
LEMMA RankIs ==
  ASSUME NEW S, S \subseteq Nat, IsFiniteSet(S), NEW n \in S
  PROVE  /\ Cardinality({k \in S : k < n}) \in 0 .. Cardinality(S) - 1
         /\ \A m \in S :
              m < n => Cardinality({k \in S : k < m}) < Cardinality({k \in S : k < n})
<1> DEFINE below(x) == {k \in S : k < x}
<1>1. \A x \in S : IsFiniteSet(below(x)) /\ Cardinality(below(x)) \in Nat
  <2>1. \A x \in S : below(x) \in SUBSET S
    OBVIOUS
  <2>2. QED
    BY <2>1, FS_Subset, FS_CardinalityType
<1>2. ASSUME NEW x \in S, NEW T, IsFiniteSet(T), below(x) \subseteq T, x \in T
      PROVE  Cardinality(below(x)) < Cardinality(T)
  <2>1. x \notin below(x)
    BY SMT
  <2>2. /\ IsFiniteSet(below(x) \cup {x})
        /\ Cardinality(below(x) \cup {x}) = Cardinality(below(x)) + 1
    <3> HIDE DEF below
    <3>1. QED
      BY <1>1, <2>1, FS_AddElement
  <2>3. (below(x) \cup {x}) \in SUBSET T
    BY <1>2
  <2>4. Cardinality(below(x) \cup {x}) <= Cardinality(T) /\ Cardinality(T) \in Nat
    <3> HIDE DEF below
    <3>1. QED
      BY <1>2, <2>3, FS_Subset, FS_CardinalityType
  <2>5. QED
    BY <1>1, <2>2, <2>4
<1>3. Cardinality(below(n)) < Cardinality(S) /\ Cardinality(S) \in Nat
  <2>1. below(n) \subseteq S
    OBVIOUS
  <2>2. QED
    BY <1>2, <2>1, FS_CardinalityType
<1>4. ASSUME NEW m \in S, m < n PROVE Cardinality(below(m)) < Cardinality(below(n))
  <2>0. \A k \in S : k < m => k < n
    BY <1>4
  <2>1. below(m) \subseteq below(n) /\ m \in below(n)
    BY <1>4, <2>0
  <2>2. QED
    BY <1>1, <1>2, <2>1
<1>5. QED
  BY <1>1, <1>3, <1>4

\* Every number below the size is that of one element: otherwise there were more
\* elements than numbers left for them.
LEMMA NthIs ==
  ASSUME NEW S, S \subseteq Nat, IsFiniteSet(S)
  PROVE  /\ \A n \in S : Nth(S, Cardinality({k \in S : k < n})) = n
         /\ \A idx \in 0 .. Cardinality(S) - 1 :
              Nth(S, idx) \in S /\ Cardinality({k \in S : k < Nth(S, idx)}) = idx
<1> DEFINE rank == [n \in S |-> Cardinality({k \in S : k < n})]
           T == 0 .. Cardinality(S) - 1
<1>0. Cardinality(S) \in Nat
  BY FS_CardinalityType
<1>1. \A n \in S : rank[n] \in T
  BY RankIs
<1>2. ASSUME NEW m \in S, NEW n \in S, rank[m] = rank[n] PROVE m = n
  <2>1. m < n => rank[m] < rank[n]
    BY RankIs
  <2>2. n < m => rank[n] < rank[m]
    BY RankIs
  <2>3. rank[m] \in Int /\ m \in Nat /\ n \in Nat
    BY <1>1
  <2>4. QED
    BY <1>2, <2>1, <2>2, <2>3
<1>3. rank \in Injection(S, T)
  BY <1>1, <1>2 DEF Injection, IsInjective
<1>4. IsFiniteSet(T) /\ Cardinality(T) = Cardinality(S)
  <2>1. 0 \in Int /\ Cardinality(S) - 1 \in Int
    BY <1>0
  <2>2. IsFiniteSet(T) /\ Cardinality(T) = IF 0 > Cardinality(S) - 1 THEN 0 ELSE (Cardinality(S) - 1) - 0 + 1
    BY <2>1, FS_Interval
  <2>3. QED
    BY <1>0, <2>2
<1>5. rank \in Surjection(S, T)
  <2> HIDE DEF rank, T
  <2>1. QED
    BY <1>3, <1>4, FS_Injection
<1>6. \A idx \in T : \E n \in S : rank[n] = idx
  BY <1>5 DEF Surjection
<1>7. \A idx \in T : Nth(S, idx) \in S /\ rank[Nth(S, idx)] = idx
  BY <1>6 DEF Nth
<1>8. ASSUME NEW n \in S PROVE Nth(S, rank[n]) = n
  <2>1. rank[n] \in T
    BY <1>1
  <2>2. Nth(S, rank[n]) \in S /\ rank[Nth(S, rank[n])] = rank[n]
    BY <1>7, <2>1
  <2>3. QED
    BY <1>2, <2>2
<1>9. QED
  BY <1>7, <1>8

\* The lines of a section are those after its header, before any other.
LEMMA LinesAre ==
  ASSUME NEW lines \in Seq(Line), NEW section, NEW s \in First(SectionStarts(lines, section))
  PROVE  \A n : n \in Lines(lines, section) <=>
                  /\ n \in 1 .. Len(lines) /\ s < n
                  /\ \A k \in s + 1 .. n : ~LeavesSection(lines[k])
<1>1. \A t \in First(SectionStarts(lines, section)) : t = s
  BY StartsAre, OneFirst
<1>2. QED
  BY <1>1 DEF Lines

\* A line is of one section only, whose first header comes last of all headers before it.
LEMMA OneHeader ==
  ASSUME NEW lines \in Seq(Line), NEW section, NEW n \in Lines(lines, section)
  PROVE  \E s \in First(SectionStarts(lines, section)) :
           /\ s \in Nat /\ s < n /\ s \in SectionStarts(lines, section)
           /\ n \in 1 .. Len(lines)
           /\ \A k \in Headers(lines) : k < n => k <= s
<1>1. PICK s \in First(SectionStarts(lines, section)) : s < n
  BY DEF Lines
<1>2. s \in Nat /\ s \in SectionStarts(lines, section)
  BY StartsAre, OneFirst
<1>3. n \in 1 .. Len(lines) /\ \A k \in s + 1 .. n : ~LeavesSection(lines[k])
  BY LinesAre
<1>4. ASSUME NEW k \in Headers(lines), k < n PROVE k <= s
  <2>1. k \in 1 .. Len(lines) /\ LeavesSection(lines[k])
    BY <1>4 DEF Headers, LeavesSection
  <2>2. k \notin s + 1 .. n
    BY <1>3, <2>1
  <2>3. QED
    BY <1>2, <1>3, <1>4, <2>1, <2>2
<1>5. QED
  BY <1>1, <1>2, <1>3, <1>4

\* What ini_browse has in its buffer at a line of a section is the section's name.
LEMMA BrowsedIs ==
  ASSUME NEW lines \in Seq(Line), NEW section, NEW n \in Lines(lines, section)
  PROVE  \/ section = NULL /\ SectionAt(lines, n) = NULL
         \/ section # NULL /\ SameName(SectionAt(lines, n), section)
<1>1. PICK s \in First(SectionStarts(lines, section)) :
           /\ s \in Nat /\ s < n /\ s \in SectionStarts(lines, section)
           /\ \A k \in Headers(lines) : k < n => k <= s
  BY OneHeader
<1>a. Headers(lines) \subseteq 1 .. Len(lines) /\ Len(lines) \in Nat
  BY DEF Headers
<1>2. CASE section = NULL
  <2>1. s = 0
    BY <1>1, <1>2 DEF SectionStarts
  <2>2. \A k \in Headers(lines) : ~(k < n)
    BY <1>1, <1>a, <2>1
  <2>3. QED
    BY <1>2, <2>2 DEF SectionAt
<1>3. CASE section # NULL
  <2> DEFINE H == {k \in Headers(lines) : k < n}
  <2>1. s \in H /\ SameName(lines[s].name, section)
    BY <1>1, <1>3 DEF SectionStarts
  <2>2. \A x \in H : (\A y \in H : x >= y) => x = s
    BY <1>1, <1>a, <2>1
  <2>3. \A y \in H : s >= y
    BY <1>1, <1>a
  <2>4. Max(H) = s
    <3> HIDE DEF H
    <3>1. QED
      BY <2>1, <2>2, <2>3 DEF Max
  <2>5. QED
    BY <1>3, <2>1, <2>4 DEF SectionAt
<1>4. QED
  BY <1>2, <1>3

\* A key line before the first match that is browsed under the section is in it.
LEMMA BrowsedBefore ==
  ASSUME NEW lines \in Seq(Line), NEW section \in KeyNames \cup {NULL},
         NEW n \in Lines(lines, section), NEW m \in 1 .. Len(lines), m < n,
         \/ SectionAt(lines, m) = section
         \/ SameName(SectionAt(lines, m), section)
  PROVE  m \in Lines(lines, section)
<1>1. PICK s \in First(SectionStarts(lines, section)) : s \in Nat /\ s < n
  BY OneHeader
<1>2. n \in 1 .. Len(lines) /\ \A k \in s + 1 .. n : ~LeavesSection(lines[k])
  BY LinesAre
<1>3. s < m
  <2>1. CASE section = NULL
    <3>1. s = 0
      BY <1>1, <2>1 DEF SectionStarts, First
    <3>2. QED
      BY <3>1
  <2>2. CASE section # NULL
    <3> DEFINE H == {k \in Headers(lines) : k < m}
    <3>a. H \subseteq 1 .. Len(lines) /\ Len(lines) \in Nat
      BY DEF Headers
    <3>1. SectionAt(lines, m) # NULL
      BY <2>2 DEF SameName
    <3>2. H # {}
      BY <3>1 DEF SectionAt
    <3>3. Max(H) \in H
      <4>1. \E x \in H : \A y \in H : x >= y
        <5> DEFINE I == {Len(lines) - k : k \in H}
        <5>1. I \subseteq Nat /\ I # {}
          BY <3>2, <3>a
        <5>2. PICK w \in I : \A y \in I : w <= y
          <6> HIDE DEF I
          <6>1. QED
            BY <5>1, Smallest
        <5>3. PICK x \in H : w = Len(lines) - x
          BY <5>2
        <5>4. \A y \in H : Len(lines) - x <= Len(lines) - y
          BY <5>2, <5>3
        <5>5. \A y \in H : x >= y
          BY <3>a, <5>4
        <5>6. QED
          BY <5>5
      <4> HIDE DEF H
      <4>2. QED
        BY <4>1 DEF Max
    <3>4. SectionAt(lines, m) = lines[Max(H)].name
      BY <3>2 DEF SectionAt
    <3>5. SameName(lines[Max(H)].name, section)
      BY <2>2, <3>4 DEF SameName
    <3>6. Max(H) \in SectionStarts(lines, section) /\ Max(H) < m
      BY <2>2, <3>3, <3>5 DEF SectionStarts
    <3>7. s <= Max(H) /\ Max(H) \in Nat
      BY <3>3, <3>6, <3>a DEF First
    <3>8. QED
      BY <1>1, <3>6, <3>7
  <2>3. QED
    BY <2>1, <2>2
<1>4. \A k \in s + 1 .. m : k \in s + 1 .. n
  BY <1>1, <1>2
<1>5. QED
  BY <1>2, <1>3, <1>4, LinesAre

\* The key lines of a section and its header are found by their index too.
LEMMA IndexFound ==
  ASSUME NEW lines \in Seq(Line), NEW S, S \subseteq 1 .. Len(lines), NEW n \in S
  PROVE  \E idx \in 0 .. Len(lines) : idx < Cardinality(S) /\ Nth(S, idx) = n
<1>1. IsFiniteSet(1 .. Len(lines)) /\ Cardinality(1 .. Len(lines)) = Len(lines) /\ Len(lines) \in Nat
  BY CardinalityOfInterval
<1>2. IsFiniteSet(S) /\ Cardinality(S) <= Len(lines) /\ Cardinality(S) \in Nat
  <2>1. S \in SUBSET (1 .. Len(lines))
    OBVIOUS
  <2>2. QED
    BY <1>1, <2>1, FS_Subset, FS_CardinalityType
<1>3. S \subseteq Nat
  BY <1>1
<1> DEFINE idx == Cardinality({k \in S : k < n})
<1>4. idx \in 0 .. Cardinality(S) - 1
  BY <1>2, <1>3, RankIs
<1>5. Nth(S, idx) = n
  BY <1>2, <1>3, NthIs
<1> HIDE DEF idx
<1>6. QED
  BY <1>1, <1>2, <1>4, <1>5

\* A line has a number of characters, those of a header more than its name.
LEMMA SizeIs ==
  /\ NameSize(NULL) = 0 /\ \A name \in KeyNames \cup {NULL} : NameSize(name) \in Nat
  /\ \A line \in Line :
       /\ Size(line) \in Nat
       /\ line.kind = "section" => NameSize(line.name) + 2 <= Size(line)
<1>1. NameSize(NULL) = 0 /\ \A name \in KeyNames \cup {NULL} : NameSize(name) \in Nat
  BY NameLenAssumption, NullAssumption DEF NameSize
<1>2. \A v \in Values \cup {NULL} : ValueSize(v) \in Nat
  BY WidthAssumption, NullAssumption DEF ValueSize
<1>3. ASSUME NEW line \in Line
      PROVE  /\ Size(line) \in Nat
             /\ line.kind = "section" => NameSize(line.name) + 2 <= Size(line)
  <2>1. line.name \in KeyNames \cup {NULL} /\ line.value \in Values \cup {NULL}
        /\ line.kind \in Kinds
    BY DEF Line
  <2>2. NameSize(line.name) \in Nat /\ ValueSize(line.value) \in Nat
    BY <1>1, <1>2, <2>1
  <2>3. QED
    BY <2>1, <2>2 DEF Size, Kinds
<1>4. QED
  BY <1>1, <1>3

\* Where ini_browse may be in a file: the name of the section leaves it three characters
\* of its buffer at least.
BrowseStates(lines) ==
  {s \in [at : 1 .. Len(lines) + 1, from : Nat, section : KeyNames \cup {NULL},
          calls : Seq([section : KeyNames \cup {NULL}, key : KeyNames \cup {NULL},
                       value : Values \cup {NULL}])] :
     /\ NameSize(s.section) + 4 <= INI_BUFFERSIZE
     /\ s.from = 0 \/ (s.at <= Len(lines) /\ s.from < Size(lines[s.at]))}

\* A turn of its loop reads a character at least, and forgets no call.
LEMMA TurnIs ==
  ASSUME NEW lines \in Seq(Line), NEW s \in BrowseStates(lines), s.at <= Len(lines)
  PROVE  LET t == BrowseTurn(lines, s)
         IN  /\ t \in BrowseStates(lines)
             /\ \/ t.at = s.at + 1 /\ t.from = 0
                \/ t.at = s.at /\ t.from > s.from
             /\ \/ t.calls = s.calls
                \/ \E c \in [section : KeyNames \cup {NULL}, key : KeyNames \cup {NULL},
                             value : Values \cup {NULL}] : t.calls = Append(s.calls, c)
<1> DEFINE Call == [section : KeyNames \cup {NULL}, key : KeyNames \cup {NULL},
                    value : Values \cup {NULL}]
           line == lines[s.at]
           room == BrowseRoom(s.section)
           to   == Least(Size(line), s.from + room - 1)
           read == IF s.from = 0 /\ to = Size(line) THEN line ELSE Piece(line, s.from, to)
           t    == BrowseTurn(lines, s)
<1>1. /\ s.at \in 1 .. Len(lines) /\ s.from \in Nat /\ s.section \in KeyNames \cup {NULL}
      /\ s.calls \in Seq(Call) /\ NameSize(s.section) + 4 <= INI_BUFFERSIZE
      /\ s.from = 0 \/ s.from < Size(line)
  BY DEF BrowseStates
<1>2. line \in Line /\ Size(line) \in Nat /\ NameSize(s.section) \in Nat
  BY <1>1, SizeIs
<1>3. room \in Nat /\ room >= 3 /\ room + NameSize(s.section) + 1 = INI_BUFFERSIZE
  BY <1>1, <1>2, BufferAssumption DEF BrowseRoom
<1>4. t = [at      |-> IF to = Size(line) THEN s.at + 1 ELSE s.at,
           from    |-> IF to = Size(line) THEN 0 ELSE to,
           section |-> IF read.kind = "section" THEN read.name ELSE s.section,
           calls   |-> IF read.kind = "key"
                       THEN Append(s.calls, [section |-> s.section, key |-> read.name,
                                             value |-> read.value])
                       ELSE s.calls]
  BY DEF BrowseTurn
<1> HIDE DEF room
<1> DEFINE size == Size(line)
<1>5. to \in Nat /\ to <= size /\ to <= s.from + room - 1 /\ (to = size \/ to > s.from)
      /\ (size > 0 => to > s.from)
  BY <1>1, <1>2, <1>3 DEF Least
<1> HIDE DEF to, t, line
<1>6. read \in Line /\ Size(read) < room
  <2>1. CASE s.from = 0 /\ to = size
    BY <1>1, <1>2, <1>3, <1>5, <2>1
  <2>2. CASE ~(s.from = 0 /\ to = size)
    <3>1. size > 0
      BY <1>1, <1>2, <1>5, <2>2
    <3>2. to \in 1 .. size /\ s.from \in 0 .. to - 1
      BY <1>1, <1>2, <1>5, <3>1
    <3>3. Piece(line, s.from, to) \in Line /\ Size(Piece(line, s.from, to)) <= to - s.from
      BY <1>2, <3>2, PieceAssumption
    <3>4. read = Piece(line, s.from, to)
      BY <2>2
    <3> HIDE DEF read
    <3>5. read \in Line /\ Size(read) <= to - s.from /\ Size(read) \in Nat
      BY <3>3, <3>4, SizeIs
    <3>6. QED
      BY <1>1, <1>3, <1>5, <3>5
  <2>3. QED
    BY <2>1, <2>2
<1> HIDE DEF read, size
<1>7. /\ read.kind = "section" => NameSize(read.name) + 4 <= INI_BUFFERSIZE
      /\ read.name \in KeyNames \cup {NULL} /\ read.value \in Values \cup {NULL}
  <2>1. read.name \in KeyNames \cup {NULL} /\ read.value \in Values \cup {NULL}
    BY <1>6 DEF Line
  <2>2. ASSUME read.kind = "section" PROVE NameSize(read.name) + 4 <= INI_BUFFERSIZE
    <3>1. NameSize(read.name) + 2 <= Size(read) /\ Size(read) \in Nat
      BY <1>6, <2>2, SizeIs
    <3>2. NameSize(read.name) \in Nat
      BY <2>1, SizeIs
    <3>3. QED
      BY <1>2, <1>3, <1>6, <3>1, <3>2, BufferAssumption
  <2>3. QED
    BY <2>1, <2>2
<1> DEFINE c == [section |-> s.section, key |-> read.name, value |-> read.value]
<1>8. c \in Call
  BY <1>1, <1>7
<1>9. t.calls \in Seq(Call) /\ (t.calls = s.calls \/ t.calls = Append(s.calls, c))
  <2>1. Append(s.calls, c) \in Seq(Call)
    <3> HIDE DEF c, Call
    <3>1. QED
      BY <1>1, <1>8
  <2>2. t.calls = IF read.kind = "key" THEN Append(s.calls, c) ELSE s.calls
    BY <1>4
  <2> HIDE DEF c, Call
  <2>3. QED
    BY <1>1, <2>1, <2>2
<1>10. /\ t.section \in KeyNames \cup {NULL} /\ NameSize(t.section) + 4 <= INI_BUFFERSIZE
  <2>1. t.section = IF read.kind = "section" THEN read.name ELSE s.section
    BY <1>4
  <2>2. QED
    BY <1>1, <1>7, <2>1
<1>11. /\ t.at \in 1 .. Len(lines) + 1 /\ t.from \in Nat
       /\ \/ t.at = s.at + 1 /\ t.from = 0
          \/ t.at = s.at /\ t.from > s.from /\ t.from < size
  <2>1. t.at = (IF to = size THEN s.at + 1 ELSE s.at) /\ t.from = IF to = size THEN 0 ELSE to
    BY <1>4 DEF size
  <2>2. size \in Nat
    BY <1>2 DEF size
  <2>3. QED
    BY <1>1, <1>5, <2>1, <2>2
<1>12. t.from = 0 \/ (t.at <= Len(lines) /\ t.from < Size(lines[t.at]))
  BY <1>1, <1>11 DEF size, line
<1>13. t = [at |-> t.at, from |-> t.from, section |-> t.section, calls |-> t.calls]
  <2> DEFINE u(x, y, z, w) == [at |-> x, from |-> y, section |-> z, calls |-> w]
  <2>1. \A x, y, z, w : u(x, y, z, w) = [at |-> u(x, y, z, w).at, from |-> u(x, y, z, w).from,
                section |-> u(x, y, z, w).section, calls |-> u(x, y, z, w).calls]
    OBVIOUS
  <2>2. QED
    BY <1>4, <2>1
<1>14. t \in BrowseStates(lines)
  <2>1. t \in [at : 1 .. Len(lines) + 1, from : Nat, section : KeyNames \cup {NULL},
               calls : Seq(Call)]
    <3> HIDE DEF Call
    <3>1. QED
      BY <1>9, <1>10, <1>11, <1>13
  <2>2. QED
    BY <1>10, <1>12, <2>1 DEF BrowseStates
<1>15. QED
  BY <1>8, <1>9, <1>11, <1>14 DEF t

\* The turns of the loop, up to the one that ini_browse has come to in the end.
Browsing(lines, f) ==
  /\ f \in [0 .. Len(lines) * INI_BUFFERSIZE -> BrowseStates(lines)]
  /\ f[0] = [at |-> 1, from |-> 0, section |-> NULL, calls |-> << >>]
  /\ \A k \in 1 .. Len(lines) * INI_BUFFERSIZE :
       f[k] = IF f[k - 1].at > Len(lines) THEN f[k - 1] ELSE BrowseTurn(lines, f[k - 1])

LEMMA Turns ==
  ASSUME NEW lines \in Seq(Line)
  PROVE  /\ Len(lines) * INI_BUFFERSIZE \in Nat
         /\ Len(lines) \in 0 .. Len(lines) * INI_BUFFERSIZE
<1>1. \A a, b \in Nat : b >= 4 => a * b \in Nat /\ a <= a * b
  OBVIOUS
<1>2. QED
  BY <1>1, BufferAssumption

LEMMA BrowseIs ==
  ASSUME NEW lines \in Seq(Line)
  PROVE  \E f : Browsing(lines, f) /\ ini_browse(lines) = f[Len(lines) * INI_BUFFERSIZE]
<1> DEFINE m == Len(lines) * INI_BUFFERSIZE
           V == BrowseStates(lines)
           v == [at |-> 1, from |-> 0, section |-> NULL, calls |-> << >>]
           Turn(s) == IF s.at > Len(lines) THEN s ELSE BrowseTurn(lines, s)
           G == [p \in V \X (1 .. m) |-> Turn(p[1])]
           R(b) == b = [n \in 0 .. m |-> IF n = 0 THEN v ELSE
                          LET s == b[n - 1]
                          IN IF s.at > Len(lines) THEN s ELSE BrowseTurn(lines, s)]
<1>1. m \in Nat
  BY Turns
<1>2. v \in V
  <2>1. Len(lines) \in Nat /\ NameSize(NULL) = 0
    BY SizeIs
  <2>2. QED
    BY <2>1, BufferAssumption DEF BrowseStates
<1>3. \A s \in V : Turn(s) \in V
  <2>1. \A s \in V : s.at \in Int /\ Len(lines) \in Int
    BY DEF BrowseStates
  <2> HIDE DEF V
  <2>2. ASSUME NEW s \in V, ~(s.at > Len(lines)) PROVE BrowseTurn(lines, s) \in V
    <3>1. s.at <= Len(lines)
      BY <2>1, <2>2
    <3>2. QED
      BY <2>2, <3>1, TurnIs DEF V
  <2>3. QED
    BY <2>2
<1>0. ini_browse(lines) = (CHOOSE b : R(b))[m]
  BY DEF ini_browse
<1> HIDE DEF V, v
<1>4. G \in [V \X (1 .. m) -> V]
  BY <1>3
<1>5. PICK f \in [0 .. m -> V] : Recursive(f, v, G, m)
  <2> HIDE DEF G, m
  <2>1. QED
    BY <1>1, <1>2, <1>4, Recursion
<1>6. \A n \in 0 .. m : n # 0 => G[<<f[n - 1], n>>] = Turn(f[n - 1])
  <2> HIDE DEF Turn
  <2>1. ASSUME NEW n \in 0 .. m, n # 0 PROVE f[n - 1] \in V /\ n \in 1 .. m
    <3> HIDE DEF m
    <3>1. n - 1 \in 0 .. m /\ n \in 1 .. m
      BY <1>1, <2>1
    <3>2. QED
      BY <1>5, <3>1
  <2>2. QED
    BY <2>1
<1> HIDE DEF G, m
<1>7. R(f)
  BY <1>5, <1>6 DEF Recursive
<1> DEFINE b == CHOOSE b : R(b)
<1>8. R(b)
  <2> HIDE DEF R
  <2>1. QED
    BY <1>7
<1> HIDE DEF b
<1>9. b = [n \in 0 .. m |-> IF n = 0 THEN v ELSE Turn(b[n - 1])]
  BY <1>8
<1> HIDE DEF Turn, R
<1>10. b[0] = v /\ \A k \in 1 .. m : b[k] = Turn(b[k - 1])
  <2>1. 0 \in 0 .. m /\ \A k \in 1 .. m : k \in 0 .. m /\ k # 0
    BY <1>1
  <2>2. QED
    BY <1>9, <2>1
<1>11. \A k \in 0 .. m : b[k] \in V
  <2> DEFINE T == {k \in 0 .. m : b[k] \in V}
  <2>1. 0 \in T
    BY <1>1, <1>2, <1>10
  <2>2. ASSUME NEW k \in 0 .. m - 1, k \in T PROVE k + 1 \in T
    <3>1. k + 1 \in 1 .. m /\ k + 1 \in 0 .. m /\ (k + 1) - 1 = k
      BY <1>1
    <3>2. b[k] \in V /\ b[k + 1] = Turn(b[k])
      BY <1>10, <2>2, <3>1
    <3>3. QED
      BY <1>3, <3>1, <3>2
  <2>3. \A k \in 0 .. m : k \in T
    <3> HIDE DEF T
    <3>1. QED
      BY <1>1, <2>1, <2>2, Inductively
  <2>4. QED
    BY <2>3
<1>12. b \in [0 .. m -> V]
  BY <1>9, <1>11
<1>13. QED
  BY <1>0, <1>10, <1>12 DEF Browsing, b, V, v, m, Turn

\* It reads on to the end: at n lines and some characters a character in each turn was
\* read, or more.
LEMMA BrowseEnds ==
  ASSUME NEW lines \in Seq(Line), \A n \in DOMAIN lines : Size(lines[n]) < INI_BUFFERSIZE
  PROVE  ini_browse(lines).at > Len(lines)
<1> DEFINE m == Len(lines) * INI_BUFFERSIZE
           l == Len(lines)
           B == INI_BUFFERSIZE
<1>1. PICK f : Browsing(lines, f) /\ ini_browse(lines) = f[m]
  BY BrowseIs
<1>2. m \in Nat /\ l \in Nat /\ B \in Nat /\ B >= 4
  BY Turns, BufferAssumption
<1>3. \A k \in 0 .. m : /\ f[k] \in BrowseStates(lines)
                        /\ f[k].at \in 1 .. l + 1 /\ f[k].from \in Nat
  BY <1>1 DEF Browsing, BrowseStates
<1> DEFINE read(k) == (f[k].at - 1) * B + f[k].from
           T == {k \in 0 .. m : f[k].at > l \/ read(k) >= k}
<1>4. 0 \in T
  <2>1. f[0].at = 1 /\ f[0].from = 0
    BY <1>1 DEF Browsing
  <2>2. QED
    BY <1>2, <2>1
<1>5. ASSUME NEW k \in 0 .. m - 1, k \in T PROVE k + 1 \in T
  <2>1. k \in 0 .. m /\ k + 1 \in 1 .. m /\ (k + 1) - 1 = k /\ k + 1 \in 0 .. m
    <3> HIDE DEF m
    <3>1. QED
      BY <1>2
  <2>2. f[k + 1] = IF f[k].at > l THEN f[k] ELSE BrowseTurn(lines, f[k])
    BY <1>1, <2>1 DEF Browsing
  <2>3. CASE f[k].at > l
    BY <2>1, <2>2, <2>3
  <2>4. CASE ~(f[k].at > l)
    <3>1. f[k].at \in 1 .. l /\ f[k] \in BrowseStates(lines) /\ f[k].from \in Nat /\ f[k].at <= Len(lines)
      BY <1>2, <1>3, <2>1, <2>4
    <3>2. f[k].from = 0 \/ f[k].from < Size(lines[f[k].at])
      BY <3>1 DEF BrowseStates
    <3>3. f[k].from + 1 < B
      <4>1. Size(lines[f[k].at]) \in Nat /\ Size(lines[f[k].at]) < B
        BY <3>1, SizeIs
      <4>2. QED
        BY <1>2, <3>1, <3>2, <4>1
    <3>4. \/ f[k + 1].at = f[k].at + 1 /\ f[k + 1].from = 0
          \/ f[k + 1].at = f[k].at /\ f[k + 1].from > f[k].from
      BY <2>2, <2>4, <3>1, TurnIs
    <3>5. f[k + 1].from \in Nat /\ f[k + 1].at \in Nat
      BY <1>3, <2>1
    <3>6. read(k) >= k
      BY <1>5, <2>4
    <3>7. read(k + 1) >= k + 1
      <4> DEFINE x == f[k].at
                 y == f[k].from
                 z == f[k + 1].from
                 w == f[k + 1].at
                 q == (x - 1) * B
      <4>1. x \in Nat /\ y \in Nat /\ z \in Nat /\ w \in Nat /\ q + y >= k /\ y + 1 < B
            /\ ((w = x + 1 /\ z = 0) \/ (w = x /\ z > y)) /\ x >= 1
        BY <3>1, <3>3, <3>4, <3>5, <3>6
      <4>2. q \in Int /\ (((x + 1) - 1) * B = q + B)
        <5>1. \A a \in Nat : (a - 1) * B \in Int /\ ((a + 1) - 1) * B = (a - 1) * B + B
          BY <1>2
        <5>2. x \in Nat
          BY <4>1
        <5> HIDE DEF x, B
        <5>3. QED
          BY <5>1, <5>2
      <4> DEFINE r == (w - 1) * B
      <4>3. (w = x + 1 => r = q + B) /\ (w = x => r = q)
        BY <4>2
      <4> HIDE DEF x, y, z, w, q, r
      <4>4. r + z >= k + 1
        BY <1>2, <4>1, <4>2, <4>3
      <4>5. QED
        BY <4>4 DEF r, w, z
    <3>8. QED
      BY <2>1, <3>7
  <2>5. QED
    BY <2>3, <2>4
<1>6. \A k \in 0 .. m : k \in T
  <2> HIDE DEF T, m
  <2>1. QED
    BY <1>2, <1>4, <1>5, Inductively
<1>7. SUFFICES ASSUME ~(f[m].at > l) PROVE FALSE
  BY <1>1
<1>8. m \in 0 .. m
  <2> HIDE DEF m
  <2>1. QED
    BY <1>2
<1>9. /\ read(m) >= m /\ f[m].at \in 1 .. l /\ f[m].from < B /\ f[m].from \in Nat
  <2>1. read(m) >= m
    BY <1>6, <1>7, <1>8
  <2>2. f[m].at \in 1 .. l /\ f[m] \in BrowseStates(lines) /\ f[m].from \in Nat
    BY <1>2, <1>3, <1>7, <1>8
  <2>3. f[m].from = 0 \/ f[m].from < Size(lines[f[m].at])
    BY <2>2 DEF BrowseStates
  <2>4. Size(lines[f[m].at]) \in Nat /\ Size(lines[f[m].at]) < B
    BY <2>2, SizeIs
  <2>5. QED
    BY <1>2, <2>1, <2>2, <2>3, <2>4
<1> DEFINE x == f[m].at
           y == f[m].from
<1>10. (x - 1) * B + y >= l * B /\ x \in 1 .. l /\ y < B /\ y \in Nat
  BY <1>9
<1> HIDE DEF x, y, l, B
<1>11. (x - 1) * B + B <= l * B
  <2>1. \A a, c, e \in Nat : a >= 1 /\ a <= c => (a - 1) * e + e <= c * e
    OBVIOUS
  <2>2. x \in Nat /\ x >= 1 /\ x <= l
    BY <1>2, <1>10
  <2>3. QED
    BY <1>2, <2>1, <2>2
<1>12. (x - 1) * B \in Int /\ l * B \in Int
  BY <1>2, <1>10
<1>13. QED
  BY <1>2, <1>10, <1>11, <1>12

\* The section that the next line is in.
LEMMA SectionNext ==
  ASSUME NEW lines \in Seq(Line), NEW k \in 1 .. Len(lines)
  PROVE  SectionAt(lines, k + 1) =
           IF lines[k].kind = "section" THEN lines[k].name ELSE SectionAt(lines, k)
<1> DEFINE H(n) == {j \in Headers(lines) : j < n}
<1>1. Headers(lines) \subseteq 1 .. Len(lines) /\ Len(lines) \in Nat /\ k \in Nat
  BY DEF Headers
<1>2. CASE lines[k].kind = "section"
  <2>1. k \in H(k + 1) /\ \A j \in H(k + 1) : k >= j
    BY <1>1, <1>2 DEF Headers
  <2>2. \A x \in H(k + 1) : (\A j \in H(k + 1) : x >= j) => x = k
    BY <1>1, <2>1
  <2>3. Max(H(k + 1)) = k
    <3> DEFINE S == H(k + 1)
    <3>1. k \in S /\ (\A j \in S : k >= j) /\ \A x \in S : (\A j \in S : x >= j) => x = k
      BY <2>1, <2>2
    <3> HIDE DEF S
    <3>2. Max(S) = k
      BY <3>1 DEF Max
    <3>3. QED
      BY <3>2 DEF S
  <2>4. QED
    BY <1>2, <2>1, <2>3 DEF SectionAt
<1>3. CASE lines[k].kind # "section"
  <2>1. k \notin Headers(lines)
    BY <1>3 DEF Headers
  <2>2. H(k + 1) = H(k)
    BY <1>1, <2>1
  <2>3. QED
    BY <1>3, <2>2 DEF SectionAt
<1>4. QED
  BY <1>2, <1>3

\* The call of the callback for a line that was read at once.
WholeCall(lines, n) ==
  [section |-> SectionAt(lines, n), key |-> lines[n].name, value |-> lines[n].value]

\* A line that is not longer than what there is room for is read in one turn.
LEMMA WholeLine ==
  ASSUME NEW lines \in Seq(Line), NEW s \in BrowseStates(lines), NEW k \in 1 .. Len(lines),
         s.at = k, s.from = 0, s.section = SectionAt(lines, k),
         Size(lines[k]) < BrowseRoom(SectionAt(lines, k))
  PROVE  LET t == BrowseTurn(lines, s)
         IN  /\ t.at = k + 1 /\ t.from = 0 /\ t.section = SectionAt(lines, k + 1)
             /\ t.calls = IF lines[k].kind = "key" THEN Append(s.calls, WholeCall(lines, k))
                          ELSE s.calls
<1> DEFINE line == lines[k]
           room == BrowseRoom(s.section)
           size == Size(line)
           to   == Least(size, s.from + room - 1)
           t    == BrowseTurn(lines, s)
<1>1. line \in Line /\ size \in Nat
  BY SizeIs
<1>2. NameSize(s.section) \in Nat /\ room \in Int
  <2>1. s.section \in KeyNames \cup {NULL}
    BY DEF BrowseStates
  <2>2. QED
    BY <2>1, SizeIs, BufferAssumption DEF BrowseRoom
<1>3. to = size
  <2>1. size < room /\ s.from = 0
    OBVIOUS
  <2> HIDE DEF size, room
  <2>2. QED
    BY <1>1, <1>2, <2>1 DEF Least
<1> DEFINE T(x) ==
      [at      |-> IF x = size THEN s.at + 1 ELSE s.at,
       from    |-> IF x = size THEN 0 ELSE x,
       section |-> IF (IF s.from = 0 /\ x = size THEN line ELSE Piece(line, s.from, x)).kind = "section"
                   THEN (IF s.from = 0 /\ x = size THEN line ELSE Piece(line, s.from, x)).name
                   ELSE s.section,
       calls   |-> IF (IF s.from = 0 /\ x = size THEN line ELSE Piece(line, s.from, x)).kind = "key"
                   THEN Append(s.calls,
                          [section |-> s.section,
                           key |-> (IF s.from = 0 /\ x = size THEN line ELSE Piece(line, s.from, x)).name,
                           value |-> (IF s.from = 0 /\ x = size THEN line ELSE Piece(line, s.from, x)).value])
                   ELSE s.calls]
<1>4. t = T(to)
  BY DEF BrowseTurn
<1> HIDE DEF t, to
<1>5. t = T(size)
  <2> HIDE DEF T, size
  <2>1. QED
    BY <1>3, <1>4
<1>6. /\ t.at = k + 1 /\ t.from = 0
      /\ t.section = IF line.kind = "section" THEN line.name ELSE s.section
      /\ t.calls = IF line.kind = "key"
                   THEN Append(s.calls, [section |-> s.section, key |-> line.name,
                                         value |-> line.value])
                   ELSE s.calls
  <2> HIDE DEF line, size
  <2>1. QED
    BY <1>5
<1>7. QED
  BY <1>6, SectionNext DEF WholeCall, t

\* As long as no line is broken, turn k reads line k, and the calls are those of key lines.
LEMMA BrowsedWhole ==
  ASSUME NEW lines \in Seq(Line), NEW n \in 0 .. Len(lines), Unbroken(lines, n),
         NEW f, Browsing(lines, f)
  PROVE  /\ \A k \in 0 .. n :
              \A c \in DOMAIN f[k].calls :
                 \E m \in 1 .. k : lines[m].kind = "key" /\ f[k].calls[c] = WholeCall(lines, m)
         /\ \A k \in 1 .. n :
              lines[k].kind = "key" => f[k].calls = Append(f[k - 1].calls, WholeCall(lines, k))
<1> DEFINE Calls(k) ==
             \A c \in DOMAIN f[k].calls :
                \E m \in 1 .. k : lines[m].kind = "key" /\ f[k].calls[c] = WholeCall(lines, m)
           At(k) == f[k].at = k + 1 /\ f[k].from = 0 /\ f[k].section = SectionAt(lines, k + 1)
           T == {k \in 0 .. n : At(k) /\ Calls(k)}
<1>1. /\ Len(lines) \in Nat /\ n \in Nat /\ n <= Len(lines)
      /\ \A k \in 0 .. n : k \in 0 .. Len(lines) * INI_BUFFERSIZE
      /\ \A k \in 1 .. n : k \in 1 .. Len(lines) * INI_BUFFERSIZE
  <2> DEFINE l == Len(lines)
             m == Len(lines) * INI_BUFFERSIZE
  <2>1. l \in Nat /\ m \in Nat /\ l <= m /\ n \in 0 .. l
    BY Turns
  <2> HIDE DEF l, m
  <2>2. n \in Nat /\ n <= l /\ (\A k \in 0 .. n : k \in 0 .. m) /\ \A k \in 1 .. n : k \in 1 .. m
    BY <2>1
  <2>3. QED
    BY <2>1, <2>2 DEF l, m
<1>2. \A k \in 0 .. n : /\ f[k] \in BrowseStates(lines)
                        /\ f[k].calls \in Seq([section : KeyNames \cup {NULL},
                               key : KeyNames \cup {NULL}, value : Values \cup {NULL}])
  BY <1>1 DEF Browsing, BrowseStates
<1>3. ASSUME NEW k \in 0 .. n - 1, At(k)
      PROVE  /\ At(k + 1)
             /\ f[k + 1].calls = IF lines[k + 1].kind = "key"
                                 THEN Append(f[k].calls, WholeCall(lines, k + 1))
                                 ELSE f[k].calls
  <2>1. /\ k + 1 \in 1 .. n /\ (k + 1) - 1 = k /\ k \in 0 .. n /\ k + 1 \in 1 .. Len(lines)
        /\ ~(k + 1 > Len(lines))
    BY <1>1
  <2>2. f[k + 1] = BrowseTurn(lines, f[k])
    <3>1. f[k + 1] = IF f[k].at > Len(lines) THEN f[k] ELSE BrowseTurn(lines, f[k])
      BY <1>1, <2>1 DEF Browsing
    <3>2. QED
      BY <1>3, <2>1, <3>1
  <2>3. Size(lines[k + 1]) < BrowseRoom(SectionAt(lines, k + 1))
    <3>1. NameSize(SectionAt(lines, k + 1)) + 1 + Size(lines[k + 1]) < INI_BUFFERSIZE
      BY <2>1 DEF Unbroken
    <3>2. f[k].section \in KeyNames \cup {NULL}
      BY <1>2, <2>1 DEF BrowseStates
    <3>3. NameSize(SectionAt(lines, k + 1)) \in Nat /\ Size(lines[k + 1]) \in Nat
      BY <1>3, <2>1, <3>2, SizeIs
    <3>4. QED
      BY <3>1, <3>3, BufferAssumption DEF BrowseRoom
  <2>4. QED
    BY <1>2, <1>3, <2>1, <2>2, <2>3, WholeLine
<1>4. 0 \in T
  <2>1. f[0] = [at |-> 1, from |-> 0, section |-> NULL, calls |-> << >>]
    BY DEF Browsing
  <2>2. SectionAt(lines, 1) = NULL
    <3>1. \A k \in Headers(lines) : ~(k < 1)
      BY DEF Headers
    <3>2. QED
      BY <3>1 DEF SectionAt
  <2>3. QED
    BY <1>1, <2>1, <2>2
<1>5. ASSUME NEW k \in 0 .. n - 1, k \in T PROVE k + 1 \in T
  <2>1. At(k + 1)
    BY <1>3, <1>5
  <2>2. Calls(k + 1)
    <3>1. k \in 0 .. n /\ k + 1 \in 0 .. n /\ k + 1 \in 1 .. k + 1
          /\ \A m \in 1 .. k : m \in 1 .. k + 1
      BY <1>1
    <3>2. f[k + 1].calls = f[k].calls
          \/ (lines[k + 1].kind = "key" /\ f[k + 1].calls = Append(f[k].calls, WholeCall(lines, k + 1)))
      BY <1>3, <1>5
    <3> DEFINE calls == f[k].calls
    <3>3. /\ calls \in Seq([section : KeyNames \cup {NULL}, key : KeyNames \cup {NULL},
                            value : Values \cup {NULL}])
          /\ \A c \in DOMAIN calls :
                \E m \in 1 .. k : lines[m].kind = "key" /\ calls[c] = WholeCall(lines, m)
      BY <1>2, <1>5, <3>1
    <3> HIDE DEF calls
    <3>4. \A e : \A c \in DOMAIN Append(calls, e) :
             Append(calls, e)[c] = e \/ (c \in DOMAIN calls /\ Append(calls, e)[c] = calls[c])
      BY <3>3
    <3>5. CASE f[k + 1].calls = calls
      BY <3>1, <3>3, <3>5
    <3>6. CASE lines[k + 1].kind = "key" /\ f[k + 1].calls = Append(calls, WholeCall(lines, k + 1))
      BY <3>1, <3>3, <3>4, <3>6
    <3>7. QED
      BY <3>2, <3>5, <3>6 DEF calls
  <2>3. QED
    BY <1>1, <1>5, <2>1, <2>2
<1>6. \A k \in 0 .. n : k \in T
  <2> HIDE DEF T
  <2>1. QED
    BY <1>1, <1>4, <1>5, Inductively
<1>7. \A k \in 1 .. n : lines[k].kind = "key" => f[k].calls = Append(f[k - 1].calls, WholeCall(lines, k))
  <2> SUFFICES ASSUME NEW k \in 1 .. n, lines[k].kind = "key"
               PROVE  f[k].calls = Append(f[k - 1].calls, WholeCall(lines, k))
    OBVIOUS
  <2>1. k - 1 \in 0 .. n - 1 /\ (k - 1) + 1 = k /\ k - 1 \in 0 .. n
    BY <1>1
  <2>2. At(k - 1)
    BY <1>6, <2>1
  <2>3. QED
    BY <1>3, <2>1, <2>2
<1>8. QED
  BY <1>6, <1>7

\* The turns that follow only add calls.
LEMMA CallsStay ==
  ASSUME NEW lines \in Seq(Line), NEW f, Browsing(lines, f),
         NEW n \in 0 .. Len(lines) * INI_BUFFERSIZE
  PROVE  LET calls == f[Len(lines) * INI_BUFFERSIZE].calls
         IN  \A c \in DOMAIN f[n].calls : c \in DOMAIN calls /\ calls[c] = f[n].calls[c]
<1> DEFINE m == Len(lines) * INI_BUFFERSIZE
           Stay(k) == \A c \in DOMAIN f[n].calls :
                         c \in DOMAIN f[k].calls /\ f[k].calls[c] = f[n].calls[c]
           T == {d \in 0 .. m - n : Stay(n + d)}
<1>1. m \in Nat /\ n \in 0 .. m
  BY Turns
<1>2. \A k \in 0 .. m : /\ f[k] \in BrowseStates(lines)
                        /\ f[k].at \in 1 .. Len(lines) + 1
                        /\ f[k].calls \in Seq([section : KeyNames \cup {NULL},
                               key : KeyNames \cup {NULL}, value : Values \cup {NULL}])
  BY DEF Browsing, BrowseStates
<1>a. \A k \in 1 .. m : f[k] = IF f[k - 1].at > Len(lines) THEN f[k - 1]
                               ELSE BrowseTurn(lines, f[k - 1])
  BY DEF Browsing
<1> HIDE DEF m
<1>3. 0 \in T
  <2>1. n + 0 = n /\ 0 \in 0 .. m - n
    BY <1>1
  <2>2. QED
    BY <2>1
<1>4. ASSUME NEW d \in 0 .. (m - n) - 1, d \in T PROVE d + 1 \in T
  <2> DEFINE k == n + d
  <2>1. /\ k \in 0 .. m /\ k + 1 \in 1 .. m /\ (k + 1) - 1 = k /\ n + (d + 1) = k + 1
        /\ d + 1 \in 0 .. m - n
    BY <1>1
  <2>2. Stay(k)
    BY <1>4
  <2> HIDE DEF k
  <2>3. \/ f[k + 1].calls = f[k].calls
        \/ \E e : f[k + 1].calls = Append(f[k].calls, e)
    <3>1. f[k + 1] = IF f[k].at > Len(lines) THEN f[k] ELSE BrowseTurn(lines, f[k])
      BY <1>a, <2>1
    <3>2. CASE f[k].at > Len(lines)
      BY <3>1, <3>2
    <3>3. CASE ~(f[k].at > Len(lines))
      <4>1. f[k].at <= Len(lines) /\ f[k] \in BrowseStates(lines)
        BY <1>2, <2>1, <3>3
      <4>2. LET t == BrowseTurn(lines, f[k])
            IN \/ t.calls = f[k].calls
               \/ \E c \in [section : KeyNames \cup {NULL}, key : KeyNames \cup {NULL},
                           value : Values \cup {NULL}] : t.calls = Append(f[k].calls, c)
        BY <4>1, TurnIs
      <4>3. f[k + 1] = BrowseTurn(lines, f[k])
        BY <3>1, <3>3
      <4>4. QED
        BY <4>2, <4>3, Zenon
    <3>4. QED
      BY <3>2, <3>3
  <2> DEFINE calls == f[k].calls
  <2>4. calls \in Seq([section : KeyNames \cup {NULL},
                       key : KeyNames \cup {NULL}, value : Values \cup {NULL}])
    BY <1>2, <2>1
  <2>5. \A e : \A c \in DOMAIN calls : c \in DOMAIN Append(calls, e) /\ Append(calls, e)[c] = calls[c]
    <3> HIDE DEF calls
    <3>1. QED
      BY <2>4
  <2>6. Stay(k + 1)
    BY <2>2, <2>3, <2>5
  <2>7. QED
    BY <2>1, <2>6
<1>5. \A d \in 0 .. m - n : d \in T
  <2> HIDE DEF T
  <2>1. m - n \in Nat
    BY <1>1
  <2>2. QED
    BY <2>1, <1>3, <1>4, Inductively
<1>6. m - n \in 0 .. m - n /\ n + (m - n) = m
  BY <1>1
<1>7. Stay(m)
  BY <1>5, <1>6
<1>8. QED
  BY <1>7 DEF m

\* A key that is there is found by its index, and counted; when ini_browse has read every
\* line up to it at once it is browsed, first where ini_gets finds it.
LEMMA ReadersAgreeOn ==
  ASSUME NEW lines \in Seq(Line), NEW section \in KeyNames \cup {NULL}, NEW key \in KeyNames,
         ini_haskey(lines, section, key)
  PROVE  /\ Unbroken(lines, Min(Matches(lines, section, key))) =>
              LET found == Browsed(ini_browse(lines).calls, section, key)
              IN /\ found # {}
                 /\ ini_gets(lines, section, key, NULL) = ini_browse(lines).calls[Min(found)].value
         /\ \E idx \in 0 .. Len(lines) :
               SameName(ini_getkey(lines, section, idx), key)
         /\ ini_hassection(lines, section)
         /\ section # NULL =>
              \E idx \in 0 .. Len(lines) :
                 SameName(ini_getsection(lines, idx), section)
<1> DEFINE M == Matches(lines, section, key)
           n == Min(M)
<1>1. n \in M /\ M \subseteq Nat /\ \A m \in M : n <= m
  <2>1. M \subseteq Nat /\ M # {}
    BY DEF Matches, KeyLines, Lines, ini_haskey
  <2>2. n \in First(M)
    BY <2>1, MinIs
  <2>3. QED
    BY <2>1, <2>2 DEF First
<1>2. /\ n \in Lines(lines, section) /\ lines[n].kind = "key" /\ SameName(lines[n].name, key)
      /\ n \in KeyLines(lines, section) /\ n \in 1 .. Len(lines)
  <2>1. \A x \in M : /\ x \in Lines(lines, section) /\ lines[x].kind = "key"
                     /\ SameName(lines[x].name, key)
                     /\ x \in KeyLines(lines, section) /\ x \in 1 .. Len(lines)
    BY DEF Matches, KeyLines, Lines
  <2>2. QED
    BY <1>1, <2>1
<1>3. ini_gets(lines, section, key, NULL) = lines[n].value
  BY <1>1 DEF ini_gets
<1>4. ini_hassection(lines, section)
  BY <1>2 DEF ini_hassection
<1>5. \E idx \in 0 .. Len(lines) : SameName(ini_getkey(lines, section, idx), key)
  <2>1. KeyLines(lines, section) \subseteq 1 .. Len(lines)
    BY DEF KeyLines, Lines
  <2>2. PICK idx \in 0 .. Len(lines) : /\ idx < Cardinality(KeyLines(lines, section))
                                       /\ Nth(KeyLines(lines, section), idx) = n
    <3> HIDE DEF n
    <3>1. QED
      BY <1>2, <2>1, IndexFound
  <2>3. QED
    BY <1>2, <2>2 DEF ini_getkey
<1>6. ASSUME section # NULL
      PROVE  \E idx \in 0 .. Len(lines) : SameName(ini_getsection(lines, idx), section)
  <2>1. PICK s : s \in SectionStarts(lines, section)
    BY <1>2, OneHeader
  <2>2. s \in Headers(lines) /\ SameName(lines[s].name, section) /\ Headers(lines) \subseteq 1 .. Len(lines)
    BY <1>6, <2>1 DEF SectionStarts, Headers
  <2>3. PICK idx \in 0 .. Len(lines) : idx < Cardinality(Headers(lines)) /\ Nth(Headers(lines), idx) = s
    BY <2>2, IndexFound
  <2>4. QED
    BY <2>2, <2>3 DEF ini_getsection
<1>7. ASSUME Unbroken(lines, n)
      PROVE  LET found == Browsed(ini_browse(lines).calls, section, key)
             IN /\ found # {}
                /\ ini_gets(lines, section, key, NULL) = ini_browse(lines).calls[Min(found)].value
  <2> DEFINE Under(name) == name = section \/ SameName(name, section)
  <2>1. PICK f : Browsing(lines, f) /\ ini_browse(lines) = f[Len(lines) * INI_BUFFERSIZE]
    BY BrowseIs
  <2> DEFINE before == f[n - 1].calls
             calls == f[n].calls
             all == ini_browse(lines).calls
             r == Len(before) + 1
             found == Browsed(all, section, key)
  <2>2. /\ n - 1 \in 0 .. n /\ n \in 1 .. n /\ n \in 0 .. Len(lines)
        /\ n - 1 \in 0 .. Len(lines) * INI_BUFFERSIZE /\ n \in 0 .. Len(lines) * INI_BUFFERSIZE
        /\ \A m \in 1 .. n - 1 : m \in 1 .. Len(lines) /\ m < n
    <3> DEFINE l == Len(lines)
               e == Len(lines) * INI_BUFFERSIZE
    <3>1. l \in Nat /\ e \in Nat /\ l <= e /\ n \in 1 .. l
      BY <1>2, Turns
    <3> HIDE DEF l, e, n
    <3>2. /\ n - 1 \in 0 .. n /\ n \in 1 .. n /\ n \in 0 .. l /\ n - 1 \in 0 .. e /\ n \in 0 .. e
          /\ \A m \in 1 .. n - 1 : m \in 1 .. l /\ m < n
      BY <3>1
    <3>3. QED
      BY <3>2 DEF l, e
  <2> HIDE DEF n
  <2>3. /\ \A c \in DOMAIN before : \E m \in 1 .. n - 1 :
              lines[m].kind = "key" /\ before[c] = WholeCall(lines, m)
        /\ calls = Append(before, WholeCall(lines, n))
    <3>1. /\ \A k \in 0 .. n : \A c \in DOMAIN f[k].calls : \E m \in 1 .. k :
                lines[m].kind = "key" /\ f[k].calls[c] = WholeCall(lines, m)
          /\ \A k \in 1 .. n :
                lines[k].kind = "key" => f[k].calls = Append(f[k - 1].calls, WholeCall(lines, k))
      BY <1>7, <2>1, <2>2, BrowsedWhole
    <3>2. QED
      BY <1>2, <2>2, <3>1
  <2>4. \A c \in DOMAIN calls : c \in DOMAIN all /\ all[c] = calls[c]
    BY <2>1, <2>2, CallsStay
  <2>5. before \in Seq([section : KeyNames \cup {NULL}, key : KeyNames \cup {NULL},
                        value : Values \cup {NULL}])
        /\ all \in Seq([section : KeyNames \cup {NULL}, key : KeyNames \cup {NULL},
                        value : Values \cup {NULL}])
    <3>1. \A s \in BrowseStates(lines) :
             s.calls \in Seq([section : KeyNames \cup {NULL}, key : KeyNames \cup {NULL},
                              value : Values \cup {NULL}])
      BY DEF BrowseStates
    <3>2. /\ f[n - 1] \in BrowseStates(lines)
          /\ f[Len(lines) * INI_BUFFERSIZE] \in BrowseStates(lines)
      <4>1. \A k \in 0 .. Len(lines) * INI_BUFFERSIZE : f[k] \in BrowseStates(lines)
        BY <2>1 DEF Browsing
      <4> DEFINE e == Len(lines) * INI_BUFFERSIZE
      <4>2. e \in 0 .. e
        <5>1. e \in Nat
          BY Turns
        <5> HIDE DEF e
        <5>2. QED
          BY <5>1
      <4>3. QED
        BY <2>2, <4>1, <4>2
    <3>3. QED
      BY <2>1, <3>1, <3>2
  <2> HIDE DEF before, all
  <2>6. /\ r \in DOMAIN calls /\ calls[r] = WholeCall(lines, n) /\ r \in Nat
        /\ \A c \in Nat : 1 <= c /\ c < r => /\ c \in DOMAIN before /\ c \in DOMAIN calls
                                             /\ calls[c] = before[c]
    <3> HIDE DEF calls
    <3>1. QED
      BY <2>3, <2>5
  <2>7. r \in DOMAIN all /\ all[r] = WholeCall(lines, n)
    BY <2>4, <2>6
  <2>8. r \in found /\ all[r].value = lines[n].value
    <3>1. Under(SectionAt(lines, n))
      BY <1>2, BrowsedIs
    <3>2. all[r].key = lines[n].name /\ all[r].section = SectionAt(lines, n)
          /\ all[r].value = lines[n].value
      BY <2>7 DEF WholeCall
    <3> HIDE DEF r
    <3>3. QED
      BY <1>2, <2>7, <3>1, <3>2 DEF Browsed
  <2>9. ASSUME NEW c \in found PROVE r <= c
    <3>1. c \in DOMAIN all /\ SameName(all[c].key, key) /\ Under(all[c].section)
      BY <2>9 DEF Browsed
    <3>2. c \in Nat /\ 1 <= c
      BY <2>5, <3>1
    <3>3. SUFFICES ASSUME c < r PROVE FALSE
      <4> HIDE DEF r
      <4>1. QED
        BY <2>6, <3>2
    <3>4. c \in DOMAIN before /\ all[c] = before[c]
      <4> HIDE DEF r, calls
      <4>1. c \in DOMAIN before /\ c \in DOMAIN calls /\ calls[c] = before[c]
        BY <2>6, <3>2, <3>3
      <4>2. QED
        BY <2>4, <4>1
    <3>5. PICK m \in 1 .. n - 1 : lines[m].kind = "key" /\ before[c] = WholeCall(lines, m)
      BY <2>3, <3>4
    <3>6. SameName(lines[m].name, key) /\ Under(SectionAt(lines, m))
      BY <3>1, <3>4, <3>5 DEF WholeCall
    <3>7. m \in 1 .. Len(lines) /\ m < n
      BY <2>2
    <3>8. m \in Lines(lines, section)
      BY <1>2, <3>6, <3>7, BrowsedBefore
    <3>9. m \in M
      BY <3>5, <3>6, <3>7, <3>8 DEF Matches, KeyLines
    <3> HIDE DEF M
    <3>10. n <= m /\ n \in Nat /\ m \in Nat
      BY <1>1, <3>9
    <3>11. QED
      BY <3>7, <3>10
  <2>10. \A c \in found : c \in Nat
    <3>1. \A c \in DOMAIN all : c \in Nat
      BY <2>5
    <3>2. QED
      BY <3>1 DEF Browsed
  <2>11. Min(found) = r
    <3> HIDE DEF found, r
    <3>1. \A x \in found : (\A y \in found : x <= y) => x = r
      BY <2>6, <2>8, <2>9, <2>10
    <3>2. QED
      BY <2>8, <2>9, <3>1 DEF Min
  <2>12. found # {} /\ all[Min(found)].value = lines[n].value
    <3> HIDE DEF found, r
    <3>1. QED
      BY <2>8, <2>11
  <2>13. QED
    BY <1>3, <2>12 DEF all, found, n
<1>8. QED
  BY <1>4, <1>5, <1>6, <1>7 DEF n

\* What ini_gets returns is the value of the first line that matches.
LEMMA GetsFrom ==
  ASSUME NEW lines \in Seq(Line), NEW section, NEW key
  PROVE  /\ Matches(lines, section, key) \subseteq 1 .. Len(lines)
         /\ Matches(lines, section, key) = {} => ini_gets(lines, section, key, NULL) = NULL
         /\ \A n \in First(Matches(lines, section, key)) :
              ini_gets(lines, section, key, NULL) = lines[n].value
<1> DEFINE M == Matches(lines, section, key)
<1>1. M \subseteq 1 .. Len(lines) /\ M \subseteq Nat
  BY DEF Matches, KeyLines, Lines
<1>2. ASSUME NEW n \in First(M) PROVE Min(M) = n /\ M # {}
  <2>1. n \in M
    BY DEF First
  <2>2. Min(M) \in First(M)
    <3> HIDE DEF M
    <3>1. QED
      BY <1>1, <2>1, MinIs
  <2>3. QED
    <3> HIDE DEF M
    <3>1. QED
      BY <1>1, <2>1, <2>2, OneFirst
<1>3. QED
  BY <1>1, <1>2 DEF ini_gets

\* The lines that match in a section that has a header.
LEMMA MatchesAre ==
  ASSUME NEW lines \in Seq(Line), NEW section, NEW s \in First(SectionStarts(lines, section)),
         NEW key
  PROVE  \A n : n \in Matches(lines, section, key) <=>
                  /\ n \in 1 .. Len(lines) /\ s < n /\ lines[n].kind = "key"
                  /\ SameName(lines[n].name, key)
                  /\ \A k \in s + 1 .. n : ~LeavesSection(lines[k])
BY LinesAre DEF Matches, KeyLines

\* Without a header nothing matches.
LEMMA NoMatches ==
  ASSUME NEW lines \in Seq(Line), NEW section, NEW key, SectionStarts(lines, section) = {}
  PROVE  Matches(lines, section, key) = {}
BY DEF Matches, KeyLines, Lines, First

\* Whether a reader asks for what ini_puts was called with.
SameSection(section) == section = req.section \/ SameName(section, req.section)

\* The name of a section is as good as any other spelling of it, and a line is the first
\* header of one section only.
LEMMA OneSection ==
  ASSUME NEW lines \in Seq(Line), req \in Request, NEW section \in KeyNames \cup {NULL}
  PROVE  /\ SameSection(section) =>
              SectionStarts(lines, section) = SectionStarts(lines, req.section)
         /\ \A s \in SectionStarts(lines, section) :
              s \in SectionStarts(lines, req.section) => SameSection(section)
<1>0. req.section \in KeyNames \cup {NULL} /\ NULL \notin KeyNames
  BY NullAssumption DEF Request
<1>1. ASSUME SameSection(section)
      PROVE  SectionStarts(lines, section) = SectionStarts(lines, req.section)
  BY <1>0, <1>1 DEF SameSection, SectionStarts, SameName
<1>2. ASSUME NEW s, s \in SectionStarts(lines, section), s \in SectionStarts(lines, req.section)
      PROVE  SameSection(section)
  <2>1. CASE section = NULL \/ req.section = NULL
    <3>1. section # NULL => s # 0
      BY StartsAre, <1>2
    <3>2. req.section # NULL => s # 0
      BY StartsAre, <1>2
    <3>3. section = NULL /\ req.section = NULL
      BY <2>1, <1>2, <3>1, <3>2 DEF SectionStarts
    <3>4. QED
      BY <3>3 DEF SameSection
  <2>2. CASE section # NULL /\ req.section # NULL
    BY <1>2, <2>2 DEF SameSection, SectionStarts, SameName
  <2>3. QED
    BY <2>1, <2>2
<1>3. QED
  BY <1>1, <1>2

\* Lines that the readers take for the same.
Alike(a, b) == a.kind = b.kind /\ a.name = b.name /\ a.value = b.value

\* A setting is replaced: the reader of its name gets the new value, all others what they
\* got before.
LEMMA ReplacedReads ==
  ASSUME NEW before \in Seq(Line), NEW after \in Seq(Line), req \in Request, Put,
         NEW n \in First(Matches(before, req.section, req.key)),
         Len(after) = Len(before),
         \A k \in 1 .. Len(before) : k # n => after[k] = before[k],
         after[n].kind = "key", SameName(after[n].name, req.key), after[n].value = req.value,
         NEW section \in KeyNames \cup {NULL}, NEW key \in KeyNames
  PROVE  ini_gets(after, section, key, NULL) =
           IF SameName(key, req.key) /\ SameSection(section) THEN req.value
           ELSE ini_gets(before, section, key, NULL)
<1> DEFINE M(lines) == Matches(lines, section, key)
<1>0. req.key \in KeyNames /\ req.section \in KeyNames \cup {NULL} /\ NULL \notin KeyNames
  BY NullAssumption DEF Request, Put
<1>1. n \in Matches(before, req.section, req.key) /\ n \in 1 .. Len(before)
  BY GetsFrom DEF First
<1>2. before[n].kind = "key" /\ SameName(before[n].name, req.key) /\ n \in Lines(before, req.section)
  BY <1>1 DEF Matches, KeyLines
<1>3. \A k \in 1 .. Len(before) :
        /\ after[k].kind = before[k].kind
        /\ LeavesSection(after[k]) <=> LeavesSection(before[k])
        /\ before[k].kind = "section" => after[k] = before[k]
        /\ SameName(after[k].name, key) <=> SameName(before[k].name, key)
  <2>1. SameName(after[n].name, key) <=> SameName(before[n].name, key)
    BY <1>0, <1>2 DEF SameName
  <2>2. QED
    BY <1>2, <2>1 DEF LeavesSection
<1>4. SectionStarts(after, section) = SectionStarts(before, section)
  <2>1. DOMAIN after = DOMAIN before /\ DOMAIN before = 1 .. Len(before)
    OBVIOUS
  <2>2. Headers(after) = Headers(before)
    BY <1>3, <2>1 DEF Headers
  <2>3. \A k \in Headers(before) : after[k] = before[k]
    BY <1>3, <2>1 DEF Headers
  <2>4. QED
    BY <2>2, <2>3 DEF SectionStarts
<1>5. M(after) = M(before)
  <2>1. CASE SectionStarts(before, section) = {}
    BY <1>4, <2>1, NoMatches
  <2>2. CASE SectionStarts(before, section) # {}
    <3>1. PICK s : s \in First(SectionStarts(before, section))
      BY <2>2, StartsAre, MinIs
    <3>2. s \in Nat
      BY <3>1, StartsAre, OneFirst
    <3>3. s \in First(SectionStarts(after, section))
      BY <1>4, <3>1
    <3>4. \A m \in 1 .. Len(before) : m \in M(after) <=> m \in M(before)
      <4> SUFFICES ASSUME NEW m \in 1 .. Len(before) PROVE m \in M(after) <=> m \in M(before)
        OBVIOUS
      <4>1. \A k \in s + 1 .. m : k \in 1 .. Len(before)
        BY <3>2
      <4>2. (\A k \in s + 1 .. m : ~LeavesSection(after[k]))
              <=> (\A k \in s + 1 .. m : ~LeavesSection(before[k]))
        BY <1>3, <4>1
      <4>3. m \in M(after) <=>
              /\ m \in 1 .. Len(after) /\ s < m /\ after[m].kind = "key"
              /\ SameName(after[m].name, key)
              /\ \A k \in s + 1 .. m : ~LeavesSection(after[k])
        BY <3>3, MatchesAre
      <4>4. m \in M(before) <=>
              /\ m \in 1 .. Len(before) /\ s < m /\ before[m].kind = "key"
              /\ SameName(before[m].name, key)
              /\ \A k \in s + 1 .. m : ~LeavesSection(before[k])
        BY <3>1, MatchesAre
      <4>5. QED
        BY <1>3, <4>2, <4>3, <4>4
    <3>5. M(after) \subseteq 1 .. Len(before) /\ M(before) \subseteq 1 .. Len(before)
      BY GetsFrom
    <3> HIDE DEF M
    <3>6. QED
      BY <3>4, <3>5
  <2>3. QED
    BY <2>1, <2>2
<1>6. CASE SameName(key, req.key) /\ SameSection(section)
  <2>1. SectionStarts(before, section) = SectionStarts(before, req.section)
    BY OneSection, <1>6
  <2>2. M(before) = Matches(before, req.section, req.key)
    BY <1>0, <1>6, <2>1 DEF Matches, KeyLines, Lines, SameName
  <2>3. n \in First(M(after))
    BY <1>5, <2>2
  <2>4. QED
    BY <1>6, <2>3, GetsFrom
<1>7. CASE ~(SameName(key, req.key) /\ SameSection(section))
  <2>1. n \notin M(before)
    <3>1. SUFFICES ASSUME n \in M(before) PROVE FALSE
      OBVIOUS
    <3>2. SameName(key, req.key)
      BY <1>0, <1>2, <3>1 DEF Matches, SameName
    <3>3. n \in Lines(before, section)
      BY <3>1 DEF Matches, KeyLines
    <3>4. PICK s : /\ s \in SectionStarts(before, section) /\ s < n /\ s \in Nat
                   /\ \A k \in Headers(before) : k < n => k <= s
      BY <3>3, OneHeader
    <3>5. PICK t : /\ t \in SectionStarts(before, req.section) /\ t < n /\ t \in Nat
                   /\ \A k \in Headers(before) : k < n => k <= t
      BY <1>2, OneHeader
    <3>6. (s = 0 \/ s \in Headers(before)) /\ (t = 0 \/ t \in Headers(before))
      BY <3>4, <3>5 DEF SectionStarts
    <3>7. s = t
      BY <3>4, <3>5, <3>6
    <3>8. SameSection(section)
      BY <3>4, <3>5, <3>7, OneSection
    <3>9. QED
      BY <1>7, <3>2, <3>8
  <2>2. CASE M(before) = {}
    BY <1>5, <1>7, <2>2, GetsFrom
  <2>3. CASE M(before) # {}
    <3>1. PICK m : m \in First(M(before))
      BY <2>3, GetsFrom, MinIs
    <3>2. m \in M(before) /\ m \in 1 .. Len(before) /\ m # n
      BY <2>1, <3>1, GetsFrom DEF First
    <3>3. m \in First(M(after)) /\ after[m] = before[m]
      BY <1>5, <3>1, <3>2
    <3>4. QED
      BY <1>7, <3>1, <3>3, GetsFrom
  <2>4. QED
    BY <2>2, <2>3
<1>8. QED
  BY <1>6, <1>7

\* A setting is inserted in its section, perhaps behind blank lines: the reader of its
\* name gets the value, all others what they got before.
LEMMA InsertedReads ==
  ASSUME NEW before \in Seq(Line), NEW after \in Seq(Line), req \in Request, Put,
         Matches(before, req.section, req.key) = {},
         NEW s \in First(SectionStarts(before, req.section)), NEW n \in SectionEnds(before, s),
         NEW d \in Nat \ {0}, Len(after) = Len(before) + d,
         \A k \in 1 .. n : Alike(after[k], before[k]),
         \A k \in n + 1 .. Len(before) : Alike(after[k + d], before[k]),
         \A k \in n + 1 .. (n + d) - 1 : after[k].kind = "blank",
         Alike(after[n + d], Setting(req.key, req.value)),
         NEW section \in KeyNames \cup {NULL}, NEW key \in KeyNames
  PROVE  ini_gets(after, section, key, NULL) =
           IF SameName(key, req.key) /\ SameSection(section) THEN req.value
           ELSE ini_gets(before, section, key, NULL)
<1> DEFINE L == Len(before)
           sh(k) == IF k <= n THEN k ELSE k + d
           new == n + d
           M(lines) == Matches(lines, section, key)
           S(lines) == SectionStarts(lines, section)
<1>0. /\ req.key \in KeyNames /\ req.section \in KeyNames \cup {NULL} /\ NULL \notin KeyNames
      /\ L \in Nat /\ s \in Nat /\ s \in SectionStarts(before, req.section) /\ n \in s .. L
      /\ n \in Nat /\ d \in Nat /\ new \in 1 .. L + d /\ Len(after) = L + d
  BY NullAssumption, StartsAre, OneFirst DEF Request, Put, SectionEnds
<1>1. ASSUME NEW k \in 1 .. L
      PROVE  sh(k) \in 1 .. L + d /\ Alike(after[sh(k)], before[k])
  <2>1. CASE k <= n
    <3>1. k \in 1 .. n
      BY <1>0, <2>1
    <3>2. QED
      BY <1>0, <2>1, <3>1
  <2>2. CASE ~(k <= n)
    <3>1. k \in n + 1 .. Len(before)
      BY <1>0, <2>2
    <3>2. Alike(after[k + d], before[k]) /\ sh(k) = k + d /\ k + d \in 1 .. L + d
      BY <1>0, <2>2, <3>1
    <3>3. QED
      BY <3>2
  <2>3. QED
    BY <2>1, <2>2
<1>2. \A k \in n + 1 .. new - 1 : after[k].kind = "blank"
  BY <1>0
<1>3. /\ after[new].kind = "key" /\ after[new].name = req.key /\ after[new].value = req.value
  BY DEF Alike, Setting
<1>4. \A k \in 1 .. L + d :
        (\E m \in 1 .. L : k = sh(m)) \/ k = new \/ k \in n + 1 .. new - 1
  <2> SUFFICES ASSUME NEW k \in 1 .. L + d, k # new, k \notin n + 1 .. new - 1
               PROVE  \E m \in 1 .. L : k = sh(m)
    OBVIOUS
  <2>1. CASE k <= n
    BY <1>0, <2>1
  <2>2. CASE ~(k <= n)
    <3>1. k - d \in 1 .. L /\ ~(k - d <= n) /\ (k - d) + d = k
      BY <1>0, <2>2
    <3>2. QED
      BY <3>1
  <2>3. QED
    BY <2>1, <2>2
<1>5. \A k, m \in 0 .. L : k < m <=> sh(k) < sh(m)
  BY <1>0
<1>6. \A k \in 1 .. L : sh(k) # new /\ sh(k) \notin n + 1 .. new - 1
  BY <1>0
<1>7. sh(0) = 0
  BY <1>0
<1> HIDE DEF sh, new, L
<1>8. \A k \in 1 .. L :
        /\ LeavesSection(after[sh(k)]) <=> LeavesSection(before[k])
        /\ after[sh(k)].kind = before[k].kind /\ after[sh(k)].name = before[k].name
        /\ after[sh(k)].value = before[k].value
  BY <1>1 DEF Alike, LeavesSection
<1>9. ~LeavesSection(after[new]) /\ \A k \in n + 1 .. new - 1 : ~LeavesSection(after[k])
  BY <1>2, <1>3 DEF LeavesSection
<1>10. DOMAIN after = 1 .. L + d /\ DOMAIN before = 1 .. L
  BY <1>0 DEF L
<1>11. S(after) = {sh(k) : k \in S(before)}
  <2>1. CASE section = NULL
    BY <1>7, <2>1 DEF SectionStarts
  <2>2. CASE section # NULL
    <3>1. \A m \in S(after) : \E k \in S(before) : m = sh(k)
      <4> SUFFICES ASSUME NEW m \in S(after) PROVE \E k \in S(before) : m = sh(k)
        OBVIOUS
      <4>1. m \in 1 .. L + d /\ after[m].kind = "section" /\ SameName(after[m].name, section)
        BY <1>10, <2>2 DEF SectionStarts, Headers
      <4>2. PICK k \in 1 .. L : m = sh(k)
        BY <1>2, <1>3, <1>4, <4>1
      <4>3. k \in S(before)
        BY <1>8, <1>10, <2>2, <4>1, <4>2 DEF SectionStarts, Headers
      <4>4. QED
        BY <4>2, <4>3
    <3>2. \A k \in S(before) : sh(k) \in S(after)
      BY <1>1, <1>8, <1>10, <2>2 DEF SectionStarts, Headers
    <3> HIDE DEF S
    <3>3. QED
      BY <3>1, <3>2
  <2>3. QED
    BY <2>1, <2>2
<1>12. S(before) \subseteq 0 .. L
  BY StartsAre DEF L
<1>13. CASE S(before) = {}
  <2>1. S(after) = {}
    BY <1>11, <1>13
  <2>2. M(after) = {} /\ M(before) = {}
    BY <1>13, <2>1, NoMatches
  <2>3. ~SameSection(section)
    <3>1. SameSection(section) => s \in S(before)
      BY <1>0, OneSection
    <3>2. QED
      BY <1>13, <3>1
  <2>4. QED
    BY <2>2, <2>3, GetsFrom
<1>14. CASE S(before) # {}
  <2>1. PICK t : t \in First(S(before))
    <3>1. S(before) \subseteq Nat
      BY StartsAre
    <3>2. QED
      BY <1>14, <3>1, MinIs
  <2>2. t \in S(before) /\ t \in 0 .. L /\ t \in Nat /\ \A k \in S(before) : t <= k
    BY <1>0, <1>12, <2>1 DEF First
  <2>3. sh(t) \in First(S(after))
    <3>1. sh(t) \in S(after)
      BY <1>11, <2>2
    <3>2. \A m \in 0 .. L : sh(m) \in Nat
      BY <1>0 DEF sh
    <3>3. ASSUME NEW m \in S(after) PROVE sh(t) <= m
      <4>1. PICK k \in S(before) : m = sh(k)
        BY <1>11
      <4>2. k \in 0 .. L /\ t <= k
        BY <1>12, <2>2
      <4>3. ~(sh(k) < sh(t))
        BY <1>5, <2>2, <4>2
      <4>4. sh(k) \in Nat /\ sh(t) \in Nat
        BY <2>2, <3>2, <4>2
      <4>5. QED
        BY <4>1, <4>3, <4>4
    <3>4. QED
      BY <3>1, <3>3 DEF First
  <2>4. t = s <=> SameSection(section)
    <3>1. ASSUME t = s PROVE SameSection(section)
      BY <1>0, <2>2, <3>1, OneSection
    <3>2. ASSUME SameSection(section) PROVE t = s
      <4>1. S(before) = SectionStarts(before, req.section)
        BY <3>2, OneSection
      <4>2. QED
        BY <2>1, <4>1, StartsAre, OneFirst
    <3>3. QED
      BY <3>1, <3>2
  <2>5. ASSUME NEW m \in 1 .. L
        PROVE  sh(m) \in M(after) <=> m \in M(before)
    <3>1. sh(t) < sh(m) <=> t < m
      BY <1>5, <2>2
    <3>2. (\A k \in sh(t) + 1 .. sh(m) : ~LeavesSection(after[k]))
            <=> (\A k \in t + 1 .. m : ~LeavesSection(before[k]))
      <4>1. ASSUME \A k \in sh(t) + 1 .. sh(m) : ~LeavesSection(after[k]), NEW k \in t + 1 .. m
            PROVE  ~LeavesSection(before[k])
        <5>1. k \in 1 .. L
          BY <1>0, <2>2
        <5>2. sh(k) \in sh(t) + 1 .. sh(m)
          BY <1>0, <2>2 DEF sh
        <5>3. QED
          BY <1>8, <4>1, <5>1, <5>2
      <4>2. ASSUME \A k \in t + 1 .. m : ~LeavesSection(before[k]), NEW k \in sh(t) + 1 .. sh(m)
            PROVE  ~LeavesSection(after[k])
        <5>1. k \in 1 .. L + d
          BY <1>0, <2>2 DEF sh
        <5>2. ASSUME NEW l \in 1 .. L, k = sh(l) PROVE ~LeavesSection(after[k])
          <6>1. l \in t + 1 .. m
            BY <1>0, <2>2, <5>2 DEF sh
          <6>2. QED
            BY <1>8, <4>2, <5>2, <6>1
        <5>3. QED
          BY <1>4, <1>9, <5>1, <5>2
      <4>3. QED
        BY <4>1, <4>2
    <3>3. sh(m) \in M(after) <=>
            /\ sh(m) \in 1 .. Len(after) /\ sh(t) < sh(m) /\ after[sh(m)].kind = "key"
            /\ SameName(after[sh(m)].name, key)
            /\ \A k \in sh(t) + 1 .. sh(m) : ~LeavesSection(after[k])
      BY <2>3, MatchesAre
    <3>4. m \in M(before) <=>
            /\ m \in 1 .. Len(before) /\ t < m /\ before[m].kind = "key"
            /\ SameName(before[m].name, key)
            /\ \A k \in t + 1 .. m : ~LeavesSection(before[k])
      BY <2>1, MatchesAre
    <3>5. sh(m) \in 1 .. Len(after) /\ m \in 1 .. Len(before)
      BY <1>0, <1>1 DEF L
    <3>6. QED
      BY <1>8, <3>1, <3>2, <3>3, <3>4, <3>5
  <2>6. new \in M(after) <=> t = s /\ SameName(key, req.key)
    <3>1. new \in M(after) <=>
            /\ new \in 1 .. Len(after) /\ sh(t) < new /\ after[new].kind = "key"
            /\ SameName(after[new].name, key)
            /\ \A k \in sh(t) + 1 .. new : ~LeavesSection(after[k])
      BY <2>3, MatchesAre
    <3>2. SameName(after[new].name, key) <=> SameName(key, req.key)
      BY <1>0, <1>3 DEF SameName
    <3>3. /\ s <= n /\ \A k \in s + 1 .. n : ~LeavesSection(before[k])
          /\ n < L => LeavesSection(before[n + 1])
      BY <1>0 DEF SectionEnds, L
    <3>4. ASSUME t = s PROVE sh(t) < new /\ \A k \in sh(t) + 1 .. new : ~LeavesSection(after[k])
      <4>1. sh(t) = s /\ s < new
        BY <1>0, <3>3, <3>4 DEF sh, new
      <4>2. ASSUME NEW k \in s + 1 .. new PROVE ~LeavesSection(after[k])
        <5>1. CASE k <= n
          <6>1. k \in s + 1 .. n /\ k \in 1 .. L /\ sh(k) = k
            BY <1>0, <5>1 DEF sh
          <6>2. QED
            BY <1>8, <3>3, <6>1
        <5>2. CASE ~(k <= n)
          <6>1. k = new \/ k \in n + 1 .. new - 1
            BY <1>0, <5>2
          <6>2. QED
            BY <1>9, <6>1
        <5>3. QED
          BY <5>1, <5>2
      <4>3. QED
        BY <4>1, <4>2
    <3>5. ASSUME sh(t) < new, \A k \in sh(t) + 1 .. new : ~LeavesSection(after[k]) PROVE t = s
      <4>1. t <= n
        BY <1>0, <2>2, <3>5 DEF sh, new
      <4>2. ~(t < s)
        <5>1. SUFFICES ASSUME t < s PROVE FALSE
          OBVIOUS
        <5>2. s \in Headers(before)
          BY <1>0, <2>2, <5>1 DEF SectionStarts
        <5>3. s \in 1 .. L /\ LeavesSection(before[s])
          BY <1>10, <5>2 DEF Headers, LeavesSection
        <5>4. sh(s) = s /\ sh(t) = t /\ s \in t + 1 .. new
          BY <1>0, <2>2, <4>1, <5>1 DEF sh, new
        <5>5. QED
          BY <1>8, <3>5, <5>3, <5>4
      <4>3. ~(s < t)
        <5>1. SUFFICES ASSUME s < t PROVE FALSE
          OBVIOUS
        <5>2. t \in Headers(before)
          BY <1>0, <2>2, <5>1 DEF SectionStarts
        <5>3. t \in 1 .. L /\ LeavesSection(before[t]) /\ t \in s + 1 .. n
          BY <1>0, <1>10, <2>2, <4>1, <5>1, <5>2 DEF Headers, LeavesSection
        <5>4. QED
          BY <3>3, <5>3
      <4>4. QED
        BY <1>0, <2>2, <4>2, <4>3
    <3>6. new \in 1 .. Len(after)
      BY <1>0 DEF new
    <3>7. QED
      BY <1>3, <3>1, <3>2, <3>4, <3>5, <3>6
  <2>7. \A k \in M(after) : k = new \/ \E m \in M(before) : k = sh(m)
    <3> SUFFICES ASSUME NEW k \in M(after), k # new PROVE \E m \in M(before) : k = sh(m)
      OBVIOUS
    <3>1. k \in 1 .. L + d /\ after[k].kind = "key"
      BY <1>0, <2>3, MatchesAre
    <3>2. PICK m \in 1 .. L : k = sh(m)
      BY <1>2, <1>4, <3>1
    <3>3. QED
      BY <2>5, <3>2
  <2>8. M(before) \subseteq 1 .. L
    BY GetsFrom DEF L
  <2>9. CASE SameName(key, req.key) /\ SameSection(section)
    <3>1. M(before) = {}
      <4>1. S(before) = SectionStarts(before, req.section)
        BY <2>9, OneSection
      <4>2. M(before) = Matches(before, req.section, req.key)
        BY <1>0, <2>9, <4>1 DEF Matches, KeyLines, Lines, SameName
      <4>3. QED
        BY <4>2
    <3>2. M(after) = {new}
      <4> HIDE DEF M
      <4>1. QED
        BY <2>4, <2>6, <2>7, <2>9, <3>1
    <3>3. new \in First(M(after))
      <4> HIDE DEF M
      <4>1. QED
        BY <1>0, <3>2 DEF First
    <3>4. QED
      BY <1>3, <2>9, <3>3, GetsFrom
  <2>10. CASE ~(SameName(key, req.key) /\ SameSection(section))
    <3>1. \A k \in M(after) : \E m \in M(before) : k = sh(m)
      BY <2>4, <2>6, <2>7, <2>10
    <3>2. CASE M(before) = {}
      <4>1. M(after) = {}
        <5> HIDE DEF M
        <5>1. QED
          BY <3>1, <3>2
      <4>2. QED
        BY <2>10, <3>2, <4>1, GetsFrom
    <3>3. CASE M(before) # {}
      <4>1. PICK m : m \in First(M(before))
        <5>1. M(before) \subseteq Nat
          BY <1>0, <2>8
        <5>2. QED
          BY <3>3, <5>1, MinIs
      <4>2. m \in M(before) /\ m \in 1 .. L /\ \A k \in M(before) : m <= k
        BY <2>8, <4>1 DEF First
      <4>3. sh(m) \in First(M(after))
        <5>1. sh(m) \in M(after)
          BY <2>5, <4>2
        <5>2. ASSUME NEW k \in M(after) PROVE sh(m) <= k
          <6>1. PICK l \in M(before) : k = sh(l)
            BY <3>1
          <6>2. l \in 1 .. L /\ m <= l
            BY <2>8, <4>2
          <6>3. QED
            BY <1>0, <4>2, <6>1, <6>2 DEF sh
        <5>3. QED
          BY <5>1, <5>2 DEF First
      <4>4. ini_gets(after, section, key, NULL) = after[sh(m)].value
        BY <4>3, GetsFrom
      <4>5. ini_gets(before, section, key, NULL) = before[m].value
        BY <4>1, GetsFrom
      <4>6. QED
        BY <1>8, <2>10, <4>2, <4>4, <4>5
    <3>4. QED
      BY <3>2, <3>3
  <2>11. QED
    BY <2>9, <2>10
<1>15. QED
  BY <1>13, <1>14

\* A section with one setting is added at the end, perhaps behind a blank line.
LEMMA AddedReads ==
  ASSUME NEW before \in Seq(Line), NEW after \in Seq(Line), req \in Request, Put,
         req.section # NULL, SectionStarts(before, req.section) = {},
         NEW h \in Nat, h > Len(before), Len(after) = h + 1,
         \A k \in 1 .. Len(before) : Alike(after[k], before[k]),
         \A k \in Len(before) + 1 .. h - 1 : after[k].kind = "blank",
         after[h] = Header(req.section), after[h + 1] = Setting(req.key, req.value),
         NEW section \in KeyNames \cup {NULL}, NEW key \in KeyNames
  PROVE  ini_gets(after, section, key, NULL) =
           IF SameName(key, req.key) /\ SameSection(section) THEN req.value
           ELSE ini_gets(before, section, key, NULL)
<1> DEFINE L == Len(before)
           M(lines) == Matches(lines, section, key)
           S(lines) == SectionStarts(lines, section)
<1>0. /\ req.key \in KeyNames /\ req.section \in KeyNames /\ NULL \notin KeyNames
      /\ L \in Nat /\ DOMAIN after = 1 .. h + 1 /\ DOMAIN before = 1 .. L /\ h \in 1 .. h + 1
      /\ h + 1 \in 1 .. h + 1
  BY NullAssumption DEF Request, Put
<1>1. /\ after[h].kind = "section" /\ after[h].name = req.section
      /\ after[h + 1].kind = "key" /\ after[h + 1].name = req.key
      /\ after[h + 1].value = req.value
      /\ LeavesSection(after[h]) /\ ~LeavesSection(after[h + 1])
  BY DEF Header, Setting, LeavesSection
<1>2. \A k \in 1 .. L :
        /\ LeavesSection(after[k]) <=> LeavesSection(before[k])
        /\ after[k].kind = before[k].kind /\ after[k].name = before[k].name
        /\ after[k].value = before[k].value
  BY DEF Alike, LeavesSection
<1>3. \A k \in 1 .. h + 1 : k \in 1 .. L \/ k \in L + 1 .. h - 1 \/ k = h \/ k = h + 1
  BY <1>0
<1> HIDE DEF L
<1>4. CASE SameSection(section)
  <2>1. S(before) = {} /\ section # NULL /\ SameName(req.section, section)
    <3>1. S(before) = {}
      BY <1>4, OneSection
    <3>2. QED
      BY <1>0, <1>4, <3>1 DEF SameSection, SameName, SectionStarts
  <2>2. M(before) = {}
    BY <2>1, NoMatches
  <2>3. S(after) = {h}
    <3>1. h \in S(after)
      BY <1>0, <1>1, <2>1 DEF SectionStarts, Headers
    <3>2. ASSUME NEW k \in S(after) PROVE k = h
      <4>1. k \in 1 .. h + 1 /\ after[k].kind = "section" /\ SameName(after[k].name, section)
        BY <1>0, <2>1 DEF SectionStarts, Headers
      <4>2. k \in 1 .. L => k \in S(before)
        BY <1>0, <1>2, <2>1, <4>1 DEF SectionStarts, Headers
      <4>3. k \notin L + 1 .. h - 1
        BY <4>1 DEF L
      <4>4. QED
        BY <1>1, <1>3, <2>1, <4>1, <4>2, <4>3
    <3> HIDE DEF S
    <3>3. QED
      BY <3>1, <3>2
  <2>4. h \in First(S(after))
    BY <2>3 DEF First
  <2>5. \A k \in M(after) : k = h + 1
    <3>1. \A k \in M(after) : k \in 1 .. Len(after) /\ h < k
      BY <2>4, MatchesAre
    <3>2. QED
      BY <1>0, <3>1
  <2>6. h + 1 \in M(after) <=> SameName(key, req.key)
    <3>1. h + 1 \in M(after) <=>
            /\ h + 1 \in 1 .. Len(after) /\ h < h + 1 /\ after[h + 1].kind = "key"
            /\ SameName(after[h + 1].name, key)
            /\ \A k \in h + 1 .. h + 1 : ~LeavesSection(after[k])
      BY <2>4, MatchesAre
    <3>2. \A k \in h + 1 .. h + 1 : k = h + 1
      OBVIOUS
    <3>3. SameName(after[h + 1].name, key) <=> SameName(key, req.key)
      BY <1>0, <1>1 DEF SameName
    <3>4. QED
      BY <1>0, <1>1, <3>1, <3>2, <3>3
  <2>7. CASE SameName(key, req.key)
    <3>1. h + 1 \in First(M(after))
      <4> HIDE DEF M
      <4>1. QED
        BY <2>5, <2>6, <2>7 DEF First
    <3>2. QED
      BY <1>1, <1>4, <2>7, <3>1, GetsFrom
  <2>8. CASE ~SameName(key, req.key)
    <3>1. M(after) = {}
      <4> HIDE DEF M
      <4>1. QED
        BY <2>5, <2>6, <2>8
    <3>2. QED
      BY <2>2, <2>8, <3>1, GetsFrom
  <2>9. QED
    BY <2>7, <2>8
<1>5. CASE ~SameSection(section)
  <2>1. S(after) = S(before)
    <3>1. CASE section = NULL
      BY <3>1 DEF SectionStarts
    <3>2. CASE section # NULL
      <4>1. ~SameName(req.section, section)
        BY <1>0, <1>5 DEF SameSection, SameName
      <4>2. \A k : k \in S(after) <=> k \in 1 .. h + 1 /\ after[k].kind = "section" /\ SameName(after[k].name, section)
        BY <1>0, <3>2 DEF SectionStarts, Headers
      <4>3. \A k : k \in S(before) <=> k \in 1 .. L /\ before[k].kind = "section" /\ SameName(before[k].name, section)
        BY <1>0, <3>2 DEF SectionStarts, Headers
      <4>4. \A k \in 1 .. L : k \in 1 .. h + 1
        BY <1>0 DEF L
      <4>5. \A k \in L + 1 .. h - 1 : after[k].kind = "blank"
        BY DEF L
      <4> HIDE DEF S
      <4>6. \A k \in S(after) : k \in S(before)
        <5> SUFFICES ASSUME NEW k \in S(after) PROVE k \in S(before)
          OBVIOUS
        <5>1. k \in 1 .. h + 1 /\ after[k].kind = "section" /\ SameName(after[k].name, section)
          BY <4>2
        <5>2. k \in 1 .. L
          BY <1>1, <1>3, <4>1, <4>5, <5>1
        <5>3. QED
          BY <1>2, <4>3, <5>1, <5>2
      <4>7. \A k \in S(before) : k \in S(after)
        BY <1>2, <4>2, <4>3, <4>4
      <4>8. QED
        BY <4>6, <4>7
    <3>3. QED
      BY <3>1, <3>2
  <2>2. CASE S(before) = {}
    <3>1. M(before) = {} /\ M(after) = {}
      BY <2>1, <2>2, NoMatches
    <3>2. QED
      BY <1>5, <3>1, GetsFrom
  <2>3. CASE S(before) # {}
    <3>a. S(before) \subseteq 0 .. L /\ S(before) \subseteq Nat
      BY StartsAre DEF L
    <3>1. PICK t : t \in First(S(before))
      BY <2>3, <3>a, MinIs
    <3>2. t \in 0 .. L /\ t \in Nat /\ t \in First(S(after))
      BY <2>1, <3>1, <3>a DEF First
    <3>3. \A m : m \in M(after) <=>
            /\ m \in 1 .. Len(after) /\ t < m /\ after[m].kind = "key"
            /\ SameName(after[m].name, key)
            /\ \A k \in t + 1 .. m : ~LeavesSection(after[k])
      BY <3>2, MatchesAre
    <3>4. \A m : m \in M(before) <=>
            /\ m \in 1 .. L /\ t < m /\ before[m].kind = "key"
            /\ SameName(before[m].name, key)
            /\ \A k \in t + 1 .. m : ~LeavesSection(before[k])
      BY <3>1, MatchesAre DEF L
    <3>5. ASSUME NEW m \in M(after) PROVE m \in 1 .. L
      <4>1. m \in 1 .. h + 1 /\ t < m /\ after[m].kind = "key"
            /\ \A k \in t + 1 .. m : ~LeavesSection(after[k])
        BY <1>0, <3>3
      <4>2. m \notin L + 1 .. h - 1 /\ m # h
        BY <1>1, <4>1 DEF L
      <4>3. m # h + 1
        <5>1. h \in t + 1 .. h + 1
          BY <1>0, <3>2 DEF L
        <5>2. QED
          BY <1>1, <4>1, <5>1
      <4>4. QED
        BY <1>3, <4>1, <4>2, <4>3
    <3>6. ASSUME NEW m \in 1 .. L PROVE m \in M(after) <=> m \in M(before)
      <4>1. m \in 1 .. Len(after)
        BY <1>0 DEF L
      <4>2. \A k \in t + 1 .. m : k \in 1 .. L
        BY <1>0, <3>2
      <4>3. (\A k \in t + 1 .. m : ~LeavesSection(after[k]))
              <=> (\A k \in t + 1 .. m : ~LeavesSection(before[k]))
        BY <1>2, <4>2
      <4>4. QED
        BY <1>2, <3>3, <3>4, <4>1, <4>3
    <3>7. M(after) = M(before) /\ M(before) \subseteq 1 .. L
      <4>1. M(before) \subseteq 1 .. L
        BY GetsFrom DEF L
      <4> HIDE DEF M
      <4>2. QED
        BY <3>5, <3>6, <4>1
    <3>8. CASE M(before) = {}
      BY <1>5, <3>7, <3>8, GetsFrom
    <3>9. CASE M(before) # {}
      <4>1. PICK m : m \in First(M(before))
        <5>1. M(before) \subseteq Nat
          BY <1>0, <3>7
        <5>2. QED
          BY <3>9, <5>1, MinIs
      <4>2. m \in 1 .. L
        BY <3>7, <4>1 DEF First
      <4>3. ini_gets(after, section, key, NULL) = after[m].value
        BY <3>7, <4>1, GetsFrom
      <4>4. ini_gets(before, section, key, NULL) = before[m].value
        BY <4>1, GetsFrom
      <4>5. QED
        BY <1>2, <1>5, <4>2, <4>3, <4>4
    <3>10. QED
      BY <3>8, <3>9
  <2>4. QED
    BY <2>2, <2>3
<1>6. QED
  BY <1>4, <1>5

\* The lines of a file into which one is inserted.
LEMMA InsertedLines ==
  ASSUME NEW lines \in Seq(Line), NEW n \in 0 .. Len(lines), NEW line \in Line
  PROVE  LET r == Inserted(lines, n, <<line>>)
         IN  /\ r \in Seq(Line) /\ Len(r) = Len(lines) + 1
             /\ \A k \in 1 .. n : r[k] = lines[k]
             /\ \A k \in n + 1 .. Len(lines) : r[k + 1] = lines[k]
             /\ r[n + 1] = line
<1> DEFINE a == SubSeq(lines, 1, n)
           b == SubSeq(lines, n + 1, Len(lines))
           c == Append(a, line)
<1>0. Len(lines) \in Nat /\ n \in Nat /\ Len(lines) \in n .. Len(lines)
  OBVIOUS
<1>1. /\ a \in Seq(Line) /\ Len(a) = n /\ \A k \in 1 .. n : a[k] = lines[k]
      /\ b \in Seq(Line) /\ Len(b) = Len(lines) - n
      /\ \A k \in 1 .. Len(lines) - n : b[k] = lines[n + k]
  BY <1>0, Parts
<1> HIDE DEF a, b
<1>2. c = a \o <<line>>
  BY <1>1, AppendIsConcat
<1>3. /\ c \in Seq(Line) /\ Len(c) = n + 1 /\ \A k \in 1 .. n : c[k] = lines[k]
      /\ c[n + 1] = line
  BY <1>0, <1>1, AppendProperties
<1> HIDE DEF c
<1>4. /\ c \o b \in Seq(Line) /\ Len(c \o b) = Len(c) + Len(b)
      /\ \A k \in 1 .. Len(c) + Len(b) :
           (c \o b)[k] = IF k <= Len(c) THEN c[k] ELSE b[k - Len(c)]
  BY <1>1, <1>3, ConcatProperties
<1>5. Len(c) + Len(b) = Len(lines) + 1
  BY <1>0, <1>1, <1>3
<1>6. \A k \in 1 .. n : (c \o b)[k] = lines[k]
  BY <1>0, <1>3, <1>4, <1>5
<1>7. (c \o b)[n + 1] = line
  BY <1>0, <1>3, <1>4, <1>5
<1>8. ASSUME NEW k \in n + 1 .. Len(lines) PROVE (c \o b)[k + 1] = lines[k]
  <2>1. k + 1 \in 1 .. Len(lines) + 1 /\ ~(k + 1 <= n + 1) /\ (k + 1) - (n + 1) = k - n
    BY <1>0
  <2>2. k - n \in 1 .. Len(lines) - n /\ n + (k - n) = k
    BY <1>0
  <2>3. (c \o b)[k + 1] = b[k - n]
    BY <1>3, <1>4, <1>5, <2>1
  <2>4. QED
    BY <1>1, <2>2, <2>3
<1>9. Inserted(lines, n, <<line>>) = c \o b
  BY <1>2 DEF Inserted, a, b
<1>10. QED
  BY <1>4, <1>5, <1>6, <1>7, <1>8, <1>9

\* A file to which a line may be added has its lines, and a blank one at most.
LEMMA TerminableLines ==
  ASSUME NEW lines \in Seq(Line), NEW whole \in Terminable(lines)
  PROVE  /\ whole \in Seq(Line) /\ Len(whole) \in {Len(lines), Len(lines) + 1}
         /\ \A k \in 1 .. Len(lines) : Alike(whole[k], lines[k])
         /\ \A k \in Len(lines) + 1 .. Len(whole) : whole[k].kind = "blank"
<1>0. Len(lines) \in Nat
  OBVIOUS
<1>1. CASE lines # << >> /\ ~Last(lines).nl
  <2> DEFINE e == [Last(lines) EXCEPT !.nl = TRUE]
             f == Front(lines)
             l == Len(lines)
  <2>1. whole = Append(f, e)
    BY <1>1 DEF Terminable
  <2>2. /\ l \in Nat \ {0} /\ Last(lines) = lines[l] /\ Last(lines) \in Line /\ f \in Seq(Line)
    BY <1>1, LastIs
  <2>3. e \in Line /\ Alike(e, lines[l])
    BY <2>2, LinesMade DEF Alike, Line
  <2>4. Len(f) = l - 1 /\ \A k \in 1 .. l - 1 : f[k] = lines[k]
    <3>1. f = SubSeq(lines, 1, l - 1)
      BY DEF Front
    <3>2. l - 1 \in Nat /\ \A k \in 1 .. l - 1 : lines[k] \in Line
      BY <2>2
    <3>3. /\ Len(SubSeq(lines, 1, l - 1)) = IF 1 <= l - 1 THEN (l - 1) - 1 + 1 ELSE 0
          /\ \A k \in 1 .. (l - 1) - 1 + 1 : SubSeq(lines, 1, l - 1)[k] = lines[1 + k - 1]
      <4> HIDE DEF f, l
      <4>1. QED
        BY <3>2, SubSeqProperties
    <3> HIDE DEF f, l
    <3>4. QED
      BY <3>1, <3>2, <3>3
  <2> HIDE DEF e, f
  <2>5. /\ whole \in Seq(Line) /\ Len(whole) = l /\ whole[l] = e
        /\ \A k \in 1 .. l - 1 : whole[k] = lines[k]
    BY <2>1, <2>2, <2>3, <2>4, AppendProperties
  <2>6. \A k \in 1 .. l : Alike(whole[k], lines[k])
    <3>1. \A k \in 1 .. l : k = l \/ k \in 1 .. l - 1
      BY <2>2
    <3>2. QED
      BY <2>3, <2>5, <3>1 DEF Alike
  <2>7. QED
    BY <2>2, <2>5, <2>6
<1>2. CASE ~(lines # << >> /\ ~Last(lines).nl)
  <2> DEFINE b == Plain("blank")
  <2>1. b \in Line /\ b.kind = "blank"
    BY LinesMade DEF Plain
  <2>2. whole = lines \/ whole = Append(lines, b)
    BY <1>2 DEF Terminable
  <2> HIDE DEF b
  <2>3. /\ Append(lines, b) \in Seq(Line) /\ Len(Append(lines, b)) = Len(lines) + 1
        /\ \A k \in 1 .. Len(lines) : Append(lines, b)[k] = lines[k]
        /\ Append(lines, b)[Len(lines) + 1] = b
    BY <2>1, AppendProperties
  <2>4. QED
    BY <1>0, <2>1, <2>2, <2>3 DEF Alike
<1>3. QED
  BY <1>1, <1>2

\* What one call makes of a file is read back: the setting that was put under its name,
\* all others as before.
LEMMA EditReads ==
  ASSUME NEW before \in Seq(Line), NEW after \in Seq(Line), req \in Request, Put,
         Edited(before, after),
         NEW section \in KeyNames \cup {NULL}, NEW key \in KeyNames
  PROVE  ini_gets(after, section, key, NULL) =
           IF SameName(key, req.key) /\ SameSection(section) THEN req.value
           ELSE ini_gets(before, section, key, NULL)
<1> DEFINE Goal == ini_gets(after, section, key, NULL) =
                     IF SameName(key, req.key) /\ SameSection(section) THEN req.value
                     ELSE ini_gets(before, section, key, NULL)
           setting == Setting(req.key, req.value)
           starts == SectionStarts(before, req.section)
           found == Matches(before, req.section, req.key)
<1>0. /\ Len(before) \in Nat /\ req.key \in KeyNames /\ req.value \in Values
      /\ req.section \in KeyNames \cup {NULL} /\ SameName(req.key, req.key)
  BY NullAssumption DEF Request, Put, SameName
<1>1. /\ setting \in Line /\ setting.kind = "key" /\ setting.name = req.key
      /\ setting.value = req.value
  BY <1>0, LinesMade DEF Setting
<1>2. /\ found \subseteq 1 .. Len(before) /\ starts \subseteq 0 .. Len(before)
      /\ \A n \in found : before[n].kind = "key" /\ SameName(before[n].name, req.key)
  BY StartsAre DEF Matches, KeyLines
<1>3. \/ \E n \in First(found) :
           \/ after = Replaced(before, n, <<setting>>)
           \/ before[n].value = req.value /\ after = before
      \/ /\ found = {}
         /\ \E s \in First(starts) : \E n \in SectionEnds(before, s) :
              IF n < Len(before) THEN after = Inserted(before, n, <<setting>>)
              ELSE \E whole \in Terminable(before) : after = Append(whole, setting)
      \/ starts = {} /\ \E whole \in Terminable(before) : after = whole \o NewSetting
  BY DEF Edited, Put
<1> HIDE DEF setting, starts, found, Goal
<1>4. ASSUME NEW n \in First(found), after = Replaced(before, n, <<setting>>) PROVE Goal
  <2>1. n \in 1 .. Len(before) /\ n \in First(Matches(before, req.section, req.key))
    BY <1>2 DEF First, found
  <2>2. after = [before EXCEPT ![n] = setting]
    BY <1>1, <1>4, <2>1, InPlaceIs
  <2>3. /\ Len(after) = Len(before) /\ after[n] = setting
        /\ \A k \in 1 .. Len(before) : k # n => after[k] = before[k]
    BY <1>0, <1>1, <2>1, <2>2
  <2>4. QED
    BY <1>0, <1>1, <2>1, <2>3, ReplacedReads DEF Goal
<1>5. ASSUME NEW n \in First(found), before[n].value = req.value, after = before PROVE Goal
  <2>1. n \in 1 .. Len(before) /\ n \in found /\ n \in First(Matches(before, req.section, req.key))
    BY <1>2 DEF First, found
  <2>2. before[n].kind = "key" /\ SameName(before[n].name, req.key)
    BY <1>2, <2>1
  <2>3. QED
    BY <1>5, <2>1, <2>2, ReplacedReads DEF Goal
<1>6. ASSUME found = {}, NEW s \in First(starts), NEW n \in SectionEnds(before, s),
             n < Len(before), after = Inserted(before, n, <<setting>>)
      PROVE  Goal
  <2>1. /\ s \in First(SectionStarts(before, req.section)) /\ s \in 0 .. Len(before)
        /\ Matches(before, req.section, req.key) = {}
    BY <1>2, <1>6 DEF First, found, starts
  <2>2. n \in 0 .. Len(before)
    BY <1>0, <2>1 DEF SectionEnds
  <2>3. /\ Len(after) = Len(before) + 1
        /\ \A k \in 1 .. n : after[k] = before[k]
        /\ \A k \in n + 1 .. Len(before) : after[k + 1] = before[k]
        /\ after[n + 1] = setting
    BY <1>1, <1>6, <2>2, InsertedLines
  <2>4. /\ 1 \in Nat \ {0} /\ (n + 1 .. (n + 1) - 1) = {}
        /\ \A k \in 1 .. n : Alike(after[k], before[k])
        /\ \A k \in n + 1 .. Len(before) : Alike(after[k + 1], before[k])
        /\ Alike(after[n + 1], Setting(req.key, req.value))
    BY <2>2, <2>3 DEF Alike, setting
  <2>5. \A k \in n + 1 .. (n + 1) - 1 : after[k].kind = "blank"
    BY <2>4
  <2> HIDE DEF Alike
  <2>6. QED
    BY <2>1, <2>3, <2>4, <2>5, InsertedReads DEF Goal
<1>7. ASSUME found = {}, NEW s \in First(starts), NEW n \in SectionEnds(before, s),
             ~(n < Len(before)), NEW whole \in Terminable(before), after = Append(whole, setting)
      PROVE  Goal
  <2>1. /\ s \in First(SectionStarts(before, req.section)) /\ s \in 0 .. Len(before)
        /\ Matches(before, req.section, req.key) = {}
    BY <1>2, <1>7 DEF First, found, starts
  <2>2. n = Len(before)
    BY <1>0, <1>7, <2>1 DEF SectionEnds
  <2>3. /\ whole \in Seq(Line) /\ Len(whole) \in {Len(before), Len(before) + 1}
        /\ \A k \in 1 .. Len(before) : Alike(whole[k], before[k])
        /\ \A k \in Len(before) + 1 .. Len(whole) : whole[k].kind = "blank"
    BY TerminableLines
  <2> DEFINE d == Len(whole) + 1 - Len(before)
  <2>4. d \in Nat \ {0} /\ n + d = Len(whole) + 1 /\ (n + d) - 1 = Len(whole)
        /\ Len(before) + d = Len(whole) + 1 /\ Len(whole) \in Nat /\ n \in Nat
    BY <1>0, <2>2, <2>3
  <2>5. /\ Len(after) = Len(whole) + 1 /\ after[Len(whole) + 1] = setting
        /\ \A k \in 1 .. Len(whole) : after[k] = whole[k]
    BY <1>1, <1>7, <2>3, AppendProperties
  <2>6. /\ \A k \in 1 .. n : k \in 1 .. Len(whole) /\ k \in 1 .. Len(before)
        /\ \A k \in n + 1 .. Len(whole) : k \in 1 .. Len(whole) /\ k \in Len(before) + 1 .. Len(whole)
    <3> DEFINE l == Len(before)
               m == Len(whole)
    <3>1. l \in Nat /\ m \in {l, l + 1} /\ n = l
      BY <1>0, <2>2, <2>3
    <3> HIDE DEF l, m
    <3>2. /\ \A k \in 1 .. n : k \in 1 .. m /\ k \in 1 .. l
          /\ \A k \in n + 1 .. m : k \in 1 .. m /\ k \in l + 1 .. m
      BY <3>1
    <3>3. QED
      BY <3>2 DEF l, m
  <2>7. /\ \A k \in 1 .. n : Alike(after[k], before[k])
        /\ \A k \in n + 1 .. Len(whole) : after[k].kind = "blank"
        /\ Alike(after[Len(whole) + 1], Setting(req.key, req.value))
    BY <2>3, <2>5, <2>6 DEF Alike, setting
  <2> HIDE DEF d, Alike
  <2>8. \A k \in n + 1 .. Len(before) : Alike(after[k + d], before[k])
    BY <1>0, <2>2
  <2>9. Len(after) = Len(before) + d /\ \A k \in n + 1 .. (n + d) - 1 : after[k].kind = "blank"
        /\ Alike(after[n + d], Setting(req.key, req.value))
    BY <2>4, <2>5, <2>7
  <2>10. QED
    BY <2>1, <2>4, <2>7, <2>8, <2>9, InsertedReads DEF Goal
<1>8. ASSUME starts = {}, NEW whole \in Terminable(before), after = whole \o NewSetting PROVE Goal
  <2>1. req.section # NULL /\ req.section \in KeyNames /\ SectionStarts(before, req.section) = {}
    BY <1>0, <1>8 DEF starts, SectionStarts
  <2> DEFINE two == <<Header(req.section), Setting(req.key, req.value)>>
             h == Len(whole) + 1
  <2>2. /\ after = whole \o two /\ two \in Seq(Line) /\ Len(two) = 2
        /\ two[1] = Header(req.section) /\ two[2] = Setting(req.key, req.value)
    BY <1>0, <1>8, <2>1, LinesMade DEF NewSetting
  <2>3. /\ whole \in Seq(Line) /\ Len(whole) \in {Len(before), Len(before) + 1}
        /\ \A k \in 1 .. Len(before) : Alike(whole[k], before[k])
        /\ \A k \in Len(before) + 1 .. Len(whole) : whole[k].kind = "blank"
    BY TerminableLines
  <2> HIDE DEF two
  <2>4. /\ Len(after) = Len(whole) + Len(two)
        /\ \A k \in 1 .. Len(whole) + Len(two) :
             after[k] = IF k <= Len(whole) THEN whole[k] ELSE two[k - Len(whole)]
    BY <2>2, <2>3, ConcatProperties
  <2>5. Len(whole) \in Nat
    BY <2>3
  <2>6. /\ h \in 1 .. Len(whole) + 2 /\ ~(h <= Len(whole)) /\ h - Len(whole) = 1
        /\ h + 1 \in 1 .. Len(whole) + 2 /\ ~(h + 1 <= Len(whole)) /\ (h + 1) - Len(whole) = 2
        /\ h - 1 = Len(whole) /\ h \in Nat /\ h > Len(before) /\ Len(whole) + 2 = h + 1
        /\ \A k \in 1 .. Len(whole) : k \in 1 .. Len(whole) + 2 /\ k <= Len(whole)
        /\ \A k \in 1 .. Len(before) : k \in 1 .. Len(whole)
        /\ \A k \in Len(before) + 1 .. Len(whole) : k \in 1 .. Len(whole)
    BY <1>0, <2>3, <2>5
  <2> HIDE DEF h
  <2>7. after[h] = Header(req.section) /\ after[h + 1] = Setting(req.key, req.value)
    BY <2>2, <2>4, <2>6
  <2>8. \A k \in 1 .. Len(whole) : after[k] = whole[k]
    BY <2>2, <2>4, <2>6
  <2>9. /\ \A k \in 1 .. Len(before) : Alike(after[k], before[k])
        /\ \A k \in Len(before) + 1 .. h - 1 : after[k].kind = "blank"
    BY <2>3, <2>6, <2>8
  <2>10. Len(after) = h + 1
    BY <2>2, <2>4, <2>6
  <2>11. QED
    BY <2>1, <2>6, <2>7, <2>9, <2>10, AddedReads DEF Goal
<1>9. QED
  BY <1>3, <1>4, <1>5, <1>6, <1>7, <1>8 DEF Goal

\* Whatever ini_puts was called with, the readers agree on the file it leaves: ini_browse
\* gets to its end, a value that ini_gets finds is the first that ini_browse lists when it
\* has read every line up to it at once, and after a setting was put it is the one that was
\* put (minIni.c:203-283, 295-310, 390-540, 657-867).
THEOREM ReadersAreRight == WriteSpec => []ReadersAgree
<1>1. WriteIInv => ReadersAgree
  <2> SUFFICES ASSUME WriteIInv, write_pc = "done" PROVE ReadersAgree
    BY DEF ReadersAgree
  <2>1. WriteTypeOK /\ CacheIsLines /\ WritesEdit
    BY DEF WriteIInv, CacheIsLines
  <2>2. file \in Seq(Line) /\ old \in Seq(Line) /\ req \in Request
    BY <2>1, RequestsAssumption DEF WriteTypeOK, Readable
  <2>3. ASSUME ret = 1, Put PROVE ReadsBack
    <3>1. Edited(old, file)
      BY <2>1, <2>3 DEF WritesEdit, Headless, Put
    <3>2. QED
      BY <2>2, <2>3, <3>1, EditReads DEF ReadsBack, SameSection
  <2>4. (\A n \in DOMAIN file : Size(file[n]) < INI_BUFFERSIZE) => ini_browse(file).at > Len(file)
    BY <2>2, BrowseEnds
  <2>5. QED
    BY <2>2, <2>3, <2>4, ReadersAgreeOn DEF ReadersAgree
<1>2. QED
  BY WriteInvariant, <1>1, PTL

=============================================================================
