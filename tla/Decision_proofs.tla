--------------------------- MODULE Decision_proofs ----------------------------
(* Proofs about what is decided for a message: Bearing, for every list of     *)
(* groups and every circle, and MessageList, for every message, every way its *)
(* points fall into groups and every allocation that fails.                   *)
EXTENDS Bearing, MessageList, SequenceTheorems, WellFoundedInduction, TLAPS

-----------------------------------------------------------------------------
(* Bearing: remainders and differences.                                     *)

\* A remainder is unique.
LEMMA Remainder ==
  ASSUME NEW x \in Int, NEW q \in Int, NEW r \in Degree, x = q * Circle + r
  PROVE  x % Circle = r
BY CircleAssumption DEF Degree

\* Less than a full turn, the remainder is the number itself or a turn more.
LEMMA TurnOf ==
  ASSUME NEW x \in Int, -Circle < x, x < Circle
  PROVE  x % Circle = IF x < 0 THEN x + Circle ELSE x
<1>1. CASE x < 0
  <2>1. x + Circle \in Degree /\ x = (-1) * Circle + (x + Circle)
    BY <1>1, CircleAssumption DEF Degree
  <2>2. QED
    BY <2>1, <1>1, Remainder
<1>2. CASE x >= 0
  <2>1. x \in Degree /\ x = 0 * Circle + x
    BY <1>2, CircleAssumption DEF Degree
  <2>2. QED
    BY <2>1, <1>2, Remainder
<1>3. QED
  BY <1>1, <1>2

\* The distance the code computes is the shorter way round.
LEMMA DiffIsApart ==
  ASSUME NEW b \in Degree, NEW t \in Degree
  PROVE  Diff(b, t) = Apart(b, t) /\ Diff(b, t) \in Nat
<1>1. b \in Int /\ t \in Int /\ b # NaN /\ Circle \in Nat
  BY CircleAssumption, NaNAssumption DEF Degree
<1>2. -Circle < b - t /\ b - t < Circle /\ -Circle < t - b /\ t - b < Circle
  BY CircleAssumption DEF Degree
<1>3. /\ (b - t) % Circle = IF b - t < 0 THEN b - t + Circle ELSE b - t
      /\ (t - b) % Circle = IF t - b < 0 THEN t - b + Circle ELSE t - b
  BY <1>1, <1>2, TurnOf
<1>4. QED
  BY <1>1, <1>2, <1>3 DEF Diff, Fabs, Apart

\* The targets are bearings, and there is one.
LEMMA TargetTypes ==
  /\ Len(Targets) \in Nat \ {0}
  /\ DOMAIN Targets = 1 .. Len(Targets)
  /\ \A k \in 1 .. Len(Targets) : Targets[k] \in Degree
BY TargetsAssumption

\* A distance to a target is a number, or NaN like the bearing.
LEMMA DiffType ==
  ASSUME NEW b \in Degree \cup {NaN}, NEW k \in 1 .. Len(Targets)
  PROVE  /\ b = NaN => Diff(b, Targets[k]) = NaN
         /\ b # NaN => Diff(b, Targets[k]) \in Nat
BY DiffIsApart, TargetTypes DEF Diff

-----------------------------------------------------------------------------
(* Bearing: the search.                                                     *)

LEMMA BearingStarts == BearingInit => BearingIInv
BY TargetTypes DEF BearingInit, BearingIInv, BearingTypeOK, NearestSoFar, Nearest

\* Normalising leaves a bearing of the compass.
LEMMA StepCalculateBearing == BearingIInv /\ CalculateBearing => BearingIInv'
<1> SUFFICES ASSUME BearingIInv, CalculateBearing PROVE BearingIInv'
  OBVIOUS
<1> USE DEF BearingIInv
<1>1. bearing' \in Degree \cup {NaN}
  <2>1. bearing # NaN => (bearing + Circle) % Circle \in Degree
    BY CircleAssumption DEF BearingTypeOK, Degree
  <2>2. QED
    BY <2>1 DEF CalculateBearing
<1>2. bearing' \in Int \cup {NaN}
  BY <1>1 DEF Degree
<1>3. BearingTypeOK'
  BY <1>1, <1>2 DEF CalculateBearing, BearingTypeOK
<1>4. n = 0
  BY DEF NearestSoFar, CalculateBearing
<1>5. QED
  BY <1>3, <1>4 DEF CalculateBearing, NearestSoFar, Nearest

\* The first target is the nearest of one.
LEMMA StepFirstTarget == BearingIInv /\ FirstTarget => BearingIInv'
<1> SUFFICES ASSUME BearingIInv, FirstTarget PROVE BearingIInv'
  OBVIOUS
<1> USE DEF BearingIInv
<1>1. bearing \in Degree \cup {NaN} /\ 1 \in 1 .. Len(Targets)
  BY TargetTypes DEF BearingTypeOK, FirstTarget
<1>2. Diff(bearing, Targets[1]) \in Nat \cup {NaN}
  BY <1>1, DiffType
<1>3. BearingTypeOK'
  BY <1>1, <1>2, TargetTypes DEF BearingTypeOK, FirstTarget
<1>4. bearing # NaN => Diff(bearing, Targets[1]) \in Nat
  BY <1>1, DiffType
<1>5. bearing # NaN =>
        \E k \in 1 .. 1 :
          /\ Targets[1] = Targets[k]
          /\ \A i \in 1 .. 1 : Diff(bearing, Targets[k]) <= Diff(bearing, Targets[i])
          /\ \A i \in 1 .. k - 1 : Diff(bearing, Targets[k]) < Diff(bearing, Targets[i])
  BY <1>4
<1>6. NearestSoFar' /\ Nearest'
  BY <1>5 DEF FirstTarget, NearestSoFar, Nearest
<1>7. QED
  BY <1>3, <1>6

\* A target strictly nearer takes over; one as near as the nearest does not.
LEMMA StepNextTarget == BearingIInv /\ NextTarget => BearingIInv'
<1> SUFFICES ASSUME BearingIInv, NextTarget PROVE BearingIInv'
  OBVIOUS
<1> USE DEF BearingIInv
<1> DEFINE D(k) == Diff(bearing, Targets[k])
<1>1. /\ bearing \in Degree \cup {NaN} /\ n \in Nat /\ n > 0 /\ n + 1 \in 1 .. Len(Targets)
      /\ UNCHANGED <<bearing, bearing_pc>> /\ bearing_pc = "search" /\ n' = n + 1
  BY TargetTypes DEF BearingTypeOK, NextTarget
<1>2. \A k \in 1 .. Len(Targets) : (bearing # NaN => D(k) \in Nat) /\ (bearing = NaN => D(k) = NaN)
  BY <1>1, DiffType
<1>3. CASE bearing = NaN
  <2>1. ~Less(D(n + 1), min_diff)
    BY <1>1, <1>2, <1>3 DEF Less
  <2>2. UNCHANGED <<closest, min_diff>>
    BY <2>1 DEF NextTarget
  <2>3. QED
    BY <1>1, <1>3, <2>2 DEF BearingTypeOK, NearestSoFar, Nearest
<1>4. CASE bearing # NaN
  <2>1. PICK k \in 1 .. n : /\ closest = Targets[k]
                            /\ \A i \in 1 .. n : D(k) <= D(i)
                            /\ \A i \in 1 .. k - 1 : D(k) < D(i)
    BY <1>1, <1>4 DEF NearestSoFar
  <2>2. min_diff = D(k) /\ \A i \in 1 .. n + 1 : D(i) \in Nat
    BY <1>1, <1>2, <1>4, <2>1 DEF NearestSoFar
  <2>3. D(k) \in Nat /\ D(n + 1) \in Nat /\ D(k) # NaN /\ D(n + 1) # NaN
    BY <1>1, <2>2, NaNAssumption
  <2> HIDE DEF D
  <2>4. CASE D(n + 1) < D(k)
    <3>1. closest' = Targets[n + 1] /\ min_diff' = D(n + 1)
      BY <2>2, <2>3, <2>4 DEF NextTarget, Less, D
    <3>2. \A i \in 1 .. n : D(n + 1) < D(i)
      BY <2>1, <2>2, <2>3, <2>4, <1>1
    <3>3. BearingTypeOK'
      BY <1>1, <2>3, <3>1, TargetTypes DEF BearingTypeOK
    <3>4. \E l \in 1 .. n + 1 : /\ closest' = Targets[l]
                                /\ \A i \in 1 .. n + 1 : D(l) <= D(i)
                                /\ \A i \in 1 .. l - 1 : D(l) < D(i)
      <4>1. n + 1 \in 1 .. n + 1 /\ \A i \in 1 .. n + 1 : i = n + 1 \/ i \in 1 .. n
        BY <1>1
      <4>2. \A i \in 1 .. n + 1 : D(n + 1) <= D(i)
        BY <4>1, <3>2, <2>2, <2>3
      <4>3. \A i \in 1 .. (n + 1) - 1 : D(n + 1) < D(i)
        BY <3>2, <1>1
      <4>4. QED
        BY <4>1, <4>2, <4>3, <3>1
    <3>5. NearestSoFar' /\ Nearest'
      BY <1>1, <1>4, <3>1, <3>4 DEF NearestSoFar, Nearest, D
    <3>6. QED
      BY <3>3, <3>5
  <2>5. CASE ~(D(n + 1) < D(k))
    <3>1. UNCHANGED <<closest, min_diff>>
      BY <2>2, <2>3, <2>5 DEF NextTarget, Less, D
    <3>2. BearingTypeOK'
      BY <1>1, <3>1, TargetTypes DEF BearingTypeOK
    <3>3. \A i \in 1 .. n + 1 : D(k) <= D(i)
      <4>1. \A i \in 1 .. n + 1 : i = n + 1 \/ i \in 1 .. n
        BY <1>1
      <4>2. QED
        BY <4>1, <2>1, <2>3, <2>5
    <3>4. \E l \in 1 .. n + 1 : /\ closest' = Targets[l]
                                /\ \A i \in 1 .. n + 1 : D(l) <= D(i)
                                /\ \A i \in 1 .. l - 1 : D(l) < D(i)
      BY <1>1, <2>1, <3>1, <3>3
    <3>5. min_diff' = Diff(bearing, closest)
      BY <2>1, <2>2, <3>1 DEF D
    <3>6. NearestSoFar' /\ Nearest'
      BY <1>1, <1>4, <3>1, <3>4, <3>5 DEF NearestSoFar, Nearest, D
    <3>7. QED
      BY <3>2, <3>6
  <2>6. QED
    BY <2>4, <2>5
<1>5. QED
  BY <1>3, <1>4

\* When all targets were looked at, the nearest so far is the nearest.
LEMMA StepReturn == BearingIInv /\ Return => BearingIInv'
<1> SUFFICES ASSUME BearingIInv, Return PROVE BearingIInv'
  OBVIOUS
<1> USE DEF BearingIInv
<1>1. /\ bearing \in Degree \cup {NaN} /\ n = Len(Targets) /\ n > 0 /\ bearing_pc = "search"
      /\ UNCHANGED <<bearing, n, closest, min_diff>>
  BY TargetTypes DEF BearingTypeOK, Return
<1>2. BearingTypeOK'
  BY <1>1, TargetTypes DEF BearingTypeOK, Return
<1>3. IsGroupFor(bearing, closest)
  <2>1. CASE bearing = NaN
    BY <1>1, <2>1 DEF NearestSoFar, IsGroupFor
  <2>2. CASE bearing # NaN
    <3>1. \A i \in 1 .. n : Diff(bearing, Targets[i]) = Apart(bearing, Targets[i])
      BY <1>1, <2>2, TargetTypes, DiffIsApart
    <3>2. PICK k \in 1 .. n :
            /\ closest = Targets[k]
            /\ \A i \in 1 .. n : Diff(bearing, Targets[k]) <= Diff(bearing, Targets[i])
            /\ \A i \in 1 .. k - 1 : Diff(bearing, Targets[k]) < Diff(bearing, Targets[i])
      BY <1>1, <2>2 DEF NearestSoFar
    <3>3. \A i \in 1 .. k - 1 : i \in 1 .. n
      BY <1>1, TargetTypes
    <3>4. QED
      BY <1>1, <2>2, <3>1, <3>2, <3>3, TargetTypes DEF IsGroupFor
  <2>3. QED
    BY <2>1, <2>2
<1>4. NearestSoFar' /\ Nearest'
  BY <1>1, <1>3 DEF Return, NearestSoFar, Nearest
<1>5. QED
  BY <1>2, <1>4

LEMMA BearingRests == BearingIInv /\ UNCHANGED bearing_vars => BearingIInv'
BY DEF BearingIInv, bearing_vars, BearingTypeOK, NearestSoFar, Nearest

\* Every step keeps the invariant.
THEOREM BearingInvariant == BearingSpec => []BearingIInv
<1>1. BearingIInv /\ [BearingNext]_bearing_vars => BearingIInv'
  BY StepCalculateBearing, StepFirstTarget, StepNextTarget, StepReturn, BearingRests DEF BearingNext
<1>2. QED
  BY <1>1, BearingStarts, PTL DEF BearingSpec

\* Types hold.
THEOREM BearingTyped == BearingSpec => []BearingTypeOK
<1>1. BearingIInv => BearingTypeOK
  BY DEF BearingIInv
<1>2. QED
  BY <1>1, BearingInvariant, PTL

\* The result of get_closest_target_bearing is the first of the targets nearest to
\* the bearing, going round the circle the shorter way.
THEOREM NearestGroup == BearingSpec => []Nearest
<1>1. BearingIInv => Nearest
  BY DEF BearingIInv
<1>2. QED
  BY <1>1, BearingInvariant, PTL

-----------------------------------------------------------------------------
(* MessageList: the list and the calls.                                     *)

\* A set of indices that is not empty has a least element.
LEMMA LeastIndex ==
  ASSUME NEW I, I \subseteq Nat, I # {}
  PROVE  Min(I) \in I
<1>1. \E x \in I : \A y \in I : x <= y
  <2>1. IsWellFoundedOn(OpToRel(<, Nat), Nat)
    BY NatLessThanWellFounded
  <2>2. PICK x \in I : \A y \in I : ~(<<y, x>> \in OpToRel(<, Nat))
    BY <2>1, WFMin
  <2>3. \A y \in I : ~(y < x)
    BY <2>2 DEF OpToRel
  <2>4. QED
    BY <2>3
<1>2. QED
  BY <1>1 DEF Min

\* The search of add_message_to_list finds a message with the payload, or none has it.
LEMMA FoundProperty ==
  ASSUME ListTypeOK, calls # << >>
  PROVE  /\ Found \in 0 .. count
         /\ Found # 0 => messages[Found].payload = Asked[1]
         /\ Found = 0 => \A k \in 1 .. count : messages[k].payload # Asked[1]
<1> DEFINE s == SubSeq(messages, 1, count)
           I == {i \in 1 .. Len(s) : s[i].payload = Asked[1]}
<1>1. messages \in Seq(ListMessage) /\ count \in Nat /\ count <= Len(messages)
  BY DEF ListTypeOK
<1>2. Len(s) = count /\ \A k \in 1 .. count : s[k] = messages[k]
  BY <1>1
<1>3. Found = IF I # {} THEN Min(I) ELSE 0
  BY DEF Found, SelectInSeq
<1>4. I # {} => Min(I) \in I
  BY <1>1, <1>2, LeastIndex
<1> HIDE DEF s
<1>5. \A k \in 1 .. count : k \in I <=> messages[k].payload = Asked[1]
  BY <1>2
<1>6. I \subseteq 1 .. count /\ 0 \notin I
  BY <1>1, <1>2
<1> HIDE DEF I
<1>7. CASE I = {}
  BY <1>1, <1>3, <1>5, <1>7
<1>8. CASE I # {}
  <2>1. Found \in I
    BY <1>3, <1>4, <1>8
  <2>2. Found \in 1 .. count
    BY <1>6, <2>1
  <2>3. QED
    BY <1>1, <1>5, <2>1, <2>2
<1>9. QED
  BY <1>7, <1>8

\* Two calls are a sequence of calls.
LEMMA PairOfCalls ==
  ASSUME NEW c \in Call, NEW d \in Call
  PROVE  <<c, d>> \in Seq(Call)
OBVIOUS

\* What the two passes ask for.
LEMMA CallTypes ==
  ASSUME NEW e \in ApproachEntry
  PROVE  ApproachCalls(e) \in Seq(Call) /\ ConflictCalls(e) \in Seq(Call)
<1>1. e.dir \in Dirs /\ e.host \in Seq(Points) /\ e.pet \in Pets \cup {NoPet}
  BY DEF ApproachEntry
<1>2. CASE e.host = << >>
  BY <1>2 DEF ApproachCalls, ConflictCalls
<1>3. CASE e.host # << >>
  <2>1. Head(e.host) \in Point /\ Last(e.host) \in Point
    BY <1>1, <1>3, PointsAssumption DEF Last
  <2>2. /\ Approaching(e) \in Payload /\ Entering \in Payload
        /\ Passing(e) \in Payload
    BY <1>1, <2>1 DEF Payload, Approaching, Passing, Point
  <2>3. Warning(e) \in Payload
    BY <1>1, PetsAssumption DEF Payload, Warning
  <2>4. /\ Head(e.host).group \in Nat /\ Head(e.host).group + 1000 \in Nat
        /\ Last(e.host).group \in Nat
    BY <2>1 DEF Point
  <2>5. ApproachCalls(e) \in Seq(Call)
    BY <1>3, <2>2, <2>4 DEF ApproachCalls, Call
  <2>6. ConflictCalls(e) \in Seq(Call)
    <3>1. /\ <<Warning(e), Head(e.host).group>> \in Call
          /\ <<Warning(e), Head(e.host).group + 1000>> \in Call
      BY <2>3, <2>4 DEF Call
    <3>2. \/ ConflictCalls(e) = << >>
          \/ ConflictCalls(e) = << <<Warning(e), Head(e.host).group>>,
                                   <<Warning(e), Head(e.host).group + 1000>> >>
      BY DEF ConflictCalls
    <3>3. << >> \in Seq(Call)
      OBVIOUS
    <3>4. << <<Warning(e), Head(e.host).group>>,
             <<Warning(e), Head(e.host).group + 1000>> >> \in Seq(Call)
      BY ONLY <3>1, PairOfCalls
    <3>5. CASE ConflictCalls(e) = << >>
      BY <3>3, <3>5, Zenon
    <3>6. CASE ConflictCalls(e) = << <<Warning(e), Head(e.host).group>>,
                                     <<Warning(e), Head(e.host).group + 1000>> >>
      BY <3>4, <3>6, Zenon
    <3>7. QED
      BY <3>2, <3>5, <3>6
  <2>7. QED
    BY <2>5, <2>6
<1>4. QED
  BY <1>2, <1>3

\* An entry of the list is an entry.
LEMMA ListEntries ==
  ASSUME list \in Received
  PROVE  Len(list) \in Nat /\ \A k \in 1 .. Len(list) : list[k] \in ApproachEntry
<1>1. list \in Seq(ApproachEntry)
  BY ReceivedAssumption
<1>2. QED
  BY <1>1

\* The array with one more message.
LEMMA GrownProperty ==
  ASSUME ListTypeOK, NEW m \in ListMessage
  PROVE  /\ Grown(m) \in Seq(ListMessage) /\ Len(Grown(m)) = count + 1
         /\ \A k \in 1 .. count : Grown(m)[k] = messages[k]
         /\ Grown(m)[count + 1] = m
<1>1. messages \in Seq(ListMessage) /\ count \in Nat /\ count <= Len(messages)
  BY DEF ListTypeOK
<1>2. /\ SubSeq(messages, 1, count) \in Seq(ListMessage)
      /\ Len(SubSeq(messages, 1, count)) = count
      /\ \A k \in 1 .. count : SubSeq(messages, 1, count)[k] = messages[k]
  BY <1>1
<1>3. QED
  BY <1>1, <1>2 DEF Grown

\* The call that is made, and those that are left.
LEMMA AskedType ==
  ASSUME ListTypeOK, Called
  PROVE  /\ Asked \in Call /\ Asked[1] \in Payload /\ Asked[2] \in Nat
         /\ Asked = <<Asked[1], Asked[2]>>
         /\ calls' \in Seq(Call)
<1>1. calls \in Seq(Call) /\ calls # << >> /\ calls' = Tail(calls)
  BY DEF ListTypeOK, Called
<1>2. Asked \in Call /\ calls' \in Seq(Call)
  BY <1>1 DEF Asked
<1>3. QED
  BY <1>2 DEF Call

-----------------------------------------------------------------------------
(* MessageList: the list, its memory and what is sent.                      *)

\* Before the call there is no list.
LEMMA CoreInit == ListInit => ListCore
BY DEF ListInit, ListCore, ListTypeOK, ListOwned, ListMerged, SentInOrder, SentOnce

\* The steps that leave the list alone and send nothing.
LEMMA OtherSteps ==
  ASSUME ListCore, NewList \/ ApproachPass \/ ConflictPass \/ AddKnown \/ UNCHANGED list_vars
  PROVE  ListCore'
<1> USE DEF ListCore
<1>1. CASE NewList
  BY <1>1 DEF NewList, ListTypeOK, ListOwned, ListMerged, SentInOrder, SentOnce
<1>2. CASE ApproachPass
  <2>1. calls' \in Seq(Call)
    <3>1. CASE list_i <= Len(list)
      <4>1. list[list_i] \in ApproachEntry
        BY <3>1, ListEntries DEF ListTypeOK
      <4>2. calls' = ApproachCalls(list[list_i])
        BY <1>2, <3>1 DEF ApproachPass
      <4>3. QED
        BY <4>1, <4>2, CallTypes
    <3>2. CASE ~(list_i <= Len(list))
      BY <1>2, <3>2 DEF ApproachPass, ListTypeOK
    <3>3. QED
      BY <3>1, <3>2
  <2>2. ListTypeOK'
    <3>1. /\ list_pc' \in {"approach", "conflict"} /\ list_i' \in Nat \ {0}
          /\ UNCHANGED <<list, j, messages, count, list_live, sent>>
      BY <1>2 DEF ApproachPass, ListTypeOK
    <3>2. QED
      BY <2>1, <3>1 DEF ListTypeOK
  <2>3. ListOwned' /\ ListMerged' /\ SentInOrder' /\ SentOnce'
    BY <1>2 DEF ApproachPass, ListTypeOK, ListOwned, ListMerged, SentInOrder, SentOnce
  <2>4. QED
    BY <2>2, <2>3
<1>3. CASE ConflictPass
  <2>1. calls' \in Seq(Call)
    <3>1. CASE list_i <= Len(list)
      <4>1. list[list_i] \in ApproachEntry
        BY <3>1, ListEntries DEF ListTypeOK
      <4>2. calls' = ConflictCalls(list[list_i])
        BY <1>3, <3>1 DEF ConflictPass
      <4>3. QED
        BY <4>1, <4>2, CallTypes
    <3>2. CASE ~(list_i <= Len(list))
      BY <1>3, <3>2 DEF ConflictPass, ListTypeOK
    <3>3. QED
      BY <3>1, <3>2
  <2>2. ListTypeOK'
    <3>1. list_i' \in Nat \ {0} /\ list_pc' \in {"conflict", "send"}
      BY <1>3 DEF ConflictPass, ListTypeOK
    <3>2. QED
      BY <1>3, <2>1, <3>1 DEF ConflictPass, ListTypeOK
  <2>3. ListOwned' /\ ListMerged' /\ SentInOrder' /\ SentOnce'
    BY <1>3 DEF ConflictPass, ListTypeOK, ListOwned, ListMerged, SentInOrder, SentOnce
  <2>4. QED
    BY <2>2, <2>3
<1>4. CASE AddKnown
  <2>1. calls' \in Seq(Call)
    BY <1>4, AskedType DEF AddKnown
  <2>2. QED
    BY <1>4, <2>1
       DEF AddKnown, Called, ListTypeOK, ListOwned, ListMerged, SentInOrder, SentOnce
<1>5. CASE UNCHANGED list_vars
  BY <1>5 DEF list_vars, ListTypeOK, ListOwned, ListMerged, SentInOrder, SentBefore, SentOnce
<1>6. QED
  BY <1>1, <1>2, <1>3, <1>4, <1>5

\* A message gets one group more, or the ids have no memory.
LEMMA AddGroupStep ==
  ASSUME ListCore, AddGroup
  PROVE  ListCore'
<1>1. ListTypeOK /\ ListOwned /\ ListMerged /\ SentInOrder /\ SentOnce
  BY DEF ListCore
<1>2. /\ calls # << >> /\ Called /\ Found # 0
      /\ Asked[2] \notin ToSet(messages[Found].groups)
      /\ count' = count /\ list_live' = list_live
      /\ list' = list /\ list_pc' = list_pc /\ list_i' = list_i /\ j' = j /\ sent' = sent
  BY DEF AddGroup, Called
<1>3. calls' \in Seq(Call) /\ Asked[2] \in Nat
  BY <1>1, <1>2, AskedType
<1>4. Found \in 1 .. count
  BY <1>1, <1>2, FoundProperty DEF ListTypeOK
<1>5. list_pc \in {"approach", "conflict"} /\ sent = << >>
  BY <1>1, <1>2 DEF ListOwned, SentInOrder
<1>6. CASE messages' = messages
  BY <1>1, <1>2, <1>3, <1>5, <1>6
     DEF ListCore, ListTypeOK, ListOwned, ListMerged, SentInOrder, SentOnce
<1>7. CASE messages' = [messages EXCEPT ![Found].groups = Append(@, Asked[2])]
  <2> DEFINE f == Found
             g == Asked[2]
  <2>1. messages \in Seq(ListMessage) /\ f \in 1 .. Len(messages) /\ f \in 1 .. count
    BY <1>1, <1>4 DEF ListTypeOK
  <2>2. /\ messages[f].groups \in Seq(Nat)
        /\ \A a \in 1 .. Len(messages[f].groups) : messages[f].groups[a] # g
    <3>1. messages[f] \in ListMessage
      BY <2>1
    <3>2. QED
      BY <3>1, <1>2 DEF ListMessage, ToSet
  <2>3. /\ messages' \in Seq(ListMessage) /\ Len(messages') = Len(messages)
        /\ \A k \in 1 .. Len(messages) :
             /\ k # f => messages'[k] = messages[k]
             /\ messages'[k].payload = messages[k].payload
        /\ messages'[f].groups = Append(messages[f].groups, g)
    <3> HIDE DEF f, g
    <3>1. messages' = [messages EXCEPT ![f].groups = Append(@, g)]
      BY <1>7 DEF f, g
    <3>2. g \in Nat
      BY <1>3 DEF g
    <3>3. /\ Len(messages') = Len(messages)
          /\ messages'[f] = [messages[f] EXCEPT !.groups = Append(@, g)]
          /\ \A k \in 1 .. Len(messages) : k # f => messages'[k] = messages[k]
      <4>1. /\ DOMAIN messages' = DOMAIN messages
            /\ \A k \in DOMAIN messages : k # f => messages'[k] = messages[k]
        BY <3>1
      <4>2. DOMAIN messages = 1 .. Len(messages) /\ Len(messages) \in Nat
        BY <2>1
      <4>3. messages' \in [1 .. Len(messages) -> {messages'[k] : k \in 1 .. Len(messages)}]
        BY <3>1, <4>2
      <4>4. messages'[f] = [messages[f] EXCEPT !.groups = Append(@, g)]
        BY <2>1, <3>1, <4>2
      <4>5. Len(messages') = Len(messages)
        BY <4>2, <4>3
      <4>6. QED
        BY <4>1, <4>2, <4>4, <4>5
    <3>4. messages[f] \in ListMessage /\ Append(messages[f].groups, g) \in Seq(Nat)
      BY <2>1, <2>2, <3>2
    <3>5. /\ messages'[f] \in ListMessage
          /\ messages'[f].payload = messages[f].payload
          /\ messages'[f].groups = Append(messages[f].groups, g)
      BY <3>3, <3>4 DEF ListMessage
    <3>6. messages' \in Seq(ListMessage)
      BY <2>1, <3>1, <3>3, <3>5
    <3>7. QED
      BY <3>3, <3>5, <3>6
  <2> HIDE DEF f, g
  <2>4. ListTypeOK'
    BY <1>1, <1>2, <1>3, <2>3 DEF ListTypeOK
  <2>5. ListMerged'
    <3>1. \A k, l \in 1 .. count : messages'[k].payload = messages'[l].payload => k = l
      BY <1>1, <2>1, <2>3 DEF ListMerged, ListTypeOK
    <3>2. ASSUME NEW k \in 1 .. count
          PROVE  /\ messages'[k].groups # << >>
                 /\ \A a, b \in 1 .. Len(messages'[k].groups) :
                      messages'[k].groups[a] = messages'[k].groups[b] => a = b
      <4>1. CASE k = f
        <5> DEFINE gs == messages[f].groups
        <5>1. /\ gs \in Seq(Nat) /\ g \in Nat /\ messages'[k].groups = Append(gs, g)
              /\ \A a \in 1 .. Len(gs) : gs[a] # g
              /\ \A a, b \in 1 .. Len(gs) : gs[a] = gs[b] => a = b
          BY <4>1, <1>1, <1>3, <2>1, <2>2, <2>3 DEF ListMerged, g
        <5> HIDE DEF gs
        <5>2. /\ Len(Append(gs, g)) = Len(gs) + 1
              /\ \A a \in 1 .. Len(gs) : Append(gs, g)[a] = gs[a]
              /\ Append(gs, g)[Len(gs) + 1] = g
              /\ \A a \in 1 .. Len(gs) + 1 : a \in 1 .. Len(gs) \/ a = Len(gs) + 1
          BY <5>1
        <5>3. Append(gs, g) # << >>
          BY <5>1, <5>2
        <5>4. QED
          BY <5>1, <5>2, <5>3
      <4>2. CASE k # f
        <5>1. messages'[k] = messages[k]
          BY <4>2, <1>1, <2>3 DEF ListTypeOK
        <5>2. QED
          BY <5>1, <1>1 DEF ListMerged
      <4>3. QED
        BY <4>1, <4>2
    <3>3. QED
      BY <1>2, <3>1, <3>2 DEF ListMerged
  <2>6. ListOwned'
    <3>1. \A k \in 1 .. count : messages'[k].payload = messages[k].payload
      BY <1>1, <2>3 DEF ListTypeOK
    <3>2. QED
      BY <1>1, <1>2, <1>5, <3>1 DEF ListOwned
  <2>7. SentInOrder' /\ SentOnce'
    BY <1>1, <1>2, <1>5 DEF SentInOrder, SentOnce
  <2>8. QED
    BY <2>4, <2>5, <2>6, <2>7 DEF ListCore
<1>8. QED
  BY <1>6, <1>7 DEF AddGroup

\* A message more, counted once it has its payload and its ids.
LEMMA AddMessageStep ==
  ASSUME ListCore, AddMessage
  PROVE  ListCore'
<1>1. ListTypeOK /\ ListOwned /\ ListMerged /\ SentInOrder /\ SentOnce
  BY DEF ListCore
<1> DEFINE m == [payload |-> Asked[1], groups |-> <<Asked[2]>>]
<1>2. /\ calls # << >> /\ Called /\ Found = 0
      /\ messages' = Grown(m) /\ count' = count + 1
      /\ list_live' = list_live \cup {Array, PayloadOf(count + 1), IdsOf(count + 1)}
      /\ list' = list /\ list_pc' = list_pc /\ list_i' = list_i /\ j' = j /\ sent' = sent
  BY DEF AddMessage, Called
<1>3. /\ calls' \in Seq(Call) /\ Asked[2] \in Nat /\ m \in ListMessage
      /\ count \in Nat
  BY <1>1, <1>2, AskedType DEF ListMessage, ListTypeOK
<1>4. list_pc \in {"approach", "conflict"} /\ sent = << >>
  BY <1>1, <1>2 DEF ListOwned, SentInOrder
<1>5. /\ messages' \in Seq(ListMessage) /\ Len(messages') = count + 1
      /\ \A k \in 1 .. count : messages'[k] = messages[k]
      /\ messages'[count + 1].payload = Asked[1]
      /\ messages'[count + 1].groups = <<Asked[2]>>
  BY <1>1, <1>2, <1>3, GrownProperty
<1>6. \A k \in 1 .. count : messages[k].payload # Asked[1]
  BY <1>1, <1>2, FoundProperty
<1> HIDE DEF m
<1>7. ListTypeOK'
  <2>1. list_live' \subseteq {ListBlock, Array}
                     \cup UNION {{PayloadOf(k), IdsOf(k)} : k \in 1 .. count + 1}
    <3>1. ASSUME NEW b \in list_live
          PROVE  b \in {ListBlock, Array}
                         \cup UNION {{PayloadOf(k), IdsOf(k)} : k \in 1 .. count + 1}
      <4>1. CASE b \in {ListBlock, Array}
        BY <4>1
      <4>2. CASE \E k \in 1 .. count : b \in {PayloadOf(k), IdsOf(k)}
        <5>1. PICK k \in 1 .. count : b \in {PayloadOf(k), IdsOf(k)}
          BY <4>2
        <5>2. k \in 1 .. count + 1
          BY <1>3
        <5>3. QED
          BY <5>1, <5>2
      <4>3. QED
        BY <1>1, <4>1, <4>2 DEF ListTypeOK
    <3>2. count + 1 \in 1 .. count + 1
      BY <1>3
    <3>3. QED
      BY <1>2, <3>1, <3>2
  <2>2. QED
    BY <1>1, <1>2, <1>3, <1>5, <2>1 DEF ListTypeOK
<1>8. ListOwned'
  <2>1. Asked[1] \in Payload
    BY <1>1, <1>2, AskedType
  <2>2. \A k \in 1 .. count + 1 : k = count + 1 \/ k \in 1 .. count
    BY <1>3
  <2>3. QED
    BY <1>1, <1>2, <1>3, <1>4, <1>5, <2>1, <2>2 DEF ListOwned
<1>9. ListMerged'
  <2>1. \A k \in 1 .. count + 1 : k = count + 1 \/ k \in 1 .. count
    BY <1>3
  <2>2. \A k, l \in 1 .. count + 1 : messages'[k].payload = messages'[l].payload => k = l
    BY <1>1, <1>3, <1>5, <1>6, <2>1 DEF ListMerged
  <2>3. \A k \in 1 .. count + 1 :
          /\ messages'[k].groups # << >>
          /\ \A a, b \in 1 .. Len(messages'[k].groups) :
               messages'[k].groups[a] = messages'[k].groups[b] => a = b
    <3>1. ASSUME NEW k \in 1 .. count
          PROVE  messages'[k] = messages[k]
      BY <1>5
    <3>2. Len(<<Asked[2]>>) = 1 /\ <<Asked[2]>> # << >>
      OBVIOUS
    <3>3. ASSUME NEW k \in 1 .. count + 1
          PROVE  /\ messages'[k].groups # << >>
                 /\ \A a, b \in 1 .. Len(messages'[k].groups) :
                      messages'[k].groups[a] = messages'[k].groups[b] => a = b
      <4>1. CASE k \in 1 .. count
        BY <1>1, <3>1, <4>1 DEF ListMerged
      <4>2. CASE k = count + 1
        <5>1. messages'[k].groups = <<Asked[2]>>
          BY <1>5, <4>2
        <5>2. \A a, b \in 1 .. 1 : a = b
          OBVIOUS
        <5>3. QED
          BY <3>2, <5>1, <5>2
      <4>3. QED
        BY <2>1, <4>1, <4>2
    <3>4. QED
      BY <3>3
  <2>4. QED
    BY <1>2, <2>2, <2>3 DEF ListMerged
<1>10. SentInOrder' /\ SentOnce'
  BY <1>1, <1>2, <1>4 DEF SentInOrder, SentOnce
<1>11. QED
  BY <1>7, <1>8, <1>9, <1>10 DEF ListCore

\* An element that is not counted is in the array, or nothing has changed.
LEMMA AddMessageFailsStep ==
  ASSUME ListCore, AddMessageFails
  PROVE  ListCore'
<1>1. ListTypeOK /\ ListOwned /\ ListMerged /\ SentInOrder /\ SentOnce
  BY DEF ListCore
<1>2. /\ calls # << >> /\ Called /\ count' = count
      /\ list' = list /\ list_pc' = list_pc /\ list_i' = list_i /\ j' = j /\ sent' = sent
      /\ \/ messages' = messages /\ list_live' = list_live
         \/ messages' = Grown(Garbage) /\ list_live' = list_live \cup {Array}
  BY DEF AddMessageFails, Called
<1>3. calls' \in Seq(Call) /\ count \in Nat
  BY <1>1, <1>2, AskedType DEF ListTypeOK
<1>4. list_pc \in {"approach", "conflict"} /\ sent = << >>
  BY <1>1, <1>2 DEF ListOwned, SentInOrder
<1>5. /\ messages' \in Seq(ListMessage) /\ Len(messages') \in {count, count + 1}
      /\ \A k \in 1 .. count : messages'[k] = messages[k]
  <2>1. Garbage \in ListMessage
    BY DEF ListMessage, Garbage
  <2>2. QED
    BY <1>1, <1>2, <2>1, GrownProperty DEF ListTypeOK
<1>6. ListTypeOK'
  BY <1>1, <1>2, <1>3, <1>5 DEF ListTypeOK
<1>7. ListOwned'
  BY <1>1, <1>2, <1>4, <1>5 DEF ListOwned
<1>8. ListMerged'
  BY <1>1, <1>2, <1>5 DEF ListMerged
<1>9. SentInOrder' /\ SentOnce'
  BY <1>1, <1>2, <1>4 DEF SentInOrder, SentOnce
<1>10. QED
  BY <1>6, <1>7, <1>8, <1>9 DEF ListCore

\* What main sends is not among what it has sent: it stands where main is, and what
\* it has sent stands before.
LEMMA SendStep ==
  ASSUME ListCore, Send
  PROVE  ListCore'
<1>1. ListTypeOK /\ ListOwned /\ ListMerged /\ SentInOrder /\ SentOnce
  BY DEF ListCore
<1> DEFINE s == <<messages[list_i].payload, messages[list_i].groups[j]>>
<1>2. /\ list_pc = "send" /\ list_i <= count /\ j <= Len(messages[list_i].groups)
      /\ j' = j + 1 /\ list' = list /\ list_pc' = list_pc /\ list_i' = list_i
      /\ calls' = calls /\ messages' = messages /\ count' = count /\ list_live' = list_live
      /\ sent' = Append(sent, s) \/ sent' = sent
  BY DEF Send
<1>3. /\ list_i \in 1 .. count /\ j \in Nat \ {0} /\ count \in Nat
      /\ messages[list_i] \in ListMessage /\ sent \in Seq(Call)
  BY <1>1, <1>2 DEF ListTypeOK
<1>4. j \in 1 .. Len(messages[list_i].groups)
  BY <1>2, <1>3 DEF ListMessage
<1>5. \A x \in 1 .. Len(sent) : SentBefore(sent[x])
  BY <1>1, <1>2, <1>3 DEF SentInOrder
<1>6. \A x \in 1 .. Len(sent) : sent[x] # s
  <2>1. SUFFICES ASSUME NEW x \in 1 .. Len(sent), sent[x] = s
                 PROVE  FALSE
    OBVIOUS
  <2>2. PICK k \in 1 .. count : \E a \in 1 .. Len(messages[k].groups) :
          /\ sent[x] = <<messages[k].payload, messages[k].groups[a]>>
          /\ k < list_i \/ (k = list_i /\ a < j)
    BY <1>5 DEF SentBefore
  <2>3. PICK a \in 1 .. Len(messages[k].groups) :
          /\ sent[x] = <<messages[k].payload, messages[k].groups[a]>>
          /\ k < list_i \/ (k = list_i /\ a < j)
    BY <2>2
  <2>4. /\ messages[k].payload = messages[list_i].payload
        /\ messages[k].groups[a] = messages[list_i].groups[j]
    BY <2>1, <2>3
  <2>5. k = list_i
    BY <1>1, <1>3, <2>4 DEF ListMerged
  <2>6. a = j
    BY <1>1, <1>3, <1>4, <2>4, <2>5 DEF ListMerged
  <2>7. QED
    BY <1>3, <2>3, <2>5, <2>6
<1>7. ListOwned' /\ ListMerged'
  BY <1>1, <1>2 DEF ListOwned, ListMerged
<1>8. \A k \in 1 .. count, a \in Nat : k < list_i \/ (k = list_i /\ a < j)
                                        => k < list_i \/ (k = list_i /\ a < j')
  BY <1>2, <1>3
<1>9. \A t : SentBefore(t) => SentBefore(t)'
  BY <1>2, <1>3, <1>8 DEF SentBefore
<1>10. CASE sent' = sent
  BY <1>1, <1>2, <1>3, <1>5, <1>7, <1>9, <1>10
     DEF ListCore, ListTypeOK, SentInOrder, SentOnce
<1>11. CASE sent' = Append(sent, s)
  <2>1. s \in Call
    <3>1. messages[list_i].payload \in Payload
      BY <1>1, <1>2, <1>3 DEF ListOwned
    <3>2. messages[list_i].groups[j] \in Nat
      BY <1>3, <1>4 DEF ListMessage
    <3>3. QED
      BY <3>1, <3>2 DEF Call
  <2> HIDE DEF s
  <2>2. /\ sent' \in Seq(Call) /\ Len(sent') = Len(sent) + 1
        /\ \A x \in 1 .. Len(sent) : sent'[x] = sent[x]
        /\ sent'[Len(sent) + 1] = s
        /\ \A x \in 1 .. Len(sent) + 1 : x \in 1 .. Len(sent) \/ x = Len(sent) + 1
    BY <1>3, <1>11, <2>1
  <2>3. ListTypeOK'
    <3>1. sent' \in Seq(Call) /\ j' \in Nat \ {0}
      BY <1>2, <1>3, <2>2
    <3>2. UNCHANGED <<list, list_pc, list_i, calls, messages, count, list_live>>
      BY <1>2
    <3>3. QED
      BY <1>1, <3>1, <3>2, Zenon DEF ListTypeOK
  <2>4. ASSUME NEW x \in 1 .. Len(sent) + 1
        PROVE  \E k \in 1 .. count : \E a \in 1 .. Len(messages[k].groups) :
                 /\ sent'[x] = <<messages[k].payload, messages[k].groups[a]>>
                 /\ k < list_i \/ (k = list_i /\ a < j')
    <3>1. CASE x = Len(sent) + 1
      <4>1. sent'[x] = <<messages[list_i].payload, messages[list_i].groups[j]>>
        BY <2>2, <3>1 DEF s
      <4>2. j < j'
        BY <1>2, <1>3
      <4>3. QED
        BY <1>3, <1>4, <4>1, <4>2
    <3>2. CASE x \in 1 .. Len(sent)
      <4>a. PICK k \in 1 .. count : \E b \in 1 .. Len(messages[k].groups) :
              /\ sent[x] = <<messages[k].payload, messages[k].groups[b]>>
              /\ k < list_i \/ (k = list_i /\ b < j)
        BY <1>5, <3>2 DEF SentBefore
      <4>1. PICK a \in 1 .. Len(messages[k].groups) :
              /\ sent[x] = <<messages[k].payload, messages[k].groups[a]>>
              /\ k < list_i \/ (k = list_i /\ a < j)
        BY <4>a
      <4>2. k < list_i \/ (k = list_i /\ a < j')
        BY <1>2, <1>3, <4>1
      <4>3. sent'[x] = sent[x]
        BY <2>2, <3>2
      <4>4. QED
        BY <4>1, <4>2, <4>3
    <3>3. QED
      BY <2>2, <3>1, <3>2
  <2>5. SentInOrder'
    <3>1. DOMAIN sent' = 1 .. Len(sent) + 1
      BY <2>2
    <3>2. QED
      BY <1>2, <2>4, <3>1 DEF SentInOrder, SentBefore
  <2>6. SentOnce'
    BY <1>1, <1>3, <1>6, <2>2 DEF SentOnce
  <2>7. QED
    BY <1>7, <2>3, <2>5, <2>6 DEF ListCore
<1>12. QED
  BY <1>2, <1>10, <1>11

\* From one message to the next; what was sent stays before where main is.
LEMMA SendNextStep ==
  ASSUME ListCore, SendNext
  PROVE  ListCore'
<1>1. ListTypeOK /\ ListOwned /\ ListMerged /\ SentInOrder /\ SentOnce
  BY DEF ListCore
<1>2. /\ list_pc = "send" /\ list_i <= count /\ j > Len(messages[list_i].groups)
      /\ list_i' = list_i + 1 /\ j' = 1
      /\ list' = list /\ list_pc' = list_pc /\ calls' = calls /\ messages' = messages
      /\ count' = count /\ list_live' = list_live /\ failed' = failed /\ sent' = sent
  BY DEF SendNext
<1>3. ListTypeOK' /\ ListOwned' /\ ListMerged' /\ SentOnce'
  BY <1>1, <1>2 DEF ListTypeOK, ListOwned, ListMerged, SentOnce
<1>4. ASSUME NEW x \in DOMAIN sent
      PROVE  \E k \in 1 .. count : \E a \in 1 .. Len(messages[k].groups) :
               /\ sent[x] = <<messages[k].payload, messages[k].groups[a]>>
               /\ k < list_i'
  <2>a. PICK k \in 1 .. count : \E b \in 1 .. Len(messages[k].groups) :
          /\ sent[x] = <<messages[k].payload, messages[k].groups[b]>>
          /\ k < list_i \/ (k = list_i /\ b < j)
    BY <1>1, <1>2 DEF SentInOrder, SentBefore
  <2>1. PICK a \in 1 .. Len(messages[k].groups) :
          /\ sent[x] = <<messages[k].payload, messages[k].groups[a]>>
          /\ k < list_i \/ (k = list_i /\ a < j)
    BY <2>a
  <2>2. k < list_i'
    BY <1>1, <1>2, <2>1 DEF ListTypeOK
  <2>3. QED
    BY <2>1, <2>2
<1>5. SentInOrder'
  BY <1>2, <1>4 DEF SentInOrder, SentBefore
<1>6. QED
  BY <1>3, <1>5 DEF ListCore

\* free_vms_message_list leaves nothing.
LEMMA FreeListStep ==
  ASSUME ListCore, FreeList
  PROVE  ListCore'
<1>1. ListTypeOK /\ ListOwned /\ ListMerged /\ SentInOrder /\ SentOnce
  BY DEF ListCore
<1>2. list_live' = {}
  BY <1>1 DEF FreeList, ListTypeOK
<1>3. ListTypeOK'
  BY <1>1, <1>2 DEF FreeList, ListTypeOK
<1>4. ListOwned' /\ ListMerged' /\ SentInOrder' /\ SentOnce'
  BY <1>1, <1>2 DEF FreeList, ListOwned, ListMerged, SentInOrder, SentOnce
<1>5. QED
  BY <1>3, <1>4 DEF ListCore

\* The first part of the invariant, whatever the step.
LEMMA CoreStep == ListCore /\ [ListNext]_list_vars => ListCore'
BY OtherSteps, AddGroupStep, AddMessageStep, AddMessageFailsStep, SendStep,
   SendNextStep, FreeListStep DEF ListNext

-----------------------------------------------------------------------------
(* The order of the list.                                                   *)

\* The first pass asks for no warning, the second for nothing else.
LEMMA CallWarnings ==
  ASSUME NEW e \in ApproachEntry
  PROVE  /\ \A k \in 1 .. Len(ApproachCalls(e)) : ~IsWarning(ApproachCalls(e)[k][1])
         /\ \A k \in 1 .. Len(ConflictCalls(e)) : IsWarning(ConflictCalls(e)[k][1])
<1>1. /\ Approaching(e)[1] # "conflict" /\ Entering[1] # "conflict"
      /\ Passing(e)[1] # "conflict" /\ Warning(e)[1] = "conflict"
  BY DEF Approaching, Entering, Passing, Warning
<1>2. \A k \in 1 .. Len(ApproachCalls(e)) : ApproachCalls(e)[k][1] \in {Approaching(e), Entering, Passing(e)}
  BY DEF ApproachCalls
<1>3. \A k \in 1 .. Len(ConflictCalls(e)) : ConflictCalls(e)[k][1] = Warning(e)
  BY DEF ConflictCalls
<1>4. QED
  BY <1>1, <1>2, <1>3 DEF IsWarning

\* Steps of the two passes.
LEMMA OrderPasses ==
  ASSUME ListCore, ListOrdered, ApproachPass \/ ConflictPass
  PROVE  ListOrdered'
<1>1. /\ calls = << >> /\ count' = count /\ messages' = messages /\ list' = list
      /\ list \in Received /\ list_i \in Nat \ {0} /\ count \in Nat
  BY DEF ApproachPass, ConflictPass, ListCore, ListTypeOK
<1>2. list_i <= Len(list) => list[list_i] \in ApproachEntry
  BY <1>1, ListEntries
<1>3. CASE ApproachPass
  <2>1. CASE list_i <= Len(list)
    <3>1. calls' = ApproachCalls(list[list_i]) /\ list_pc = "approach" /\ list_pc' = "approach"
      BY <1>3, <2>1 DEF ApproachPass
    <3>2. \A k \in 1 .. Len(calls') : ~IsWarning(calls'[k][1])
      BY <1>2, <2>1, <3>1, CallWarnings
    <3>3. QED
      BY <1>1, <3>1, <3>2 DEF ListOrdered, IsWarning
  <2>2. CASE ~(list_i <= Len(list))
    <3>1. calls' = << >> /\ list_pc' = "conflict"
      BY <1>1, <1>3, <2>2 DEF ApproachPass
    <3>2. QED
      BY <1>1, <3>1 DEF ListOrdered, IsWarning
  <2>3. QED
    BY <2>1, <2>2
<1>4. CASE ConflictPass
  <2>1. CASE list_i <= Len(list)
    <3>1. calls' = ConflictCalls(list[list_i]) /\ list_pc' = "conflict"
      BY <1>4, <2>1 DEF ConflictPass
    <3>2. \A k \in 1 .. Len(calls') : IsWarning(calls'[k][1])
      BY <1>2, <2>1, <3>1, CallWarnings
    <3>3. QED
      BY <1>1, <3>1, <3>2 DEF ListOrdered, IsWarning
  <2>2. CASE ~(list_i <= Len(list))
    <3>1. list_pc' = "send"
      BY <1>4, <2>2 DEF ConflictPass
    <3>2. QED
      BY <1>1, <3>1 DEF ListOrdered, IsWarning
  <2>3. QED
    BY <2>1, <2>2
<1>5. QED
  BY <1>3, <1>4

\* A call that is made is of the pass; the list keeps its payloads, and may have one more
\* at its end, which is asked for.
LEMMA OrderCalls ==
  ASSUME ListCore, ListOrdered, AddKnown \/ AddGroup \/ AddMessage \/ AddMessageFails
  PROVE  ListOrdered'
<1>1. ListTypeOK /\ ListOwned
  BY DEF ListCore
<1>2. /\ calls \in Seq(Call) /\ calls # << >> /\ calls' = Tail(calls) /\ list_pc' = list_pc
      /\ Called /\ count \in Nat /\ count <= Len(messages) /\ messages \in Seq(ListMessage)
  BY <1>1 DEF AddKnown, AddGroup, AddMessage, AddMessageFails, Called, ListTypeOK
<1>3. list_pc \in {"approach", "conflict"}
  BY <1>1, <1>2 DEF ListOwned
<1>4. /\ \A k \in 1 .. Len(calls') : calls'[k] = calls[k + 1] /\ k + 1 \in 1 .. Len(calls)
      /\ Asked = calls[1] /\ 1 \in 1 .. Len(calls)
  BY <1>2 DEF Asked
<1>5. /\ list_pc = "approach" => /\ ~IsWarning(Asked[1])
                                 /\ \A k \in 1 .. Len(calls') : ~IsWarning(calls'[k][1])
      /\ list_pc = "conflict" => /\ IsWarning(Asked[1])
                                 /\ \A k \in 1 .. Len(calls') : IsWarning(calls'[k][1])
  BY <1>4 DEF ListOrdered
<1>6. /\ \A k \in 1 .. count : messages'[k].payload = messages[k].payload
      /\ \/ count' = count
         \/ count' = count + 1 /\ messages'[count + 1].payload = Asked[1]
  <2>1. CASE AddKnown
    BY <2>1 DEF AddKnown
  <2>2. CASE AddGroup
    <3>1. CASE messages' = messages
      BY <2>2, <3>1 DEF AddGroup
    <3>2. CASE messages' = [messages EXCEPT ![Found].groups = Append(@, Asked[2])]
      <4>1. \A k \in 1 .. Len(messages) : messages'[k].payload = messages[k].payload
        <5> DEFINE f == Found
                   g == Asked[2]
        <5>1. messages' = [messages EXCEPT ![f].groups = Append(@, g)]
          BY <3>2
        <5> HIDE DEF f, g
        <5>2. ASSUME NEW k \in 1 .. Len(messages)
              PROVE  messages'[k].payload = messages[k].payload
          <6>1. messages[k] \in ListMessage /\ k \in DOMAIN messages
            BY <1>2
          <6>2. CASE k # f
            BY <5>1, <6>1, <6>2
          <6>3. CASE k = f
            <7>1. messages'[k] = [messages[k] EXCEPT !.groups = Append(messages[k].groups, g)]
              BY <5>1, <6>1, <6>3
            <7>2. QED
              BY <6>1, <7>1 DEF ListMessage
          <6>4. QED
            BY <6>2, <6>3
        <5>3. QED
          BY <5>2
      <4>2. QED
        BY <1>2, <2>2, <4>1 DEF AddGroup
    <3>3. QED
      BY <2>2, <3>1, <3>2 DEF AddGroup
  <2>3. CASE AddMessage
    <3> DEFINE m == [payload |-> Asked[1], groups |-> <<Asked[2]>>]
    <3>1. m \in ListMessage
      BY <1>1, <1>2, AskedType DEF ListMessage
    <3>2. messages' = Grown(m) /\ count' = count + 1
      BY <2>3 DEF AddMessage
    <3>3. \A k \in 1 .. count : messages'[k] = messages[k]
      BY <1>1, <3>1, <3>2, GrownProperty
    <3>4. messages'[count + 1] = m
      BY <1>1, <3>1, <3>2, GrownProperty
    <3>5. QED
      BY <3>2, <3>3, <3>4
  <2>4. CASE AddMessageFails
    <3>1. Garbage \in ListMessage
      BY DEF ListMessage, Garbage
    <3>2. \A k \in 1 .. count : messages'[k] = messages[k]
      BY <1>1, <2>4, <3>1, GrownProperty DEF AddMessageFails
    <3>3. QED
      BY <2>4, <3>2 DEF AddMessageFails
  <2>5. QED
    BY <2>1, <2>2, <2>3, <2>4
<1>7. \A k \in 1 .. count' : k \in 1 .. count \/ (k = count + 1 /\ count' = count + 1)
  BY <1>2, <1>6
<1>8. \A k, l \in 1 .. count' :
        k < l /\ IsWarning(messages'[k].payload) => IsWarning(messages'[l].payload)
  <2>1. SUFFICES ASSUME NEW k \in 1 .. count', NEW l \in 1 .. count', k < l,
                        IsWarning(messages'[k].payload)
                 PROVE  IsWarning(messages'[l].payload)
    OBVIOUS
  <2>2. k \in 1 .. count
    BY <1>2, <1>6, <2>1
  <2>3. IsWarning(messages[k].payload)
    BY <1>6, <2>1, <2>2
  <2>4. CASE l \in 1 .. count
    BY <1>6, <2>1, <2>2, <2>3, <2>4 DEF ListOrdered
  <2>5. CASE l = count + 1 /\ count' = count + 1
    BY <1>2, <1>3, <1>5, <1>6, <2>2, <2>3, <2>5 DEF ListOrdered
  <2>6. QED
    BY <1>7, <2>4, <2>5
<1>9. list_pc = "approach" => \A k \in 1 .. count' : ~IsWarning(messages'[k].payload)
  BY <1>5, <1>6, <1>7 DEF ListOrdered
<1>10. QED
  BY <1>2, <1>3, <1>5, <1>8, <1>9 DEF ListOrdered, IsWarning

\* The list is ordered, and so is what is sent of it.
LEMMA OrderStep ==
  ASSUME ListCore, ListOrdered, WarningsLast, [ListNext]_list_vars
  PROVE  ListOrdered' /\ WarningsLast'
<1>1. ListTypeOK /\ SentInOrder
  BY DEF ListCore
<1>2. CASE UNCHANGED list_vars
  BY <1>2 DEF list_vars, ListOrdered, WarningsLast, IsWarning
<1>3. CASE NewList
  BY <1>3 DEF NewList, ListOrdered, WarningsLast, IsWarning
<1>4. CASE ApproachPass \/ ConflictPass
  BY <1>4, OrderPasses DEF ApproachPass, ConflictPass, WarningsLast
<1>5. CASE AddKnown \/ AddGroup \/ AddMessage \/ AddMessageFails
  BY <1>5, OrderCalls DEF AddKnown, AddGroup, AddMessage, AddMessageFails, Called, WarningsLast
<1>6. CASE SendNext
  BY <1>6 DEF SendNext, ListOrdered, WarningsLast, IsWarning
<1>7. CASE FreeList
  BY <1>7 DEF FreeList, ListOrdered, WarningsLast, IsWarning
<1>8. CASE Send
  <2>1. ListOrdered'
    BY <1>8 DEF Send, ListOrdered, IsWarning
  <2>2. CASE sent' = sent
    BY <2>1, <2>2 DEF WarningsLast
  <2> DEFINE s == <<messages[list_i].payload, messages[list_i].groups[j]>>
  <2>3. CASE sent' = Append(sent, s)
    <3>1. /\ list_i \in 1 .. count /\ sent \in Seq(Call)
          /\ s[1] = messages[list_i].payload
      BY <1>1, <1>8 DEF Send, ListTypeOK
    <3>2. ASSUME NEW x \in 1 .. Len(sent), IsWarning(sent[x][1])
          PROVE  IsWarning(s[1])
      <4>1. SentBefore(sent[x])
        BY <1>1, <1>8, <3>1 DEF Send, SentInOrder
      <4>2. PICK k \in 1 .. count : /\ sent[x][1] = messages[k].payload
                                    /\ k < list_i \/ k = list_i
        BY <4>1 DEF SentBefore
      <4>3. QED
        BY <3>1, <3>2, <4>2 DEF ListOrdered
    <3> HIDE DEF s
    <3>3. /\ Len(sent') = Len(sent) + 1 /\ DOMAIN sent' = 1 .. Len(sent) + 1
          /\ \A x \in 1 .. Len(sent) : sent'[x] = sent[x]
          /\ sent'[Len(sent) + 1] = s
          /\ Len(sent) \in Nat /\ DOMAIN sent = 1 .. Len(sent)
      BY <2>3, <3>1
    <3>4. SUFFICES ASSUME NEW k \in 1 .. Len(sent) + 1, NEW l \in 1 .. Len(sent) + 1,
                          k < l, IsWarning(sent'[k][1])
                   PROVE  IsWarning(sent'[l][1])
      BY <2>1, <3>3 DEF WarningsLast, IsWarning
    <3>5. k \in 1 .. Len(sent) /\ IsWarning(sent[k][1])
      BY <3>3, <3>4
    <3>6. CASE l = Len(sent) + 1
      BY <3>2, <3>3, <3>5, <3>6
    <3>7. CASE l \in 1 .. Len(sent)
      BY <3>3, <3>4, <3>5, <3>7 DEF WarningsLast, IsWarning
    <3>8. QED
      BY <3>3, <3>6, <3>7
  <2>4. QED
    BY <1>8, <2>1, <2>2, <2>3 DEF Send
<1>9. QED
  BY <1>2, <1>3, <1>4, <1>5, <1>6, <1>7, <1>8 DEF ListNext

-----------------------------------------------------------------------------
(* MessageList: what is in the list.                                        *)

\* The elements of a sequence.
LEMMA ToSetOf ==
  ASSUME NEW S, NEW s \in Seq(S)
  PROVE  ToSet(s) = {s[k] : k \in 1 .. Len(s)}
BY DEF ToSet

\* Messages as pairs of a payload and a group.
LEMMA PairsOf ==
  ASSUME NEW ms \in Seq(ListMessage), NEW c \in Nat, c <= Len(ms), NEW x
  PROVE  (\E m \in ToSet(SubSeq(ms, 1, c)) : \E g \in ToSet(m.groups) : x = <<m.payload, g>>)
         <=> \E k \in 1 .. c : \E a \in 1 .. Len(ms[k].groups) :
               x = <<ms[k].payload, ms[k].groups[a]>>
<1> DEFINE s == SubSeq(ms, 1, c)
<1>1. s \in Seq(ListMessage) /\ Len(s) = c /\ \A k \in 1 .. c : s[k] = ms[k]
  OBVIOUS
<1>2. ASSUME NEW k \in 1 .. c
      PROVE  ToSet(ms[k].groups) = {ms[k].groups[a] : a \in 1 .. Len(ms[k].groups)}
  <2>1. ms[k] \in ListMessage
    OBVIOUS
  <2>2. ms[k].groups \in Seq(Nat)
    BY <2>1 DEF ListMessage
  <2>3. QED
    BY <2>2, ToSetOf
<1> HIDE DEF s
<1>3. ToSet(s) = {ms[k] : k \in 1 .. c}
  BY <1>1, ToSetOf
<1>4. (\E m \in ToSet(s) : \E g \in ToSet(m.groups) : x = <<m.payload, g>>)
      <=> \E k \in 1 .. c : \E g \in ToSet(ms[k].groups) : x = <<ms[k].payload, g>>
  BY <1>3
<1>5. QED
  BY <1>2, <1>4 DEF s

\* The list, before a step and after it.
LEMMA ListedPairs ==
  ASSUME NEW x
  PROVE  /\ ListTypeOK =>
              (x \in Listed <=> \E k \in 1 .. count : \E a \in 1 .. Len(messages[k].groups) :
                                  x = <<messages[k].payload, messages[k].groups[a]>>)
         /\ ListTypeOK' =>
              (x \in Listed' <=> \E k \in 1 .. count' : \E a \in 1 .. Len(messages'[k].groups) :
                                   x = <<messages'[k].payload, messages'[k].groups[a]>>)
<1>1. ASSUME NEW ms, NEW c, ms \in Seq(ListMessage) /\ c \in Nat /\ Len(ms) \in {c, c + 1}
      PROVE  c <= Len(ms)
  BY <1>1
<1>2. ASSUME ListTypeOK
      PROVE  x \in Listed <=> \E k \in 1 .. count : \E a \in 1 .. Len(messages[k].groups) :
                                x = <<messages[k].payload, messages[k].groups[a]>>
  <2>1. messages \in Seq(ListMessage) /\ count \in Nat /\ Len(messages) \in {count, count + 1}
    BY <1>2 DEF ListTypeOK
  <2>2. x \in Listed <=> \E m \in ToSet(SubSeq(messages, 1, count)) : \E g \in ToSet(m.groups) :
                           x = <<m.payload, g>>
    BY DEF Listed
  <2>3. count <= Len(messages)
    BY <1>1, <2>1
  <2>4. (\E m \in ToSet(SubSeq(messages, 1, count)) : \E g \in ToSet(m.groups) : x = <<m.payload, g>>)
        <=> \E k \in 1 .. count : \E a \in 1 .. Len(messages[k].groups) :
              x = <<messages[k].payload, messages[k].groups[a]>>
    BY <2>1, <2>3, PairsOf
  <2>5. QED
    BY <2>2, <2>4
<1>3. ASSUME ListTypeOK'
      PROVE  x \in Listed' <=> \E k \in 1 .. count' : \E a \in 1 .. Len(messages'[k].groups) :
                                 x = <<messages'[k].payload, messages'[k].groups[a]>>
  <2>1. messages' \in Seq(ListMessage) /\ count' \in Nat /\ Len(messages') \in {count', count' + 1}
    BY <1>3 DEF ListTypeOK
  <2>2. x \in Listed' <=> \E m \in ToSet(SubSeq(messages', 1, count')) : \E g \in ToSet(m.groups) :
                            x = <<m.payload, g>>
    BY DEF Listed
  <2>3. count' <= Len(messages')
    BY <1>1, <2>1
  <2>4. (\E m \in ToSet(SubSeq(messages', 1, count')) : \E g \in ToSet(m.groups) : x = <<m.payload, g>>)
        <=> \E k \in 1 .. count' : \E a \in 1 .. Len(messages'[k].groups) :
              x = <<messages'[k].payload, messages'[k].groups[a]>>
    BY <2>1, <2>3, PairsOf
  <2>5. QED
    BY <2>2, <2>4
<1>4. QED
  BY <1>2, <1>3

\* What a call adds to the list is the call itself, or it had no memory.
LEMMA ListedByCall ==
  ASSUME ListCore, ListCore', AddKnown \/ AddGroup \/ AddMessage \/ AddMessageFails
  PROVE  /\ Listed \subseteq Listed' /\ Listed' \subseteq Listed \cup {Asked}
         /\ failed \subseteq failed'
         /\ Asked \in Listed' \cup failed'
<1>1. ListTypeOK /\ ListTypeOK' /\ Called /\ ListMerged
  BY DEF ListCore, AddKnown, AddGroup, AddMessage, AddMessageFails
<1>2. Asked = <<Asked[1], Asked[2]>> /\ Asked[2] \in Nat
  BY <1>1, AskedType
<1>3. messages \in Seq(ListMessage) /\ count \in Nat /\ count <= Len(messages)
  BY <1>1 DEF ListTypeOK
<1>4. CASE AddKnown
  <2>1. UNCHANGED <<messages, count, failed>> /\ Listed' = Listed
    BY <1>4 DEF AddKnown, Listed
  <2>2. Found \in 1 .. count /\ messages[Found].payload = Asked[1]
    BY <1>1, <1>3, <1>4, FoundProperty DEF AddKnown, Called
  <2>3. messages[Found] \in ListMessage
    BY <1>3, <2>2
  <2>4. PICK a \in 1 .. Len(messages[Found].groups) : messages[Found].groups[a] = Asked[2]
    <3>1. messages[Found].groups \in Seq(Nat)
      BY <2>3 DEF ListMessage
    <3>2. Asked[2] \in {messages[Found].groups[a] : a \in 1 .. Len(messages[Found].groups)}
      BY <1>4, <3>1, ToSetOf DEF AddKnown
    <3>3. QED
      BY <3>2
  <2>5. Asked \in Listed
    BY <1>1, <1>2, <2>2, <2>4, ListedPairs
  <2>6. QED
    BY <2>1, <2>5
<1>5. CASE AddGroup
  <2>1. count' = count /\ Found \in 1 .. count /\ messages[Found].payload = Asked[1]
    BY <1>1, <1>3, <1>5, FoundProperty DEF AddGroup, Called
  <2>2. CASE messages' = messages /\ failed' = failed \cup {Asked}
    BY <2>1, <2>2 DEF Listed
  <2>3. CASE /\ messages' = [messages EXCEPT ![Found].groups = Append(@, Asked[2])]
             /\ failed' = failed
    <3> DEFINE f == Found
    <3>1. messages[f] \in ListMessage /\ messages[f].groups \in Seq(Nat)
      <4>1. f \in 1 .. Len(messages)
        BY <1>3, <2>1
      <4> HIDE DEF f
      <4>2. messages[f] \in ListMessage
        BY <1>3, <4>1
      <4>3. QED
        BY <4>2 DEF ListMessage
    <3>2. /\ \A k \in 1 .. count : k # f => messages'[k] = messages[k]
          /\ messages'[f].payload = messages[f].payload
          /\ messages'[f].groups = Append(messages[f].groups, Asked[2])
      BY <1>3, <2>1, <2>3, <3>1 DEF ListMessage
    <3>3. /\ Len(messages'[f].groups) = Len(messages[f].groups) + 1
          /\ \A a \in 1 .. Len(messages[f].groups) : messages'[f].groups[a] = messages[f].groups[a]
          /\ messages'[f].groups[Len(messages[f].groups) + 1] = Asked[2]
          /\ Len(messages[f].groups) \in Nat
      BY <1>2, <3>1, <3>2
    <3> HIDE DEF f
    <3>4. ASSUME NEW x PROVE x \in Listed' <=> x \in Listed \/ x = Asked
      <4>1. x \in Listed' <=> \E k \in 1 .. count : \E a \in 1 .. Len(messages'[k].groups) :
                                x = <<messages'[k].payload, messages'[k].groups[a]>>
        BY <1>1, <2>1, ListedPairs
      <4>2. x \in Listed <=> \E k \in 1 .. count : \E a \in 1 .. Len(messages[k].groups) :
                               x = <<messages[k].payload, messages[k].groups[a]>>
        BY <1>1, ListedPairs
      <4>3. f \in 1 .. count /\ messages[f].payload = Asked[1]
        BY <2>1 DEF f
      <4>4. \A k \in 1 .. count : k # f =>
              ((\E a \in 1 .. Len(messages'[k].groups) : x = <<messages'[k].payload, messages'[k].groups[a]>>)
               <=> \E a \in 1 .. Len(messages[k].groups) : x = <<messages[k].payload, messages[k].groups[a]>>)
        BY <3>2
      <4>5. (\E a \in 1 .. Len(messages'[f].groups) : x = <<messages'[f].payload, messages'[f].groups[a]>>)
            <=> \/ \E a \in 1 .. Len(messages[f].groups) : x = <<messages[f].payload, messages[f].groups[a]>>
                \/ x = Asked
        <5> DEFINE g == messages[f].groups
                   h == messages'[f].groups
        <5>1. /\ Len(h) = Len(g) + 1 /\ Len(g) \in Nat /\ h[Len(g) + 1] = Asked[2]
              /\ \A a \in 1 .. Len(g) : h[a] = g[a]
          BY <3>3
        <5>2. messages'[f].payload = Asked[1] /\ messages[f].payload = Asked[1]
          BY <3>2, <4>3
        <5> HIDE DEF g, h
        <5>3. \A a : a \in 1 .. Len(g) + 1 <=> a \in 1 .. Len(g) \/ a = Len(g) + 1
          BY <5>1
        <5>4. (\E a \in 1 .. Len(h) : x = <<Asked[1], h[a]>>)
              <=> (\E a \in 1 .. Len(g) : x = <<Asked[1], g[a]>>) \/ x = <<Asked[1], Asked[2]>>
          BY <5>1, <5>3
        <5>5. QED
          BY <1>2, <5>2, <5>4 DEF g, h
      <4>6. QED
        BY <4>1, <4>2, <4>3, <4>4, <4>5
    <3>5. QED
      BY <2>3, <3>4
  <2>4. QED
    BY <1>5, <2>2, <2>3 DEF AddGroup
<1>6. CASE AddMessage
  <2> DEFINE m == [payload |-> Asked[1], groups |-> <<Asked[2]>>]
  <2>1. m \in ListMessage /\ messages' = Grown(m) /\ count' = count + 1 /\ failed' = failed
    BY <1>1, <1>6, AskedType DEF AddMessage, ListMessage
  <2>2. \A k \in 1 .. count : messages'[k] = messages[k]
    BY <1>1, <2>1, GrownProperty
  <2>3. /\ messages'[count + 1].payload = Asked[1] /\ messages'[count + 1].groups = <<Asked[2]>>
    BY <1>1, <2>1, GrownProperty
  <2> HIDE DEF m
  <2>4. ASSUME NEW x PROVE x \in Listed' <=> x \in Listed \/ x = Asked
    <3>1. x \in Listed' <=> \E k \in 1 .. count + 1 : \E a \in 1 .. Len(messages'[k].groups) :
                              x = <<messages'[k].payload, messages'[k].groups[a]>>
      BY <1>1, <2>1, ListedPairs
    <3>2. x \in Listed <=> \E k \in 1 .. count : \E a \in 1 .. Len(messages[k].groups) :
                             x = <<messages[k].payload, messages[k].groups[a]>>
      BY <1>1, ListedPairs
    <3>3. \A k : k \in 1 .. count + 1 <=> k \in 1 .. count \/ k = count + 1
      BY <1>3
    <3>4. (\E a \in 1 .. Len(messages'[count + 1].groups) :
             x = <<messages'[count + 1].payload, messages'[count + 1].groups[a]>>) <=> x = Asked
      BY <1>2, <2>3
    <3>5. \A k \in 1 .. count :
            (\E a \in 1 .. Len(messages'[k].groups) : x = <<messages'[k].payload, messages'[k].groups[a]>>)
            <=> \E a \in 1 .. Len(messages[k].groups) : x = <<messages[k].payload, messages[k].groups[a]>>
      BY <2>2
    <3>6. QED
      BY <3>1, <3>2, <3>3, <3>4, <3>5
  <2>5. QED
    BY <2>1, <2>4
<1>7. CASE AddMessageFails
  <2>1. count' = count /\ failed' = failed \cup {Asked}
    BY <1>7 DEF AddMessageFails
  <2>2. \A k \in 1 .. count : messages'[k] = messages[k]
    <3>1. CASE messages' = messages
      BY <3>1
    <3>2. CASE messages' = Grown(Garbage)
      <4>1. Garbage \in ListMessage
        BY DEF ListMessage, Garbage
      <4>2. QED
        BY <1>1, <3>2, <4>1, GrownProperty
    <3>3. QED
      BY <1>7, <3>1, <3>2 DEF AddMessageFails
  <2>3. ASSUME NEW x PROVE x \in Listed' <=> x \in Listed
    <3>1. x \in Listed' <=> \E k \in 1 .. count : \E a \in 1 .. Len(messages'[k].groups) :
                              x = <<messages'[k].payload, messages'[k].groups[a]>>
      BY <1>1, <2>1, ListedPairs
    <3>2. x \in Listed <=> \E k \in 1 .. count : \E a \in 1 .. Len(messages[k].groups) :
                             x = <<messages[k].payload, messages[k].groups[a]>>
      BY <1>1, ListedPairs
    <3>3. QED
      BY <2>2, <3>1, <3>2
  <2>4. QED
    BY <2>1, <2>3
<1>8. QED
  BY <1>4, <1>5, <1>6, <1>7

\* What a pass asks for is wanted, and the other way round.
LEMMA WantedCalls ==
  ASSUME NEW e \in ApproachEntry
  PROVE  WantedOf(e) = ToSet(ApproachCalls(e)) \cup ToSet(ConflictCalls(e))
<1>1. CASE e.host = << >>
  BY <1>1 DEF WantedOf, ApproachCalls, ConflictCalls, ToSet
<1>2. CASE e.host # << >>
  <2> DEFINE a == <<Approaching(e), Head(e.host).group>>
             b == <<Entering, Head(e.host).group + 1000>>
             c == <<Passing(e), Last(e.host).group>>
             v == <<Warning(e), Head(e.host).group>>
             w == <<Warning(e), Head(e.host).group + 1000>>
  <2>1. ApproachCalls(e) = <<a, b, c>>
    BY <1>2 DEF ApproachCalls
  <2>2. ConflictCalls(e) = IF e.conflict /\ e.remote = "points" THEN <<v, w>> ELSE << >>
    BY <1>2 DEF ConflictCalls
  <2>3. WantedOf(e) = {a, b, c} \cup (IF e.conflict /\ e.remote = "points" THEN {v, w} ELSE {})
    BY <1>2 DEF WantedOf
  <2> HIDE DEF a, b, c, v, w
  <2>4. ToSet(<<a, b, c>>) = {a, b, c} /\ ToSet(<<v, w>>) = {v, w} /\ ToSet(<< >>) = {}
    BY DEF ToSet
  <2>5. QED
    BY <2>1, <2>2, <2>3, <2>4
<1>3. QED
  BY <1>1, <1>2

\* Before there is a list nothing is in it.
LEMMA CompleteInit == ListInit => ListComplete
<1>1. SUFFICES ASSUME ListInit PROVE ListComplete
  OBVIOUS
<1>2. /\ list_pc = "calloc" /\ list_i = 1
      /\ calls = << >> /\ messages = << >> /\ count = 0
  BY <1>1 DEF ListInit
<1>3. ToSet(calls) = {} /\ ToSet(SubSeq(messages, 1, count)) = {}
  BY <1>2 DEF ToSet
<1>4. Listed = {}
  BY <1>3 DEF Listed
<1>5. QED
  BY <1>2, <1>3, <1>4 DEF ListComplete

\* The steps that leave the list and the calls alone.
LEMMA CompleteRests ==
  ASSUME ListCore, ListComplete,
         NewList \/ Send \/ SendNext \/ FreeList \/ UNCHANGED list_vars
  PROVE  ListComplete'
<1>1. CASE FreeList
  BY <1>1 DEF FreeList, ListComplete
<1>2. CASE NewList
  <2>1. /\ list' = list /\ list_i' = list_i /\ list_i = list_i /\ calls' = calls
        /\ Listed' = Listed /\ failed' = failed
    BY <1>2 DEF NewList, Listed
  <2>2. Wanted' = Wanted /\ ToSet(calls') = ToSet(calls)
    BY <2>1 DEF Wanted
  <2>3. Accounted' = Accounted
    BY <2>1, <2>2 DEF Accounted
  <2>4. \A k \in 1 .. Len(list) : ~(k < 1)
    BY ListEntries DEF ListCore, ListTypeOK
  <2>5. QED
    BY <1>2, <2>1, <2>2, <2>3, <2>4 DEF NewList, ListComplete
<1>3. CASE Send \/ SendNext \/ UNCHANGED list_vars
  <2>1. /\ list' = list /\ list_pc' = list_pc /\ calls' = calls
        /\ Listed' = Listed /\ failed' = failed
        /\ list_pc = "send" \/ list_i' = list_i
    BY <1>3 DEF Send, SendNext, list_vars, Listed
  <2>2. Wanted' = Wanted /\ Accounted' = Accounted /\ ToSet(calls') = ToSet(calls)
    BY <2>1 DEF Wanted, Accounted
  <2>3. QED
    BY <2>1, <2>2 DEF ListComplete
<1>4. QED
  BY <1>1, <1>2, <1>3

\* A pass that has made its calls asks for those of the next entry.
LEMMA CompletePasses ==
  ASSUME ListCore, ListComplete, ApproachPass \/ ConflictPass
  PROVE  ListComplete'
<1>1. /\ calls = << >> /\ list' = list /\ Listed' = Listed /\ failed' = failed
      /\ list \in Received /\ list_i \in Nat \ {0}
  BY DEF ApproachPass, ConflictPass, Listed, ListCore, ListTypeOK
<1>2. ToSet(calls) = {} /\ Wanted' = Wanted
  BY <1>1 DEF ToSet, Wanted
<1>3. Len(list) \in Nat /\ \A k \in 1 .. Len(list) : list[k] \in ApproachEntry
  BY <1>1, ListEntries
<1>4. Accounted = Listed \cup failed /\ Accounted \subseteq Accounted'
      /\ Accounted' = Listed \cup failed \cup ToSet(calls')
  BY <1>1, <1>2 DEF Accounted
<1>5. ASSUME NEW k \in 1 .. Len(list)
      PROVE  ToSet(ApproachCalls(list[k])) \cup ToSet(ConflictCalls(list[k])) \subseteq Wanted
  <2>1. list \in Seq(ApproachEntry)
    BY <1>1, ReceivedAssumption
  <2>2. list[k] \in ToSet(list)
    BY <2>1 DEF ToSet
  <2>3. QED
    BY <1>3, <2>2, WantedCalls DEF Wanted
<1>6. CASE ApproachPass
  <2>1. CASE list_i <= Len(list)
    <3>1. calls' = ApproachCalls(list[list_i]) /\ list_pc = "approach" /\ list_pc' = "approach"
          /\ list_i' = list_i + 1
      BY <1>6, <2>1 DEF ApproachPass
    <3>2. list_i \in 1 .. Len(list)
      BY <1>1, <1>3, <2>1
    <3>3. Listed' \cup ToSet(calls') \subseteq Wanted'
      BY <1>1, <1>2, <1>5, <3>1, <3>2 DEF ListComplete
    <3>4. ASSUME NEW k \in 1 .. Len(list), k < list_i + 1
          PROVE  ToSet(ApproachCalls(list[k])) \subseteq Accounted'
      <4>1. k < list_i \/ k = list_i
        BY <1>1, <1>3, <3>4
      <4>2. QED
        BY <1>4, <3>1, <4>1 DEF ListComplete
    <3>5. QED
      BY <1>1, <3>1, <3>3, <3>4 DEF ListComplete
  <2>2. CASE ~(list_i <= Len(list))
    <3>1. list_pc = "approach" /\ list_pc' = "conflict" /\ calls' = calls /\ list_i' = 1
      BY <1>6, <2>2 DEF ApproachPass
    <3>2. \A k \in 1 .. Len(list) : k < list_i /\ ~(k < 1)
      BY <1>1, <1>3, <2>2
    <3>3. QED
      BY <1>1, <1>2, <1>4, <3>1, <3>2 DEF ListComplete
  <2>3. QED
    BY <2>1, <2>2
<1>7. CASE ConflictPass
  <2>1. CASE list_i <= Len(list)
    <3>1. calls' = ConflictCalls(list[list_i]) /\ list_pc = "conflict" /\ list_pc' = "conflict"
          /\ list_i' = list_i + 1
      BY <1>7, <2>1 DEF ConflictPass
    <3>2. list_i \in 1 .. Len(list)
      BY <1>1, <1>3, <2>1
    <3>3. Listed' \cup ToSet(calls') \subseteq Wanted'
      BY <1>1, <1>2, <1>5, <3>1, <3>2 DEF ListComplete
    <3>4. ASSUME NEW k \in 1 .. Len(list), k < list_i + 1
          PROVE  ToSet(ConflictCalls(list[k])) \subseteq Accounted'
      <4>1. k < list_i \/ k = list_i
        BY <1>1, <1>3, <3>4
      <4>2. QED
        BY <1>4, <3>1, <4>1 DEF ListComplete
    <3>5. \A k \in 1 .. Len(list) : ToSet(ApproachCalls(list[k])) \subseteq Accounted'
      BY <1>4, <3>1 DEF ListComplete
    <3>6. QED
      BY <1>1, <3>1, <3>3, <3>4, <3>5 DEF ListComplete
  <2>2. CASE ~(list_i <= Len(list))
    <3>1. list_pc = "conflict" /\ list_pc' = "send" /\ calls' = calls /\ list_i' = 1
      BY <1>7, <2>2 DEF ConflictPass
    <3>2. \A k \in 1 .. Len(list) : k < list_i
      BY <1>1, <1>3, <2>2
    <3>3. QED
      BY <1>1, <1>2, <1>4, <3>1, <3>2 DEF ListComplete
  <2>3. QED
    BY <2>1, <2>2
<1>8. QED
  BY <1>6, <1>7

\* A call moves what it asks for to the list, or to what had no memory.
LEMMA CompleteCalls ==
  ASSUME ListCore, ListCore', ListComplete, AddKnown \/ AddGroup \/ AddMessage \/ AddMessageFails
  PROVE  ListComplete'
<1>1. /\ calls \in Seq(Call) /\ calls # << >> /\ calls' = Tail(calls)
      /\ list' = list /\ list_pc' = list_pc /\ list_i' = list_i
  BY DEF ListCore, ListTypeOK, AddKnown, AddGroup, AddMessage, AddMessageFails, Called
<1>2. list_pc # "end"
  BY <1>1 DEF ListCore, ListOwned
<1>3. ToSet(calls) = {Asked} \cup ToSet(calls')
  <2>1. calls' \in Seq(Call) /\ Len(calls') = Len(calls) - 1 /\ Len(calls) \in Nat \ {0}
        /\ Asked = calls[1] /\ \A k \in 1 .. Len(calls') : calls'[k] = calls[k + 1]
    BY <1>1 DEF Asked
  <2>2. /\ ToSet(calls) = {calls[k] : k \in 1 .. Len(calls)}
        /\ ToSet(calls') = {calls'[k] : k \in 1 .. Len(calls')}
    <3>1. ToSet(calls) = {calls[k] : k \in 1 .. Len(calls)}
      BY <1>1, ToSetOf
    <3>2. ToSet(calls') = {calls'[k] : k \in 1 .. Len(calls')}
      BY <2>1, ToSetOf
    <3>3. QED
      BY <3>1, <3>2
  <2>3. ASSUME NEW k \in 1 .. Len(calls)
        PROVE  calls[k] \in {Asked} \cup ToSet(calls')
    <3>1. CASE k = 1
      BY <2>1, <3>1
    <3>2. CASE k # 1
      <4>1. k - 1 \in 1 .. Len(calls') /\ k = (k - 1) + 1
        BY <2>1, <3>2
      <4>2. calls'[k - 1] = calls[k]
        BY <2>1, <4>1
      <4>3. QED
        BY <2>2, <4>1, <4>2
    <3>3. QED
      BY <3>1, <3>2
  <2>4. Asked \in ToSet(calls)
    BY <2>1, <2>2
  <2>5. \A k \in 1 .. Len(calls') : k + 1 \in 1 .. Len(calls)
    BY <2>1
  <2>6. ToSet(calls') \subseteq ToSet(calls)
    BY <2>1, <2>2, <2>5
  <2>7. QED
    BY <2>2, <2>3, <2>4, <2>6
<1>4. /\ Listed \subseteq Listed' /\ Listed' \subseteq Listed \cup {Asked}
      /\ failed \subseteq failed' /\ Asked \in Listed' \cup failed'
  BY ListedByCall
<1>5. Wanted' = Wanted
  BY <1>1 DEF Wanted
<1>6. Accounted \subseteq Accounted'
  BY <1>3, <1>4 DEF Accounted
<1>7. Listed' \cup ToSet(calls') \subseteq Wanted'
  BY <1>2, <1>3, <1>4, <1>5 DEF ListComplete
<1>8. QED
  BY <1>1, <1>6, <1>7 DEF ListComplete

-----------------------------------------------------------------------------
(* MessageList: the list as a grouping of the calls.                         *)

\* The calls of an entry of either pass, and where they stand.
LEMMA CallsAt ==
  ASSUME list \in Received
  PROVE  /\ Len(list) \in Nat
         /\ \A q \in 1 .. 2 * Len(list) : CallsOf(q) \in Seq(Call) /\ Len(CallsOf(q)) \in Nat
         /\ \A c : c \in AllCalls <=>
              c = <<c[1], c[2]>> /\ c[1] \in 1 .. 2 * Len(list) /\ c[2] \in 1 .. Len(CallsOf(c[1]))
<1>1. Len(list) \in Nat /\ \A k \in 1 .. Len(list) : list[k] \in ApproachEntry
  BY ListEntries
<1>2. ASSUME NEW q \in 1 .. 2 * Len(list) PROVE CallsOf(q) \in Seq(Call) /\ Len(CallsOf(q)) \in Nat
  <2>1. CASE q <= Len(list)
    BY <1>1, <2>1, CallTypes DEF CallsOf
  <2>2. CASE ~(q <= Len(list))
    <3>1. q - Len(list) \in 1 .. Len(list)
      BY <1>1, <2>2
    <3>2. QED
      BY <1>1, <2>2, <3>1, CallTypes DEF CallsOf
  <2>3. QED
    BY <2>1, <2>2
<1>3. ASSUME NEW c
      PROVE  c \in AllCalls <=>
               c = <<c[1], c[2]>> /\ c[1] \in 1 .. 2 * Len(list) /\ c[2] \in 1 .. Len(CallsOf(c[1]))
  BY DEF AllCalls
<1>4. QED
  BY <1>1, <1>2, <1>3

\* Each call comes after those made before it, and is the next one.
LEMMA NextCall ==
  ASSUME ListCore, ListGrouped, Called
  PROVE  \E now \in AllCalls :
           /\ CallAt(now) = Asked /\ Made' = Made \cup {now}
           /\ \A c \in Made : Before(c, now)
           /\ \A c : CallAt(c)' = CallAt(c)
<1>1. /\ list \in Received /\ list_i \in Nat \ {0} /\ calls \in Seq(Call) /\ calls # << >>
      /\ list_pc \in {"approach", "conflict"}
      /\ list' = list /\ list_pc' = list_pc /\ list_i' = list_i /\ calls' = Tail(calls)
  BY DEF ListCore, ListTypeOK, ListOwned, Called
<1> DEFINE s == Stage
           m == Len(CallsOf(s)) - Len(calls)
           now == <<s, m + 1>>
<1>2. Len(calls) \in Nat \ {0} /\ Len(calls') = Len(calls) - 1 /\ Asked = calls[1]
  BY <1>1, EmptySeq, HeadTailProperties DEF Asked
<1>3. Len(list) \in Nat /\ s \in 1 .. 2 * Len(list)
  BY <1>1, CallsAt DEF ListGrouped, Stage
<1>4. Len(CallsOf(s)) \in Nat /\ m \in Nat /\ m + 1 \in 1 .. Len(CallsOf(s))
  BY <1>1, <1>2, <1>3, CallsAt DEF ListGrouped
<1>5. Asked = CallsOf(s)[m + 1]
  BY <1>1, <1>2 DEF ListGrouped
<1>6. /\ Stage' = s /\ (\A q : CallsOf(q)' = CallsOf(q)) /\ AllCalls' = AllCalls
      /\ \A c : CallAt(c)' = CallAt(c)
  BY <1>1 DEF Stage, CallsOf, AllCalls, CallAt
<1>7. /\ Made' = {c \in AllCalls : c[1] < s \/ (c[1] = s /\ c[2] <= Len(CallsOf(s)) - Len(calls'))}
      /\ Made = {c \in AllCalls : c[1] < s \/ (c[1] = s /\ c[2] <= m)}
  <2>1. Len(CallsOf(Stage))' = Len(CallsOf(s)) /\ Len(calls)' = Len(calls')
    BY <1>6
  <2>2. QED
    BY <1>6, <2>1 DEF Made
<1>8. now \in AllCalls /\ now[1] = s /\ now[2] = m + 1
  BY <1>1, <1>3, <1>4, CallsAt
<1>9. CallAt(now) = Asked
  BY <1>5 DEF CallAt
<1> HIDE DEF now, s
<1>10. ASSUME NEW c \in AllCalls
       PROVE  c[1] = s /\ c[2] <= Len(CallsOf(s)) - Len(calls')
                <=> (c[1] = s /\ c[2] <= m) \/ c = now
  <2>1. c = <<c[1], c[2]>> /\ c[1] \in Int /\ c[2] \in Int
    BY <1>1, CallsAt
  <2>2. Len(CallsOf(s)) - Len(calls') = m + 1
    BY <1>2, <1>4
  <2>3. c = now <=> c[1] = s /\ c[2] = m + 1
    BY <2>1 DEF now
  <2> HIDE DEF m
  <2>4. m \in Nat
    BY <1>4
  <2>5. QED
    BY <2>1, <2>2, <2>3, <2>4
<1>11. Made' = Made \cup {now}
  BY <1>7, <1>8, <1>10
<1>12. ASSUME NEW c \in Made PROVE Before(c, now)
  <2>1. c \in AllCalls /\ (c[1] < s \/ (c[1] = s /\ c[2] <= m))
    BY <1>7
  <2>2. c[2] \in Int
    BY <1>1, <2>1, CallsAt
  <2>3. QED
    BY <1>4, <1>8, <2>1, <2>2 DEF Before
<1>13. QED
  BY <1>6, <1>8, <1>9, <1>11, <1>12

\* What a call with memory makes of the list.
LEMMA Growth ==
  ASSUME ListCore, ListCore', AddKnown \/ AddGroup \/ AddMessage \/ AddMessageFails,
         Len(messages) = count, failed' = {}
  PROVE  /\ failed = {} /\ Len(messages') = count' /\ count' \in {count, count + 1}
         /\ \A k \in 1 .. count' :
              \/ k \in 1 .. count /\ messages'[k].payload = messages[k].payload
              \/ /\ k = count + 1 /\ messages'[k].payload = Asked[1]
                 /\ Len(messages'[k].groups) = 1
                 /\ \A l \in 1 .. count : messages[l].payload # Asked[1]
         /\ \A k \in 1 .. count : \A x \in 1 .. Len(messages'[k].groups) :
              \/ /\ x \in 1 .. Len(messages[k].groups)
                 /\ messages'[k].groups[x] = messages[k].groups[x]
              \/ /\ x = Len(messages[k].groups) + 1
                 /\ messages[k].payload = Asked[1] /\ messages'[k].groups[x] = Asked[2]
                 /\ \A y \in 1 .. Len(messages[k].groups) : messages[k].groups[y] # Asked[2]
<1>1. ListTypeOK /\ ListTypeOK' /\ Called /\ ListMerged
  BY DEF ListCore, AddKnown, AddGroup, AddMessage, AddMessageFails
<1>2. messages \in Seq(ListMessage) /\ count \in Nat
  BY <1>1 DEF ListTypeOK
<1>3. failed = {} /\ ~AddMessageFails
  BY DEF AddKnown, AddGroup, AddMessage, AddMessageFails
<1>4. CASE AddKnown
  BY <1>2, <1>3, <1>4 DEF AddKnown
<1>5. CASE AddGroup
  <2> DEFINE f == Found
             g == messages[f].groups
  <2>1. /\ messages' = [messages EXCEPT ![f].groups = Append(@, Asked[2])]
        /\ count' = count /\ Asked[2] \notin ToSet(g)
    BY <1>3, <1>5 DEF AddGroup
  <2>2. f \in 1 .. count /\ messages[f].payload = Asked[1] /\ Asked[2] \in Nat
    BY <1>1, <1>2, <1>5, FoundProperty, AskedType DEF AddGroup, Called
  <2> HIDE DEF f
  <2>3. messages[f] \in ListMessage
    BY <1>2, <2>2
  <2>4. g \in Seq(Nat)
    BY <2>3 DEF ListMessage
  <2>5. /\ Len(messages') = count /\ \A k \in 1 .. count : k # f => messages'[k] = messages[k]
        /\ messages'[f].payload = messages[f].payload /\ messages'[f].groups = Append(g, Asked[2])
    BY <1>2, <2>1, <2>2, <2>3 DEF ListMessage
  <2>6. \A y \in 1 .. Len(g) : g[y] # Asked[2]
    BY <2>1, <2>4, ToSetOf
  <2> HIDE DEF g
  <2>7. \A x \in 1 .. Len(Append(g, Asked[2])) :
          \/ x \in 1 .. Len(g) /\ Append(g, Asked[2])[x] = g[x]
          \/ x = Len(g) + 1 /\ Append(g, Asked[2])[x] = Asked[2]
    BY <2>2, <2>4, AppendProperties
  <2>8. \A x \in 1 .. Len(messages'[f].groups) :
          \/ /\ x \in 1 .. Len(messages[f].groups)
             /\ messages'[f].groups[x] = messages[f].groups[x]
          \/ /\ x = Len(messages[f].groups) + 1
             /\ messages[f].payload = Asked[1] /\ messages'[f].groups[x] = Asked[2]
             /\ \A y \in 1 .. Len(messages[f].groups) : messages[f].groups[y] # Asked[2]
    BY <2>2, <2>5, <2>6, <2>7 DEF g
  <2>9. \A k \in 1 .. count : messages'[k].payload = messages[k].payload
    BY <2>2, <2>5
  <2>10. QED
    BY <1>3, <2>1, <2>5, <2>8, <2>9
<1>6. CASE AddMessage
  <2> DEFINE m == [payload |-> Asked[1], groups |-> <<Asked[2]>>]
  <2>1. m \in ListMessage /\ messages' = Grown(m) /\ count' = count + 1 /\ Found = 0
    BY <1>1, <1>6, AskedType DEF AddMessage, ListMessage
  <2>2. /\ Len(messages') = count + 1 /\ \A k \in 1 .. count : messages'[k] = messages[k]
        /\ messages'[count + 1] = m
    BY <1>1, <2>1, GrownProperty
  <2>3. \A l \in 1 .. count : messages[l].payload # Asked[1]
    BY <1>1, <2>1, FoundProperty DEF Called
  <2>4. m.payload = Asked[1] /\ Len(m.groups) = 1
    OBVIOUS
  <2> HIDE DEF m
  <2>5. \A k \in 1 .. count + 1 : k \in 1 .. count \/ k = count + 1
    BY <1>2
  <2>6. QED
    BY <1>3, <2>1, <2>2, <2>3, <2>4, <2>5
<1>7. QED
  BY <1>3, <1>4, <1>5, <1>6

\* A call adds its own group to its own payload, behind all that was asked for before.
LEMMA GroupingGrows ==
  ASSUME ListCore, ListCore', ListGrouped,
         AddKnown \/ AddGroup \/ AddMessage \/ AddMessageFails, failed' = {}
  PROVE  Grouping(Made)'
<1>1. ListTypeOK /\ ListTypeOK' /\ Called /\ ListMerged /\ ListMerged'
  BY DEF ListCore, AddKnown, AddGroup, AddMessage, AddMessageFails
<1>2. failed = {} /\ list_pc # "end" /\ Asked = <<Asked[1], Asked[2]>> /\ count \in Nat
      /\ messages \in Seq(ListMessage)
  BY <1>1, AskedType DEF AddKnown, AddGroup, AddMessage, AddMessageFails, Called, ListCore, ListOwned, ListTypeOK
<1>3. Grouping(Made)
  BY <1>2 DEF ListGrouped
<1>4. Len(messages) = count /\ Listed = {CallAt(c) : c \in Made}
  BY <1>3 DEF Grouping
<1>5. PICK now \in AllCalls :
        /\ CallAt(now) = Asked /\ Made' = Made \cup {now}
        /\ \A c \in Made : Before(c, now)
        /\ \A c : CallAt(c)' = CallAt(c)
  BY <1>1, NextCall
<1>6. /\ Len(messages') = count' /\ count' \in {count, count + 1}
      /\ \A k \in 1 .. count' :
           \/ k \in 1 .. count /\ messages'[k].payload = messages[k].payload
           \/ /\ k = count + 1 /\ messages'[k].payload = Asked[1]
              /\ Len(messages'[k].groups) = 1
              /\ \A l \in 1 .. count : messages[l].payload # Asked[1]
      /\ \A k \in 1 .. count : \A x \in 1 .. Len(messages'[k].groups) :
           \/ /\ x \in 1 .. Len(messages[k].groups)
              /\ messages'[k].groups[x] = messages[k].groups[x]
           \/ /\ x = Len(messages[k].groups) + 1
              /\ messages[k].payload = Asked[1] /\ messages'[k].groups[x] = Asked[2]
              /\ \A y \in 1 .. Len(messages[k].groups) : messages[k].groups[y] # Asked[2]
  BY <1>4, Growth
<1>7. Listed' = Listed \cup {Asked}
  BY ListedByCall
<1>8. \A c : c \in Listed <=> \E k \in 1 .. count : \E a \in 1 .. Len(messages[k].groups) :
                                c = <<messages[k].payload, messages[k].groups[a]>>
  BY <1>1, ListedPairs
<1>9. \A k \in 1 .. count : Len(messages[k].groups) \in Nat \ {0} /\ 1 \in 1 .. Len(messages[k].groups)
  <2>1. ASSUME NEW k \in 1 .. count PROVE Len(messages[k].groups) \in Nat \ {0}
    <3>1. messages[k] \in ListMessage
      BY <1>2, <1>4
    <3>2. messages[k].groups \in Seq(Nat) /\ messages[k].groups # << >>
      BY <1>1, <3>1 DEF ListMessage, ListMerged
    <3>3. QED
      BY <3>2, EmptySeq
  <2>2. QED
    BY <2>1
<1>10. \A k \in 1 .. count : \A a \in 1 .. Len(messages[k].groups) :
         \E b \in Made : CallAt(b) = <<messages[k].payload, messages[k].groups[a]>>
  BY <1>4, <1>8
<1>11. ASSUME NEW k \in 1 .. count', NEW l \in 1 .. count', k < l, NEW c \in Made',
              CallAt(c)[1] = messages'[l].payload
       PROVE  \E b \in Made' : Before(b, c) /\ CallAt(b)[1] = messages'[k].payload
  <2>1. k \in 1 .. count /\ messages'[k].payload = messages[k].payload
    BY <1>2, <1>6, <1>11
  <2>2. PICK d \in Made : CallAt(d)[1] = messages[k].payload
    BY <1>9, <1>10, <2>1
  <2>3. CASE c = now
    BY <1>5, <2>1, <2>2, <2>3
  <2>4. CASE c \in Made
    <3>1. CallAt(c) \in Listed
      BY <1>4, <2>4
    <3>2. PICK i \in 1 .. count : CallAt(c)[1] = messages[i].payload
      BY <1>8, <3>1
    <3>3. l \in 1 .. count /\ messages'[l].payload = messages[l].payload
      BY <1>6, <1>11, <3>2
    <3>4. PICK b \in Made : Before(b, c) /\ CallAt(b)[1] = messages[k].payload
      BY <1>3, <1>11, <2>1, <2>4, <3>3 DEF Grouping
    <3>5. QED
      BY <1>5, <2>1, <3>4
  <2>5. QED
    BY <1>5, <2>3, <2>4
<1>12. ASSUME NEW k \in 1 .. count', NEW x \in 1 .. Len(messages'[k].groups),
              NEW y \in 1 .. Len(messages'[k].groups), x < y, NEW c \in Made',
              CallAt(c) = <<messages'[k].payload, messages'[k].groups[y]>>
       PROVE  \E b \in Made' :
                Before(b, c) /\ CallAt(b) = <<messages'[k].payload, messages'[k].groups[x]>>
  <2>1. k \in 1 .. count /\ messages'[k].payload = messages[k].payload
    BY <1>6, <1>12
  <2> DEFINE g == messages[k].groups
  <2>2. x \in 1 .. Len(g) /\ messages'[k].groups[x] = g[x]
    <3>1. /\ \/ x \in 1 .. Len(g) /\ messages'[k].groups[x] = g[x]
             \/ x = Len(g) + 1
          /\ y \in 1 .. Len(g) \/ y = Len(g) + 1
      BY <1>6, <1>12, <2>1
    <3>2. Len(g) \in Nat
      BY <1>9, <2>1
    <3> HIDE DEF g
    <3>3. QED
      BY <1>12, <3>1, <3>2
  <2>3. CASE c = now
    <3>1. PICK b \in Made : CallAt(b) = <<messages[k].payload, g[x]>>
      BY <1>10, <2>1, <2>2
    <3>2. QED
      BY <1>5, <2>1, <2>2, <2>3, <3>1
  <2>4. CASE c \in Made
    <3>1. PICK i \in 1 .. count : \E a \in 1 .. Len(messages[i].groups) :
                 CallAt(c) = <<messages[i].payload, messages[i].groups[a]>>
      BY <1>4, <1>8, <2>4
    <3>2. i = k
      BY <1>1, <1>12, <2>1, <3>1 DEF ListMerged
    <3>3. PICK a \in 1 .. Len(g) : messages'[k].groups[y] = g[a]
      BY <1>12, <3>1, <3>2
    <3>4. y \in 1 .. Len(g) /\ messages'[k].groups[y] = g[y]
      BY <1>6, <1>12, <2>1, <3>3
    <3>5. PICK b \in Made : Before(b, c) /\ CallAt(b) = <<messages[k].payload, g[x]>>
      BY <1>3, <1>12, <2>1, <2>2, <2>4, <3>4 DEF Grouping
    <3>6. QED
      BY <1>5, <2>1, <2>2, <3>5
  <2>5. QED
    BY <1>5, <2>3, <2>4
<1>13. Listed' = {CallAt(c) : c \in Made'}
  BY <1>4, <1>5, <1>7
<1>14. Listed' = {CallAt(c)' : c \in Made'}
  BY <1>5, <1>13
<1>15. \A k, l \in 1 .. count' : k < l =>
         \A c \in Made' : CallAt(c)'[1] = messages'[l].payload =>
           \E b \in Made' : Before(b, c) /\ CallAt(b)'[1] = messages'[k].payload
  BY <1>5, <1>11
<1>16. \A k \in 1 .. count' : \A x, y \in 1 .. Len(messages'[k].groups) : x < y =>
         \A c \in Made' : CallAt(c)' = <<messages'[k].payload, messages'[k].groups[y]>> =>
           \E b \in Made' :
             Before(b, c) /\ CallAt(b)' = <<messages'[k].payload, messages'[k].groups[x]>>
  BY <1>5, <1>12
<1>17. QED
  BY <1>1, <1>6, <1>14, <1>15, <1>16 DEF Grouping, Before

\* Before the first pass there is nothing.
LEMMA GroupedInit == ListInit => ListGrouped
<1> SUFFICES ASSUME ListInit PROVE ListGrouped
  OBVIOUS
<1>1. /\ list_pc = "calloc" /\ list_i = 1 /\ calls = << >> /\ messages = << >> /\ count = 0
      /\ list \in Received
  BY DEF ListInit
<1>2. Stage = 0 /\ (1 .. count) = {}
  BY <1>1 DEF Stage
<1>3. Made = {}
  BY <1>1, <1>2, CallsAt DEF Made
<1>4. Listed = {}
  <2>1. ListTypeOK
    BY CoreInit DEF ListCore
  <2>2. QED
    BY <1>2, <2>1, ListedPairs
<1>5. Len(list) \in Nat
  BY <1>1, CallsAt
<1>6. QED
  BY <1>1, <1>2, <1>3, <1>4, <1>5 DEF ListGrouped, Grouping, ListMerged

\* The steps that ask for nothing change nothing of the order.
LEMMA GroupedRests ==
  ASSUME ListCore, ListCore', ListGrouped,
         NewList \/ Send \/ SendNext \/ FreeList \/ UNCHANGED list_vars
  PROVE  ListGrouped'
<1>1. list' = list /\ calls' = calls /\ failed' = failed
  BY DEF NewList, Send, SendNext, FreeList, list_vars
<1>2. calls # << >> => list_pc \in {"approach", "conflict"}
  BY DEF ListCore, ListOwned
<1>3. CASE list_pc' = "end"
  <2>1. calls = << >>
    BY <1>2, <1>3 DEF NewList, Send, SendNext, FreeList, list_vars, ListGrouped, ListCore,
                      ListCore, ListOwned
  <2>2. QED
    BY <1>1, <1>3, <2>1 DEF ListGrouped
<1>4. CASE list_pc' # "end"
  <2>1. /\ messages' = messages /\ count' = count
        /\ \/ list_pc = "calloc" /\ list_pc' = "approach" /\ list_i' = list_i
           \/ list_pc' = list_pc /\ (list_pc = "send" \/ list_i' = list_i)
    BY <1>4 DEF NewList, Send, SendNext, FreeList, list_vars
  <2>2. Stage' = Stage /\ CallsOf(Stage)' = CallsOf(Stage)
    BY <1>1, <2>1 DEF Stage, CallsOf
  <2>3. Grouping(Made)' <=> Grouping(Made)
    <3>1. Made' = Made
      BY <1>1, <2>2 DEF Made, AllCalls, CallsOf
    <3>2. QED
      BY <1>1, <2>1, <3>1 DEF Grouping, ListMerged, Listed, CallAt, CallsOf, Before
  <2>4. list_pc' \in {"calloc", "approach", "conflict"} => list_i' <= Len(list') + 1
    BY <1>1, <2>1 DEF ListGrouped
  <2>5. QED
    BY <1>1, <1>2, <2>1, <2>2, <2>3, <2>4 DEF ListGrouped
<1>5. QED
  BY <1>3, <1>4

\* A pass that goes on to an entry has all its calls to make.
LEMMA GroupedPasses ==
  ASSUME ListCore, ListCore', ListGrouped, ApproachPass \/ ConflictPass
  PROVE  ListGrouped'
<1>1. /\ UNCHANGED <<list, messages, count, failed>> /\ calls = << >>
      /\ list_pc \in {"approach", "conflict"} /\ list_i \in Nat \ {0} /\ list \in Received
      /\ Len(list) \in Nat /\ list_i <= Len(list) + 1
  BY CallsAt DEF ApproachPass, ConflictPass, ListCore, ListTypeOK, ListGrouped
<1> DEFINE s == Stage
<1>2. /\ s \in Nat
      /\ \/ s + 1 \in 1 .. 2 * Len(list) /\ Stage' = s + 1 /\ calls' = CallsOf(s + 1) /\ list_i' > 1
         \/ Stage' = s /\ calls' = << >>
      /\ list_pc' \in {"approach", "conflict"} => list_i' <= Len(list) + 1
      /\ list_pc' \notin {"calloc", "end"}
  <2>1. CASE ApproachPass
    <3>1. s = list_i - 1
      BY <1>1, <2>1 DEF Stage, ApproachPass
    <3>2. CASE list_i <= Len(list)
      <4>1. /\ calls' = ApproachCalls(list[list_i]) /\ list_i' = list_i + 1
            /\ list_pc' = "approach"
        BY <2>1, <3>2 DEF ApproachPass
      <4>2. Stage' = list_i
        BY <1>1, <4>1 DEF Stage
      <4>3. calls' = CallsOf(list_i)
        BY <3>2, <4>1 DEF CallsOf
      <4> HIDE DEF s
      <4>4. s + 1 = list_i
        BY <1>1, <3>1
      <4>5. QED
        BY <1>1, <3>1, <3>2, <4>1, <4>2, <4>3, <4>4
    <3>3. CASE ~(list_i <= Len(list))
      <4>1. /\ calls' = << >> /\ list_i' = 1 /\ list_pc' = "conflict" /\ list_i = Len(list) + 1
        BY <1>1, <2>1, <3>3 DEF ApproachPass
      <4>2. Stage' = Len(list)
        BY <1>1, <4>1 DEF Stage
      <4> HIDE DEF s
      <4>3. QED
        BY <1>1, <3>1, <4>1, <4>2
    <3>4. QED
      BY <3>2, <3>3
  <2>2. CASE ConflictPass
    <3>1. s = Len(list) + (list_i - 1)
      BY <1>1, <2>2 DEF Stage, ConflictPass
    <3>2. CASE list_i <= Len(list)
      <4>1. /\ calls' = ConflictCalls(list[list_i]) /\ list_i' = list_i + 1
            /\ list_pc' = "conflict"
        BY <2>2, <3>2 DEF ConflictPass
      <4>2. Stage' = Len(list) + list_i
        BY <1>1, <4>1 DEF Stage
      <4> HIDE DEF s
      <4>3. s + 1 = Len(list) + list_i /\ ~(s + 1 <= Len(list)) /\ (s + 1) - Len(list) = list_i
        BY <1>1, <3>1
      <4>4. calls' = CallsOf(s + 1)
        BY <4>1, <4>3 DEF CallsOf
      <4>5. QED
        BY <1>1, <3>1, <3>2, <4>1, <4>2, <4>3, <4>4
    <3>3. CASE ~(list_i <= Len(list))
      <4>1. /\ calls' = << >> /\ list_i' = 1 /\ list_pc' = "send" /\ list_i = Len(list) + 1
        BY <1>1, <2>2, <3>3 DEF ConflictPass
      <4>2. Stage' = 2 * Len(list)
        BY <1>1, <4>1 DEF Stage
      <4> HIDE DEF s
      <4>3. QED
        BY <1>1, <3>1, <4>1, <4>2
    <3>4. QED
      BY <3>2, <3>3
  <2>3. QED
    BY <2>1, <2>2
<1>3. /\ AllCalls' = AllCalls /\ (\A q : CallsOf(q)' = CallsOf(q)) /\ (\A c : CallAt(c)' = CallAt(c))
      /\ Listed' = Listed
  BY <1>1 DEF AllCalls, CallsOf, CallAt, Listed
<1>4. \A c \in AllCalls : c[1] \in 1 .. 2 * Len(list) /\ c[2] \in 1 .. Len(CallsOf(c[1])) /\ Len(CallsOf(c[1])) \in Nat
  BY <1>1, CallsAt
<1> HIDE DEF s
<1>5. Made = {c \in AllCalls : c[1] <= s}
  <2>1. ASSUME NEW c \in AllCalls
        PROVE  c[1] < s \/ (c[1] = s /\ c[2] <= Len(CallsOf(s)) - Len(calls)) <=> c[1] <= s
    <3>1. Len(calls) = 0
      BY <1>1
    <3>2. c[1] = s => c[2] <= Len(CallsOf(s)) - Len(calls)
      BY <1>4, <3>1
    <3>3. QED
      BY <1>2, <1>4, <3>2
  <2>2. QED
    BY <2>1 DEF Made, s
<1>6. Made' = {c \in AllCalls : c[1] < Stage' \/ (c[1] = Stage' /\ c[2] <= Len(CallsOf(Stage')) - Len(calls'))}
  BY <1>3 DEF Made
<1>7. Made' = Made
  <2>1. CASE Stage' = s /\ calls' = << >>
    <3>1. ASSUME NEW c \in AllCalls
          PROVE  c[1] < s \/ (c[1] = s /\ c[2] <= Len(CallsOf(s)) - Len(calls')) <=> c[1] <= s
      <4>1. Len(calls') = 0
        BY <2>1
      <4>2. c[1] = s => c[2] <= Len(CallsOf(s)) - Len(calls')
        BY <1>4, <4>1
      <4>3. QED
        BY <1>2, <1>4, <4>2
    <3>2. QED
      BY <1>5, <1>6, <2>1, <3>1
  <2>2. CASE s + 1 \in 1 .. 2 * Len(list) /\ Stage' = s + 1 /\ calls' = CallsOf(s + 1)
    <3>1. Len(CallsOf(s + 1)) \in Nat
      BY <1>1, <2>2, CallsAt
    <3>2. ASSUME NEW c \in AllCalls
          PROVE  c[1] < s + 1 \/ (c[1] = s + 1 /\ c[2] <= Len(CallsOf(s + 1)) - Len(calls')) <=> c[1] <= s
      <4>1. Len(CallsOf(s + 1)) - Len(calls') = 0
        BY <2>2, <3>1
      <4>2. ~(c[2] <= Len(CallsOf(s + 1)) - Len(calls'))
        BY <1>4, <4>1
      <4>3. QED
        BY <1>2, <1>4, <4>2
    <3>3. QED
      BY <1>5, <1>6, <2>2, <3>2
  <2>3. QED
    BY <1>2, <2>1, <2>2
<1>8. failed' = {} => Grouping(Made)'
  <2>1. failed' = {} => Grouping(Made)
    BY <1>1 DEF ListGrouped
  <2> SUFFICES ASSUME Grouping(Made) PROVE Grouping(Made)'
    BY <2>1
  <2>2. Listed' = {CallAt(c)' : c \in Made'}
    BY <1>3, <1>7 DEF Grouping
  <2>3. \A k, l \in 1 .. count' : k < l =>
          \A c \in Made' : CallAt(c)'[1] = messages'[l].payload =>
            \E b \in Made' : Before(b, c) /\ CallAt(b)'[1] = messages'[k].payload
    BY <1>1, <1>3, <1>7 DEF Grouping
  <2>4. \A k \in 1 .. count' : \A x, y \in 1 .. Len(messages'[k].groups) : x < y =>
          \A c \in Made' : CallAt(c)' = <<messages'[k].payload, messages'[k].groups[y]>> =>
            \E b \in Made' :
              Before(b, c) /\ CallAt(b)' = <<messages'[k].payload, messages'[k].groups[x]>>
    BY <1>1, <1>3, <1>7 DEF Grouping
  <2>5. Len(messages') = count' /\ ListMerged'
    BY <1>1 DEF Grouping, ListMerged
  <2>6. QED
    BY <2>2, <2>3, <2>4, <2>5 DEF Grouping, Before
<1>9. calls' # << >> =>
        /\ list_i' > 1
        /\ Len(calls') <= Len(CallsOf(Stage)')
        /\ \A k \in 1 .. Len(calls') : calls'[k] = CallsOf(Stage)'[Len(CallsOf(Stage)') - Len(calls') + k]
  <2> SUFFICES ASSUME calls' # << >>
               PROVE  /\ list_i' > 1
                      /\ Len(calls') <= Len(CallsOf(Stage)')
                      /\ \A k \in 1 .. Len(calls') :
                           calls'[k] = CallsOf(Stage)'[Len(CallsOf(Stage)') - Len(calls') + k]
    OBVIOUS
  <2>1. s + 1 \in 1 .. 2 * Len(list) /\ Stage' = s + 1 /\ calls' = CallsOf(s + 1) /\ list_i' > 1
    BY <1>2
  <2>2. CallsOf(Stage)' = calls' /\ Len(calls') \in Nat
    BY <1>1, <1>3, <2>1, CallsAt
  <2>3. QED
    BY <2>1, <2>2
<1>10. QED
  BY <1>1, <1>2, <1>8, <1>9 DEF ListGrouped

\* A call takes one from the calls left.
LEMMA GroupedCalls ==
  ASSUME ListCore, ListCore', ListGrouped, AddKnown \/ AddGroup \/ AddMessage \/ AddMessageFails
  PROVE  ListGrouped'
<1>1. /\ list \in Received /\ list_i \in Nat \ {0} /\ calls \in Seq(Call) /\ calls # << >>
      /\ list_pc \in {"approach", "conflict"}
      /\ list' = list /\ list_pc' = list_pc /\ list_i' = list_i /\ calls' = Tail(calls)
  BY DEF ListCore, ListTypeOK, ListOwned, Called, AddKnown, AddGroup, AddMessage, AddMessageFails
<1>2. /\ Len(calls) \in Nat \ {0} /\ Len(calls') = Len(calls) - 1
      /\ \A k \in 1 .. Len(calls') : calls'[k] = calls[k + 1]
  BY <1>1, EmptySeq, HeadTailProperties
<1>3. Stage' = Stage /\ CallsOf(Stage)' = CallsOf(Stage)
  BY <1>1 DEF Stage, CallsOf
<1> DEFINE a == CallsOf(Stage)
<1>4. /\ list_i > 1 /\ Len(calls) <= Len(a) /\ Len(a) \in Nat
      /\ \A k \in 1 .. Len(calls) : calls[k] = a[Len(a) - Len(calls) + k]
      /\ list_i <= Len(list) + 1
  <2>1. Stage \in 1 .. 2 * Len(list)
    BY <1>1, CallsAt DEF ListGrouped, Stage
  <2>2. QED
    BY <1>1, <2>1, CallsAt DEF ListGrouped
<1> HIDE DEF a
<1>5. Len(calls') <= Len(a)
  BY <1>2, <1>4
<1>6. ASSUME NEW k \in 1 .. Len(calls') PROVE calls'[k] = a[Len(a) - Len(calls') + k]
  <2>1. k + 1 \in 1 .. Len(calls) /\ Len(a) - Len(calls) + (k + 1) = Len(a) - Len(calls') + k
    BY <1>2, <1>4
  <2>2. QED
    BY <1>2, <1>4, <2>1
<1>7. failed' = {} => Grouping(Made)'
  BY GroupingGrows
<1>8. QED
  BY <1>1, <1>3, <1>4, <1>5, <1>6, <1>7 DEF ListGrouped, a

-----------------------------------------------------------------------------
(* MessageList: the theorems.                                               *)

\* determine_messages and main keep the list, the memory and the progress of main in
\* step, whichever allocations fail: the invariant of MessageList.
THEOREM ListInvariant == ListSpec => []ListIInv
<1>1. ListInit => ListIInv
  BY CoreInit, CompleteInit, GroupedInit DEF ListInit, ListIInv, ListOrdered, WarningsLast
<1>2. ListIInv /\ [ListNext]_list_vars => ListIInv'
  <2>1. ListIInv /\ [ListNext]_list_vars => ListCore' /\ ListOrdered' /\ WarningsLast'
    BY CoreStep, OrderStep DEF ListIInv
  <2>2. ListIInv /\ [ListNext]_list_vars => ListComplete'
    BY <2>1, CompleteRests, CompletePasses, CompleteCalls DEF ListIInv, ListNext
  <2>3. ListIInv /\ [ListNext]_list_vars => ListGrouped'
    BY <2>1, GroupedRests, GroupedPasses, GroupedCalls DEF ListIInv, ListNext
  <2>4. QED
    BY <2>1, <2>2, <2>3 DEF ListIInv
<1>3. QED
  BY <1>1, <1>2, PTL DEF ListSpec

\* The variables of determine_messages and main keep their types, and the array has
\* what count says, or one element more.
THEOREM ListTyped == ListSpec => []ListTypeOK
<1>1. ListIInv => ListTypeOK
  BY DEF ListIInv, ListCore
<1>2. QED
  BY <1>1, ListInvariant, PTL

\* However payloads and groups are merged, main sends no sign a payload twice for one
\* message.
THEOREM SentOnlyOnce == ListSpec => []SentOnce
<1>1. ListIInv => SentOnce
  BY DEF ListIInv, ListCore
<1>2. QED
  BY <1>1, ListInvariant, PTL

\* free_vms_message_list leaves nothing, whichever allocations failed.
THEOREM ListFreed == ListSpec => []ListNothingLeaks
<1>1. ListIInv => ListNothingLeaks
  BY DEF ListIInv, ListCore, ListOwned, ListNothingLeaks
<1>2. QED
  BY <1>1, ListInvariant, PTL

\* free_vms_message_list frees only elements that were filled.
THEOREM FreedInside == ListSpec => []FreedInBounds
<1>1. ListIInv => FreedInBounds
  <2>1. SUFFICES ASSUME ListIInv, list_pc = "send", NEW k \in 1 .. count
                 PROVE  /\ k \in DOMAIN messages /\ messages[k] # Garbage
                        /\ {PayloadOf(k), IdsOf(k)} \subseteq list_live
    BY DEF FreedInBounds
  <2>2. k \in DOMAIN messages
    BY <2>1 DEF ListIInv, ListCore, ListTypeOK
  <2>3. messages[k] # Garbage
    BY <2>1 DEF ListIInv, ListCore, ListMerged, Garbage
  <2>4. QED
    BY <2>1, <2>2, <2>3 DEF ListIInv, ListCore, ListOwned
<1>2. QED
  BY <1>1, ListInvariant, PTL

\* A group's warnings are sent after all its other payloads, whichever of them were
\* merged.
THEOREM WarningsAreLast == ListSpec => []WarningsLast
<1>1. ListIInv => WarningsLast
  BY DEF ListIInv
<1>2. QED
  BY <1>1, ListInvariant, PTL

\* When main sends, every sign that is to get a payload has it in the list, but for
\* those whose own call had no memory; and nothing else is in the list.
THEOREM OnlyFailedAreLost == ListSpec => []OnlyFailedLost
<1>1. ListIInv => OnlyFailedLost
  <2>1. SUFFICES ASSUME ListIInv, list_pc = "send"
                 PROVE  Listed \subseteq Wanted /\ Wanted \ failed \subseteq Listed
    BY DEF OnlyFailedLost
  <2>2. ListComplete /\ list \in Received /\ ToSet(calls) = {}
    BY <2>1 DEF ListIInv, ListCore, ListTypeOK, ListOwned, ToSet
  <2>3. list \in Seq(ApproachEntry) /\ \A k \in 1 .. Len(list) : list[k] \in ApproachEntry
    BY <2>2, ReceivedAssumption, ListEntries
  <2>4. ASSUME NEW x \in Wanted
        PROVE  x \in Accounted
    <3>1. PICK e \in ToSet(list) : x \in WantedOf(e)
      BY <2>4 DEF Wanted
    <3>2. PICK k \in 1 .. Len(list) : e = list[k]
      BY <2>3, <3>1 DEF ToSet
    <3>3. x \in ToSet(ApproachCalls(list[k])) \cup ToSet(ConflictCalls(list[k]))
      BY <2>3, <3>1, <3>2, WantedCalls
    <3>4. QED
      BY <2>1, <2>2, <3>3 DEF ListComplete
  <2>5. QED
    BY <2>1, <2>2, <2>4 DEF ListComplete, Accounted
<1>2. QED
  BY <1>1, ListInvariant, PTL

\* With memory for all, what main sends is the calls grouped by payload, in the order of
\* the first calls: every entry, either pass, whatever payloads and groups coincide.
THEOREM CallsAreGrouped == ListSpec => []ListIsGrouping
<1>1. ListIInv => ListIsGrouping
  <2> SUFFICES ASSUME ListIInv, list_pc = "send", failed = {} PROVE Grouping(AllCalls)
    BY DEF ListIsGrouping
  <2>1. list \in Received /\ calls = << >> /\ Grouping(Made)
    BY DEF ListIInv, ListCore, ListTypeOK, ListOwned, ListGrouped
  <2>2. Stage = 2 * Len(list) /\ Len(calls) = 0
    BY <2>1 DEF Stage
  <2>3. ASSUME NEW c \in AllCalls
        PROVE  c[1] < Stage \/ (c[1] = Stage /\ c[2] <= Len(CallsOf(Stage)) - Len(calls))
    <3>1. /\ c[1] \in 1 .. 2 * Len(list) /\ c[2] \in 1 .. Len(CallsOf(c[1]))
          /\ Len(CallsOf(c[1])) \in Nat /\ Len(list) \in Nat
      BY <2>1, CallsAt
    <3>2. c[1] = Stage => c[2] <= Len(CallsOf(Stage)) - Len(calls)
      BY <2>2, <3>1
    <3>3. QED
      BY <2>2, <3>1, <3>2
  <2>4. Made = AllCalls
    BY <2>3 DEF Made
  <2>5. QED
    BY <2>1, <2>4
<1>2. QED
  BY ListInvariant, <1>1, PTL

=============================================================================
