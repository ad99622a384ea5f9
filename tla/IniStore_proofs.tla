--------------------------- MODULE IniStore_proofs ---------------------------
(* Proofs about IniStore: for every file, every list of calls, any number of  *)
(* readers, every bound on the faults and, where a theorem says so, one writer. *)
EXTENDS IniStore, FiniteSetTheorems, WellFoundedInduction, TLAPS

-----------------------------------------------------------------------------
(* Helpers.                                                                 *)

\* A set of numbers that is not empty has a least one.
LEMMA LeastOf ==
  ASSUME NEW I, I \subseteq Nat, I # {}
  PROVE  Min(I) \in I
<1>1. \E x \in I : \A y \in I : x <= y
  <2>1. IsWellFoundedOn(OpToRel(<, Nat), Nat)
    BY NatLessThanWellFounded
  <2>2. PICK x \in I : \A y \in I : ~(<<y, x>> \in OpToRel(<, Nat))
    BY <2>1, WFMin
  <2>3. \A y \in I : ~(y < x)
    BY <2>2 DEF OpToRel
  <2>4. QED
    BY <2>3
<1>2. QED
  BY <1>1 DEF Min

\* The image of a function has no more members than its domain.
LEMMA ImageIsSmall ==
  ASSUME NEW S, NEW T, IsFiniteSet(S), NEW f \in [S -> T], NEW I, I = {f[x] : x \in S}
  PROVE  IsFiniteSet(I) /\ Cardinality(I) <= Cardinality(S)
<1>1. f \in Surjection(S, I)
  BY DEF Surjection
<1>2. QED
  BY <1>1, FS_Surjection

\* A set in two parts has no more members than they have.
LEMMA UnionIsSmall ==
  ASSUME NEW S, IsFiniteSet(S), NEW T, IsFiniteSet(T), NEW m \in Nat, NEW n \in Nat,
         Cardinality(S) <= m, Cardinality(T) <= n
  PROVE  IsFiniteSet(S \cup T) /\ Cardinality(S \cup T) <= m + n
<1>1. /\ IsFiniteSet(S \cup T)
      /\ Cardinality(S \cup T) = Cardinality(S) + Cardinality(T) - Cardinality(S \cap T)
  BY FS_Union
<1>2. IsFiniteSet(S \cap T)
  BY FS_Intersection
<1>3. Cardinality(S) \in Nat /\ Cardinality(T) \in Nat /\ Cardinality(S \cap T) \in Nat
  BY <1>2, FS_CardinalityType
<1>4. QED
  BY <1>1, <1>3

\* There is a file that is not used.
LEMMA NewFileIsNew ==
  ASSUME TypeOK
  PROVE  NewFile \in Inodes /\ NewFile \notin Used /\ NewFile # 0
<1> DEFINE n == Cardinality(Procs)
           N == {dir[x] : x \in Names}
           R == {fdr[x] : x \in Procs}
           W == {fdw[x] : x \in Procs}
<1>1. IsFiniteSet(Procs) /\ n \in Nat
  BY ProcsAssumption, FS_CardinalityType
<1>2. IsFiniteSet(R) /\ Cardinality(R) <= n /\ IsFiniteSet(W) /\ Cardinality(W) <= n
  <2>1. fdr \in [Procs -> Inodes \cup {0}] /\ fdw \in [Procs -> Inodes \cup {0}]
    BY DEF TypeOK
  <2> HIDE DEF R, W
  <2>2. IsFiniteSet(R) /\ Cardinality(R) <= n
    BY <1>1, <2>1, ImageIsSmall DEF R
  <2>3. IsFiniteSet(W) /\ Cardinality(W) <= n
    BY <1>1, <2>1, ImageIsSmall DEF W
  <2>4. QED
    BY <2>2, <2>3
<1>3. IsFiniteSet(N) /\ Cardinality(N) <= 2
  <2>1. IsFiniteSet(Names) /\ Cardinality(Names) = 2
    <3>1. Names = ({} \cup {"ini"}) \cup {"tmp"} /\ "tmp" \notin {} \cup {"ini"}
      BY DEF Names
    <3>2. IsFiniteSet({} \cup {"ini"}) /\ Cardinality({} \cup {"ini"}) = 1
      BY FS_EmptySet, FS_AddElement
    <3>3. QED
      BY <3>1, <3>2, FS_AddElement
  <2>2. dir \in [Names -> Inodes \cup {0}]
    BY DEF TypeOK
  <2> HIDE DEF N
  <2>3. IsFiniteSet(N) /\ Cardinality(N) <= Cardinality(Names)
    BY <2>1, <2>2, ImageIsSmall DEF N
  <2>4. QED
    BY <2>1, <2>3
<1>4. Used = (N \cup R) \cup W
  BY DEF Used
<1>5. IsFiniteSet(Used) /\ Cardinality(Used) <= 2 + n + n
  <2>1. IsFiniteSet(N \cup R) /\ Cardinality(N \cup R) <= 2 + n
    BY <1>1, <1>2, <1>3, UnionIsSmall
  <2>2. 2 + n \in Nat
    BY <1>1
  <2>3. QED
    BY <1>1, <1>2, <1>4, <2>1, <2>2, UnionIsSmall
<1>6. Inodes \ Used # {}
  <2>1. SUFFICES ASSUME Inodes \subseteq Used PROVE FALSE
    OBVIOUS
  <2>2. Cardinality(Inodes) <= Cardinality(Used)
    BY <2>1, <1>5, FS_Subset
  <2>3. Cardinality(Inodes) \in Nat /\ Cardinality(Used) \in Nat
    BY <1>5, InodesAssumption, FS_CardinalityType
  <2>4. QED
    BY <1>1, <1>5, <2>2, <2>3, InodesAssumption
<1>7. QED
  BY <1>6, LeastOf, InodesAssumption DEF NewFile

\* A reader goes from a key to a key.
LEMMA KeysFollow ==
  /\ Min(Keys) \in Keys
  /\ \A r : NextKey(r) \in Keys
<1>1. Min(Keys) \in Keys
  BY KeysAssumption, LeastOf
<1>2. ASSUME NEW r PROVE NextKey(r) \in Keys
  <2> DEFINE above == {k \in Keys : k > key[r]}
  <2>1. above # {} => Min(above) \in above
    BY KeysAssumption, LeastOf
  <2>2. QED
    BY <1>1, <2>1 DEF NextKey
<1>3. QED
  BY <1>1, <1>2

LEMMA EmptyType ==
  /\ Empty \in [Keys -> Values \cup {Absent}]
  /\ Empty \in [Keys -> Values \cup {Absent, Torn}]
BY DEF Empty

\* Going on to a step, and returning from a call.
LEMMA Going ==
  ASSUME TypeOK, NEW p \in Procs, NEW l \in Steps, Goto(p, l)
  PROVE  pc' \in [Procs -> Steps] /\ pc'[p] = l /\ \A q \in Procs \ {p} : pc'[q] = pc[q]
BY DEF TypeOK, Goto

LEMMA Returning ==
  ASSUME TypeOK, NEW w \in Writers, todo[w] # << >>, NEW v \in 0 .. 1, Return(w, v)
  PROVE  /\ ret' \in [Writers -> -1 .. 1] /\ ret'[w] = v
         /\ todo' \in [Writers -> Seq(Request)] /\ todo'[w] = Tail(todo[w])
         /\ \A u \in Writers \ {w} : ret'[u] = ret[u] /\ todo'[u] = todo[u]
         /\ pc' \in [Procs -> Steps] /\ pc'[w] = "idle"
         /\ \A q \in Procs \ {w} : pc'[q] = pc[q]
<1>1. /\ pc' \in [Procs -> Steps] /\ pc'[w] = "idle"
      /\ \A q \in Procs \ {w} : pc'[q] = pc[q]
  BY Going DEF Return, Procs, Steps
<1>2. Tail(todo[w]) \in Seq(Request)
  BY DEF TypeOK
<1>3. QED
  BY <1>1, <1>2 DEF TypeOK, Return

\* The call under way.
LEMMA Call ==
  ASSUME TypeOK, NEW w \in Writers, todo[w] # << >>
  PROVE  Req(w) \in Request /\ Req(w).key \in Keys /\ Req(w).value \in Values \cup {Absent}
<1>1. todo[w] \in Seq(Request)
  BY DEF TypeOK
<1>2. Req(w) \in Request
  BY <1>1 DEF Req
<1>3. QED
  BY <1>2 DEF Request

LEMMA NewSettings ==
  ASSUME TypeOK, NEW w \in Writers, todo[w] # << >>
  PROVE  /\ OnlyNew(w) \in [Keys -> Values \cup {Absent}]
         /\ OnlyNew(w) \in [Keys -> Values \cup {Absent, Torn}]
BY Call, EmptyType DEF OnlyNew

-----------------------------------------------------------------------------
(* Types: one lemma per group of steps.                                     *)

\* What is open and what is left is known at each step.
LEMMA Open ==
  ASSUME IInv, NEW w \in Writers
  PROVE  /\ w \in Procs
         /\ pc[w] # "idle" => todo[w] # << >>
         /\ pc[w] \in Reading => fdr[w] \in Inodes
         /\ pc[w] \in Writing => fdw[w] \in Inodes
BY DEF IInv, TypeOK, Descriptors, Opened, Procs

LEMMA OpenByReader ==
  ASSUME IInv, NEW r \in Readers
  PROVE  /\ r \in Procs /\ key[r] \in Keys
         /\ pc[r] \in {"lock", "look"} => fdr[r] \in Inodes /\ reads[r] > 0
BY DEF IInv, TypeOK, Descriptors, Opened, Procs, Reading

LEMMA LockType ==
  ASSUME TypeOK, NEW p \in Procs, NEW fd \in {"r", "w"}, NEW file \in Inodes,
         NEW mode \in {"SH", "EX"}, Lock(p, fd, file, mode)
  PROVE  locks' \subseteq [file : Inodes, proc : Procs, fd : {"r", "w"}, mode : {"SH", "EX"}]
BY DEF TypeOK, Lock

LEMMA TypesLook ==
  ASSUME IInv, NEW w \in Writers, PutsOpen(w) \/ PutsLock(w) \/ PutsLook(w)
  PROVE  TypeOK'
<1> USE DEF IInv
<1>1. w \in Procs /\ {"idle", "create", "lock", "look", "place", "temp"} \subseteq Steps
  BY DEF Procs, Steps, Reading
<1>2. CASE PutsOpen(w)
  <2>1. /\ todo' \in [Writers -> Seq(Request)] /\ ret' \in [Writers -> -1 .. 1]
        /\ pc' \in [Procs -> Steps]
    <3>1. CASE Return(w, 1)
      BY <1>2, <3>1, Returning DEF PutsOpen
    <3>2. CASE (Goto(w, "create") \/ Goto(w, "lock")) /\ UNCHANGED <<todo, ret>>
      BY <1>1, <3>2, Going DEF TypeOK
    <3>3. QED
      BY <1>2, <3>1, <3>2 DEF PutsOpen
  <2>2. fdr' \in [Procs -> Inodes \cup {0}]
    BY <1>1, <1>2 DEF PutsOpen, TypeOK, Names
  <2>3. QED
    BY <1>2, <2>1, <2>2 DEF PutsOpen, TypeOK, readerVars, faults
<1>3. CASE PutsLock(w)
  <2>1. fdr[w] \in Inodes
    BY <1>3, Open DEF PutsLock, Reading
  <2>2. pc' \in [Procs -> Steps]
    BY <1>1, <1>3, Going DEF PutsLock
  <2>3. locks' \subseteq [file : Inodes, proc : Procs, fd : {"r", "w"}, mode : {"SH", "EX"}]
    BY <1>1, <1>3, <2>1, LockType DEF PutsLock
  <2>4. QED
    BY <1>3, <2>2, <2>3 DEF PutsLock, TypeOK, readerVars, faults
<1>4. CASE PutsLook(w)
  <2>1. fdr[w] \in Inodes /\ todo[w] # << >>
    BY <1>4, Open DEF PutsLook, Reading
  <2>2. /\ todo' \in [Writers -> Seq(Request)] /\ ret' \in [Writers -> -1 .. 1]
        /\ pc' \in [Procs -> Steps]
    <3>1. CASE Return(w, 1)
      BY <2>1, <3>1, Returning
    <3>2. CASE (Goto(w, "place") \/ Goto(w, "temp")) /\ UNCHANGED <<todo, ret>>
      BY <1>1, <3>2, Going DEF TypeOK
    <3>3. QED
      BY <1>4, <3>1, <3>2 DEF PutsLook
  <2>3. buf' \in [Writers -> [Keys -> Values \cup {Absent, Torn}]]
    BY <1>4, <2>1 DEF PutsLook, TypeOK
  <2>4. fdr' \in [Procs -> Inodes \cup {0}]
    BY <1>1, <1>4 DEF PutsLook, TypeOK
  <2>5. locks' \subseteq locks
    BY <1>4 DEF PutsLook, Unlocked
  <2>6. QED
    BY <1>4, <2>2, <2>3, <2>4, <2>5 DEF PutsLook, TypeOK, readerVars, faults
<1>5. QED
  BY <1>2, <1>3, <1>4

LEMMA TypesPlace ==
  ASSUME IInv, NEW w \in Writers, PlaceOpen(w) \/ PlaceLock(w) \/ PlaceWrite(w)
  PROVE  TypeOK'
<1> USE DEF IInv
<1>1. w \in Procs /\ {"lockplace", "write"} \subseteq Steps
  BY DEF Procs, Steps, Writing, Excluding
<1>2. CASE PlaceOpen(w)
  <2>1. todo[w] # << >>
    BY <1>2, Open DEF PlaceOpen
  <2>2. /\ todo' \in [Writers -> Seq(Request)] /\ ret' \in [Writers -> -1 .. 1]
        /\ pc' \in [Procs -> Steps]
    <3>1. CASE Return(w, 0)
      BY <2>1, <3>1, Returning
    <3>2. CASE Goto(w, "lockplace") /\ UNCHANGED <<todo, ret>>
      BY <1>1, <3>2, Going DEF TypeOK
    <3>3. QED
      BY <1>2, <3>1, <3>2 DEF PlaceOpen
  <2>3. fdw' \in [Procs -> Inodes \cup {0}]
    BY <1>1, <1>2 DEF PlaceOpen, TypeOK, Names
  <2>4. QED
    BY <1>2, <2>2, <2>3 DEF PlaceOpen, TypeOK, readerVars, faults
<1>3. CASE PlaceLock(w)
  <2>1. fdw[w] \in Inodes
    BY <1>3, Open DEF PlaceLock, Writing
  <2>2. pc' \in [Procs -> Steps]
    BY <1>1, <1>3, Going DEF PlaceLock
  <2>3. locks' \subseteq [file : Inodes, proc : Procs, fd : {"r", "w"}, mode : {"SH", "EX"}]
    BY <1>1, <1>3, <2>1, LockType DEF PlaceLock
  <2>4. QED
    BY <1>3, <2>2, <2>3 DEF PlaceLock, TypeOK, readerVars, faults
<1>4. CASE PlaceWrite(w)
  <2>1. fdw[w] \in Inodes /\ todo[w] # << >>
    BY <1>4, Open DEF PlaceWrite, Writing, Excluding
  <2>2. /\ todo' \in [Writers -> Seq(Request)] /\ ret' \in [Writers -> -1 .. 1]
        /\ pc' \in [Procs -> Steps]
    BY <1>4, <2>1, Returning DEF PlaceWrite
  <2>3. content' \in [Inodes -> [Keys -> Values \cup {Absent, Torn}]]
    <3> DEFINE new == IF /\ content[fdw[w]][Req(w).key] \in Values
                         /\ Place(content[fdw[w]], Req(w).key) = Place(buf[w], Req(w).key)
                         /\ Width[content[fdw[w]][Req(w).key]] = Width[Req(w).value]
                      THEN Req(w).value ELSE Torn
    <3>1. content' = [content EXCEPT ![fdw[w]][Req(w).key] = new]
      BY <1>4 DEF PlaceWrite, TypeOK
    <3>2. new \in Values \cup {Absent, Torn}
      BY <2>1, Call
    <3> HIDE DEF new
    <3>3. QED
      BY <2>1, <3>1, <3>2 DEF TypeOK
  <2>4. fdw' \in [Procs -> Inodes \cup {0}]
    BY <1>1, <1>4 DEF PlaceWrite, TypeOK
  <2>5. locks' \subseteq locks
    BY <1>4 DEF PlaceWrite, Unlocked
  <2>6. QED
    BY <1>4, <2>2, <2>3, <2>4, <2>5 DEF PlaceWrite, TypeOK, readerVars, faults
<1>5. QED
  BY <1>2, <1>3, <1>4

\* The file of a name that is opened to write, or made.
LEMMA TruncatedFile ==
  ASSUME TypeOK, NEW w \in Writers, NEW name \in Names, NEW lock, OpenTruncated(w, name, lock)
  PROVE  \E f \in Inodes :
           /\ f = dir[name] \/ (dir[name] = 0 /\ f \notin Used)
           /\ f # 0 /\ dir' = [dir EXCEPT ![name] = f] /\ fdw' = [fdw EXCEPT ![w] = f]
           /\ content' = [content EXCEPT ![f] = Empty]
           /\ Goto(w, lock)
           /\ UNCHANGED <<locks, fdr, todo, buf, ret, readerVars, faults>>
<1> DEFINE f == IF dir[name] # 0 THEN dir[name] ELSE NewFile
<1>1. /\ f \in Inodes /\ f # 0
      /\ f = dir[name] \/ (dir[name] = 0 /\ f \notin Used)
  BY NewFileIsNew DEF TypeOK
<1>2. /\ dir' = [dir EXCEPT ![name] = f] /\ fdw' = [fdw EXCEPT ![w] = f]
      /\ content' = [content EXCEPT ![f] = Empty] /\ Goto(w, lock)
      /\ UNCHANGED <<locks, fdr, todo, buf, ret, readerVars, faults>>
  BY DEF OpenTruncated
<1> HIDE DEF f
<1>3. QED
  BY <1>1, <1>2

LEMMA TypesWriteOpen ==
  ASSUME IInv, NEW w \in Writers,
         CreateOpen(w) \/ CreateNew(w) \/ TempOpen(w) \/ TempNew(w)
  PROVE  TypeOK'
<1> USE DEF IInv
<1>1. w \in Procs /\ {"locknew", "makenew", "locktemp", "maketemp"} \subseteq Steps
  BY DEF Procs, Steps, Writing
<1>2. CASE CreateOpen(w) \/ TempOpen(w)
  <2>1. PICK name \in Names, lock \in {"locknew", "locktemp"}, missing \in {"makenew", "maketemp"} :
          OpenExisting(w, name, lock, missing)
    BY <1>2 DEF CreateOpen, TempOpen, Names
  <2>2. pc' \in [Procs -> Steps]
    BY <1>1, <2>1, Going DEF OpenExisting
  <2>3. fdw' \in [Procs -> Inodes \cup {0}]
    BY <1>1, <2>1 DEF OpenExisting, TypeOK
  <2>4. QED
    BY <2>1, <2>2, <2>3 DEF OpenExisting, TypeOK, readerVars, faults
<1>3. CASE CreateNew(w) \/ TempNew(w)
  <2>1. PICK name \in Names, lock \in {"locknew", "locktemp"} : OpenTruncated(w, name, lock)
    BY <1>3 DEF CreateNew, TempNew, Names
  <2>2. PICK f \in Inodes :
          /\ dir' = [dir EXCEPT ![name] = f] /\ fdw' = [fdw EXCEPT ![w] = f]
          /\ content' = [content EXCEPT ![f] = Empty] /\ Goto(w, lock)
          /\ UNCHANGED <<locks, fdr, todo, buf, ret, readerVars, faults>>
    BY <2>1, TruncatedFile
  <2>3. pc' \in [Procs -> Steps]
    BY <1>1, <2>2, Going
  <2>4. /\ dir' \in [Names -> Inodes \cup {0}] /\ fdw' \in [Procs -> Inodes \cup {0}]
        /\ content' \in [Inodes -> [Keys -> Values \cup {Absent, Torn}]]
    BY <1>1, <2>2, EmptyType DEF TypeOK
  <2>5. QED
    BY <2>2, <2>3, <2>4 DEF TypeOK, readerVars, faults
<1>4. QED
  BY <1>2, <1>3

LEMMA TypesCopy ==
  ASSUME IInv, NEW w \in Writers,
         WriteLock(w) \/ Truncate(w) \/ CopyOpen(w) \/ CopyLock(w) \/ Copy(w)
  PROVE  TypeOK'
<1> USE DEF IInv
<1>1. w \in Procs /\ {"truncnew", "trunctemp", "closelast"} \cup Copying \subseteq Steps
  BY DEF Procs, Steps, Writing, Excluding
<1>2. CASE WriteLock(w)
  <2>1. fdw[w] \in Inodes
    BY <1>2, Open DEF WriteLock, Writing
  <2>2. pc' \in [Procs -> Steps]
    BY <1>1, <1>2, Going DEF WriteLock
  <2>3. locks' \subseteq [file : Inodes, proc : Procs, fd : {"r", "w"}, mode : {"SH", "EX"}]
    BY <1>1, <1>2, <2>1, LockType DEF WriteLock
  <2>4. QED
    BY <1>2, <2>2, <2>3 DEF WriteLock, TypeOK, readerVars, faults
<1>3. CASE Truncate(w)
  <2>1. fdw[w] \in Inodes /\ todo[w] # << >>
    BY <1>3, Open DEF Truncate, Writing, Excluding
  <2>2. pc' \in [Procs -> Steps]
    BY <1>1, <1>3, Going DEF Truncate, Copying
  <2>3. buf' \in [Writers -> [Keys -> Values \cup {Absent, Torn}]]
    BY <1>3, <2>1, NewSettings DEF Truncate, TypeOK
  <2>4. content' \in [Inodes -> [Keys -> Values \cup {Absent, Torn}]]
    BY <1>3, <2>1, EmptyType DEF Truncate, TypeOK
  <2>5. QED
    BY <1>3, <2>2, <2>3, <2>4 DEF Truncate, TypeOK, readerVars, faults
<1>4. CASE CopyOpen(w)
  <2>1. todo[w] # << >>
    BY <1>4, Open DEF CopyOpen
  <2>2. pc' \in [Procs -> Steps]
    BY <1>1, <1>4, Going DEF CopyOpen, Copying
  <2>3. buf' \in [Writers -> [Keys -> Values \cup {Absent, Torn}]]
    BY <1>4, <2>1, NewSettings DEF CopyOpen, TypeOK
  <2>4. fdr' \in [Procs -> Inodes \cup {0}]
    BY <1>1, <1>4 DEF CopyOpen, TypeOK, Names
  <2>5. QED
    BY <1>4, <2>2, <2>3, <2>4 DEF CopyOpen, TypeOK, readerVars, faults
<1>5. CASE CopyLock(w)
  <2>1. fdr[w] \in Inodes
    BY <1>5, Open DEF CopyLock, Reading
  <2>2. pc' \in [Procs -> Steps]
    BY <1>1, <1>5, Going DEF CopyLock, Copying
  <2>3. locks' \subseteq [file : Inodes, proc : Procs, fd : {"r", "w"}, mode : {"SH", "EX"}]
    BY <1>1, <1>5, <2>1, LockType DEF CopyLock
  <2>4. QED
    BY <1>5, <2>2, <2>3 DEF CopyLock, TypeOK, readerVars, faults
<1>6. CASE Copy(w)
  <2>1. fdr[w] \in Inodes /\ todo[w] # << >>
    BY <1>6, Open DEF Copy, Reading
  <2>2. pc' \in [Procs -> Steps]
    BY <1>1, <1>6, Going DEF Copy, Copying
  <2>3. buf' \in [Writers -> [Keys -> Values \cup {Absent, Torn}]]
    BY <1>6, <2>1, Call DEF Copy, TypeOK
  <2>4. fdr' \in [Procs -> Inodes \cup {0}]
    BY <1>1, <1>6 DEF Copy, TypeOK
  <2>5. locks' \subseteq locks
    BY <1>6 DEF Copy, Unlocked
  <2>6. QED
    BY <1>6, <2>2, <2>3, <2>4, <2>5 DEF Copy, TypeOK, readerVars, faults
<1>7. QED
  BY <1>2, <1>3, <1>4, <1>5, <1>6

LEMMA TypesClose ==
  ASSUME IInv, NEW w \in Writers, Close(w) \/ Rename(w) \/ Crash(w) \/ Aborts(w)
  PROVE  TypeOK'
<1> USE DEF IInv
<1>1. w \in Procs /\ {"idle", "rename"} \subseteq Steps
  BY DEF Procs, Steps
<1>2. CASE Close(w)
  <2>1. fdw[w] \in Inodes /\ todo[w] # << >>
    BY <1>2, Open DEF Close, Writing, Excluding, Copying
  <2>2. /\ todo' \in [Writers -> Seq(Request)] /\ ret' \in [Writers -> -1 .. 1]
        /\ pc' \in [Procs -> Steps]
    <3>1. CASE Return(w, 1)
      BY <2>1, <3>1, Returning
    <3>2. CASE Goto(w, "rename") /\ UNCHANGED <<todo, ret>>
      BY <1>1, <3>2, Going DEF TypeOK
    <3>3. QED
      BY <1>2, <3>1, <3>2 DEF Close
  <2>3. /\ content' \in [Inodes -> [Keys -> Values \cup {Absent, Torn}]]
        /\ fdw' \in [Procs -> Inodes \cup {0}]
    BY <1>1, <1>2, <2>1 DEF Close, TypeOK
  <2>4. locks' \subseteq locks
    BY <1>2 DEF Close, Unlocked
  <2>5. QED
    BY <1>2, <2>2, <2>3, <2>4 DEF Close, TypeOK, readerVars, faults
<1>3. CASE Rename(w)
  <2>1. todo[w] # << >>
    BY <1>3, Open DEF Rename
  <2>2. /\ todo' \in [Writers -> Seq(Request)] /\ ret' \in [Writers -> -1 .. 1]
        /\ pc' \in [Procs -> Steps]
    BY <1>3, <2>1, Returning DEF Rename
  <2>3. dir' \in [Names -> Inodes \cup {0}]
    BY <1>3 DEF Rename, TypeOK, Names
  <2>4. QED
    BY <1>3, <2>2, <2>3 DEF Rename, TypeOK, readerVars, faults
<1>4. CASE Crash(w) \/ Aborts(w)
  <2>1. pc' \in [Procs -> Steps]
    BY <1>1, <1>4, Going DEF Crash, Aborts, Dies
  <2>2. locks' \subseteq locks
    BY <1>4 DEF Crash, Aborts, Dies, Unlocked
  <2>3. fdr' \in [Procs -> Inodes \cup {0}] /\ fdw' \in [Procs -> Inodes \cup {0}]
    BY <1>1, <1>4 DEF Crash, Aborts, Dies, TypeOK
  <2>4. crashes' \in Nat /\ removals' \in Nat /\ crashes' + removals' <= MaxFaults
    BY <1>4, BoundsAssumption DEF Crash, Aborts, Dies, TypeOK
  <2>5. QED
    BY <1>4, <2>1, <2>2, <2>3, <2>4 DEF Crash, Aborts, Dies, TypeOK, readerVars
<1>5. QED
  BY <1>2, <1>3, <1>4

LEMMA TypesRead ==
  ASSUME IInv, NEW r \in Readers, Reader(r)
  PROVE  TypeOK'
<1> USE DEF IInv
<1>1. r \in Procs /\ {"idle", "lock", "look"} \subseteq Steps /\ key[r] \in Keys
  BY DEF Procs, Steps, Reading, TypeOK
<1>2. ASSUME NEW v \in Values \cup {Absent, Torn}, GotValue(r, v), reads[r] > 0
      PROVE  /\ got' \in [Readers -> Values \cup {Absent, Torn}] /\ key' \in [Readers -> Keys]
             /\ reads' \in [Readers -> 0 .. MaxReads]
  <2>1. reads[r] - 1 \in 0 .. MaxReads
    BY <1>2, BoundsAssumption DEF TypeOK
  <2>2. QED
    BY <1>2, <2>1, KeysFollow DEF GotValue, TypeOK
<1>3. CASE GetsOpen(r)
  <2>1. CASE dir.ini = 0
    BY <1>2, <1>3, <2>1 DEF GetsOpen, TypeOK, faults
  <2>2. CASE dir.ini # 0
    <3>1. pc' \in [Procs -> Steps]
      BY <1>1, <1>3, <2>2, Going DEF GetsOpen
    <3>2. fdr' \in [Procs -> Inodes \cup {0}]
      BY <1>1, <1>3, <2>2 DEF GetsOpen, TypeOK, Names
    <3>3. QED
      BY <1>3, <2>2, <3>1, <3>2 DEF GetsOpen, TypeOK, readerVars, faults
  <2>3. QED
    BY <2>1, <2>2
<1>4. CASE GetsLock(r)
  <2>1. fdr[r] \in Inodes
    BY <1>4, OpenByReader DEF GetsLock
  <2>2. pc' \in [Procs -> Steps]
    BY <1>1, <1>4, Going DEF GetsLock
  <2>3. locks' \subseteq [file : Inodes, proc : Procs, fd : {"r", "w"}, mode : {"SH", "EX"}]
    BY <1>1, <1>4, <2>1, LockType DEF GetsLock
  <2>4. QED
    BY <1>4, <2>2, <2>3 DEF GetsLock, TypeOK, readerVars, faults
<1>5. CASE GetsRead(r)
  <2>1. fdr[r] \in Inodes /\ reads[r] > 0
    BY <1>5, OpenByReader DEF GetsRead
  <2>2. pc' \in [Procs -> Steps]
    BY <1>1, <1>5, Going DEF GetsRead
  <2>3. content[fdr[r]][key[r]] \in Values \cup {Absent, Torn}
    BY <1>1, <2>1 DEF TypeOK
  <2>4. fdr' \in [Procs -> Inodes \cup {0}] /\ locks' \subseteq locks
    BY <1>1, <1>5 DEF GetsRead, TypeOK, Unlocked
  <2>5. QED
    BY <1>2, <1>5, <2>1, <2>2, <2>3, <2>4 DEF GetsRead, TypeOK, faults
<1>6. QED
  BY <1>3, <1>4, <1>5 DEF Reader

LEMMA TypesRemove ==
  ASSUME IInv, Remove
  PROVE  TypeOK'
<1>1. dir' \in [Names -> Inodes \cup {0}]
  BY DEF IInv, TypeOK, Remove, Names
<1>2. crashes' \in Nat /\ removals' \in Nat /\ crashes' + removals' <= MaxFaults
  BY BoundsAssumption DEF IInv, TypeOK, Remove
<1>3. QED
  BY <1>1, <1>2 DEF IInv, TypeOK, Remove, readerVars

LEMMA TypesInit == Init => TypeOK
<1> SUFFICES ASSUME Init PROVE TypeOK
  OBVIOUS
<1>1. PICK n \in Present, settings \in [Keys -> Values] :
        /\ dir = [ini |-> n, tmp |-> 0]
        /\ content = [f \in Inodes |-> IF f = n THEN settings ELSE Empty]
  BY DEF Init
<1>2. dir \in [Names -> Inodes \cup {0}]
  BY <1>1, InodesAssumption DEF Names
<1>3. content \in [Inodes -> [Keys -> Values \cup {Absent, Torn}]]
  BY <1>1, EmptyType
<1>4. reads \in [Readers -> 0 .. MaxReads] /\ key \in [Readers -> Keys]
  BY KeysFollow, BoundsAssumption DEF Init
<1>5. /\ crashes \in Nat /\ removals \in Nat /\ crashes + removals <= MaxFaults
  BY BoundsAssumption DEF Init
<1>6. todo \in [Writers -> Seq(Request)] /\ buf \in [Writers -> [Keys -> Values \cup {Absent, Torn}]]
  BY RequestsAssumption, EmptyType DEF Init
<1>7. QED
  BY <1>2, <1>3, <1>4, <1>5, <1>6 DEF Init, TypeOK, Steps

-----------------------------------------------------------------------------
(* What is open: a step opens and closes files of its own process only.      *)

LEMMA OpenedByOne ==
  ASSUME IInv, NEW p \in Procs, Opened(p)',
         \A q \in Procs \ {p} :
           /\ pc'[q] = pc[q] /\ fdr'[q] = fdr[q] /\ fdw'[q] = fdw[q]
           /\ q \in Writers => todo'[q] = todo[q]
           /\ q \in Readers => reads'[q] = reads[q]
  PROVE  Descriptors'
<1> SUFFICES ASSUME NEW q \in Procs \ {p} PROVE Opened(q)'
  BY DEF Descriptors
<1>1. Opened(q)
  BY DEF IInv, Descriptors
<1>2. QED
  BY <1>1 DEF Opened

LEMMA OpenedByWriter ==
  ASSUME IInv, NEW w \in Writers, Writer(w) \/ Crash(w)
  PROVE  /\ Descriptors'
         /\ \A q \in Procs \ {w} : pc'[q] = pc[q] /\ fdr'[q] = fdr[q] /\ fdw'[q] = fdw[q]
<1>1. w \in Procs /\ w \notin Readers /\ TypeOK /\ Opened(w)
  BY ProcsAssumption DEF IInv, Procs, Descriptors
<1>2. \A q \in Procs \ {w} : pc'[q] = pc[q] /\ fdr'[q] = fdr[q] /\ fdw'[q] = fdw[q]
  BY <1>1 DEF Writer, Crash, PutsOpen, PutsLock, PutsLook, PlaceOpen, PlaceLock, PlaceWrite,
     CreateOpen, CreateNew, TempOpen, TempNew, OpenExisting, OpenTruncated, WriteLock, Truncate,
     CopyOpen, Aborts, Dies, CopyLock, Copy, Close, Rename, Return, Goto, TypeOK
<1>3. \A u \in Writers \ {w} : todo'[u] = todo[u]
  BY <1>1 DEF Writer, Crash, PutsOpen, PutsLock, PutsLook, PlaceOpen, PlaceLock, PlaceWrite,
     CreateOpen, CreateNew, TempOpen, TempNew, OpenExisting, OpenTruncated, WriteLock, Truncate,
     CopyOpen, Aborts, Dies, CopyLock, Copy, Close, Rename, Return, TypeOK
<1>4. reads' = reads
  BY DEF Writer, Crash, PutsOpen, PutsLock, PutsLook, PlaceOpen, PlaceLock, PlaceWrite,
     CreateOpen, CreateNew, TempOpen, TempNew, OpenExisting, OpenTruncated, WriteLock, Truncate,
     CopyOpen, Aborts, Dies, CopyLock, Copy, Close, Rename, readerVars
<1>5. Opened(w)'
  <2> USE <1>1 DEF Opened, TypeOK, Reading, Writing, Excluding, Copying, Goto
  <2>1. CASE PutsOpen(w)
    BY <2>1 DEF PutsOpen, Return
  <2>2. CASE PutsLock(w)
    BY <2>2 DEF PutsLock
  <2>3. CASE PutsLook(w)
    BY <2>3 DEF PutsLook, Return
  <2>4. CASE PlaceOpen(w)
    BY <2>4 DEF PlaceOpen, Return
  <2>5. CASE PlaceLock(w)
    BY <2>5 DEF PlaceLock
  <2>6. CASE PlaceWrite(w)
    BY <2>6 DEF PlaceWrite, Return
  <2>7. CASE CreateOpen(w) \/ TempOpen(w)
    BY <2>7 DEF CreateOpen, TempOpen, OpenExisting
  <2>8. CASE CreateNew(w) \/ TempNew(w)
    <3>1. PICK name \in Names, lock \in {"locknew", "locktemp"} : OpenTruncated(w, name, lock)
      BY <2>8 DEF CreateNew, TempNew, Names
    <3>2. fdw'[w] # 0 /\ pc'[w] = lock /\ fdr' = fdr /\ todo' = todo
      BY <3>1, TruncatedFile
    <3>3. pc[w] \in {"makenew", "maketemp"}
      BY <2>8 DEF CreateNew, TempNew
    <3>4. QED
      BY <3>2, <3>3
  <2>9. CASE WriteLock(w)
    BY <2>9 DEF WriteLock
  <2>10. CASE Truncate(w)
    BY <2>10 DEF Truncate
  <2>11. CASE CopyOpen(w)
    BY <2>11 DEF CopyOpen
  <2>12. CASE CopyLock(w)
    BY <2>12 DEF CopyLock
  <2>13. CASE Copy(w)
    BY <2>13 DEF Copy
  <2>14. CASE Close(w)
    BY <2>14 DEF Close, Return
  <2>15. CASE Rename(w)
    BY <2>15 DEF Rename, Return
  <2>16. CASE Crash(w) \/ Aborts(w)
    BY <2>16 DEF Crash, Aborts, Dies
  <2>17. QED
    BY <2>1, <2>2, <2>3, <2>4, <2>5, <2>6, <2>7, <2>8, <2>9, <2>10, <2>11, <2>12, <2>13, <2>14,
       <2>15, <2>16 DEF Writer
<1>6. QED
  BY <1>1, <1>2, <1>3, <1>4, <1>5, OpenedByOne

LEMMA OpenedByReader ==
  ASSUME IInv, NEW r \in Readers, Reader(r)
  PROVE  /\ Descriptors'
         /\ \A q \in Procs \ {r} : pc'[q] = pc[q] /\ fdr'[q] = fdr[q] /\ fdw'[q] = fdw[q]
<1>1. r \in Procs /\ r \notin Writers /\ TypeOK /\ Opened(r)
  BY ProcsAssumption DEF IInv, Procs, Descriptors
<1>2. \A q \in Procs \ {r} : pc'[q] = pc[q] /\ fdr'[q] = fdr[q] /\ fdw'[q] = fdw[q]
  BY <1>1 DEF Reader, GetsOpen, GetsLock, GetsRead, Goto, TypeOK
<1>3. /\ todo' = todo
      /\ \A q \in Readers \ {r} : reads'[q] = reads[q]
  BY <1>1 DEF Reader, GetsOpen, GetsLock, GetsRead, GotValue, TypeOK, readerVars
<1>4. Opened(r)'
  <2> USE <1>1 DEF Opened, TypeOK, Reading, Writing, Excluding, Copying, Goto
  <2>1. CASE GetsOpen(r)
    BY <2>1 DEF GetsOpen, GotValue, readerVars
  <2>2. CASE GetsLock(r)
    BY <2>2 DEF GetsLock, readerVars
  <2>3. CASE GetsRead(r)
    BY <2>3 DEF GetsRead, GotValue
  <2>4. QED
    BY <2>1, <2>2, <2>3 DEF Reader
<1>5. QED
  BY <1>1, <1>2, <1>3, <1>4, OpenedByOne

-----------------------------------------------------------------------------
(* Locks.                                                                   *)

\* A step takes and gives up locks of its own process only.
LEMMA LocksByOne ==
  ASSUME IInv, NEW p \in Procs,
         \A q \in Procs \ {p} : pc'[q] = pc[q] /\ fdr'[q] = fdr[q] /\ fdw'[q] = fdw[q],
         \A l \in locks' : l.proc \in Procs,
         \A l \in locks' : l.proc # p => l \in locks,
         \A l \in locks : l.proc # p => l \in locks',
         \A l \in locks' : l.proc = p =>
            \/ l = ReadLock(p)' /\ pc'[p] \in Sharing
            \/ l = WriteLockOf(p)' /\ pc'[p] \in Excluding,
         pc'[p] \in Sharing => ReadLock(p)' \in locks',
         pc'[p] \in Excluding => WriteLockOf(p)' \in locks'
  PROVE  LocksHeld'
<1>1. LocksHeld
  BY DEF IInv
<1>2. \A q \in Procs \ {p} : ReadLock(q)' = ReadLock(q) /\ WriteLockOf(q)' = WriteLockOf(q)
  BY DEF ReadLock, WriteLockOf
<1>3. ASSUME NEW l \in locks'
      PROVE  \/ l = ReadLock(l.proc)' /\ pc'[l.proc] \in Sharing
             \/ l = WriteLockOf(l.proc)' /\ pc'[l.proc] \in Excluding
  <2>1. CASE l.proc = p
    BY <2>1
  <2>2. CASE l.proc # p
    BY <1>1, <1>2, <2>2 DEF LocksHeld
  <2>3. QED
    BY <2>1, <2>2
<1>4. ASSUME NEW q \in Procs
      PROVE  /\ pc'[q] \in Sharing => ReadLock(q)' \in locks'
             /\ pc'[q] \in Excluding => WriteLockOf(q)' \in locks'
  <2>1. CASE q = p
    BY <2>1
  <2>2. CASE q # p
    <3>1. ReadLock(q).proc = q /\ WriteLockOf(q).proc = q
      BY DEF ReadLock, WriteLockOf
    <3>2. QED
      BY <1>1, <1>2, <2>2, <3>1 DEF LocksHeld
  <2>3. QED
    BY <2>1, <2>2
<1>5. QED
  <2>1. \A l \in locks' : \/ l = ReadLock(l.proc)' /\ pc'[l.proc] \in Sharing
                          \/ l = WriteLockOf(l.proc)' /\ pc'[l.proc] \in Excluding
    BY <1>3
  <2>2. \A q \in Procs : /\ pc'[q] \in Sharing => ReadLock(q)' \in locks'
                         /\ pc'[q] \in Excluding => WriteLockOf(q)' \in locks'
    BY <1>4
  <2>3. QED
    BY <2>1, <2>2, Zenon DEF LocksHeld

\* The locks of a process before the step.
LEMMA OwnLocks ==
  ASSUME IInv, NEW p \in Procs
  PROVE  /\ \A l \in locks :
              l.proc = p => \/ l = ReadLock(p) /\ pc[p] \in Sharing
                            \/ l = WriteLockOf(p) /\ pc[p] \in Excluding
         /\ pc[p] \in Sharing => ReadLock(p) \in locks
         /\ pc[p] \in Excluding => WriteLockOf(p) \in locks
BY DEF IInv, LocksHeld

\* A process that takes a lock to read, or to write, has it then, and keeps the other.
LEMMA TakesRead ==
  ASSUME IInv, NEW p \in Procs,
         \A q \in Procs \ {p} : pc'[q] = pc[q] /\ fdr'[q] = fdr[q] /\ fdw'[q] = fdw[q],
         Lock(p, "r", fdr[p], "SH"), fdr' = fdr, fdw' = fdw,
         pc[p] \notin Sharing, pc'[p] \in Sharing, pc[p] \in Excluding <=> pc'[p] \in Excluding
  PROVE  LocksHeld'
<1>1. locks' = locks \cup {ReadLock(p)} /\ ReadLock(p).proc = p
  BY DEF Lock, ReadLock
<1>2. ReadLock(p)' = ReadLock(p) /\ WriteLockOf(p)' = WriteLockOf(p)
  BY DEF ReadLock, WriteLockOf
<1>3. \A l \in locks : l.proc \in Procs
  BY DEF IInv, TypeOK
<1>4. QED
  BY <1>1, <1>2, <1>3, OwnLocks, LocksByOne

LEMMA TakesWrite ==
  ASSUME IInv, NEW p \in Procs,
         \A q \in Procs \ {p} : pc'[q] = pc[q] /\ fdr'[q] = fdr[q] /\ fdw'[q] = fdw[q],
         Lock(p, "w", fdw[p], "EX"), fdr' = fdr, fdw' = fdw,
         pc[p] \notin Excluding, pc'[p] \in Excluding, pc[p] \in Sharing <=> pc'[p] \in Sharing
  PROVE  LocksHeld'
<1>1. locks' = locks \cup {WriteLockOf(p)} /\ WriteLockOf(p).proc = p
  BY DEF Lock, WriteLockOf
<1>2. ReadLock(p)' = ReadLock(p) /\ WriteLockOf(p)' = WriteLockOf(p)
  BY DEF ReadLock, WriteLockOf
<1>3. \A l \in locks : l.proc \in Procs
  BY DEF IInv, TypeOK
<1>4. QED
  BY <1>1, <1>2, <1>3, OwnLocks, LocksByOne

\* A process that gives up locks has what it keeps open locked as before.
LEMMA GivesUp ==
  ASSUME IInv, NEW p \in Procs, NEW fds, locks' = Unlocked(p, fds),
         \A q \in Procs \ {p} : pc'[q] = pc[q] /\ fdr'[q] = fdr[q] /\ fdw'[q] = fdw[q],
         pc'[p] \in Sharing <=> pc[p] \in Sharing /\ "r" \notin fds,
         pc'[p] \in Excluding <=> pc[p] \in Excluding /\ "w" \notin fds,
         "r" \in fds \/ fdr'[p] = fdr[p],
         "w" \in fds \/ fdw'[p] = fdw[p]
  PROVE  LocksHeld'
<1>1. ReadLock(p).proc = p /\ WriteLockOf(p).proc = p /\ ReadLock(p).fd = "r" /\ WriteLockOf(p).fd = "w"
  BY DEF ReadLock, WriteLockOf
<1>2. "r" \notin fds => ReadLock(p)' = ReadLock(p)
  BY DEF ReadLock
<1>3. "w" \notin fds => WriteLockOf(p)' = WriteLockOf(p)
  BY DEF WriteLockOf
<1>4. \A l \in locks : l.proc \in Procs
  BY DEF IInv, TypeOK
<1>5. \A l : l \in locks' <=> l \in locks /\ ~(l.proc = p /\ l.fd \in fds)
  BY DEF Unlocked
<1>6. QED
  BY <1>1, <1>2, <1>3, <1>4, <1>5, OwnLocks, LocksByOne

\* A step without locks keeps what is locked open.
LEMMA KeepsLocks ==
  ASSUME IInv, NEW p \in Procs, locks' = locks,
         \A q \in Procs \ {p} : pc'[q] = pc[q] /\ fdr'[q] = fdr[q] /\ fdw'[q] = fdw[q],
         pc'[p] \in Sharing <=> pc[p] \in Sharing,
         pc'[p] \in Excluding <=> pc[p] \in Excluding,
         pc[p] \in Sharing => fdr'[p] = fdr[p],
         pc[p] \in Excluding => fdw'[p] = fdw[p]
  PROVE  LocksHeld'
<1>1. pc[p] \in Sharing => ReadLock(p)' = ReadLock(p)
  BY DEF ReadLock
<1>2. pc[p] \in Excluding => WriteLockOf(p)' = WriteLockOf(p)
  BY DEF WriteLockOf
<1>3. \A l \in locks : l.proc \in Procs
  BY DEF IInv, TypeOK
<1>4. QED
  BY <1>1, <1>2, <1>3, OwnLocks, LocksByOne

LEMMA LocksByWriter ==
  ASSUME IInv, NEW w \in Writers, Writer(w) \/ Crash(w)
  PROVE  LocksHeld'
<1>1. w \in Procs /\ TypeOK
  BY DEF IInv, Procs
<1>2. \A q \in Procs \ {w} : pc'[q] = pc[q] /\ fdr'[q] = fdr[q] /\ fdw'[q] = fdw[q]
  BY OpenedByWriter
<1>3. ASSUME PutsLock(w) \/ CopyLock(w) PROVE LocksHeld'
  <2>1. /\ pc[w] \notin Sharing /\ pc'[w] \in Sharing
        /\ pc[w] \in Excluding <=> pc'[w] \in Excluding
    BY <1>1, <1>3 DEF PutsLock, CopyLock, Goto, TypeOK, Sharing, Excluding, Copying
  <2>2. QED
    BY <1>1, <1>2, <1>3, <2>1, TakesRead DEF PutsLock, CopyLock
<1>4. ASSUME PlaceLock(w) \/ WriteLock(w) PROVE LocksHeld'
  <2>1. /\ pc[w] \notin Excluding /\ pc'[w] \in Excluding
        /\ pc[w] \in Sharing <=> pc'[w] \in Sharing
    BY <1>1, <1>4 DEF PlaceLock, WriteLock, Goto, TypeOK, Sharing, Excluding, Copying
  <2>2. QED
    BY <1>1, <1>2, <1>4, <2>1, TakesWrite DEF PlaceLock, WriteLock
<1>5. ASSUME PutsLook(w) \/ Copy(w) PROVE LocksHeld'
  <2>1. /\ pc'[w] \notin Sharing
        /\ pc[w] \in Excluding <=> pc'[w] \in Excluding
        /\ fdw'[w] = fdw[w]
    BY <1>1, <1>5 DEF PutsLook, Copy, Return, Goto, TypeOK, Sharing, Excluding, Copying
  <2>2. locks' = Unlocked(w, {"r"})
    BY <1>5 DEF PutsLook, Copy
  <2>3. /\ pc'[w] \in Sharing <=> pc[w] \in Sharing /\ "r" \notin {"r"}
        /\ pc'[w] \in Excluding <=> pc[w] \in Excluding /\ "w" \notin {"r"}
        /\ "r" \in {"r"} \/ fdr'[w] = fdr[w]
        /\ "w" \in {"r"} \/ fdw'[w] = fdw[w]
    BY <2>1
  <2>4. QED
    BY <1>1, <1>2, <2>2, <2>3, GivesUp
<1>6. ASSUME PlaceWrite(w) \/ Close(w) PROVE LocksHeld'
  <2>1. /\ pc'[w] \notin Excluding
        /\ pc[w] \in Sharing <=> pc'[w] \in Sharing
        /\ fdr'[w] = fdr[w]
    BY <1>1, <1>6 DEF PlaceWrite, Close, Return, Goto, TypeOK, Sharing, Excluding, Copying
  <2>2. locks' = Unlocked(w, {"w"})
    BY <1>6 DEF PlaceWrite, Close
  <2>3. /\ pc'[w] \in Sharing <=> pc[w] \in Sharing /\ "r" \notin {"w"}
        /\ pc'[w] \in Excluding <=> pc[w] \in Excluding /\ "w" \notin {"w"}
        /\ "r" \in {"w"} \/ fdr'[w] = fdr[w]
        /\ "w" \in {"w"} \/ fdw'[w] = fdw[w]
    BY <2>1
  <2>4. QED
    BY <1>1, <1>2, <2>2, <2>3, GivesUp
<1>7. ASSUME Crash(w) \/ Aborts(w) PROVE LocksHeld'
  <2>1. pc'[w] \notin Excluding /\ pc'[w] \notin Sharing
    BY <1>1, <1>7 DEF Crash, Aborts, Dies, Goto, TypeOK, Sharing, Excluding, Copying
  <2>2. locks' = Unlocked(w, {"r", "w"})
    BY <1>7 DEF Crash, Aborts, Dies
  <2>3. QED
    BY <1>1, <1>2, <2>1, <2>2, GivesUp
<1>8. ASSUME \/ PutsOpen(w) \/ PlaceOpen(w) \/ CreateOpen(w) \/ CreateNew(w) \/ TempOpen(w)
             \/ TempNew(w) \/ Truncate(w) \/ CopyOpen(w) \/ Rename(w)
      PROVE  LocksHeld'
  <2>1. /\ pc[w] \in Sharing <=> pc'[w] \in Sharing
        /\ pc[w] \in Excluding <=> pc'[w] \in Excluding
        /\ pc[w] \in Sharing => fdr'[w] = fdr[w]
        /\ pc[w] \in Excluding => fdw'[w] = fdw[w]
        /\ locks' = locks
    BY <1>1, <1>8 DEF PutsOpen, PlaceOpen, CreateOpen, CreateNew, TempOpen, TempNew, OpenExisting,
       OpenTruncated, Truncate, CopyOpen, Rename, Return, Goto, TypeOK, Sharing, Excluding, Copying
  <2>2. QED
    BY <1>1, <1>2, <2>1, KeepsLocks
<1>9. QED
  BY <1>3, <1>4, <1>5, <1>6, <1>7, <1>8 DEF Writer

LEMMA LocksByReader ==
  ASSUME IInv, NEW r \in Readers, Reader(r)
  PROVE  LocksHeld'
<1>1. r \in Procs /\ TypeOK
  BY DEF IInv, Procs
<1>2. \A q \in Procs \ {r} : pc'[q] = pc[q] /\ fdr'[q] = fdr[q] /\ fdw'[q] = fdw[q]
  BY OpenedByReader
<1>3. ASSUME GetsOpen(r) PROVE LocksHeld'
  <2>1. /\ pc[r] \in Sharing <=> pc'[r] \in Sharing
        /\ pc[r] \in Excluding <=> pc'[r] \in Excluding
        /\ pc[r] \notin Sharing /\ fdw' = fdw /\ locks' = locks
    BY <1>1, <1>3 DEF GetsOpen, Goto, TypeOK, Sharing, Excluding, Copying
  <2>2. QED
    BY <1>1, <1>2, <2>1, KeepsLocks
<1>4. ASSUME GetsLock(r) PROVE LocksHeld'
  <2>1. /\ pc[r] \notin Sharing /\ pc'[r] \in Sharing
        /\ pc[r] \in Excluding <=> pc'[r] \in Excluding
    BY <1>1, <1>4 DEF GetsLock, Goto, TypeOK, Sharing, Excluding, Copying
  <2>2. QED
    BY <1>1, <1>2, <1>4, <2>1, TakesRead DEF GetsLock
<1>5. ASSUME GetsRead(r) PROVE LocksHeld'
  <2>1. /\ pc'[r] \notin Sharing
        /\ pc[r] \in Excluding <=> pc'[r] \in Excluding
        /\ fdw' = fdw /\ locks' = Unlocked(r, {"r"})
    BY <1>1, <1>5 DEF GetsRead, Goto, TypeOK, Sharing, Excluding, Copying
  <2>2. /\ pc'[r] \in Sharing <=> pc[r] \in Sharing /\ "r" \notin {"r"}
        /\ pc'[r] \in Excluding <=> pc[r] \in Excluding /\ "w" \notin {"r"}
        /\ "r" \in {"r"} \/ fdr'[r] = fdr[r]
        /\ "w" \in {"r"} \/ fdw'[r] = fdw[r]
    BY <2>1
  <2>3. QED
    BY <1>1, <1>2, <2>1, <2>2, GivesUp
<1>6. QED
  BY <1>3, <1>4, <1>5 DEF Reader

\* Locks are taken by Lock alone.
LEMMA LockSteps ==
  ASSUME Next
  PROVE  \/ locks' \subseteq locks
         \/ \E p \in Procs, fd \in {"r", "w"}, mode \in {"SH", "EX"} : \E file : Lock(p, fd, file, mode)
<1>1. ASSUME NEW w \in Writers, Writer(w) \/ Crash(w)
      PROVE  \/ locks' \subseteq locks \/ \E file : Lock(w, "r", file, "SH") \/ Lock(w, "w", file, "EX")
  BY <1>1 DEF Writer, Crash, PutsOpen, PutsLock, PutsLook, PlaceOpen, PlaceLock, PlaceWrite,
     CreateOpen, CreateNew, TempOpen, TempNew, OpenExisting, OpenTruncated, WriteLock, Truncate,
     CopyOpen, Aborts, Dies, CopyLock, Copy, Close, Rename, Unlocked
<1>2. ASSUME NEW r \in Readers, Reader(r)
      PROVE  locks' \subseteq locks \/ \E file : Lock(r, "r", file, "SH")
  BY <1>2 DEF Reader, GetsOpen, GetsLock, GetsRead, Unlocked
<1>3. ASSUME Remove \/ UNCHANGED vars PROVE locks' \subseteq locks
  BY <1>3 DEF Remove, vars
<1>4. QED
  BY <1>1, <1>2, <1>3 DEF Next, Procs

LEMMA LocksStayExclusive ==
  ASSUME LocksExclude, Next
  PROVE  LocksExclude'
<1>1. CASE locks' \subseteq locks
  BY <1>1 DEF LocksExclude
<1>2. ASSUME NEW p, NEW fd, NEW mode, NEW file, Lock(p, fd, file, mode)
      PROVE  LocksExclude'
  BY <1>2 DEF LocksExclude, Lock, Free
<1>3. QED
  BY <1>1, <1>2, LockSteps

-----------------------------------------------------------------------------
(* The names, and the calls that are left.                                  *)

LEMMA NamesStayApart ==
  ASSUME IInv, Next
  PROVE  NamesApart'
<1> USE DEF NamesApart, Names
<1>1. TypeOK /\ NamesApart
  BY DEF IInv
<1>2. \A r \in Readers : r \in Procs /\ r \notin Writers
  BY ProcsAssumption DEF Procs
<1>3. ASSUME NEW w \in Writers, CreateNew(w) \/ TempNew(w) PROVE NamesApart'
  <2>1. PICK name \in Names, lock \in {"locknew", "locktemp"} : OpenTruncated(w, name, lock)
    BY <1>3 DEF CreateNew, TempNew
  <2>2. PICK f \in Inodes :
          /\ f = dir[name] \/ (dir[name] = 0 /\ f \notin Used)
          /\ f # 0 /\ dir' = [dir EXCEPT ![name] = f] /\ fdr' = fdr
    BY <1>1, <2>1, TruncatedFile
  <2>3. dir \in [Names -> Inodes \cup {0}]
    BY <1>1 DEF TypeOK
  <2>4. CASE f = dir[name]
    BY <1>1, <2>2, <2>3, <2>4
  <2>5. CASE f \notin Used
    <3>1. f # dir.ini /\ f # dir.tmp /\ \A p \in Procs : f # fdr[p]
      BY <2>5 DEF Used
    <3>2. QED
      BY <1>1, <1>2, <2>2, <2>3, <3>1
  <2>6. QED
    BY <2>2, <2>4, <2>5
<1>4. ASSUME NEW w \in Writers, Rename(w) PROVE NamesApart'
  BY <1>1, <1>4 DEF Rename
<1>5. ASSUME dir' = dir, \A r \in Readers : fdr'[r] = fdr[r] PROVE NamesApart'
  BY <1>1, <1>5
<1>6. ASSUME NEW w \in Writers, Writer(w) \/ Crash(w),
             ~CreateNew(w), ~TempNew(w), ~Rename(w)
      PROVE  NamesApart'
  <2>1. \A r \in Readers : fdr'[r] = fdr[r]
    BY <1>2, <1>6, OpenedByWriter
  <2>2. dir' = dir
    BY <1>6 DEF Writer, Crash, PutsOpen, PutsLock, PutsLook, PlaceOpen, PlaceLock, PlaceWrite,
       CreateOpen, TempOpen, OpenExisting, WriteLock, Truncate, CopyOpen, Aborts, Dies, CopyLock,
       Copy, Close
  <2>3. QED
    BY <1>5, <2>1, <2>2
<1>7. ASSUME NEW r \in Readers, Reader(r) PROVE NamesApart'
  <2>1. dir' = dir /\ fdr'[r] \in {fdr[r], dir.ini, 0}
    BY <1>1, <1>2, <1>7 DEF Reader, GetsOpen, GetsLock, GetsRead, TypeOK
  <2>2. \A q \in Readers \ {r} : fdr'[q] = fdr[q]
    BY <1>2, <1>7, OpenedByReader
  <2>3. QED
    BY <1>1, <2>1, <2>2
<1>8. CASE Remove
  <2>1. dir' = [dir EXCEPT !.ini = 0] /\ fdr' = fdr /\ dir \in [Names -> Inodes \cup {0}]
    BY <1>1, <1>8 DEF Remove, TypeOK
  <2>2. QED
    BY <1>1, <2>1
<1>9. CASE UNCHANGED vars
  BY <1>5, <1>9 DEF vars
<1>10. QED
  BY <1>3, <1>4, <1>6, <1>7, <1>8, <1>9 DEF Next

\* A call that returns was the first of those left.
LEMMA LeftAfterReturn ==
  ASSUME IInv, NEW w \in Writers, todo[w] # << >>, NEW v \in 0 .. 1, Return(w, v)
  PROVE  /\ Left(w)'
         /\ Req(w) = Requests[w][Len(Requests[w]) - Len(todo'[w])]
<1> DEFINE R == Requests[w]
           t == todo[w]
<1>1. R \in Seq(Request) /\ t \in Seq(Request) /\ Left(w) /\ TypeOK
  BY RequestsAssumption DEF IInv, TypeOK, CallsLeft
<1>2. todo'[w] = Tail(t)
  BY <1>1, Returning
<1>3. /\ Len(Tail(t)) = Len(t) - 1 /\ Len(t) \in Nat /\ Len(t) > 0 /\ Len(R) \in Nat
      /\ \A i \in 1 .. Len(t) - 1 : Tail(t)[i] = t[i + 1]
      /\ Head(t) = t[1]
  BY <1>1
<1>4. Len(t) <= Len(R) /\ \A i \in 1 .. Len(t) : t[i] = R[Len(R) - Len(t) + i]
  BY <1>1 DEF Left
<1> HIDE DEF R, t
<1>5. \A i \in 1 .. Len(t) - 1 : Tail(t)[i] = R[Len(R) - Len(Tail(t)) + i]
  <2>1. SUFFICES ASSUME NEW i \in 1 .. Len(t) - 1 PROVE Tail(t)[i] = R[Len(R) - Len(Tail(t)) + i]
    OBVIOUS
  <2>2. i + 1 \in 1 .. Len(t) /\ Len(R) - Len(t) + (i + 1) = Len(R) - (Len(t) - 1) + i
    BY <1>3
  <2>3. QED
    BY <1>3, <1>4, <2>2
<1>6. Left(w)'
  <2> DEFINE u == todo'[w]
  <2>1. Len(u) = Len(t) - 1 /\ \A i \in 1 .. Len(u) : u[i] = R[Len(R) - Len(u) + i]
    BY <1>2, <1>3, <1>5
  <2>2. Len(u) < Len(R)
    BY <1>3, <1>4, <2>1
  <2> HIDE DEF u
  <2>3. Len(u) <= Len(R)
    BY <1>3, <2>1, <2>2
  <2>4. QED
    BY <2>1, <2>2, <2>3, Zenon DEF Left, R, u
<1>7. t[1] = R[Len(R) - Len(t) + 1] /\ Len(R) - Len(t) + 1 = Len(R) - (Len(t) - 1)
  BY <1>3, <1>4
<1>8. QED
  BY <1>2, <1>3, <1>6, <1>7 DEF Req, R, t

\* A step of a writer returns from its call, or leaves what is left as it is.
LEMMA WriterReturns ==
  ASSUME IInv, NEW w \in Writers, Writer(w) \/ Crash(w)
  PROVE  \/ todo[w] # << >> /\ \E v \in 0 .. 1 : Return(w, v)
         \/ UNCHANGED <<todo, ret>>
<1>1. pc[w] # "idle" => todo[w] # << >>
  BY Open
<1>2. CASE PutsOpen(w) \/ PutsLook(w) \/ PlaceOpen(w) \/ PlaceWrite(w) \/ Close(w) \/ Rename(w)
  BY <1>1, <1>2 DEF PutsOpen, PutsLook, PlaceOpen, PlaceWrite, Close, Rename
<1>3. CASE \/ PutsLock(w) \/ PlaceLock(w) \/ CreateOpen(w) \/ CreateNew(w) \/ TempOpen(w)
           \/ TempNew(w) \/ WriteLock(w) \/ Truncate(w) \/ CopyOpen(w) \/ Aborts(w)
           \/ CopyLock(w) \/ Copy(w) \/ Crash(w)
  BY <1>3 DEF PutsLock, PlaceLock, CreateOpen, CreateNew, TempOpen, TempNew, OpenExisting,
     OpenTruncated, WriteLock, Truncate, CopyOpen, Aborts, Dies, CopyLock, Copy, Crash
<1>4. QED
  BY <1>2, <1>3 DEF Writer

LEMMA CallsStayLeft ==
  ASSUME IInv, Next
  PROVE  CallsLeft'
<1>1. ASSUME NEW w \in Writers, todo'[w] = todo[w], ret'[w] = ret[w] PROVE Left(w)'
  <2>1. Left(w)
    BY DEF IInv, CallsLeft
  <2>2. QED
    BY <1>1, <2>1 DEF Left
<1>2. ASSUME NEW w \in Writers, Writer(w) \/ Crash(w), NEW u \in Writers PROVE Left(u)'
  <2>1. CASE UNCHANGED <<todo, ret>>
    BY <1>1, <2>1
  <2>2. CASE todo[w] # << >> /\ \E v \in 0 .. 1 : Return(w, v)
    <3>1. PICK v \in 0 .. 1 : Return(w, v)
      BY <2>2
    <3>2. CASE u = w
      BY <2>2, <3>1, <3>2, LeftAfterReturn
    <3>3. CASE u # w
      BY <1>1, <2>2, <3>1, <3>3, Returning DEF IInv
    <3>4. QED
      BY <3>2, <3>3
  <2>3. QED
    BY <1>2, <2>1, <2>2, WriterReturns
<1>3. ASSUME Remove \/ (\E r \in Readers : Reader(r)) \/ UNCHANGED vars PROVE UNCHANGED <<todo, ret>>
  BY <1>3 DEF Remove, Reader, GetsOpen, GetsLock, GetsRead, vars
<1>4. QED
  BY <1>1, <1>2, <1>3 DEF Next, CallsLeft

-----------------------------------------------------------------------------
(* The invariant of any number of writers.                                  *)

LEMMA InvariantInit == Init => IInv
<1> SUFFICES ASSUME Init PROVE IInv
  OBVIOUS
<1>1. Descriptors
  BY DEF Init, Descriptors, Opened, Procs, Reading, Writing, Excluding, Copying
<1>2. LocksHeld /\ LocksExclude
  BY DEF Init, LocksHeld, LocksExclude, Procs, Sharing, Excluding, Copying
<1>3. NamesApart
  BY DEF Init, NamesApart, Procs
<1>4. CallsLeft
  BY RequestsAssumption DEF Init, CallsLeft, Left
<1>5. QED
  BY <1>1, <1>2, <1>3, <1>4, TypesInit DEF IInv

LEMMA InvariantStep == IInv /\ [Next]_vars => IInv'
<1> SUFFICES ASSUME IInv, [Next]_vars PROVE IInv'
  OBVIOUS
<1>1. CASE UNCHANGED vars
  <2>1. TypeOK' /\ Descriptors'
    BY <1>1 DEF vars, readerVars, faults, IInv, TypeOK, Descriptors, Opened
  <2>2. LocksHeld' /\ LocksExclude'
    BY <1>1 DEF vars, IInv, LocksHeld, ReadLock, WriteLockOf, LocksExclude
  <2>3. NamesApart' /\ CallsLeft'
    BY <1>1 DEF vars, IInv, NamesApart, CallsLeft, Left
  <2>4. QED
    BY <2>1, <2>2, <2>3 DEF IInv
<1>2. CASE Next
  <2>1. TypeOK' /\ Descriptors' /\ LocksHeld'
    <3>1. ASSUME NEW w \in Writers, Writer(w) \/ Crash(w)
          PROVE  TypeOK' /\ Descriptors' /\ LocksHeld'
      BY <3>1, TypesLook, TypesPlace, TypesWriteOpen, TypesCopy, TypesClose, OpenedByWriter,
         LocksByWriter DEF Writer
    <3>2. ASSUME NEW r \in Readers, Reader(r)
          PROVE  TypeOK' /\ Descriptors' /\ LocksHeld'
      BY <3>2, TypesRead, OpenedByReader, LocksByReader
    <3>3. CASE Remove
      <4>1. Descriptors' /\ LocksHeld'
        BY <3>3 DEF Remove, readerVars, IInv, Descriptors, Opened, LocksHeld, ReadLock, WriteLockOf
      <4>2. QED
        BY <3>3, <4>1, TypesRemove
    <3>4. QED
      BY <1>1, <1>2, <3>1, <3>2, <3>3 DEF Next, IInv
  <2>2. LocksExclude' /\ NamesApart' /\ CallsLeft'
    BY <1>2, LocksStayExclusive, NamesStayApart, CallsStayLeft DEF IInv
  <2>3. QED
    BY <2>1, <2>2 DEF IInv
<1>3. QED
  BY <1>1, <1>2

\* However many write and read, and whatever fails: what a process has open, the locks
\* it holds and the step it is at agree, and locks exclude each other.
THEOREM StoreInvariant == Spec => []IInv
<1>1. Init => IInv
  BY InvariantInit
<1>2. IInv /\ [Next]_vars => IInv'
  BY InvariantStep
<1>3. QED
  BY <1>1, <1>2, PTL DEF Spec

-----------------------------------------------------------------------------
(* One writer, w.                                                           *)

\* What is known of it before a step.
LEMMA Known ==
  ASSUME NEW w, Writers = {w}, OneIInv
  PROVE  /\ w \in Writers /\ w \in Procs /\ w \notin Readers
         /\ IInv /\ TypeOK /\ Opened(w) /\ NamesApart
         /\ NeverTorn /\ Untorn /\ SameFile(w) /\ SameLine(w) /\ Pending(w)
BY ProcsAssumption DEF OneIInv, IInv, Descriptors, Procs

\* What it opened is what the name is of, if it is of anything.
LEMMA FileByWriter ==
  ASSUME NEW w, Writers = {w}, OneIInv, Writer(w) \/ Crash(w)
  PROVE  SameFile(w)'
<1>0. ASSUME NEW name \in Names, NEW lock, OpenTruncated(w, name, lock)
      PROVE  \E f \in Inodes : /\ f # 0 /\ dir' = [dir EXCEPT ![name] = f]
                               /\ fdw' = [fdw EXCEPT ![w] = f]
                               /\ Goto(w, lock) /\ removals' = removals
  <2>1. w \in Writers /\ TypeOK
    BY Known
  <2>2. QED
    BY <1>0, <2>1, TruncatedFile DEF faults
<1> USE Known DEF SameFile, TypeOK, Reading, Copying, Names, Goto
<1>1. CASE PutsOpen(w)
  BY <1>1 DEF PutsOpen, Return
<1>2. CASE PutsLock(w)
  BY <1>2 DEF PutsLock, faults
<1>3. CASE PutsLook(w)
  BY <1>3 DEF PutsLook, Return, faults
<1>4. CASE PlaceOpen(w)
  BY <1>4 DEF PlaceOpen, Return, faults
<1>5. CASE PlaceLock(w)
  BY <1>5 DEF PlaceLock, faults
<1>6. CASE PlaceWrite(w)
  BY <1>6 DEF PlaceWrite, Return, faults
<1>7. CASE CreateOpen(w) \/ TempOpen(w)
  BY <1>7 DEF CreateOpen, TempOpen, OpenExisting, faults
<1>8. CASE CreateNew(w) \/ TempNew(w)
  <2>1. PICK name \in Names, lock \in {"locknew", "locktemp"} :
          /\ OpenTruncated(w, name, lock)
          /\ \/ name = "ini" /\ lock = "locknew"
             \/ name = "tmp" /\ lock = "locktemp" /\ pc[w] = "maketemp"
    BY <1>8 DEF CreateNew, TempNew
  <2>2. PICK f \in Inodes : /\ f # 0 /\ dir' = [dir EXCEPT ![name] = f]
                            /\ fdw' = [fdw EXCEPT ![w] = f]
                            /\ Goto(w, lock) /\ removals' = removals
    BY <1>0, <2>1
  <2>3. pc'[w] = lock
    BY <2>2
  <2>4. QED
    BY <2>1, <2>2, <2>3
<1>9. CASE WriteLock(w)
  BY <1>9 DEF WriteLock, faults
<1>10. CASE Truncate(w)
  BY <1>10 DEF Truncate, faults
<1>11. CASE CopyOpen(w)
  BY <1>11 DEF CopyOpen, faults
<1>12. CASE CopyLock(w)
  BY <1>12 DEF CopyLock, faults
<1>13. CASE Copy(w)
  BY <1>13 DEF Copy, faults
<1>14. CASE Close(w)
  BY <1>14 DEF Close, Return, faults, Opened, Writing, Excluding
<1>15. CASE Rename(w)
  BY <1>15 DEF Rename, Return, faults
<1>16. CASE Crash(w) \/ Aborts(w)
  BY <1>16 DEF Crash, Aborts, Dies
<1>17. QED
  BY <1>1, <1>2, <1>3, <1>4, <1>5, <1>6, <1>7, <1>8, <1>9, <1>10, <1>11, <1>12, <1>13, <1>14,
     <1>15, <1>16 DEF Writer

\* The line it looked up stays as it was until it is overwritten.
LEMMA LineByWriter ==
  ASSUME NEW w, Writers = {w}, OneIInv, Writer(w) \/ Crash(w)
  PROVE  SameLine(w)'
<1> USE Known
<1>1. CASE PutsLook(w)
  <2>1. fdr[w] \in Inodes /\ dir.ini \in {0, fdr[w]} /\ dir' = dir /\ content' = content
    BY <1>1, Open DEF PutsLook, SameFile, Reading
  <2>2. CASE Return(w, 1)
    BY <2>2, Returning, <1>1, Open DEF PutsLook, SameLine
  <2>3. CASE Goto(w, "place") /\ UNCHANGED <<todo, ret>>
    <3>1. pc'[w] = "place" /\ Req(w)' = Req(w) /\ buf'[w] = content[fdr[w]]
      BY <1>1, <2>3 DEF PutsLook, Goto, TypeOK, Req
    <3>2. /\ content[fdr[w]][Req(w).key] \in Values /\ Req(w).value \in Values
          /\ Width[content[fdr[w]][Req(w).key]] = Width[Req(w).value]
      BY <1>1, <2>3, <3>1 DEF PutsLook, Goto, TypeOK, Return
    <3>3. QED
      BY <2>1, <3>1, <3>2 DEF SameLine
  <2>4. CASE Goto(w, "temp")
    BY <2>4 DEF SameLine, Goto, TypeOK
  <2>5. QED
    BY <1>1, <2>2, <2>3, <2>4 DEF PutsLook
<1>2. CASE PlaceOpen(w)
  BY <1>2 DEF PlaceOpen, Return, Goto, TypeOK, SameLine, Req
<1>3. CASE PlaceLock(w)
  BY <1>3 DEF PlaceLock, Goto, TypeOK, SameLine, Req
<1>4. CASE ~(PutsLook(w) \/ PlaceOpen(w) \/ PlaceLock(w))
  <2>1. pc'[w] \notin {"place", "lockplace", "write"}
    BY <1>4 DEF Writer, Crash, PutsOpen, PutsLock, PlaceWrite, CreateOpen, CreateNew, TempOpen,
       TempNew, OpenExisting, OpenTruncated, WriteLock, Truncate, CopyOpen, Aborts, Dies, CopyLock,
       Copy, Close, Rename, Return, Goto, TypeOK
  <2>2. QED
    BY <2>1 DEF SameLine
<1>5. QED
  BY <1>1, <1>2, <1>3, <1>4

\* An overwrite puts the new value where the old one was.
LEMMA Overwrites ==
  ASSUME NEW w, Writers = {w}, OneIInv, PlaceWrite(w)
  PROVE  /\ Req(w).key \in Keys /\ Req(w).value \in Values
         /\ content' = [content EXCEPT ![fdw[w]] = [content[fdw[w]] EXCEPT ![Req(w).key] = Req(w).value]]
<1> USE Known
<1>1. fdw[w] \in Inodes /\ todo[w] # << >>
  BY Open DEF PlaceWrite, Writing, Excluding
<1>2. /\ {buf[w][Req(w).key], Req(w).value} \subseteq Values
      /\ Width[buf[w][Req(w).key]] = Width[Req(w).value]
      /\ content[fdw[w]] = buf[w]
  BY <1>1, InodesAssumption DEF PlaceWrite, SameLine
<1>3. /\ content[fdw[w]][Req(w).key] \in Values
      /\ Place(content[fdw[w]], Req(w).key) = Place(buf[w], Req(w).key)
      /\ Width[content[fdw[w]][Req(w).key]] = Width[Req(w).value]
  BY <1>2
<1>4. content' = [content EXCEPT ![fdw[w]][Req(w).key] = Req(w).value]
  BY <1>3 DEF PlaceWrite
<1>5. QED
  BY <1>1, <1>2, <1>4, Call DEF TypeOK

\* Nothing torn is written, or copied.
LEMMA UntornByWriter ==
  ASSUME NEW w, Writers = {w}, OneIInv, Writer(w) \/ Crash(w)
  PROVE  NeverTorn' /\ Untorn'
<1> USE Known
<1>1. Torn \notin Values \cup {Absent}
  BY AbsentAssumption
<1>2. \A k \in Keys : Empty[k] # Torn
  BY <1>1 DEF Empty
<1>3. todo[w] # << >> => \A k \in Keys : OnlyNew(w)[k] # Torn
  BY <1>1, Call DEF OnlyNew, Empty
<1>4. got' = got
  BY DEF Writer, Crash, PutsOpen, PutsLock, PutsLook, PlaceOpen, PlaceLock, PlaceWrite,
     CreateOpen, CreateNew, TempOpen, TempNew, OpenExisting, OpenTruncated, WriteLock, Truncate,
     CopyOpen, Aborts, Dies, CopyLock, Copy, Close, Rename, readerVars
<1>5. CASE PutsLook(w) \/ Copy(w)
  <2>1. fdr[w] \in Inodes /\ todo[w] # << >> /\ content' = content
    BY <1>5, Open DEF PutsLook, Copy, Reading
  <2>2. \A k \in Keys : content[fdr[w]][k] # Torn
    BY <2>1 DEF NeverTorn
  <2>3. \A k \in Keys : buf'[w][k] # Torn
    <3>1. CASE PutsLook(w)
      BY <2>2, <3>1 DEF PutsLook, TypeOK
    <3>2. CASE Copy(w)
      BY <1>1, <2>1, <2>2, <3>2, Call DEF Copy, TypeOK
    <3>3. QED
      BY <1>5, <3>1, <3>2
  <2>4. QED
    BY <1>4, <2>1, <2>3 DEF NeverTorn, Untorn
<1>6. CASE PlaceWrite(w)
  <2>1. fdw[w] \in Inodes /\ buf' = buf
    BY <1>6, Open DEF PlaceWrite, Writing, Excluding
  <2>2. QED
    <3> DEFINE g == [content[fdw[w]] EXCEPT ![Req(w).key] = Req(w).value]
    <3>1. content' = [content EXCEPT ![fdw[w]] = g] /\ Req(w).value # Torn
      BY <1>1, <1>6, Overwrites
    <3>2. content[fdw[w]] \in [Keys -> Values \cup {Absent, Torn}]
      BY <2>1 DEF TypeOK
    <3>3. \A k \in Keys : g[k] # Torn
      BY <2>1, <3>1, <3>2 DEF NeverTorn
    <3> HIDE DEF g
    <3>4. NeverTorn'
      BY <3>1, <3>3 DEF NeverTorn, TypeOK
    <3>5. QED
      BY <1>4, <2>1, <3>4 DEF Untorn
<1>7. CASE CreateNew(w) \/ TempNew(w)
  <2>1. PICK name \in Names, lock \in {"locknew", "locktemp"} : OpenTruncated(w, name, lock)
    BY <1>7 DEF CreateNew, TempNew, Names
  <2>2. buf' = buf /\ \E f \in Inodes : content' = [content EXCEPT ![f] = Empty]
    BY <2>1, TruncatedFile
  <2>3. QED
    BY <1>2, <1>4, <2>2 DEF NeverTorn, Untorn, TypeOK
<1>8. CASE Truncate(w)
  <2>1. fdw[w] \in Inodes /\ todo[w] # << >>
    BY <1>8, Open DEF Truncate, Writing, Excluding
  <2>2. NeverTorn'
    BY <1>2, <1>8, <2>1 DEF Truncate, NeverTorn, TypeOK
  <2>3. \A k \in Keys : buf'[w][k] # Torn
    BY <1>3, <1>8, <2>1 DEF Truncate, Untorn, TypeOK
  <2>4. QED
    BY <1>4, <2>2, <2>3 DEF Untorn
<1>9. CASE CopyOpen(w)
  <2>1. todo[w] # << >> /\ content' = content
    BY <1>9, Open DEF CopyOpen
  <2>2. \A k \in Keys : buf'[w][k] # Torn
    BY <1>3, <1>9, <2>1 DEF CopyOpen, Untorn, TypeOK
  <2>3. QED
    BY <1>4, <2>1, <2>2 DEF NeverTorn, Untorn
<1>10. CASE Close(w)
  BY <1>4, <1>10 DEF Close, NeverTorn, Untorn, TypeOK
<1>11. CASE \/ PutsOpen(w) \/ PutsLock(w) \/ PlaceOpen(w) \/ PlaceLock(w) \/ CreateOpen(w)
            \/ TempOpen(w) \/ WriteLock(w) \/ CopyLock(w) \/ Rename(w) \/ Crash(w) \/ Aborts(w)
  <2>1. content' = content /\ buf' = buf
    BY <1>11 DEF PutsOpen, PutsLock, PlaceOpen, PlaceLock, CreateOpen, TempOpen, OpenExisting,
       WriteLock, CopyLock, Rename, Crash, Aborts, Dies
  <2>2. QED
    BY <1>4, <2>1 DEF NeverTorn, Untorn
<1>12. QED
  BY <1>5, <1>6, <1>7, <1>8, <1>9, <1>10, <1>11 DEF Writer

\* What is asked for, edited into what there is.
LEMMA EditedType ==
  ASSUME NEW w, Writers = {w}, OneIInv, todo[w] # << >>
  PROVE  /\ Current \in [Keys -> Values \cup {Absent, Torn}]
         /\ Edited(w) \in [Keys -> Values \cup {Absent, Torn}]
         /\ Edited(w)[Req(w).key] = Req(w).value
         /\ Current[Req(w).key] = Req(w).value => Edited(w) = Current
<1> USE Known
<1>1. Current \in [Keys -> Values \cup {Absent, Torn}]
  BY EmptyType DEF Current, TypeOK, Names
<1>2. QED
  BY <1>1, Call DEF Edited

\* A step of the writer changes nothing that can be read under the name, or it puts what
\* was asked for and returns 1: unless the file was deleted.
LEMMA PutsAtOnce ==
  ASSUME NEW w, Writers = {w}, OneIInv, Writer(w) \/ Crash(w), removals' = 0
  PROVE  /\ removals = 0
         /\ \/ Current' = Current /\ UNCHANGED <<todo, ret>>
            \/ Current' = Edited(w) /\ todo[w] # << >> /\ Return(w, 1)
<1> USE Known
<1>1. removals = 0 /\ dir.ini \in Inodes \cup {0} /\ dir.tmp \in Inodes \cup {0} /\ 0 \notin Inodes
  BY InodesAssumption DEF Writer, Crash, PutsOpen, PutsLock, PutsLook, PlaceOpen, PlaceLock, PlaceWrite,
     CreateOpen, CreateNew, TempOpen, TempNew, OpenExisting, OpenTruncated, WriteLock, Truncate,
     CopyOpen, Aborts, Dies, CopyLock, Copy, Close, Rename, faults, TypeOK, Names
<1>2. pc[w] # "idle" => todo[w] # << >>
  BY DEF Opened
<1>3. CASE PutsOpen(w)
  <2>1. Current' = Current
    BY <1>3 DEF PutsOpen, Current
  <2>2. CASE dir.ini = 0 /\ Req(w).value = Absent
    <3>1. todo[w] # << >> /\ Return(w, 1)
      BY <1>3, <2>2 DEF PutsOpen
    <3>2. Current[Req(w).key] = Req(w).value
      BY <2>2, <3>1, Call DEF Current, Empty
    <3>3. QED
      BY <1>1, <2>1, <3>1, <3>2, EditedType
  <2>3. CASE ~(dir.ini = 0 /\ Req(w).value = Absent)
    BY <1>1, <1>3, <2>1, <2>3 DEF PutsOpen
  <2>4. QED
    BY <2>2, <2>3
<1>4. CASE PutsLook(w)
  <2>1. dir.ini # 0 /\ fdr[w] = dir.ini /\ todo[w] # << >>
    BY <1>1, <1>2, <1>4 DEF PutsLook, SameFile, Reading
  <2>2. Current' = Current /\ Current = content[fdr[w]]
    BY <1>4, <2>1 DEF PutsLook, Current
  <2>3. CASE content[fdr[w]][Req(w).key] = Req(w).value
    BY <1>1, <1>4, <2>1, <2>2, <2>3, EditedType DEF PutsLook
  <2>4. CASE content[fdr[w]][Req(w).key] # Req(w).value
    BY <1>1, <1>4, <2>2, <2>4 DEF PutsLook
  <2>5. QED
    BY <2>3, <2>4
<1>5. CASE PlaceOpen(w)
  <2>1. dir.ini # 0
    BY <1>1, <1>5 DEF PlaceOpen, SameFile
  <2>2. QED
    BY <1>1, <1>5, <2>1 DEF PlaceOpen, Current
<1>6. CASE PlaceWrite(w)
  <2>1. dir.ini # 0 /\ fdw[w] = dir.ini /\ todo[w] # << >> /\ Return(w, 1) /\ dir' = dir
    BY <1>1, <1>2, <1>6 DEF PlaceWrite, SameFile
  <2>2. content'[dir.ini] = [content[dir.ini] EXCEPT ![Req(w).key] = Req(w).value]
    <3> DEFINE g == [content[fdw[w]] EXCEPT ![Req(w).key] = Req(w).value]
    <3>1. content' = [content EXCEPT ![fdw[w]] = g] /\ content \in [Inodes -> [Keys -> Values \cup {Absent, Torn}]]
      BY <1>6, Overwrites DEF TypeOK
    <3> HIDE DEF g
    <3>2. content'[dir.ini] = g
      BY <1>1, <2>1, <3>1
    <3>3. QED
      BY <2>1, <3>2 DEF g
  <2>3. QED
    BY <1>1, <2>1, <2>2 DEF Current, Edited
<1>7. CASE CreateNew(w)
  <2>1. dir.ini = 0 /\ OpenTruncated(w, "ini", "locknew")
    BY <1>7 DEF CreateNew, SameFile
  <2>2. PICK f \in Inodes : /\ dir' = [dir EXCEPT !.ini = f] /\ content' = [content EXCEPT ![f] = Empty]
                            /\ f # 0 /\ UNCHANGED <<todo, ret>>
    BY <2>1, TruncatedFile DEF Names
  <2>3. dir'.ini = f /\ content'[f] = Empty
    BY <2>2 DEF TypeOK, Names
  <2>4. QED
    BY <1>1, <2>1, <2>2, <2>3 DEF Current
<1>8. CASE TempNew(w)
  <2>1. dir.ini # 0 /\ dir.tmp = 0 /\ OpenTruncated(w, "tmp", "locktemp")
    BY <1>1, <1>8 DEF TempNew, SameFile
  <2>2. PICK f \in Inodes : /\ dir' = [dir EXCEPT !.tmp = f] /\ content' = [content EXCEPT ![f] = Empty]
                            /\ f \notin Used /\ UNCHANGED <<todo, ret>>
    BY <2>1, InodesAssumption, TruncatedFile DEF Names
  <2>3. f # dir.ini
    BY <2>2 DEF Used, Names
  <2>4. dir'.ini = dir.ini /\ content'[dir.ini] = content[dir.ini]
    BY <1>1, <2>1, <2>2, <2>3 DEF TypeOK, Names
  <2>5. QED
    BY <1>1, <2>1, <2>2, <2>4 DEF Current
<1>9. CASE Truncate(w)
  <2>1. dir.ini # 0 /\ dir' = dir /\ UNCHANGED <<todo, ret>> /\ fdw[w] \in Inodes
    BY <1>1, <1>9, Open DEF Truncate, SameFile, Writing, Excluding
  <2>2. CASE pc[w] = "truncnew"
    <3>1. fdw[w] = dir.ini /\ content[dir.ini] = Empty
      BY <1>1, <2>1, <2>2 DEF SameFile, Pending
    <3>2. QED
      BY <1>1, <1>9, <2>1, <3>1 DEF Truncate, Current, TypeOK
  <2>3. CASE pc[w] = "trunctemp"
    <3>1. fdw[w] # dir.ini
      BY <1>1, <2>1, <2>3 DEF SameFile, NamesApart
    <3>2. content'[dir.ini] = content[dir.ini]
      BY <1>1, <1>9, <2>1, <3>1 DEF Truncate, TypeOK
    <3>3. QED
      BY <1>1, <2>1, <3>2 DEF Current
  <2>4. QED
    BY <1>9, <2>2, <2>3 DEF Truncate
<1>10. CASE Close(w)
  <2>1. dir.ini # 0 /\ dir' = dir /\ fdw[w] \in Inodes /\ todo[w] # << >>
    BY <1>1, <1>10, Open DEF Close, SameFile, Writing, Excluding, Copying
  <2>2. CASE pc[w] = "closelast"
    <3>1. fdw[w] = dir.ini /\ buf[w] = Edited(w) /\ Return(w, 1)
      BY <1>1, <1>10, <2>2 DEF Close, SameFile, Pending
    <3>2. content'[dir.ini] = Edited(w)
      BY <1>10, <2>1, <3>1 DEF Close, TypeOK
    <3>3. QED
      BY <1>1, <2>1, <3>1, <3>2 DEF Current
  <2>3. CASE pc[w] = "close"
    <3>1. fdw[w] # dir.ini /\ UNCHANGED <<todo, ret>>
      BY <1>1, <1>10, <2>1, <2>3 DEF Close, SameFile, NamesApart, Copying
    <3>2. content'[dir.ini] = content[dir.ini]
      BY <1>1, <1>10, <2>1, <3>1 DEF Close, TypeOK
    <3>3. QED
      BY <1>1, <2>1, <3>1, <3>2 DEF Current
  <2>4. QED
    BY <1>10, <2>2, <2>3 DEF Close
<1>11. CASE Rename(w)
  <2>1. dir.tmp # 0 /\ content[dir.tmp] = Edited(w) /\ todo[w] # << >>
    BY <1>1, <1>2, <1>11 DEF Rename, SameFile, Pending
  <2>2. dir'.ini = dir.tmp /\ content' = content /\ Return(w, 1)
    BY <1>11, <2>1 DEF Rename
  <2>3. QED
    BY <1>1, <2>1, <2>2 DEF Current
<1>12. CASE \/ PutsLock(w) \/ PlaceLock(w) \/ CreateOpen(w) \/ TempOpen(w) \/ WriteLock(w)
            \/ CopyOpen(w) \/ Aborts(w) \/ CopyLock(w) \/ Copy(w) \/ Crash(w)
  <2>1. UNCHANGED <<dir, content, todo, ret>>
    BY <1>12 DEF PutsLock, PlaceLock, CreateOpen, TempOpen, OpenExisting, WriteLock, CopyOpen,
       Aborts, Dies, CopyLock, Copy, Crash
  <2>2. QED
    BY <1>1, <2>1 DEF Current
<1>13. QED
  BY <1>3, <1>4, <1>5, <1>6, <1>7, <1>8, <1>9, <1>10, <1>11, <1>12 DEF Writer

\* What the writer is about to make of the file.
LEMMA PendingByWriter ==
  ASSUME NEW w, Writers = {w}, OneIInv, Writer(w) \/ Crash(w)
  PROVE  Pending(w)'
<1> USE Known
<1> SUFFICES ASSUME removals' = 0 PROVE Pending(w)'
  BY DEF Pending
<1>1. removals = 0 /\ dir.ini \in Inodes \cup {0} /\ dir.tmp \in Inodes \cup {0} /\ 0 \notin Inodes
  BY PutsAtOnce, InodesAssumption DEF TypeOK, Names
<1>2. CASE Current' = Edited(w) /\ todo[w] # << >> /\ Return(w, 1)
  <2>1. ret'[w] = 1 /\ pc'[w] = "idle"
    BY <1>2, Returning, 1 \in 0 .. 1
  <2>2. LastPut(w)' = {Req(w)}
    BY <1>2, <2>1, LeftAfterReturn DEF LastPut
  <2>3. \A request \in LastPut(w)' : Current'[request.key] = request.value
    BY <1>2, <2>2, EditedType
  <2>4. QED
    BY <2>1, <2>3, SMT DEF Pending
<1>3. CASE Current' = Current /\ UNCHANGED <<todo, ret>>
  <2>1. \A request \in LastPut(w)' : Current'[request.key] = request.value
    BY <1>1, <1>3 DEF LastPut, Pending
  <2>2. Req(w)' = Req(w) /\ Edited(w)' = Edited(w) /\ OnlyNew(w)' = OnlyNew(w) /\ Empty' = Empty
    BY <1>3 DEF Req, Edited, OnlyNew, Empty
  <2>3. /\ pc'[w] \in {"locknew", "truncnew", "closelast"} => content'[dir'.ini] = Empty
        /\ pc'[w] \in {"close", "closelast"} => buf'[w] = Edited(w)
        /\ pc'[w] = "rename" => content'[dir'.tmp] = Edited(w)
    <3>1. CASE CreateNew(w)
      <4>1. PICK f \in Inodes : /\ dir' = [dir EXCEPT !.ini = f]
                                /\ content' = [content EXCEPT ![f] = Empty]
                                /\ Goto(w, "locknew")
        BY <3>1, TruncatedFile DEF CreateNew, Names
      <4>2. dir'.ini = f /\ content'[f] = Empty /\ pc'[w] = "locknew"
        BY <4>1 DEF Goto, TypeOK, Names
      <4>3. QED
        BY <4>2
    <3>2. CASE WriteLock(w)
      <4>1. dir' = dir /\ content' = content /\ pc'[w] \in {"truncnew", "trunctemp"}
        BY <3>2 DEF WriteLock, Goto, TypeOK
      <4>2. pc'[w] = "truncnew" => pc[w] = "locknew"
        BY <3>2 DEF WriteLock, Goto, TypeOK
      <4>3. QED
        BY <1>1, <4>1, <4>2 DEF Pending
    <3>3. CASE Truncate(w)
      <4>1. fdw[w] \in Inodes /\ todo[w] # << >> /\ dir' = dir
        BY <3>3, Open DEF Truncate, Writing, Excluding
      <4>2. CASE pc[w] = "truncnew"
        <5>1. dir.ini # 0 /\ fdw[w] = dir.ini /\ content[dir.ini] = Empty
          BY <1>1, <4>2 DEF SameFile, Pending
        <5>2. pc'[w] = "closelast" /\ buf'[w] = OnlyNew(w) /\ content'[dir.ini] = Empty
          BY <3>3, <4>1, <4>2, <5>1 DEF Truncate, Goto, TypeOK
        <5>3. Edited(w) = OnlyNew(w)
          BY <5>1 DEF Edited, OnlyNew, Current
        <5>4. QED
          BY <4>1, <5>2, <5>3
      <4>3. CASE pc[w] = "trunctemp"
        BY <3>3, <4>3 DEF Truncate, Goto, TypeOK
      <4>4. QED
        BY <3>3, <4>2, <4>3 DEF Truncate
    <3>4. CASE CopyOpen(w)
      <4>1. dir.ini # 0
        BY <1>1, <3>4 DEF CopyOpen, SameFile
      <4>2. pc'[w] = "lockcopy"
        BY <3>4, <4>1 DEF CopyOpen, Goto, TypeOK
      <4>3. QED
        BY <4>2
    <3>5. CASE Copy(w)
      <4>1. dir.ini # 0 /\ fdr[w] = dir.ini
        BY <1>1, <3>5 DEF Copy, SameFile, Reading
      <4>2. pc'[w] = "close" /\ buf'[w] = Edited(w)
        BY <3>5, <4>1 DEF Copy, Goto, TypeOK, Edited, Current
      <4>3. QED
        BY <4>2
    <3>6. CASE Close(w)
      <4>1. pc[w] = "closelast" => ret'[w] = 1 /\ todo'[w] # todo[w]
        <5>1. ASSUME pc[w] = "closelast" PROVE ret'[w] = 1 /\ todo'[w] # todo[w]
          <6>1. todo[w] # << >> /\ Return(w, 1) /\ todo[w] \in Seq(Request)
            BY <3>6, <5>1, Open DEF Close, TypeOK
          <6>2. Len(Tail(todo[w])) = Len(todo[w]) - 1 /\ Len(todo[w]) \in Nat
            BY <6>1
          <6>3. todo'[w] = Tail(todo[w]) /\ ret'[w] = 1
            BY <6>1, Returning, 1 \in 0 .. 1
          <6>4. Len(Tail(todo[w])) # Len(todo[w])
            BY <6>2
          <6>5. QED
            BY <6>3, <6>4
        <5>2. QED
          BY <5>1
      <4>2. pc[w] = "close" /\ pc'[w] = "rename" /\ dir' = dir
        BY <1>3, <3>6, <4>1 DEF Close, Goto, TypeOK
      <4>3. fdw[w] = dir.tmp /\ fdw[w] \in Inodes /\ buf[w] = Edited(w)
        BY <1>1, <4>2, Open DEF SameFile, Pending, Writing, Excluding, Copying
      <4>4. content'[dir.tmp] = Edited(w)
        BY <3>6, <4>3 DEF Close, TypeOK
      <4>5. QED
        BY <4>2, <4>4
    <3>7. CASE ~(CreateNew(w) \/ WriteLock(w) \/ Truncate(w) \/ CopyOpen(w) \/ Copy(w) \/ Close(w))
      <4>1. CASE PutsOpen(w) \/ PutsLook(w) \/ PlaceOpen(w) \/ PlaceWrite(w) \/ Rename(w)
        <5>1. pc'[w] \in {"idle", "create", "lock", "place", "temp", "lockplace"}
          <6>1. CASE PutsOpen(w)
            BY <6>1 DEF PutsOpen, Return, Goto, TypeOK
          <6>2. CASE PutsLook(w)
            BY <6>2 DEF PutsLook, Return, Goto, TypeOK
          <6>3. CASE PlaceOpen(w) \/ PlaceWrite(w) \/ Rename(w)
            BY <6>3 DEF PlaceOpen, PlaceWrite, Rename, Return, Goto, TypeOK
          <6>4. QED
            BY <4>1, <6>1, <6>2, <6>3
        <5>2. QED
          BY <5>1
      <4>2. CASE \/ PutsLock(w) \/ PlaceLock(w) \/ CreateOpen(w) \/ TempOpen(w) \/ TempNew(w)
                 \/ CopyLock(w)
        <5>1. pc'[w] \in {"look", "write", "makenew", "locktemp", "maketemp", "copy"}
          BY <4>2 DEF PutsLock, PlaceLock, CreateOpen, TempOpen, OpenExisting, TempNew, OpenTruncated,
             SameFile, CopyLock, Goto, TypeOK
        <5>2. QED
          BY <5>1
      <4>3. CASE Crash(w) \/ Aborts(w)
        <5>1. pc'[w] = "idle"
          BY <4>3 DEF Crash, Aborts, Dies, Goto, TypeOK
        <5>2. QED
          BY <5>1
      <4>4. QED
        BY <3>7, <4>1, <4>2, <4>3 DEF Writer
    <3>8. QED
      BY <3>1, <3>2, <3>3, <3>4, <3>5, <3>6, <3>7
  <2>4. QED
    BY <2>1, <2>2, <2>3 DEF Pending
<1>4. QED
  BY <1>2, <1>3, PutsAtOnce

-----------------------------------------------------------------------------
(* The others, seen by the writer.                                          *)

\* A step that leaves alone what the writer has and what is in the files keeps its
\* part of the invariant.
LEMMA OtherSteps ==
  ASSUME NEW w, Writers = {w}, OneIInv,
         UNCHANGED <<content, todo, buf, ret>>,
         pc'[w] = pc[w], fdr'[w] = fdr[w], fdw'[w] = fdw[w],
         \/ dir' = dir /\ removals' = removals
         \/ dir' = [dir EXCEPT !.ini = 0] /\ removals' # 0
  PROVE  SameFile(w)' /\ SameLine(w)' /\ Pending(w)'
<1> USE Known
<1>1. dir' = dir \/ (dir'.ini = 0 /\ dir'.tmp = dir.tmp)
  BY DEF TypeOK, Names
<1>2. Req(w)' = Req(w)
  BY DEF Req
<1>3. SameFile(w)'
  BY <1>1 DEF SameFile
<1>4. SameLine(w)'
  BY <1>1, <1>2 DEF SameLine
<1>5. Pending(w)'
  <2>1. CASE removals' # 0
    BY <2>1 DEF Pending
  <2>2. CASE dir' = dir /\ removals' = removals
    <3>1. Current' = Current /\ Edited(w)' = Edited(w) /\ LastPut(w)' = LastPut(w)
      BY <1>2, <2>2 DEF Current, Edited, LastPut
    <3>2. QED
      BY <2>2, <3>1 DEF Pending
  <2>3. QED
    BY <2>1, <2>2
<1>6. QED
  BY <1>3, <1>4, <1>5

LEMMA OneInit == ASSUME NEW w, Writers = {w}, Init PROVE OneIInv
<1>1. PICK n \in Present, settings \in [Keys -> Values] :
        /\ dir = [ini |-> n, tmp |-> 0]
        /\ content = [f \in Inodes |-> IF f = n THEN settings ELSE Empty]
  BY DEF Init
<1>2. \A k \in Keys : settings[k] # Torn /\ Empty[k] # Torn
  BY AbsentAssumption DEF Empty
<1>3. NeverTorn
  BY <1>1, <1>2 DEF NeverTorn
<1>4. Untorn
  BY <1>2, AbsentAssumption DEF Init, Untorn
<1>5. w \in Procs /\ w \in Writers
  BY DEF Procs
<1>6. SameFile(w) /\ SameLine(w)
  BY <1>5 DEF Init, SameFile, SameLine, Reading, Copying
<1>7. Pending(w)
  BY <1>5 DEF Init, Pending, LastPut
<1>8. QED
  BY <1>3, <1>4, <1>6, <1>7, InvariantInit DEF OneIInv

LEMMA OneStep == ASSUME NEW w, Writers = {w}, OneIInv, [Next]_vars PROVE OneIInv'
<1> USE Known
<1>1. IInv'
  BY InvariantStep
<1>2. NeverTorn' /\ Untorn' /\ SameFile(w)' /\ SameLine(w)' /\ Pending(w)'
  <2>1. CASE Writer(w) \/ Crash(w)
    BY <2>1, UntornByWriter, FileByWriter, LineByWriter, PendingByWriter
  <2>2. ASSUME NEW r \in Readers, Reader(r)
        PROVE  NeverTorn' /\ Untorn' /\ SameFile(w)' /\ SameLine(w)' /\ Pending(w)'
    <3>1. pc'[w] = pc[w] /\ fdr'[w] = fdr[w] /\ fdw'[w] = fdw[w]
      BY <2>2, OpenedByReader
    <3>2. UNCHANGED <<content, todo, buf, ret, dir, removals>>
      BY <2>2 DEF Reader, GetsOpen, GetsLock, GetsRead, faults
    <3>3. NeverTorn'
      BY <3>2 DEF NeverTorn
    <3>4. \A q \in Readers : got'[q] # Torn
      <4>1. CASE got' = got
        BY <4>1 DEF Untorn
      <4>2. CASE GetsOpen(r) /\ dir.ini = 0
        BY <4>2, AbsentAssumption DEF GetsOpen, GotValue, Untorn, TypeOK
      <4>3. CASE GetsRead(r)
        <5>1. content[fdr[r]][key[r]] # Torn
          BY <4>3, OpenByReader DEF GetsRead, NeverTorn
        <5>2. QED
          BY <4>3, <5>1 DEF GetsRead, GotValue, Untorn, TypeOK
      <4>4. QED
        BY <2>2, <4>1, <4>2, <4>3 DEF Reader, GetsOpen, GetsLock, readerVars
    <3>5. Untorn'
      BY <3>2, <3>4 DEF Untorn
    <3>6. QED
      BY <3>1, <3>2, <3>3, <3>5, OtherSteps
  <2>3. CASE Remove
    <3>1. /\ UNCHANGED <<content, todo, buf, ret, got>>
          /\ pc'[w] = pc[w] /\ fdr'[w] = fdr[w] /\ fdw'[w] = fdw[w]
      BY <2>3 DEF Remove, readerVars
    <3>2. dir' = [dir EXCEPT !.ini = 0] /\ removals' # 0
      <4>1. removals \in Nat /\ removals' = removals + 1
        BY <2>3 DEF Remove, TypeOK
      <4>2. QED
        BY <2>3, <4>1 DEF Remove
    <3>3. NeverTorn' /\ Untorn'
      BY <3>1 DEF NeverTorn, Untorn
    <3>4. QED
      BY <3>1, <3>2, <3>3, OtherSteps
  <2>4. CASE UNCHANGED vars
    <3>1. /\ UNCHANGED <<content, todo, buf, ret, got, dir, removals>>
          /\ pc'[w] = pc[w] /\ fdr'[w] = fdr[w] /\ fdw'[w] = fdw[w]
      BY <2>4 DEF vars, readerVars, faults
    <3>2. NeverTorn' /\ Untorn'
      BY <3>1 DEF NeverTorn, Untorn
    <3>3. QED
      BY <3>1, <3>2, OtherSteps
  <2>5. QED
    BY <2>1, <2>2, <2>3, <2>4 DEF Next
<1>3. QED
  BY <1>1, <1>2 DEF OneIInv

-----------------------------------------------------------------------------
(* The theorems: of any number of writers.                                  *)

\* Every variable keeps its type.
THEOREM TypeCorrect == Spec => []TypeOK
<1>1. IInv => TypeOK
  BY DEF IInv
<1>2. QED
  BY <1>1, StoreInvariant, PTL

LEMMA Alone == IInv => WriterAlone
<1> SUFFICES ASSUME IInv, NEW p \in Procs, NEW q \in Procs
             PROVE  /\ pc[p] \in Excluding /\ pc[q] \in Sharing => fdw[p] # fdr[q]
                    /\ p # q /\ {pc[p], pc[q]} \subseteq Excluding => fdw[p] # fdw[q]
  BY DEF WriterAlone
<1>1. LocksExclude
  BY DEF IInv
<1>2. ASSUME pc[p] \in Excluding, pc[q] \in Sharing, fdw[p] = fdr[q] PROVE FALSE
  <2>1. WriteLockOf(p) \in locks /\ ReadLock(q) \in locks
    BY <1>2, OwnLocks
  <2>2. /\ WriteLockOf(p).mode = "EX" /\ ReadLock(q).mode = "SH"
        /\ WriteLockOf(p).file = ReadLock(q).file
    BY <1>2 DEF WriteLockOf, ReadLock
  <2>3. WriteLockOf(p) # ReadLock(q)
    BY <2>2
  <2>4. QED
    BY <1>1, <2>1, <2>2, <2>3 DEF LocksExclude
<1>3. ASSUME p # q, pc[p] \in Excluding, pc[q] \in Excluding, fdw[p] = fdw[q] PROVE FALSE
  <2>1. WriteLockOf(p) \in locks /\ WriteLockOf(q) \in locks
    BY <1>3, OwnLocks
  <2>2. /\ WriteLockOf(p).mode = "EX" /\ WriteLockOf(p).file = WriteLockOf(q).file
        /\ WriteLockOf(p).proc = p /\ WriteLockOf(q).proc = q
    BY <1>3 DEF WriteLockOf
  <2>3. WriteLockOf(p) # WriteLockOf(q)
    BY <1>3, <2>2
  <2>4. QED
    BY <1>1, <2>1, <2>2, <2>3 DEF LocksExclude
<1>4. QED
  BY <1>2, <1>3

\* What is in a file that is not new changes by a writer that has locked it, or by the
\* truncation of one that found no file of that name the step before.
LEMMA ContentSteps ==
  ASSUME IInv, [Next]_vars, NEW f \in Used \cap Inodes, content'[f] # content[f]
  PROVE  \E w \in Writers : ChangedBy(w, f)
<1>1. TypeOK /\ content \in [Inodes -> [Keys -> Values \cup {Absent, Torn}]]
  BY DEF IInv, TypeOK
<1>2. ASSUME NEW w \in Writers, Writer(w) \/ Crash(w)
      PROVE  ChangedBy(w, f)
  <2>1. CASE PlaceWrite(w) \/ Truncate(w) \/ Close(w)
    <3>1. PICK x : content' = [content EXCEPT ![fdw[w]] = x]
      BY <2>1 DEF PlaceWrite, Truncate, Close
    <3>2. pc[w] \in Excluding
      BY <2>1 DEF PlaceWrite, Truncate, Close, Excluding, Copying
    <3>3. QED
      BY <1>1, <3>1, <3>2 DEF ChangedBy
  <2>2. CASE CreateNew(w) \/ TempNew(w)
    <3>1. PICK name \in Names, lock \in {"locknew", "locktemp"} :
            /\ OpenTruncated(w, name, lock)
            /\ (name = "ini" /\ pc[w] = "makenew") \/ (name = "tmp" /\ pc[w] = "maketemp")
      BY <2>2 DEF CreateNew, TempNew, Names
    <3>2. PICK g \in Inodes : /\ g = dir[name] \/ (dir[name] = 0 /\ g \notin Used)
                              /\ content' = [content EXCEPT ![g] = Empty]
      BY <1>1, <3>1, TruncatedFile
    <3>3. f = g /\ content'[f] = Empty
      BY <1>1, <3>2
    <3>4. f = dir[name]
      BY <3>2, <3>3
    <3>5. QED
      BY <3>1, <3>3, <3>4 DEF ChangedBy
  <2>3. CASE ~(PlaceWrite(w) \/ Truncate(w) \/ Close(w) \/ CreateNew(w) \/ TempNew(w))
    BY <1>2, <2>3 DEF Writer, Crash, PutsOpen, PutsLock, PutsLook, PlaceOpen, PlaceLock, CreateOpen,
       TempOpen, OpenExisting, WriteLock, CopyOpen, Aborts, Dies, CopyLock, Copy, Rename
  <2>4. QED
    BY <2>1, <2>2, <2>3
<1>3. ASSUME Remove \/ (\E r \in Readers : Reader(r)) \/ UNCHANGED vars PROVE FALSE
  BY <1>3 DEF Remove, Reader, GetsOpen, GetsLock, GetsRead, vars
<1>4. QED
  BY <1>2, <1>3 DEF Next

\* A process that has locked a file to write it is alone with it among those who have
\* locked it; and nobody else changes what is in it, except that one who found no file of
\* its name a step before may, without a lock, cut it to nothing.
THEOREM OneAtATime == Spec => []WriterAlone /\ WritesLocked
<1>1. IInv /\ [Next]_vars =>
        [\A f \in Used \cap Inodes : content'[f] # content[f] =>
           \E w \in Writers : ChangedBy(w, f)]_vars
  BY ContentSteps
<1>2. QED
  BY <1>1, Alone, StoreInvariant, PTL DEF Spec, WritesLocked

-----------------------------------------------------------------------------
(* The theorems: of one writer.                                             *)

\* With one writer, what it looked up, what it is about to write and what its last
\* calls wrote agree with the file of the name at each step.
THEOREM OneWriterInvariant ==
  ASSUME NEW w, Writers = {w}
  PROVE  Spec => []OneIInv
<1>1. Init => OneIInv
  BY OneInit
<1>2. OneIInv /\ [Next]_vars => OneIInv'
  BY OneStep
<1>3. QED
  BY <1>1, <1>2, PTL DEF Spec

\* No line is overwritten at a wrong place, whoever deletes the file when.
THEOREM NoLineIsTorn ==
  ASSUME NEW w, Writers = {w}
  PROVE  Spec => []NeverTorn
<1>1. OneIInv => NeverTorn
  BY DEF OneIInv
<1>2. QED
  BY <1>1, OneWriterInvariant, PTL

\* While anybody reads or copies a file its settings do not change: the one writer makes
\* a file only where there is none.
THEOREM FilesStandStill ==
  ASSUME NEW w, Writers = {w}
  PROVE  Spec => StandsStill
<1>1. OneIInv /\ [Next]_vars =>
        [\A p \in Procs : pc[p] \in Sharing => content'[fdr[p]] = content[fdr[p]]]_vars
  <2> SUFFICES ASSUME OneIInv, [Next]_vars, NEW p \in Procs, pc[p] \in Sharing,
                      content'[fdr[p]] # content[fdr[p]]
               PROVE  FALSE
    OBVIOUS
  <2>1. IInv
    BY DEF OneIInv
  <2>2. fdr[p] \in Used \cap Inodes /\ fdr[p] # 0
    BY <2>1, InodesAssumption DEF Used, IInv, TypeOK, Descriptors, Opened, Sharing, Reading
  <2>3. ChangedBy(w, fdr[p])
    BY <2>1, <2>2, ContentSteps
  <2>4. ~(pc[w] \in Excluding /\ fdw[w] = fdr[p])
    BY <2>1, Known, Alone DEF WriterAlone
  <2>5. (pc[w] = "makenew" => dir.ini = 0) /\ (pc[w] = "maketemp" => dir.tmp = 0)
    BY Known DEF SameFile
  <2>6. QED
    BY <2>2, <2>3, <2>4, <2>5 DEF ChangedBy
<1>2. QED
  BY <1>1, OneWriterInvariant, PTL DEF Spec, StandsStill

\* A put that returned 1 is in the file, also if a later one crashed.
THEOREM PutsAreKept ==
  ASSUME NEW w, Writers = {w}
  PROVE  Spec => []UpdatesKept
<1>1. OneIInv => UpdatesKept
  BY Known DEF UpdatesKept, Pending
<1>2. QED
  BY <1>1, OneWriterInvariant, PTL

-----------------------------------------------------------------------------
(* The refinement: with one writer the processes implement AtomicStore, as   *)
(* long as nobody deletes the file.                                          *)

LEMMA StoreInit == ASSUME NEW w, Writers = {w}, Init PROVE Store!Init
<1>1. OneIInv
  BY OneInit
<1>2. Current \in [Keys -> Values \cup {Absent}]
  <2>1. Current \in [Keys -> Values \cup {Absent, Torn}]
    BY <1>1, Known, EmptyType DEF Current, TypeOK, Names
  <2>2. \A k \in Keys : Current[k] # Torn
    BY <1>1, Known, EmptyType, AbsentAssumption DEF Current, TypeOK, Names, NeverTorn
  <2>3. QED
    BY <2>1, <2>2
<1>3. AskedBy = [r \in Readers |-> Absent] /\ KeptFor = [r \in Readers |-> {}]
  BY DEF Init, AskedBy, KeptFor, Procs
<1>4. QED
  BY <1>2, <1>3 DEF Init, Store!Init

\* What a reader has open and the name is not of is not written; when the name is given
\* to another file, what it was of stays as it was.
LEMMA OldFiles ==
  ASSUME NEW w, Writers = {w}, OneIInv, Writer(w) \/ Crash(w), removals' = 0,
         NEW r \in Readers, fdr[r] # 0
  PROVE  /\ dir'.ini # dir.ini => fdr[r] # dir'.ini
         /\ fdr[r] # dir.ini \/ dir'.ini # dir.ini => content'[fdr[r]] = content[fdr[r]]
<1> USE Known
<1>1. r \in Procs /\ fdr[r] \in Inodes /\ fdr[r] # dir.tmp /\ removals = 0
  BY PutsAtOnce DEF TypeOK, NamesApart, Procs
<1>2. content \in [Inodes -> [Keys -> Values \cup {Absent, Torn}]] /\ dir \in [Names -> Inodes \cup {0}]
  BY DEF TypeOK
<1>3. CASE PlaceWrite(w) \/ Truncate(w) \/ Close(w)
  <2>1. dir' = dir /\ \E x : content' = [content EXCEPT ![fdw[w]] = x]
    BY <1>3 DEF PlaceWrite, Truncate, Close
  <2>2. pc[w] \in {"write", "truncnew", "trunctemp", "close", "closelast"}
    BY <1>3 DEF PlaceWrite, Truncate, Close
  <2>3. fdw[w] \in {dir.ini, dir.tmp}
    BY <1>1, <2>2 DEF SameFile, Copying
  <2>4. QED
    BY <1>1, <1>2, <2>1, <2>3
<1>4. CASE CreateNew(w) \/ TempNew(w)
  <2>1. PICK name \in Names, lock \in {"locknew", "locktemp"} :
          /\ OpenTruncated(w, name, lock)
          /\ (name = "ini" /\ pc[w] = "makenew") \/ (name = "tmp" /\ pc[w] = "maketemp")
    BY <1>4 DEF CreateNew, TempNew, Names
  <2>2. PICK f \in Inodes : /\ f = dir[name] \/ (dir[name] = 0 /\ f \notin Used)
                            /\ f # 0 /\ dir' = [dir EXCEPT ![name] = f]
                            /\ content' = [content EXCEPT ![f] = Empty]
    BY <2>1, TruncatedFile
  <2>3. f \notin Used
    BY <2>1, <2>2 DEF SameFile
  <2>4. f # fdr[r]
    BY <1>1, <2>3 DEF Used
  <2>5. dir'.ini \in {dir.ini, f}
    BY <1>2, <2>2 DEF Names
  <2>6. QED
    BY <1>1, <1>2, <2>2, <2>4, <2>5
<1>5. CASE Rename(w)
  BY <1>1, <1>5 DEF Rename
<1>6. CASE ~(PlaceWrite(w) \/ Truncate(w) \/ Close(w) \/ CreateNew(w) \/ TempNew(w) \/ Rename(w))
  <2>1. UNCHANGED <<dir, content>>
    BY <1>6 DEF Writer, Crash, PutsOpen, PutsLock, PutsLook, PlaceOpen, PlaceLock, CreateOpen,
       TempOpen, OpenExisting, WriteLock, CopyOpen, Aborts, Dies, CopyLock, Copy
  <2>2. QED
    BY <2>1
<1>7. QED
  BY <1>3, <1>4, <1>5, <1>6

LEMMA WriterPuts ==
  ASSUME NEW w, Writers = {w}, OneIInv, Writer(w) \/ Crash(w), removals' = 0
  PROVE  Store!Put
<1> USE Known
<1>1. UNCHANGED <<key, got>>
  BY DEF Writer, Crash, PutsOpen, PutsLock, PutsLook, PlaceOpen, PlaceLock, PlaceWrite,
     CreateOpen, CreateNew, TempOpen, TempNew, OpenExisting, OpenTruncated, WriteLock, Truncate,
     CopyOpen, Aborts, Dies, CopyLock, Copy, Close, Rename, readerVars
<1>2. \A r \in Readers : pc'[r] = pc[r] /\ fdr'[r] = fdr[r]
  BY OpenedByWriter DEF Procs
<1>3. Current \in [Keys -> Values \cup {Absent}]
  <2>1. Current \in [Keys -> Values \cup {Absent, Torn}]
    BY EmptyType DEF Current, TypeOK, Names
  <2>2. \A k \in Keys : Current[k] # Torn
    BY EmptyType, AbsentAssumption DEF Current, TypeOK, Names, NeverTorn
  <2>3. QED
    BY <2>1, <2>2
<1>4. \E k \in Keys, v \in Values \cup {Absent} : Current' = [Current EXCEPT ![k] = v]
  <2>1. CASE Current' = Current
    <3>1. PICK k \in Keys : TRUE
      BY KeysAssumption
    <3>2. Current[k] \in Values \cup {Absent} /\ [Current EXCEPT ![k] = Current[k]] = Current
      BY <1>3
    <3>3. QED
      BY <2>1, <3>2
  <2>2. CASE Current' = Edited(w) /\ todo[w] # << >>
    BY <2>2, Call DEF Edited
  <2>3. QED
    BY <2>1, <2>2, PutsAtOnce
<1>5. AskedBy' = AskedBy
  BY <1>1, <1>2 DEF AskedBy
<1> DEFINE S == {r \in Readers : pc[r] # "idle" /\ fdr[r] = dir.ini /\ dir'.ini # dir.ini}
<1>6. S \in SUBSET {r \in Readers : AskedBy[r] # Absent /\ KeptFor[r] = {}}
  <2>1. ASSUME NEW r \in S PROVE r \in Readers /\ AskedBy[r] # Absent /\ KeptFor[r] = {}
    <3>1. AskedBy[r] = key[r] /\ key[r] \in Keys
      BY OpenByReader DEF AskedBy
    <3>2. QED
      BY <3>1, AbsentAssumption DEF KeptFor
  <2>2. QED
    BY <2>1
<1>7. KeptFor' = [r \in Readers |-> IF r \in S THEN {Current[AskedBy[r]]} ELSE KeptFor[r]]
  <2>1. ASSUME NEW r \in Readers
        PROVE  KeptFor'[r] = IF r \in S THEN {Current[AskedBy[r]]} ELSE KeptFor[r]
    <3>1. KeptFor'[r] = IF pc[r] = "idle" \/ fdr[r] = dir'.ini THEN {} ELSE {content'[fdr[r]][key[r]]}
      BY <1>1, <1>2 DEF KeptFor
    <3>2. KeptFor[r] = IF pc[r] = "idle" \/ fdr[r] = dir.ini THEN {} ELSE {content[fdr[r]][key[r]]}
      BY DEF KeptFor
    <3>3. CASE pc[r] = "idle"
      BY <3>1, <3>2, <3>3
    <3>4. CASE pc[r] # "idle"
      <4>1. fdr[r] # 0 /\ fdr[r] \in Inodes
        BY <3>4, OpenByReader, InodesAssumption DEF IInv, Descriptors, Opened, Procs
      <4>2. /\ dir'.ini # dir.ini => fdr[r] # dir'.ini
            /\ fdr[r] # dir.ini \/ dir'.ini # dir.ini => content'[fdr[r]] = content[fdr[r]]
        BY <4>1, OldFiles
      <4>3. CASE r \in S
        <5>1. Current[AskedBy[r]] = content[fdr[r]][key[r]]
          BY <3>4, <4>1, <4>3 DEF Current, AskedBy
        <5>2. QED
          BY <3>1, <3>4, <4>2, <4>3, <5>1
      <4>4. CASE r \notin S
        BY <3>1, <3>2, <3>4, <4>2, <4>4
      <4>5. QED
        BY <4>3, <4>4
    <3>5. QED
      BY <3>3, <3>4
  <2>2. KeptFor' = [r \in Readers |-> KeptFor'[r]]
    BY DEF KeptFor
  <2>3. QED
    BY <2>1, <2>2
<1> HIDE DEF S
<1>8. QED
  BY <1>1, <1>4, <1>5, <1>6, <1>7 DEF Store!Put


\* A reader opens the file at the call, and returns what it has open is made of; when
\* there is none it returns at once.
LEMMA ReaderCalls ==
  ASSUME NEW w, Writers = {w}, OneIInv, NEW r \in Readers, Reader(r)
  PROVE  Store!Call(r) \/ Store!Return(r) \/ Store!Lookup(r) \/ UNCHANGED storeVars
<1> USE Known
<1>1. r \in Procs /\ key[r] \in Keys /\ key[r] # Absent
  BY OpenByReader, AbsentAssumption
<1>2. /\ \A q \in Readers \ {r} : pc'[q] = pc[q] /\ fdr'[q] = fdr[q]
      /\ \A q \in Readers \ {r} : key'[q] = key[q]
  <2>1. \A q \in Readers \ {r} : pc'[q] = pc[q] /\ fdr'[q] = fdr[q]
    BY OpenedByReader DEF Procs
  <2>2. \A q \in Readers \ {r} : key'[q] = key[q]
    BY DEF Reader, GetsOpen, GetsLock, GetsRead, GotValue, TypeOK, readerVars
  <2>3. QED
    BY <2>1, <2>2
<1>3. UNCHANGED <<dir, content>> /\ Current' = Current
  BY DEF Reader, GetsOpen, GetsLock, GetsRead, Current
<1>4. /\ \A q \in Readers \ {r} : AskedBy'[q] = AskedBy[q] /\ KeptFor'[q] = KeptFor[q]
      /\ AskedBy' = [q \in Readers |-> AskedBy'[q]] /\ KeptFor' = [q \in Readers |-> KeptFor'[q]]
      /\ AskedBy = [q \in Readers |-> AskedBy[q]] /\ KeptFor = [q \in Readers |-> KeptFor[q]]
  BY <1>2, <1>3 DEF AskedBy, KeptFor
<1>5. CASE GetsOpen(r) /\ dir.ini = 0
  <2>1. pc' = pc /\ fdr' = fdr /\ got' = [got EXCEPT ![r] = Absent] /\ pc[r] = "idle"
    BY <1>5 DEF GetsOpen, GotValue
  <2>2. AskedBy[r] = Absent /\ AskedBy'[r] = Absent /\ KeptFor[r] = {} /\ KeptFor'[r] = {}
    BY <2>1 DEF AskedBy, KeptFor
  <2>3. AskedBy' = AskedBy /\ KeptFor' = KeptFor
    BY <1>4, <2>2
  <2>4. Current[key[r]] = Absent
    BY <1>1, <1>5 DEF Current, Empty
  <2>5. Store!Lookup(r)
    BY <1>1, <1>3, <2>1, <2>2, <2>3, <2>4 DEF Store!Lookup
  <2>6. QED
    BY <2>5
<1>6. CASE GetsOpen(r) /\ dir.ini # 0
  <2>1. pc[r] = "idle" /\ pc'[r] = "lock" /\ fdr'[r] = dir.ini /\ UNCHANGED <<key, got>>
    BY <1>1, <1>6 DEF GetsOpen, Goto, TypeOK, readerVars
  <2>2. AskedBy[r] = Absent /\ AskedBy'[r] = key[r] /\ KeptFor[r] = {} /\ KeptFor'[r] = {}
    BY <1>3, <2>1 DEF AskedBy, KeptFor
  <2>3. AskedBy' = [AskedBy EXCEPT ![r] = key[r]] /\ KeptFor' = KeptFor
    BY <1>4, <2>2
  <2>4. Store!Call(r)
    BY <1>1, <1>3, <2>1, <2>2, <2>3 DEF Store!Call
  <2>5. QED
    BY <2>4
<1>7. CASE GetsLock(r)
  <2>1. pc[r] = "lock" /\ pc'[r] = "look" /\ UNCHANGED <<fdr, key, got>>
    BY <1>1, <1>7 DEF GetsLock, Goto, TypeOK, readerVars
  <2>2. AskedBy'[r] = AskedBy[r] /\ KeptFor'[r] = KeptFor[r]
    BY <1>3, <2>1 DEF AskedBy, KeptFor
  <2>3. AskedBy' = AskedBy /\ KeptFor' = KeptFor
    BY <1>4, <2>2
  <2>4. QED
    BY <1>3, <2>1, <2>3 DEF storeVars
<1>8. CASE GetsRead(r)
  <2>1. /\ pc[r] = "look" /\ pc'[r] = "idle"
        /\ got' = [got EXCEPT ![r] = content[fdr[r]][key[r]]]
    BY <1>1, <1>8 DEF GetsRead, GotValue, Goto, TypeOK
  <2>2. /\ AskedBy[r] = key[r] /\ AskedBy'[r] = Absent /\ KeptFor'[r] = {}
        /\ KeptFor[r] = IF fdr[r] = dir.ini THEN {} ELSE {content[fdr[r]][key[r]]}
    BY <2>1 DEF AskedBy, KeptFor
  <2>3. AskedBy' = [AskedBy EXCEPT ![r] = Absent] /\ KeptFor' = [KeptFor EXCEPT ![r] = {}]
    BY <1>4, <2>2
  <2>4. fdr[r] = dir.ini => Current[AskedBy[r]] = content[fdr[r]][key[r]]
    BY <2>1, <2>2, OpenByReader, InodesAssumption DEF Current
  <2>5. content[fdr[r]][key[r]] \in
          IF KeptFor[r] = {} THEN {Current[AskedBy[r]]} ELSE KeptFor[r]
    BY <2>2, <2>4
  <2>6. Store!Return(r)
    BY <1>1, <1>3, <2>1, <2>2, <2>3, <2>5 DEF Store!Return
  <2>7. QED
    BY <2>6
<1>9. QED
  BY <1>5, <1>6, <1>7, <1>8 DEF Reader

\* With one writer, a call of ini_puts changes one key at one moment and a call of
\* ini_gets returns a value of that key from its duration, wherever the writer crashes.
THEOREM ImplementsAtomicStore ==
  ASSUME NEW w, Writers = {w}
  PROVE  Spec => Atomic
<1>1. Init => Store!Init
  BY StoreInit
<1>2. OneIInv /\ [Next]_vars => [Store!Next \/ removals' # 0]_storeVars
  <2> SUFFICES ASSUME OneIInv, [Next]_vars
               PROVE  Store!Next \/ removals' # 0 \/ UNCHANGED storeVars
    OBVIOUS
  <2>1. CASE Writer(w) \/ Crash(w)
    <3>1. removals' = 0 => Store!Put
      BY <2>1, WriterPuts
    <3>2. QED
      BY <3>1 DEF Store!Next
  <2>2. CASE \E r \in Readers : Reader(r)
    BY <2>2, ReaderCalls DEF Store!Next
  <2>3. CASE Remove
    <3>1. removals \in Nat /\ removals' = removals + 1
      BY <2>3, Known DEF Remove, TypeOK
    <3>2. QED
      BY <3>1
  <2>4. CASE UNCHANGED vars
    <3>1. dir' = dir /\ content' = content /\ pc' = pc /\ fdr' = fdr /\ key' = key /\ got' = got
      BY <2>4 DEF vars, readerVars
    <3>2. QED
      BY <3>1 DEF storeVars, Current, AskedBy, KeptFor
  <2>5. QED
    BY <2>1, <2>2, <2>3, <2>4 DEF Next
<1>3. QED
  BY <1>1, <1>2, OneWriterInvariant, PTL DEF Spec, Atomic

=============================================================================
