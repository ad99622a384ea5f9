------------------------------ MODULE IniStore -------------------------------
(***************************************************************************)
(* An INI file that several processes use at once: the calls of ini_puts of *)
(* some, and the calls of ini_gets of others, such as the settings that     *)
(* vms_controller_load_config reads one by one, with the files, the locks   *)
(* (flock) and the rename of minGlue.h between them.  A process may crash   *)
(* in a call: its locks go and its buffered writes are lost.  What a call   *)
(* makes of the contents is that of IniWrite; here a file is the value of   *)
(* each of its keys.                                                        *)
(***************************************************************************)
EXTENDS Integers, Sequences, FiniteSets, FiniteSetsExt

CONSTANTS
  Writers, Readers,
  Keys,       \* keys, numbered in the order of their lines
  Values,
  Width,      \* characters a value takes
  Absent,     \* no value: a key that is not in the file, or is to be erased
  Requests,   \* the calls of ini_puts of each writer, in order
  Inodes,     \* the files there may be at one time
  Present,    \* whether there is a file at first: {0}, {1} or {0, 1}
  MaxReads, MaxFaults \* bounds: calls of a reader, crashes and deletions

Torn == "torn" \* a line that was overwritten at a wrong place

Request == [key : Keys, value : Values \cup {Absent}]

ASSUME KeysAssumption == Keys \subseteq Nat \ {0} /\ Keys # {}
ASSUME WidthAssumption == Width \in [Values -> Nat]
ASSUME AbsentAssumption ==
  Absent \notin Keys /\ Absent \notin Values /\ Torn \notin Values \cup {Absent}
ASSUME RequestsAssumption == Requests \in [Writers -> Seq(Request)]
ASSUME BoundsAssumption == MaxReads \in Nat /\ MaxFaults \in Nat

VARIABLES
  dir,      \* the file of the name and of the temporary name, 0 for none
  content,  \* the settings of each file
  locks,    \* the locks held: [file, proc, fd, mode]
  pc,
  fdr, fdw, \* the file a process has open to read, and to write
  todo,     \* the calls a writer has left
  buf,      \* the settings a writer read, or writes when it closes
  ret,      \* what the last call of a writer returned, -1 before
  reads, key, got,  \* a reader's calls left, its key, what it got
  crashes, removals

readerVars == <<reads, key, got>>
faults == <<crashes, removals>>
vars == <<dir, content, locks, pc, fdr, fdw, todo, buf, ret,
          readerVars, faults>>

Names == {"ini", "tmp"}
Procs == Writers \cup Readers

\* There is a file that has no name and is not open: two are named, and a process
\* has two open.
ASSUME ProcsAssumption == IsFiniteSet(Procs) /\ Writers \cap Readers = {}
ASSUME InodesAssumption ==
  /\ Inodes \subseteq Nat \ {0} /\ IsFiniteSet(Inodes) /\ Present \subseteq Inodes \cup {0}
  /\ Cardinality(Inodes) > 2 + 2 * Cardinality(Procs)

Empty == [k \in Keys |-> Absent]
\* The settings of the file of the name, if there is one.
Current == IF dir.ini = 0 THEN Empty ELSE content[dir.ini]

\* The lines before that of k, and that line: where an overwrite goes.
Offset(settings, k) ==
  MapThenSumSet(LAMBDA j : Width[settings[j]],
                {j \in Keys : j < k /\ settings[j] \in Values})
Place(settings, k) == <<Offset(settings, k), Width[settings[k]]>>

\* flock: a shared lock excludes an exclusive one, also that of another
\* descriptor of the same process.
Free(file, mode) == \A l \in locks : l.file = file => l.mode = "SH" /\ mode = "SH"
Lock(p, fd, file, mode) ==
  /\ Free(file, mode)
  /\ locks' = locks \cup {[file |-> file, proc |-> p, fd |-> fd, mode |-> mode]}
Unlocked(p, fds) == {l \in locks : ~(l.proc = p /\ l.fd \in fds)}

\* A file that has no name and is not open is gone.
Used == {dir[n] : n \in Names} \cup {fdr[p] : p \in Procs}
          \cup {fdw[p] : p \in Procs}
NewFile == Min(Inodes \ Used)

Init ==
  /\ \E n \in Present, settings \in [Keys -> Values] :
       /\ dir = [ini |-> n, tmp |-> 0]
       /\ content = [f \in Inodes |-> IF f = n THEN settings ELSE Empty]
  /\ locks = {}
  /\ pc = [p \in Procs |-> "idle"]
  /\ fdr = [p \in Procs |-> 0] /\ fdw = [p \in Procs |-> 0]
  /\ todo = Requests
  /\ buf = [w \in Writers |-> Empty]
  /\ ret = [w \in Writers |-> -1]
  /\ reads = [r \in Readers |-> MaxReads]
  /\ key = [r \in Readers |-> Min(Keys)]
  /\ got = [r \in Readers |-> Absent]
  /\ crashes = 0 /\ removals = 0

Goto(p, label) == pc' = [pc EXCEPT ![p] = label]

-----------------------------------------------------------------------------
(* ini_puts by w. *)

Req(w) == Head(todo[w])

Return(w, value) ==
  /\ ret' = [ret EXCEPT ![w] = value]
  /\ todo' = [todo EXCEPT ![w] = Tail(@)]
  /\ Goto(w, "idle")

\* fopen of the file to read: there is none, or flock comes next.
PutsOpen(w) ==
  /\ pc[w] = "idle" /\ todo[w] # << >>
  /\ IF dir.ini = 0
     THEN /\ IF Req(w).value = Absent THEN Return(w, 1)
             ELSE Goto(w, "create") /\ UNCHANGED <<todo, ret>>
          /\ fdr' = fdr
     ELSE /\ fdr' = [fdr EXCEPT ![w] = dir.ini]
          /\ Goto(w, "lock")
          /\ UNCHANGED <<todo, ret>>
  /\ UNCHANGED <<dir, content, locks, fdw, buf, readerVars, faults>>

PutsLock(w) ==
  /\ pc[w] = "lock"
  /\ Lock(w, "r", fdr[w], "SH")
  /\ Goto(w, "look")
  /\ UNCHANGED <<dir, content, fdr, fdw, todo, buf, ret, readerVars, faults>>

\* Mutant: a value of another length is overwritten in place as well.
PutsLookAnyLength(w) ==
  LET now == content[fdr[w]][Req(w).key]
      new == Req(w).value
  IN /\ pc[w] = "look"
     /\ IF now = new THEN Return(w, 1)
        ELSE /\ Goto(w, IF now \in Values /\ new \in Values
                        THEN "place" ELSE "temp")
             /\ UNCHANGED <<todo, ret>>
     /\ buf' = [buf EXCEPT ![w] = content[fdr[w]]]
     /\ locks' = Unlocked(w, {"r"})
     /\ fdr' = [fdr EXCEPT ![w] = 0]
     /\ UNCHANGED <<dir, content, fdw, readerVars, faults>>

\* Mutant: a setting that is there already is looked up again.
PutsLookAgain(w) ==
  LET now == content[fdr[w]][Req(w).key]
      new == Req(w).value
  IN /\ pc[w] = "look"
     /\ Goto(w, IF now = new THEN "idle"
                ELSE IF /\ now \in Values /\ new \in Values
                        /\ Width[now] = Width[new]
                     THEN "place" ELSE "temp")
     /\ UNCHANGED <<todo, ret>>
     /\ buf' = [buf EXCEPT ![w] = content[fdr[w]]]
     /\ locks' = Unlocked(w, {"r"})
     /\ fdr' = [fdr EXCEPT ![w] = 0]
     /\ UNCHANGED <<dir, content, fdw, readerVars, faults>>

\* getkeystring, and the two short cuts; each way the file is closed.
PutsLook(w) ==
  LET now == content[fdr[w]][Req(w).key]
      new == Req(w).value
  IN /\ pc[w] = "look"
     /\ IF now = new THEN Return(w, 1)
        ELSE /\ Goto(w, IF /\ now \in Values /\ new \in Values
                           /\ Width[now] = Width[new]
                        THEN "place" ELSE "temp")
             /\ UNCHANGED <<todo, ret>>
     /\ buf' = [buf EXCEPT ![w] = content[fdr[w]]]
     /\ locks' = Unlocked(w, {"r"})
     /\ fdr' = [fdr EXCEPT ![w] = 0]
     /\ UNCHANGED <<dir, content, fdw, readerVars, faults>>

\* ini_openrewrite, which fails when there is no file.
PlaceOpen(w) ==
  /\ pc[w] = "place"
  /\ IF dir.ini = 0 THEN Return(w, 0) /\ fdw' = fdw
     ELSE /\ fdw' = [fdw EXCEPT ![w] = dir.ini]
          /\ Goto(w, "lockplace")
          /\ UNCHANGED <<todo, ret>>
  /\ UNCHANGED <<dir, content, locks, fdr, buf, readerVars, faults>>

PlaceLock(w) ==
  /\ pc[w] = "lockplace"
  /\ Lock(w, "w", fdw[w], "EX")
  /\ Goto(w, "write")
  /\ UNCHANGED <<dir, content, fdr, fdw, todo, buf, ret, readerVars, faults>>

\* Where the line was when it was looked up, head, is where the new one goes.
PlaceWrite(w) ==
  LET k == Req(w).key
  IN /\ pc[w] = "write"
     /\ content' = [content EXCEPT ![fdw[w]][k] =
          IF /\ @ \in Values
             /\ Place(content[fdw[w]], k) = Place(buf[w], k)
             /\ Width[@] = Width[Req(w).value]
          THEN Req(w).value ELSE Torn]
     /\ locks' = Unlocked(w, {"w"})
     /\ fdw' = [fdw EXCEPT ![w] = 0]
     /\ Return(w, 1)
     /\ UNCHANGED <<dir, fdr, buf, readerVars, faults>>

\* ini_openwrite of the temporary file or, when there was none, of the file itself.
\* First fopen "r+": flock comes next or, when there is no such file, fopen "w".
OpenExisting(w, name, lock, missing) ==
  /\ fdw' = [fdw EXCEPT ![w] = dir[name]]
  /\ Goto(w, IF dir[name] # 0 THEN lock ELSE missing)
  /\ UNCHANGED <<dir, content, locks, fdr, todo, buf, ret, readerVars, faults>>

\* fopen "w", before any lock: a new file, or what another process has made of that
\* name meanwhile, cut to nothing.
OpenTruncated(w, name, lock) ==
  LET file == IF dir[name] # 0 THEN dir[name] ELSE NewFile
  IN /\ dir' = [dir EXCEPT ![name] = file]
     /\ content' = [content EXCEPT ![file] = Empty]
     /\ fdw' = [fdw EXCEPT ![w] = file]
     /\ Goto(w, lock)
     /\ UNCHANGED <<locks, fdr, todo, buf, ret, readerVars, faults>>

CreateOpen(w) == pc[w] = "create" /\ OpenExisting(w, "ini", "locknew", "makenew")
CreateNew(w) == pc[w] = "makenew" /\ OpenTruncated(w, "ini", "locknew")
TempOpen(w) == pc[w] = "temp" /\ OpenExisting(w, "tmp", "locktemp", "maketemp")
TempNew(w) == pc[w] = "maketemp" /\ OpenTruncated(w, "tmp", "locktemp")

WriteLock(w) ==
  /\ \/ pc[w] = "locknew" /\ Goto(w, "truncnew")
     \/ pc[w] = "locktemp" /\ Goto(w, "trunctemp")
  /\ Lock(w, "w", fdw[w], "EX")
  /\ UNCHANGED <<dir, content, fdr, fdw, todo, buf, ret, readerVars, faults>>

OnlyNew(w) == [Empty EXCEPT ![Req(w).key] = Req(w).value]

Truncate(w) ==
  /\ \/ /\ pc[w] = "truncnew"
        /\ buf' = [buf EXCEPT ![w] = OnlyNew(w)]
        /\ Goto(w, "closelast")
     \/ pc[w] = "trunctemp" /\ buf' = buf /\ Goto(w, "reopen")
  /\ content' = [content EXCEPT ![fdw[w]] = Empty]
  /\ UNCHANGED <<dir, locks, fdr, fdw, todo, ret, readerVars, faults>>

\* The original is opened again; if it is gone, the new setting is all there is,
\* and there must be one.
CopyOpen(w) ==
  /\ pc[w] = "reopen"
  /\ dir.ini # 0 \/ Req(w).value # Absent
  /\ IF dir.ini = 0
     THEN /\ buf' = [buf EXCEPT ![w] = OnlyNew(w)]
          /\ fdr' = fdr
          /\ Goto(w, "closelast")
     ELSE /\ fdr' = [fdr EXCEPT ![w] = dir.ini]
          /\ buf' = buf
          /\ Goto(w, "lockcopy")
  /\ UNCHANGED <<dir, content, locks, fdw, todo, ret, readerVars, faults>>

CopyLock(w) ==
  /\ pc[w] = "lockcopy"
  /\ Lock(w, "r", fdr[w], "SH")
  /\ Goto(w, "copy")
  /\ UNCHANGED <<dir, content, fdr, fdw, todo, buf, ret, readerVars, faults>>

\* The copy goes to the buffer of the stream; the original is closed.
Copy(w) ==
  /\ pc[w] = "copy"
  /\ buf' = [buf EXCEPT ![w] =
               [content[fdr[w]] EXCEPT ![Req(w).key] = Req(w).value]]
  /\ locks' = Unlocked(w, {"r"})
  /\ fdr' = [fdr EXCEPT ![w] = 0]
  /\ Goto(w, "close")
  /\ UNCHANGED <<dir, content, fdw, todo, ret, readerVars, faults>>

\* Mutant: the lock stays behind.
CloseLocked(w) ==
  /\ pc[w] \in {"close", "closelast"}
  /\ content' = [content EXCEPT ![fdw[w]] = buf[w]]
  /\ fdw' = [fdw EXCEPT ![w] = 0]
  /\ IF pc[w] = "close"
     THEN Goto(w, "rename") /\ UNCHANGED <<todo, ret>> ELSE Return(w, 1)
  /\ UNCHANGED <<dir, locks, fdr, buf, readerVars, faults>>

\* Mutant: the temporary file is renamed before what was written is flushed.
CloseUnwritten(w) ==
  /\ pc[w] \in {"close", "closelast"}
  /\ content' = content
  /\ locks' = Unlocked(w, {"w"})
  /\ fdw' = [fdw EXCEPT ![w] = 0]
  /\ IF pc[w] = "close"
     THEN Goto(w, "rename") /\ UNCHANGED <<todo, ret>> ELSE Return(w, 1)
  /\ UNCHANGED <<dir, fdr, buf, readerVars, faults>>

\* fclose writes the buffer and gives up the lock.
Close(w) ==
  /\ pc[w] \in {"close", "closelast"}
  /\ content' = [content EXCEPT ![fdw[w]] = buf[w]]
  /\ locks' = Unlocked(w, {"w"})
  /\ fdw' = [fdw EXCEPT ![w] = 0]
  /\ IF pc[w] = "close"
     THEN Goto(w, "rename") /\ UNCHANGED <<todo, ret>> ELSE Return(w, 1)
  /\ UNCHANGED <<dir, fdr, buf, readerVars, faults>>

\* rename fails when the temporary file has no name any more; 1 is returned.
Rename(w) ==
  /\ pc[w] = "rename"
  /\ dir' = IF dir.tmp = 0 THEN dir ELSE [ini |-> dir.tmp, tmp |-> 0]
  /\ Return(w, 1)
  /\ UNCHANGED <<content, locks, fdr, fdw, buf, readerVars, faults>>

\* The process dies in a call and is started again, to call ini_puts anew.
Dies(w) ==
  /\ locks' = Unlocked(w, {"r", "w"})
  /\ fdr' = [fdr EXCEPT ![w] = 0]
  /\ fdw' = [fdw EXCEPT ![w] = 0]
  /\ Goto(w, "idle")
  /\ UNCHANGED <<dir, content, todo, buf, ret, readerVars, removals>>

Crash(w) ==
  /\ pc[w] # "idle" /\ crashes + removals < MaxFaults
  /\ crashes' = crashes + 1
  /\ Dies(w)

\* assert(Key != NULL && Value != NULL): the original is gone, and was to lose a setting.
Aborts(w) ==
  /\ pc[w] = "reopen" /\ dir.ini = 0 /\ Req(w).value = Absent
  /\ Dies(w)
  /\ UNCHANGED crashes

Writer(w) ==
  \/ PutsOpen(w) \/ PutsLock(w) \/ PutsLook(w)
  \/ PlaceOpen(w) \/ PlaceLock(w) \/ PlaceWrite(w)
  \/ CreateOpen(w) \/ CreateNew(w) \/ TempOpen(w) \/ TempNew(w)
  \/ WriteLock(w) \/ Truncate(w) \/ CopyOpen(w) \/ Aborts(w)
  \/ CopyLock(w) \/ Copy(w) \/ Close(w) \/ Rename(w)

-----------------------------------------------------------------------------
(* ini_gets by r, of one key and then the next. *)

NextKey(r) ==
  LET above == {k \in Keys : k > key[r]}
  IN IF above = {} THEN Min(Keys) ELSE Min(above)

GotValue(r, value) ==
  /\ got' = [got EXCEPT ![r] = value]
  /\ key' = [key EXCEPT ![r] = NextKey(r)]
  /\ reads' = [reads EXCEPT ![r] = @ - 1]

GetsOpen(r) ==
  /\ pc[r] = "idle" /\ reads[r] > 0
  /\ IF dir.ini = 0 THEN GotValue(r, Absent) /\ UNCHANGED <<pc, fdr>>
     ELSE /\ fdr' = [fdr EXCEPT ![r] = dir.ini]
          /\ Goto(r, "lock")
          /\ UNCHANGED readerVars
  /\ UNCHANGED <<dir, content, locks, fdw, todo, buf, ret, faults>>

GetsLock(r) ==
  /\ pc[r] = "lock"
  /\ Lock(r, "r", fdr[r], "SH")
  /\ Goto(r, "look")
  /\ UNCHANGED <<dir, content, fdr, fdw, todo, buf, ret, readerVars, faults>>

GetsRead(r) ==
  /\ pc[r] = "look"
  /\ GotValue(r, content[fdr[r]][key[r]])
  /\ locks' = Unlocked(r, {"r"})
  /\ fdr' = [fdr EXCEPT ![r] = 0]
  /\ Goto(r, "idle")
  /\ UNCHANGED <<dir, content, fdw, todo, buf, ret, faults>>

Reader(r) == GetsOpen(r) \/ GetsLock(r) \/ GetsRead(r)

\* Somebody deletes the file.
Remove ==
  /\ dir.ini # 0 /\ crashes + removals < MaxFaults
  /\ removals' = removals + 1
  /\ dir' = [dir EXCEPT !.ini = 0]
  /\ UNCHANGED <<content, locks, pc, fdr, fdw, todo, buf, ret,
                 readerVars, crashes>>

Finished ==
  /\ \A p \in Procs : pc[p] = "idle"
  /\ \A w \in Writers : todo[w] = << >>
  /\ \A r \in Readers : reads[r] = 0

Next ==
  \/ \E w \in Writers : Writer(w) \/ Crash(w)
  \/ \E r \in Readers : Reader(r)
  \/ Remove
  \/ Finished /\ UNCHANGED vars

\* Every process goes on when it can; locks are given up in the end, so a
\* process that waits for one gets it when the others have no calls left.
Spec ==
  /\ Init /\ [][Next]_vars
  /\ \A w \in Writers : WF_vars(Writer(w))
  /\ \A r \in Readers : WF_vars(Reader(r))

-----------------------------------------------------------------------------
(* Properties. *)

\* The steps with the file open to read, and to write, and those with its lock.
Copying == {"reopen", "lockcopy", "copy", "close"}
Reading == {"lock", "look", "lockcopy", "copy"}
Sharing == {"look", "copy"}
Excluding == {"write", "truncnew", "closelast", "trunctemp"} \cup Copying
Writing == {"lockplace", "locknew", "locktemp"} \cup Excluding
Steps ==
  {"idle", "create", "makenew", "place", "temp", "maketemp", "rename"}
    \cup Reading \cup Writing

\* Types.
TypeOK ==
  /\ dir \in [Names -> Inodes \cup {0}]
  /\ content \in [Inodes -> [Keys -> Values \cup {Absent, Torn}]]
  /\ locks \subseteq [file : Inodes, proc : Procs, fd : {"r", "w"}, mode : {"SH", "EX"}]
  /\ pc \in [Procs -> Steps]
  /\ fdr \in [Procs -> Inodes \cup {0}] /\ fdw \in [Procs -> Inodes \cup {0}]
  /\ todo \in [Writers -> Seq(Request)]
  /\ buf \in [Writers -> [Keys -> Values \cup {Absent, Torn}]]
  /\ ret \in [Writers -> -1 .. 1]
  /\ reads \in [Readers -> 0 .. MaxReads] /\ key \in [Readers -> Keys]
  /\ got \in [Readers -> Values \cup {Absent, Torn}]
  /\ crashes \in Nat /\ removals \in Nat /\ crashes + removals <= MaxFaults

\* With one writer, whatever it is in the middle of and wherever it crashes,
\* every ini_gets returns a value its key had at one moment of the call, and
\* ini_puts changes one key at one moment, as long as nobody else deletes the
\* file (minGlue.h:7-37, minIni.c:657-867).
AskedBy == [r \in Readers |-> IF pc[r] = "idle" THEN Absent ELSE key[r]]
KeptFor ==
  [r \in Readers |-> IF pc[r] = "idle" \/ fdr[r] = dir.ini THEN {}
                     ELSE {content[fdr[r]][key[r]]}]
Store == INSTANCE AtomicStore WITH
  settings <- Current, asked <- AskedBy, kept <- KeptFor
storeVars == <<Current, AskedBy, KeptFor, got>>
Atomic == Store!Init /\ [][Store!Next \/ removals' # 0]_storeVars

\* minIni.c:655: "1 if successful, otherwise 0": when no call is under way and
\* nobody deleted the file, it has the last value a writer was told is written.
LastPut(w) ==
  IF ret[w] # 1 THEN {} ELSE {Requests[w][Len(Requests[w]) - Len(todo[w])]}
UpdatesKept ==
  (\A w \in Writers : pc[w] = "idle") /\ removals = 0 =>
    \A w \in Writers : \A request \in LastPut(w) :
      Current[request.key] = request.value

\* An overwrite in place hits the line it is meant for, also when the file is
\* deleted and made anew in between (minIni.c:697-714).
NeverTorn == \A f \in Inodes, k \in Keys : content[f][k] # Torn

\* However many write: of those who have locked a file, one that writes it, or has
\* written it and not closed it yet, is alone with it (minGlue.h:7-27).
WriterAlone ==
  \A p, q \in Procs :
    /\ pc[p] \in Excluding /\ pc[q] \in Sharing => fdw[p] # fdr[q]
    /\ p # q /\ {pc[p], pc[q]} \subseteq Excluding => fdw[p] # fdw[q]

\* Who changes what is in a file: one that has locked it, or one that makes it.
ChangedBy(w, f) ==
  \/ pc[w] \in Excluding /\ fdw[w] = f
  \/ pc[w] = "makenew" /\ dir.ini = f /\ content'[f] = Empty
  \/ pc[w] = "maketemp" /\ dir.tmp = f /\ content'[f] = Empty

\* However many write: what is in a file is changed by the one who has locked it, or is
\* cut to nothing, locked or not, by one who found no file of its name a step before
\* (minGlue.h:14-19).
WritesLocked ==
  [][\A f \in Used \cap Inodes :
       content'[f] # content[f] => \E w \in Writers : ChangedBy(w, f)]_vars

\* With one writer: while anybody reads a file, it stands still (minGlue.h:7-27).
StandsStill ==
  [][\A p \in Procs : pc[p] \in Sharing => content'[fdr[p]] = content[fdr[p]]]_vars

\* Every call of every process returns; one that crashes, or fails the assertion, is made
\* again.
AllFinish == <>[]Finished

-----------------------------------------------------------------------------
(* The invariants behind them, in parts: of any number of writers first. *)

\* What is open at each step, and what is left to do.
Opened(p) ==
  /\ fdr[p] # 0 <=> pc[p] \in Reading
  /\ fdw[p] # 0 <=> pc[p] \in Writing
  /\ p \in Writers /\ pc[p] # "idle" => todo[p] # << >>
  /\ p \in Readers => pc[p] \in {"idle", "lock", "look"}
  /\ p \in Readers /\ pc[p] # "idle" => reads[p] > 0
Descriptors == \A p \in Procs : Opened(p)

\* Who has which lock.
ReadLock(p) == [file |-> fdr[p], proc |-> p, fd |-> "r", mode |-> "SH"]
WriteLockOf(p) == [file |-> fdw[p], proc |-> p, fd |-> "w", mode |-> "EX"]
LocksHeld ==
  /\ \A l \in locks :
       \/ l = ReadLock(l.proc) /\ pc[l.proc] \in Sharing
       \/ l = WriteLockOf(l.proc) /\ pc[l.proc] \in Excluding
  /\ \A p \in Procs :
       /\ pc[p] \in Sharing => ReadLock(p) \in locks
       /\ pc[p] \in Excluding => WriteLockOf(p) \in locks

LocksExclude ==
  \A l, m \in locks : l # m /\ l.file = m.file => l.mode = "SH" /\ m.mode = "SH"

\* The two names are of two files, and no reader has the temporary one.
NamesApart ==
  /\ dir.ini # 0 => dir.ini # dir.tmp
  /\ \A r \in Readers : fdr[r] # 0 => fdr[r] # dir.tmp

\* The calls a writer has left are the last ones of its requests.
Left(w) ==
  /\ Len(todo[w]) <= Len(Requests[w])
  /\ \A i \in 1 .. Len(todo[w]) :
       todo[w][i] = Requests[w][Len(Requests[w]) - Len(todo[w]) + i]
  /\ ret[w] = 1 => Len(todo[w]) < Len(Requests[w])
CallsLeft == \A w \in Writers : Left(w)

\* The inductive invariant, whoever writes.
IInv == TypeOK /\ Descriptors /\ LocksHeld /\ LocksExclude /\ NamesApart /\ CallsLeft

\* With one writer, w: which file it has open, also when the name is gone. As there is a
\* file at "reopen" unless it was deleted, only a deletion makes the assertion fail.
SameFile(w) ==
  /\ pc[w] \in Reading => dir.ini \in {0, fdr[w]}
  /\ pc[w] \in {"locktemp", "trunctemp"} \cup Copying => fdw[w] = dir.tmp
  /\ pc[w] \in {"lockplace", "write", "locknew", "truncnew"} => dir.ini \in {0, fdw[w]}
  /\ pc[w] \in {"create", "makenew"} => dir.ini = 0
  /\ pc[w] = "maketemp" => dir.tmp = 0
  /\ pc[w] = "rename" => dir.tmp # 0
  /\ removals = 0 /\ pc[w] \notin {"idle", "create", "makenew"} => dir.ini # 0
  /\ removals = 0 /\ pc[w] = "closelast" => fdw[w] = dir.ini

\* The line it overwrites is still what it looked up.
SameLine(w) ==
  pc[w] \in {"place", "lockplace", "write"} =>
    /\ {buf[w][Req(w).key], Req(w).value} \subseteq Values
    /\ Width[buf[w][Req(w).key]] = Width[Req(w).value]
    /\ LET file == IF pc[w] = "place" THEN dir.ini ELSE fdw[w]
       IN  file # 0 => content[file] = buf[w]

Edited(w) == [Current EXCEPT ![Req(w).key] = Req(w).value]

\* What it is about to make of the file, and what it made of it last.
Pending(w) ==
  removals = 0 =>
    /\ pc[w] \in {"locknew", "truncnew", "closelast"} => content[dir.ini] = Empty
    /\ pc[w] \in {"close", "closelast"} => buf[w] = Edited(w)
    /\ pc[w] = "rename" => content[dir.tmp] = Edited(w)
    /\ \A request \in LastPut(w) : Current[request.key] = request.value

\* What is torn would be seen, and copied.
Untorn ==
  /\ \A w \in Writers, k \in Keys : buf[w][k] # Torn
  /\ \A r \in Readers : got[r] # Torn

\* The inductive invariant of one writer.
OneIInv ==
  /\ IInv /\ NeverTorn /\ Untorn
  /\ \A w \in Writers : SameFile(w) /\ SameLine(w) /\ Pending(w)

=============================================================================
