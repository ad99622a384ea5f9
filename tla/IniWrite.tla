------------------------------ MODULE IniWrite -------------------------------
(***************************************************************************)
(* ini_puts of minIni.c by a single process: the two short cuts, and the    *)
(* copy of the file to a temporary one, a line at a time, in which lines    *)
(* are only counted (cachelen) until they no longer fit the buffer, then    *)
(* read again from mark and written.  A step is one turn of a loop.         *)
(***************************************************************************)
EXTENDS IniFile

CONSTANTS
  WriteFiles, \* the files there may be: sequences of lines
  Requests    \* the calls: records of section, key and value

\* ini_read takes a line at a time; only the last may have no terminator.
Readable(lines) ==
  /\ lines \in Seq(Line)
  /\ \A n \in DOMAIN lines :
       /\ Size(lines[n]) \in 1 .. INI_BUFFERSIZE - 1
       /\ n < Len(lines) => lines[n].nl

Request == [section : KeyNames \cup {NULL}, key : KeyNames \cup {NULL},
            value : Values \cup {NULL}]

ASSUME WriteFilesAssumption == \A lines \in WriteFiles : Readable(lines)
\* writesection and writekey cut nothing off.
Fitting(r) ==
  /\ r.section # NULL => Size(Header(r.section)) <= INI_BUFFERSIZE - 2
  /\ r.key # NULL /\ r.value # NULL => Size(Setting(r.key, r.value)) <= INI_BUFFERSIZE - 2
ASSUME RequestsAssumption == \A r \in Requests : r \in Request /\ Fitting(r)

VARIABLES
  exists,   \* there is a file of that name
  old,      \* its lines when ini_puts is called
  req,      \* the arguments Section, Key and Value
  write_pc, \* where ini_puts is
  file,     \* the lines of the file of that name
  out,      \* the lines of the temporary file
  pos,      \* lines of the file before the read position
  mark,     \* lines of the file before mark
  cachelen, \* characters that are read and not written yet
  ret       \* what ini_puts returns

write_vars == <<exists, old, req, write_pc, file, out, pos, mark, cachelen, ret>>
write_args == <<exists, old, req>>

Put == req.key # NULL /\ req.value # NULL

\* The characters of the first n lines, and of those after a up to b.
SizeUpTo ==
  LET s[n \in 0 .. Len(file)] == IF n = 0 THEN 0 ELSE s[n - 1] + Size(file[n]) IN s
SizeBetween(a, b) == SizeUpTo[b] - SizeUpTo[a]

\* What is written behind a line with no terminator becomes part of it.
Merged == Plain("comment")
Write(lines, line) ==
  IF lines # << >> /\ ~Last(lines).nl
  THEN Append(Front(lines), IF line.kind = "blank"
                            THEN [Last(lines) EXCEPT !.nl = TRUE] ELSE Merged)
  ELSE Append(lines, line)
WriteAll(lines, more) ==
  LET w[n \in 0 .. Len(more)] == IF n = 0 THEN lines ELSE Write(w[n - 1], more[n])
  IN w[Len(more)]

-----------------------------------------------------------------------------
(* The cache: lines from mark, as many as make cachelen characters. *)

\* Mutant: a line that just fills the buffer is cached, terminator and all.
FitsExactly(line) == cachelen + Size(line) <= INI_BUFFERSIZE

Fits(line) == cachelen + Size(line) < INI_BUFFERSIZE
Flushed == Max({n \in mark .. Len(file) : SizeBetween(mark, n) <= cachelen})
Flush == WriteAll(out, SubSeq(file, mark + 1, Flushed))

\* Mutant: the last line is taken to have its terminator.
EndsLineAlways == cachelen > 1 /\ Flushed > mark

\* Whether a flush ended with a terminator that is not all it wrote.
EndsLine == cachelen > 1 /\ Flushed > mark /\ file[Flushed].nl

\* Mutant: the line for which there was no room is not read again.
AccumulateOnce ==
  LET line == file[pos + 1]
  IN IF Fits(line)
     THEN /\ cachelen' = cachelen + Size(line)
          /\ pos' = pos + 1
          /\ UNCHANGED <<out, mark>>
     ELSE /\ out' = Flush
          /\ mark' = Flushed
          /\ pos' = Flushed
          /\ cachelen' = 0

\* The line just read is cached, after a flush if there is no room for it.
Accumulate ==
  LET line == file[pos + 1]
  IN IF Fits(line)
     THEN /\ cachelen' = cachelen + Size(line)
          /\ pos' = pos + 1
          /\ UNCHANGED <<out, mark>>
     ELSE /\ out' = Flush
          /\ mark' = Flushed
          /\ pos' = Flushed + 1
          /\ cachelen' = Size(file[Flushed + 1])

-----------------------------------------------------------------------------
WriteInit ==
  /\ \/ exists = TRUE /\ old \in WriteFiles
     \/ exists = FALSE /\ old = << >>
  /\ req \in Requests
  /\ write_pc = "look"
  /\ file = old
  /\ out = << >>
  /\ pos = 0 /\ mark = 0 /\ cachelen = 0
  /\ ret = 0

Return(value) == write_pc' = "done" /\ ret' = value

\* writesection and writekey: no header for the section "".
NewSetting ==
  IF req.section = NULL THEN <<Setting(req.key, req.value)>>
  ELSE <<Header(req.section), Setting(req.key, req.value)>>

CreateFile ==
  /\ write_pc = "look" /\ ~exists
  /\ \/ Put /\ file' = NewSetting /\ Return(1)
     \/ ~Put /\ file' = file /\ Return(1)
     \/ Put /\ file' = file /\ Return(0) \* the open fails
  /\ UNCHANGED <<write_args, out, pos, mark, cachelen>>

WriteFound == Matches(file, req.section, req.key)

\* The value is there already, or the key that is to go is not.
NothingToDo ==
  /\ write_pc = "look" /\ exists
  /\ \/ Put /\ WriteFound # {} /\ file[Min(WriteFound)].value = req.value
     \/ req.key # NULL /\ req.value = NULL /\ WriteFound = {}
  /\ Return(1)
  /\ UNCHANGED <<write_args, file, out, pos, mark, cachelen>>

SameLength == Size(Setting(req.key, req.value)) = Size(file[Min(WriteFound)])
\* The line is overwritten where it is; its length is that of the new line.
InPlace ==
  /\ write_pc = "look" /\ exists /\ Put /\ WriteFound # {}
  /\ file[Min(WriteFound)].value # req.value /\ SameLength
  /\ \/ /\ file' = [file EXCEPT ![Min(WriteFound)] =
                      Setting(req.key, req.value)]
        /\ Return(1)
     \/ file' = file /\ Return(0) \* the open fails
  /\ UNCHANGED <<write_args, out, pos, mark, cachelen>>

OpenTemp ==
  /\ write_pc = "look" /\ exists
  /\ \/ req.key = NULL
     \/ req.value = NULL /\ WriteFound # {}
     \/ Put /\ WriteFound = {}
     \/ Put /\ WriteFound # {} /\ file[Min(WriteFound)].value # req.value /\ ~SameLength
  /\ \/ write_pc' = (IF req.section = NULL THEN "skip" ELSE "section") /\ ret' = ret
     \/ Return(0) \* the open fails
  /\ UNCHANGED <<write_args, file, out, pos, mark, cachelen>>

-----------------------------------------------------------------------------
(* The loop that looks for the section. *)

IsSection == file[pos + 1].kind = "section"
              /\ SameName(file[pos + 1].name, req.section)

SectionRead ==
  /\ write_pc = "section" /\ pos < Len(file)
  /\ write_pc' = (IF IsSection THEN "skip" ELSE "section")
  /\ IF IsSection /\ req.key = NULL
     THEN pos' = pos + 1 /\ UNCHANGED <<out, mark, cachelen>>
     ELSE Accumulate
  /\ UNCHANGED <<write_args, file, ret>>

\* close_rename: the temporary file takes the place of the file.
Rename(lines) ==
  /\ out' = lines
  /\ file' = lines
  /\ Return(1)
  /\ UNCHANGED <<write_args, pos, mark, cachelen>>

\* A new line behind the last line that has none.
Terminated == IF EndsLine THEN Flush ELSE Write(Flush, Plain("blank"))

SectionMissing ==
  /\ write_pc = "section" /\ pos = Len(file)
  /\ Rename(IF Put THEN WriteAll(Terminated, NewSetting) ELSE Flush)

\* The flush before the keys; the header of a section to erase is passed over.
SkipHeader ==
  /\ write_pc = "skip"
  /\ out' = Flush
  /\ cachelen' = 0
  /\ pos' = (IF req.key = NULL /\ Flushed < Len(file)
             THEN Flushed + 1 ELSE Flushed)
  /\ mark' = pos'
  /\ write_pc' = "key"
  /\ UNCHANGED <<write_args, file, ret>>

-----------------------------------------------------------------------------
(* The loop that looks for the key, and what follows it. *)

IsKey == file[pos + 1].kind = "key" /\ SameName(file[pos + 1].name, req.key)
Stops == (req.key # NULL /\ IsKey) \/ LeavesSection(file[pos + 1])

\* Mutant: the keys of an erased section stay between mark and the position.
KeyReadKeeps ==
  /\ write_pc = "key" /\ pos < Len(file) /\ ~Stops
  /\ IF req.key = NULL
     THEN pos' = pos + 1 /\ UNCHANGED <<out, mark, cachelen>>
     ELSE Accumulate
  /\ UNCHANGED <<write_args, write_pc, file, ret>>

KeyRead ==
  /\ write_pc = "key" /\ pos < Len(file) /\ ~Stops
  /\ IF req.key = NULL
     THEN pos' = pos + 1 /\ mark' = pos' /\ UNCHANGED <<out, cachelen>>
     ELSE Accumulate
  /\ UNCHANGED <<write_args, write_pc, file, ret>>

KeyMissing ==
  /\ write_pc = "key" /\ pos = Len(file)
  /\ Rename(IF Put THEN Write(Terminated, Setting(req.key, req.value))
                   ELSE Flush)

\* Mutant: the header that ended the section is forgotten like a key.
KeyFoundForgets ==
  /\ write_pc = "key" /\ pos < Len(file) /\ Stops
  /\ out' = (IF Put THEN Write(Flush, Setting(req.key, req.value)) ELSE Flush)
  /\ pos' = Flushed + 1
  /\ mark' = pos' /\ cachelen' = 0
  /\ write_pc' = "rest"
  /\ UNCHANGED <<write_args, file, ret>>

\* The key is written; its old line is forgotten, a new section is cached.
KeyFound ==
  /\ write_pc = "key" /\ pos < Len(file) /\ Stops
  /\ out' = (IF Put THEN Write(Flush, Setting(req.key, req.value)) ELSE Flush)
  /\ pos' = Flushed + 1
  /\ IF LeavesSection(file[pos + 1])
     THEN mark' = Flushed /\ cachelen' = Size(file[Flushed + 1])
     ELSE mark' = pos' /\ cachelen' = 0
  /\ write_pc' = "rest"
  /\ UNCHANGED <<write_args, file, ret>>

RestRead ==
  /\ write_pc = "rest" /\ pos < Len(file)
  /\ Accumulate
  /\ UNCHANGED <<write_args, write_pc, file, ret>>

RestDone ==
  /\ write_pc = "rest" /\ pos = Len(file)
  /\ Rename(Flush)

WriteDone == write_pc = "done" /\ UNCHANGED write_vars

WriteNext ==
  \/ CreateFile \/ NothingToDo \/ InPlace \/ OpenTemp
  \/ SectionRead \/ SectionMissing \/ SkipHeader
  \/ KeyRead \/ KeyMissing \/ KeyFound
  \/ RestRead \/ RestDone \/ WriteDone

WriteSpec == WriteInit /\ [][WriteNext]_write_vars

-----------------------------------------------------------------------------
(* Properties.                                                               *)

WriteTypeOK ==
  /\ exists \in BOOLEAN
  /\ Readable(old) /\ req \in Request
  /\ write_pc \in {"look", "section", "skip", "key", "rest", "done"}
  /\ file \in Seq(Line) /\ out \in Seq(Line)
  /\ pos \in 0 .. Len(old) /\ mark \in 0 .. Len(old)
  /\ cachelen \in 0 .. INI_BUFFERSIZE - 1
  /\ ret \in {0, 1}

\* The lines read that are to be written: not the header of an erased section.
ReadLines ==
  IF write_pc = "skip" /\ req.key = NULL /\ req.section # NULL THEN pos - 1 ELSE pos

\* Before the copy takes the place of the file, the cache is exactly the whole
\* lines from mark to the read position, less the header of a section that is
\* erased: every seek of cache_flush (minIni.c:607-635) lands on a line.
CacheIsLines ==
  /\ WriteTypeOK
  /\ write_pc \in {"section", "skip", "key", "rest"} =>
       /\ file = old
       /\ mark <= ReadLines
       /\ cachelen = SizeBetween(mark, ReadLines)

Replaced(lines, n, by) ==
  SubSeq(lines, 1, n - 1) \o by \o SubSeq(lines, n + 1, Len(lines))
Inserted(lines, n, by) ==
  SubSeq(lines, 1, n) \o by \o SubSeq(lines, n + 1, Len(lines))

\* The last line before the one that ends the section that starts at s, as a set.
SectionEnds(lines, s) ==
  {n \in s .. Len(lines) :
     /\ \A k \in s + 1 .. n : ~LeavesSection(lines[k])
     /\ n < Len(lines) => LeavesSection(lines[n + 1])}

\* A file to which a line may be added; ini_puts may leave a blank line more.
Terminable(lines) ==
  IF lines # << >> /\ ~Last(lines).nl
  THEN {Append(Front(lines), [Last(lines) EXCEPT !.nl = TRUE])}
  ELSE {lines, Append(lines, Plain("blank"))}

\* What a call is to make of a file: one setting replaced, added or removed,
\* or a section removed with its header.
Edited(before, after) ==
  LET starts  == SectionStarts(before, req.section)
      found   == Matches(before, req.section, req.key)
      setting == Setting(req.key, req.value)
  IN \/ \E n \in First(found) :
          \/ Put /\ after = Replaced(before, n, <<setting>>)
          \/ Put /\ before[n].value = req.value /\ after = before
          \/ req.key # NULL /\ req.value = NULL /\ after = Replaced(before, n, << >>)
     \/ req.key # NULL /\ req.value = NULL /\ found = {} /\ after = before
     \/ /\ Put /\ found = {}
        /\ \E s \in First(starts) : \E n \in SectionEnds(before, s) :
             IF n < Len(before) THEN after = Inserted(before, n, <<setting>>)
             ELSE \E whole \in Terminable(before) : after = Append(whole, setting)
     \/ /\ Put /\ starts = {}
        /\ \E whole \in Terminable(before) : after = whole \o NewSetting
     \/ /\ req.key = NULL
        /\ \E s \in First(starts) : \E n \in SectionEnds(before, s) :
             after = SubSeq(before, 1, s - 1) \o SubSeq(before, n + 1, Len(before))
     \/ req.key = NULL /\ starts = {} /\ after = before

\* To erase what stands before the first section: the first line goes with it,
\* whatever it is (minIni.c:797).
Headless == req.section = NULL /\ req.key = NULL

\* ini_puts (minIni.c:657-867) changes what it was asked to change and nothing
\* else, wherever the lines fall in its buffer, with or without a terminator
\* on the last; when it fails it changes nothing.
WritesEdit ==
  write_pc = "done" =>
    IF ret = 0 THEN file = old ELSE Headless \/ Edited(old, file)

\* After ini_puts of a setting, ini_gets finds its value under that name, and
\* under every other name what it found before (minIni.c:295-310, 657-867).
ReadsBack ==
  \A section \in KeyNames \cup {NULL}, key \in KeyNames :
    ini_gets(file, section, key, NULL) =
      IF /\ SameName(key, req.key)
         /\ section = req.section \/ SameName(section, req.section)
      THEN req.value
      ELSE ini_gets(old, section, key, NULL)

\* Looking up a key, browsing and counting through a section agree, in every
\* file ini_puts leaves: a key that ini_gets finds is under one of the indices of
\* ini_getkey, and its section under one of ini_getsection; its value is the first
\* one ini_browse reports for that name, unless a line up to it is too long for what
\* the name of its section leaves of the buffer; and after a put the value is read
\* that was written, all others as before.  Broken lines or not, ini_browse reads on
\* to the end of the file (minIni.c:203-283, 390-540).
ReadersAgree ==
  write_pc = "done" =>
    /\ ret = 1 /\ Put => ReadsBack
    /\ LET browse == ini_browse(file)
       IN /\ (\A n \in DOMAIN file : Size(file[n]) < INI_BUFFERSIZE) => browse.at > Len(file)
          /\ \A section \in KeyNames \cup {NULL}, key \in KeyNames :
               ini_haskey(file, section, key) =>
                 /\ Unbroken(file, Min(Matches(file, section, key))) =>
                      LET found == Browsed(browse.calls, section, key)
                      IN /\ found # {}
                         /\ ini_gets(file, section, key, NULL) = browse.calls[Min(found)].value
                 /\ \E idx \in 0 .. Len(file) :
                       SameName(ini_getkey(file, section, idx), key)
                 /\ ini_hassection(file, section)
                 /\ section # NULL =>
                      \E idx \in 0 .. Len(file) :
                         SameName(ini_getsection(file, idx), section)

\* Every call ends: a turn of a loop reads one line more, although a flush puts
\* the read position back to the first line that is not written yet.
Advances == [][write_pc' = write_pc /\ write_pc # "done" => pos' = pos + 1]_write_vars

-----------------------------------------------------------------------------
(* The inductive invariant.                                                  *)

\* Before the copy begins nothing is read, and a key that goes is there.
Begun ==
  /\ ~exists => old = << >>
  /\ write_pc = "look" =>
       file = old /\ out = << >> /\ pos = 0 /\ mark = 0 /\ cachelen = 0
  /\ write_pc \in {"section", "skip", "key", "rest"} /\ req.key # NULL /\ req.value = NULL =>
       Matches(old, req.section, req.key) # {}

\* How far the search has come: no header before the read position is the one
\* looked for, then none of the lines after it ends the search for the key.
Searched ==
  /\ write_pc = "section" =>
       req.section # NULL /\ \A n \in 1 .. pos : n \notin SectionStarts(old, req.section)
  /\ write_pc = "skip" => pos \in First(SectionStarts(old, req.section))
  /\ write_pc = "key" /\ ~Headless =>
       \E s \in First(SectionStarts(old, req.section)) :
          /\ s <= pos
          /\ \A n \in s + 1 .. pos :
               ~LeavesSection(old[n]) /\ n \notin Matches(old, req.section, req.key)
          /\ req.key = NULL => out = SubSeq(old, 1, s - 1)

\* What is written: the lines before mark, less what is erased; once the change
\* is made, the copy of the rest completes it.
Written ==
  /\ write_pc \in {"section", "skip"} \/ (write_pc = "key" /\ req.key # NULL) =>
       out = SubSeq(old, 1, mark)
  /\ write_pc = "key" /\ req.key = NULL => mark = pos
  /\ write_pc = "rest" /\ ~Headless =>
       /\ out # << >> /\ mark < Len(old) => Last(out).nl
       /\ Edited(old, out \o SubSeq(old, mark + 1, Len(old)))

WriteIInv == CacheIsLines /\ Begun /\ Searched /\ Written /\ WritesEdit

=============================================================================
