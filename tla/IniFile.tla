------------------------------- MODULE IniFile -------------------------------
(***************************************************************************)
(* What the reading functions of minIni.c return for an INI file.  A file   *)
(* is a sequence of lines, each shorter than INI_BUFFERSIZE, so that one    *)
(* ini_read takes one line; that of ini_browse, which reads behind the name *)
(* of the section, may take a part of one.  A line is what the functions    *)
(* tell apart: a section header, a key with its value, a '[' with no ']'    *)
(* (which ends the keys of a section but is no header), a blank line, and   *)
(* the rest (comments, lines without '=' or ':').  A value stands for the   *)
(* text that cleanstring leaves; IniValue has the characters.               *)
(***************************************************************************)
EXTENDS IniBuffer, SequencesExt, FiniteSetsExt

CONSTANTS
  KeyNames, \* names of sections and keys, case significant
  Fold,     \* the name _tcsnicmp takes a name for
  NameLen,  \* the characters of a name
  Values,   \* values of keys
  Width,    \* the characters a value takes in a file, quotes included
  Piece(_, _, _), \* what the characters of a line after one and up to another are
                  \* taken for, when they are read without the others
  NULL      \* a null pointer, and the section name ""

Kinds == {"section", "key", "bracket", "blank", "comment"}

Line == [kind : Kinds, name : KeyNames \cup {NULL}, value : Values \cup {NULL},
         nl : BOOLEAN] \* nl: the line ends with INI_LINETERM

Header(section) ==
  [kind |-> "section", name |-> section, value |-> NULL, nl |-> TRUE]
Setting(key, value) ==
  [kind |-> "key", name |-> key, value |-> value, nl |-> TRUE]
Plain(kind) == [kind |-> kind, name |-> NULL, value |-> NULL, nl |-> TRUE]

ASSUME FoldAssumption == Fold \in [KeyNames -> KeyNames]
ASSUME NameLenAssumption == NameLen \in [KeyNames -> Nat \ {0}]
ASSUME WidthAssumption == Width \in [Values -> Nat]
ASSUME NullAssumption == NULL \notin KeyNames \cup Values

\* The characters of a line.
NameSize(name) == IF name = NULL THEN 0 ELSE NameLen[name]
ValueSize(value) == IF value = NULL THEN 0 ELSE Width[value]
Size(line) ==
  (CASE line.kind = "section" -> NameSize(line.name) + 2
     [] line.kind = "key"     -> NameSize(line.name) + 1 + ValueSize(line.value)
     [] line.kind = "blank"   -> 0
     [] OTHER                 -> 1) + (IF line.nl THEN 1 ELSE 0)

ASSUME PieceAssumption ==
  \A line \in Line : \A to \in 1 .. Size(line) : \A from \in 0 .. to - 1 :
    Piece(line, from, to) \in Line /\ Size(Piece(line, from, to)) <= to - from

SameName(m, n) == m # NULL /\ n # NULL /\ Fold[m] = Fold[n]

\* The least element of a set of numbers, as a set: empty for an empty set.
First(S) == {n \in S : \A k \in S : n <= k}
\* The element of S that has idx others below it.
Nth(S, idx) == CHOOSE n \in S : Cardinality({k \in S : k < n}) = idx

\* A section is matched without regard to case; "" is what precedes the first.
Headers(file) == {n \in DOMAIN file : file[n].kind = "section"}
SectionStarts(file, section) ==
  IF section = NULL THEN {0}
  ELSE {n \in Headers(file) : SameName(file[n].name, section)}

\* The search for a key stops at any line that starts with a '['.
LeavesSection(line) == line.kind \in {"section", "bracket"}

\* Mutant: the search runs on into the section that follows.
LinesOfAll(file, section) ==
  {n \in DOMAIN file : \E s \in First(SectionStarts(file, section)) : s < n}

Lines(file, section) ==
  {n \in DOMAIN file :
     \E s \in First(SectionStarts(file, section)) :
        s < n /\ \A k \in s + 1 .. n : ~LeavesSection(file[k])}

KeyLines(file, section) ==
  {n \in Lines(file, section) : file[n].kind = "key"}
Matches(file, section, key) ==
  {n \in KeyLines(file, section) : SameName(file[n].name, key)}

ini_gets(file, section, key, default) ==
  IF Matches(file, section, key) = {} THEN default
  ELSE file[Min(Matches(file, section, key))].value

ini_haskey(file, section, key) == Matches(file, section, key) # {}

\* It asks for the first key of the section.
ini_hassection(file, section) == KeyLines(file, section) # {}

ini_getsection(file, idx) ==
  IF idx < Cardinality(Headers(file))
  THEN file[Nth(Headers(file), idx)].name ELSE NULL

ini_getkey(file, section, idx) ==
  IF idx < Cardinality(KeyLines(file, section))
  THEN file[Nth(KeyLines(file, section), idx)].name ELSE NULL

\* Mutant: the '\0' behind the name of the section is counted twice.
BrowseRoomShort(section) == INI_BUFFERSIZE - (NameSize(section) + 2)

\* What is left of the buffer of ini_browse behind the name of the section.
BrowseRoom(section) == INI_BUFFERSIZE - (NameSize(section) + 1)

\* A turn of its loop reads a line, or as much more of one as there is room for:
\* of line at, what comes after the characters that were read before.  A key and its
\* value are shorter than what they were read as, so that copying cuts nothing more off.
BrowseTurn(file, s) ==
  LET line == file[s.at]
      to   == Least(Size(line), s.from + BrowseRoom(s.section) - 1)
      read == IF s.from = 0 /\ to = Size(line) THEN line ELSE Piece(line, s.from, to)
  IN [at      |-> IF to = Size(line) THEN s.at + 1 ELSE s.at,
      from    |-> IF to = Size(line) THEN 0 ELSE to,
      section |-> IF read.kind = "section" THEN read.name ELSE s.section,
      calls   |-> IF read.kind = "key"
                  THEN Append(s.calls, [section |-> s.section, key |-> read.name,
                                        value |-> read.value])
                  ELSE s.calls]

\* Where ini_browse is after enough turns to read one character in each; the calls
\* are the triples that the callback is given.
ini_browse(file) ==
  LET turns == Len(file) * INI_BUFFERSIZE
      browse[n \in 0 .. turns] ==
        IF n = 0 THEN [at |-> 1, from |-> 0, section |-> NULL, calls |-> << >>]
        ELSE LET s == browse[n - 1]
             IN IF s.at > Len(file) THEN s ELSE BrowseTurn(file, s)
  IN browse[turns]

Browsed(calls, section, key) ==
  {s \in DOMAIN calls :
     /\ SameName(calls[s].key, key)
     /\ calls[s].section = section \/ SameName(calls[s].section, section)}

\* The section that line n is in; whether ini_browse reads each line up to it at once,
\* none being longer than what is left behind the name of its section.
SectionAt(file, n) ==
  IF \E k \in Headers(file) : k < n
  THEN file[Max({k \in Headers(file) : k < n})].name
  ELSE NULL
Unbroken(file, n) ==
  \A k \in 1 .. n : NameSize(SectionAt(file, k)) + 1 + Size(file[k]) < INI_BUFFERSIZE

=============================================================================
