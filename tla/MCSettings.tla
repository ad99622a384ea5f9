----------------------------- MODULE MCSettings -----------------------------
(* What the program and its library make of INI files: the table of servers  *)
(* is built from one, a file is changed by ini_puts, and a value is written  *)
(* in a line and read back.  A behaviour is one of these parts, with any     *)
(* input that it may be given; the other parts rest.                         *)
EXTENDS ServerTable, IniWrite, IniValue

CONSTANT Parts \* the parts that are checked

VARIABLE part

-----------------------------------------------------------------------------
(* The inputs.  What is large has a name of its own and is listed, for TLC  *)
(* to compute it once.                                                      *)

\* Files of up to two sections, or three of few kinds.
MCNames == {"", "7", "7 group", "signs"}
MCIdOf == [name \in MCNames |-> IF name \in {"7", "7 group"} THEN 7 ELSE NoId]

With(starts, ends) ==
  {s \in Section : s.start \in starts /\ s.end \in ends /\ s.port}

EveryTable ==
  {table : table \in {<< >>} \cup [1 .. 1 -> Section]
                     \cup [1 .. 2 -> With({0, 1, Malformed}, {0, 2, Modulus - 1})]
                     \cup [1 .. 3 -> With({1, Missing}, {2})]}
MCFiles == EveryTable

\* Files of up to three lines, or of four that are not blank, the last with or
\* without an end.  The name b stands for a longer one, behind which ini_browse has
\* no room for every line.
FoldCase == [a |-> "a", A |-> "a", b |-> "b"]
Spelling == [a |-> <<"a">>, A |-> <<"A">>, b |-> <<"x", "y", "z", "a">>]
Figures == [one |-> <<"1">>, six |-> <<"6">>, ten |-> <<"1", "0">>]
SpellingLen == [name \in DOMAIN Spelling |-> Len(Spelling[name])]
ValueWidth == [v \in DOMAIN Figures |-> Len(Figures[v])]

\* A line by its characters, and what ini_browse takes some of them for.
Spelled(words, word) == IF word \in DOMAIN words THEN words[word] ELSE << >>
LineText(line) ==
  (CASE line.kind = "section" -> <<"[">> \o Spelled(Spelling, line.name) \o <<"]">>
     [] line.kind = "key"     -> Spelled(Spelling, line.name) \o <<"=">>
                                   \o Spelled(Figures, line.value)
     [] line.kind = "bracket" -> <<"[">>
     [] line.kind = "comment" -> <<";">>
     [] line.kind = "blank"   -> << >>) \o (IF line.nl THEN <<"\n">> ELSE << >>)

Word(words, string) ==
  LET found == {word \in DOMAIN words : words[word] = string}
  IN IF found = {} THEN NULL ELSE CHOOSE word \in found : TRUE
LineOf(string) ==
  LET nl     == Last(string) = "\n"
      chars  == IF nl THEN Front(string) ELSE string
      equals == SelectInSeq(chars, LAMBDA c : c = "=")
      line   == CASE chars = << >> -> Plain("blank")
                  [] chars # << >> /\ chars[1] = "[" /\ Last(chars) = "]" ->
                       Header(Word(Spelling, SubSeq(chars, 2, Len(chars) - 1)))
                  [] chars # << >> /\ chars[1] = "[" /\ Last(chars) # "]" -> Plain("bracket")
                  [] equals > 0 /\ chars[1] # "[" ->
                       Setting(Word(Spelling, SubSeq(chars, 1, equals - 1)),
                               Word(Figures, SubSeq(chars, equals + 1, Len(chars))))
                  [] OTHER -> Plain("comment")
  IN [line EXCEPT !.nl = nl]
MCPiece(line, from, to) == LineOf(SubSeq(LineText(line), from + 1, to))

LineChoices ==
  {Header("a"), Header("b"), Setting("a", "one"), Setting("A", "ten"),
   Setting("b", "one"), Plain("bracket"), Plain("blank")}
MaxLines == 3

Open(lines) == Front(lines) \o <<[Last(lines) EXCEPT !.nl = FALSE]>>
Whole ==
  UNION {[1 .. k -> LineChoices] : k \in 0 .. MaxLines}
  \cup [1 .. MaxLines + 1 -> LineChoices \ {Plain("blank")}]
EveryFile ==
  {f : f \in Whole}
  \cup {Open(f) : f \in {g \in Whole : g # << >> /\ Last(g).kind # "blank"}}
MCWriteFiles == EveryFile

Sections == {"a", "b", NULL}
Settings ==
  {r \in [section : Sections, key : {"a", "b"}, value : {"six", "ten"}] :
     ~(r.key = "b" /\ r.value = "ten")}
Erased == [section : Sections, key : {"a", NULL}, value : {NULL}]
MCRequests == Settings \cup Erased

\* Short texts of what the library treats as special.
Characters == {"a", Space, Quote, Backslash, ";"}
TextsOf(characters, longest) == UNION {[1 .. k -> characters] : k \in 0 .. longest}
EveryText == {t : t \in TextsOf(Characters, 5) \cup TextsOf(Characters \cup {Tab}, 4)}
MCTexts == EveryText

-----------------------------------------------------------------------------

\* A part that rests does so with an input that is fixed.
SettingsInit ==
  /\ part \in Parts
  /\ part # "table" => ini = << >>
  /\ Init
  /\ part # "write" => exists = FALSE /\ req = [section |-> "a", key |-> "a", value |-> "six"]
  /\ WriteInit
  /\ part # "value" => kind = "bool" /\ num = 0 /\ keylen = 1
  /\ ValueInit

BuildTable == part = "table" /\ Next /\ UNCHANGED <<write_vars, value_vars>>
WriteSetting == part = "write" /\ WriteNext /\ UNCHANGED <<vars, value_vars>>
ConvertValue == part = "value" /\ ValueNext /\ UNCHANGED <<vars, write_vars>>

settings_vars == <<part, vars, write_vars, value_vars>>

\* The table was built and freed; what is undefined may be anything.
Ended == part = "table" /\ pc \in {"end", "undefined"} /\ UNCHANGED settings_vars

SettingsNext ==
  \/ /\ BuildTable \/ WriteSetting \/ ConvertValue
     /\ UNCHANGED part
  \/ Ended

SettingsSpec == SettingsInit /\ [][SettingsNext]_settings_vars

=============================================================================
