------------------------------ MODULE IniValue -------------------------------
(***************************************************************************)
(* One value of an INI file by its characters: how writekey of minIni.c     *)
(* puts it in a line, quoted and escaped where a reader would take a part   *)
(* of it for a comment, and what getkeystring makes of that line.  A value  *)
(* is a text, a number (ini_putl, ini_getl) or a truth value (ini_putbool,  *)
(* ini_getbool).  Strings are sequences of characters, their '\0' left out. *)
(***************************************************************************)
EXTENDS IniBuffer, SequencesExt

CONSTANTS
  Texts,   \* values, as sequences of characters
  KeyLens, \* lengths of the key
  Sizes,   \* sizes of the buffer the reader gives
  LONG_MAX

ASSUME TextsAssumption == \A t \in Texts : t \in Seq(STRING)
ASSUME KeyLensAssumption == KeyLens \subseteq Nat
ASSUME SizesAssumption == Sizes \subseteq Nat \ {0}
ASSUME LongAssumption == LONG_MAX \in Nat \ {0}

Quote == "\""
Backslash == "\\"
Space == " "
Tab == "\t" \* any control character but the line feed
Blank == {Space, Tab}
Comment == {";", "#"}
Digit == <<"0", "1", "2", "3", "4", "5", "6", "7", "8", "9">>

VARIABLES
  kind,   \* which pair of functions: "text", "long" or "bool"
  num,    \* the number or truth value of ini_putl, ini_putbool
  value,  \* the argument Value of ini_puts
  keylen, \* the length of the argument Key
  size,   \* the size of the reader's buffer
  text,   \* what writekey writes after the '='
  read,   \* what the reader finds in its buffer
  value_pc

value_vars == <<kind, num, value, keylen, size, text, read, value_pc>>
value_args == <<kind, num, value, keylen, size>>

Prefix(string, n) == SubSeq(string, 1, n)

-----------------------------------------------------------------------------
(* Strings. *)

skipleading(string) ==
  LET n == CHOOSE n \in 0 .. Len(string) :
             /\ \A k \in 1 .. n : string[k] \in Blank
             /\ n = Len(string) \/ string[n + 1] \notin Blank
  IN SubSeq(string, n + 1, Len(string))

striptrailing(string) ==
  Prefix(string, CHOOSE n \in 0 .. Len(string) :
                   /\ \A k \in n + 1 .. Len(string) : string[k] \in Blank
                   /\ n = 0 \/ string[n] \notin Blank)

\* Mutant: no room is left for the '\0'.
CopyNoneWhole(source, maxlen) == Prefix(source, Least(Len(source), maxlen))

\* QUOTE_NONE of ini_strncpy.
CopyNone(source, maxlen) == Prefix(source, Least(Len(source), maxlen - 1))

\* The first characters of a source as QUOTE_ENQUOTE copies them.
Cell(c) == IF c = Quote THEN <<Backslash, c>> ELSE <<c>>
Cells(source) ==
  LET c[n \in 0 .. Len(source)] == IF n = 0 THEN << >> ELSE c[n - 1] \o Cell(source[n])
  IN c

\* QUOTE_ENQUOTE: as many characters as leave room for the closing quote.
CopyEnquote(source, maxlen) ==
  LET cells == Cells(source)
      n == CHOOSE n \in 0 .. Len(source) :
             /\ 1 + Len(cells[n]) <= maxlen - 2
             /\ n = Len(source) \/ 1 + Len(cells[n + 1]) > maxlen - 2
  IN <<Quote>> \o cells[n] \o <<Quote>>

\* Whether a character only escapes or doubles the quote after it: the loops over
\* quoted text take the two at once.
Skips(string) ==
  LET s[n \in 0 .. Len(string)] ==
        /\ n # 0 /\ n < Len(string)
        /\ string[n] \in {Quote, Backslash} /\ string[n + 1] = Quote
        /\ ~s[n - 1]
  IN s

\* QUOTE_DEQUOTE: of a quote that is escaped or doubled, one is left.
Dequoted(source) ==
  LET skips == Skips(source)
      d[n \in 0 .. Len(source)] ==
        IF n = 0 THEN << >> ELSE IF skips[n] THEN d[n - 1] ELSE Append(d[n - 1], source[n])
  IN d[Len(source)]
CopyDequote(source, maxlen) == CopyNone(Dequoted(source), maxlen)

-----------------------------------------------------------------------------
(* Writing. *)

\* Mutant: a comment character does not call for quotes.
check_enquoteSpaceOnly(string) ==
  \/ \E k \in DOMAIN string : string[k] = Quote
  \/ string # << >> /\ Last(string) = Space

check_enquote(string) ==
  \/ \E k \in DOMAIN string : string[k] \in {Quote} \cup Comment
  \/ string # << >> /\ Last(string) = Space

\* Mutant: the line terminator is not counted.
RoomLong == INI_BUFFERSIZE - (Least(keylen, INI_BUFFERSIZE - 4) + 1)

\* What writekey has left for the value and its '\0'.
Room == INI_BUFFERSIZE - (Least(keylen, INI_BUFFERSIZE - 4) + 1) - 2

Copied(string) ==
  IF check_enquote(string) /\ Room >= 3 THEN CopyEnquote(string, Room)
  ELSE CopyNone(string, Room)

\* long2str: the digits are those of the remainders, which have the sign of
\* the value; the value itself is never negated.
Magnitude(n) == IF n < 0 THEN -n ELSE n
Rest(n) ==
  LET r[k \in 0 .. Magnitude(n) + 1] == IF k = 0 THEN Magnitude(n) ELSE r[k - 1] \div 10
  IN r
Digits(n) ==
  LET rest == Rest(n)
      len  == CHOOSE k \in 1 .. Magnitude(n) + 1 :
                rest[k] = 0 /\ \A m \in 1 .. k - 1 : rest[m] # 0
  IN [k \in 1 .. len |-> Digit[(rest[len - k] % 10) + 1]]

\* Mutant: the value is negated first, in the width of a long.
long2strNegated(n) ==
  LET m == IF n >= 0 THEN n ELSE IF n = -LONG_MAX - 1 THEN n ELSE -n
  IN (IF n < 0 THEN <<"-">> ELSE << >>)
       \o (IF m < 0 THEN <<Digit[1]>> ELSE Digits(m))

long2str(n) == (IF n < 0 THEN <<"-">> ELSE << >>) \o Digits(n)

Longs == -LONG_MAX - 1 .. LONG_MAX
\* The buffer of ini_putl is large enough.
ASSUME LongTextAssumption == \A n \in Longs : Len(long2str(n)) < 32

BoolText(n) ==
  IF n = 1 THEN <<"t", "r", "u", "e">> ELSE <<"f", "a", "l", "s", "e">>

-----------------------------------------------------------------------------
(* Reading. *)

\* cleanstring's isstring after the first characters.
InQuotes(string) ==
  LET skips == Skips(string)
      q[n \in 0 .. Len(string)] ==
        IF n = 0 THEN FALSE
        ELSE IF string[n] = Quote /\ ~skips[n] /\ ~skips[n - 1] THEN ~q[n - 1] ELSE q[n - 1]
  IN q

\* Where it sees a comment begin, or the end.
CommentAt(string) ==
  LET quoted == InQuotes(string)
  IN CHOOSE n \in 1 .. Len(string) + 1 :
       /\ n = Len(string) + 1 \/ (string[n] \in Comment /\ ~quoted[n - 1])
       /\ \A k \in 1 .. n - 1 : ~(string[k] \in Comment /\ ~quoted[k - 1])

\* The line is cut at the comment, and its quotes are taken off.
ValueFound(line, maxlen) ==
  LET string == skipleading(line)
      clean  == striptrailing(Prefix(string, CommentAt(string) - 1))
  IN IF clean # << >> /\ clean[1] = Quote /\ Last(clean) = Quote
     THEN CopyDequote(SubSeq(clean, 2, Len(clean) - 1), maxlen)
     ELSE CopyNone(clean, maxlen)

\* strtol with base 10, of the digits that long2str writes.
Decimal(string) ==
  LET d[n \in 0 .. Len(string)] ==
        IF n = 0 THEN 0
        ELSE (10 * d[n - 1]) + (CHOOSE c \in 0 .. 9 : Digit[c + 1] = string[n])
  IN d[Len(string)]
ini_getl(string, default) ==
  IF string = << >> THEN default
  ELSE IF string[1] = "-" THEN -Decimal(Tail(string)) ELSE Decimal(string)

ini_getbool(string, default) ==
  IF string = << >> THEN default
  ELSE IF string[1] \in {"y", "Y", "1", "t", "T"} THEN 1
  ELSE IF string[1] \in {"n", "N", "0", "f", "F"} THEN 0
  ELSE default

-----------------------------------------------------------------------------
ValueInit ==
  /\ \/ kind = "text" /\ num = 0 /\ value \in Texts /\ size \in Sizes
     \/ kind = "long" /\ num \in Longs /\ value = long2str(num) /\ size = 64
     \/ kind = "bool" /\ num \in {0, 1} /\ value = BoolText(num) /\ size = 2
  /\ keylen \in KeyLens
  /\ text = << >> /\ read = << >>
  /\ value_pc = "write"

writekey ==
  /\ value_pc = "write"
  /\ text' = Copied(value)
  /\ value_pc' = "read"
  /\ UNCHANGED <<value_args, read>>

getkeystring ==
  /\ value_pc = "read"
  /\ read' = ValueFound(text, size)
  /\ value_pc' = "done"
  /\ UNCHANGED <<value_args, text>>

ValueDone == value_pc = "done" /\ UNCHANGED value_vars

ValueNext == writekey \/ getkeystring \/ ValueDone

ValueSpec == ValueInit /\ [][ValueNext]_value_vars

-----------------------------------------------------------------------------
(* Properties. *)

ValueTypeOK ==
  /\ kind \in {"text", "long", "bool"}
  /\ num \in Longs
  /\ Len(text) <= INI_BUFFERSIZE /\ Len(read) < size
  /\ value_pc \in {"write", "read", "done"}

\* The key, '=', the value, the terminator and '\0' fit LocalBuffer, and
\* writekey never asks ini_strncpy for less than one character
\* (minIni.c:124-168, 582-596), so that one ini_read takes the whole line.
LineFits ==
  /\ Room > 0
  /\ value_pc = "read" =>
       Least(keylen, INI_BUFFERSIZE - 4) + 1 + Len(text) + 2 <= INI_BUFFERSIZE

\* What a text is without the blanks around it, and what is kept of a value: the check
\* for quotes sees a space at its end, but no other blank there and none at its front.
Trimmed(string) ==
  LET solid == {k \in DOMAIN string : string[k] \notin Blank}
  IN IF solid = {} THEN << >> ELSE SubSeq(string, Min(solid), Max(solid))
KeptText(string) == IF check_enquote(string) THEN string ELSE Trimmed(string)

\* What is kept of a value comes back when it fits, whatever quotes, backslashes,
\* comment characters and blanks it has; cut short, a beginning of that comes back
\* (minIni.c:99-201, 554-596).
TextReadsBack ==
  /\ IsPrefix(read, KeptText(value))
  /\ Len(Cells(value)[Len(value)]) + 2 < Room /\ Len(value) < size => read = KeptText(value)

\* Numbers, the least of them included, and truth values come back as they
\* were written (minIni.c:320-380, 872-942).
NumberReadsBack ==
  Len(value) < Room =>
    /\ kind = "long" => ini_getl(read, 99) = num
    /\ kind = "bool" => ini_getbool(read, 99) = num

\* The line that is written fits, and what is read from it is what was meant.
RoundTrip ==
  /\ ValueTypeOK /\ LineFits
  /\ value_pc = "done" => TextReadsBack /\ NumberReadsBack

=============================================================================
