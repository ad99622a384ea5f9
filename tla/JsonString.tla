----------------------------- MODULE JsonString ------------------------------
(***************************************************************************)
(* The strings of cJSON.c by their bytes: parse_string, which makes a       *)
(* C string of a literal, and print_string_ptr, which makes a literal of a  *)
(* C string.  A literal is put together from pieces whose meaning in UTF-8  *)
(* is known.                                                                *)
(***************************************************************************)
EXTENDS Integers, SequencesExt, FiniteSetsExt

CONSTANTS
  Literals,    \* what is parsed: sequences of pieces, [text, means]
  JsonStrings  \* the strings that are printed

Quote == 34
Backslash == 92
Zero == 0
Letter == [b |-> 98, f |-> 102, n |-> 110, r |-> 114, t |-> 116, u |-> 117]
Control == [b |-> 8, f |-> 12, n |-> 10, r |-> 13, t |-> 9]
Slash == 47

\* The bytes of what is no string: parse_string fails, or there is none yet.
Failed == <<-1>>
Piece == [text : Seq(0 .. 255), means : Seq(0 .. 255) \cup {Failed}]

ASSUME LiteralsAssumption == Literals \subseteq Seq(Piece)
ASSUME StringsAssumption == JsonStrings \subseteq Seq(1 .. 255)

VARIABLES
  pieces,    \* what is parsed
  closed,    \* there is a closing quote
  cstring,   \* what is printed
  string_pc, \* "parse" or "print", and "done"
  allocated, \* bytes the output has room for
  output     \* the bytes that are written

string_vars == <<pieces, closed, cstring, string_pc, allocated, output>>

-----------------------------------------------------------------------------
(* utf16_literal_to_utf8. *)

HexDigit(c) ==
  CASE c \in 48 .. 57 -> c - 48
    [] c \in 65 .. 70 -> c - 55
    [] c \in 97 .. 102 -> c - 87
    [] OTHER -> -1

\* The number in the four bytes from i on, 0 when one is not a digit.
parse_hex4(s, i) ==
  LET digits == [k \in 1 .. 4 |-> HexDigit(s[i + k - 1])]
  IN IF \E k \in 1 .. 4 : digits[k] = -1 THEN 0
     ELSE FoldLeft(LAMBDA h, d : 16 * h + d, 0, digits)

High == 55296 .. 56319 \* 0xD800 .. 0xDBFF
Low == 56320 .. 57343  \* 0xDC00 .. 0xDFFF

\* Mutant: the planes start at 0.
SurrogatesFromZero(first, second) == (first % 1024) * 1024 + (second % 1024)

Surrogates(first, second) == 65536 + (first % 1024) * 1024 + (second % 1024)

Continuation(codepoint) == 128 + (codepoint % 64)

\* Mutant: no codepoint takes three bytes.
Utf8Short(codepoint) ==
  IF codepoint < 128 THEN <<codepoint>>
  ELSE IF codepoint < 65536
  THEN <<192 + (codepoint \div 64), Continuation(codepoint)>>
  ELSE <<240 + (codepoint \div 262144), Continuation(codepoint \div 4096),
         Continuation(codepoint \div 64), Continuation(codepoint)>>

Utf8(codepoint) ==
  IF codepoint < 128 THEN <<codepoint>>
  ELSE IF codepoint < 2048
  THEN <<192 + (codepoint \div 64), Continuation(codepoint)>>
  ELSE IF codepoint < 65536
  THEN <<224 + (codepoint \div 4096), Continuation(codepoint \div 64),
         Continuation(codepoint)>>
  ELSE <<240 + (codepoint \div 262144), Continuation(codepoint \div 4096),
         Continuation(codepoint \div 64), Continuation(codepoint)>>

Invalid == [length |-> 0, bytes |-> << >>]

\* The bytes for the literal at i of body, and its length there, 0 if invalid.
utf16_literal_to_utf8(body, i) ==
  LET first == parse_hex4(body, i + 2)
      second == parse_hex4(body, i + 8)
  IN IF Len(body) < i + 5 \/ first \in Low THEN Invalid
     ELSE IF first \notin High THEN [length |-> 6, bytes |-> Utf8(first)]
     ELSE IF /\ Len(body) >= i + 11
             /\ body[i + 6] = Backslash /\ body[i + 7] = Letter.u
             /\ second \in Low
     THEN [length |-> 12, bytes |-> Utf8(Surrogates(first, second))]
     ELSE Invalid

-----------------------------------------------------------------------------
(* parse_string. *)

\* Where the quote is that closes the text, 0 if there is none.
InputEnd(text) ==
  LET end[i \in 1 .. Len(text) + 2] ==
        IF i > Len(text) THEN 0
        ELSE IF text[i] = Quote THEN i
        ELSE end[IF text[i] = Backslash THEN i + 2 ELSE i + 1]
  IN end[1]

Skipped(text) ==
  LET skips[i \in 1 .. Len(text) + 2] ==
        IF i > Len(text) \/ text[i] = Quote THEN 0
        ELSE IF text[i] = Backslash THEN 1 + skips[i + 2] ELSE skips[i + 1]
  IN skips[1]

\* Mutant: an escape is counted as one byte less than its output.
AllocationTight(text) == InputEnd(text) - 2 * Skipped(text) + 1

\* An overestimate: the text from the opening quote on, less the backslashes.
Allocation(text) == InputEnd(text) - Skipped(text) + 1

\* What stands at i of the body: the bytes, and its length.
Sequence(body, i) ==
  IF body[i] # Backslash THEN [length |-> 1, bytes |-> <<body[i]>>]
  ELSE IF body[i + 1] = Letter.u THEN utf16_literal_to_utf8(body, i)
  ELSE IF body[i + 1] \in {Quote, Backslash, Slash}
  THEN [length |-> 2, bytes |-> <<body[i + 1]>>]
  ELSE IF \E c \in DOMAIN Control : Letter[c] = body[i + 1]
  THEN [length |-> 2,
        bytes |-> <<Control[CHOOSE c \in DOMAIN Control : Letter[c] = body[i + 1]]>>]
  ELSE Invalid

Decoded(body) ==
  LET from[i \in 1 .. Len(body) + 1] ==
        IF i > Len(body) THEN << >>
        ELSE LET s == Sequence(body, i)
             IN IF s.length = 0 \/ from[i + s.length] = Failed THEN Failed
                ELSE s.bytes \o from[i + s.length]
  IN from[1]

\* What follows the opening quote is parsed.
parse_string(text) ==
  IF InputEnd(text) = 0 THEN Failed
  ELSE Decoded(SubSeq(text, 1, InputEnd(text) - 1))

-----------------------------------------------------------------------------
(* print_string_ptr. *)

Named(c) == c \in {Quote, Backslash} \cup Range(Control)

Extra(c) == IF Named(c) THEN 1 ELSE IF c < 32 THEN 5 ELSE 0
OutputLength(s) == Len(s) + MapThenSumSet(LAMBDA k : Extra(s[k]), DOMAIN s)

HexByte(d) == IF d < 10 THEN 48 + d ELSE 87 + d

\* Mutant: a backslash is printed as it is.
EscapedOnce(c) ==
  CASE c = Quote -> <<Backslash, c>>
    [] c \in Range(Control) ->
         <<Backslash, Letter[CHOOSE l \in DOMAIN Control : Control[l] = c]>>
    [] c < 32 /\ ~Named(c) ->
         <<Backslash, Letter.u, 48, 48, HexByte(c \div 16), HexByte(c % 16)>>
    [] OTHER -> <<c>>

Escaped(c) ==
  CASE c \in {Quote, Backslash} -> <<Backslash, c>>
    [] c \in Range(Control) ->
         <<Backslash, Letter[CHOOSE l \in DOMAIN Control : Control[l] = c]>>
    [] c < 32 /\ ~Named(c) ->
         <<Backslash, Letter.u, 48, 48, HexByte(c \div 16), HexByte(c % 16)>>
    [] OTHER -> <<c>>

\* The closing quote and the zero go where the count says the text ends.
print_string_ptr(s) ==
  <<Quote>> \o FlattenSeq([k \in DOMAIN s |-> Escaped(s[k])]) \o <<Quote, Zero>>

-----------------------------------------------------------------------------
\* The text behind the opening quote; something may follow the closing one.
Literal ==
  FlattenSeq([k \in DOMAIN pieces |-> pieces[k].text])
    \o (IF closed THEN <<Quote, Letter.n>> ELSE << >>)

StringInit ==
  /\ \/ /\ string_pc = "parse" /\ pieces \in Literals /\ closed \in BOOLEAN
        /\ cstring = << >>
     \/ /\ string_pc = "print" /\ pieces = << >> /\ closed = FALSE
        /\ cstring \in JsonStrings
  /\ allocated = 0 /\ output = Failed

ParseString ==
  /\ string_pc = "parse" /\ string_pc' = "done"
  /\ allocated' = Allocation(Literal)
  /\ output' = parse_string(Literal)
  /\ UNCHANGED <<pieces, closed, cstring>>

PrintString ==
  /\ string_pc = "print" /\ string_pc' = "printed"
  /\ allocated' = OutputLength(cstring) + 3
  /\ output' = print_string_ptr(cstring)
  /\ UNCHANGED <<pieces, closed, cstring>>

\* What was printed is parsed again.
ParsePrinted ==
  /\ string_pc = "printed" /\ string_pc' = "reparsed"
  /\ LET text == SubSeq(output, 2, Len(output) - 1)
     IN allocated' = Allocation(text) /\ output' = parse_string(text)
  /\ UNCHANGED <<pieces, closed, cstring>>

StringNext == ParseString \/ PrintString \/ ParsePrinted

StringSpec == StringInit /\ [][StringNext]_string_vars

-----------------------------------------------------------------------------
(* Properties. *)

StringTypeOK ==
  /\ string_pc \in {"parse", "print", "printed", "done", "reparsed"}
  /\ output = Failed \/ output \in Seq(0 .. 255)

\* The output fits what was allocated for it: the overestimate of parse_string
\* with its zero, and the exact count of print_string_ptr, where the closing
\* quote would otherwise not stand behind the text (cJSON.c:806-837, 950-1039).
StringFits ==
  /\ string_pc \in {"done", "reparsed"} /\ output # Failed => Len(output) + 1 <= allocated
  /\ string_pc = "printed" => Len(output) = allocated

\* Parsing gives the bytes the pieces mean, and fails when one of them means
\* nothing or the literal is not closed (cJSON.c:635-920).
StringMeans ==
  output = IF ~closed \/ \E k \in DOMAIN pieces : pieces[k].means = Failed
           THEN Failed
           ELSE FlattenSeq([k \in DOMAIN pieces |-> pieces[k].means])

\* A literal means what its escapes stand for, and a string that is printed and
\* parsed again is the same string (cJSON.c:635-1042).
StringRoundTrip ==
  /\ string_pc = "done" => StringMeans
  /\ string_pc = "reparsed" => output = cstring

=============================================================================
