------------------------------- MODULE MCJson --------------------------------
(* The JSON library: a tree is built and changed, a text or a string in it   *)
(* is parsed, printed or minified.  A behaviour is one of these parts, with  *)
(* any input that it may be given; the other parts rest.                     *)
EXTENDS JsonTree, JsonParse, JsonString, JsonPrint, JsonMinify

CONSTANT Parts \* the parts that are checked

VARIABLES
  part,
  keys \* whether this tree uses keys

-----------------------------------------------------------------------------
(* The inputs.  What is large has a name of its own, for TLC to compute it  *)
(* once.                                                                    *)

\* Trees of four items without keys, or of three that may have keys and of which
\* one may be a reference.
FoldCase == [a |-> "a", A |-> "a"]
Small == IF keys THEN heap.live \subseteq {1, 2, 3} /\ Cardinality(heap.reference) <= 1
         ELSE lost = {} /\ heap.const = {} /\ heap.strings = 0

\* Short texts of any tokens, and three good ones that are damaged somewhere:
\* cut off, a token missing, another in its place or one too many.
Intact ==
  { <<"[", "1", ",", "[", "]", ",", "s", "]">>,
    <<"{", "s", ":", "t", ",", "s", ":", "{", "}", "}", "nul">>,
    <<"[", "[", "[", "]", "]", "]">>,
    <<" ", "[", " ", "{", "s", " ", ":", " ", "s", "}", " ", ",", "1", " ", "]", " ", "nul">> }
Damaged(s) ==
  {SubSeq(s, 1, k) : k \in 0 .. Len(s)}
  \cup {RemoveAt(s, k) : k \in DOMAIN s}
  \cup {[s EXCEPT ![k] = c] : k \in DOMAIN s, c \in Tokens}
  \cup {InsertAt(s, k, c) : k \in DOMAIN s, c \in Tokens}
EveryText == BoundedSeq(Tokens, 3) \cup UNION {Damaged(s) : s \in Intact}
MCJsonTexts == EveryText

\* Literals of up to three pieces, the last of which may be a bad one.
Spelt(text, means) == [text |-> text, means |-> means]
Unicode(a, b, c, d) == <<Backslash, Letter.u, a, b, c, d>>
GoodPieces ==
  { Spelt(<<97>>, <<97>>), Spelt(<<195, 169>>, <<195, 169>>),
    Spelt(<<Backslash, Quote>>, <<Quote>>), Spelt(<<Backslash, Backslash>>, <<Backslash>>),
    Spelt(<<Backslash, Letter.n>>, <<10>>), Spelt(Unicode(48, 48, 52, 49), <<65>>),
    Spelt(Unicode(48, 48, 48, 48), <<0>>), Spelt(Unicode(48, 48, 69, 57), <<195, 169>>),
    Spelt(Unicode(50, 48, 97, 99), <<226, 130, 172>>),
    Spelt(Unicode(100, 56, 51, 100) \o Unicode(68, 69, 48, 48), <<240, 159, 152, 128>>),
    Spelt(Unicode(122, 122, 48, 48), <<0>>) }
BadPieces ==
  { Spelt(<<Backslash, 120>>, Failed), Spelt(<<Backslash>>, Failed),
    Spelt(<<Backslash, Letter.u, 49>>, Failed), Spelt(Unicode(68, 69, 48, 48), Failed),
    Spelt(Unicode(100, 56, 51, 100), Failed),
    Spelt(Unicode(100, 56, 51, 100) \o <<120>>, Failed),
    Spelt(Unicode(100, 56, 51, 100) \o Unicode(48, 48, 52, 49), Failed) }
EveryLiteral ==
  BoundedSeq(GoodPieces, 3)
  \cup {Append(s, b) : s \in BoundedSeq(GoodPieces, 2), b \in BadPieces}
MCLiterals == EveryLiteral

\* Strings of up to three bytes, one of each kind the printer tells apart.
EveryString == BoundedSeq({Quote, Backslash, 8, 10, 1, 31, 32, 97, 195, 117}, 3)
MCJsonStrings == EveryString

\* Items of up to three levels, some of which cannot be printed.
MCItem(type, string, text, items) ==
  [type |-> type, string |-> string, text |-> text, items |-> items]
Key == <<"quote", "k", "quote">>
One == MCItem("literal", Key, <<"1">>, << >>)
EmptyRaw == MCItem("literal", <<"quote", "quote">>, << >>, << >>)
NotValid == MCItem("invalid", Key, << >>, << >>)
Nested(s, k) == {MCItem(t, Key, << >>, l) : t \in {"array", "object"}, l \in BoundedSeq(s, k)}
EveryItem ==
  {One} \cup Nested({One, EmptyRaw, NotValid}, 2)
  \cup Nested(Nested({One}, 1), 2) \cup Nested(Nested(Nested({One}, 1), 1), 1)
MCPrintedItems == EveryItem
MCPrebuffers == 1 .. 22

\* Texts of parts that stay and parts that go, the last of them perhaps not closed.
Kept(text) == Spelt(text, text)
Dropped(text) == Spelt(text, << >>)
ClosedParts ==
  { Dropped(<<" ">>), Dropped(<<"nl">>), Kept(<<"a">>), Kept(<<"*">>),
    Dropped(<<"/", "/", "/", "*", "quote", "nl">>), Dropped(<<"/", "*", "*", "/">>),
    Dropped(<<"/", "*", "/", "*", "a", "nl", "quote", "*", "*", "/">>),
    Kept(<<"quote", "quote">>),
    Kept(<<"quote", "/", "/", "backslash", "quote", " ", "nl", "backslash", "a", "quote">>) }
OpenParts ==
  { Dropped(<<"/">>), Dropped(<<"/", "/">>), Dropped(<<"/", "*">>), Dropped(<<"/", "*", "/">>),
    Dropped(<<"/", "*", "a", "*">>), Kept(<<"quote">>), Kept(<<"quote", " ", "backslash">>),
    Kept(<<"quote", "/", "backslash", "quote">>) }
EveryMinified ==
  BoundedSeq(ClosedParts, 2)
  \cup {Append(s, p) : s \in BoundedSeq(ClosedParts, 2), p \in OpenParts}
MCMinifyParts == EveryMinified

-----------------------------------------------------------------------------

\* A part that rests does so with an input that is fixed.
JsonPartsInit ==
  /\ part \in Parts
  /\ keys \in BOOLEAN /\ (part # "tree" => ~keys)
  /\ Init
  /\ part # "json" => json = << >> /\ required = FALSE
  /\ JsonInit
  /\ part # "string" => string_pc = "print" /\ cstring = << >>
  /\ StringInit
  /\ part # "print" =>
       value = One /\ format = FALSE /\ call = "print" /\ reallocates = TRUE
  /\ PrintInit
  /\ part # "minify" => parts = << >>
  /\ MinifyInit

parse_vars == <<json_vars, string_vars>>
out_vars == <<print_vars, minify_vars>>
parts_vars == <<part, keys, vars, parse_vars, out_vars>>

ChangeTree == part = "tree" /\ Next /\ Small' /\ UNCHANGED <<parse_vars, out_vars>>
ReadJson == part = "json" /\ JsonNext /\ UNCHANGED <<vars, string_vars, out_vars>>
ReadString == part = "string" /\ StringNext /\ UNCHANGED <<vars, json_vars, out_vars>>
PrintJson == part = "print" /\ PrintNext /\ UNCHANGED <<vars, parse_vars, minify_vars>>
Minify == part = "minify" /\ MinifyNext /\ UNCHANGED <<vars, parse_vars, print_vars>>

\* The part is over.
Returned ==
  /\ \/ part = "json" /\ json_pc = "end"
     \/ part = "string" /\ string_pc \in {"done", "reparsed"}
     \/ part = "print" /\ print_pc \in {"returned", "NULL"}
     \/ part = "minify" /\ minify_pc = "done"
  /\ UNCHANGED parts_vars

JsonPartsNext ==
  \/ UNCHANGED <<part, keys>> /\ (ChangeTree \/ ReadJson \/ ReadString \/ PrintJson \/ Minify)
  \/ Returned

JsonPartsSpec == JsonPartsInit /\ [][JsonPartsNext]_parts_vars

-----------------------------------------------------------------------------
(* Properties of all parts but the tree.                                    *)

\* Whatever the text is and whichever allocation fails: what was estimated, rounded
\* or counted before is enough for what is found, no part reads or writes outside what
\* it was given or has allocated, and nothing is left allocated but what is returned.
JsonSafe ==
  /\ JsonTypeOK /\ StringTypeOK /\ PrintTypeOK
  /\ LooksInBounds /\ StringFits /\ PrintsInBounds /\ MinifyInBounds
  /\ ParseNothingLeaks /\ PrintNothingLeaks

=============================================================================
