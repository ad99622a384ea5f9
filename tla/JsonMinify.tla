------------------------------ MODULE JsonMinify ------------------------------
(***************************************************************************)
(* cJSON_Minify: blanks and comments are taken out of a text where it lies, *)
(* by two pointers, one that reads and one that writes.  The text is put    *)
(* together from parts that stay or go; a string whose last character is an *)
(* escaped backslash is not among them, because minify_string takes its end *)
(* for an escaped quote.                                                    *)
(***************************************************************************)
EXTENDS Integers, SequencesExt

CONSTANT MinifyParts \* sequences of parts, [text, means]

Characters == {" ", "nl", "/", "*", "quote", "backslash", "a"}

ASSUME MinifyPartsAssumption ==
  MinifyParts \subseteq Seq([text : Seq(Characters), means : Seq(Characters)])

VARIABLES
  parts,
  memory, \* the text, its zero, and from into on what was there before
  reading, into, \* the two pointers, from 1
  minify_pc \* "outside", "line" or "block" comment, "string", "done"

minify_vars == <<parts, memory, reading, into, minify_pc>>

TextOfParts == FlattenSeq([k \in DOMAIN parts |-> parts[k].text])

MinifyInit ==
  /\ parts \in MinifyParts
  /\ memory = TextOfParts \o <<"nul">>
  /\ reading = 1 /\ into = 1 /\ minify_pc = "outside"

\* The next character, and the one behind it.
Reads(c) == memory[reading] = c
ThenReads(c) == memory[reading + 1] = c
Skip(n) == reading' = reading + n /\ UNCHANGED <<parts, memory, into>>
Copy(n) ==
  /\ memory' = [k \in DOMAIN memory |->
                  IF k - into \in 0 .. n - 1 THEN memory[reading + k - into] ELSE memory[k]]
  /\ reading' = reading + n /\ into' = into + n
  /\ UNCHANGED parts
InState(s) == minify_pc = s
Then(s) == minify_pc' = s

MinifyBlank ==
  InState("outside") /\ (Reads(" ") \/ Reads("nl")) /\ Skip(1) /\ Then("outside")

\* A slash that begins no comment goes too.
MinifySlash ==
  /\ InState("outside") /\ Reads("/")
  /\ \/ ThenReads("/") /\ Skip(2) /\ Then("line")
     \/ ThenReads("*") /\ Skip(2) /\ Then("block")
     \/ ~ThenReads("/") /\ ~ThenReads("*") /\ Skip(1) /\ Then("outside")

MinifyQuote == InState("outside") /\ Reads("quote") /\ Copy(1) /\ Then("string")

MinifyOther ==
  /\ InState("outside") /\ memory[reading] \notin {" ", "nl", "/", "quote", "nul"}
  /\ Copy(1) /\ Then("outside")

skip_oneline_comment ==
  /\ InState("line")
  /\ \/ Reads("nul") /\ Skip(0) /\ Then("outside")
     \/ Reads("nl") /\ Skip(1) /\ Then("outside")
     \/ ~Reads("nul") /\ ~Reads("nl") /\ Skip(1) /\ Then("line")

\* Mutant: it is not asked whether the text has ended.
skip_multiline_commentOn ==
  /\ InState("block")
  /\ \/ Reads("*") /\ ThenReads("/") /\ Skip(2) /\ Then("outside")
     \/ ~(Reads("*") /\ ThenReads("/")) /\ Skip(1) /\ Then("block")

skip_multiline_comment ==
  /\ InState("block")
  /\ \/ Reads("nul") /\ Skip(0) /\ Then("outside")
     \/ Reads("*") /\ ThenReads("/") /\ Skip(2) /\ Then("outside")
     \/ ~Reads("nul") /\ ~(Reads("*") /\ ThenReads("/")) /\ Skip(1) /\ Then("block")

\* Mutant: a quote always ends a string.
minify_stringUnescaped ==
  /\ InState("string")
  /\ \/ Reads("nul") /\ Skip(0) /\ Then("outside")
     \/ Reads("quote") /\ Copy(1) /\ Then("outside")
     \/ ~Reads("nul") /\ ~Reads("quote") /\ Copy(1) /\ Then("string")

minify_string ==
  /\ InState("string")
  /\ \/ Reads("nul") /\ Skip(0) /\ Then("outside")
     \/ Reads("quote") /\ Copy(1) /\ Then("outside")
     \/ Reads("backslash") /\ ThenReads("quote") /\ Copy(2) /\ Then("string")
     \/ /\ ~Reads("nul") /\ ~Reads("quote") /\ ~(Reads("backslash") /\ ThenReads("quote"))
        /\ Copy(1) /\ Then("string")

MinifyEnd ==
  /\ InState("outside") /\ Reads("nul")
  /\ memory' = [memory EXCEPT ![into] = "nul"]
  /\ UNCHANGED <<parts, reading, into>> /\ Then("done")

MinifyNext ==
  \/ MinifyBlank \/ MinifySlash \/ MinifyQuote \/ MinifyOther
  \/ skip_oneline_comment \/ skip_multiline_comment \/ minify_string \/ MinifyEnd

MinifySpec == MinifyInit /\ [][MinifyNext]_minify_vars

-----------------------------------------------------------------------------
(* Properties. *)

\* The pointers stay within the text and its zero, and the writer never gets
\* before the reader: what is still to be read is as it was (cJSON.c:2834-2929).
MinifyInBounds ==
  /\ into <= reading /\ reading <= Len(memory)
  /\ minify_pc # "done" =>
       SubSeq(memory, reading, Len(memory))
         = SubSeq(TextOfParts \o <<"nul">>, reading, Len(memory))

\* Blanks and comments go, closed or not, and everything else stays, blanks and
\* slashes in strings and escaped quotes among it (cJSON.c:2883-2929).
MinifyKeeps ==
  minify_pc = "done" =>
    /\ SubSeq(memory, 1, into - 1) = FlattenSeq([k \in DOMAIN parts |-> parts[k].means])
    /\ memory[into] = "nul"

=============================================================================
