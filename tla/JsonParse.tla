------------------------------ MODULE JsonParse ------------------------------
(***************************************************************************)
(* The parser of cJSON.c, cJSON_ParseWithLengthOpts with parse_value,       *)
(* parse_array and parse_object, on a text that may end in the middle of    *)
(* anything and need not end with a zero, while any allocation may fail.    *)
(* The text is a sequence of what the parser tells apart: brackets, commas, *)
(* colons, blanks (characters up to 32, the zero among them), and whole     *)
(* literals: "t" for null, false and true, "1" for a number, "s" for a      *)
(* string, "x" for one that is not closed or has a bad escape, or for       *)
(* anything else.  JsonString has the characters of strings.                *)
(***************************************************************************)
EXTENDS Integers, SequencesExt, FiniteSetsExt

CONSTANTS
  JsonTexts,          \* the texts
  CJSON_NESTING_LIMIT

Blank == {" ", "nul"}
Tokens == {"[", "]", "{", "}", ",", ":", "t", "1", "s", "x"} \cup Blank
Closing == ("[" :> "]") @@ ("{" :> "}")

ASSUME JsonTextsAssumption == JsonTexts \subseteq Seq(Tokens)
ASSUME NestingAssumption == CJSON_NESTING_LIMIT \in Nat

VARIABLES
  json,     \* the text
  required, \* require_null_terminated
  json_pc,
  offset,   \* of the parse_buffer, from 0
  frames,   \* the calls of parse_array and parse_object, innermost last
  tree,     \* the items
  nomem,    \* an allocation has failed
  result,   \* what is returned, 0 for NULL
  position  \* of global_error

json_vars == <<json, required, json_pc, offset, frames, tree, nomem, result, position>>

Addresses == 1 .. Len(json) + 1
NoItems ==
  [live |-> {}, made |-> 0,
   next |-> [n \in Addresses |-> 0], prev |-> [n \in Addresses |-> 0],
   child |-> [n \in Addresses |-> 0], type |-> [n \in Addresses |-> "invalid"],
   string |-> {}, valuestring |-> {}] \* the items that own a name, a value

Readable(o) == o < Len(json)
Look(o) == IF Readable(o) THEN json[o + 1] ELSE "nothing"

\* buffer_skip_whitespace steps back to the last character when all are blank.
SkipBlank(o) ==
  LET more == {k \in o .. Len(json) - 1 : Look(k) \notin Blank}
  IN IF ~Readable(o) THEN o ELSE IF more = {} THEN Len(json) - 1 ELSE Min(more)

\* The item parse_value is called with.
Item == IF frames = << >> THEN 1 ELSE Last(frames).current
NewItem == [tree EXCEPT !.live = @ \cup {tree.made + 1}, !.made = @ + 1]

\* The items cJSON_Delete frees: the list from item on, with what is below it.
RECURSIVE ItemsFrom(_, _)
ItemsFrom(t, item) ==
  IF item = 0 THEN {}
  ELSE {item} \cup ItemsFrom(t, t.next[item]) \cup ItemsFrom(t, t.child[item])
WithoutItems(t, gone) ==
  [t EXCEPT !.live = @ \ gone, !.string = @ \ gone, !.valuestring = @ \ gone]

Goes(to) == json_pc' = to
Stays == UNCHANGED <<json, required, result, position>>
NoMemory == nomem' = TRUE /\ Goes("failed")

JsonInit ==
  /\ json \in JsonTexts /\ required \in BOOLEAN
  /\ json_pc = "start" /\ offset = 0 /\ frames = << >> /\ tree = NoItems
  /\ nomem = FALSE /\ result = 0 /\ position = 0

\* An empty text is refused before an item is made.
ParseStart ==
  /\ json_pc = "start"
  /\ \/ /\ json # << >>
        /\ tree' = NewItem /\ offset' = SkipBlank(0) /\ Goes("value")
        /\ UNCHANGED nomem
     \/ json # << >> /\ NoMemory /\ UNCHANGED <<tree, offset>>
     \/ json = << >> /\ Goes("end") /\ UNCHANGED <<tree, offset, nomem>>
  /\ UNCHANGED frames /\ Stays

-----------------------------------------------------------------------------
(* parse_value.                                                             *)

\* A number needs a buffer for strtod, a string its copy.
ParseScalar ==
  /\ json_pc = "value" /\ Look(offset) \in {"t", "1", "s"}
  /\ \/ /\ tree' = [tree EXCEPT !.type[Item] = Look(offset),
                      !.valuestring = IF Look(offset) = "s" THEN @ \cup {Item} ELSE @]
        /\ offset' = offset + 1 /\ Goes("parsed") /\ UNCHANGED nomem
     \/ Look(offset) # "t" /\ NoMemory /\ UNCHANGED <<tree, offset>>
  /\ UNCHANGED frames /\ Stays

\* A string that fails leaves the offset behind its quote.
ParseNothing ==
  /\ json_pc = "value" /\ Look(offset) \notin {"t", "1", "s"} \cup DOMAIN Closing
  /\ offset' \in IF Look(offset) = "x" THEN {offset, offset + 1} ELSE {offset}
  /\ Goes("failed")
  /\ UNCHANGED <<frames, tree, nomem>> /\ Stays

\* Mutant: the bound is off by one.
ParseOpenDeeper ==
  /\ json_pc = "value" /\ Look(offset) \in DOMAIN Closing
  /\ LET next == SkipBlank(offset + 1)
     IN IF Len(frames) > CJSON_NESTING_LIMIT
        THEN Goes("failed") /\ UNCHANGED <<frames, offset>>
        ELSE /\ frames' = Append(frames, [open |-> Look(offset), item |-> Item,
                                          head |-> 0, current |-> 0])
             /\ IF Look(next) = Closing[Look(offset)]
                THEN offset' = next /\ Goes("close")
                ELSE /\ offset' = next - 1
                     /\ Goes(IF Readable(next) THEN "element" ELSE "failed")
  /\ UNCHANGED <<tree, nomem>> /\ Stays

\* The offset is put in front of the first element.
ParseOpen ==
  /\ json_pc = "value" /\ Look(offset) \in DOMAIN Closing
  /\ LET next == SkipBlank(offset + 1)
     IN IF Len(frames) >= CJSON_NESTING_LIMIT
        THEN Goes("failed") /\ UNCHANGED <<frames, offset>>
        ELSE /\ frames' = Append(frames, [open |-> Look(offset), item |-> Item,
                                          head |-> 0, current |-> 0])
             /\ IF Look(next) = Closing[Look(offset)]
                THEN offset' = next /\ Goes("close")
                ELSE /\ offset' = next - 1
                     /\ Goes(IF Readable(next) THEN "element" ELSE "failed")
  /\ UNCHANGED <<tree, nomem>> /\ Stays

-----------------------------------------------------------------------------
(* The loop of parse_array and parse_object.                                *)

\* The list of the innermost call, with item n at its end.
Attached(n) ==
  LET f == Last(frames)
      longer == [f EXCEPT !.head = IF @ = 0 THEN n ELSE @, !.current = n]
  IN /\ frames' = Append(Front(frames), longer)
     /\ tree' = IF f.head = 0 THEN NewItem
                ELSE [NewItem EXCEPT !.next[f.current] = n, !.prev[n] = f.current]

\* Mutant: nothing is asked before the name of a member is looked for.
ParseElementUnchecked ==
  /\ json_pc = "element"
  /\ \/ /\ Attached(tree.made + 1)
        /\ offset' = SkipBlank(offset + 1)
        /\ Goes(IF Last(frames).open = "[" THEN "value" ELSE "name")
        /\ UNCHANGED nomem
     \/ NoMemory /\ UNCHANGED <<offset, frames, tree>>
  /\ Stays

ParseElement ==
  /\ json_pc = "element"
  /\ \/ /\ Attached(tree.made + 1)
        /\ IF Last(frames).open = "{" /\ ~Readable(offset + 1)
           THEN UNCHANGED offset /\ Goes("failed")
           ELSE /\ offset' = SkipBlank(offset + 1)
                /\ Goes(IF Last(frames).open = "[" THEN "value" ELSE "name")
        /\ UNCHANGED nomem
     \/ NoMemory /\ UNCHANGED <<offset, frames, tree>>
  /\ Stays

\* parse_string of the name of a member, and the colon.
ParseName ==
  /\ json_pc = "name"
  /\ \/ /\ Look(offset) = "s"
        /\ tree' = [tree EXCEPT !.string = @ \cup {Item}]
        /\ LET colon == SkipBlank(offset + 1)
           IN IF Look(colon) = ":" THEN offset' = SkipBlank(colon + 1) /\ Goes("value")
              ELSE offset' = colon /\ Goes("failed")
        /\ UNCHANGED nomem
     \/ Look(offset) = "s" /\ NoMemory /\ UNCHANGED <<tree, offset>>
     \/ /\ Look(offset) # "s" /\ offset' = offset + 1 /\ Goes("failed")
        /\ UNCHANGED <<tree, nomem>>
  /\ UNCHANGED frames /\ Stays

ParseMore ==
  /\ json_pc = "parsed" /\ frames # << >>
  /\ offset' = SkipBlank(offset)
  /\ Goes(CASE Look(offset') = "," -> "element"
            [] Look(offset') = Closing[Last(frames).open] -> "close"
            [] OTHER -> "failed")
  /\ UNCHANGED <<frames, tree, nomem>> /\ Stays

\* Mutant: the first item does not get to know the last.
ParseCloseUnlinked ==
  /\ json_pc = "close"
  /\ LET f == Last(frames)
     IN tree' = [tree EXCEPT !.child[f.item] = f.head, !.type[f.item] = f.open]
  /\ frames' = Front(frames)
  /\ offset' = offset + 1 /\ Goes("parsed")
  /\ UNCHANGED nomem /\ Stays

ParseClose ==
  /\ json_pc = "close"
  /\ LET f == Last(frames)
         linked == IF f.head = 0 THEN tree.prev
                   ELSE [tree.prev EXCEPT ![f.head] = f.current]
     IN tree' = [tree EXCEPT !.prev = linked, !.child[f.item] = f.head,
                             !.type[f.item] = f.open]
  /\ frames' = Front(frames)
  /\ offset' = offset + 1 /\ Goes("parsed")
  /\ UNCHANGED nomem /\ Stays

-----------------------------------------------------------------------------
(* The end of cJSON_ParseWithLengthOpts, and the ways back to it.           *)

\* Mutant: a text that goes on is taken.
ParseEndAnywhere ==
  /\ json_pc = "parsed" /\ frames = << >>
  /\ result' = 1 /\ Goes("end")
  /\ UNCHANGED <<json, required, offset, frames, tree, nomem, position>>

ParseEnd ==
  /\ json_pc = "parsed" /\ frames = << >>
  /\ offset' = IF required THEN SkipBlank(offset) ELSE offset
  /\ IF required /\ Look(offset') # "nul"
     THEN Goes("failed") /\ UNCHANGED result
     ELSE result' = 1 /\ Goes("end")
  /\ UNCHANGED <<json, required, frames, tree, nomem, position>>

\* Mutant: the first item of the list that failed is all that is freed.
ParseUnwindFirst ==
  /\ json_pc = "failed" /\ frames # << >>
  /\ tree' = WithoutItems(tree, {Last(frames).head})
  /\ frames' = Front(frames)
  /\ UNCHANGED <<json_pc, offset, nomem>> /\ Stays

\* The innermost call deletes the list it has made so far.
ParseUnwind ==
  /\ json_pc = "failed" /\ frames # << >>
  /\ tree' = WithoutItems(tree, ItemsFrom(tree, Last(frames).head))
  /\ frames' = Front(frames)
  /\ UNCHANGED <<json_pc, offset, nomem>> /\ Stays

ParseGiveUp ==
  /\ json_pc = "failed" /\ frames = << >>
  /\ tree' = IF tree.live = {} THEN tree ELSE WithoutItems(tree, ItemsFrom(tree, 1))
  /\ position' = IF Readable(offset) THEN offset ELSE Len(json) - 1
  /\ Goes("end")
  /\ UNCHANGED <<json, required, offset, frames, nomem, result>>

JsonNext ==
  \/ ParseStart \/ ParseScalar \/ ParseNothing \/ ParseOpen
  \/ ParseElement \/ ParseName \/ ParseMore \/ ParseClose
  \/ ParseEnd \/ ParseUnwind \/ ParseGiveUp

JsonSpec == JsonInit /\ [][JsonNext]_json_vars

-----------------------------------------------------------------------------
(* What a text means, and the text of a tree.                               *)

RECURSIVE IsValue(_, _), IsElements(_, _), IsMembers(_, _)

\* s is the text of one value, with no more than depth brackets open.
IsValue(s, depth) ==
  \/ Len(s) = 1 /\ s[1] \in {"t", "1", "s"}
  \/ /\ Len(s) >= 2 /\ depth > 0
     /\ LET inner == SubSeq(s, 2, Len(s) - 1)
        IN \/ /\ s[1] = "[" /\ Last(s) = "]"
              /\ inner = << >> \/ IsElements(inner, depth - 1)
           \/ /\ s[1] = "{" /\ Last(s) = "}"
              /\ inner = << >> \/ IsMembers(inner, depth - 1)

IsElements(s, depth) ==
  \/ IsValue(s, depth)
  \/ \E k \in DOMAIN s :
       /\ s[k] = ","
       /\ IsValue(SubSeq(s, 1, k - 1), depth)
       /\ IsElements(SubSeq(s, k + 1, Len(s)), depth)

IsMember(s, depth) ==
  Len(s) > 2 /\ s[1] = "s" /\ s[2] = ":" /\ IsValue(SubSeq(s, 3, Len(s)), depth)
IsMembers(s, depth) ==
  \/ IsMember(s, depth)
  \/ \E k \in DOMAIN s :
       /\ s[k] = ","
       /\ IsMember(SubSeq(s, 1, k - 1), depth)
       /\ IsMembers(SubSeq(s, k + 1, Len(s)), depth)

Words == SelectSeq(json, LAMBDA c : c \notin Blank)
Accepted ==
  \E k \in DOMAIN Words :
    /\ IsValue(SubSeq(Words, 1, k), CJSON_NESTING_LIMIT)
    /\ required => k = Len(Words) /\ Last(json) = "nul"

\* The items of the list from item on, comma-separated, each with its name.
RECURSIVE Printed(_), PrintedList(_)
Printed(item) ==
  IF tree.type[item] \in DOMAIN Closing
  THEN <<tree.type[item]>> \o PrintedList(tree.child[item])
         \o <<Closing[tree.type[item]]>>
  ELSE <<tree.type[item]>>
PrintedList(item) ==
  IF item = 0 THEN << >>
  ELSE (IF item \in tree.string THEN <<"s", ":">> ELSE << >>) \o Printed(item)
         \o (IF tree.next[item] = 0 THEN << >> ELSE <<",">>)
         \o PrintedList(tree.next[item])

-----------------------------------------------------------------------------
(* Properties. *)

JsonTypeOK ==
  /\ json_pc \in {"start", "value", "element", "name", "parsed", "close", "failed", "end"}
  /\ offset \in 0 .. Len(json)
  /\ Len(frames) <= CJSON_NESTING_LIMIT
  /\ tree.live \subseteq Addresses
  /\ tree.string \cup tree.valuestring \subseteq tree.live

\* What the parser looks at without asking is there: the quote of a name, which
\* parse_string reads at once (cJSON.c:801), the bracket that closes a list, and
\* the position of an error, which cJSON_GetErrorPtr gives (cJSON.c:1170-1190).
LooksInBounds ==
  /\ json_pc \in {"name", "close"} => Readable(offset)
  /\ json_pc = "end" /\ json # << >> => Readable(position)

\* Each list of the tree is linked both ways, and its first item knows the
\* last, where cJSON_AddItemToArray appends (cJSON.c:1543-1548, 1724-1729).
ParsedLinked ==
  \A n \in tree.live :
    /\ tree.next[n] # 0 => tree.prev[tree.next[n]] = n
    /\ tree.child[n] # 0 =>
         LET last == tree.prev[tree.child[n]]
         IN last # 0 /\ tree.next[last] = 0 /\ last \in ItemsFrom(tree, tree.child[n])

\* A tree is returned exactly for the texts that begin with a value (and end
\* with it and a zero, if that is required), unless memory ran out; printed, it
\* is that value, and its lists are linked (cJSON.c:1116-1193, 1337-1390, 1466-1741).
ParsesValues ==
  json_pc = "end" =>
    /\ result # 0 <=> ~nomem /\ Accepted
    /\ result # 0 => IsPrefix(Printed(result), Words) /\ ParsedLinked

\* Whatever is wrong with the text and whichever allocation fails, the items
\* that are left are those of the tree that is returned (cJSON.c:1165-1168,
\* 1554-1560, 1734-1740).
ParseNothingLeaks == json_pc = "end" => tree.live = ItemsFrom(tree, result)

=============================================================================
