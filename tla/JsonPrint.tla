------------------------------ MODULE JsonPrint ------------------------------
(***************************************************************************)
(* The printer of cJSON.c: print_value, print_array and print_object, which *)
(* ask for room in a printbuffer, write, and move its offset, and the three *)
(* calls around them.  What is to be written follows from the item alone,   *)
(* so an item stands for the sequence of its pieces; the state is the       *)
(* buffer, which grows, is of a fixed size, or is lost.                     *)
(***************************************************************************)
EXTENDS Integers, SequencesExt, FiniteSetsExt

CONSTANTS
  PrintedItems,        \* the items: [type, string, text, items]
  Prebuffers,          \* sizes that a caller gives
  default_buffer_size,
  INT_MAX

ASSUME PrintSizesAssumption ==
  /\ default_buffer_size \in Nat \ {0} /\ INT_MAX \in Nat
  /\ Prebuffers \subseteq Nat

VARIABLES
  value, format, reallocates, \* the item, its layout, and the hooks: realloc or none
  call,      \* "print", "buffered" or "preallocated"
  prebuffer, \* of the last two
  print_pc,
  todo,      \* the pieces that are left
  buffer,    \* the bytes of the buffer, "?" if not written
  at,        \* its offset
  blocks     \* blocks on the heap

print_args == <<value, format, reallocates, call, prebuffer>>
print_vars == <<print_args, print_pc, todo, buffer, at, blocks>>

NoBuffer == <<"NULL">>
noalloc == call = "preallocated"

-----------------------------------------------------------------------------
(* The pieces: how much is asked for, what is written, and how far the      *)
(* offset moves; or the offset is moved to the end of what was written.     *)

Put(needed, text, skip) == [does |-> "put", needed |-> needed, text |-> text, skip |-> skip]
UpdateOffset == [does |-> "update", needed |-> 0, text |-> << >>, skip |-> 0]
Unprintable == [UpdateOffset EXCEPT !.does = "fail"]

\* print_number, print_string_ptr, and what print_value copies.
Whole(text) == <<Put(Len(text) + 1, text \o <<"nul">>, 0)>>
\* What the layout adds.
Laid(text) == IF format THEN text ELSE << >>
Tabs(depth) == [k \in 1 .. depth |-> "tab"]

\* Mutant: what is left behind the last member is taken to be longer.
ClosedLonger(depth) ==
  Put(IF format THEN depth + 2 ELSE 3, Laid(Tabs(depth - 1)) \o <<"}", "nul">>, 0)

Closed(depth) ==
  Put(IF format THEN depth + 1 ELSE 2, Laid(Tabs(depth - 1)) \o <<"}", "nul">>, 0)

\* Mutant: no room is asked for the blank.
CommaShort(last) ==
  IF last THEN << >>
  ELSE <<Put(0, <<",">> \o Laid(<<" ">>) \o <<"nul">>, Len(Laid(<<" ">>)) + 1)>>

\* The comma behind an element.
Comma(last) ==
  IF last THEN << >>
  ELSE LET length == 1 + Len(Laid(<<" ">>))
       IN <<Put(length + 1, <<",">> \o Laid(<<" ">>) \o <<"nul">>, length)>>

\* The end of a member.
EndOf(last) ==
  LET text == (IF last THEN << >> ELSE <<",">>) \o Laid(<<"nl">>)
  IN Put(Len(text) + 1, text \o <<"nul">>, Len(text))

RECURSIVE Pieces(_, _), Members(_, _)

\* print_value, with depth containers around the item.
Pieces(item, depth) ==
  CASE item.type = "invalid" -> <<Unprintable>>
    [] item.type = "literal" -> Whole(item.text)
    [] item.type = "array" ->
         <<Put(1, <<"[">>, 1)>>
           \o FlattenSeq([k \in DOMAIN item.items |->
                            Pieces(item.items[k], depth + 1) \o <<UpdateOffset>>
                              \o Comma(k = Len(item.items))])
           \o <<Put(2, <<"]", "nul">>, 0)>>
    [] item.type = "object" ->
         LET open == <<"{">> \o Laid(<<"nl">>)
         IN <<Put(Len(open) + 1, open, Len(open))>>
              \o Members(item.items, depth + 1) \o <<Closed(depth + 1)>>

Members(items, depth) ==
  LET tabs == Tabs(depth)
      colon == <<":">> \o Laid(<<"tab">>)
      member(k) ==
        (IF format THEN <<Put(depth, tabs, depth)>> ELSE << >>)
          \o Whole(items[k].string) \o <<UpdateOffset, Put(Len(colon), colon, Len(colon))>>
          \o Pieces(items[k], depth) \o <<UpdateOffset, EndOf(k = Len(items))>>
  IN FlattenSeq([k \in DOMAIN items |-> member(k)])

-----------------------------------------------------------------------------

Unwritten(size) == [k \in 1 .. size |-> "?"]
Goto(l) == print_pc' = l

PrintInit ==
  /\ value \in PrintedItems /\ format \in BOOLEAN
  /\ call \in {"print", "buffered", "preallocated"}
  /\ reallocates \in (IF call = "preallocated" THEN {TRUE} ELSE BOOLEAN)
  /\ prebuffer \in (IF call = "print" THEN {default_buffer_size} ELSE Prebuffers)
  /\ print_pc = "start" /\ todo = << >> /\ buffer = NoBuffer /\ at = 0 /\ blocks = 0

\* The caller's buffer, or one on the heap.
PrintStart ==
  /\ print_pc = "start"
  /\ \/ /\ buffer' = Unwritten(prebuffer) /\ blocks' = IF noalloc THEN 0 ELSE 1
        /\ todo' = Pieces(value, 0) /\ Goto("value")
     \/ /\ ~noalloc /\ Goto("NULL") /\ UNCHANGED <<todo, buffer, blocks>>
  /\ UNCHANGED <<print_args, at>>

Needed == Head(todo).needed + at + 1
Asks == print_pc = "value" /\ todo # << >> /\ Head(todo).does = "put"
OffsetValid == Len(buffer) > 0 => at < Len(buffer)
HasRoom == OffsetValid /\ Head(todo).needed <= INT_MAX /\ Needed <= Len(buffer)
\* Mutant: no limit.
NewSizeUnlimited == Needed * 2

\* Twice what is needed, as far as an int goes.
NewSize == IF Needed > INT_MAX \div 2 THEN INT_MAX ELSE Needed * 2
MayGrow ==
  /\ OffsetValid /\ Head(todo).needed <= INT_MAX
  /\ ~noalloc /\ Needed > Len(buffer) /\ Needed <= INT_MAX

EnsureFits ==
  /\ Asks /\ HasRoom /\ Goto("write")
  /\ UNCHANGED <<print_args, todo, buffer, at, blocks>>

\* Without a realloc the bytes up to the offset are copied.
EnsureGrows ==
  /\ Asks /\ MayGrow /\ Goto("write")
  /\ LET kept == IF reallocates THEN Len(buffer) ELSE at + 1
     IN buffer' = SubSeq(buffer, 1, kept) \o Unwritten(NewSize - kept)
  /\ UNCHANGED <<print_args, todo, at, blocks>>

\* Mutant: the buffer is freed here and again by the caller.
EnsureNoMemoryKeeps ==
  /\ Asks /\ MayGrow /\ Goto("failed")
  /\ blocks' = blocks - 1
  /\ UNCHANGED <<print_args, todo, buffer, at>>

\* The buffer is freed and forgotten.
EnsureNoMemory ==
  /\ Asks /\ MayGrow /\ Goto("failed")
  /\ buffer' = NoBuffer /\ blocks' = blocks - 1
  /\ UNCHANGED <<print_args, todo, at>>

EnsureFails ==
  /\ Asks /\ ~HasRoom /\ ~MayGrow /\ Goto("failed")
  /\ UNCHANGED <<print_args, todo, buffer, at, blocks>>

Write ==
  /\ print_pc = "write"
  /\ LET text == Head(todo).text
     IN buffer' = [k \in DOMAIN buffer |->
                     IF k - at \in DOMAIN text THEN text[k - at] ELSE buffer[k]]
  /\ at' = at + Head(todo).skip
  /\ todo' = Tail(todo) /\ Goto("value")
  /\ UNCHANGED <<print_args, blocks>>

\* What strlen reads from the offset on.
Behind == {k \in at + 1 .. Len(buffer) : buffer[k] = "nul"}
LastOffset == Min(Behind) - 1

Update ==
  /\ print_pc = "value" /\ todo # << >> /\ Head(todo).does = "update"
  /\ at' = LastOffset /\ todo' = Tail(todo)
  /\ UNCHANGED <<print_args, print_pc, buffer, blocks>>

PrintInvalid ==
  /\ print_pc = "value" /\ todo # << >> /\ Head(todo).does = "fail" /\ Goto("failed")
  /\ UNCHANGED <<print_args, todo, buffer, at, blocks>>

-----------------------------------------------------------------------------

\* Mutant: the zero is forgotten.
PrintShrinkShort ==
  /\ print_pc = "value" /\ todo = << >> /\ call = "print"
  /\ at' = LastOffset
  /\ \/ buffer' = SubSeq(buffer, 1, at') /\ Goto("returned")
     \/ UNCHANGED buffer /\ Goto("failed")
  /\ UNCHANGED <<print_args, todo, blocks>>

\* print returns a block that is just large enough.
PrintShrink ==
  /\ print_pc = "value" /\ todo = << >> /\ call = "print"
  /\ at' = LastOffset
  /\ \/ buffer' = SubSeq(buffer, 1, at' + 1) /\ Goto("returned")
     \/ UNCHANGED buffer /\ Goto("failed")
  /\ UNCHANGED <<print_args, todo, blocks>>

\* The other two return the buffer as it is.
PrintDone ==
  /\ print_pc = "value" /\ todo = << >> /\ call # "print" /\ Goto("returned")
  /\ UNCHANGED <<print_args, todo, buffer, at, blocks>>

PrintFailed ==
  /\ print_pc = "failed" /\ Goto("NULL")
  /\ IF noalloc \/ buffer = NoBuffer THEN UNCHANGED <<buffer, blocks>>
     ELSE buffer' = NoBuffer /\ blocks' = blocks - 1
  /\ UNCHANGED <<print_args, todo, at>>

PrintNext ==
  \/ PrintStart \/ EnsureFits \/ EnsureGrows \/ EnsureNoMemory \/ EnsureFails
  \/ Write \/ Update \/ PrintInvalid \/ PrintShrink \/ PrintDone \/ PrintFailed

PrintSpec == PrintInit /\ [][PrintNext]_print_vars

-----------------------------------------------------------------------------
(* Properties. *)

RECURSIVE IsPrintable(_)
IsPrintable(item) ==
  item.type # "invalid" /\ \A k \in DOMAIN item.items : IsPrintable(item.items[k])

\* The text of an item without a layout.
RECURSIVE Plain(_)
Plain(item) ==
  LET list(text) ==
        FlattenSeq([k \in DOMAIN item.items |->
                      text[k] \o (IF k = Len(item.items) THEN << >> ELSE <<",">>)])
      plain == [k \in DOMAIN item.items |-> Plain(item.items[k])]
  IN CASE item.type = "array" -> <<"[">> \o list(plain) \o <<"]">>
       [] item.type = "object" ->
            <<"{">> \o list([k \in DOMAIN item.items |->
                               item.items[k].string \o <<":">> \o plain[k]]) \o <<"}">>
       [] OTHER -> item.text

TextOf(pieces) ==
  SelectSeq(FlattenSeq([k \in DOMAIN pieces |-> pieces[k].text]), LAMBDA c : c # "nul")
IsLayout(c) == c \in {" ", "tab", "nl"}
Output == SubSeq(buffer, 1, Min({k \in DOMAIN buffer : buffer[k] = "nul"}) - 1)

PrintTypeOK ==
  /\ print_pc \in {"start", "value", "write", "failed", "returned", "NULL"}
  /\ at \in Nat /\ blocks \in 0 .. 1
  /\ buffer # NoBuffer /\ call # "preallocated" => Len(buffer) <= Max({INT_MAX, prebuffer})

\* Nothing is written behind the buffer, and strlen reads only what was
\* written (cJSON.c:459-555): the offset ends up behind the text so far.
PrintsInBounds ==
  /\ print_pc = "write" => at + Len(Head(todo).text) <= Len(buffer)
  /\ print_pc = "value" /\ todo # << >> /\ Head(todo).does = "update" =>
       /\ Behind # {}
       /\ \A k \in at + 1 .. LastOffset : buffer[k] # "?"

\* What is returned is the text of the item, with a zero, and nothing but the
\* layout is added when there is one; a buffer of the caller's is large enough
\* if it has one byte more than the text and its zero, where cJSON.h:146 asks
\* for five to be safe (cJSON.c:1208-1334, 1392-1463, 1564-1623, 1744-1855).
PrintsText ==
  /\ print_pc = "returned" =>
       /\ \E k \in DOMAIN buffer : buffer[k] = "nul"
       /\ Output = TextOf(Pieces(value, 0))
       /\ SelectSeq(Output, LAMBDA c : ~IsLayout(c)) = Plain(value)
       /\ ~format => Output = Plain(value)
  /\ print_pc = "NULL" /\ call = "preallocated" /\ IsPrintable(value) =>
       prebuffer < Len(TextOf(Pieces(value, 0))) + 2

\* A call that fails leaves no block, and none is freed twice; one that returns
\* a text leaves that (cJSON.c:515-517, 1259-1272, 1307-1312).
PrintNothingLeaks ==
  /\ print_pc = "NULL" => blocks = 0
  /\ print_pc = "returned" => blocks = IF noalloc THEN 0 ELSE 1

=============================================================================
