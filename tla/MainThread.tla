----------------------------- MODULE MainThread ------------------------------
(***************************************************************************)
(* What main does with a message, a part of it at a time: its fields are    *)
(* taken, a list of payloads is made of it and sent, a heading gives the    *)
(* nearest group, and a payload or an image becomes a packet.  The parts    *)
(* run one after another and share nothing but what the one before          *)
(* returned, so a behaviour is one part, with any input that the part may   *)
(* be given; the other parts rest.                                          *)
(***************************************************************************)
EXTENDS SdsParser, MessageList, Bearing, TextPacket, ImagePacket

CONSTANT Parts \* the parts that are looked at

ASSUME PartsAssumption == Parts \subseteq {"parse", "messages", "bearing", "text", "image"}

VARIABLE part

\* A part that rests does so with an input that is fixed.
MainInit ==
  /\ part \in Parts
  /\ part # "parse" => msg = CHOOSE m \in Messages : TRUE
  /\ Init
  /\ part # "messages" => list = CHOOSE l \in Received : TRUE
  /\ ListInit
  /\ part # "bearing" => bearing = 0
  /\ BearingInit
  /\ part # "text" => command_type = 0 /\ data_str = CHOOSE p \in Payloads : TRUE
  /\ TextInit
  /\ part # "image" =>
       /\ image_type = CHOOSE t \in Types : TRUE
       /\ image_command = CMD_IMG_BUF_INIT
       /\ place = CHOOSE p \in Places : TRUE
       /\ file = CHOOSE f \in ImageFiles : TRUE
  /\ ImageInit

packet_vars == <<text_vars, image_vars>>

Parse == part = "parse" /\ Next /\ UNCHANGED <<list_vars, bearing_vars, packet_vars>>
Decide == part = "messages" /\ ListNext /\ UNCHANGED <<vars, bearing_vars, packet_vars>>
Search == part = "bearing" /\ BearingNext /\ UNCHANGED <<vars, list_vars, packet_vars>>
MakeText == part = "text" /\ TextNext
            /\ UNCHANGED <<vars, list_vars, bearing_vars, image_vars>>
MakeImage == part = "image" /\ ImageNext
             /\ UNCHANGED <<vars, list_vars, bearing_vars, text_vars>>

main_vars == <<part, vars, list_vars, bearing_vars, packet_vars>>

\* The part is over.
Returned ==
  /\ \/ part = "parse" /\ pc = "end"
     \/ part = "messages" /\ list_pc = "end"
     \/ part = "bearing" /\ bearing_pc = "done"
     \/ part = "text" /\ text_pc \in {"packet", "NULL", "undefined"}
     \/ part = "image" /\ image_pc \in {"packet", "NULL", "undefined"}
  /\ UNCHANGED main_vars

MainNext ==
  \/ (Parse \/ Decide \/ Search \/ MakeText \/ MakeImage) /\ UNCHANGED part
  \/ Returned

MainSpec == MainInit /\ [][MainNext]_main_vars

-----------------------------------------------------------------------------
(* Properties of all parts.                                                 *)

\* The inductive invariants of the parts, which have their types.
MainIInv == IInv /\ ListIInv /\ BearingIInv /\ TextIInv /\ ImageIInv

\* Whatever is malformed, whichever allocation or call fails, and wherever: a part
\* leaves nothing allocated or open but what it returns.
MainNothingLeaks ==
  NothingLeaks /\ ListNothingLeaks /\ TextNothingLeaks /\ ImageNothingLeaks

\* No part reads or writes outside what it was given or has allocated, but the one
\* that makes a packet of an image of 4 GiB; and none frees anything twice, but for
\* what a remote object that does not parse leaves behind.
MainInBounds ==
  /\ NoDangling /\ TwiceOnlyAfterRemote
  /\ FreedInBounds /\ Utf16Fits /\ InBounds /\ OutOnlyWhenHuge

\* A sign finds in a packet what the payload, or the image file, said.
SignReads == SignReadsText /\ SignReadsImage

=============================================================================
