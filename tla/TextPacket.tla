------------------------------ MODULE TextPacket ------------------------------
(***************************************************************************)
(* create_text_control_packet of VMSprotocol.c: a payload in UTF-8 becomes  *)
(* a packet for a sign, by way of a buffer of UTF-16LE, when any call may   *)
(* fail.  iconv converts one character at a time.                           *)
(***************************************************************************)
EXTENDS Bytes

CONSTANTS
  TEXT_CONTROL_STX, TEXT_CONTROL_ETX,
  TextCommands, \* command types
  MaxPayload,   \* bytes of a payload: 1023, the payload_buffer of the controller
  Payloads      \* payloads

\* A byte of a payload: it starts a character of so many bytes, whose UTF-16LE form
\* it stands for; or it starts none (0): it continues one, or is not UTF-8.
Octet == [lead : 0 .. 4, units : Seq(Byte)]

ASSUME TextConstantsAssumption ==
  TEXT_CONTROL_STX \in Byte /\ TEXT_CONTROL_ETX \in Byte /\ TextCommands \subseteq Byte
ASSUME PayloadsAssumption ==
  /\ Payloads \subseteq Seq(Octet)
  /\ \A p \in Payloads :
       /\ Len(p) <= MaxPayload
       /\ \A k \in 1 .. Len(p) : Len(p[k].units) = IF p[k].lead = 4 THEN 4 ELSE 2
ASSUME MaxPayloadAssumption == MaxPayload \in Nat /\ 2 * MaxPayload + 6 < UInt16

VARIABLES
  command_type, data_str, \* the arguments
  text_pc,
  in_bytes_left,
  out_bytes_left,
  data,                   \* data_field_bytes as far as it is written
  text_packet_len,
  text_packet,
  text_live               \* what is allocated or open

text_vars == <<command_type, data_str, text_pc, in_bytes_left, out_bytes_left, data,
               text_packet_len, text_packet, text_live>>
text_args == <<command_type, data_str>>

TextInit ==
  /\ command_type \in TextCommands /\ data_str \in Payloads
  /\ text_pc = "iconv_open"
  /\ in_bytes_left = 0 /\ out_bytes_left = 0 /\ data = << >>
  /\ text_packet_len = 0 /\ text_packet = << >> /\ text_live = {}

\* Ends with NULL; what is left allocated is lost.
Fail(left) ==
  /\ text_pc' = "NULL" /\ text_live' = left
  /\ UNCHANGED <<text_args, in_bytes_left, out_bytes_left, data, text_packet_len, text_packet>>

IconvOpen ==
  /\ text_pc = "iconv_open"
  /\ \/ Fail({})
     \/ /\ text_live' = {"cd"} /\ text_pc' = "malloc utf16"
        /\ UNCHANGED <<text_args, in_bytes_left, out_bytes_left, data, text_packet_len,
                       text_packet>>

\* Mutant: iconv_close is forgotten where malloc fails.
AllocUtf16Keeps ==
  /\ text_pc = "malloc utf16"
  /\ \/ Fail({"cd"})
     \/ /\ in_bytes_left' = Len(data_str) /\ out_bytes_left' = (Len(data_str) + 1) * 2
        /\ text_live' = {"cd", "utf16"} /\ text_pc' = "iconv"
        /\ UNCHANGED <<text_args, data, text_packet_len, text_packet>>

\* Mutant: as many bytes as the payload has.
AllocUtf16Short ==
  /\ text_pc = "malloc utf16"
  /\ \/ Fail({})
     \/ /\ in_bytes_left' = Len(data_str) /\ out_bytes_left' = Len(data_str)
        /\ text_live' = {"cd", "utf16"} /\ text_pc' = "iconv"
        /\ UNCHANGED <<text_args, data, text_packet_len, text_packet>>

AllocUtf16 ==
  /\ text_pc = "malloc utf16"
  /\ \/ Fail({})
     \/ /\ in_bytes_left' = Len(data_str) /\ out_bytes_left' = (Len(data_str) + 1) * 2
        /\ text_live' = {"cd", "utf16"} /\ text_pc' = "iconv"
        /\ UNCHANGED <<text_args, data, text_packet_len, text_packet>>

\* The byte iconv is at, and whether a whole character starts there.
At == Len(data_str) - in_bytes_left + 1
\* Mutant: the bytes that should follow are taken without a look.
IsCharacterUnchecked == data_str[At].lead # 0
IsCharacter ==
  /\ data_str[At].lead \in 1 .. in_bytes_left
  /\ \A k \in At + 1 .. At + data_str[At].lead - 1 : data_str[k].lead = 0
Fits == Len(data_str[At].units) <= out_bytes_left

IconvCharacter ==
  /\ text_pc = "iconv" /\ in_bytes_left > 0
  /\ IsCharacter /\ Fits
  /\ in_bytes_left' = in_bytes_left - data_str[At].lead
  /\ out_bytes_left' = out_bytes_left - Len(data_str[At].units)
  /\ data' = data \o data_str[At].units
  /\ UNCHANGED <<text_args, text_pc, text_packet_len, text_packet, text_live>>

\* EILSEQ, EINVAL: no character, or one cut short; E2BIG.
IconvFails ==
  /\ text_pc = "iconv" /\ in_bytes_left > 0
  /\ ~IsCharacter \/ ~Fits
  /\ Fail({})

\* Mutant: checksum and ETX are left out of the length.
IconvDoneShort ==
  /\ text_pc = "iconv" /\ in_bytes_left = 0
  /\ text_packet_len' = (1 + 1 + 2 + Len(data)) % UInt16
  /\ text_live' = {"utf16"} /\ text_pc' = "malloc packet"
  /\ UNCHANGED <<text_args, in_bytes_left, out_bytes_left, data, text_packet>>

IconvDone ==
  /\ text_pc = "iconv" /\ in_bytes_left = 0
  /\ text_packet_len' = (1 + 1 + 2 + Len(data) + 1 + 1) % UInt16
  /\ text_live' = {"utf16"} /\ text_pc' = "malloc packet"
  /\ UNCHANGED <<text_args, in_bytes_left, out_bytes_left, data, text_packet>>

AllocPacket ==
  /\ text_pc = "malloc packet"
  /\ \/ Fail({})
     \/ /\ text_live' = {"utf16", "packet"} /\ text_pc' = "fill"
        /\ UNCHANGED <<text_args, in_bytes_left, out_bytes_left, data, text_packet_len,
                       text_packet>>

\* STX, type, length and data; a checksum of the uint16_t number of bytes asked for.
Head4 == <<TEXT_CONTROL_STX, command_type>> \o pack_uint16_le(Len(data) % UInt16)
Summed == SubSeq(Head4 \o data, 1, (1 + 1 + 2 + Len(data)) % UInt16)
\* Mutant: the checksum leaves the STX out.
FilledNoStx == Head4 \o data \o <<Checksum(Tail(Summed)), TEXT_CONTROL_ETX>>
Filled == Head4 \o data \o <<Checksum(Summed), TEXT_CONTROL_ETX>>

\* Writing past what was allocated is undefined behaviour.
FillPacket ==
  /\ text_pc = "fill"
  /\ IF 1 + 1 + 2 + Len(data) + 1 + 1 <= text_packet_len
       THEN text_packet' = Filled /\ text_pc' = "packet" /\ text_live' = {"packet"}
       ELSE text_pc' = "undefined" /\ UNCHANGED <<text_packet, text_live>>
  /\ UNCHANGED <<text_args, in_bytes_left, out_bytes_left, data, text_packet_len>>

TextNext ==
  \/ IconvOpen \/ AllocUtf16 \/ IconvCharacter \/ IconvFails \/ IconvDone
  \/ AllocPacket \/ FillPacket

TextSpec == TextInit /\ [][TextNext]_text_vars

-----------------------------------------------------------------------------
(* Properties.                                                              *)

\* Types.
TextTypeOK ==
  /\ command_type \in TextCommands /\ data_str \in Payloads
  /\ text_pc \in {"iconv_open", "malloc utf16", "iconv", "malloc packet", "fill", "packet", "NULL",
                  "undefined"}
  /\ in_bytes_left \in 0 .. Len(data_str) /\ out_bytes_left \in Nat
  /\ data \in Seq(Byte)
  /\ text_packet_len \in 0 .. UInt16 - 1
  /\ text_live \subseteq {"cd", "utf16", "packet"}

\* "(입력길이 * 2)", twice the length of the payload, is room for every payload: iconv
\* never fails for want of it.
Utf16Fits == text_pc = "iconv" /\ in_bytes_left > 0 => (IsCharacter => Fits)

\* The lengths of a packet, uint16_t all of them, are never exceeded by a payload
\* that fits the controller's buffer: nothing is written past the packet.
InBounds == text_pc # "undefined"

\* NULL leaves nothing allocated; a packet leaves itself.
TextNothingLeaks ==
  /\ text_pc = "NULL" => text_live = {}
  /\ text_pc = "packet" => text_live = {"packet"}

\* The payload as the sign should get it: the characters in UTF-16LE, those that start
\* among the first k bytes of it and all of them.
UnitsUpTo(p) ==
  LET units[k \in 0 .. Len(p)] ==
        IF k = 0 THEN << >>
        ELSE IF p[k].lead # 0 THEN units[k - 1] \o p[k].units ELSE units[k - 1]
  IN  units
Text == UnitsUpTo(data_str)[Len(data_str)]

\* The sign finds in a packet what the controller put in it: the type, the text and
\* nothing after it, a length and a checksum that agree with them.
SignReadsText ==
  text_pc = "packet" =>
    LET n == UInt16At(text_packet, 3)
    IN  /\ Len(text_packet) = n + 6 /\ text_packet_len = Len(text_packet)
        /\ text_packet[1] = TEXT_CONTROL_STX /\ text_packet[2] = command_type
        /\ SubSeq(text_packet, 5, 4 + n) = Text
        /\ text_packet[5 + n] = Checksum(SubSeq(text_packet, 1, 4 + n))
        /\ text_packet[6 + n] = TEXT_CONTROL_ETX

-----------------------------------------------------------------------------
(* The invariant behind them, in parts.                                     *)

\* What is left of the buffer is twice what is left of the payload and more, and
\* what is written is what was taken from it.
Room ==
  /\ text_pc \in {"iconv", "malloc packet", "fill"} =>
       Len(data) + out_bytes_left = 2 * Len(data_str) + 2
  /\ text_pc = "iconv" => out_bytes_left >= 2 * in_bytes_left + 2
  /\ text_pc \in {"iconv_open", "malloc utf16"} => data = << >>

\* What is converted is what the characters that were taken stand for.
Converted ==
  text_pc \in {"iconv", "malloc packet", "fill"} =>
    data = UnitsUpTo(data_str)[Len(data_str) - in_bytes_left]

\* All was taken, and the packet is as long as its parts.
Sized ==
  text_pc \in {"malloc packet", "fill"} =>
    in_bytes_left = 0 /\ text_packet_len = Len(data) + 6

\* What is allocated at each step.
Held ==
  text_live = CASE text_pc \in {"iconv_open", "NULL"} -> {}
                [] text_pc = "malloc utf16" -> {"cd"}
                [] text_pc = "iconv" -> {"cd", "utf16"}
                [] text_pc = "malloc packet" -> {"utf16"}
                [] text_pc = "fill" -> {"utf16", "packet"}
                [] OTHER -> {"packet"}

\* The inductive invariant.
TextIInv == TextTypeOK /\ Room /\ Converted /\ Sized /\ Held /\ InBounds /\ SignReadsText

=============================================================================
