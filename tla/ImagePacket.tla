----------------------------- MODULE ImagePacket -----------------------------
(***************************************************************************)
(* create_image_packet and create_image_buffer_init_packet of VMSprotocol.c: *)
(* a file becomes a packet, when any call may fail and the file may shrink   *)
(* while it is read.                                                         *)
(***************************************************************************)
EXTENDS Bytes

CONSTANTS
  IMAGE_START_BYTE, CMD_IMG_BUF_INIT, CMD_IMG_DATA_TX,
  Types,         \* image types
  ImageCommands, \* what create_image_packet may be asked for
  Places,        \* sx, sy, width, height: int16_t
  ImageFiles     \* the image files, as sequences of bytes

ASSUME ImageConstantsAssumption ==
  /\ {IMAGE_START_BYTE, CMD_IMG_BUF_INIT, CMD_IMG_DATA_TX} \subseteq Byte
  /\ Types \subseteq Byte /\ ImageCommands \subseteq Byte
  /\ Places \subseteq [1 .. 4 -> {n \in -UInt16 .. UInt16 : -UInt16 <= 2 * n /\ 2 * n < UInt16}]
  /\ ImageFiles \subseteq Seq(Byte)
ASSUME FrameAssumption == 1 + 1 + 4 + 12 + 1 < UInt32 \* what goes with the file

VARIABLES
  image_type, image_command, place, file, \* the arguments, and the file
  image_pc,
  image_file_data_len,                    \* a long
  image_packet_len,
  image_packet,
  image_live                              \* what is allocated or open

image_vars == <<image_type, image_command, place, file, image_pc, image_file_data_len,
                image_packet_len, image_packet, image_live>>
image_args == <<image_type, image_command, place>>

ImageInit ==
  /\ image_type \in Types /\ image_command \in ImageCommands \cup {CMD_IMG_BUF_INIT}
  /\ place \in Places /\ file \in ImageFiles
  /\ image_pc = "call"
  /\ image_file_data_len = 0 /\ image_packet_len = 0 /\ image_packet = << >> /\ image_live = {}

To(next, blocks) ==
  /\ image_pc' = next /\ image_live' = blocks
  /\ UNCHANGED image_args

IsInit == image_command = CMD_IMG_BUF_INIT

\* create_image_packet: no other command, and no file that is empty.
Open ==
  /\ image_pc = "call" /\ ~IsInit
  /\ \/ To("NULL", {})
     \/ image_command = CMD_IMG_DATA_TX /\ To("ftell", {"file"})
  /\ UNCHANGED <<file, image_file_data_len, image_packet_len, image_packet>>

FileShrinks ==
  /\ image_pc \in {"ftell", "fread"}
  /\ file # << >> /\ file' = Front(file)
  /\ UNCHANGED <<image_args, image_pc, image_file_data_len, image_packet_len, image_packet,
                 image_live>>

\* Mutant: an empty file is taken for an image.
MeasureEmpty ==
  /\ image_pc = "ftell"
  /\ image_file_data_len' = Len(file)
  /\ \/ To("NULL", {})
     \/ To("fread", {"file", "image_file_data"})
  /\ UNCHANGED <<file, image_packet_len, image_packet>>

\* Mutant: the file stays open where there is no memory for it.
MeasureKeeps ==
  /\ image_pc = "ftell"
  /\ image_file_data_len' = Len(file)
  /\ \/ To("NULL", {"file"})
     \/ file # << >> /\ To("fread", {"file", "image_file_data"})
  /\ UNCHANGED <<file, image_packet_len, image_packet>>

\* The length of the file, and memory for it.
Measure ==
  /\ image_pc = "ftell"
  /\ image_file_data_len' = Len(file)
  /\ \/ To("NULL", {})
     \/ file # << >> /\ To("fread", {"file", "image_file_data"})
  /\ UNCHANGED <<file, image_packet_len, image_packet>>

Read ==
  /\ image_pc = "fread"
  /\ \/ To("NULL", {})
     \/ Len(file) = image_file_data_len /\ To("malloc packet", {"image_file_data"})
  /\ UNCHANGED <<file, image_file_data_len, image_packet_len, image_packet>>

\* The header is of 12 bytes; the lengths are uint32_t, that of the file is not.
DataLen == (12 + image_file_data_len) % UInt32
\* Mutant: the checksum is left out of the length.
TotalNoChecksum == (1 + 1 + 4 + DataLen) % UInt32
Total == (1 + 1 + 4 + DataLen + 1) % UInt32

AllocImagePacket ==
  /\ image_pc = "malloc packet"
  /\ image_packet_len' = Total
  /\ To("NULL", {}) \/ To("fill", {"image_file_data", "packet"})
  /\ UNCHANGED <<file, image_file_data_len, image_packet>>

ImageHeader ==
  <<image_type, 0, 0, 0>> \o pack_uint16_le(place[1]) \o pack_uint16_le(place[2])
  \o pack_uint16_le(place[3]) \o pack_uint16_le(place[4])

\* Mutant: the checksum starts at the start byte.
FramedFromStart(command, length, bytes) ==
  LET summed == <<IMAGE_START_BYTE, command>> \o pack_uint32_le(length) \o bytes
  IN  summed \o <<Checksum(summed)>>

\* The start byte, what is summed, and the sum.
Framed(command, length, bytes) ==
  LET summed == <<command>> \o pack_uint32_le(length) \o bytes
  IN  <<IMAGE_START_BYTE>> \o summed \o <<Checksum(summed)>>

\* Writing past what was allocated is undefined behaviour.
FillImagePacket ==
  /\ image_pc = "fill"
  /\ IF 1 + 1 + 4 + 12 + image_file_data_len + 1 <= image_packet_len
       THEN /\ image_packet' = Framed(image_command, DataLen, ImageHeader \o file)
            /\ To("packet", {"packet"})
       ELSE UNCHANGED image_packet /\ To("undefined", image_live)
  /\ UNCHANGED <<file, image_file_data_len, image_packet_len>>

\* create_image_buffer_init_packet.
BufferInitPacket ==
  /\ image_pc = "call" /\ IsInit
  /\ image_packet_len' = 1 + 1 + 4 + 0 + 1
  /\ \/ To("NULL", {}) /\ UNCHANGED image_packet
     \/ image_packet' = Framed(CMD_IMG_BUF_INIT, 0, << >>) /\ To("packet", {"packet"})
  /\ UNCHANGED <<file, image_file_data_len>>

ImageNext ==
  \/ Open \/ FileShrinks \/ Measure \/ Read
  \/ AllocImagePacket \/ FillImagePacket \/ BufferInitPacket

ImageSpec == ImageInit /\ [][ImageNext]_image_vars

-----------------------------------------------------------------------------
(* Properties.                                                              *)

\* Types; an image is never empty once it was measured.
ImageTypeOK ==
  /\ image_type \in Types /\ image_command \in Byte /\ place \in Places
  /\ file \in Seq(Byte)
  /\ image_pc \in {"call", "ftell", "fread", "malloc packet", "fill", "packet", "NULL", "undefined"}
  /\ image_file_data_len \in Nat
  /\ image_pc \in {"fread", "malloc packet", "fill"} => image_file_data_len # 0
  /\ image_packet_len \in 0 .. UInt32 - 1
  /\ image_live \subseteq {"file", "image_file_data", "packet"}

\* The sign finds in a packet what was asked for: the command, a length that is that of
\* what follows up to the checksum, the place and the size with their signs, the file
\* as it was measured, and the checksum of all but the start byte.
SignReadsImage ==
  image_pc = "packet" =>
    LET n == UInt32At(image_packet, 3)
        At(k) == Int16At(image_packet, k)
    IN  /\ Len(image_packet) = n + 7 /\ image_packet_len = Len(image_packet)
        /\ image_packet[1] = IMAGE_START_BYTE /\ image_packet[2] = image_command
        /\ image_packet[n + 7] = Checksum(SubSeq(image_packet, 2, n + 6))
        /\ IF IsInit THEN n = 0
           ELSE /\ image_packet[7] = image_type
                /\ <<At(11), At(13), At(15), At(17)>> = place
                /\ SubSeq(image_packet, 19, n + 6) = file /\ Len(file) = image_file_data_len

\* NULL leaves nothing allocated and no file open; a packet leaves itself.
ImageNothingLeaks ==
  /\ image_pc = "NULL" => image_live = {}
  /\ image_pc = "packet" => image_live = {"packet"}

\* Only a file whose packet is as long as a uint32_t has values is written past the
\* memory for it: 4 GiB, less the frame and the header.
OutOnlyWhenHuge ==
  /\ image_pc = "undefined" => image_file_data_len + 19 >= UInt32
  /\ image_pc = "packet" /\ ~IsInit => image_file_data_len + 19 < UInt32

-----------------------------------------------------------------------------
(* The invariant behind them, in parts.                                     *)

\* What was measured is what was read, and the packet is as long as its parts, in a
\* uint32_t.
ImageSized ==
  /\ image_pc \in {"ftell", "fread", "malloc packet", "fill"} => ~IsInit
  /\ image_pc \in {"malloc packet", "fill"} => Len(file) = image_file_data_len
  /\ image_pc = "fill" => image_packet_len = Total

\* What is allocated or open at each step.
ImageHeld ==
  image_live = CASE image_pc \in {"call", "NULL"} -> {}
                 [] image_pc = "ftell" -> {"file"}
                 [] image_pc = "fread" -> {"file", "image_file_data"}
                 [] image_pc = "malloc packet" -> {"image_file_data"}
                 [] image_pc \in {"fill", "undefined"} -> {"image_file_data", "packet"}
                 [] OTHER -> {"packet"}

\* The inductive invariant.
ImageIInv ==
  ImageTypeOK /\ ImageSized /\ ImageHeld /\ OutOnlyWhenHuge /\ SignReadsImage

=============================================================================
