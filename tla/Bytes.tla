-------------------------------- MODULE Bytes --------------------------------
(* Bytes, little-endian fields and checksums, as VMSprotocol.c packs them.   *)
EXTENDS Integers, SequencesExt, FiniteSetsExt

CONSTANT Radix \* values of a byte: 256

ASSUME RadixAssumption == Radix \in Nat \ {0}

Byte == 0 .. Radix - 1
UInt16 == Radix * Radix
UInt32 == UInt16 * UInt16

\* The low byte first; pack_int16_le packs a negative number as its two's complement.
pack_uint16_le(n) == <<n % Radix, (n \div Radix) % Radix>>
pack_uint32_le(n) == pack_uint16_le(n) \o pack_uint16_le(n \div UInt16)

\* The sum of all bytes in a uint8_t: each value as often as it occurs.
Times(bytes, byte) == Cardinality({k \in DOMAIN bytes : bytes[k] = byte})
Checksum(bytes) ==
  MapThenSumSet(LAMBDA byte : byte * Times(bytes, byte), Byte) % Radix

\* What a receiver reads from a little-endian field, without and with a sign.
UInt16At(bytes, k) == bytes[k] + Radix * bytes[k + 1]
UInt32At(bytes, k) == UInt16At(bytes, k) + UInt16 * UInt16At(bytes, k + 2)
Int16At(bytes, k) ==
  LET n == UInt16At(bytes, k) IN IF 2 * n < UInt16 THEN n ELSE n - UInt16

=============================================================================
