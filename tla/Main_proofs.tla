----------------------------- MODULE Main_proofs -----------------------------
(* Proofs about TextPacket and ImagePacket: for every payload and image, every *)
(* size of a byte, every call that fails and every file that shrinks; about    *)
(* SdsParser, for every message and every allocation that fails; and about     *)
(* MainThread: what the proofs about its parts show holds for whichever part   *)
(* runs, for it runs alone.                                                    *)
EXTENDS MainThread, Decision_proofs, Recursion_proofs

-----------------------------------------------------------------------------
(* Numbers and bytes.                                                       *)

\* Sizes are positive numbers.
LEMMA Sizes == /\ Radix \in Nat \ {0} /\ UInt16 \in Nat \ {0} /\ UInt32 \in Nat \ {0}
               /\ UInt16 = Radix * Radix
<1>1. \A k, l \in Nat \ {0} : k * l \in Nat \ {0}
  OBVIOUS
<1>2. Radix \in Nat \ {0}
  BY RadixAssumption
<1>3. UInt16 \in Nat \ {0}
  BY <1>1, <1>2 DEF UInt16
<1>4. UInt32 \in Nat \ {0}
  BY <1>1, <1>3 DEF UInt32
<1>5. QED
  BY <1>2, <1>3, <1>4 DEF UInt16

\* A number that fits a uint16_t is not changed by it.
LEMMA Fits16 ==
  ASSUME NEW v \in Nat, v < UInt16
  PROVE  v % UInt16 = v
BY Sizes

LEMMA Fits32 ==
  ASSUME NEW v \in Nat, v < UInt32
  PROVE  v % UInt32 = v
BY Sizes

\* Quotient and remainder.
LEMMA Division ==
  ASSUME NEW v \in Int, NEW d \in Int, d > 0
  PROVE  v \div d \in Int /\ v % d \in 0 .. d - 1 /\ v = d * (v \div d) + (v % d)
<1>1. v \div d \in Int
  OBVIOUS
<1>2. v % d \in 0 .. d - 1
  OBVIOUS
<1>3. v = d * (v \div d) + (v % d)
  OBVIOUS
<1>4. QED
  BY <1>1, <1>2, <1>3

\* There is one quotient and one remainder.
LEMMA OneDivision ==
  ASSUME NEW d \in Int, d > 0, NEW q \in Int, NEW r \in 0 .. d - 1,
         NEW p \in Int, NEW t \in 0 .. d - 1, d * q + r = d * p + t
  PROVE  q = p /\ r = t
<1>1. ASSUME NEW a \in Int, NEW b \in Int, a < b
      PROVE  d * a + d <= d * b
  <2>1. d * (b - a) >= d
    BY <1>1
  <2>2. d * (b - a) = d * b - d * a
    OBVIOUS
  <2>3. d * a \in Int /\ d * b \in Int
    OBVIOUS
  <2>4. QED
    BY <2>1, <2>2, <2>3
<1>2. d * q \in Int /\ d * p \in Int
  OBVIOUS
<1>3. ~(q < p)
  BY <1>1, <1>2
<1>4. ~(p < q)
  BY <1>1, <1>2
<1>5. QED
  BY <1>2, <1>3, <1>4

\* What is packed is bytes.
LEMMA Packed ==
  ASSUME NEW v \in Int
  PROVE  v % Radix \in Byte /\ (v \div Radix) % Radix \in Byte /\ v \div UInt16 \in Int
<1>1. Radix \in Int /\ Radix > 0 /\ UInt16 \in Int /\ UInt16 > 0
  BY Sizes
<1>2. v \div Radix \in Int
  BY <1>1, Division
<1>3. QED
  BY <1>1, <1>2, Division DEF Byte

\* A receiver reads the number that was packed, modulo the size of the field.
LEMMA Read16 ==
  ASSUME NEW v \in Int
  PROVE  (v % Radix) + Radix * ((v \div Radix) % Radix) = v % UInt16
<1> DEFINE q == v \div Radix
           r == v % Radix
           p == q \div Radix
           t == q % Radix
           h == v \div UInt16
           l == v % UInt16
<1>1. Radix \in Int /\ Radix > 0 /\ UInt16 \in Int /\ UInt16 > 0 /\ UInt16 = Radix * Radix
  BY Sizes
<1>2. q \in Int /\ r \in 0 .. Radix - 1 /\ v = Radix * q + r
  BY <1>1, Division
<1>3. p \in Int /\ t \in 0 .. Radix - 1 /\ q = Radix * p + t
  BY <1>1, <1>2, Division
<1>4. h \in Int /\ l \in 0 .. UInt16 - 1 /\ v = UInt16 * h + l
  BY <1>1, Division
<1> HIDE DEF q, r, p, t, h, l
<1>5. v = UInt16 * p + (Radix * t + r)
  <2>1. Radix * (Radix * p + t) = (Radix * Radix) * p + Radix * t
    BY <1>1, <1>3
  <2>2. Radix * t \in Int /\ UInt16 * p \in Int
    BY <1>1, <1>3
  <2>3. QED
    BY <1>1, <1>2, <1>3, <2>1, <2>2
<1>6. Radix * t + r \in 0 .. UInt16 - 1
  <2>1. Radix * t \in Nat
    BY <1>1, <1>3
  <2>2. Radix * t <= Radix * (Radix - 1)
    BY <1>1, <1>3
  <2>3. Radix * (Radix - 1) = UInt16 - Radix
    BY <1>1
  <2>4. QED
    BY <1>1, <1>2, <2>1, <2>2, <2>3
<1>7. l = Radix * t + r
  <2>1. UInt16 * h + l = UInt16 * p + (Radix * t + r)
    BY <1>4, <1>5
  <2>2. UInt16 \in Int /\ UInt16 > 0
    BY <1>1
  <2>3. \A x \in 0 .. UInt16 - 1 : UInt16 * h + l = UInt16 * p + x => l = x
    BY <1>3, <1>4, <2>2, OneDivision
  <2>4. QED
    BY <1>6, <2>1, <2>3
<1>8. Radix * t \in Int
  BY <1>1, <1>3
<1>9. QED
  BY <1>2, <1>7, <1>8 DEF l, r, t, q

LEMMA Read32 ==
  ASSUME NEW v \in 0 .. UInt32 - 1
  PROVE  ((v % Radix) + Radix * ((v \div Radix) % Radix))
         + UInt16 * (((v \div UInt16) % Radix) + Radix * (((v \div UInt16) \div Radix) % Radix))
         = v
<1> DEFINE h == v \div UInt16
           l == v % UInt16
<1>1. UInt16 \in Int /\ UInt16 > 0 /\ UInt32 = UInt16 * UInt16 /\ UInt32 \in Int
  BY Sizes DEF UInt32
<1>2. v \in Int /\ 0 <= v /\ v < UInt32
  BY <1>1
<1>3. h \in Int /\ l \in 0 .. UInt16 - 1 /\ v = UInt16 * h + l
  BY <1>1, <1>2, Division
<1> HIDE DEF h, l
<1>4. UInt16 * h \in Int /\ l \in Int /\ 0 <= l /\ l < UInt16
  BY <1>1, <1>3
<1>5. h >= 0
  <2>1. h < 0 => UInt16 * h <= -UInt16
    BY <1>1, <1>3
  <2>2. QED
    BY <1>1, <1>2, <1>3, <1>4, <2>1
<1>6. h < UInt16
  <2>1. h >= UInt16 => UInt16 * h >= UInt16 * UInt16
    BY <1>1, <1>3
  <2>2. QED
    BY <1>1, <1>2, <1>3, <1>4, <2>1
<1>7. h % UInt16 = h
  BY <1>3, <1>5, <1>6, Fits16
<1>8. (v % Radix) + Radix * ((v \div Radix) % Radix) = l
  BY <1>2, Read16 DEF l
<1>9. (h % Radix) + Radix * ((h \div Radix) % Radix) = h
  BY <1>3, <1>7, Read16
<1>10. l + UInt16 * h = v
  BY <1>3, <1>4
<1>11. QED
  BY <1>8, <1>9, <1>10 DEF h

\* A number with a sign is read with its sign.
LEMMA ReadSigned ==
  ASSUME NEW v \in Int, -UInt16 <= 2 * v, 2 * v < UInt16
  PROVE  v = IF 2 * (v % UInt16) < UInt16 THEN v % UInt16 ELSE (v % UInt16) - UInt16
<1> DEFINE h == v \div UInt16
           l == v % UInt16
<1>1. UInt16 \in Int /\ UInt16 > 0
  BY Sizes
<1>2. h \in Int /\ l \in 0 .. UInt16 - 1 /\ v = UInt16 * h + l
  BY <1>1, Division
<1> HIDE DEF h, l
<1>3. \A q \in Int : \A x \in 0 .. UInt16 - 1 : UInt16 * h + l = UInt16 * q + x => l = x
  BY <1>1, <1>2, OneDivision
<1>4. CASE v >= 0
  <2>1. v \in 0 .. UInt16 - 1 /\ v = UInt16 * 0 + v
    BY <1>1, <1>4
  <2>2. l = v
    BY <1>2, <1>3, <2>1
  <2>3. QED
    BY <2>2 DEF l
<1>5. CASE v < 0
  <2>1. v + UInt16 \in 0 .. UInt16 - 1 /\ v = UInt16 * (-1) + (v + UInt16) /\ -1 \in Int
    BY <1>1, <1>5
  <2>2. l = v + UInt16
    BY <1>2, <1>3, <2>1
  <2>3. ~(2 * l < UInt16) /\ l - UInt16 = v
    BY <1>1, <2>2
  <2>4. QED
    BY <2>3 DEF l
<1>6. QED
  BY <1>4, <1>5

\* A sequence that stands in another from some place on.
LEMMA Within ==
  ASSUME NEW S, NEW s \in Seq(S), NEW t \in Seq(S), NEW k \in Nat, NEW e \in Nat,
         e = k + Len(t), e <= Len(s), \A x \in 1 .. Len(t) : s[k + x] = t[x]
  PROVE  SubSeq(s, k + 1, e) = t
<1> DEFINE u == SubSeq(s, k + 1, e)
<1>1. Len(t) \in Nat /\ Len(s) \in Nat
  OBVIOUS
<1>2. u \in Seq(S) /\ Len(u) = Len(t)
  BY <1>1
<1>3. \A x \in 1 .. Len(t) : u[x] = s[k + x]
  BY <1>1
<1> HIDE DEF u
<1>4. \A x \in 1 .. Len(t) : u[x] = t[x]
  BY <1>3
<1>5. u = t
  BY <1>2, <1>4, SeqEqual
<1>6. QED
  BY <1>5 DEF u

-----------------------------------------------------------------------------
(* TextPacket: payloads.                                                    *)

\* A payload, its bytes and the units they stand for.
LEMMA PayloadType ==
  ASSUME data_str \in Payloads
  PROVE  /\ data_str \in Seq(Octet) /\ Len(data_str) \in Nat /\ Len(data_str) <= MaxPayload
         /\ \A k \in 1 .. Len(data_str) :
              /\ data_str[k].lead \in 0 .. 4
              /\ data_str[k].units \in Seq(Byte)
              /\ Len(data_str[k].units) = IF data_str[k].lead = 4 THEN 4 ELSE 2
<1>1. /\ data_str \in Seq(Octet) /\ Len(data_str) \in Nat /\ Len(data_str) <= MaxPayload
      /\ \A k \in 1 .. Len(data_str) :
           Len(data_str[k].units) = IF data_str[k].lead = 4 THEN 4 ELSE 2
  BY PayloadsAssumption
<1>2. \A k \in 1 .. Len(data_str) : data_str[k] \in Octet
  BY <1>1
<1>3. QED
  BY <1>1, <1>2 DEF Octet

\* Two sequences of bytes, one after the other.
LEMMA Joined ==
  ASSUME NEW s \in Seq(Byte), NEW t \in Seq(Byte)
  PROVE  s \o t \in Seq(Byte) /\ Len(s \o t) = Len(s) + Len(t)
OBVIOUS

-----------------------------------------------------------------------------
(* TextPacket: the characters of a payload.                                 *)

\* One byte more.
NextUnits(before, o) == IF o.lead # 0 THEN before \o o.units ELSE before

\* Units of the first v bytes.
IsUnits(f, p, v) ==
  f = [k \in 0 .. v |-> IF k = 0 THEN << >> ELSE NextUnits(f[k - 1], p[k])]

\* The recursion of UnitsUpTo has a solution: the first length for which it had none
\* would follow one for which it has.
LEMMA UnitsExist ==
  ASSUME NEW p, NEW m \in Nat
  PROVE  \E f : IsUnits(f, p, m)
<1> DEFINE I == {v \in Nat : ~\E f : IsUnits(f, p, v)}
<1>1. SUFFICES I = {}
  OBVIOUS
<1>2. SUFFICES ASSUME I # {} PROVE FALSE
  OBVIOUS
<1>3. PICK v \in I : \A y \in I : v <= y
  BY <1>2, Smallest
<1>4. CASE v = 0
  <2> DEFINE f == [k \in 0 .. 0 |-> << >>]
  <2>1. IsUnits(f, p, 0)
    BY DEF IsUnits
  <2>2. QED
    BY <1>3, <1>4, <2>1
<1>5. CASE v # 0
  <2>1. v \in Nat /\ v - 1 \in Nat /\ ~(v <= v - 1)
    BY <1>3, <1>5
  <2>2. PICK f : IsUnits(f, p, v - 1)
    BY <1>3, <2>1
  <2> DEFINE g == [k \in 0 .. v |-> IF k = v THEN NextUnits(f[v - 1], p[v]) ELSE f[k]]
             h == [k \in 0 .. v |-> IF k = 0 THEN << >> ELSE NextUnits(g[k - 1], p[k])]
  <2>3. ASSUME NEW k \in 0 .. v
        PROVE  g[k] = h[k]
    <3>1. CASE k = v
      <4>1. k # 0 /\ k - 1 \in 0 .. v /\ k - 1 # v /\ k - 1 = v - 1
        BY <1>5, <2>1, <3>1
      <4>2. g[k - 1] = f[v - 1]
        BY <4>1
      <4>3. QED
        BY <3>1, <4>1, <4>2
    <3>2. CASE k # v
      <4>1. k \in 0 .. v - 1 /\ (k # 0 => k - 1 \in 0 .. v /\ k - 1 # v)
        BY <2>1, <3>2
      <4>2. f[k] = IF k = 0 THEN << >> ELSE NextUnits(f[k - 1], p[k])
        BY <2>2, <4>1 DEF IsUnits
      <4>3. k # 0 => g[k - 1] = f[k - 1]
        BY <4>1
      <4>4. g[k] = f[k]
        BY <3>2
      <4>5. QED
        BY <4>2, <4>3, <4>4
    <3>3. QED
      BY <3>1, <3>2
  <2>4. g = h
    BY <2>3
  <2>5. IsUnits(g, p, v)
    BY <2>4 DEF IsUnits
  <2>6. QED
    BY <1>3, <2>5
<1>6. QED
  BY <1>4, <1>5

\* Byte after byte.
LEMMA UnitsOf ==
  ASSUME NEW p, Len(p) \in Nat
  PROVE  /\ UnitsUpTo(p)[0] = << >>
         /\ \A k \in 1 .. Len(p) : UnitsUpTo(p)[k] = NextUnits(UnitsUpTo(p)[k - 1], p[k])
<1> DEFINE R(f) == IsUnits(f, p, Len(p))
<1>1. UnitsUpTo(p) = CHOOSE f : R(f)
  BY DEF UnitsUpTo, IsUnits, NextUnits
<1>2. \E f : R(f)
  BY UnitsExist
<1>3. R(UnitsUpTo(p))
  <2> HIDE DEF R
  <2>1. QED
    BY <1>1, <1>2
<1> DEFINE u == UnitsUpTo(p)
<1>4. u = [k \in 0 .. Len(p) |-> IF k = 0 THEN << >> ELSE NextUnits(u[k - 1], p[k])]
  BY <1>3 DEF IsUnits
<1> HIDE DEF u
<1>5. 0 \in 0 .. Len(p) /\ \A k \in 1 .. Len(p) : k \in 0 .. Len(p) /\ k # 0
  OBVIOUS
<1>6. u[0] = << >>
  BY <1>4, <1>5
<1>7. \A k \in 1 .. Len(p) : u[k] = NextUnits(u[k - 1], p[k])
  BY <1>4, <1>5
<1>8. QED
  BY <1>6, <1>7 DEF u

\* A character and the bytes that continue it add the units of the character.
LEMMA OneCharacter ==
  ASSUME NEW p, Len(p) \in Nat, NEW i \in 0 .. Len(p) - 1, NEW m \in 1 .. 4, i + m <= Len(p),
         p[i + 1].lead # 0, \A k \in i + 2 .. i + m : p[k].lead = 0
  PROVE  UnitsUpTo(p)[i + m] = UnitsUpTo(p)[i] \o p[i + 1].units
<1> DEFINE u == UnitsUpTo(p)
<1>1. \A k \in 1 .. Len(p) : u[k] = NextUnits(u[k - 1], p[k])
  BY UnitsOf
<1> HIDE DEF u
<1>2. u[i + 1] = u[i] \o p[i + 1].units
  <2>1. i + 1 \in 1 .. Len(p) /\ (i + 1) - 1 = i
    OBVIOUS
  <2>2. QED
    BY <1>1, <2>1 DEF NextUnits
<1>3. ASSUME NEW k \in i + 2 .. i + m
      PROVE  u[k] = u[k - 1]
  <2>1. k \in 1 .. Len(p)
    OBVIOUS
  <2>2. QED
    BY <1>1, <2>1 DEF NextUnits
<1>4. m >= 2 => u[i + 2] = u[i + 1]
  <2>1. m >= 2 => i + 2 \in i + 2 .. i + m /\ (i + 2) - 1 = i + 1
    OBVIOUS
  <2>2. QED
    BY <1>3, <2>1
<1>5. m >= 3 => u[i + 3] = u[i + 2]
  <2>1. m >= 3 => i + 3 \in i + 2 .. i + m /\ (i + 3) - 1 = i + 2
    OBVIOUS
  <2>2. QED
    BY <1>3, <2>1
<1>6. m >= 4 => u[i + 4] = u[i + 3]
  <2>1. m >= 4 => i + 4 \in i + 2 .. i + m /\ (i + 4) - 1 = i + 3
    OBVIOUS
  <2>2. QED
    BY <1>3, <2>1
<1>7. m = 1 \/ m = 2 \/ m = 3 \/ m = 4
  OBVIOUS
<1>8. u[i + m] = u[i + 1]
  BY <1>4, <1>5, <1>6, <1>7
<1>9. QED
  BY <1>2, <1>8 DEF u

-----------------------------------------------------------------------------
(* TextPacket: the invariant.                                               *)

LEMMA TextStarts == TextInit => TextIInv
<1> SUFFICES ASSUME TextInit PROVE TextIInv
  OBVIOUS
<1>a. data_str \in Payloads
  BY DEF TextInit
<1>b. Len(data_str) \in Nat
  BY <1>a, PayloadType
<1>c. 0 \in 0 .. UInt16 - 1
  BY Sizes
<1>1. Len(data_str) \in Nat /\ 0 \in 0 .. UInt16 - 1
  BY <1>b, <1>c
<1>2. << >> \in Seq(Byte)
  OBVIOUS
<1>3. QED
  BY <1>1, <1>2 DEF TextInit, TextIInv, TextTypeOK, Room, Converted, Sized, Held, InBounds, SignReadsText

\* A failure leaves the invariant, when it leaves nothing allocated.
LEMMA TextFails ==
  ASSUME TextIInv, Fail({})
  PROVE  TextIInv'
BY DEF TextIInv, Fail, text_args, TextTypeOK, Room, Converted, Sized, Held, InBounds, SignReadsText

LEMMA StepIconvOpen == TextIInv /\ IconvOpen => TextIInv'
<1> SUFFICES ASSUME TextIInv, IconvOpen, ~Fail({}) PROVE TextIInv'
  BY TextFails
<1>1. QED
  BY DEF IconvOpen, text_args, TextIInv, TextTypeOK, Room, Converted, Sized, Held, InBounds, SignReadsText

\* The buffer starts twice as large as the payload and its NUL.
LEMMA StepAllocUtf16 == TextIInv /\ AllocUtf16 => TextIInv'
<1> SUFFICES ASSUME TextIInv, AllocUtf16, ~Fail({}) PROVE TextIInv'
  BY TextFails
<1>1. Len(data_str) \in Nat
  BY PayloadType DEF TextIInv, TextTypeOK
<1>2. data = << >> /\ Len(data) = 0
  BY DEF AllocUtf16, TextIInv, Room
<1>3. (Len(data_str) + 1) * 2 = 2 * Len(data_str) + 2
  BY <1>1
<1>4. /\ in_bytes_left' = Len(data_str) /\ out_bytes_left' = 2 * Len(data_str) + 2
      /\ text_live' = {"cd", "utf16"} /\ text_pc' = "iconv"
      /\ UNCHANGED <<text_args, data, text_packet_len, text_packet>>
  BY <1>3 DEF AllocUtf16
<1>5. 2 * Len(data_str) + 2 \in Nat /\ Len(data_str) \in 0 .. Len(data_str)
  BY <1>1
<1>6. TextTypeOK'
  BY <1>4, <1>5 DEF text_args, TextIInv, TextTypeOK
<1>7. Room'
  BY <1>1, <1>2, <1>4, <1>5 DEF text_args, Room
<1>8. Converted'
  <2>1. /\ UnitsUpTo(data_str)[0] = << >> /\ data_str' = data_str /\ data' = data
        /\ in_bytes_left' = Len(data_str)
    BY <1>1, <1>4, UnitsOf DEF text_args
  <2>2. Len(data_str) - Len(data_str) = 0
    BY <1>1
  <2>3. QED
    BY <1>2, <2>1, <2>2 DEF Converted
<1>9. QED
  BY <1>4, <1>6, <1>7, <1>8 DEF TextIInv, Sized, Held, InBounds, SignReadsText

\* A character of v bytes takes at most 2v of the buffer.
LEMMA CharacterFits ==
  ASSUME TextIInv, text_pc = "iconv", in_bytes_left > 0, IsCharacter
  PROVE  /\ data_str[At].lead \in 1 .. in_bytes_left
         /\ data_str[At].units \in Seq(Byte) /\ Len(data_str[At].units) \in Nat
         /\ Len(data_str[At].units) <= 2 * data_str[At].lead
         /\ Fits
<1>1. At \in 1 .. Len(data_str) /\ in_bytes_left \in Nat
  BY PayloadType DEF At, TextIInv, TextTypeOK
<1>2. /\ data_str[At].lead \in 0 .. 4 /\ data_str[At].units \in Seq(Byte)
      /\ Len(data_str[At].units) = IF data_str[At].lead = 4 THEN 4 ELSE 2
  BY <1>1, PayloadType DEF TextIInv, TextTypeOK
<1>3. data_str[At].lead \in 1 .. in_bytes_left
  BY DEF IsCharacter
<1>4. Len(data_str[At].units) \in Nat /\ Len(data_str[At].units) <= 2 * data_str[At].lead
  BY <1>2, <1>3
<1>5. out_bytes_left \in Nat /\ out_bytes_left >= 2 * in_bytes_left + 2
  BY DEF TextIInv, TextTypeOK, Room
<1>6. QED
  BY <1>1, <1>2, <1>3, <1>4, <1>5 DEF Fits

LEMMA StepIconvCharacter == TextIInv /\ IconvCharacter => TextIInv'
<1> SUFFICES ASSUME TextIInv, IconvCharacter PROVE TextIInv'
  OBVIOUS
<1> DEFINE v == data_str[At].lead
           u == data_str[At].units
<1>1. v \in 1 .. in_bytes_left /\ u \in Seq(Byte) /\ Len(u) \in Nat /\ Len(u) <= 2 * v
  BY CharacterFits DEF IconvCharacter
<1>2. /\ in_bytes_left' = in_bytes_left - v /\ out_bytes_left' = out_bytes_left - Len(u)
      /\ data' = data \o u /\ text_pc = "iconv" /\ Len(u) <= out_bytes_left
      /\ UNCHANGED <<text_args, text_pc, text_packet_len, text_packet, text_live>>
  BY DEF IconvCharacter, Fits
<1> HIDE DEF v, u
<1>3. /\ in_bytes_left \in 0 .. Len(data_str) /\ out_bytes_left \in Nat /\ data \in Seq(Byte)
      /\ Len(data_str) \in Nat /\ Len(data) \in Nat
      /\ out_bytes_left >= 2 * in_bytes_left + 2
      /\ Len(data) + out_bytes_left = 2 * Len(data_str) + 2
  BY <1>2, PayloadType DEF TextIInv, TextTypeOK, Room
<1>4. data' \in Seq(Byte) /\ Len(data') = Len(data) + Len(u)
  BY <1>1, <1>2, <1>3, Joined
<1>5. TextTypeOK'
  BY <1>1, <1>2, <1>3, <1>4 DEF TextIInv, TextTypeOK, text_args
<1>6. Room'
  <2>1. Len(data') + out_bytes_left' = 2 * Len(data_str) + 2
    <3>1. Len(u) \in Nat /\ Len(data') = Len(data) + Len(u)
      BY <1>1, <1>4
    <3>2. out_bytes_left' = out_bytes_left - Len(u)
      BY <1>2
    <3>3. QED
      BY <3>1, <3>2, <1>3
  <2>2. out_bytes_left' >= 2 * in_bytes_left' + 2
    BY <1>1, <1>2, <1>3
  <2>3. QED
    BY <2>1, <2>2, <1>2 DEF Room, text_args
<1>7. Converted'
  <2> DEFINE i == Len(data_str) - in_bytes_left
  <2>1. /\ At = i + 1 /\ i \in 0 .. Len(data_str) - 1 /\ v \in 1 .. 4 /\ i + v <= Len(data_str)
        /\ v = data_str[At].lead /\ u = data_str[At].units
    <3>1. data_str[At].lead \in 0 .. 4
      <4>1. data_str \in Payloads
        BY DEF TextIInv, TextTypeOK
      <4>2. At \in 1 .. Len(data_str)
        BY <1>1, <1>3 DEF At
      <4>3. QED
        BY <4>1, <4>2, PayloadType
    <3>2. QED
      BY <1>1, <1>3, <3>1 DEF At, v, u
  <2>2. \A k \in i + 2 .. i + v : data_str[k].lead = 0
    <3>1. \A k \in At + 1 .. At + data_str[At].lead - 1 : data_str[k].lead = 0
      BY DEF IconvCharacter, IsCharacter
    <3>2. At + 1 = i + 2 /\ At + v - 1 = i + v /\ v = data_str[At].lead
      BY <1>3, <2>1
    <3>3. \A k \in At + 1 .. At + v - 1 : data_str[k].lead = 0
      BY <3>1, <3>2
    <3>4. QED
      BY <3>2, <3>3
  <2>3. data = UnitsUpTo(data_str)[i]
    BY <1>2 DEF TextIInv, Converted
  <2>4. Len(data_str') - in_bytes_left' = i + v /\ data_str' = data_str
    BY <1>1, <1>2, <1>3 DEF text_args
  <2>5. data_str[i + 1].lead # 0
    BY <2>1
  <2> HIDE DEF i
  <2>6. UnitsUpTo(data_str)[i + v] = UnitsUpTo(data_str)[i] \o data_str[i + 1].units
    BY <1>3, <2>1, <2>2, <2>5, OneCharacter
  <2>7. data' = UnitsUpTo(data_str)[i + v]
    BY <1>2, <2>1, <2>3, <2>6
  <2>8. QED
    BY <2>4, <2>7 DEF Converted
<1>8. QED
  BY <1>2, <1>5, <1>6, <1>7 DEF TextIInv, Sized, Held, InBounds, SignReadsText

LEMMA StepIconvFails == TextIInv /\ IconvFails => TextIInv'
BY TextFails DEF IconvFails

\* Twice the longest payload and the frame fit a uint16_t.
LEMMA StepIconvDone == TextIInv /\ IconvDone => TextIInv'
<1> SUFFICES ASSUME TextIInv, IconvDone PROVE TextIInv'
  OBVIOUS
<1>a. text_pc = "iconv" /\ in_bytes_left = 0
  BY DEF IconvDone
<1>b. out_bytes_left \in Nat /\ data \in Seq(Byte)
  BY DEF TextIInv, TextTypeOK
<1>e. Len(data) \in Nat
  BY <1>b
<1>c. /\ out_bytes_left >= 2 * in_bytes_left + 2
      /\ Len(data) + out_bytes_left = 2 * Len(data_str) + 2
  BY <1>a DEF TextIInv, Room
<1>d. Len(data_str) \in Nat /\ Len(data_str) <= MaxPayload
  BY PayloadType DEF TextIInv, TextTypeOK
<1>1. /\ out_bytes_left \in Nat /\ data \in Seq(Byte) /\ Len(data) \in Nat
      /\ Len(data_str) \in Nat /\ Len(data_str) <= MaxPayload
      /\ Len(data) + out_bytes_left = 2 * Len(data_str) + 2 /\ out_bytes_left >= 2
  BY <1>a, <1>b, <1>c, <1>d, <1>e
<1>2. Len(data) <= 2 * Len(data_str)
  BY <1>1
<1>3. Len(data) + 6 < UInt16
  BY <1>1, <1>2, Sizes, MaxPayloadAssumption
<1>4. text_packet_len' = Len(data) + 6
  <2>1. 1 + 1 + 2 + Len(data) + 1 + 1 = Len(data) + 6
    BY <1>1
  <2>2. (Len(data) + 6) % UInt16 = Len(data) + 6
    BY <1>1, <1>3, Fits16
  <2>3. QED
    BY <2>1, <2>2 DEF IconvDone
<1>5. text_packet_len' \in 0 .. UInt16 - 1
  BY <1>1, <1>3, <1>4, Sizes
<1>6. TextTypeOK'
  BY <1>5 DEF IconvDone, text_args, TextIInv, TextTypeOK
<1>7. Room' /\ Held' /\ InBounds'
  BY DEF IconvDone, text_args, TextIInv, Room, Held, InBounds
<1>8. Sized'
  BY <1>4 DEF IconvDone, Sized
<1>9. Converted' /\ SignReadsText'
  BY DEF IconvDone, text_args, TextIInv, Converted, SignReadsText
<1>10. QED
  BY <1>6, <1>7, <1>8, <1>9 DEF TextIInv

LEMMA StepAllocPacket == TextIInv /\ AllocPacket => TextIInv'
<1> SUFFICES ASSUME TextIInv, AllocPacket, ~Fail({}) PROVE TextIInv'
  BY TextFails
<1>1. QED
  BY DEF AllocPacket, text_args, TextIInv, TextTypeOK, Room, Converted, Sized, Held, InBounds, SignReadsText

\* Where the parts of the packet stand.
LEMMA FilledParts ==
  ASSUME data \in Seq(Byte), Len(data) + 6 < UInt16,
         TEXT_CONTROL_STX \in Byte, TEXT_CONTROL_ETX \in Byte, command_type \in Byte
  PROVE  /\ UInt16At(Filled, 3) = Len(data) /\ Len(Filled) = Len(data) + 6
         /\ Filled[1] = TEXT_CONTROL_STX /\ Filled[2] = command_type
         /\ SubSeq(Filled, 5, 4 + Len(data)) = data
         /\ Filled[5 + Len(data)] = Checksum(SubSeq(Filled, 1, 4 + Len(data)))
         /\ Filled[6 + Len(data)] = TEXT_CONTROL_ETX
<1> DEFINE d == Len(data)
           a == d % Radix
           b == (d \div Radix) % Radix
           h == <<TEXT_CONTROL_STX, command_type>> \o <<a, b>> \o data
           ck == Checksum(h)
           S == Byte \cup {ck}
           f == h \o <<ck, TEXT_CONTROL_ETX>>
<1>1. d \in Nat /\ UInt16 \in Int /\ d % UInt16 = d /\ (4 + d) % UInt16 = 4 + d
  <2>1. d \in Nat /\ UInt16 \in Int /\ 4 + d \in Nat /\ d < UInt16 /\ 4 + d < UInt16
    BY Sizes
  <2> HIDE DEF d
  <2>2. QED
    BY <2>1, Fits16
<1>2. a \in Byte /\ b \in Byte /\ a + Radix * b = d
  <2>1. d \in Int
    BY <1>1
  <2> HIDE DEF d
  <2>2. a \in Byte /\ b \in Byte
    BY <2>1, Packed
  <2>3. a + Radix * b = d % UInt16
    BY <2>1, Read16
  <2>4. QED
    BY <1>1, <2>2, <2>3
<1>3. Head4 \o data = h
  BY <1>1 DEF Head4, pack_uint16_le
<1> HIDE DEF a, b
<1>4. /\ h \in Seq(Byte) /\ Len(h) = 4 + Len(data)
      /\ h[1] = TEXT_CONTROL_STX /\ h[2] = command_type /\ h[3] = a /\ h[4] = b
      /\ \A x \in 1 .. Len(data) : h[4 + x] = data[x]
  BY <1>2
<1> HIDE DEF h
<1>5. Summed = h
  <2>1. 1 + 1 + 2 + Len(data) = 4 + d
    BY <1>1
  <2>2. Summed = SubSeq(h, 1, 4 + d)
    BY <1>1, <1>3, <2>1 DEF Summed
  <2>3. SubSeq(h, 0 + 1, 4 + d) = h
    <3>1. 0 \in Nat /\ 4 + d \in Nat /\ 4 + d = 0 + Len(h) /\ 4 + d <= Len(h)
          /\ \A x \in 1 .. Len(h) : h[0 + x] = h[x]
      BY <1>1, <1>4
    <3>2. QED
      BY <1>4, <3>1, Within
  <2>4. QED
    BY <2>2, <2>3
<1>6. Filled = f
  BY <1>3, <1>5 DEF Filled
<1>7. Byte \subseteq S /\ ck \in S
  OBVIOUS
<1> HIDE DEF ck, S
<1>8. h \in Seq(S) /\ TEXT_CONTROL_ETX \in S /\ data \in Seq(S)
  BY <1>4, <1>7
<1>9. /\ f \in Seq(S) /\ Len(f) = Len(h) + 2
      /\ \A x \in 1 .. Len(h) : f[x] = h[x]
      /\ f[Len(h) + 1] = ck /\ f[Len(h) + 2] = TEXT_CONTROL_ETX
  BY <1>7, <1>8
<1> HIDE DEF f
<1>10. /\ 1 \in 1 .. Len(h) /\ 2 \in 1 .. Len(h) /\ 3 \in 1 .. Len(h) /\ 4 \in 1 .. Len(h)
       /\ 3 + 1 = 4 /\ Len(h) + 1 = 5 + Len(data) /\ Len(h) + 2 = 6 + Len(data)
  BY <1>1, <1>4
<1>11. f[1] = TEXT_CONTROL_STX /\ f[2] = command_type /\ f[3] = a /\ f[4] = b
  BY <1>4, <1>9, <1>10
<1>12. UInt16At(f, 3) = Len(data)
  BY <1>2, <1>10, <1>11 DEF UInt16At
<1>13. SubSeq(f, 4 + 1, 4 + Len(data)) = data
  <2>1. \A x \in 1 .. Len(data) : 4 + x \in 1 .. Len(h)
    BY <1>1, <1>4
  <2>2. \A x \in 1 .. Len(data) : f[4 + x] = data[x]
    BY <1>4, <1>9, <2>1
  <2>3. 4 \in Nat /\ 4 + Len(data) \in Nat /\ 4 + Len(data) <= Len(f)
    BY <1>1, <1>4, <1>9
  <2>4. QED
    BY <1>8, <1>9, <2>2, <2>3, Within
<1>14. SubSeq(f, 0 + 1, 4 + Len(data)) = h
  <2>1. 0 \in Nat /\ 4 + Len(data) \in Nat /\ 4 + Len(data) = 0 + Len(h) /\ 4 + Len(data) <= Len(f)
        /\ \A x \in 1 .. Len(h) : f[0 + x] = h[x]
    BY <1>1, <1>4, <1>9
  <2>2. QED
    BY <1>8, <1>9, <2>1, Within
<1>15. f[5 + Len(data)] = Checksum(SubSeq(f, 1, 4 + Len(data)))
  <2>1. 0 + 1 = 1
    OBVIOUS
  <2>2. QED
    BY <1>9, <1>10, <1>14, <2>1 DEF ck
<1>16. Len(f) = Len(data) + 6 /\ 4 + 1 = 5
  BY <1>1, <1>4, <1>9
<1>17. QED
  BY <1>6, <1>9, <1>10, <1>11, <1>12, <1>13, <1>15, <1>16

\* The packet has room for all that is written into it.
LEMMA StepFillPacket == TextIInv /\ FillPacket => TextIInv'
<1> SUFFICES ASSUME TextIInv, FillPacket PROVE TextIInv'
  OBVIOUS
<1>1. Len(data) \in Nat /\ text_packet_len = Len(data) + 6
  BY DEF FillPacket, TextIInv, TextTypeOK, Sized
<1>2. 1 + 1 + 2 + Len(data) + 1 + 1 <= text_packet_len
  BY <1>1
<1>3. text_pc' = "packet" /\ text_live' = {"packet"}
      /\ UNCHANGED <<text_args, in_bytes_left, out_bytes_left, data, text_packet_len>>
  BY <1>2 DEF FillPacket
<1>4. TextTypeOK' /\ Room' /\ Converted' /\ Sized' /\ Held' /\ InBounds'
  BY <1>3 DEF text_args, TextIInv, TextTypeOK, Room, Converted, Sized, Held, InBounds
<1>5. data = Text /\ Text' = Text
  <2>1. in_bytes_left = 0 /\ data = UnitsUpTo(data_str)[Len(data_str) - in_bytes_left]
    BY DEF FillPacket, TextIInv, Sized, Converted
  <2>2. Len(data_str) - 0 = Len(data_str)
    <3>1. data_str \in Payloads
      BY DEF TextIInv, TextTypeOK
    <3>2. Len(data_str) \in Nat
      BY <3>1, PayloadType
    <3>3. QED
      BY <3>2
  <2>3. Text' = Text
    BY <1>3 DEF Text, text_args
  <2>4. QED
    BY <2>1, <2>2, <2>3 DEF Text
<1>6. /\ data \in Seq(Byte) /\ text_packet_len' = Len(data) + 6 /\ Len(data) + 6 < UInt16
      /\ TEXT_CONTROL_STX \in Byte /\ TEXT_CONTROL_ETX \in Byte /\ command_type \in Byte
  <2>1. /\ data \in Seq(Byte) /\ command_type \in TextCommands
        /\ text_packet_len \in 0 .. UInt16 - 1 /\ UInt16 \in Int
    <3>1. UInt16 \in Int
      BY Sizes
    <3>2. QED
      BY <3>1 DEF TextIInv, TextTypeOK
  <2>2. Len(data) \in Nat /\ Len(data) + 6 < UInt16
    BY <1>1, <2>1
  <2>3. QED
    BY <1>1, <1>3, <2>1, <2>2, TextConstantsAssumption
<1>7. text_packet' = Filled
  BY <1>2 DEF FillPacket
<1>8. /\ UInt16At(Filled, 3) = Len(data) /\ Len(Filled) = Len(data) + 6
      /\ Filled[1] = TEXT_CONTROL_STX /\ Filled[2] = command_type
      /\ SubSeq(Filled, 5, 4 + Len(data)) = data
      /\ Filled[5 + Len(data)] = Checksum(SubSeq(Filled, 1, 4 + Len(data)))
      /\ Filled[6 + Len(data)] = TEXT_CONTROL_ETX
  BY <1>6, FilledParts
<1>9. SignReadsText'
  <2>1. command_type' = command_type
    BY <1>3 DEF text_args
  <2>2. QED
    BY <1>5, <1>6, <1>7, <1>8, <2>1 DEF SignReadsText
<1>10. QED
  BY <1>4, <1>9 DEF TextIInv

LEMMA TextRests == TextIInv /\ UNCHANGED text_vars => TextIInv'
<1> SUFFICES ASSUME TextIInv, UNCHANGED text_vars PROVE TextIInv'
  OBVIOUS
<1>1. TextTypeOK' /\ Room' /\ Converted' /\ Sized' /\ Held' /\ InBounds'
  BY DEF text_vars, TextIInv, TextTypeOK, Room, Converted, Sized, Held, InBounds
<1>2. Text' = Text
  BY DEF text_vars, Text
<1>3. SignReadsText'
  BY <1>2 DEF text_vars, TextIInv, SignReadsText
<1>4. QED
  BY <1>1, <1>3 DEF TextIInv

\* Every step keeps the invariant.
THEOREM TextInvariant == TextSpec => []TextIInv
<1>1. TextIInv /\ [TextNext]_text_vars => TextIInv'
  BY StepIconvOpen, StepAllocUtf16, StepIconvCharacter, StepIconvFails, StepIconvDone,
     StepAllocPacket, StepFillPacket, TextRests DEF TextNext
<1>2. QED
  BY <1>1, TextStarts, PTL DEF TextSpec

\* Types hold.
THEOREM TextTyped == TextSpec => []TextTypeOK
<1>1. TextIInv => TextTypeOK
  BY DEF TextIInv
<1>2. QED
  BY <1>1, TextInvariant, PTL

\* The buffer for UTF-16 is large enough for every character of every payload.
THEOREM BufferLargeEnough == TextSpec => []Utf16Fits
<1>1. TextIInv => Utf16Fits
  BY CharacterFits DEF Utf16Fits
<1>2. QED
  BY <1>1, TextInvariant, PTL

\* No packet for a payload of the controller is written past its end, though its
\* lengths are of 16 bits.
THEOREM PacketInBounds == TextSpec => []InBounds
<1>1. TextIInv => InBounds
  BY DEF TextIInv
<1>2. QED
  BY <1>1, TextInvariant, PTL

\* However creating a packet ends, the conversion leaves no memory behind.
THEOREM TextLeavesNothing == TextSpec => []TextNothingLeaks
<1>1. TextIInv => TextNothingLeaks
  BY DEF TextIInv, Held, TextNothingLeaks
<1>2. QED
  BY <1>1, TextInvariant, PTL

\* A sign reads in the packet of a payload its characters in UTF-16LE, every one and in
\* their order, with the length and the checksum that belong to them.
THEOREM TextsAreRead == TextSpec => []SignReadsText
<1>1. TextIInv => SignReadsText
  BY DEF TextIInv
<1>2. QED
  BY <1>1, TextInvariant, PTL

-----------------------------------------------------------------------------
(* ImagePacket: what a sign finds in a packet.                              *)

\* A frame holds the command, the length, the bytes and a checksum of them.
IsFrame(p, command, length, bytes) ==
  /\ \E S : Byte \subseteq S /\ p \in Seq(S)
  /\ Len(p) = 7 + Len(bytes)
  /\ p[1] = IMAGE_START_BYTE /\ p[2] = command /\ UInt32At(p, 3) = length
  /\ \A x \in 1 .. Len(bytes) : p[6 + x] = bytes[x]
  /\ p[7 + Len(bytes)] = Checksum(SubSeq(p, 2, 6 + Len(bytes)))

LEMMA FramedParts ==
  ASSUME NEW command \in Byte, NEW length \in 0 .. UInt32 - 1, NEW bytes \in Seq(Byte)
  PROVE  IsFrame(Framed(command, length, bytes), command, length, bytes)
<1> DEFINE h == length \div UInt16
           a == length % Radix
           b == (length \div Radix) % Radix
           c == h % Radix
           d == (h \div Radix) % Radix
           summed == <<command>> \o (<<a, b>> \o <<c, d>>) \o bytes
           ck == Checksum(summed)
           S == Byte \cup {ck}
           p == Framed(command, length, bytes)
<1>1. length \in Int
  BY Sizes
<1>2. a \in S /\ b \in S /\ c \in S /\ d \in S
  BY <1>1, Packed
<1>3. p = <<IMAGE_START_BYTE>> \o summed \o <<ck>>
  BY DEF Framed, pack_uint32_le, pack_uint16_le
<1>4. a + Radix * b + UInt16 * (c + Radix * d) = length
  BY Read32
<1>5. command \in S /\ IMAGE_START_BYTE \in S /\ bytes \in Seq(S) /\ ck \in S
  <2>1. Byte \subseteq S
    OBVIOUS
  <2>2. QED
    BY <2>1, ImageConstantsAssumption
<1>h. Byte \subseteq S
  OBVIOUS
<1> HIDE DEF a, b, c, d, ck, S, p
<1>a. /\ summed \in Seq(S) /\ Len(summed) = 5 + Len(bytes)
      /\ summed[1] = command /\ summed[2] = a /\ summed[3] = b /\ summed[4] = c /\ summed[5] = d
      /\ \A x \in 1 .. Len(bytes) : summed[5 + x] = bytes[x]
  BY <1>2, <1>5
<1> HIDE DEF summed
<1>b. /\ p \in Seq(S) /\ Len(p) = Len(summed) + 2
      /\ p[1] = IMAGE_START_BYTE /\ p[Len(summed) + 2] = ck
      /\ \A x \in 1 .. Len(summed) : p[1 + x] = summed[x]
  <2>1. /\ <<IMAGE_START_BYTE>> \o summed \o <<ck>> \in Seq(S)
        /\ Len(<<IMAGE_START_BYTE>> \o summed \o <<ck>>) = Len(summed) + 2
        /\ (<<IMAGE_START_BYTE>> \o summed \o <<ck>>)[1] = IMAGE_START_BYTE
        /\ (<<IMAGE_START_BYTE>> \o summed \o <<ck>>)[Len(summed) + 2] = ck
        /\ \A x \in 1 .. Len(summed) :
             (<<IMAGE_START_BYTE>> \o summed \o <<ck>>)[1 + x] = summed[x]
    BY <1>5, <1>a
  <2>2. QED
    BY <1>3, <2>1
<1>c. Len(bytes) \in Nat
  OBVIOUS
<1>d. /\ 1 \in 1 .. Len(summed) /\ 2 \in 1 .. Len(summed) /\ 3 \in 1 .. Len(summed)
      /\ 4 \in 1 .. Len(summed) /\ 5 \in 1 .. Len(summed)
  BY <1>a, <1>c
<1>e. p[1 + 1] = command /\ p[1 + 2] = a /\ p[1 + 3] = b /\ p[1 + 4] = c /\ p[1 + 5] = d
  BY <1>a, <1>b, <1>d
<1>f. \A x \in 1 .. Len(bytes) : p[6 + x] = bytes[x]
  <2>1. \A x \in 1 .. Len(bytes) : 5 + x \in 1 .. Len(summed) /\ 1 + (5 + x) = 6 + x
    BY <1>a, <1>c
  <2>2. QED
    BY <1>a, <1>b, <2>1
<1>g. SubSeq(p, 1 + 1, 6 + Len(bytes)) = summed
  <2>1. /\ 1 \in Nat /\ 6 + Len(bytes) \in Nat /\ 6 + Len(bytes) = 1 + Len(summed)
        /\ 6 + Len(bytes) <= Len(p)
    BY <1>a, <1>b, <1>c
  <2>2. QED
    BY <1>a, <1>b, <2>1, Within
<1>6. /\ p \in Seq(S) /\ Len(p) = 7 + Len(bytes)
      /\ p[1] = IMAGE_START_BYTE /\ p[2] = command
      /\ p[3] = a /\ p[4] = b /\ p[5] = c /\ p[6] = d
      /\ \A x \in 1 .. Len(bytes) : p[6 + x] = bytes[x]
      /\ p[7 + Len(bytes)] = ck
      /\ SubSeq(p, 2, 6 + Len(bytes)) = summed
  BY <1>a, <1>b, <1>c, <1>e, <1>f, <1>g
<1>7. UInt32At(p, 3) = length
  <2>1. 3 + 1 = 4 /\ 3 + 2 = 5 /\ 5 + 1 = 6
    OBVIOUS
  <2>2. QED
    BY <1>4, <1>6, <2>1 DEF UInt32At, UInt16At
<1>8. p[7 + Len(bytes)] = Checksum(SubSeq(p, 2, 6 + Len(bytes)))
  BY <1>6 DEF ck
<1>9. QED
  BY <1>6, <1>7, <1>8, <1>h DEF IsFrame, p

\* The header of an image holds its type, its place and its size, and the file follows.
LEMMA HeaderParts ==
  ASSUME image_type \in Byte, place \in Places, NEW f \in Seq(Byte),
         NEW b, b = ImageHeader \o f
  PROVE  /\ b \in Seq(Byte) /\ Len(b) = 12 + Len(f) /\ b[1] = image_type
         /\ Int16At(b, 5) = place[1] /\ Int16At(b, 7) = place[2]
         /\ Int16At(b, 9) = place[3] /\ Int16At(b, 11) = place[4]
         /\ \A x \in 1 .. Len(f) : b[12 + x] = f[x]
<1>1. \A x \in 1 .. 4 : place[x] \in Int /\ -UInt16 <= 2 * place[x] /\ 2 * place[x] < UInt16
  <2>1. place \in [1 .. 4 -> {v \in -UInt16 .. UInt16 : -UInt16 <= 2 * v /\ 2 * v < UInt16}]
    BY ImageConstantsAssumption
  <2>2. QED
    BY <2>1, Sizes
<1> DEFINE l(x) == place[x] % Radix
           h(x) == (place[x] \div Radix) % Radix
<1>2. \A x \in 1 .. 4 : l(x) \in Byte /\ h(x) \in Byte
  BY <1>1, Packed
<1>3. \A x \in 1 .. 4 :
        place[x] = LET v == l(x) + Radix * h(x) IN IF 2 * v < UInt16 THEN v ELSE v - UInt16
  <2>1. TAKE x \in 1 .. 4
  <2>2. l(x) + Radix * h(x) = place[x] % UInt16
    BY <1>1, Read16
  <2>3. QED
    BY <1>1, <2>2, ReadSigned
<1>4. 0 \in Byte
  BY Sizes DEF Byte
<1>5. b = <<image_type, 0, 0, 0>> \o <<l(1), h(1)>> \o <<l(2), h(2)>> \o <<l(3), h(3)>>
          \o <<l(4), h(4)>> \o f
  BY DEF ImageHeader, pack_uint16_le
<1>6. /\ l(1) \in Byte /\ h(1) \in Byte /\ l(2) \in Byte /\ h(2) \in Byte
      /\ l(3) \in Byte /\ h(3) \in Byte /\ l(4) \in Byte /\ h(4) \in Byte
  BY <1>2
<1>a. /\ place[1] = LET v == l(1) + Radix * h(1) IN IF 2 * v < UInt16 THEN v ELSE v - UInt16
      /\ place[2] = LET v == l(2) + Radix * h(2) IN IF 2 * v < UInt16 THEN v ELSE v - UInt16
      /\ place[3] = LET v == l(3) + Radix * h(3) IN IF 2 * v < UInt16 THEN v ELSE v - UInt16
      /\ place[4] = LET v == l(4) + Radix * h(4) IN IF 2 * v < UInt16 THEN v ELSE v - UInt16
  BY <1>3
<1> HIDE DEF l, h
<1>7. /\ b \in Seq(Byte) /\ Len(b) = 12 + Len(f) /\ b[1] = image_type
      /\ \A x \in 1 .. Len(f) : b[12 + x] = f[x]
  BY <1>4, <1>5, <1>6
<1>8. b[5] = l(1) /\ b[6] = h(1) /\ b[7] = l(2) /\ b[8] = h(2)
  BY <1>4, <1>5, <1>6
<1>9. b[9] = l(3) /\ b[10] = h(3) /\ b[11] = l(4) /\ b[12] = h(4)
  BY <1>4, <1>5, <1>6
<1>10. 5 + 1 = 6 /\ 7 + 1 = 8 /\ 9 + 1 = 10 /\ 11 + 1 = 12
  OBVIOUS
<1>11. /\ Int16At(b, 5) = place[1] /\ Int16At(b, 7) = place[2]
       /\ Int16At(b, 9) = place[3] /\ Int16At(b, 11) = place[4]
  BY <1>8, <1>9, <1>10, <1>a DEF Int16At, UInt16At
<1>12. QED
  BY <1>7, <1>11

\* The packet of an image that was not too large says what it should.
LEMMA ImageRead ==
  ASSUME NEW f \in Seq(Byte), image_type \in Byte, image_command \in Byte, place \in Places,
         NEW v \in Nat, v = 12 + Len(f), v < UInt32,
         NEW p, p = Framed(image_command, v, ImageHeader \o f)
  PROVE  /\ UInt32At(p, 3) = v /\ Len(p) = v + 7
         /\ p[1] = IMAGE_START_BYTE /\ p[2] = image_command
         /\ p[v + 7] = Checksum(SubSeq(p, 2, v + 6))
         /\ p[7] = image_type
         /\ <<Int16At(p, 11), Int16At(p, 13), Int16At(p, 15), Int16At(p, 17)>> = place
         /\ SubSeq(p, 19, v + 6) = f
<1> DEFINE b == ImageHeader \o f
<1>1. /\ b \in Seq(Byte) /\ Len(b) = v /\ b[1] = image_type
      /\ Int16At(b, 5) = place[1] /\ Int16At(b, 7) = place[2]
      /\ Int16At(b, 9) = place[3] /\ Int16At(b, 11) = place[4]
      /\ \A x \in 1 .. Len(f) : b[12 + x] = f[x]
  BY HeaderParts
<1>2. v \in 0 .. UInt32 - 1
  BY Sizes
<1>3. p = Framed(image_command, v, b)
  OBVIOUS
<1> HIDE DEF b
<1>a. IsFrame(p, image_command, v, b)
  BY <1>1, <1>2, <1>3, FramedParts
<1>4. /\ Len(p) = 7 + Len(b)
      /\ p[1] = IMAGE_START_BYTE /\ p[2] = image_command /\ UInt32At(p, 3) = v
      /\ \A x \in 1 .. Len(b) : p[6 + x] = b[x]
      /\ p[7 + Len(b)] = Checksum(SubSeq(p, 2, 6 + Len(b)))
  BY <1>a DEF IsFrame
<1>5. 7 + Len(b) = v + 7 /\ 6 + Len(b) = v + 6 /\ Len(f) \in Nat /\ Len(b) = 12 + Len(f)
  BY <1>1
<1>6. \A x \in 1 .. 12 : p[6 + x] = b[x]
  BY <1>4, <1>5
<1>7. p[7] = image_type
  <2>1. p[6 + 1] = b[1]
    BY <1>6
  <2>2. QED
    BY <1>1, <2>1
<1>8. \A x \in 1 .. 11 : Int16At(p, 6 + x) = Int16At(b, x)
  <2>1. TAKE x \in 1 .. 11
  <2>2. x \in 1 .. 12 /\ x + 1 \in 1 .. 12 /\ 6 + (x + 1) = (6 + x) + 1
    OBVIOUS
  <2>3. p[6 + x] = b[x] /\ p[(6 + x) + 1] = b[x + 1]
    BY <1>6, <2>2
  <2>4. QED
    BY <2>3 DEF Int16At, UInt16At
<1>9. /\ Int16At(p, 6 + 5) = place[1] /\ Int16At(p, 6 + 7) = place[2]
      /\ Int16At(p, 6 + 9) = place[3] /\ Int16At(p, 6 + 11) = place[4]
  BY <1>1, <1>8
<1>10. <<Int16At(p, 11), Int16At(p, 13), Int16At(p, 15), Int16At(p, 17)>> = place
  <2>1. 6 + 5 = 11 /\ 6 + 7 = 13 /\ 6 + 9 = 15 /\ 6 + 11 = 17
    OBVIOUS
  <2>2. <<place[1], place[2], place[3], place[4]>> = place
    <3>1. place \in [1 .. 4 -> Int]
      BY ImageConstantsAssumption, Sizes
    <3>2. QED
      BY <3>1
  <2>3. QED
    BY <1>9, <2>1, <2>2
<1>11. SubSeq(p, 18 + 1, v + 6) = f
  <2>1. \A x \in 1 .. Len(f) : p[18 + x] = f[x]
    <3>1. TAKE x \in 1 .. Len(f)
    <3>2. 12 + x \in 1 .. Len(b) /\ 6 + (12 + x) = 18 + x
      BY <1>5
    <3>3. QED
      BY <1>1, <1>4, <3>2
  <2>2. v + 6 \in Nat /\ v + 6 = 18 + Len(f) /\ v + 6 <= Len(p) /\ 18 \in Nat
    BY <1>4, <1>5
  <2>3. PICK S : Byte \subseteq S /\ p \in Seq(S)
    BY <1>a DEF IsFrame
  <2>5. f \in Seq(S)
    BY <2>3
  <2>4. QED
    BY <2>1, <2>2, <2>3, <2>5, Within
<1>12. QED
  BY <1>4, <1>5, <1>7, <1>10, <1>11

-----------------------------------------------------------------------------
(* ImagePacket: the invariant.                                              *)

LEMMA ImageStarts == ImageInit => ImageIInv
<1> SUFFICES ASSUME ImageInit PROVE ImageIInv
  OBVIOUS
<1>1. 0 \in 0 .. UInt32 - 1
  BY Sizes
<1>2. image_command \in Byte /\ file \in Seq(Byte)
  BY ImageConstantsAssumption DEF ImageInit
<1>3. QED
  BY <1>1, <1>2 DEF ImageInit, ImageIInv, ImageTypeOK, ImageSized, ImageHeld, OutOnlyWhenHuge,
                    SignReadsImage

LEMMA ImageRests == ImageIInv /\ UNCHANGED image_vars => ImageIInv'
BY DEF image_vars, ImageIInv, ImageTypeOK, ImageSized, ImageHeld, OutOnlyWhenHuge,
       SignReadsImage, IsInit, Total, DataLen

\* The steps up to the packet.
LEMMA ImagePrepares ==
  ASSUME ImageIInv, Open \/ FileShrinks \/ Measure \/ Read \/ AllocImagePacket
  PROVE  ImageIInv'
<1>a. file \in Seq(Byte) /\ image_file_data_len \in Nat
  BY DEF ImageIInv, ImageTypeOK
<1>b. FileShrinks => file' \in Seq(Byte)
  BY <1>a DEF FileShrinks, Front
<1>c. Len(file) \in Nat /\ (file # << >> => Len(file) # 0)
  BY <1>a
<1>d. AllocImagePacket => Total \in 0 .. UInt32 - 1 /\ Total' = Total
  <2>1. UInt32 \in Int /\ UInt32 > 0 /\ 12 + image_file_data_len \in Int
    BY <1>a, Sizes
  <2>2. DataLen \in Int
    BY <2>1, Division DEF DataLen
  <2>3. 1 + 1 + 4 + DataLen + 1 \in Int
    BY <2>2
  <2>4. Total \in 0 .. UInt32 - 1
    BY <2>1, <2>3, Division DEF Total
  <2>5. AllocImagePacket => Total' = Total
    BY DEF AllocImagePacket, Total, DataLen
  <2>6. QED
    BY <2>4, <2>5
<1> USE DEF ImageIInv, ImageTypeOK, ImageSized, ImageHeld, OutOnlyWhenHuge, SignReadsImage,
            To, image_args, IsInit
<1>1. CASE Open
  BY <1>1 DEF Open
<1>2. CASE FileShrinks
  BY <1>2, <1>b DEF FileShrinks
<1>3. CASE Measure
  BY <1>3, <1>c DEF Measure
<1>4. CASE Read
  BY <1>4 DEF Read
<1>5. CASE AllocImagePacket
  BY <1>5, <1>d DEF AllocImagePacket
<1>6. QED
  BY <1>1, <1>2, <1>3, <1>4, <1>5

\* The lengths of 32 bits are those of the parts, or they are too short for the parts.
LEMMA LengthsFit ==
  ASSUME NEW v \in Nat, image_file_data_len = v
  PROVE  /\ 1 + 1 + 4 + 12 + v + 1 <= Total <=> v + 19 < UInt32
         /\ v + 19 < UInt32 => DataLen = 12 + v /\ Total = v + 19
<1>1. UInt32 \in Int /\ UInt32 > 0
  BY Sizes
<1>2. DataLen \in 0 .. UInt32 - 1
  <2>1. 12 + v \in Int
    OBVIOUS
  <2>2. QED
    BY <1>1, <2>1, Division DEF DataLen
<1>3. Total \in 0 .. UInt32 - 1
  <2>1. 1 + 1 + 4 + DataLen + 1 \in Int
    BY <1>1, <1>2
  <2>2. QED
    BY <1>1, <2>1, Division DEF Total
<1>4. ASSUME v + 19 < UInt32
      PROVE  DataLen = 12 + v /\ Total = v + 19
  <2>1. 12 + v \in Nat /\ 12 + v < UInt32
    BY <1>1, <1>4
  <2>2. DataLen = 12 + v
    BY <2>1, Fits32 DEF DataLen
  <2>3. 1 + 1 + 4 + DataLen + 1 = v + 19 /\ v + 19 \in Nat
    BY <2>2
  <2>4. QED
    BY <1>4, <2>2, <2>3, Fits32 DEF Total
<1>5. QED
  BY <1>1, <1>3, <1>4

\* The packet is filled, or there was too little memory for it.
LEMMA ImageFills == ImageIInv /\ FillImagePacket => ImageIInv'
<1> SUFFICES ASSUME ImageIInv, FillImagePacket PROVE ImageIInv'
  OBVIOUS
<1> USE DEF ImageIInv
<1>1. /\ image_pc = "fill" /\ ~IsInit /\ image_packet_len = Total
      /\ Len(file) = image_file_data_len /\ file \in Seq(Byte)
      /\ image_type \in Byte /\ image_command \in Byte /\ place \in Places
      /\ image_file_data_len \in Nat
      /\ image_live = {"image_file_data", "packet"}
      /\ UNCHANGED <<file, image_file_data_len, image_packet_len, image_args>>
  BY ImageConstantsAssumption
     DEF FillImagePacket, ImageTypeOK, ImageSized, ImageHeld, To
<1> DEFINE v == 12 + image_file_data_len
<1>2. CASE 1 + 1 + 4 + 12 + image_file_data_len + 1 <= image_packet_len
  <2>1. image_file_data_len + 19 < UInt32
    BY <1>1, <1>2, LengthsFit
  <2>2. DataLen = v /\ image_packet_len = v + 7 /\ v \in Nat /\ v < UInt32
    <3>1. DataLen = v /\ Total = image_file_data_len + 19
      BY <1>1, <2>1, LengthsFit
    <3>2. UInt32 \in Int
      BY Sizes
    <3>3. QED
      BY <1>1, <2>1, <3>1, <3>2
  <2>3. /\ image_packet' = Framed(image_command, v, ImageHeader \o file)
        /\ image_pc' = "packet" /\ image_live' = {"packet"}
    BY <1>2, <2>2 DEF FillImagePacket, To
  <2>4. v = 12 + Len(file)
    BY <1>1
  <2> HIDE DEF v
  <2>5. /\ UInt32At(image_packet', 3) = v /\ Len(image_packet') = v + 7
        /\ image_packet'[1] = IMAGE_START_BYTE /\ image_packet'[2] = image_command
        /\ image_packet'[v + 7] = Checksum(SubSeq(image_packet', 2, v + 6))
        /\ image_packet'[7] = image_type
        /\ <<Int16At(image_packet', 11), Int16At(image_packet', 13),
             Int16At(image_packet', 15), Int16At(image_packet', 17)>> = place
        /\ SubSeq(image_packet', 19, v + 6) = file
    BY <1>1, <2>2, <2>3, <2>4, ImageRead
  <2>6. SignReadsImage'
    BY <1>1, <2>2, <2>5 DEF SignReadsImage, IsInit, image_args
  <2>7. QED
    BY <1>1, <2>1, <2>3, <2>6
       DEF ImageTypeOK, ImageSized, ImageHeld, OutOnlyWhenHuge, image_args, IsInit
<1>3. CASE ~(1 + 1 + 4 + 12 + image_file_data_len + 1 <= image_packet_len)
  <2>1. image_file_data_len + 19 >= UInt32
    <3>1. ~(image_file_data_len + 19 < UInt32) /\ UInt32 \in Int
      BY <1>1, <1>3, LengthsFit, Sizes
    <3>2. QED
      BY <1>1, <3>1
  <2>2. image_pc' = "undefined" /\ image_live' = image_live
    BY <1>3 DEF FillImagePacket, To
  <2>3. QED
    BY <1>1, <2>1, <2>2 DEF ImageTypeOK, ImageSized, ImageHeld, OutOnlyWhenHuge, image_args,
                            IsInit, SignReadsImage
<1>4. QED
  BY <1>2, <1>3

\* The packet without data.
LEMMA ImageInitPacket == ImageIInv /\ BufferInitPacket => ImageIInv'
<1> SUFFICES ASSUME ImageIInv, BufferInitPacket PROVE ImageIInv'
  OBVIOUS
<1> USE DEF ImageIInv
<1>1. /\ image_pc = "call" /\ image_command = CMD_IMG_BUF_INIT /\ image_packet_len' = 7
      /\ UNCHANGED <<file, image_file_data_len, image_args>>
  BY DEF BufferInitPacket, To, IsInit
<1>2. 7 \in 0 .. UInt32 - 1 /\ 0 \in 0 .. UInt32 - 1
  BY Sizes, FrameAssumption
<1>3. CASE image_pc' = "NULL" /\ image_live' = {}
  BY <1>1, <1>2, <1>3 DEF ImageTypeOK, ImageSized, ImageHeld, OutOnlyWhenHuge, image_args,
                          IsInit, SignReadsImage
<1>4. CASE /\ image_pc' = "packet" /\ image_live' = {"packet"}
           /\ image_packet' = Framed(CMD_IMG_BUF_INIT, 0, << >>)
  <2>1. << >> \in Seq(Byte) /\ Len(<< >>) = 0 /\ CMD_IMG_BUF_INIT \in Byte
    BY ImageConstantsAssumption
  <2>2. /\ Len(image_packet') = 7 + 0
        /\ image_packet'[1] = IMAGE_START_BYTE /\ image_packet'[2] = CMD_IMG_BUF_INIT
        /\ UInt32At(image_packet', 3) = 0
        /\ image_packet'[7 + 0] = Checksum(SubSeq(image_packet', 2, 6 + 0))
    <3>1. IsFrame(image_packet', CMD_IMG_BUF_INIT, 0, << >>)
      BY <1>2, <1>4, <2>1, FramedParts
    <3>2. QED
      BY <2>1, <3>1 DEF IsFrame
  <2>3. 7 + 0 = 0 + 7 /\ 6 + 0 = 0 + 6 /\ 0 + 7 = 7
    OBVIOUS
  <2>4. SignReadsImage'
    BY <1>1, <2>2, <2>3 DEF SignReadsImage, IsInit, image_args
  <2>5. QED
    BY <1>1, <1>2, <1>4, <2>4 DEF ImageTypeOK, ImageSized, ImageHeld, OutOnlyWhenHuge,
                                   image_args, IsInit
<1>5. QED
  BY <1>3, <1>4 DEF BufferInitPacket, To

-----------------------------------------------------------------------------
(* ImagePacket: the theorems.                                               *)

\* What was measured is what is written, the lengths of 32 bits are exceeded by no file
\* below 4 GiB, and a sign reads in a packet what was put in it: the invariant of
\* ImagePacket.
THEOREM ImageInvariant == ImageSpec => []ImageIInv
<1>1. ImageIInv /\ [ImageNext]_image_vars => ImageIInv'
  BY ImageRests, ImagePrepares, ImageFills, ImageInitPacket DEF ImageNext
<1>2. QED
  BY <1>1, ImageStarts, PTL DEF ImageSpec

\* The variables of create_image_packet keep their types.
THEOREM ImageTyped == ImageSpec => []ImageTypeOK
<1>1. ImageIInv => ImageTypeOK
  BY DEF ImageIInv
<1>2. QED
  BY <1>1, ImageInvariant, PTL

\* However creating the packet of an image ends, the file is closed and no memory left.
THEOREM ImageLeavesNothing == ImageSpec => []ImageNothingLeaks
<1>1. ImageIInv => ImageNothingLeaks
  BY DEF ImageIInv, ImageHeld, ImageNothingLeaks
<1>2. QED
  BY <1>1, ImageInvariant, PTL

\* Only a file of about 4 GiB is written past the memory for its packet.
THEOREM OutOnlyForHugeFiles == ImageSpec => []OutOnlyWhenHuge
<1>1. ImageIInv => OutOnlyWhenHuge
  BY DEF ImageIInv
<1>2. QED
  BY <1>1, ImageInvariant, PTL

\* A sign reads in the packet of an image what was put in it, numbers with their signs
\* among it, whatever the size of a byte.
THEOREM ImagesAreRead == ImageSpec => []SignReadsImage
<1>1. ImageIInv => SignReadsImage
  BY DEF ImageIInv
<1>2. QED
  BY <1>1, ImageInvariant, PTL

-----------------------------------------------------------------------------
(* The parser: blocks.                                                       *)

\* The list of a message is a sequence of entries.
LEMMA EntriesType ==
  ASSUME msg \in Messages
  PROVE  /\ Entries \in Seq(Entry) /\ Len(Entries) \in Nat
         /\ Entries # << >> => Len(Entries) >= 1
BY MessagesAssumption DEF Entries, Message

\* The blocks of an entry are among those of the message.
LEMMA OwnBlocks ==
  ASSUME NEW k \in 1 .. Len(Entries)
  PROVE  OfEntry(k) \subseteq Blocks
BY DEF Blocks

\* An entry has four blocks.
LEMMA Members ==
  \A k \in Int : OfEntry(k) = {Conflict(k), HostPoints(k), Remote(k), RemotePoints(k)}
BY DEF OfEntry

\* Blocks of different entries are different, and so are those of a message.
LEMMA BlocksApart ==
  /\ Json # Main /\ Json # List /\ Main # List
  /\ \A k \in Int : OfEntry(k) \cap {Json, Main, List} = {}
  /\ \A k, l \in Int : k # l => OfEntry(k) \cap OfEntry(l) = {}
  /\ \A k \in Int : /\ Conflict(k) # HostPoints(k)
                    /\ Conflict(k) # Remote(k)
                    /\ Conflict(k) # RemotePoints(k)
                    /\ HostPoints(k) # Remote(k)
                    /\ HostPoints(k) # RemotePoints(k)
<1>1. Json # Main /\ Json # List /\ Main # List
  BY DEF Json, Main, List
<1>2. \A k \in Int : OfEntry(k) \cap {Json, Main, List} = {}
  BY DEF OfEntry, Json, Main, List, Conflict, HostPoints, Remote, RemotePoints
<1>3. \A k, l \in Int : k # l => OfEntry(k) \cap OfEntry(l) = {}
  BY DEF OfEntry, Conflict, HostPoints, Remote, RemotePoints
<1>4. \A k \in Int : /\ Conflict(k) # HostPoints(k)
                     /\ Conflict(k) # Remote(k)
                     /\ Conflict(k) # RemotePoints(k)
                     /\ HostPoints(k) # Remote(k)
                     /\ HostPoints(k) # RemotePoints(k)
  BY DEF Conflict, HostPoints, Remote, RemotePoints
<1>5. QED
  BY <1>1, <1>2, <1>3, <1>4

-----------------------------------------------------------------------------
(* The parser: the invariant.                                                *)

\* Nothing is allocated before the call.
LEMMA InitInv == Init => IInv
<1> SUFFICES ASSUME Init PROVE IInv
  OBVIOUS
<1>1. Len(Entries) \in Nat
  BY EntriesType DEF Init
<1>2. TypeOK
  BY <1>1 DEF Init, TypeOK, States
<1>3. QED
  BY <1>2 DEF Init, IInv, NothingLeaks, Known, Fresh, Verdict, DanglingOnlyAfterRemote,
              TwiceOnlyAfterRemote, Parsing

\* Every step of the parser, of its caller and of the release keeps the invariant.
LEMMA StepInv == IInv /\ [Next]_vars => IInv'
<1> SUFFICES ASSUME IInv, [Next]_vars PROVE IInv'
  OBVIOUS
<1> USE DEF IInv, TypeOK, NothingLeaks, Known, Fresh, Verdict, DanglingOnlyAfterRemote,
            TwiceOnlyAfterRemote, Parsing, States, Alloc, Free, NoHeap
<1>0. /\ Len(Entries) \in Nat
      /\ msg' = msg => Entries' = Entries /\ Blocks' = Blocks
  BY EntriesType DEF Entries, Blocks
<1>a. Json \in Blocks /\ Main \in Blocks /\ List \in Blocks
  BY DEF Blocks
<1>b. idx \in Int /\ \A k \in 1 .. Len(Entries) : k \in Int
  BY <1>0
<1>c. /\ pc \in Parsing => idx \in 1 .. Len(Entries) /\ OfEntry(idx) \subseteq Blocks
      /\ {Conflict(idx), HostPoints(idx), Remote(idx), RemotePoints(idx)} = OfEntry(idx)
  BY <1>0, <1>b, Members, OwnBlocks
<1>1. CASE ParseJson
  <2>1. TypeOK' /\ NothingLeaks' /\ Known'
    BY <1>1, <1>0, <1>a, BlocksApart DEF ParseJson
  <2>2. Fresh' /\ Verdict'
    BY <1>1, <1>0, <1>a, BlocksApart DEF ParseJson
  <2>3. DanglingOnlyAfterRemote' /\ TwiceOnlyAfterRemote'
    BY <1>1, <1>0, <1>a, BlocksApart DEF ParseJson
  <2> QED BY <2>1, <2>2, <2>3
<1>2. CASE AllocMessage
  <2>1. TypeOK' /\ NothingLeaks' /\ Known'
    BY <1>2, <1>0, <1>a, BlocksApart DEF AllocMessage
  <2>2. Fresh' /\ Verdict'
    BY <1>2, <1>0, <1>a, BlocksApart DEF AllocMessage
  <2>3. DanglingOnlyAfterRemote' /\ TwiceOnlyAfterRemote'
    BY <1>2, <1>0, <1>a, BlocksApart DEF AllocMessage
  <2> QED BY <2>1, <2>2, <2>3
<1>3. CASE Header
  <2>1. TypeOK' /\ NothingLeaks' /\ Known'
    BY <1>3, <1>0, <1>a, BlocksApart DEF Header
  <2>2. Fresh' /\ Verdict'
    BY <1>3, <1>0, <1>a, BlocksApart DEF Header
  <2>3. DanglingOnlyAfterRemote' /\ TwiceOnlyAfterRemote'
    BY <1>3, <1>0, <1>a, BlocksApart DEF Header
  <2> QED BY <2>1, <2>2, <2>3
<1>4. CASE AllocList
  <2>1. TypeOK' /\ NothingLeaks' /\ Known'
    BY <1>4, <1>0, <1>a, BlocksApart, EntriesType DEF AllocList
  <2>2. Verdict'
    BY <1>4, <1>0, <1>a, <1>b DEF AllocList
  <2>3. pc' \in Parsing => ptr' \subseteq {Json, Main, List} /\ pc' = "conflict"
    BY <1>4 DEF AllocList
  <2>4. \A k \in Int : pc' \in Parsing => ptr' \cap OfEntry(k) = {}
    BY <2>3, BlocksApart
  <2>5. idx' = idx /\ Entries' = Entries /\ pc' # "free"
    BY <1>4, <1>0 DEF AllocList
  <2>6. Fresh'
    BY <2>3, <2>4, <2>5, <1>0, <1>b
  <2>7. DanglingOnlyAfterRemote' /\ TwiceOnlyAfterRemote'
    BY <1>4, <1>0, <1>a, <1>b, BlocksApart DEF AllocList
  <2> QED BY <2>1, <2>2, <2>6, <2>7
<1>5. CASE EntryConflict
  <2>1. TypeOK' /\ NothingLeaks' /\ Known'
    BY <1>5, <1>0, <1>a, <1>b, <1>c, BlocksApart DEF EntryConflict, GoOn, EntryFails
  <2>2. Fresh'
    <3>1. CASE pc' = "delete"
      BY <1>5, <3>1 DEF EntryConflict
    <3>2. CASE pc' # "delete"
      <4>1. /\ pc \in Parsing /\ pc' = "host"
            /\ idx' = idx /\ Entries' = Entries
            /\ ptr' = ptr \/ ptr' = ptr \cup {Conflict(idx)}
        BY <1>5, <3>2, <1>0 DEF EntryConflict, GoOn, EntryFails
      <4>2. \A k \in idx + 1 .. Len(Entries) : ptr' \cap OfEntry(k) = {}
        BY <4>1, <1>0, <1>b, <1>c, BlocksApart
      <4>3. QED
        BY <1>5, <4>1, <4>2, <1>0, <1>b DEF EntryConflict
    <3>3. QED
      BY <3>1, <3>2
  <2>3. Verdict'
    BY <1>5, <1>0, <1>b, <1>c, BlocksApart DEF EntryConflict, GoOn, EntryFails
  <2>4. DanglingOnlyAfterRemote' /\ TwiceOnlyAfterRemote'
    BY <1>5, <1>0, <1>b, <1>c, BlocksApart DEF EntryConflict, GoOn, EntryFails, This
  <2> QED BY <2>1, <2>2, <2>3, <2>4
<1>6. CASE EntryHost
  <2>1. TypeOK' /\ NothingLeaks' /\ Known'
    BY <1>6, <1>0, <1>a, <1>b, <1>c, BlocksApart DEF EntryHost, GoOn, EntryFails, PointsOf
  <2>2. Fresh'
    <3>1. CASE pc' = "delete"
      BY <1>6, <3>1 DEF EntryHost
    <3>2. CASE pc' # "delete"
      <4>1. /\ pc \in Parsing /\ pc' = "remote"
            /\ idx' = idx /\ Entries' = Entries
            /\ ptr' = ptr \/ ptr' = ptr \cup {HostPoints(idx)}
        BY <1>6, <3>2, <1>0 DEF EntryHost, GoOn, EntryFails, PointsOf
      <4>2. \A k \in idx + 1 .. Len(Entries) : ptr' \cap OfEntry(k) = {}
        BY <4>1, <1>0, <1>b, <1>c, BlocksApart
      <4>3. QED
        BY <1>6, <4>1, <4>2, <1>0, <1>b DEF EntryHost
    <3>3. QED
      BY <3>1, <3>2
  <2>3. Verdict'
    BY <1>6, <1>0, <1>b, <1>c, BlocksApart DEF EntryHost, GoOn, EntryFails, PointsOf
  <2>4. DanglingOnlyAfterRemote' /\ TwiceOnlyAfterRemote'
    BY <1>6, <1>0, <1>b, <1>c, BlocksApart DEF EntryHost, GoOn, EntryFails, PointsOf, This
  <2> QED BY <2>1, <2>2, <2>3, <2>4
<1>7. CASE EntryRemote
  <2>1. CASE EntryFails
    <3>1. /\ pc = "remote" /\ pc' = "delete" /\ parse_ok' = FALSE /\ idx' = idx /\ msg' = msg
          /\ ptr' = ptr
      BY <1>7, <2>1 DEF EntryRemote, EntryFails, EntryDone
    <3>2. /\ This.remote # "none"
          /\ live' = live \ {Conflict(idx), HostPoints(idx)}
          /\ doubleFree' = doubleFree
      BY <1>7, <2>1, <3>1, <1>c DEF EntryRemote, EntryFails, EntryDone
    <3>3. TypeOK' /\ Known' /\ Fresh' /\ Verdict'
      BY <3>1, <3>2, <1>0
    <3>4. \A l \in idx + 1 .. Len(Entries) : live' \cap OfEntry(l) = {}
      BY <3>1, <3>2
    <3>5. DanglingOnlyAfterRemote' /\ TwiceOnlyAfterRemote'
      BY <3>1, <3>2, <3>4, <1>0, <1>c DEF This
    <3> QED BY <3>1, <3>2, <3>3, <3>5
  <2>2. CASE EntryDone
    <3> DEFINE New == ptr' \ ptr
    <3>1. /\ pc = "remote" /\ msg' = msg /\ UNCHANGED <<parse_ok, doubleFree>>
          /\ New \subseteq {Remote(idx), RemotePoints(idx)}
          /\ ptr' = ptr \cup New /\ live' = live \cup New
      BY <1>7, <2>2 DEF EntryRemote, EntryFails, EntryDone, PointsOf
    <3>2. \/ idx < Len(Entries) /\ pc' = "conflict" /\ idx' = idx + 1
          \/ pc' = "delete" /\ idx' = idx
      BY <2>2 DEF EntryDone
    <3> HIDE DEF New
    <3>3. TypeOK' /\ NothingLeaks' /\ Known' /\ Verdict'
      BY <3>1, <3>2, <1>0, <1>a, <1>b, <1>c
    <3>4. \A k \in idx + 1 .. Len(Entries) : ptr' \cap OfEntry(k) = {}
      BY <3>1, <1>0, <1>b, <1>c, BlocksApart
    <3>5. Fresh'
      BY <3>1, <3>2, <3>4, <1>0, <1>b
    <3>6. DanglingOnlyAfterRemote' /\ TwiceOnlyAfterRemote'
      BY <3>1, <1>0
    <3> QED BY <3>3, <3>5, <3>6
  <2> QED BY <1>7, <2>1, <2>2 DEF EntryRemote
<1>8. CASE DeleteJson
  BY <1>8, <1>0, BlocksApart DEF DeleteJson
<1>9. CASE UseMessage
  BY <1>9, <1>0, BlocksApart DEF UseMessage
<1>10. CASE FreeEntry
  BY <1>10, <1>0, BlocksApart DEF FreeEntry
<1>11. CASE FreeMessage
  <2>1. ptr' = {}
    <3>1. ptr \cap {Json} = {}
      BY <1>11 DEF FreeMessage
    <3>2. CASE List \in ptr
      <4>1. \A k \in 1 .. Len(Entries) : ptr \cap OfEntry(k) = {}
        BY <1>11, <3>2, <1>0 DEF FreeMessage
      <4>2. QED
        BY <1>11, <3>1, <4>1 DEF FreeMessage, Blocks
    <3>3. CASE List \notin ptr
      BY <1>11, <3>1, <3>3 DEF FreeMessage
    <3>4. QED
      BY <3>2, <3>3
  <2>2. /\ msg' = msg /\ idx' = idx /\ pc' = "end"
        /\ live' = live \ ({List, Main} \cap ptr)
        /\ doubleFree' = doubleFree \cup (({List, Main} \cap ptr) \ live)
    BY <1>11 DEF FreeMessage
  <2>3. live' \subseteq ptr'
    BY <2>1, <2>2, <1>11 DEF FreeMessage
  <2>4. ({List, Main} \cap ptr) \ live = {}
    <3>1. \A k \in 1 .. Len(Entries) : {Conflict(k), HostPoints(k)} \cap {List, Main} = {}
      BY <1>0, BlocksApart, Members
    <3>2. QED
      BY <3>1
  <2>5. QED
    BY <2>1, <2>2, <2>3, <2>4, <1>0, <1>11 DEF FreeMessage
<1>12. CASE UNCHANGED vars
  BY <1>12, <1>0 DEF vars
<1>13. QED
  BY <1>1, <1>2, <1>3, <1>4, <1>5, <1>6, <1>7, <1>8, <1>9, <1>10, <1>11, <1>12 DEF Next

-----------------------------------------------------------------------------
(* The parser: theorems.                                                     *)

\* The inductive invariant holds whatever is malformed or fails.
THEOREM ParserInvariant == Spec => []IInv
<1>1. Init => IInv
  BY InitInv
<1>2. IInv /\ [Next]_vars => IInv'
  BY StepInv
<1>3. QED
  BY <1>1, <1>2, PTL DEF Spec

\* sds_json_parse_message and free_sds_json_main_message lose no block.
THEOREM NothingIsLost == Spec => []NothingLeaks
<1>1. IInv => NothingLeaks
  BY DEF IInv
<1>2. QED
  BY <1>1, ParserInvariant, PTL

\* A message the caller gets has good pointers only.
THEOREM PointersAreGood == Spec => []NoDangling
<1>1. IInv => NoDangling
  BY DEF IInv, Verdict, NoDangling
<1>2. QED
  BY <1>1, ParserInvariant, PTL

\* What is freed twice is a conflict position or the host's way points of the
\* last entry looked at, which has a remote object: the other failure paths,
\* and those of every message without remote objects, free once.
THEOREM OneCauseOnly == Spec => []TwiceOnlyAfterRemote
<1>1. IInv => TwiceOnlyAfterRemote
  BY DEF IInv
<1>2. QED
  BY <1>1, ParserInvariant, PTL

\* No block is freed twice as long as no entry of any message has a remote object.
THEOREM FreedOnceWithoutRemote ==
  ASSUME \A m \in Messages : \A k \in 1 .. Len(m.entries) : m.entries[k].remote = "none"
  PROVE  Spec => []FreedOnce
<1>1. IInv => FreedOnce
  BY DEF IInv, TypeOK, TwiceOnlyAfterRemote, FreedOnce, Entries
<1>2. QED
  BY <1>1, ParserInvariant, PTL

\* The message, the parser's place in it and its blocks keep their types.
THEOREM TypeCorrect == Spec => []TypeOK
<1>1. IInv => TypeOK
  BY DEF IInv
<1>2. QED
  BY <1>1, ParserInvariant, PTL

-----------------------------------------------------------------------------
(* The parts together.                                                       *)

\* Every part starts as its own specification says, and rests or takes a step of it.
LEMMA MainStarts == MainInit => Init /\ ListInit /\ BearingInit /\ TextInit /\ ImageInit
BY DEF MainInit

LEMMA MainSteps ==
  [MainNext]_main_vars =>
    /\ [Next]_vars /\ [ListNext]_list_vars /\ [BearingNext]_bearing_vars
    /\ [TextNext]_text_vars /\ [ImageNext]_image_vars
<1> USE DEF packet_vars
<1>1. UNCHANGED main_vars =>
        UNCHANGED <<vars, list_vars, bearing_vars, text_vars, image_vars>>
  BY DEF main_vars
<1>2. QED
  BY <1>1 DEF MainNext, Parse, Decide, Search, MakeText, MakeImage, Returned

LEMMA MainImplies ==
  MainSpec => Spec /\ ListSpec /\ BearingSpec /\ TextSpec /\ ImageSpec
BY MainStarts, MainSteps, PTL
   DEF MainSpec, Spec, ListSpec, BearingSpec, TextSpec, ImageSpec

\* Each part keeps its types and its own invariant, whatever it is given and whichever
\* calls fail.
THEOREM MainInvariant == MainSpec => []MainIInv
BY MainImplies, ParserInvariant, ListInvariant, BearingInvariant, TextInvariant,
   ImageInvariant, PTL DEF MainIInv

\* No part leaves anything allocated or open but what it returns.
THEOREM MainLeavesNothing == MainSpec => []MainNothingLeaks
BY MainImplies, NothingIsLost, ListFreed, TextLeavesNothing, ImageLeavesNothing, PTL
   DEF MainNothingLeaks

\* No part goes outside its memory, but for images of 4 GiB; nothing is freed twice but
\* after a remote object that does not parse.
THEOREM MainStaysInside == MainSpec => []MainInBounds
BY MainImplies, PointersAreGood, OneCauseOnly, FreedInside, BufferLargeEnough,
   PacketInBounds, OutOnlyForHugeFiles, PTL DEF MainInBounds

\* A sign finds in every packet what the payload or the image file said.
THEOREM SignsRead == MainSpec => []SignReads
BY MainImplies, TextsAreRead, ImagesAreRead, PTL DEF SignReads

\* When main sends, only calls without memory are missing from the list.
THEOREM MainListIsComplete == MainSpec => []OnlyFailedLost
BY MainImplies, OnlyFailedAreLost, PTL

\* With memory for all, the list that main sends groups the calls for the message.
THEOREM MainListIsGrouped == MainSpec => []ListIsGrouping
BY MainImplies, CallsAreGrouped, PTL

=============================================================================
