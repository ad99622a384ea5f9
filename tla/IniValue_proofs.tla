--------------------------- MODULE IniValue_proofs ----------------------------
(* Proofs about IniValue: whatever text, length of the key, buffer and number, *)
(* what is written in a line reads back as what was meant.                    *)
EXTENDS Settings_proofs, IniValue

-----------------------------------------------------------------------------
(* Characters.                                                               *)

\* What texts are made of.
Character ==
  STRING \cup {Quote, Backslash, Space, Tab, "-", "t", "r", "u", "e", "f", "a", "l", "s"}
         \cup {Digit[k] : k \in 1 .. 10}

LEMMA CharactersDiffer ==
  /\ Quote \in Character /\ Backslash \in Character /\ "-" \in Character
  /\ Quote # Backslash /\ Quote \notin Blank /\ Space \in Blank
  /\ {Quote, Backslash, "-"} \cap Comment = {} /\ "-" \notin {Quote, Backslash} \cup Blank
BY DEF Quote, Backslash, Space, Tab, Blank, Comment, Character

LEMMA DigitsDiffer ==
  /\ \A k \in 1 .. 10 : Digit[k] \in Character /\ Digit[k] \notin {Quote, "-"} \cup Blank \cup Comment
  /\ \A k, l \in 1 .. 10 : Digit[k] = Digit[l] => k = l
<1>1. \A k \in 1 .. 10 : k = 1 \/ k = 2 \/ k = 3 \/ k = 4 \/ k = 5
                           \/ k = 6 \/ k = 7 \/ k = 8 \/ k = 9 \/ k = 10
  OBVIOUS
<1>2. \A k, l \in 1 .. 10 : Digit[k] = Digit[l] => k = l
  BY <1>1 DEF Digit
<1>3. \A k \in 1 .. 10 : Digit[k] \notin {Quote, "-"} \cup Blank \cup Comment
  <2>1. /\ Digit[1] = "0" /\ Digit[2] = "1" /\ Digit[3] = "2" /\ Digit[4] = "3"
        /\ Digit[5] = "4" /\ Digit[6] = "5" /\ Digit[7] = "6" /\ Digit[8] = "7"
        /\ Digit[9] = "8" /\ Digit[10] = "9"
    BY DEF Digit
  <2>2. QED
    BY <1>1, <2>1 DEF Quote, Blank, Space, Tab, Comment
<1>4. \A k \in 1 .. 10 : Digit[k] \in Character
  BY DEF Character
<1>5. QED
  BY <1>2, <1>3, <1>4

-----------------------------------------------------------------------------
(* What is written and read, character by character.                         *)

\* The cells of the first characters of a text.
LEMMA CellsAre ==
  ASSUME NEW v \in Seq(Character)
  PROVE  /\ Cells(v) \in [0 .. Len(v) -> Seq(Character)] /\ Cells(v)[0] = << >>
         /\ \A k \in 0 .. Len(v) - 1 : Cells(v)[k + 1] = Cells(v)[k] \o Cell(v[k + 1])
<1> DEFINE m == Len(v)
           G == [p \in Seq(Character) \X (1 .. m) |-> p[1] \o Cell(v[p[2]])]
           R(s) == s = [n \in 0 .. m |-> IF n = 0 THEN << >> ELSE s[n - 1] \o Cell(v[n])]
<1>1. m \in Nat /\ \A k \in 1 .. m : Cell(v[k]) \in Seq(Character)
  BY CharactersDiffer DEF Cell
<1>2. G \in [Seq(Character) \X (1 .. m) -> Seq(Character)]
  BY <1>1
<1>3. PICK f \in [0 .. m -> Seq(Character)] : Recursive(f, << >>, G, m)
  <2> HIDE DEF G, m
  <2>1. << >> \in Seq(Character)
    OBVIOUS
  <2>2. QED
    BY <1>1, <1>2, <2>1, Recursion
<1>4. \A n \in 0 .. m : n # 0 => G[<<f[n - 1], n>>] = f[n - 1] \o Cell(v[n])
  <2>1. ASSUME NEW n \in 0 .. m, n # 0
        PROVE  f[n - 1] \in Seq(Character) /\ n \in 1 .. m
    <3>1. n - 1 \in 0 .. m
      BY <1>1, <2>1
    <3>2. QED
      BY <1>1, <2>1, <3>1
  <2>2. QED
    BY <2>1
<1> HIDE DEF G, m
<1>5. R(f)
  BY <1>3, <1>4 DEF Recursive
<1>6. Cells(v) = CHOOSE s : R(s)
  BY DEF Cells, m
<1>7. R(Cells(v))
  <2> HIDE DEF R
  <2>1. QED
    BY <1>5, <1>6
<1> DEFINE c == Cells(v)
<1> HIDE DEF c
<1>8. c = [n \in 0 .. m |-> IF n = 0 THEN << >> ELSE c[n - 1] \o Cell(v[n])]
  BY <1>7 DEF c
<1>9. c[0] = << >> /\ \A k \in 0 .. m - 1 : c[k + 1] = c[k] \o Cell(v[k + 1])
  <2>1. 0 \in 0 .. m /\ \A k \in 0 .. m - 1 : k + 1 \in 0 .. m /\ k + 1 # 0 /\ (k + 1) - 1 = k
    BY <1>1
  <2>2. QED
    BY <1>8, <2>1
<1>10. \A k \in 0 .. m : c[k] \in Seq(Character)
  <2> DEFINE T == {k \in 0 .. m : c[k] \in Seq(Character)}
  <2>1. 0 \in T
    <3>1. 0 \in 0 .. m /\ c[0] = << >> /\ << >> \in Seq(Character)
      BY <1>1, <1>9
    <3>2. QED
      BY <3>1
  <2>2. ASSUME NEW k \in 0 .. m - 1, k \in T PROVE k + 1 \in T
    <3>1. Cell(v[k + 1]) \in Seq(Character) /\ k + 1 \in 0 .. m /\ c[k] \in Seq(Character)
      BY <1>1, <2>2
    <3>2. c[k + 1] \in Seq(Character)
      BY <1>9, <3>1, ConcatProperties
    <3>3. QED
      BY <3>1, <3>2
  <2>3. \A k \in 0 .. m : k \in T
    <3> HIDE DEF T
    <3>1. QED
      BY <1>1, <2>1, <2>2, Inductively
  <2>4. QED
    BY <2>3
<1>11. QED
  BY <1>8, <1>9, <1>10 DEF c, m

\* Where a character goes with the quote after it.
LEMMA SkipsAre ==
  ASSUME NEW v \in Seq(Character)
  PROVE  /\ \A k \in 0 .. Len(v) : Skips(v)[k] \in BOOLEAN
         /\ ~Skips(v)[0]
         /\ \A k \in 1 .. Len(v) :
              Skips(v)[k] <=> k < Len(v) /\ v[k] \in {Quote, Backslash} /\ v[k + 1] = Quote
                                /\ ~Skips(v)[k - 1]
<1> DEFINE m == Len(v)
           E(n) == n < m /\ v[n] \in {Quote, Backslash} /\ v[n + 1] = Quote
           G == [p \in BOOLEAN \X (1 .. m) |-> E(p[2]) /\ ~p[1]]
           R(s) == s = [n \in 0 .. m |-> /\ n # 0 /\ n < m
                                         /\ v[n] \in {Quote, Backslash} /\ v[n + 1] = Quote
                                         /\ ~s[n - 1]]
<1>1. m \in Nat
  OBVIOUS
<1>2. G \in [BOOLEAN \X (1 .. m) -> BOOLEAN]
  BY <1>1
<1>3. PICK f \in [0 .. m -> BOOLEAN] : Recursive(f, FALSE, G, m)
  <2> HIDE DEF G, m
  <2>1. QED
    BY <1>1, <1>2, Recursion
<1>4. \A n \in 0 .. m : n # 0 => (G[<<f[n - 1], n>>] = (E(n) /\ ~f[n - 1]))
  <2>1. ASSUME NEW n \in 0 .. m, n # 0
        PROVE  f[n - 1] \in BOOLEAN /\ n \in 1 .. m
    <3>1. n - 1 \in 0 .. m
      BY <1>1, <2>1
    <3>2. QED
      BY <1>1, <2>1, <3>1
  <2> HIDE DEF E
  <2>2. QED
    BY <2>1
<1> HIDE DEF G, m
<1>5. R(f)
  <2>1. \A n \in 0 .. m : f[n] = (n # 0 /\ E(n) /\ ~f[n - 1])
    <3> HIDE DEF E
    <3>1. QED
      BY <1>1, <1>3, <1>4 DEF Recursive
  <2> DEFINE h == [n \in 0 .. m |-> /\ n # 0 /\ n < m
                                    /\ v[n] \in {Quote, Backslash} /\ v[n + 1] = Quote
                                    /\ ~f[n - 1]]
  <2>2. \A n \in 0 .. m : f[n] = h[n]
    BY <2>1
  <2>3. f = h
    BY <1>3, <2>2
  <2>4. QED
    BY <2>3
<1>6. Skips(v) = CHOOSE s : R(s)
  BY DEF Skips, m
<1>7. R(Skips(v))
  <2> HIDE DEF R
  <2>1. QED
    BY <1>5, <1>6
<1> DEFINE c == Skips(v)
<1> HIDE DEF c
<1>8. c = [n \in 0 .. m |-> /\ n # 0 /\ n < m
                            /\ v[n] \in {Quote, Backslash} /\ v[n + 1] = Quote
                            /\ ~c[n - 1]]
  BY <1>7 DEF c
<1>9. \A n \in 0 .. m : c[n] = (n # 0 /\ E(n) /\ ~c[n - 1])
  BY <1>8
<1> HIDE DEF E
<1>10. \A n \in 0 .. m : c[n] \in BOOLEAN
  BY <1>9
<1>11. ~c[0] /\ \A n \in 1 .. m : c[n] <=> E(n) /\ ~c[n - 1]
  <2>1. 0 \in 0 .. m /\ \A n \in 1 .. m : n \in 0 .. m /\ n # 0
    BY <1>1
  <2>2. ASSUME NEW n \in 1 .. m PROVE c[n] <=> E(n) /\ ~c[n - 1]
    <3>1. c[n] = (n # 0 /\ E(n) /\ ~c[n - 1])
      BY <1>9, <2>1
    <3>2. QED
      BY <2>1, <3>1
  <2>3. ~c[0]
    <3>1. c[0] = (0 # 0 /\ E(0) /\ ~c[0 - 1])
      BY <1>9, <2>1
    <3>2. QED
      BY <3>1
  <2>4. QED
    BY <2>2, <2>3
<1>12. QED
  BY <1>10, <1>11 DEF c, m, E

\* Whether cleanstring is in quotes after the first characters.
LEMMA InQuotesAre ==
  ASSUME NEW v \in Seq(Character)
  PROVE  /\ \A k \in 0 .. Len(v) : InQuotes(v)[k] \in BOOLEAN
         /\ ~InQuotes(v)[0]
         /\ \A k \in 1 .. Len(v) :
              InQuotes(v)[k] = IF v[k] = Quote /\ ~Skips(v)[k] /\ ~Skips(v)[k - 1]
                               THEN ~InQuotes(v)[k - 1] ELSE InQuotes(v)[k - 1]
<1> DEFINE m == Len(v)
           E(n) == v[n] = Quote /\ ~Skips(v)[n] /\ ~Skips(v)[n - 1]
           G == [p \in BOOLEAN \X (1 .. m) |-> IF E(p[2]) THEN ~p[1] ELSE p[1]]
           H(s) == [n \in 0 .. m |->
                      IF n = 0 THEN FALSE
                      ELSE IF v[n] = Quote /\ ~Skips(v)[n] /\ ~Skips(v)[n - 1]
                           THEN ~s[n - 1] ELSE s[n - 1]]
           R(s) == s = H(s)
<1>1. m \in Nat
  OBVIOUS
<1>2. G \in [BOOLEAN \X (1 .. m) -> BOOLEAN]
  <2> HIDE DEF E
  <2>1. QED
    BY <1>1
<1>3. PICK f \in [0 .. m -> BOOLEAN] : Recursive(f, FALSE, G, m)
  <2> HIDE DEF G, m
  <2>1. QED
    BY <1>1, <1>2, Recursion
<1>4. \A n \in 0 .. m : n # 0 =>
        G[<<f[n - 1], n>>] = IF E(n) THEN ~f[n - 1] ELSE f[n - 1]
  <2>1. ASSUME NEW n \in 0 .. m, n # 0
        PROVE  f[n - 1] \in BOOLEAN /\ n \in 1 .. m
    <3>1. n - 1 \in 0 .. m
      BY <1>1, <2>1
    <3>2. QED
      BY <1>1, <2>1, <3>1
  <2> HIDE DEF E
  <2>2. QED
    BY <2>1
<1> HIDE DEF G, m
<1>5. R(f)
  <2>1. \A n \in 0 .. m :
          f[n] = IF n = 0 THEN FALSE ELSE IF E(n) THEN ~f[n - 1] ELSE f[n - 1]
    <3> HIDE DEF E
    <3>1. QED
      BY <1>1, <1>3, <1>4 DEF Recursive
  <2>2. \A n \in 0 .. m : f[n] = H(f)[n]
    BY <2>1
  <2>3. QED
    BY <1>3, <2>2
<1>6. InQuotes(v) = CHOOSE s : R(s)
  BY DEF InQuotes, m
<1>7. R(InQuotes(v))
  <2> HIDE DEF R
  <2>1. QED
    BY <1>5, <1>6
<1> DEFINE c == InQuotes(v)
<1> HIDE DEF c
<1>8. c = H(c)
  BY <1>7 DEF c
<1>9. \A n \in 0 .. m :
        c[n] = IF n = 0 THEN FALSE ELSE IF E(n) THEN ~c[n - 1] ELSE c[n - 1]
  BY <1>8
<1> HIDE DEF E, H, R
<1>10. ~c[0] /\ \A n \in 1 .. m : c[n] = IF E(n) THEN ~c[n - 1] ELSE c[n - 1]
  BY <1>1, <1>9
<1>11. \A n \in 0 .. m : c[n] \in BOOLEAN
  <2> DEFINE T == {n \in 0 .. m : c[n] \in BOOLEAN}
  <2>1. 0 \in T
    BY <1>1, <1>9
  <2>2. ASSUME NEW k \in 0 .. m - 1, k \in T PROVE k + 1 \in T
    <3>1. k + 1 \in 1 .. m /\ k + 1 \in 0 .. m /\ (k + 1) - 1 = k /\ c[k] \in BOOLEAN
      BY <1>1, <2>2
    <3>2. c[k + 1] = IF E(k + 1) THEN ~c[k] ELSE c[k]
      BY <1>10, <3>1
    <3>3. QED
      BY <3>1, <3>2
  <2>3. \A k \in 0 .. m : k \in T
    <3> HIDE DEF T
    <3>1. QED
      BY <1>1, <2>1, <2>2, Inductively
  <2>4. QED
    BY <2>3
<1>12. QED
  BY <1>10, <1>11 DEF c, m, E

\* The text that is left when quotes that escape or double one are taken off.
LEMMA DequotedIs ==
  ASSUME NEW v \in Seq(Character)
  PROVE  \E d \in [0 .. Len(v) -> Seq(Character)] :
           /\ Dequoted(v) = d[Len(v)] /\ d[0] = << >>
           /\ \A k \in 1 .. Len(v) :
                d[k] = IF Skips(v)[k] THEN d[k - 1] ELSE Append(d[k - 1], v[k])
<1> DEFINE m == Len(v)
           skips == Skips(v)
           G == [p \in Seq(Character) \X (1 .. m) |->
                   IF skips[p[2]] THEN p[1] ELSE Append(p[1], v[p[2]])]
           H(s) == [n \in 0 .. m |-> IF n = 0 THEN << >>
                                     ELSE IF skips[n] THEN s[n - 1] ELSE Append(s[n - 1], v[n])]
           R(s) == s = H(s)
<1>1. m \in Nat /\ \A k \in 1 .. m : v[k] \in Character
  OBVIOUS
<1> HIDE DEF skips
<1>2. G \in [Seq(Character) \X (1 .. m) -> Seq(Character)]
  BY <1>1
<1>3. PICK f \in [0 .. m -> Seq(Character)] : Recursive(f, << >>, G, m)
  <2> HIDE DEF G, m
  <2>1. << >> \in Seq(Character)
    OBVIOUS
  <2>2. QED
    BY <1>1, <1>2, <2>1, Recursion
<1>4. \A n \in 0 .. m : n # 0 =>
        G[<<f[n - 1], n>>] = IF skips[n] THEN f[n - 1] ELSE Append(f[n - 1], v[n])
  <2>1. ASSUME NEW n \in 0 .. m, n # 0
        PROVE  f[n - 1] \in Seq(Character) /\ n \in 1 .. m
    <3>1. n - 1 \in 0 .. m
      BY <1>1, <2>1
    <3>2. QED
      BY <1>1, <2>1, <3>1
  <2>2. QED
    BY <2>1
<1> HIDE DEF G
<1>5. R(f)
  BY <1>3, <1>4 DEF Recursive
<1> DEFINE c == CHOOSE s : R(s)
<1>6. Dequoted(v) = c[m]
  BY DEF Dequoted, skips
<1>7. R(c)
  <2> HIDE DEF R
  <2>1. QED
    BY <1>5
<1> HIDE DEF c, m
<1>8. c = H(c)
  BY <1>7
<1>9. c[0] = << >> /\ \A n \in 1 .. m :
        c[n] = IF skips[n] THEN c[n - 1] ELSE Append(c[n - 1], v[n])
  <2>1. 0 \in 0 .. m /\ \A n \in 1 .. m : n \in 0 .. m /\ n # 0
    BY <1>1
  <2>2. QED
    BY <1>8, <2>1
<1>10. \A n \in 0 .. m : c[n] \in Seq(Character)
  <2> DEFINE T == {n \in 0 .. m : c[n] \in Seq(Character)}
  <2>1. 0 \in T
    <3>1. 0 \in 0 .. m /\ c[0] = << >> /\ << >> \in Seq(Character)
      BY <1>1, <1>9
    <3>2. QED
      BY <3>1
  <2>2. ASSUME NEW k \in 0 .. m - 1, k \in T PROVE k + 1 \in T
    <3>1. k + 1 \in 1 .. m /\ k + 1 \in 0 .. m /\ (k + 1) - 1 = k /\ c[k] \in Seq(Character)
      BY <1>1, <2>2
    <3>2. c[k + 1] = IF skips[k + 1] THEN c[k] ELSE Append(c[k], v[k + 1])
      BY <1>9, <3>1
    <3>3. c[k + 1] \in Seq(Character)
      BY <1>1, <3>1, <3>2
    <3>4. QED
      BY <3>1, <3>3
  <2>3. \A k \in 0 .. m : k \in T
    <3> HIDE DEF T
    <3>1. QED
      BY <1>1, <2>1, <2>2, Inductively
  <2>4. QED
    BY <2>3
<1>11. c \in [0 .. m -> Seq(Character)]
  BY <1>8, <1>10
<1>12. QED
  BY <1>6, <1>9, <1>11 DEF m, skips

-----------------------------------------------------------------------------
(* Numbers.                                                                  *)

\* What is left of a number when digits are taken from its end.
LEMMA RestIs ==
  ASSUME NEW n \in Int
  PROVE  /\ Magnitude(n) \in Nat /\ Rest(n) \in [0 .. Magnitude(n) + 1 -> Nat]
         /\ Rest(n)[0] = Magnitude(n) /\ Rest(n)[Magnitude(n) + 1] = 0
         /\ \A k \in 0 .. Magnitude(n) : Rest(n)[k + 1] = Rest(n)[k] \div 10
<1> DEFINE M == Magnitude(n)
           m == M + 1
           G == [p \in Nat \X (1 .. m) |-> p[1] \div 10]
           H(s) == [k \in 0 .. m |-> IF k = 0 THEN M ELSE s[k - 1] \div 10]
           R(s) == s = H(s)
<1>1. M \in Nat /\ m \in Nat
  BY DEF Magnitude
<1>0. \A x \in Nat : x \div 10 \in Nat /\ (x = 0 => x \div 10 = 0) /\ (x > 0 => x \div 10 < x)
  OBVIOUS
<1>2. G \in [Nat \X (1 .. m) -> Nat]
  BY <1>0
<1> HIDE DEF M
<1>3. PICK f \in [0 .. m -> Nat] : Recursive(f, M, G, m)
  <2> HIDE DEF G, m
  <2>1. QED
    BY <1>1, <1>2, Recursion
<1>4. \A k \in 0 .. m : k # 0 => G[<<f[k - 1], k>>] = f[k - 1] \div 10
  <2>1. ASSUME NEW k \in 0 .. m, k # 0
        PROVE  f[k - 1] \in Nat /\ k \in 1 .. m
    <3>1. k - 1 \in 0 .. m
      BY <1>1, <2>1
    <3>2. QED
      BY <1>1, <2>1, <3>1
  <2>2. QED
    BY <2>1
<1> HIDE DEF G, m
<1>5. R(f)
  BY <1>3, <1>4 DEF Recursive
<1>6. Rest(n) = CHOOSE s : R(s)
  BY DEF Rest, m, M
<1>7. R(Rest(n))
  <2> HIDE DEF R
  <2>1. QED
    BY <1>5, <1>6
<1> DEFINE c == Rest(n)
<1> HIDE DEF c
<1>8. c = H(c)
  BY <1>7 DEF c
<1>9. c[0] = M /\ \A k \in 0 .. M : c[k + 1] = c[k] \div 10
  <2>1. 0 \in 0 .. m /\ \A k \in 0 .. M : k + 1 \in 0 .. m /\ k + 1 # 0 /\ (k + 1) - 1 = k
    BY <1>1 DEF m
  <2>2. QED
    BY <1>8, <2>1
<1>10. \A k \in 0 .. m : c[k] \in Nat /\ (c[k] = 0 \/ c[k] <= M - k)
  <2> DEFINE T == {k \in 0 .. m : c[k] \in Nat /\ (c[k] = 0 \/ c[k] <= M - k)}
  <2>1. 0 \in T
    BY <1>1, <1>9
  <2>2. ASSUME NEW k \in 0 .. m - 1, k \in T PROVE k + 1 \in T
    <3>1. k \in 0 .. M /\ k + 1 \in 0 .. m /\ c[k] \in Nat /\ (c[k] = 0 \/ c[k] <= M - k)
      BY <1>1, <2>2 DEF m
    <3>2. c[k + 1] = c[k] \div 10
      BY <1>9, <3>1
    <3>3. c[k + 1] \in Nat /\ (c[k + 1] = 0 \/ c[k + 1] <= M - (k + 1))
      BY <1>0, <1>1, <3>1, <3>2
    <3>4. QED
      BY <3>1, <3>3
  <2>3. \A k \in 0 .. m : k \in T
    <3> HIDE DEF T
    <3>1. QED
      BY <1>1, <2>1, <2>2, Inductively
  <2>4. QED
    BY <2>3
<1>11. c \in [0 .. m -> Nat]
  BY <1>8, <1>10
<1>12. c[m] = 0
  BY <1>1, <1>10 DEF m
<1>13. QED
  BY <1>1, <1>9, <1>11, <1>12 DEF c, m, M

\* The digits of a number, and the number they stand for.
LEMMA DigitsAre ==
  ASSUME NEW n \in Int
  PROVE  \E len \in Nat \ {0} : \E e \in [1 .. len -> 0 .. 9] : \E r \in [0 .. len -> Nat] :
           /\ Digits(n) = [k \in 1 .. len |-> Digit[e[k] + 1]]
           /\ r[0] = 0 /\ r[len] = Magnitude(n)
           /\ \A k \in 1 .. len : r[k] = (10 * r[k - 1]) + e[k]
<1> DEFINE M == Magnitude(n)
           rest == Rest(n)
           Ends(k) == rest[k] = 0 /\ \A m \in 1 .. k - 1 : rest[m] # 0
           len == CHOOSE k \in 1 .. M + 1 : Ends(k)
<1>1. /\ M \in Nat /\ rest \in [0 .. M + 1 -> Nat] /\ rest[0] = M /\ rest[M + 1] = 0
      /\ \A k \in 0 .. M : rest[k + 1] = rest[k] \div 10
  BY RestIs
<1>2. Digits(n) = [k \in 1 .. len |-> Digit[(rest[len - k] % 10) + 1]]
  BY DEF Digits
<1> HIDE DEF M, rest
<1>3. len \in 1 .. M + 1 /\ Ends(len)
  <2> DEFINE I == {k \in 1 .. M + 1 : rest[k] = 0}
  <2>1. I \subseteq Nat /\ I # {}
    <3>1. M + 1 \in 1 .. M + 1 /\ rest[M + 1] = 0
      BY <1>1
    <3>2. M + 1 \in I
      BY <3>1
    <3>3. QED
      BY <3>2
  <2>2. PICK k \in I : \A y \in I : k <= y
    <3> HIDE DEF I
    <3>1. QED
      BY <2>1, Smallest
  <2>3. k \in 1 .. M + 1 /\ Ends(k)
    BY <1>1, <2>2
  <2> HIDE DEF Ends
  <2>4. QED
    BY <2>3
<1> HIDE DEF len
<1> DEFINE e == [k \in 1 .. len |-> rest[len - k] % 10]
           r == [k \in 0 .. len |-> rest[len - k]]
<1>4. len \in Nat \ {0} /\ \A k \in 0 .. len : len - k \in 0 .. M + 1 /\ rest[len - k] \in Nat
  <2>1. len \in Nat \ {0} /\ \A k \in 0 .. len : len - k \in 0 .. M + 1
    BY <1>1, <1>3
  <2>2. QED
    BY <1>1, <2>1
<1>5. e \in [1 .. len -> 0 .. 9] /\ r \in [0 .. len -> Nat]
  <2>1. \A x \in Nat : x % 10 \in 0 .. 9
    OBVIOUS
  <2>2. \A k \in 1 .. len : k \in 0 .. len
    BY <1>4
  <2>3. QED
    BY <1>4, <2>1, <2>2
<1>6. Digits(n) = [k \in 1 .. len |-> Digit[e[k] + 1]]
  BY <1>2
<1>7. r[0] = 0 /\ r[len] = M
  BY <1>1, <1>3, <1>4
<1>8. ASSUME NEW k \in 1 .. len PROVE r[k] = (10 * r[k - 1]) + e[k]
  <2>1. /\ k \in 0 .. len /\ k - 1 \in 0 .. len /\ len - k \in 0 .. M
        /\ len - (k - 1) = (len - k) + 1
    BY <1>1, <1>3
  <2>2. rest[len - (k - 1)] = rest[len - k] \div 10
    BY <1>1, <2>1
  <2>3. \A x \in Nat : x = (10 * (x \div 10)) + (x % 10)
    OBVIOUS
  <2>4. QED
    BY <1>4, <2>1, <2>2, <2>3
<1> HIDE DEF e, r
<1>9. QED
  BY <1>4, <1>5, <1>6, <1>7, <1>8 DEF M

\* strtol finds the number that digits stand for.
LEMMA DecimalIs ==
  ASSUME NEW len \in Nat, NEW e \in [1 .. len -> 0 .. 9], NEW r \in [0 .. len -> Nat],
         NEW v, v = [k \in 1 .. len |-> Digit[e[k] + 1]],
         r[0] = 0, \A k \in 1 .. len : r[k] = (10 * r[k - 1]) + e[k]
  PROVE  Decimal(v) = r[len]
<1> DEFINE Is(k) == CHOOSE c \in 0 .. 9 : Digit[c + 1] = v[k]
           H(s) == [k \in 0 .. len |-> IF k = 0 THEN 0
                                       ELSE (10 * s[k - 1])
                                              + (CHOOSE c \in 0 .. 9 : Digit[c + 1] = v[k])]
           R(s) == s = H(s)
           d == CHOOSE s : R(s)
<1>1. Len(v) = len
  OBVIOUS
<1>2. Decimal(v) = d[len]
  BY <1>1 DEF Decimal
<1>3. ASSUME NEW k \in 1 .. len PROVE Is(k) = e[k]
  <2>1. e[k] \in 0 .. 9 /\ v[k] = Digit[e[k] + 1]
    OBVIOUS
  <2>2. \A c \in 0 .. 9 : Digit[c + 1] = v[k] => c = e[k]
    <3>1. ASSUME NEW c \in 0 .. 9, Digit[c + 1] = v[k] PROVE c = e[k]
      <4>1. c + 1 \in 1 .. 10 /\ e[k] + 1 \in 1 .. 10
        <5>1. \A x \in 0 .. 9 : x + 1 \in 1 .. 10
          OBVIOUS
        <5>2. QED
          BY <2>1, <5>1, Zenon
      <4>2. c + 1 = e[k] + 1
        BY <2>1, <3>1, <4>1, DigitsDiffer
      <4>3. c \in Int /\ e[k] \in Int
        <5>1. \A x \in 0 .. 9 : x \in Int
          OBVIOUS
        <5>2. QED
          BY <2>1, <5>1, Zenon
      <4>4. QED
        BY <4>2, <4>3
    <3>2. QED
      BY <3>1
  <2>3. QED
    BY <2>1, <2>2
<1>4. R(r)
  <2>1. \A k \in 0 .. len : r[k] = H(r)[k]
    <3>1. ASSUME NEW k \in 1 .. len PROVE H(r)[k] = (10 * r[k - 1]) + Is(k)
      BY <3>1
    <3> HIDE DEF Is
    <3>2. H(r)[0] = 0
      OBVIOUS
    <3> HIDE DEF H
    <3>3. \A k \in 0 .. len : k = 0 \/ k \in 1 .. len
      OBVIOUS
    <3>4. QED
      BY <1>3, <3>1, <3>2, <3>3
  <2>2. QED
    BY <2>1
<1>5. R(d)
  <2> HIDE DEF R
  <2>1. QED
    BY <1>4
<1> HIDE DEF d
<1>6. d[0] = 0 /\ \A k \in 1 .. len : d[k] = (10 * d[k - 1]) + Is(k)
  <2>1. d = H(d)
    BY <1>5
  <2>2. 0 \in 0 .. len /\ \A k \in 1 .. len : k \in 0 .. len /\ k # 0
    OBVIOUS
  <2>3. QED
    BY <2>1, <2>2
<1> HIDE DEF Is
<1> DEFINE T == {k \in 0 .. len : d[k] = r[k]}
<1>7. 0 \in T
  BY <1>6
<1>8. ASSUME NEW k \in 0 .. len - 1, k \in T PROVE k + 1 \in T
  <2>1. k + 1 \in 1 .. len /\ k + 1 \in 0 .. len /\ (k + 1) - 1 = k /\ d[k] = r[k]
    BY <1>8
  <2>2. d[k + 1] = (10 * d[k]) + Is(k + 1) /\ r[k + 1] = (10 * r[k]) + e[k + 1]
    BY <1>6, <2>1
  <2>3. Is(k + 1) = e[k + 1]
    BY <1>3, <2>1
  <2>4. QED
    BY <2>1, <2>2, <2>3
<1>9. \A k \in 0 .. len : k \in T
  <2> HIDE DEF T
  <2>1. QED
    BY <1>7, <1>8, Inductively
<1>10. QED
  BY <1>2, <1>9

-----------------------------------------------------------------------------
(* Strings.                                                                  *)

\* The beginnings of a string.
LEMMA PrefixIs ==
  ASSUME NEW v \in Seq(Character), NEW n \in 0 .. Len(v)
  PROVE  /\ Prefix(v, n) \in Seq(Character) /\ Len(Prefix(v, n)) = n
         /\ \A k \in 1 .. n : Prefix(v, n)[k] = v[k]
         /\ \A k \in 0 .. n : Prefix(Prefix(v, n), k) = Prefix(v, k)
         /\ IsPrefix(Prefix(v, n), v)
         /\ Prefix(v, Len(v)) = v
<1> DEFINE p == Prefix(v, n)
<1>1. p \in Seq(Character) /\ Len(p) = n /\ \A k \in 1 .. n : p[k] = v[k]
  BY DEF Prefix
<1>2. Prefix(v, Len(v)) = v /\ Prefix(p, Len(p)) = p
  BY <1>1 DEF Prefix
<1>3. IsPrefix(p, v)
  <2>1. SubSeq(p, 1, Len(p)) = SubSeq(v, 1, Len(p))
    BY <1>1, <1>2 DEF Prefix
  <2>2. QED
    BY <1>1, <2>1 DEF IsPrefix
<1>4. ASSUME NEW k \in 0 .. n PROVE Prefix(p, k) = Prefix(v, k)
  <2> HIDE DEF p
  <2>1. /\ Prefix(p, k) \in Seq(Character) /\ Len(Prefix(p, k)) = k
        /\ \A x \in 1 .. k : Prefix(p, k)[x] = p[x]
    BY <1>1 DEF Prefix
  <2>2. /\ Prefix(v, k) \in Seq(Character) /\ Len(Prefix(v, k)) = k
        /\ \A x \in 1 .. k : Prefix(v, k)[x] = v[x]
    BY DEF Prefix
  <2>3. \A x \in 1 .. k : Prefix(p, k)[x] = Prefix(v, k)[x]
    BY <1>1, <2>1, <2>2
  <2>4. QED
    BY <2>1, <2>2, <2>3, SeqEqual
<1>5. QED
  BY <1>1, <1>2, <1>3, <1>4

\* A copy is a beginning, and the whole when there is room for it.
LEMMA CopyNoneIs ==
  ASSUME NEW v \in Seq(Character), NEW maxlen \in Nat \ {0}
  PROVE  \E n \in 0 .. Len(v) :
           /\ n <= maxlen - 1 /\ CopyNone(v, maxlen) = Prefix(v, n)
           /\ n = Len(v) \/ n = maxlen - 1
           /\ Len(v) < maxlen => n = Len(v) /\ CopyNone(v, maxlen) = v
<1> DEFINE n == Least(Len(v), maxlen - 1)
<1>1. n \in 0 .. Len(v) /\ n <= maxlen - 1 /\ (n = Len(v) \/ n = maxlen - 1)
      /\ (Len(v) < maxlen => n = Len(v))
  BY DEF Least
<1>2. CopyNone(v, maxlen) = Prefix(v, n)
  BY DEF CopyNone
<1>3. Prefix(v, Len(v)) = v
  BY PrefixIs
<1> HIDE DEF n
<1>4. QED
  BY <1>1, <1>2, <1>3

\* Blanks are skipped at the front, and cut at the end.
LEMMA SkipLeadingIs ==
  ASSUME NEW v \in Seq(Character)
  PROVE  /\ \E n \in 0 .. Len(v) :
              /\ skipleading(v) = SubSeq(v, n + 1, Len(v))
              /\ \A k \in 1 .. n : v[k] \in Blank
              /\ n = Len(v) \/ v[n + 1] \notin Blank
         /\ v = << >> \/ v[1] \notin Blank => skipleading(v) = v
<1> DEFINE Skipped(n) == /\ \A k \in 1 .. n : v[k] \in Blank
                         /\ n = Len(v) \/ v[n + 1] \notin Blank
           n == CHOOSE n \in 0 .. Len(v) : Skipped(n)
           I == {k \in 0 .. Len(v) : k = Len(v) \/ v[k + 1] \notin Blank}
<1>1. PICK k \in I : \A y \in I : k <= y
  <2>1. I \subseteq Nat /\ Len(v) \in I
    OBVIOUS
  <2> HIDE DEF I
  <2>2. QED
    BY <2>1, Smallest
<1>2. Skipped(k)
  <2>1. ASSUME NEW x \in 1 .. k PROVE v[x] \in Blank
    <3>1. x - 1 \in 0 .. Len(v) /\ x - 1 # Len(v) /\ (x - 1) + 1 = x /\ ~(k <= x - 1)
      BY <1>1
    <3>2. x - 1 \notin I
      BY <1>1, <3>1
    <3>3. QED
      BY <3>1, <3>2
  <2>2. QED
    BY <1>1, <2>1
<1>3. k \in 0 .. Len(v)
  BY <1>1
<1> HIDE DEF I
<1>4. n \in 0 .. Len(v) /\ Skipped(n)
  <2> HIDE DEF Skipped
  <2>1. QED
    BY <1>2, <1>3
<1>5. skipleading(v) = SubSeq(v, n + 1, Len(v))
  BY DEF skipleading
<1> HIDE DEF n
<1>6. ASSUME v = << >> \/ v[1] \notin Blank PROVE n = 0
  <2>1. n # 0 => 1 \in 1 .. n /\ v # << >>
    BY <1>4
  <2>2. QED
    BY <1>4, <1>6, <2>1
<1>7. n = 0 => SubSeq(v, n + 1, Len(v)) = v
  BY PrefixIs DEF Prefix
<1>8. QED
  BY <1>4, <1>5, <1>6, <1>7

LEMMA StripTrailingIs ==
  ASSUME NEW v \in Seq(Character)
  PROVE  /\ \E n \in 0 .. Len(v) :
              /\ striptrailing(v) = Prefix(v, n)
              /\ \A k \in n + 1 .. Len(v) : v[k] \in Blank
              /\ n = 0 \/ v[n] \notin Blank
         /\ v = << >> \/ v[Len(v)] \notin Blank => striptrailing(v) = v
<1> DEFINE Stripped(n) == /\ \A k \in n + 1 .. Len(v) : v[k] \in Blank
                          /\ n = 0 \/ v[n] \notin Blank
           n == CHOOSE n \in 0 .. Len(v) : Stripped(n)
           I == {m \in 0 .. Len(v) : \A k \in m + 1 .. Len(v) : v[k] \in Blank}
<1>1. PICK m \in I : \A y \in I : m <= y
  <2>1. I \subseteq Nat /\ Len(v) \in I
    OBVIOUS
  <2> HIDE DEF I
  <2>2. QED
    BY <2>1, Smallest
<1>2. Stripped(m)
  <2>1. ASSUME m # 0, v[m] \in Blank PROVE FALSE
    <3>1. m \in 1 .. Len(v) /\ m - 1 \in 0 .. Len(v)
      BY <1>1, <2>1
    <3>2. ASSUME NEW k \in (m - 1) + 1 .. Len(v) PROVE v[k] \in Blank
      BY <1>1, <2>1, <3>1
    <3>3. m - 1 \in I
      BY <3>1, <3>2
    <3> HIDE DEF I
    <3>4. m <= m - 1
      BY <1>1, <3>3
    <3>5. QED
      BY <3>1, <3>4
  <2>2. QED
    BY <1>1, <2>1
<1>3. m \in 0 .. Len(v)
  BY <1>1
<1> HIDE DEF I
<1>4. n \in 0 .. Len(v) /\ Stripped(n)
  <2> HIDE DEF Stripped
  <2>1. QED
    BY <1>2, <1>3
<1>5. striptrailing(v) = Prefix(v, n)
  BY DEF striptrailing
<1> HIDE DEF n
<1>6. ASSUME v = << >> \/ v[Len(v)] \notin Blank PROVE n = Len(v)
  <2>1. n # Len(v) => Len(v) \in n + 1 .. Len(v) /\ v # << >>
    BY <1>4
  <2>2. QED
    BY <1>4, <1>6, <2>1
<1>7. Prefix(v, Len(v)) = v
  BY PrefixIs
<1>8. QED
  BY <1>4, <1>5, <1>6, <1>7

\* A line is cut at its end at the latest, and no sooner than at a comment.
LEMMA CommentAtIs ==
  ASSUME NEW v \in Seq(Character)
  PROVE  /\ CommentAt(v) \in 1 .. Len(v) + 1
         /\ (\A k \in 1 .. Len(v) : v[k] \in Comment => InQuotes(v)[k - 1])
              => CommentAt(v) = Len(v) + 1
<1> DEFINE quoted == InQuotes(v)
           Begins(k) == v[k] \in Comment /\ ~quoted[k - 1]
           At(n) == /\ n = Len(v) + 1 \/ Begins(n)
                    /\ \A k \in 1 .. n - 1 : ~Begins(k)
           n == CHOOSE n \in 1 .. Len(v) + 1 : At(n)
           I == {m \in 1 .. Len(v) + 1 : m = Len(v) + 1 \/ Begins(m)}
<1>1. PICK m \in I : \A y \in I : m <= y
  <2>1. I \subseteq Nat /\ Len(v) + 1 \in I
    OBVIOUS
  <2> HIDE DEF I
  <2>2. QED
    BY <2>1, Smallest
<1>0. CommentAt(v) = n
  BY DEF CommentAt
<1> HIDE DEF Begins
<1>2. At(m) /\ m \in 1 .. Len(v) + 1
  <2>1. ASSUME NEW k \in 1 .. m - 1 PROVE ~Begins(k)
    <3>1. k \in 1 .. Len(v) + 1 /\ ~(m <= k)
      BY <1>1
    <3>2. k \notin I
      BY <1>1, <3>1
    <3>3. QED
      BY <3>1, <3>2
  <2>2. QED
    BY <1>1, <2>1
<1> HIDE DEF I
<1>4. n \in 1 .. Len(v) + 1 /\ At(n)
  <2> HIDE DEF At
  <2>1. QED
    BY <1>2
<1> HIDE DEF n
<1>5. ASSUME \A k \in 1 .. Len(v) : v[k] \in Comment => quoted[k - 1]
      PROVE  n = Len(v) + 1
  <2>1. n # Len(v) + 1 => n \in 1 .. Len(v) /\ Begins(n)
    BY <1>4
  <2>2. QED
    BY <1>5, <2>1 DEF Begins
<1>6. QED
  BY <1>0, <1>4, <1>5

-----------------------------------------------------------------------------
(* What is read from a line.                                                 *)

\* The part of a line before a comment, without the blanks around it.
Cleaned(line) ==
  LET string == skipleading(line) IN striptrailing(Prefix(string, CommentAt(string) - 1))

LEMMA CleanedIs ==
  ASSUME NEW v \in Seq(Character)
  PROVE  /\ Cleaned(v) \in Seq(Character)
         /\ v = << >> \/ v[1] \notin Blank =>
              \E n \in 0 .. Len(v) : Cleaned(v) = Prefix(v, n)
         /\ /\ v = << >> \/ (v[1] \notin Blank /\ v[Len(v)] \notin Blank)
            /\ \A k \in 1 .. Len(v) : v[k] \in Comment => InQuotes(v)[k - 1]
            => Cleaned(v) = v
         /\ Len(Cleaned(v)) <= Len(v)
<1> DEFINE string == skipleading(v)
           n == CommentAt(string) - 1
<1>1. string \in Seq(Character) /\ Len(string) <= Len(v)
      /\ (v = << >> \/ v[1] \notin Blank => string = v)
  <2>1. PICK k \in 0 .. Len(v) : string = SubSeq(v, k + 1, Len(v))
    BY SkipLeadingIs
  <2>2. v = << >> \/ v[1] \notin Blank => string = v
    BY SkipLeadingIs
  <2> HIDE DEF string
  <2>3. string \in Seq(Character) /\ Len(string) <= Len(v)
    BY <2>1
  <2>4. QED
    BY <2>2, <2>3
<1> HIDE DEF string
<1>2. n \in 0 .. Len(string)
  BY <1>1, CommentAtIs
<1> HIDE DEF n
<1> DEFINE p == Prefix(string, n)
<1>3. p \in Seq(Character) /\ Len(p) = n
      /\ \A k \in 0 .. n : Prefix(p, k) = Prefix(string, k)
  BY <1>1, <1>2, PrefixIs
<1> HIDE DEF p
<1>4. PICK k \in 0 .. n : striptrailing(p) = Prefix(p, k)
  BY <1>3, StripTrailingIs
<1>5. Cleaned(v) = striptrailing(p)
  BY DEF Cleaned, p, n, string
<1>6. Cleaned(v) = Prefix(string, k) /\ k \in 0 .. Len(string)
  BY <1>2, <1>3, <1>4, <1>5
<1>7. Cleaned(v) \in Seq(Character) /\ Len(Cleaned(v)) = k
  BY <1>1, <1>6, PrefixIs
<1>8. ASSUME v = << >> \/ (v[1] \notin Blank /\ v[Len(v)] \notin Blank),
             \A x \in 1 .. Len(v) : v[x] \in Comment => InQuotes(v)[x - 1]
      PROVE  Cleaned(v) = v
  <2>1. string = v
    BY <1>1, <1>8
  <2>2. n = Len(v)
    BY <1>8, <2>1, CommentAtIs DEF n
  <2>3. p = v
    BY <2>1, <2>2, PrefixIs DEF p
  <2>4. QED
    BY <1>5, <1>8, <2>3, StripTrailingIs
<1>9. QED
  BY <1>1, <1>6, <1>7, <1>8

\* It fits the buffer, and is what is left of the line with its quotes off.
LEMMA ValueFoundIs ==
  ASSUME NEW v \in Seq(Character), NEW maxlen \in Nat \ {0}
  PROVE  /\ ValueFound(v, maxlen) \in Seq(Character) /\ Len(ValueFound(v, maxlen)) < maxlen
         /\ Cleaned(v) = << >> \/ Cleaned(v)[1] # Quote =>
              ValueFound(v, maxlen) = CopyNone(Cleaned(v), maxlen)
         /\ Len(Cleaned(v)) > 0 /\ Cleaned(v)[1] = Quote /\ Cleaned(v)[Len(Cleaned(v))] = Quote =>
              ValueFound(v, maxlen) =
                CopyNone(Dequoted(SubSeq(Cleaned(v), 2, Len(Cleaned(v)) - 1)), maxlen)
         /\ \/ ValueFound(v, maxlen) = CopyNone(Cleaned(v), maxlen)
            \/ ValueFound(v, maxlen) =
                 CopyNone(Dequoted(SubSeq(Cleaned(v), 2, Len(Cleaned(v)) - 1)), maxlen)
<1> DEFINE clean == Cleaned(v)
           inner == SubSeq(clean, 2, Len(clean) - 1)
<1>1. clean \in Seq(Character)
  BY CleanedIs
<1>2. ValueFound(v, maxlen) =
        IF clean # << >> /\ clean[1] = Quote /\ Last(clean) = Quote
        THEN CopyNone(Dequoted(inner), maxlen) ELSE CopyNone(clean, maxlen)
  BY DEF ValueFound, Cleaned, CopyDequote
<1> HIDE DEF clean
<1>3. inner \in Seq(Character)
  BY <1>1
<1> HIDE DEF inner
<1>4. Dequoted(inner) \in Seq(Character)
  <2>1. PICK d \in [0 .. Len(inner) -> Seq(Character)] : Dequoted(inner) = d[Len(inner)]
    BY <1>3, DequotedIs
  <2>2. QED
    BY <1>3, <2>1
<1>5. ASSUME NEW w \in Seq(Character)
      PROVE  CopyNone(w, maxlen) \in Seq(Character) /\ Len(CopyNone(w, maxlen)) < maxlen
  <2>1. PICK k \in 0 .. Len(w) : k <= maxlen - 1 /\ CopyNone(w, maxlen) = Prefix(w, k)
    BY CopyNoneIs
  <2>2. QED
    BY <2>1, PrefixIs
<1>6. Len(clean) > 0 <=> clean # << >>
  BY <1>1
<1>7. QED
  BY <1>1, <1>2, <1>4, <1>5, <1>6 DEF Last, clean, inner

\* A text between the first and the last character that is no blank.
LEMMA TrimmedAt ==
  ASSUME NEW v \in Seq(Character), NEW a \in 0 .. Len(v), NEW b \in a .. Len(v),
         \A k \in 1 .. a : v[k] \in Blank, \A k \in b + 1 .. Len(v) : v[k] \in Blank,
         a = b \/ (v[a + 1] \notin Blank /\ v[b] \notin Blank)
  PROVE  Trimmed(v) = SubSeq(v, a + 1, b)
<1> DEFINE solid == {k \in DOMAIN v : v[k] \notin Blank}
<1>1. Trimmed(v) = IF solid = {} THEN << >> ELSE SubSeq(v, Min(solid), Max(solid))
  BY DEF Trimmed
<1>2. \A k \in solid : k \in a + 1 .. b
  <2>1. ASSUME NEW k \in solid PROVE k \in a + 1 .. b
    <3>1. k \in 1 .. Len(v) /\ v[k] \notin Blank
      OBVIOUS
    <3>2. k \notin 1 .. a /\ k \notin b + 1 .. Len(v)
      BY <3>1
    <3>3. QED
      BY <3>1, <3>2
  <2>2. QED
    BY <2>1
<1>3. CASE a = b
  <2>1. solid = {}
    BY <1>2, <1>3
  <2>2. SubSeq(v, a + 1, b) = << >>
    BY <1>3
  <2>3. QED
    BY <1>1, <2>1, <2>2
<1>4. CASE a # b
  <2>1. a + 1 \in solid /\ b \in solid
    BY <1>4
  <2> HIDE DEF solid
  <2>2. Min(solid) = a + 1
    <3>1. \A x \in solid : (\A y \in solid : x <= y) => x = a + 1
      BY <1>2, <2>1
    <3>2. \A y \in solid : a + 1 <= y
      BY <1>2
    <3>3. QED
      BY <2>1, <3>1, <3>2 DEF Min
  <2>3. Max(solid) = b
    <3>1. \A x \in solid : (\A y \in solid : x >= y) => x = b
      BY <1>2, <2>1
    <3>2. \A y \in solid : b >= y
      BY <1>2
    <3>3. QED
      BY <2>1, <3>1, <3>2 DEF Max
  <2>4. QED
    BY <1>1, <2>1, <2>2, <2>3
<1>5. QED
  BY <1>3, <1>4

\* It is a part of the text, and the text itself when no blank is at its ends.
LEMMA TrimmedIs ==
  ASSUME NEW v \in Seq(Character)
  PROVE  /\ Trimmed(v) \in Seq(Character) /\ Len(Trimmed(v)) <= Len(v)
         /\ \A k \in 1 .. Len(Trimmed(v)) : \E x \in 1 .. Len(v) : Trimmed(v)[k] = v[x]
         /\ v = << >> \/ (v[1] \notin Blank /\ v[Len(v)] \notin Blank) => Trimmed(v) = v
<1>1. PICK a \in 0 .. Len(v) : /\ \A k \in 1 .. a : v[k] \in Blank
                               /\ a = Len(v) \/ v[a + 1] \notin Blank
  BY SkipLeadingIs
<1>2. PICK b \in 0 .. Len(v) : /\ \A k \in b + 1 .. Len(v) : v[k] \in Blank
                               /\ b = 0 \/ v[b] \notin Blank
  BY StripTrailingIs
<1>3. \E c \in a .. Len(v) : Trimmed(v) = SubSeq(v, a + 1, c)
  <2>1. CASE a = Len(v)
    BY <1>1, <2>1, TrimmedAt
  <2>2. CASE a # Len(v)
    <3>1. ~(a + 1 \in b + 1 .. Len(v))
      BY <1>1, <1>2, <2>2
    <3>2. b \in a .. Len(v) /\ v[a + 1] \notin Blank /\ v[b] \notin Blank
      BY <1>1, <1>2, <2>2, <3>1
    <3>3. QED
      BY <1>1, <1>2, <3>2, TrimmedAt
  <2>3. QED
    BY <2>1, <2>2
<1>4. ASSUME v = << >> \/ (v[1] \notin Blank /\ v[Len(v)] \notin Blank)
      PROVE  Trimmed(v) = v
  <2>1. ASSUME NEW x \in 0 .. Len(v), x = 0 PROVE Trimmed(v) = SubSeq(v, x + 1, Len(v))
    <3>1. Len(v) \in x .. Len(v) /\ (v = << >> => x = Len(v))
      BY <2>1
    <3>2. /\ \A k \in 1 .. x : v[k] \in Blank
          /\ \A k \in Len(v) + 1 .. Len(v) : v[k] \in Blank
          /\ x = Len(v) \/ (v[x + 1] \notin Blank /\ v[Len(v)] \notin Blank)
      BY <1>4, <2>1, <3>1
    <3>3. QED
      BY <3>1, <3>2, TrimmedAt
  <2>2. Trimmed(v) = SubSeq(v, 1, Len(v))
    BY <2>1
  <2>3. QED
    BY <2>2, PrefixIs DEF Prefix
<1>5. PICK c \in a .. Len(v) : Trimmed(v) = SubSeq(v, a + 1, c)
  BY <1>3
<1> DEFINE w == Trimmed(v)
<1>6. /\ w \in Seq(Character) /\ Len(w) = c - a
      /\ \A k \in 1 .. c - a : a + k \in 1 .. Len(v) /\ w[k] = v[a + k]
  BY <1>5
<1> HIDE DEF w
<1>7. Len(w) <= Len(v) /\ \A k \in 1 .. Len(w) : \E x \in 1 .. Len(v) : w[k] = v[x]
  BY <1>6
<1>8. QED
  BY <1>4, <1>6, <1>7 DEF w

\* What is found of a text without quotes and comments, or of a beginning of it.
LEMMA PlainCleaned ==
  ASSUME NEW v \in Seq(Character), \A k \in 1 .. Len(v) : v[k] \notin Comment,
         NEW n \in 0 .. Len(v)
  PROVE  /\ \E k \in 0 .. Len(Trimmed(v)) : Cleaned(Prefix(v, n)) = Prefix(Trimmed(v), k)
         /\ n = Len(v) => Cleaned(Prefix(v, n)) = Trimmed(v)
<1> DEFINE t == Prefix(v, n)
           string == skipleading(t)
<1>1. t \in Seq(Character) /\ Len(t) = n /\ \A k \in 1 .. n : t[k] = v[k]
  BY PrefixIs
<1>0. Cleaned(t) = striptrailing(Prefix(string, CommentAt(string) - 1))
  BY DEF Cleaned
<1> HIDE DEF t
<1>2. PICK a \in 0 .. n : /\ string = SubSeq(t, a + 1, n)
                          /\ \A k \in 1 .. a : t[k] \in Blank
                          /\ a = n \/ t[a + 1] \notin Blank
  BY <1>1, SkipLeadingIs
<1> HIDE DEF string
<1>3. /\ string \in Seq(Character) /\ Len(string) = n - a
      /\ \A k \in 1 .. n - a : string[k] = v[a + k]
  BY <1>1, <1>2
<1>4. CommentAt(string) - 1 = n - a
  <2>1. \A k \in 1 .. Len(string) : string[k] \notin Comment
    <3>1. \A k \in 1 .. n - a : a + k \in 1 .. Len(v)
      OBVIOUS
    <3>2. QED
      BY <1>3, <3>1
  <2>2. CommentAt(string) = Len(string) + 1
    BY <1>3, <2>1, CommentAtIs
  <2>3. QED
    BY <1>3, <2>2
<1>5. Cleaned(t) = striptrailing(string)
  BY <1>0, <1>3, <1>4, PrefixIs
<1>6. PICK m \in 0 .. n - a : /\ striptrailing(string) = Prefix(string, m)
                              /\ \A k \in m + 1 .. n - a : string[k] \in Blank
                              /\ m = 0 \/ string[m] \notin Blank
  BY <1>3, StripTrailingIs
<1>7. \A k \in 1 .. a : v[k] \in Blank
  BY <1>1, <1>2
<1>8. CASE m = 0
  <2>1. Cleaned(t) = << >>
    BY <1>5, <1>6, <1>8 DEF Prefix
  <2>2. Prefix(Trimmed(v), 0) = << >> /\ 0 \in 0 .. Len(Trimmed(v))
    BY TrimmedIs DEF Prefix
  <2>3. ASSUME n = Len(v) PROVE Trimmed(v) = << >>
    <3>1. \A k \in a + 1 .. Len(v) : v[k] \in Blank
      <4>1. ASSUME NEW k \in a + 1 .. Len(v) PROVE v[k] \in Blank
        <5>1. k - a \in m + 1 .. n - a /\ a + (k - a) = k /\ k - a \in 1 .. n - a
          BY <1>8, <2>3
        <5>2. QED
          BY <1>3, <1>6, <5>1
      <4>2. QED
        BY <4>1
    <3>2. a \in 0 .. Len(v) /\ a \in a .. Len(v)
      OBVIOUS
    <3>3. Trimmed(v) = SubSeq(v, a + 1, a)
      BY <1>7, <3>1, <3>2, TrimmedAt
    <3>4. QED
      BY <3>2, <3>3
  <2>4. QED
    BY <2>1, <2>2, <2>3 DEF t
<1>9. CASE m # 0
  <2>1. v[a + 1] \notin Blank /\ v[a + m] \notin Blank
    BY <1>1, <1>2, <1>3, <1>6, <1>9
  <2>2. PICK b \in 0 .. Len(v) : /\ \A k \in b + 1 .. Len(v) : v[k] \in Blank
                                 /\ b = 0 \/ v[b] \notin Blank
    BY StripTrailingIs
  <2>3. b \in a + m .. Len(v)
    <3>1. ~(a + m \in b + 1 .. Len(v)) /\ a + m \in 1 .. Len(v)
      BY <1>6, <1>9, <2>1, <2>2
    <3>2. QED
      BY <2>2, <3>1
  <2>4. Trimmed(v) = SubSeq(v, a + 1, b)
    <3>1. b \in a .. Len(v) /\ b # 0 /\ a \in 0 .. Len(v)
      BY <1>6, <1>9, <2>3
    <3>2. QED
      BY <1>7, <2>1, <2>2, <3>1, TrimmedAt
  <2> DEFINE w == Trimmed(v)
  <2>5. /\ w \in Seq(Character) /\ Len(w) = b - a
        /\ \A k \in 1 .. b - a : w[k] = v[a + k]
    BY <1>6, <1>9, <2>3, <2>4
  <2> HIDE DEF w
  <2>6. m \in 0 .. Len(w)
    BY <1>6, <2>3, <2>5
  <2>7. Prefix(string, m) = Prefix(w, m)
    <3>1. /\ Prefix(string, m) \in Seq(Character) /\ Len(Prefix(string, m)) = m
          /\ \A k \in 1 .. m : Prefix(string, m)[k] = string[k]
      BY <1>3, PrefixIs
    <3>2. /\ Prefix(w, m) \in Seq(Character) /\ Len(Prefix(w, m)) = m
          /\ \A k \in 1 .. m : Prefix(w, m)[k] = w[k]
      BY <2>5, <2>6, PrefixIs
    <3>3. \A k \in 1 .. m : string[k] = w[k]
      BY <1>3, <1>6, <2>3, <2>5
    <3>4. QED
      BY <3>1, <3>2, <3>3, SeqEqual
  <2>8. ASSUME n = Len(v) PROVE Prefix(w, m) = w
    <3>1. b = a + m
      <4>1. ASSUME b > a + m PROVE FALSE
        <5>1. b - a \in m + 1 .. n - a /\ a + (b - a) = b /\ b - a \in 1 .. n - a
          BY <1>6, <2>3, <2>8, <4>1
        <5>2. v[b] \in Blank
          BY <1>3, <1>6, <5>1
        <5>3. QED
          BY <1>9, <2>2, <2>3, <4>1, <5>2
      <4>2. QED
        BY <2>3, <4>1
    <3>2. m = Len(w)
      BY <1>6, <2>5, <3>1
    <3>3. QED
      BY <2>5, <3>2, PrefixIs
  <2>9. QED
    BY <1>5, <1>6, <2>6, <2>7, <2>8 DEF t, w
<1>10. QED
  BY <1>8, <1>9

\* A value without quotes and comments, or a beginning of it.
LEMMA PlainReads ==
  ASSUME NEW v \in Seq(Character), ~check_enquote(v),
         NEW n \in 0 .. Len(v), NEW maxlen \in Nat \ {0}
  PROVE  /\ \E k \in 0 .. Len(Trimmed(v)) :
              ValueFound(Prefix(v, n), maxlen) = Prefix(Trimmed(v), k)
         /\ n = Len(v) => ValueFound(Prefix(v, n), maxlen) = CopyNone(Trimmed(v), maxlen)
<1> DEFINE t == Prefix(v, n)
           w == Trimmed(v)
<1>1. t \in Seq(Character)
  BY PrefixIs
<1>2. \A k \in 1 .. Len(v) : v[k] # Quote /\ v[k] \notin Comment
  BY DEF check_enquote
<1>3. PICK k \in 0 .. Len(w) : Cleaned(t) = Prefix(w, k)
  BY <1>2, PlainCleaned
<1>4. n = Len(v) => Cleaned(t) = w
  BY <1>2, PlainCleaned
<1>5. w \in Seq(Character) /\ \A x \in 1 .. Len(w) : w[x] # Quote
  <2>1. w \in Seq(Character) /\ \A x \in 1 .. Len(w) : \E y \in 1 .. Len(v) : w[x] = v[y]
    BY TrimmedIs
  <2> HIDE DEF w
  <2>2. QED
    BY <1>2, <2>1
<1> HIDE DEF t, w
<1>6. Cleaned(t) \in Seq(Character)
  BY <1>1, CleanedIs
<1>7. Cleaned(t) = << >> \/ Cleaned(t)[1] # Quote
  <2>1. Len(Prefix(w, k)) = k /\ \A x \in 1 .. k : Prefix(w, k)[x] = w[x]
    BY <1>5, PrefixIs
  <2>2. Cleaned(t) # << >> => 1 \in 1 .. k
    BY <1>3, <1>6, <2>1
  <2>3. 1 \in 1 .. k => Prefix(w, k)[1] # Quote
    BY <1>5, <2>1
  <2>4. QED
    BY <1>3, <2>2, <2>3
<1>8. ValueFound(t, maxlen) = CopyNone(Cleaned(t), maxlen)
  BY <1>1, <1>6, <1>7, ValueFoundIs
<1>9. PICK x \in 0 .. Len(Cleaned(t)) : CopyNone(Cleaned(t), maxlen) = Prefix(Cleaned(t), x)
  BY <1>6, CopyNoneIs
<1>10. /\ Len(Prefix(w, k)) = k
       /\ \A y \in 0 .. k : Prefix(Prefix(w, k), y) = Prefix(w, y)
  BY <1>5, PrefixIs
<1>11. x \in 0 .. Len(w) /\ ValueFound(t, maxlen) = Prefix(w, x)
  BY <1>3, <1>5, <1>8, <1>9, <1>10
<1>12. QED
  BY <1>4, <1>8, <1>11 DEF t, w

\* A text that needs no quotes, and that has no blank to lose.
LEMMA SolidReads ==
  ASSUME NEW v \in Seq(Character), v # << >>,
         \A k \in 1 .. Len(v) : v[k] \notin {Quote} \cup Blank \cup Comment
  PROVE  ~check_enquote(v) /\ Trimmed(v) = v
<1>1. 1 \in 1 .. Len(v) /\ Len(v) \in 1 .. Len(v)
  OBVIOUS
<1>2. ~check_enquote(v)
  BY <1>1, CharactersDiffer DEF check_enquote, Last
<1>3. QED
  BY <1>1, <1>2, TrimmedIs

\* Of a single character, that or nothing is read.
LEMMA ShortReads ==
  ASSUME NEW v \in Seq(Character), NEW n \in 0 .. Len(v), n <= 1, NEW maxlen \in Nat \ {0}
  PROVE  \E k \in 0 .. n : ValueFound(Prefix(v, n), maxlen) = Prefix(v, k)
<1> DEFINE t == Prefix(v, n)
<1>1. t \in Seq(Character) /\ Len(t) = n
      /\ (\A k \in 0 .. n : Prefix(t, k) = Prefix(v, k)) /\ Prefix(t, Len(t)) = t
  BY PrefixIs
<1> HIDE DEF t
<1> DEFINE c == Cleaned(t)
<1>2. c \in Seq(Character) /\ Len(c) <= n
  BY <1>1, CleanedIs
<1>3. Prefix(v, 0) = << >>
  BY DEF Prefix
<1>4. c = << >> \/ c = t
  <2>1. t = << >> \/ t[1] \notin Blank => c = t \/ c = << >>
    <3>1. ASSUME NEW k \in 0 .. n, c = Prefix(t, k) PROVE c = t \/ c = << >>
      <4>1. k = 0 \/ k = n
        OBVIOUS
      <4>2. QED
        BY <1>1, <1>3, <3>1, <4>1
    <3>2. QED
      BY <1>1, <3>1, CleanedIs
  <2>2. CASE t # << >> /\ t[1] \in Blank
    <3>1. n = 1
      BY <1>1, <2>2
    <3>2. PICK k \in 0 .. 1 : skipleading(t) = SubSeq(t, k + 1, 1)
      BY <1>1, <3>1, SkipLeadingIs
    <3>3. skipleading(t) = << >> \/ skipleading(t) = t
      <4>1. k = 0 => SubSeq(t, k + 1, 1) = t
        BY <1>1, <3>1 DEF Prefix
      <4>2. k = 1 => SubSeq(t, k + 1, 1) = << >>
        BY <1>1
      <4>3. QED
        BY <3>2, <4>1, <4>2
    <3> DEFINE string == skipleading(t)
               x == CommentAt(string) - 1
               p == Prefix(string, x)
    <3>4. string \in Seq(Character) /\ Len(string) <= 1 /\ (string = t \/ string = << >>)
      <4>1. << >> \in Seq(Character) /\ Len(<< >>) <= 1
        OBVIOUS
      <4>2. t \in Seq(Character) /\ Len(t) <= 1
        BY <1>1, <3>1
      <4>3. \A w : w = t \/ w = << >> => w \in Seq(Character) /\ Len(w) <= 1
        BY <4>1, <4>2
      <4>4. QED
        BY <3>3, <4>3
    <3>5. c = striptrailing(p)
      BY DEF Cleaned
    <3> HIDE DEF c, string
    <3>6. x \in 0 .. Len(string)
      BY <3>4, CommentAtIs
    <3> HIDE DEF x
    <3>7. p \in Seq(Character) /\ Len(p) = x
          /\ (\A y \in 0 .. x : Prefix(p, y) = Prefix(string, y))
      BY <3>4, <3>6, PrefixIs
    <3> HIDE DEF p
    <3>8. PICK y \in 0 .. x : c = Prefix(p, y)
      BY <3>5, <3>7, StripTrailingIs
    <3>9. c = Prefix(string, y) /\ y \in 0 .. Len(string)
      BY <3>4, <3>6, <3>7, <3>8
    <3>10. y = 0 \/ y = Len(string)
      BY <3>4, <3>9
    <3>11. Prefix(string, 0) = << >> /\ Prefix(string, Len(string)) = string
      BY <3>4, PrefixIs DEF Prefix
    <3>12. QED
      BY <3>4, <3>9, <3>10, <3>11
  <2>3. QED
    BY <2>1, <2>2
<1> HIDE DEF c
<1>5. SubSeq(c, 2, Len(c) - 1) = << >>
  BY <1>2
<1>6. Dequoted(<< >>) = << >>
  <2>1. << >> \in Seq(Character) /\ Len(<< >>) = 0
    OBVIOUS
  <2>2. PICK d \in [0 .. 0 -> Seq(Character)] : Dequoted(<< >>) = d[0] /\ d[0] = << >>
    BY <2>1, DequotedIs
  <2>3. QED
    BY <2>2
<1>7. CopyNone(<< >>, maxlen) = << >>
  BY CopyNoneIs, PrefixIs
<1>8. \E k \in 0 .. n : CopyNone(c, maxlen) = Prefix(v, k)
  <2>1. CASE c = << >>
    BY <1>3, <1>7, <2>1
  <2>2. CASE c = t
    BY <1>1, <2>2, CopyNoneIs
  <2>3. QED
    BY <1>4, <2>1, <2>2
<1>9. CopyNone(Dequoted(SubSeq(c, 2, Len(c) - 1)), maxlen) = Prefix(v, 0)
  BY <1>3, <1>5, <1>6, <1>7
<1>10. QED
  BY <1>1, <1>8, <1>9, ValueFoundIs DEF c, t

-----------------------------------------------------------------------------
(* Values in quotes.                                                         *)

\* A string that is longer begins with the shorter one.
LEMMA ConcatGrows ==
  ASSUME NEW s \in Seq(Character), NEW t \in Seq(Character), NEW w, w = s \o t
  PROVE  /\ Len(s) \in Nat /\ Len(w) \in Nat /\ Len(w) >= Len(s)
         /\ \A x \in 1 .. Len(s) : w[x] = s[x]
OBVIOUS

\* Where the cell of a character is in the copy of the first n.
LEMMA CellPlaces ==
  ASSUME NEW v \in Seq(Character), NEW n \in 0 .. Len(v), NEW m \in 0 .. n - 1
  PROVE  LET c == Cells(v)
             p == Len(c[m])
         IN  /\ p \in Nat /\ Len(c[m + 1]) <= Len(c[n])
             /\ IF v[m + 1] = Quote
                THEN Len(c[m + 1]) = p + 2 /\ c[n][p + 1] = Backslash /\ c[n][p + 2] = Quote
                ELSE Len(c[m + 1]) = p + 1 /\ c[n][p + 1] = v[m + 1]
             /\ c[n][p + 1] # Quote /\ p < Len(c[m + 1])
<1> DEFINE c == Cells(v)
           p == Len(c[m])
           q == Len(c[m + 1])
<1>1. /\ c \in [0 .. Len(v) -> Seq(Character)]
      /\ \A k \in 0 .. Len(v) - 1 : c[k + 1] = c[k] \o Cell(v[k + 1])
  BY CellsAre
<1> HIDE DEF c
<1>2. \A k \in 1 .. Len(v) : v[k] \in Character /\ Cell(v[k]) \in Seq(Character)
  BY CharactersDiffer DEF Cell
<1>3. m \in 0 .. Len(v) - 1 /\ m \in 0 .. Len(v) /\ m + 1 \in 1 .. Len(v) /\ Len(v) \in Nat
  OBVIOUS
<1>4. /\ c[m] \in Seq(Character) /\ p \in Nat /\ c[m + 1] = c[m] \o Cell(v[m + 1])
      /\ c[m + 1] \in Seq(Character) /\ q \in Nat
  <2>1. c[m + 1] = c[m] \o Cell(v[m + 1])
    BY <1>1, <1>3
  <2>2. m + 1 \in 0 .. Len(v)
    BY <1>3
  <2>3. c[m] \in Seq(Character) /\ c[m + 1] \in Seq(Character)
    BY <1>1, <1>3, <2>2
  <2>4. p \in Nat /\ q \in Nat
    BY <2>3
  <2>5. QED
    BY <2>1, <2>3, <2>4
<1>5. IF v[m + 1] = Quote
      THEN q = p + 2 /\ c[m + 1][p + 1] = Backslash /\ c[m + 1][p + 2] = Quote
      ELSE q = p + 1 /\ c[m + 1][p + 1] = v[m + 1]
  <2>1. CASE v[m + 1] = Quote
    <3>1. Cell(v[m + 1]) = <<Backslash, Quote>>
      BY <2>1 DEF Cell
    <3>2. <<Backslash, Quote>> \in Seq(Character) /\ Len(<<Backslash, Quote>>) = 2
      BY CharactersDiffer
    <3>3. /\ Len(c[m] \o <<Backslash, Quote>>) = p + 2
          /\ (c[m] \o <<Backslash, Quote>>)[p + 1] = Backslash
          /\ (c[m] \o <<Backslash, Quote>>)[p + 2] = Quote
      BY <1>4, <3>2
    <3>4. QED
      BY <1>4, <2>1, <3>1, <3>3
  <2>2. CASE v[m + 1] # Quote
    <3>1. Cell(v[m + 1]) = <<v[m + 1]>>
      BY <2>2 DEF Cell
    <3>2. <<v[m + 1]>> \in Seq(Character) /\ Len(<<v[m + 1]>>) = 1
      BY <1>2, <1>3
    <3>3. /\ Len(c[m] \o <<v[m + 1]>>) = p + 1
          /\ (c[m] \o <<v[m + 1]>>)[p + 1] = v[m + 1]
      BY <1>4, <3>2
    <3>4. QED
      BY <1>4, <2>2, <3>1, <3>3
  <2>3. QED
    BY <2>1, <2>2
<1> HIDE DEF p, q
<1> DEFINE T == {k \in 0 .. n - (m + 1) :
                   /\ q <= Len(c[(m + 1) + k])
                   /\ \A x \in 1 .. q : c[(m + 1) + k][x] = c[m + 1][x]}
<1>6. 0 \in T
  <2>1. (m + 1) + 0 = m + 1 /\ 0 \in 0 .. n - (m + 1)
    BY <1>3
  <2>2. q <= Len(c[m + 1])
    BY <1>4 DEF q
  <2>3. QED
    BY <2>1, <2>2
<1>7. ASSUME NEW k \in 0 .. (n - (m + 1)) - 1, k \in T PROVE k + 1 \in T
  <2> DEFINE a == (m + 1) + k
  <2>1. /\ a \in 0 .. Len(v) - 1 /\ a + 1 \in 1 .. Len(v) /\ a \in 0 .. Len(v)
        /\ (m + 1) + (k + 1) = a + 1 /\ k + 1 \in 0 .. n - (m + 1)
    BY <1>3, <1>7
  <2>2. q <= Len(c[a]) /\ \A x \in 1 .. q : c[a][x] = c[m + 1][x]
    BY <1>7
  <2> HIDE DEF a
  <2>3. c[a + 1] = c[a] \o Cell(v[a + 1]) /\ c[a] \in Seq(Character)
        /\ Cell(v[a + 1]) \in Seq(Character)
    BY <1>1, <1>2, <2>1
  <2>4. /\ Len(c[a]) \in Nat /\ Len(c[a + 1]) \in Nat /\ Len(c[a + 1]) >= Len(c[a])
        /\ \A x \in 1 .. Len(c[a]) : c[a + 1][x] = c[a][x]
    <3> DEFINE s == c[a]
               t == Cell(v[a + 1])
               w == c[a + 1]
    <3>1. s \in Seq(Character) /\ t \in Seq(Character) /\ w = s \o t
      BY <2>3
    <3> HIDE DEF s, t, w
    <3>2. /\ Len(s) \in Nat /\ Len(w) \in Nat /\ Len(w) >= Len(s)
          /\ \A x \in 1 .. Len(s) : w[x] = s[x]
      BY <3>1, ConcatGrows
    <3>3. QED
      BY <3>2 DEF s, w
  <2>5. q <= Len(c[a + 1]) /\ \A x \in 1 .. q : c[a + 1][x] = c[m + 1][x]
    <3>1. q \in Nat
      BY <1>4 DEF q
    <3>2. \A x \in 1 .. q : x \in 1 .. Len(c[a])
      BY <2>2, <2>4, <3>1
    <3>3. QED
      BY <2>2, <2>4, <3>1, <3>2
  <2>6. QED
    BY <2>1, <2>5
<1>8. n - (m + 1) \in Nat /\ (m + 1) + (n - (m + 1)) = n
  BY <1>3
<1>9. n - (m + 1) \in T
  <2> HIDE DEF T
  <2>1. \A k \in 0 .. n - (m + 1) : k \in T
    BY <1>6, <1>7, <1>8, Inductively
  <2>2. QED
    BY <1>8, <2>1
<1>10. q <= Len(c[n]) /\ \A x \in 1 .. q : c[n][x] = c[m + 1][x]
  BY <1>8, <1>9
<1>11. IF v[m + 1] = Quote
       THEN q = p + 2 /\ c[n][p + 1] = Backslash /\ c[n][p + 2] = Quote
       ELSE q = p + 1 /\ c[n][p + 1] = v[m + 1]
  <2>1. p \in Nat
    BY <1>4 DEF p
  <2>2. CASE v[m + 1] = Quote
    <3>1. p + 1 \in 1 .. q /\ p + 2 \in 1 .. q
      BY <1>5, <2>1, <2>2
    <3>2. QED
      BY <1>5, <1>10, <2>2, <3>1
  <2>3. CASE v[m + 1] # Quote
    <3>1. p + 1 \in 1 .. q
      BY <1>5, <2>1, <2>3
    <3>2. QED
      BY <1>5, <1>10, <2>3, <3>1
  <2>4. QED
    BY <2>2, <2>3
<1>12. p < q
  <2>1. p \in Nat
    BY <1>4 DEF p
  <2>2. QED
    BY <1>5, <2>1
<1>13. QED
  BY <1>4, <1>10, <1>11, <1>12, CharactersDiffer DEF p, q, c

\* What is written in quotes is a beginning of the value, the whole if it fits.
LEMMA EnquotedIs ==
  ASSUME NEW v \in Seq(Character), NEW maxlen \in Nat, maxlen >= 3
  PROVE  \E n \in 0 .. Len(v) :
           /\ CopyEnquote(v, maxlen) = <<Quote>> \o Cells(v)[n] \o <<Quote>>
           /\ 1 + Len(Cells(v)[n]) <= maxlen - 2
           /\ Len(Cells(v)[Len(v)]) + 2 < maxlen => n = Len(v)
<1> DEFINE cells == Cells(v)
           Chosen(n) == /\ 1 + Len(cells[n]) <= maxlen - 2
                        /\ n = Len(v) \/ 1 + Len(cells[n + 1]) > maxlen - 2
           n == CHOOSE n \in 0 .. Len(v) : Chosen(n)
           I == {k \in 0 .. Len(v) : k = Len(v) \/ 1 + Len(cells[k + 1]) > maxlen - 2}
<1>1. CopyEnquote(v, maxlen) = <<Quote>> \o cells[n] \o <<Quote>>
  BY DEF CopyEnquote
<1>2. cells \in [0 .. Len(v) -> Seq(Character)] /\ cells[0] = << >>
  BY CellsAre
<1> HIDE DEF cells
<1>3. PICK k \in I : \A y \in I : k <= y
  <2>1. I \subseteq Nat /\ Len(v) \in I
    OBVIOUS
  <2> HIDE DEF I
  <2>2. QED
    BY <2>1, Smallest
<1>4. k \in 0 .. Len(v) /\ Chosen(k)
  <2>1. CASE k = 0
    <3>1. Len(cells[k]) = 0
      BY <1>2, <2>1
    <3>2. QED
      BY <1>3, <2>1, <3>1
  <2>2. CASE k # 0
    <3>1. k - 1 \in 0 .. Len(v) /\ k - 1 # Len(v) /\ ~(k <= k - 1) /\ (k - 1) + 1 = k
          /\ k \in 0 .. Len(v)
      BY <1>3, <2>2
    <3>2. k - 1 \notin I
      BY <1>3, <3>1
    <3>3. Len(cells[k]) \in Nat
      BY <1>2, <3>1
    <3>4. 1 + Len(cells[k]) <= maxlen - 2
      BY <3>1, <3>2, <3>3
    <3>5. QED
      BY <1>3, <3>4
  <2>3. QED
    BY <2>1, <2>2
<1> HIDE DEF I
<1>5. n \in 0 .. Len(v) /\ Chosen(n)
  <2> HIDE DEF Chosen
  <2>1. QED
    BY <1>4
<1> HIDE DEF n
<1>6. ASSUME Len(cells[Len(v)]) + 2 < maxlen PROVE n = Len(v)
  <2>1. SUFFICES ASSUME n # Len(v) PROVE FALSE
    OBVIOUS
  <2>2. n \in 0 .. Len(v) - 1 /\ Len(v) \in 0 .. Len(v) /\ n + 1 \in 0 .. Len(v)
    BY <1>5, <2>1
  <2>3. Len(cells[n + 1]) <= Len(cells[Len(v)])
    BY <2>2, CellPlaces DEF cells
  <2>4. Len(cells[n + 1]) \in Nat /\ Len(cells[Len(v)]) \in Nat
    BY <1>2, <2>2
  <2>5. QED
    BY <1>5, <1>6, <2>1, <2>3, <2>4
<1>7. QED
  BY <1>1, <1>5, <1>6 DEF cells

\* Two strings joined.
LEMMA JoinedIs ==
  ASSUME NEW s \in Seq(Character), NEW t \in Seq(Character)
  PROVE  /\ s \o t \in Seq(Character) /\ Len(s) \in Nat /\ Len(t) \in Nat
         /\ Len(s \o t) = Len(s) + Len(t)
         /\ \A x \in 1 .. Len(s) : (s \o t)[x] = s[x]
         /\ \A x \in 1 .. Len(t) : (s \o t)[Len(s) + x] = t[x]
<1>1. /\ s \o t \in Seq(Character) /\ Len(s) \in Nat /\ Len(t) \in Nat
      /\ Len(s \o t) = Len(s) + Len(t)
  OBVIOUS
<1>2. \A x \in 1 .. Len(s) : (s \o t)[x] = s[x]
  OBVIOUS
<1>3. ASSUME NEW x \in 1 .. Len(t) PROVE (s \o t)[Len(s) + x] = t[x]
  <2>1. Len(s) + x \in 1 .. Len(s) + Len(t) /\ ~(Len(s) + x <= Len(s)) /\ (Len(s) + x) - Len(s) = x
    BY <1>1
  <2>2. (s \o t)[Len(s) + x] = t[(Len(s) + x) - Len(s)]
    BY <2>1, ConcatProperties
  <2>3. QED
    BY <2>1, <2>2
<1>4. QED
  BY <1>1, <1>2, <1>3

\* A string between quotes.
LEMMA QuotedIs ==
  ASSUME NEW s \in Seq(Character), NEW t, t = <<Quote>> \o s \o <<Quote>>
  PROVE  /\ t \in Seq(Character) /\ Len(s) \in Nat /\ Len(t) = Len(s) + 2
         /\ t[1] = Quote /\ t[Len(s) + 2] = Quote
         /\ \A x \in 1 .. Len(s) : t[x + 1] = s[x]
         /\ SubSeq(t, 2, Len(t) - 1) = s
<1> DEFINE q == <<Quote>>
           a == q \o s
<1>1. q \in Seq(Character) /\ Len(q) = 1 /\ q[1] = Quote
  BY CharactersDiffer
<1>3. t = a \o q
  OBVIOUS
<1> HIDE DEF q
<1>2. a \in Seq(Character) /\ Len(s) \in Nat /\ Len(a) = Len(s) + 1 /\ a[1] = Quote
      /\ \A x \in 1 .. Len(s) : a[x + 1] = s[x]
  <2>1. /\ a \in Seq(Character) /\ Len(s) \in Nat /\ Len(a) = Len(q) + Len(s)
        /\ \A x \in 1 .. Len(q) : a[x] = q[x]
        /\ \A x \in 1 .. Len(s) : a[Len(q) + x] = s[x]
    BY <1>1, JoinedIs
  <2> HIDE DEF a
  <2>2. \A x \in 1 .. Len(s) : Len(q) + x = x + 1
    BY <1>1
  <2>3. 1 \in 1 .. Len(q)
    BY <1>1
  <2>4. QED
    BY <1>1, <2>1, <2>2, <2>3
<1> HIDE DEF a
<1>4. t \in Seq(Character) /\ Len(t) = Len(s) + 2 /\ t[Len(s) + 2] = Quote
      /\ \A x \in 1 .. Len(s) + 1 : t[x] = a[x]
  BY <1>1, <1>2, <1>3
<1>5. t[1] = Quote /\ \A x \in 1 .. Len(s) : t[x + 1] = s[x]
  <2>1. 1 \in 1 .. Len(s) + 1 /\ \A x \in 1 .. Len(s) : x + 1 \in 1 .. Len(s) + 1
    BY <1>2
  <2>2. QED
    BY <1>2, <1>4, <2>1
<1> DEFINE u == SubSeq(t, 2, Len(t) - 1)
<1>6. u \in Seq(Character) /\ Len(u) = Len(s) /\ \A x \in 1 .. Len(s) : u[x] = t[x + 1]
  BY <1>2, <1>4
<1>7. u = s
  <2> HIDE DEF u
  <2>1. \A x \in 1 .. Len(s) : u[x] = s[x]
    BY <1>5, <1>6
  <2>2. QED
    BY <1>6, <2>1, SeqEqual
<1>8. QED
  BY <1>2, <1>4, <1>5, <1>7

\* A beginning that is one character longer.
LEMMA PrefixGrows ==
  ASSUME NEW v \in Seq(Character), NEW m \in 0 .. Len(v) - 1
  PROVE  Append(Prefix(v, m), v[m + 1]) = Prefix(v, m + 1)
<1>1. m \in 0 .. Len(v) /\ m + 1 \in 0 .. Len(v) /\ m + 1 \in 1 .. Len(v) /\ v[m + 1] \in Character
  OBVIOUS
<1> DEFINE p == Prefix(v, m)
           w == Prefix(v, m + 1)
           u == Append(p, v[m + 1])
<1>2. p \in Seq(Character) /\ Len(p) = m /\ \A x \in 1 .. m : p[x] = v[x]
  BY <1>1, PrefixIs
<1>3. w \in Seq(Character) /\ Len(w) = m + 1 /\ \A x \in 1 .. m + 1 : w[x] = v[x]
  BY <1>1, PrefixIs
<1> HIDE DEF p, w
<1>4. u \in Seq(Character) /\ Len(u) = m + 1 /\ u[m + 1] = v[m + 1]
      /\ \A x \in 1 .. m : u[x] = p[x]
  BY <1>1, <1>2
<1> HIDE DEF u
<1>5. \A x \in 1 .. Len(u) : u[x] = w[x]
  <2>1. \A x \in 1 .. Len(u) : x \in 1 .. m + 1 /\ (x = m + 1 \/ x \in 1 .. m)
    BY <1>4
  <2>2. QED
    BY <1>2, <1>3, <1>4, <2>1
<1>6. u = w
  BY <1>3, <1>4, <1>5, SeqEqual
<1>7. QED
  BY <1>6 DEF u, p, w

\* Where a cell ends, no quote follows in the copy; a cell of two is skipped as one.
LEMMA CellEnds ==
  ASSUME NEW v \in Seq(Character), NEW n \in 0 .. Len(v), NEW m \in 0 .. n - 1
  PROVE  LET c == Cells(v)
             q == Len(c[m + 1])
         IN  q < Len(c[n]) => c[n][q + 1] # Quote
<1>1. CASE m + 1 = n
  BY <1>1, CellPlaces
<1>2. CASE m + 1 # n
  <2>1. m + 1 \in 0 .. n - 1
    BY <1>2
  <2>2. QED
    BY <2>1, CellPlaces
<1>3. QED
  BY <1>1, <1>2

\* Taking off the quotes that escape is the inverse of writing them, also of a part.
LEMMA CellsDequoted ==
  ASSUME NEW v \in Seq(Character), NEW n \in 0 .. Len(v)
  PROVE  Dequoted(Cells(v)[n]) = Prefix(v, n)
<1> DEFINE c == Cells(v)
           s == c[n]
<1>1. s \in Seq(Character) /\ c[0] = << >>
  BY CellsAre
<1>2. PICK d \in [0 .. Len(s) -> Seq(Character)] :
        /\ Dequoted(s) = d[Len(s)] /\ d[0] = << >>
        /\ \A k \in 1 .. Len(s) :
             d[k] = IF Skips(s)[k] THEN d[k - 1] ELSE Append(d[k - 1], s[k])
  BY <1>1, DequotedIs
<1> DEFINE skips == Skips(s)
           T == {m \in 0 .. n : ~skips[Len(c[m])] /\ d[Len(c[m])] = Prefix(v, m)}
<1>3. /\ ~skips[0]
      /\ \A k \in 1 .. Len(s) :
           skips[k] <=> k < Len(s) /\ s[k] \in {Quote, Backslash} /\ s[k + 1] = Quote
                          /\ ~skips[k - 1]
  BY <1>1, SkipsAre
<1>4. \A k \in 1 .. Len(s) : d[k] = IF skips[k] THEN d[k - 1] ELSE Append(d[k - 1], s[k])
  BY <1>2
<1>5. 0 \in T
  <2>1. Len(c[0]) = 0 /\ Prefix(v, 0) = << >>
    BY <1>1 DEF Prefix
  <2> HIDE DEF c, skips
  <2>2. QED
    BY <1>2, <1>3, <2>1
<1> HIDE DEF skips
<1>6. ASSUME NEW m \in 0 .. n - 1, m \in T PROVE m + 1 \in T
  <2> DEFINE p == Len(c[m])
             q == Len(c[m + 1])
  <2>1. /\ p \in Nat /\ q <= Len(s)
        /\ IF v[m + 1] = Quote
           THEN q = p + 2 /\ s[p + 1] = Backslash /\ s[p + 2] = Quote
           ELSE q = p + 1 /\ s[p + 1] = v[m + 1]
    BY CellPlaces
  <2>2. q < Len(s) => s[q + 1] # Quote
    BY CellEnds
  <2>3. ~skips[p] /\ d[p] = Prefix(v, m)
    BY <1>6
  <2>4. Append(Prefix(v, m), v[m + 1]) = Prefix(v, m + 1)
    BY PrefixGrows
  <2>0. Len(s) \in Nat
    BY <1>1
  <2> HIDE DEF p, q, s
  <2>5. CASE v[m + 1] = Quote
    <3>1. p + 1 \in 1 .. Len(s) /\ p + 2 \in 1 .. Len(s) /\ (p + 1) - 1 = p
          /\ (p + 2) - 1 = p + 1 /\ (p + 1) + 1 = p + 2 /\ p + 1 < Len(s)
      BY <2>0, <2>1, <2>5
    <3>2. skips[p + 1]
      BY <1>3, <2>1, <2>3, <2>5, <3>1
    <3>3. ~skips[p + 2]
      BY <1>3, <3>1, <3>2
    <3>4. d[p + 1] = d[p] /\ d[p + 2] = Append(d[p + 1], s[p + 2])
      BY <1>4, <3>1, <3>2, <3>3
    <3>5. d[p + 2] = Prefix(v, m + 1)
      BY <2>1, <2>3, <2>4, <2>5, <3>4
    <3>6. q = p + 2
      BY <2>1, <2>5
    <3>7. QED
      BY <3>3, <3>5, <3>6 DEF q
  <2>6. CASE v[m + 1] # Quote
    <3>1. p + 1 \in 1 .. Len(s) /\ (p + 1) - 1 = p /\ q = p + 1 /\ s[p + 1] = v[m + 1]
      BY <2>0, <2>1, <2>6
    <3>2. ~skips[p + 1]
      BY <1>3, <2>2, <3>1
    <3>3. d[p + 1] = Append(d[p], s[p + 1])
      BY <1>4, <3>1, <3>2
    <3>4. d[p + 1] = Prefix(v, m + 1)
      BY <2>3, <2>4, <3>1, <3>3
    <3>5. QED
      BY <3>1, <3>2, <3>4 DEF q
  <2>7. QED
    BY <2>5, <2>6
<1>7. n \in T
  <2> HIDE DEF T
  <2>1. n \in Nat
    OBVIOUS
  <2>2. \A m \in 0 .. n : m \in T
    BY <1>5, <1>6, <2>1, Inductively
  <2>3. QED
    BY <2>1, <2>2
<1>8. QED
  BY <1>2, <1>7

\* Between the quotes that writekey writes, no comment begins.
LEMMA QuotesHide ==
  ASSUME NEW v \in Seq(Character), NEW n \in 0 .. Len(v),
         NEW t, t = <<Quote>> \o Cells(v)[n] \o <<Quote>>
  PROVE  \A x \in 1 .. Len(t) : t[x] \in Comment => InQuotes(t)[x - 1]
<1> DEFINE c == Cells(v)
           s == c[n]
           skips == Skips(t)
           quoted == InQuotes(t)
<1>1. s \in Seq(Character) /\ c[0] = << >>
  BY CellsAre
<1>2. /\ t \in Seq(Character) /\ Len(s) \in Nat /\ Len(t) = Len(s) + 2
      /\ t[1] = Quote /\ t[Len(s) + 2] = Quote
      /\ \A x \in 1 .. Len(s) : t[x + 1] = s[x]
  BY <1>1, QuotedIs
<1>3. /\ ~skips[0]
      /\ \A k \in 1 .. Len(t) :
           skips[k] <=> k < Len(t) /\ t[k] \in {Quote, Backslash} /\ t[k + 1] = Quote
                          /\ ~skips[k - 1]
  BY <1>2, SkipsAre
<1>4. /\ ~quoted[0]
      /\ \A k \in 1 .. Len(t) :
           quoted[k] = IF t[k] = Quote /\ ~skips[k] /\ ~skips[k - 1]
                       THEN ~quoted[k - 1] ELSE quoted[k - 1]
  BY <1>2, InQuotesAre
<1> HIDE DEF skips, quoted
<1>5. Quote \notin Comment
  BY CharactersDiffer
<1> DEFINE T == {m \in 0 .. n : /\ m < n => ~skips[1 + Len(c[m])]
                                /\ \A x \in 1 .. 1 + Len(c[m]) : quoted[x]}
<1>6. ASSUME n # 0 PROVE 0 \in T
  <2>1. 0 \in 0 .. n - 1 /\ Len(c[0]) = 0
    BY <1>1, <1>6
  <2>2. s[1] # Quote /\ 1 \in 1 .. Len(s)
    <3>1. /\ Len(c[0 + 1]) <= Len(s) /\ s[Len(c[0]) + 1] # Quote /\ Len(c[0]) \in Nat
          /\ Len(c[0]) < Len(c[0 + 1])
      BY <2>1, CellPlaces
    <3>2. QED
      BY <1>2, <2>1, <3>1
  <2>3. t[1 + 1] # Quote /\ 1 \in 1 .. Len(t)
    BY <1>2, <2>2
  <2>4. ~skips[1]
    BY <1>3, <2>3
  <2>5. ~skips[1 - 1] /\ ~quoted[1 - 1]
    BY <1>3, <1>4
  <2>6. quoted[1]
    BY <1>2, <1>4, <2>3, <2>4, <2>5
  <2> HIDE DEF c
  <2>7. \A x \in 1 .. 1 + Len(c[0]) : x = 1
    BY <2>1
  <2>8. 1 + Len(c[0]) = 1
    BY <2>1
  <2>9. QED
    BY <2>1, <2>4, <2>6, <2>7, <2>8
<1>7. ASSUME NEW m \in 0 .. n - 1, m \in T PROVE m + 1 \in T
  <2> DEFINE p == Len(c[m])
             q == Len(c[m + 1])
  <2>1. /\ p \in Nat /\ q <= Len(s)
        /\ IF v[m + 1] = Quote
           THEN q = p + 2 /\ s[p + 1] = Backslash /\ s[p + 2] = Quote
           ELSE q = p + 1 /\ s[p + 1] = v[m + 1]
    BY CellPlaces
  <2>2. ASSUME m + 1 < n PROVE q < Len(s) /\ s[q + 1] # Quote
    <3>1. m + 1 \in 0 .. n - 1
      BY <2>2
    <3>2. /\ q \in Nat /\ Len(c[(m + 1) + 1]) <= Len(s) /\ s[q + 1] # Quote
          /\ q < Len(c[(m + 1) + 1])
      BY <3>1, CellPlaces
    <3>3. QED
      BY <1>2, <3>2
  <2>3. ~skips[1 + p] /\ \A x \in 1 .. 1 + p : quoted[x]
    BY <1>7
  <2>0. m + 1 \in 0 .. n
    OBVIOUS
  <2> HIDE DEF p, q, s
  <2>4. quoted[1 + p]
    BY <2>1, <2>3
  <2>5. CASE v[m + 1] = Quote
    <3>1. /\ p + 2 \in 1 .. Len(t) /\ p + 3 \in 1 .. Len(t) /\ p + 1 \in 1 .. Len(s)
          /\ p + 2 \in 1 .. Len(s) /\ p + 2 < Len(t)
          /\ (p + 2) - 1 = 1 + p /\ (p + 3) - 1 = p + 2 /\ (p + 2) + 1 = p + 3
          /\ (p + 1) + 1 = p + 2 /\ q = p + 2
      BY <1>2, <2>1, <2>5
    <3>2. t[p + 2] = Backslash /\ t[p + 3] = Quote
      <4>1. t[(p + 1) + 1] = s[p + 1] /\ t[(p + 2) + 1] = s[p + 2]
        BY <1>2, <3>1
      <4>2. QED
        BY <2>1, <2>5, <3>1, <4>1
    <3>3. skips[p + 2]
      BY <1>3, <2>3, <3>1, <3>2
    <3>4. ~skips[p + 3]
      BY <1>3, <3>1, <3>3
    <3>5. quoted[p + 2]
      <4>1. t[p + 2] # Quote
        BY <3>2, CharactersDiffer
      <4>2. quoted[p + 2] = quoted[1 + p]
        BY <1>4, <3>1, <4>1
      <4>3. QED
        BY <2>4, <4>2
    <3>6. quoted[p + 3]
      <4>1. quoted[p + 3] = quoted[p + 2]
        BY <1>4, <3>1, <3>3
      <4>2. QED
        BY <3>5, <4>1
    <3>7. 1 + q = p + 3
      BY <2>1, <3>1
    <3>8. \A x \in 1 .. 1 + q : x \in 1 .. 1 + p \/ x = p + 2 \/ x = p + 3
      BY <2>1, <3>1
    <3>9. ~skips[1 + q] /\ \A x \in 1 .. 1 + q : quoted[x]
      BY <2>3, <3>4, <3>5, <3>6, <3>7, <3>8
    <3>10. QED
      BY <2>0, <3>9 DEF q
  <2>6. CASE v[m + 1] # Quote
    <3>1. /\ p + 2 \in 1 .. Len(t) /\ p + 1 \in 1 .. Len(s) /\ (p + 2) - 1 = 1 + p
          /\ (p + 1) + 1 = p + 2 /\ q = p + 1
      BY <1>2, <2>1, <2>6
    <3>2. t[p + 2] = s[p + 1] /\ s[p + 1] # Quote
      BY <1>2, <2>1, <2>6, <3>1
    <3>3. quoted[p + 2]
      <4>1. quoted[p + 2] = quoted[1 + p]
        BY <1>4, <3>1, <3>2
      <4>2. QED
        BY <2>4, <4>1
    <3>4. 1 + q = p + 2 /\ \A x \in 1 .. 1 + q : x \in 1 .. 1 + p \/ x = p + 2
      BY <2>1, <3>1
    <3>5. ASSUME m + 1 < n PROVE ~skips[1 + q]
      <4>1. q < Len(s) /\ s[q + 1] # Quote
        BY <2>2, <3>5
      <4>2. q + 1 \in 1 .. Len(s) /\ (q + 1) + 1 = (p + 2) + 1
        BY <1>2, <2>1, <3>1, <4>1
      <4>3. t[(p + 2) + 1] # Quote
        BY <1>2, <4>1, <4>2
      <4>4. QED
        BY <1>3, <3>1, <3>4, <4>3
    <3>6. \A x \in 1 .. 1 + q : quoted[x]
      BY <2>3, <3>3, <3>4
    <3>7. QED
      BY <2>0, <3>5, <3>6 DEF q
  <2>7. QED
    BY <2>5, <2>6
<1>8. ASSUME n # 0 PROVE \A x \in 1 .. 1 + Len(s) : quoted[x]
  <2>1. n \in Nat /\ 0 \in T
    BY <1>6, <1>8
  <2> HIDE DEF T
  <2>2. \A m \in 0 .. n : m \in T
    BY <1>7, <2>1, Inductively
  <2>3. n \in T
    BY <2>1, <2>2
  <2>4. QED
    BY <2>3 DEF T
<1>9. ASSUME NEW x \in 1 .. Len(t), t[x] \in Comment PROVE quoted[x - 1]
  <2>1. x # 1 /\ x # Len(s) + 2
    BY <1>2, <1>5, <1>9
  <2>2. x - 1 \in 1 .. Len(s) /\ x - 1 \in 1 .. 1 + Len(s)
    <3> HIDE DEF s
    <3>1. QED
      BY <1>2, <2>1
  <2>3. n # 0
    <3>1. n = 0 => Len(s) = 0
      BY <1>1
    <3> HIDE DEF s
    <3>2. QED
      BY <2>2, <3>1
  <2>4. QED
    BY <1>8, <2>2, <2>3
<1>10. QED
  BY <1>9 DEF quoted

\* What was put in quotes reads back.
LEMMA EnquotedReads ==
  ASSUME NEW v \in Seq(Character), NEW n \in 0 .. Len(v), NEW maxlen \in Nat \ {0},
         NEW t, t = <<Quote>> \o Cells(v)[n] \o <<Quote>>
  PROVE  ValueFound(t, maxlen) = CopyNone(Prefix(v, n), maxlen)
<1> DEFINE s == Cells(v)[n]
<1>1. s \in Seq(Character)
  BY CellsAre
<1>3. \A x \in 1 .. Len(t) : t[x] \in Comment => InQuotes(t)[x - 1]
  BY QuotesHide
<1>4. Dequoted(s) = Prefix(v, n)
  BY CellsDequoted
<1>9. t = <<Quote>> \o s \o <<Quote>>
  OBVIOUS
<1> HIDE DEF s
<1>2. /\ t \in Seq(Character) /\ Len(s) \in Nat /\ Len(t) = Len(s) + 2
      /\ t[1] = Quote /\ t[Len(t)] = Quote /\ SubSeq(t, 2, Len(t) - 1) = s
  <2>1. /\ t \in Seq(Character) /\ Len(s) \in Nat /\ Len(t) = Len(s) + 2
        /\ t[1] = Quote /\ t[Len(s) + 2] = Quote /\ SubSeq(t, 2, Len(t) - 1) = s
    BY <1>1, <1>9, QuotedIs
  <2>2. QED
    BY <2>1
<1>5. Cleaned(t) = t
  BY <1>2, <1>3, CleanedIs, CharactersDiffer
<1>6. Len(Cleaned(t)) > 0 /\ Cleaned(t)[1] = Quote /\ Cleaned(t)[Len(Cleaned(t))] = Quote
      /\ SubSeq(Cleaned(t), 2, Len(Cleaned(t)) - 1) = s
  <2>1. Len(t) > 0
    BY <1>2
  <2>2. QED
    BY <1>2, <1>5, <2>1, Zenon
<1>7. ValueFound(t, maxlen) =
        CopyNone(Dequoted(SubSeq(Cleaned(t), 2, Len(Cleaned(t)) - 1)), maxlen)
  BY <1>2, <1>6, ValueFoundIs
<1>8. QED
  BY <1>4, <1>6, <1>7

\* Escapes make a text longer, if anything.
LEMMA CellsLonger ==
  ASSUME NEW v \in Seq(Character)
  PROVE  Len(Cells(v)[Len(v)]) \in Nat /\ Len(v) <= Len(Cells(v)[Len(v)])
<1> DEFINE c == Cells(v)
           T == {m \in 0 .. Len(v) : Len(c[m]) \in Nat /\ m <= Len(c[m])}
<1>1. c[0] = << >> /\ \A k \in 0 .. Len(v) : Len(c[k]) \in Nat
  <2>1. c \in [0 .. Len(v) -> Seq(Character)] /\ c[0] = << >>
    BY CellsAre
  <2> HIDE DEF c
  <2>2. QED
    BY <2>1
<1>2. 0 \in T
  BY <1>1
<1>3. ASSUME NEW m \in 0 .. Len(v) - 1, m \in T PROVE m + 1 \in T
  <2>0. Len(v) \in 0 .. Len(v)
    OBVIOUS
  <2>1. Len(c[m]) < Len(c[m + 1])
    BY <1>3, <2>0, CellPlaces
  <2> HIDE DEF c
  <2>2. m + 1 \in 0 .. Len(v) /\ Len(c[m + 1]) \in Nat /\ Len(c[m]) \in Nat /\ m <= Len(c[m])
    BY <1>1, <1>3
  <2>3. QED
    BY <2>1, <2>2
<1>4. Len(v) \in T
  <2> HIDE DEF T
  <2>1. Len(v) \in Nat
    OBVIOUS
  <2>2. \A m \in 0 .. Len(v) : m \in T
    BY <1>2, <1>3, <2>1, Inductively
  <2>3. QED
    BY <2>1, <2>2
<1>5. QED
  BY <1>4

-----------------------------------------------------------------------------
(* One value, written and read.                                              *)

\* The text of a number: it needs no quotes, and means the number.
LEMMA LongReads ==
  ASSUME NEW n \in Longs
  PROVE  /\ long2str(n) \in Seq(Character) /\ ~check_enquote(long2str(n))
         /\ Trimmed(long2str(n)) = long2str(n) /\ Len(long2str(n)) < 32
         /\ \A default : ini_getl(long2str(n), default) = n
<1>1. n \in Int
  BY LongAssumption DEF Longs
<1> DEFINE v == Digits(n)
           w == long2str(n)
<1> DEFINE Ones(len, e, r) ==
             /\ v = [k \in 1 .. len |-> Digit[e[k] + 1]]
             /\ r[0] = 0 /\ r[len] = Magnitude(n)
             /\ \A k \in 1 .. len : r[k] = (10 * r[k - 1]) + e[k]
<1>10. PICK len \in Nat \ {0} : \E e \in [1 .. len -> 0 .. 9] : \E r \in [0 .. len -> Nat] :
         Ones(len, e, r)
  BY <1>1, DigitsAre
<1>11. PICK e \in [1 .. len -> 0 .. 9] : \E r \in [0 .. len -> Nat] : Ones(len, e, r)
  BY <1>10
<1>12. PICK r \in [0 .. len -> Nat] : Ones(len, e, r)
  BY <1>11
<1>2. /\ v = [k \in 1 .. len |-> Digit[e[k] + 1]]
      /\ r[0] = 0 /\ r[len] = Magnitude(n)
      /\ \A k \in 1 .. len : r[k] = (10 * r[k - 1]) + e[k]
  BY <1>12
<1> HIDE DEF v
<1>3. Decimal(v) = Magnitude(n)
  <2>1. Decimal(v) = r[len]
    BY <1>2, DecimalIs
  <2>2. QED
    BY <1>2, <2>1
<1>4. \A k \in 1 .. len : e[k] + 1 \in 1 .. 10 /\ v[k] = Digit[e[k] + 1]
  <2>1. \A k \in 1 .. len : e[k] + 1 \in 1 .. 10
    <3>1. \A x \in 0 .. 9 : x + 1 \in 1 .. 10
      OBVIOUS
    <3>2. \A k \in 1 .. len : e[k] \in 0 .. 9
      BY <1>11, Zenon
    <3>3. QED
      BY <3>1, <3>2, Zenon
  <2>2. \A k \in 1 .. len : v[k] = Digit[e[k] + 1]
    BY <1>2, Zenon
  <2>3. QED
    BY <2>1, <2>2
<1>5. \A k \in 1 .. len : v[k] \in Character /\ v[k] \notin {Quote, "-"} \cup Blank \cup Comment
  BY <1>4, DigitsDiffer
<1>6. v \in Seq(Character) /\ Len(v) = len
  BY <1>2, <1>5
<1>7. CASE n >= 0
  <2>1. w = << >> \o v /\ Magnitude(n) = n
    <3>3. ~(n < 0)
      BY <1>1, <1>7
    <3>1. w = << >> \o v
      BY <3>3, Zenon DEF long2str, v
    <3>2. QED
      BY <1>1, <1>7, <3>1 DEF Magnitude
  <2>2. w = v
    BY <1>6, <2>1, ConcatEmptySeq
  <2>3. 1 \in 1 .. len /\ v # << >>
    BY <1>6
  <2>4. ~check_enquote(v) /\ Trimmed(v) = v
    BY <1>5, <1>6, <2>3, SolidReads
  <2>5. \A default : ini_getl(v, default) = n
    BY <1>3, <1>5, <2>1, <2>3 DEF ini_getl
  <2>6. QED
    BY <1>6, <2>2, <2>4, <2>5, LongTextAssumption
<1>8. CASE n < 0
  <2> DEFINE minus == <<"-">>
  <2>1. w = minus \o v /\ -Magnitude(n) = n
    BY <1>1, <1>8 DEF long2str, Magnitude, v
  <2>2. minus \in Seq(Character) /\ Len(minus) = 1 /\ minus[1] = "-"
    BY CharactersDiffer
  <2> HIDE DEF minus, w
  <2>3. /\ w \in Seq(Character) /\ Len(w) = 1 + len /\ w[1] = "-"
        /\ \A x \in 1 .. len : w[1 + x] = v[x]
    <3>1. /\ w \in Seq(Character) /\ Len(w) = Len(minus) + Len(v)
          /\ \A x \in 1 .. Len(minus) : w[x] = minus[x]
          /\ \A x \in 1 .. Len(v) : w[Len(minus) + x] = v[x]
      BY <1>6, <2>1, <2>2, JoinedIs
    <3>2. 1 \in 1 .. Len(minus)
      BY <2>2
    <3>3. QED
      BY <1>6, <2>2, <3>1, <3>2
  <2>4. ASSUME NEW x \in 1 .. Len(w) PROVE w[x] \notin {Quote} \cup Blank \cup Comment
    <3>1. x = 1 \/ (x - 1 \in 1 .. len /\ x = 1 + (x - 1))
      BY <2>3
    <3>2. "-" \notin {Quote} \cup Blank \cup Comment
      BY CharactersDiffer
    <3>3. CASE x - 1 \in 1 .. len /\ x = 1 + (x - 1)
      <4>1. w[1 + (x - 1)] = v[x - 1]
        BY <2>3, <3>3
      <4>2. QED
        BY <1>5, <3>3, <4>1, Zenon
    <3>4. QED
      BY <2>3, <3>1, <3>2, <3>3
  <2>5. w # << >> /\ Len(w) \in 1 .. Len(w) /\ 1 \in 1 .. Len(w)
    BY <2>3
  <2>6. ~check_enquote(w) /\ Trimmed(w) = w
    BY <2>3, <2>4, <2>5, SolidReads
  <2>7. Tail(w) = v
    <3>1. Tail(w) \in Seq(Character) /\ Len(Tail(w)) = len
          /\ \A x \in 1 .. len : Tail(w)[x] = w[x + 1]
      BY <2>3, <2>5
    <3>2. \A x \in 1 .. len : x + 1 = 1 + x
      OBVIOUS
    <3>3. \A x \in 1 .. Len(Tail(w)) : Tail(w)[x] = v[x]
      BY <2>3, <3>1, <3>2
    <3>4. QED
      BY <1>6, <3>1, <3>3, SeqEqual
  <2>8. \A default : ini_getl(w, default) = n
    BY <1>3, <2>1, <2>3, <2>5, <2>7 DEF ini_getl
  <2>9. QED
    BY <2>3, <2>6, <2>8, LongTextAssumption DEF w
<1>9. QED
  BY <1>1, <1>7, <1>8

\* The text of a truth value needs no quotes, and its first character tells it.
LEMMA BoolReads ==
  ASSUME NEW n \in {0, 1}
  PROVE  /\ BoolText(n) \in Seq(Character) /\ ~check_enquote(BoolText(n))
         /\ Len(BoolText(n)) >= 4 /\ Trimmed(BoolText(n)) = BoolText(n)
         /\ \A s \in Seq(Character) : \A default :
              s # << >> /\ s[1] = BoolText(n)[1] => ini_getbool(s, default) = n
<1>1. CASE n = 1
  <2> DEFINE w == <<"t", "r", "u", "e">>
  <2>1. BoolText(n) = w
    BY <1>1 DEF BoolText
  <2>2. w \in Seq(Character) /\ Len(w) = 4
    BY DEF Character
  <2>3. /\ w[1] = "t" /\ w[2] = "r" /\ w[3] = "u" /\ w[4] = "e"
        /\ \A k \in 1 .. 4 : k = 1 \/ k = 2 \/ k = 3 \/ k = 4
    OBVIOUS
  <2> HIDE DEF w
  <2>7. \A k \in 1 .. 4 : w[k] \in {"t", "r", "u", "e"}
    BY <2>3
  <2>8. {"t", "r", "u", "e"} \cap ({Quote} \cup Blank \cup Comment) = {}
    BY DEF Quote, Blank, Space, Tab, Comment
  <2>9. \A k \in 1 .. 4 : w[k] \notin {Quote} \cup Blank \cup Comment
    BY <2>7, <2>8
  <2>4. ~check_enquote(w) /\ Trimmed(w) = w
    BY <2>2, <2>9, SolidReads
  <2>5. \A s \in Seq(Character) : \A default :
          s # << >> /\ s[1] = w[1] => ini_getbool(s, default) = 1
    BY <2>3 DEF ini_getbool
  <2>10. Len(w) >= 4
    BY <2>2
  <2>6. QED
    BY <1>1, <2>1, <2>2, <2>4, <2>5, <2>10
<1>2. CASE n = 0
  <2> DEFINE w == <<"f", "a", "l", "s", "e">>
  <2>1. BoolText(n) = w
    BY <1>2 DEF BoolText
  <2>2. w \in Seq(Character) /\ Len(w) = 5
    BY DEF Character
  <2>3. /\ w[1] = "f" /\ w[2] = "a" /\ w[3] = "l" /\ w[4] = "s" /\ w[5] = "e"
        /\ \A k \in 1 .. 5 : k = 1 \/ k = 2 \/ k = 3 \/ k = 4 \/ k = 5
    OBVIOUS
  <2> HIDE DEF w
  <2>7. \A k \in 1 .. 5 : w[k] \in {"f", "a", "l", "s", "e"}
    BY <2>3
  <2>8. {"f", "a", "l", "s", "e"} \cap ({Quote} \cup Blank \cup Comment) = {}
    BY DEF Quote, Blank, Space, Tab, Comment
  <2>9. \A k \in 1 .. 5 : w[k] \notin {Quote} \cup Blank \cup Comment
    BY <2>7, <2>8
  <2>4. ~check_enquote(w) /\ Trimmed(w) = w
    BY <2>2, <2>9, SolidReads
  <2>5. \A s \in Seq(Character) : \A default :
          s # << >> /\ s[1] = w[1] => ini_getbool(s, default) = 0
    BY <2>3 DEF ini_getbool
  <2>10. Len(w) >= 4
    BY <2>2
  <2>6. QED
    BY <1>2, <2>1, <2>2, <2>4, <2>5, <2>10
<1>3. QED
  BY <1>1, <1>2

-----------------------------------------------------------------------------
(* The line that is written, and what is read from it.                       *)

\* The key, '=', what is left for the value and the terminator are the buffer.
LEMMA RoomIs ==
  ASSUME keylen \in Nat
  PROVE  /\ Room \in Nat \ {0} /\ Least(keylen, INI_BUFFERSIZE - 4) \in Nat
         /\ Least(keylen, INI_BUFFERSIZE - 4) + 1 + Room + 2 = INI_BUFFERSIZE
<1>1. /\ Least(keylen, INI_BUFFERSIZE - 4) \in Nat
      /\ Least(keylen, INI_BUFFERSIZE - 4) <= INI_BUFFERSIZE - 4
  BY BufferAssumption DEF Least
<1>2. QED
  BY <1>1, BufferAssumption DEF Room

\* What is written fits the room, whatever the value.
LEMMA CopiedFits ==
  ASSUME keylen \in Nat, NEW v \in Seq(Character)
  PROVE  Copied(v) \in Seq(Character) /\ Len(Copied(v)) \in Nat /\ Len(Copied(v)) < Room
<1>1. Room \in Nat \ {0}
  BY RoomIs
<1>2. CASE check_enquote(v) /\ Room >= 3
  <2>1. PICK n \in 0 .. Len(v) :
          /\ CopyEnquote(v, Room) = <<Quote>> \o Cells(v)[n] \o <<Quote>>
          /\ 1 + Len(Cells(v)[n]) <= Room - 2
    BY <1>1, <1>2, EnquotedIs
  <2> DEFINE c == Cells(v)[n]
             t == Copied(v)
  <2>2. t = <<Quote>> \o c \o <<Quote>>
    BY <1>2, <2>1 DEF Copied
  <2>3. c \in Seq(Character) /\ 1 + Len(c) <= Room - 2
    BY <2>1, CellsAre
  <2> HIDE DEF c, t
  <2>4. t \in Seq(Character) /\ Len(c) \in Nat /\ Len(t) = Len(c) + 2
    BY <2>2, <2>3, QuotedIs
  <2>5. Len(t) \in Nat /\ Len(t) < Room
    BY <1>1, <2>3, <2>4
  <2>6. QED
    BY <2>4, <2>5 DEF t
<1>3. CASE ~(check_enquote(v) /\ Room >= 3)
  <2>1. Copied(v) = CopyNone(v, Room)
    BY <1>3 DEF Copied
  <2>2. PICK n \in 0 .. Len(v) : n <= Room - 1 /\ CopyNone(v, Room) = Prefix(v, n)
    BY <1>1, CopyNoneIs
  <2>3. Copied(v) \in Seq(Character) /\ Len(Copied(v)) = n
    BY <2>1, <2>2, PrefixIs
  <2>4. n \in Nat /\ n < Room
    BY <1>1, <2>2
  <2>5. QED
    BY <2>3, <2>4
<1>4. QED
  BY <1>2, <1>3

\* A value that writekey puts in quotes comes back up to where it was cut.
LEMMA QuotedReadsBack ==
  ASSUME keylen \in Nat, NEW v \in Seq(Character), NEW maxlen \in Nat \ {0},
         check_enquote(v), Room >= 3
  PROVE  LET r == ValueFound(Copied(v), maxlen)
         IN  /\ IsPrefix(r, v)
             /\ Len(Cells(v)[Len(v)]) + 2 < Room /\ Len(v) < maxlen => r = v
<1> DEFINE t == Copied(v)
           r == ValueFound(t, maxlen)
<1>1. Room \in Nat
  BY RoomIs
<1>2. PICK n \in 0 .. Len(v) :
        /\ CopyEnquote(v, Room) = <<Quote>> \o Cells(v)[n] \o <<Quote>>
        /\ Len(Cells(v)[Len(v)]) + 2 < Room => n = Len(v)
  BY <1>1, EnquotedIs
<1>3. t = <<Quote>> \o Cells(v)[n] \o <<Quote>>
  BY <1>2 DEF Copied
<1>4. r = CopyNone(Prefix(v, n), maxlen)
  <2> HIDE DEF t
  <2>1. QED
    BY <1>3, EnquotedReads
<1> HIDE DEF r
<1>5. Prefix(v, n) \in Seq(Character) /\ Len(Prefix(v, n)) = n
      /\ (\A k \in 0 .. n : Prefix(Prefix(v, n), k) = Prefix(v, k))
      /\ Prefix(v, Len(v)) = v
  BY PrefixIs
<1>6. IsPrefix(r, v)
  <2> DEFINE p == Prefix(v, n)
  <2> HIDE DEF p
  <2>1. PICK k \in 0 .. Len(p) : CopyNone(p, maxlen) = Prefix(p, k)
    BY <1>5, CopyNoneIs DEF p
  <2>2. k \in 0 .. n /\ k \in 0 .. Len(v)
    BY <1>5, <2>1 DEF p
  <2>3. r = Prefix(v, k)
    BY <1>4, <1>5, <2>1, <2>2 DEF p
  <2>4. QED
    BY <2>2, <2>3, PrefixIs
<1>7. ASSUME Len(Cells(v)[Len(v)]) + 2 < Room, Len(v) < maxlen PROVE r = v
  <2>1. n = Len(v)
    BY <1>2, <1>7
  <2>2. Prefix(v, n) = v
    BY <1>5, <2>1
  <2>3. CopyNone(v, maxlen) = v
    BY <1>7, CopyNoneIs
  <2>4. QED
    BY <1>4, <2>2, <2>3
<1>8. QED
  BY <1>6, <1>7 DEF r

\* So does one that it leaves plain; it does so where quotes are not called for
\* and where there is no room for them.
LEMMA UnquotedReadsBack ==
  ASSUME keylen \in Nat, NEW v \in Seq(Character), NEW maxlen \in Nat \ {0},
         ~(check_enquote(v) /\ Room >= 3)
  PROVE  LET r == ValueFound(Copied(v), maxlen)
         IN  /\ IsPrefix(r, KeptText(v))
             /\ Len(Cells(v)[Len(v)]) + 2 < Room /\ Len(v) < maxlen => r = KeptText(v)
             /\ ~check_enquote(v) /\ Len(v) < Room => r = CopyNone(Trimmed(v), maxlen)
<1> DEFINE t == Copied(v)
           r == ValueFound(t, maxlen)
<1>1. Room \in Nat \ {0}
  BY RoomIs
<1>2. t = CopyNone(v, Room)
  BY DEF Copied
<1>3. PICK n \in 0 .. Len(v) :
        /\ n <= Room - 1 /\ CopyNone(v, Room) = Prefix(v, n)
        /\ Len(v) < Room => n = Len(v)
  BY <1>1, CopyNoneIs
<1>4. r = ValueFound(Prefix(v, n), maxlen)
  BY <1>2, <1>3
<1> HIDE DEF r
<1>5. CASE check_enquote(v)
  <2>1. Room < 3 /\ n <= 1
    BY <1>1, <1>3, <1>5
  <2>2. PICK k \in 0 .. n : r = Prefix(v, k)
    BY <1>4, <2>1, ShortReads
  <2>3. k \in 0 .. Len(v) /\ KeptText(v) = v
    BY <1>5 DEF KeptText
  <2>4. IsPrefix(r, v)
    BY <2>2, <2>3, PrefixIs
  <2>5. ~(Len(Cells(v)[Len(v)]) + 2 < Room)
    <3> DEFINE l == Len(Cells(v)[Len(v)])
    <3>1. l \in Nat
      BY CellsLonger
    <3> HIDE DEF l
    <3>2. ~(l + 2 < Room)
      BY <1>1, <2>1, <3>1
    <3>3. QED
      BY <3>2 DEF l
  <2>6. QED
    BY <1>5, <2>3, <2>4, <2>5 DEF r
<1>6. CASE ~check_enquote(v)
  <2> DEFINE w == Trimmed(v)
  <2>1. w \in Seq(Character) /\ Len(w) <= Len(v) /\ KeptText(v) = w
    BY <1>6, TrimmedIs DEF KeptText
  <2>2. PICK k \in 0 .. Len(w) : r = Prefix(w, k)
    BY <1>4, <1>6, PlainReads
  <2>4. ASSUME Len(v) < Room PROVE r = CopyNone(w, maxlen)
    <3>1. n = Len(v)
      BY <1>3, <2>4
    <3>2. QED
      BY <1>4, <1>6, <3>1, PlainReads
  <2> HIDE DEF w
  <2>3. IsPrefix(r, w)
    BY <2>1, <2>2, PrefixIs
  <2>5. ASSUME Len(Cells(v)[Len(v)]) + 2 < Room, Len(v) < maxlen PROVE r = w
    <3> DEFINE l == Len(Cells(v)[Len(v)])
    <3>1. l \in Nat /\ Len(v) <= l /\ l + 2 < Room
      BY <2>5, CellsLonger
    <3> HIDE DEF l
    <3>2. Len(v) < Room /\ Len(w) < maxlen
      BY <1>1, <2>1, <2>5, <3>1
    <3>3. CopyNone(w, maxlen) = w
      BY <2>1, <3>2, CopyNoneIs
    <3>4. QED
      BY <2>4, <3>2, <3>3
  <2>6. QED
    BY <1>6, <2>1, <2>3, <2>4, <2>5 DEF r, w
<1>7. QED
  BY <1>5, <1>6

-----------------------------------------------------------------------------
(* The steps.                                                                *)

\* Every text, number and truth value is a string, and what is written and read
\* is what writekey and getkeystring make of it.
ValueIInv ==
  /\ value \in Seq(Character) /\ keylen \in Nat /\ size \in Nat \ {0}
  /\ \/ kind = "text" /\ num = 0
     \/ kind = "long" /\ num \in Longs /\ value = long2str(num) /\ size = 64
     \/ kind = "bool" /\ num \in {0, 1} /\ value = BoolText(num) /\ size = 2
  /\ value_pc \in {"write", "read", "done"}
  /\ text = IF value_pc = "write" THEN << >> ELSE Copied(value)
  /\ read = IF value_pc = "done" THEN ValueFound(text, size) ELSE << >>

LEMMA ValueStarts == ValueInit => ValueIInv
<1> SUFFICES ASSUME ValueInit PROVE ValueIInv
  OBVIOUS
<1>1. keylen \in Nat /\ text = << >> /\ read = << >> /\ value_pc = "write"
  BY KeyLensAssumption DEF ValueInit
<1>2. CASE kind = "text" /\ num = 0 /\ value \in Texts /\ size \in Sizes
  <2>1. value \in Seq(STRING) /\ size \in Nat \ {0}
    BY <1>2, TextsAssumption, SizesAssumption
  <2>2. value \in Seq(Character)
    <3>1. \A k \in 1 .. Len(value) : value[k] \in STRING
      BY <2>1
    <3>2. \A k \in 1 .. Len(value) : value[k] \in Character
      BY <3>1, Zenon DEF Character
    <3>3. QED
      BY <2>1, <3>2, IsASeq
  <2>3. QED
    BY <1>1, <1>2, <2>1, <2>2 DEF ValueIInv
<1>3. CASE kind = "long" /\ num \in Longs /\ value = long2str(num) /\ size = 64
  BY <1>1, <1>3, LongReads DEF ValueIInv
<1>4. CASE kind = "bool" /\ num \in {0, 1} /\ value = BoolText(num) /\ size = 2
  BY <1>1, <1>4, BoolReads DEF ValueIInv
<1>5. QED
  BY <1>2, <1>3, <1>4 DEF ValueInit

LEMMA ValueSteps == ValueIInv /\ [ValueNext]_value_vars => ValueIInv'
<1> SUFFICES ASSUME ValueIInv, [ValueNext]_value_vars PROVE ValueIInv'
  OBVIOUS
<1>1. CASE writekey
  BY <1>1 DEF ValueIInv, writekey, value_args, Copied, Room
<1>2. CASE getkeystring
  BY <1>2 DEF ValueIInv, getkeystring, value_args, Copied, Room
<1>3. CASE UNCHANGED value_vars
  BY <1>3 DEF ValueIInv, value_vars, Copied, Room
<1>4. QED
  BY <1>1, <1>2, <1>3 DEF ValueNext, ValueDone

LEMMA ValueTyped == ValueIInv => ValueTypeOK /\ LineFits
<1> SUFFICES ASSUME ValueIInv PROVE ValueTypeOK /\ LineFits
  OBVIOUS
<1>1. /\ value \in Seq(Character) /\ keylen \in Nat /\ size \in Nat \ {0}
      /\ kind \in {"text", "long", "bool"} /\ value_pc \in {"write", "read", "done"}
      /\ text = IF value_pc = "write" THEN << >> ELSE Copied(value)
      /\ read = IF value_pc = "done" THEN ValueFound(text, size) ELSE << >>
  BY DEF ValueIInv
<1>2. num \in Longs
  BY LongAssumption DEF ValueIInv, Longs
<1>3. /\ Room \in Nat \ {0} /\ Least(keylen, INI_BUFFERSIZE - 4) \in Nat
      /\ Least(keylen, INI_BUFFERSIZE - 4) + 1 + Room + 2 = INI_BUFFERSIZE
  BY <1>1, RoomIs
<1>4. text \in Seq(Character) /\ Len(text) \in Nat /\ Len(text) < Room
  <2>1. CASE value_pc = "write"
    BY <1>1, <1>3, <2>1
  <2>2. CASE value_pc # "write"
    BY <1>1, <2>2, CopiedFits
  <2>3. QED
    BY <2>1, <2>2
<1>5. Len(read) < size
  <2>1. CASE value_pc = "done"
    BY <1>1, <1>4, <2>1, ValueFoundIs
  <2>2. CASE value_pc # "done"
    BY <1>1, <2>2
  <2>3. QED
    BY <2>1, <2>2
<1>6. LineFits
  BY <1>3, <1>4 DEF LineFits
<1>7. Len(text) <= INI_BUFFERSIZE
  BY <1>3, <1>4, BufferAssumption
<1>8. QED
  BY <1>1, <1>2, <1>5, <1>6, <1>7 DEF ValueTypeOK

LEMMA ValueReadsBack ==
  ValueIInv /\ value_pc = "done" => TextReadsBack /\ NumberReadsBack
<1> SUFFICES ASSUME ValueIInv, value_pc = "done" PROVE TextReadsBack /\ NumberReadsBack
  OBVIOUS
<1>1. /\ value \in Seq(Character) /\ keylen \in Nat /\ size \in Nat \ {0}
      /\ read = ValueFound(Copied(value), size)
  BY DEF ValueIInv
<1>2. TextReadsBack
  <2>1. CASE check_enquote(value) /\ Room >= 3
    <3>1. KeptText(value) = value
      BY <2>1 DEF KeptText
    <3>2. QED
      BY <1>1, <2>1, <3>1, QuotedReadsBack DEF TextReadsBack
  <2>2. CASE ~(check_enquote(value) /\ Room >= 3)
    BY <1>1, <2>2, UnquotedReadsBack DEF TextReadsBack
  <2>3. QED
    BY <2>1, <2>2
<1>3. ASSUME Len(value) < Room, ~check_enquote(value), Trimmed(value) = value
      PROVE  read = CopyNone(value, size)
  BY <1>1, <1>3, UnquotedReadsBack
<1>4. ASSUME Len(value) < Room, kind = "long" PROVE ini_getl(read, 99) = num
  <2>1. num \in Longs /\ value = long2str(num) /\ size = 64
    BY <1>4 DEF ValueIInv
  <2>2. /\ ~check_enquote(value) /\ Trimmed(value) = value /\ Len(value) < 32
        /\ ini_getl(value, 99) = num
    BY <2>1, LongReads
  <2>3. Len(value) < size
    BY <1>1, <2>1, <2>2
  <2>4. read = value
    BY <1>1, <1>3, <1>4, <2>2, <2>3, CopyNoneIs
  <2>5. QED
    BY <2>2, <2>4
<1>5. ASSUME Len(value) < Room, kind = "bool" PROVE ini_getbool(read, 99) = num
  <2>1. num \in {0, 1} /\ value = BoolText(num) /\ size = 2
    BY <1>5 DEF ValueIInv
  <2>2. /\ ~check_enquote(value) /\ Len(value) >= 4 /\ Trimmed(value) = value
        /\ \A s \in Seq(Character) : \A default :
             s # << >> /\ s[1] = value[1] => ini_getbool(s, default) = num
    BY <2>1, BoolReads
  <2>3. PICK n \in 0 .. Len(value) :
          /\ CopyNone(value, size) = Prefix(value, n)
          /\ n = Len(value) \/ n = size - 1
    BY <1>1, CopyNoneIs
  <2>4. read = Prefix(value, n) /\ n >= 1
    BY <1>1, <1>3, <1>5, <2>1, <2>2, <2>3
  <2>5. Prefix(value, n) \in Seq(Character) /\ Len(Prefix(value, n)) = n
        /\ Prefix(value, n)[1] = value[1]
    <3>1. 1 \in 1 .. n
      BY <2>4
    <3>2. QED
      BY <1>1, <3>1, PrefixIs
  <2>6. read # << >> /\ read[1] = value[1] /\ read \in Seq(Character)
    BY <2>4, <2>5
  <2>7. QED
    BY <2>2, <2>6
<1>6. QED
  BY <1>2, <1>4, <1>5 DEF NumberReadsBack

\* For every text, length of the key, size of either buffer and number: the line
\* that writekey writes fits its buffer, and getkeystring reads back from it what
\* was meant, or a beginning of it (minIni.c:124-201, 554-596, 872-942).
THEOREM ValuesReadBack == ValueSpec => []RoundTrip
<1>1. ValueIInv => RoundTrip
  BY ValueTyped, ValueReadsBack DEF RoundTrip
<1>2. QED
  BY ValueStarts, ValueSteps, <1>1, PTL DEF ValueSpec

=============================================================================
