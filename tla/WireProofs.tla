----------------------------- MODULE WireProofs -----------------------------
(***************************************************************************)
(* htonl and ntohl for every size of a word: what is written into a buffer *)
(* is read back unchanged.                                                 *)
(***************************************************************************)
EXTENDS Wire, RecursionLemmas

(* Shifting by a byte at a time is a loop. *)
LEMMA ShiftedIs ==
  ASSUME NEW n \in Int
  PROVE  /\ Shifted(n) \in [0 .. WordBytes -> Int]
         /\ Shifted(n)[0] = n
         /\ \A k \in 1 .. WordBytes : Shifted(n)[k] = Shifted(n)[k - 1] \div 256
<1> DEFINE F == [k \in 1 .. WordBytes |-> [x \in Int |-> x \div 256]]
           P(g) == g = [k \in 0 .. WordBytes |-> IF k = 0 THEN n ELSE g[k - 1] \div 256]
<1>1. WordBytes \in Nat
  BY WireAssumption
<1>2. F \in [1 .. WordBytes -> [Int -> Int]]
  OBVIOUS
<1>3. \A k \in 1 .. WordBytes : \A x \in Int : F[k][x] = x \div 256
  OBVIOUS
<1> HIDE DEF F
<1>4. PICK g \in [0 .. WordBytes -> Int] : IsLoop(g, WordBytes, n, F)
  BY <1>1, <1>2, LoopExists
<1>5. ASSUME NEW k \in 0 .. WordBytes
      PROVE  g[k] = IF k = 0 THEN n ELSE g[k - 1] \div 256
  <2>1. CASE k = 0
    BY <1>4, <2>1 DEF IsLoop
  <2>2. CASE k # 0
    <3>1. k \in 1 .. WordBytes /\ k - 1 \in 0 .. WordBytes
      BY <1>1, <2>2
    <3>2. g[k] = F[k][g[k - 1]] /\ g[k - 1] \in Int
      BY <1>4, <3>1 DEF IsLoop
    <3>3. F[k][g[k - 1]] = g[k - 1] \div 256
      BY <1>3, <3>1, <3>2
    <3> QED BY <2>2, <3>2, <3>3, Zenon
  <2> QED BY <2>1, <2>2
<1>6. P(g)
  BY <1>5
<1>7. P(Shifted(n))
  BY <1>6, Zenon DEF Shifted
<1>8. /\ Shifted(n)[0] = n
      /\ \A k \in 1 .. WordBytes : Shifted(n)[k] = Shifted(n)[k - 1] \div 256
      /\ DOMAIN Shifted(n) = 0 .. WordBytes
  BY <1>1, <1>7
<1> DEFINE T == {k \in 0 .. WordBytes : Shifted(n)[k] \in Int}
<1>9. 0 \in T /\ \A k \in 1 .. WordBytes : k - 1 \in T => k \in T
  BY <1>1, <1>8
<1> HIDE DEF T
<1>10. \A k \in 0 .. WordBytes : k \in T
  BY <1>1, <1>9, Induction
<1>11. \A k \in 0 .. WordBytes : Shifted(n)[k] \in Int
  BY <1>10 DEF T
<1>12. Shifted(n) = [k \in 0 .. WordBytes |-> Shifted(n)[k]]
  BY <1>7
<1> QED BY <1>8, <1>11, <1>12

(* The bytes of a word are bytes. *)
LEMMA ToBytesType ==
  ASSUME NEW n \in Int
  PROVE  /\ ToBytes(n) \in [1 .. WordBytes -> 0 .. 255]
         /\ \A k \in 1 .. WordBytes : ToBytes(n)[k] = Shifted(n)[WordBytes - k] % 256
<1>1. \A k \in 1 .. WordBytes : WordBytes - k \in 0 .. WordBytes
  BY WireAssumption
<1>2. Shifted(n) \in [0 .. WordBytes -> Int]
  BY ShiftedIs
<1>3. \A k \in 1 .. WordBytes : Shifted(n)[WordBytes - k] \in Int
  BY <1>1, <1>2
<1>4. \A x \in Int : x % 256 \in 0 .. 255
  OBVIOUS
<1> QED BY <1>3, <1>4 DEF ToBytes

(* Reading a word is a loop over its bytes. *)
Value(b, at) ==
  LET value[k \in 0 .. WordBytes] ==
        IF k = 0 THEN IF b[at] < 128 THEN 0 ELSE -1
                 ELSE value[k - 1] * 256 + b[at + k - 1]
  IN  value

LEMMA ValueIs ==
  ASSUME NEW b, NEW at \in Int, \A k \in 1 .. WordBytes : b[at + k - 1] \in Int
  PROVE  /\ Word(b, at) = Value(b, at)[WordBytes]
         /\ Value(b, at)[0] = IF b[at] < 128 THEN 0 ELSE -1
         /\ \A k \in 1 .. WordBytes :
              Value(b, at)[k] = Value(b, at)[k - 1] * 256 + b[at + k - 1]
         /\ \A k \in 0 .. WordBytes : Value(b, at)[k] \in Int
<1> DEFINE V == Value(b, at)
           sign == IF b[at] < 128 THEN 0 ELSE -1
           F == [k \in 1 .. WordBytes |-> [x \in Int |-> x * 256 + b[at + k - 1]]]
           P(g) == g = [k \in 0 .. WordBytes |-> IF k = 0 THEN IF b[at] < 128 THEN 0 ELSE -1
                                                 ELSE g[k - 1] * 256 + b[at + k - 1]]
<1>1. WordBytes \in Nat /\ sign \in Int
  BY WireAssumption
<1>2. F \in [1 .. WordBytes -> [Int -> Int]]
  OBVIOUS
<1>3. \A k \in 1 .. WordBytes : \A x \in Int : F[k][x] = x * 256 + b[at + k - 1]
  OBVIOUS
<1> HIDE DEF F
<1>4. PICK g \in [0 .. WordBytes -> Int] : IsLoop(g, WordBytes, sign, F)
  BY <1>1, <1>2, LoopExists
<1>5. ASSUME NEW k \in 0 .. WordBytes
      PROVE  g[k] = IF k = 0 THEN IF b[at] < 128 THEN 0 ELSE -1
                             ELSE g[k - 1] * 256 + b[at + k - 1]
  <2>1. CASE k = 0
    BY <1>4, <2>1 DEF IsLoop
  <2>2. CASE k # 0
    <3>1. k \in 1 .. WordBytes /\ k - 1 \in 0 .. WordBytes
      BY <1>1, <2>2
    <3>2. g[k] = F[k][g[k - 1]] /\ g[k - 1] \in Int
      BY <1>4, <3>1 DEF IsLoop
    <3>3. F[k][g[k - 1]] = g[k - 1] * 256 + b[at + k - 1]
      BY <1>3, <3>1, <3>2
    <3> QED BY <2>2, <3>2, <3>3, Zenon
  <2> QED BY <2>1, <2>2
<1>6. P(g)
  BY <1>5
<1>7. P(V)
  BY <1>6, Zenon DEF Value
<1>8. /\ V[0] = sign
      /\ \A k \in 1 .. WordBytes : V[k] = V[k - 1] * 256 + b[at + k - 1]
  BY <1>1, <1>7
<1> DEFINE T == {k \in 0 .. WordBytes : V[k] \in Int}
<1>9. 0 \in T
  BY <1>1, <1>8
<1>10. ASSUME NEW k \in 1 .. WordBytes, k - 1 \in T
       PROVE  k \in T
  <2>1. V[k - 1] \in Int /\ b[at + k - 1] \in Int /\ k \in 0 .. WordBytes
    BY <1>1, <1>10
  <2>2. V[k] = V[k - 1] * 256 + b[at + k - 1]
    BY <1>8
  <2> HIDE DEF V
  <2>3. V[k] \in Int
    BY <2>1, <2>2
  <2> QED BY <2>1, <2>3
<1> HIDE DEF T
<1>11. \A k \in 0 .. WordBytes : k \in T
  BY <1>1, <1>9, <1>10, Induction
<1>12. \A k \in 0 .. WordBytes : V[k] \in Int
  BY <1>11 DEF T
<1>13. Word(b, at) = V[WordBytes]
  BY DEF Word, Value
<1> QED BY <1>8, <1>12, <1>13

(* What ntohl makes of any bytes is a number. *)
LEMMA WordType ==
  ASSUME NEW b, NEW at \in Int, \A k \in 1 .. WordBytes : b[at + k - 1] \in Int
  PROVE  Word(b, at) \in Int
<1>1. WordBytes \in 0 .. WordBytes
  BY WireAssumption
<1> QED BY <1>1, ValueIs

(* ntohl undoes htonl, for words of any size and negative numbers too, as   *)
(* long as the number fits the word.                                        *)
THEOREM WordRoundTrip ==
  ASSUME NEW n, FitsWord(n), NEW b, NEW at \in Int,
         \A k \in 1 .. WordBytes : b[at + k - 1] = ToBytes(n)[k]
  PROVE  Word(b, at) = n
<1> DEFINE S == Shifted(n)
           V == Value(b, at)
<1>1. n \in Int /\ S[WordBytes - 1] \in -128 .. 127
  BY DEF FitsWord
<1>2. WordBytes \in Nat /\ WordBytes >= 1
  BY WireAssumption
<1>3. /\ S[0] = n
      /\ \A k \in 0 .. WordBytes : S[k] \in Int
      /\ \A k \in 1 .. WordBytes : S[k] = S[k - 1] \div 256
  <2>1. S \in [0 .. WordBytes -> Int]
    BY <1>1, ShiftedIs
  <2>2. S[0] = n /\ \A k \in 1 .. WordBytes : S[k] = S[k - 1] \div 256
    BY <1>1, ShiftedIs
  <2> HIDE DEF S
  <2> QED BY <2>1, <2>2
<1> HIDE DEF S
<1>4. \A k \in 1 .. WordBytes : b[at + k - 1] = S[WordBytes - k] % 256
  BY <1>1, ToBytesType DEF S
<1>5. \A k \in 1 .. WordBytes : b[at + k - 1] \in Int
  <2>1. ToBytes(n) \in [1 .. WordBytes -> 0 .. 255]
    BY <1>1, ToBytesType
  <2>2. \A k \in 1 .. WordBytes : ToBytes(n)[k] \in 0 .. 255
    BY <2>1
  <2>3. \A x \in 0 .. 255 : x \in Int
    OBVIOUS
  <2> QED BY <2>2, <2>3, Zenon
<1>6. /\ Word(b, at) = V[WordBytes]
      /\ V[0] = IF b[at] < 128 THEN 0 ELSE -1
      /\ \A k \in 1 .. WordBytes : V[k] = V[k - 1] * 256 + b[at + k - 1]
  BY <1>5, ValueIs
<1> HIDE DEF V
<1> DEFINE T == {k \in 0 .. WordBytes : V[k] = S[WordBytes - k]}
<1>7. 0 \in T
  <2>1. 1 \in 1 .. WordBytes /\ at + 1 - 1 = at
    BY <1>2
  <2>2. b[at] = S[WordBytes - 1] % 256
    BY <1>4, <2>1
  <2>3. S[WordBytes] = S[WordBytes - 1] \div 256
    BY <1>2, <1>3
  <2>4. \A x \in -128 .. 127 : IF x % 256 < 128 THEN x \div 256 = 0 ELSE x \div 256 = -1
    OBVIOUS
  <2>5. V[0] = S[WordBytes]
    BY <1>1, <1>6, <2>2, <2>3, <2>4
  <2>6. WordBytes - 0 = WordBytes /\ 0 \in 0 .. WordBytes
    BY <1>2
  <2> QED BY <2>5, <2>6
<1>8. ASSUME NEW k \in 1 .. WordBytes, k - 1 \in T
      PROVE  k \in T
  <2>1. /\ k \in 0 .. WordBytes /\ WordBytes - k \in 0 .. WordBytes
        /\ WordBytes - (k - 1) \in 1 .. WordBytes
        /\ (WordBytes - (k - 1)) - 1 = WordBytes - k
    BY <1>2
  <2>2. S[WordBytes - (k - 1)] = S[WordBytes - k] \div 256
    BY <1>3, <2>1
  <2>3. V[k - 1] = S[WordBytes - (k - 1)]
    BY <1>8
  <2>4. V[k] = (S[WordBytes - k] \div 256) * 256 + (S[WordBytes - k] % 256)
    BY <1>4, <1>6, <2>2, <2>3
  <2>5. \A x \in Int : (x \div 256) * 256 + (x % 256) = x
    OBVIOUS
  <2>6. V[k] = S[WordBytes - k]
    BY <1>3, <2>1, <2>4, <2>5
  <2> QED BY <2>1, <2>6
<1> HIDE DEF T
<1>9. WordBytes \in T
  <2>1. \A k \in 0 .. WordBytes : k \in T
    BY <1>2, <1>7, <1>8, Induction
  <2> QED BY <1>2, <2>1
<1>10. V[WordBytes] = S[WordBytes - WordBytes] /\ WordBytes - WordBytes = 0
  BY <1>2, <1>9 DEF T
<1> QED BY <1>3, <1>6, <1>10

(* htonl yields a sequence of bytes. *)
LEMMA ToBytesSeq ==
  ASSUME NEW n \in Int
  PROVE  ToBytes(n) \in Seq(Byte) /\ Len(ToBytes(n)) = WordBytes
<1>1. ToBytes(n) \in [1 .. WordBytes -> 0 .. 255]
  BY ToBytesType
<1>2. WordBytes \in Nat
  BY WireAssumption
<1> QED BY <1>1, <1>2 DEF Byte

(* Two sequences joined. *)
LEMMA Joined ==
  ASSUME NEW left \in Seq(Byte), NEW right \in Seq(Byte)
  PROVE  /\ left \o right \in Seq(Byte) /\ Len(left \o right) = Len(left) + Len(right)
         /\ \A p \in 1 .. Len(left) : (left \o right)[p] = left[p]
         /\ \A j \in 1 .. Len(right) : (left \o right)[Len(left) + j] = right[j]
<1>1. left \o right \in Seq(Byte) /\ Len(left \o right) = Len(left) + Len(right)
  OBVIOUS
<1>2. \A p \in 1 .. Len(left) : (left \o right)[p] = left[p]
  OBVIOUS
<1>3. ASSUME NEW j \in 1 .. Len(right)
      PROVE  (left \o right)[Len(left) + j] = right[j]
  <2>1. Len(left) + j \in 1 .. Len(left) + Len(right) /\ (Len(left) + j) - Len(left) = j
        /\ ~(Len(left) + j <= Len(left))
    OBVIOUS
  <2> QED BY <2>1
<1> QED BY <1>1, <1>2, <1>3

(* The bytes one read takes and the bytes it leaves. *)
LEMMA ReadBytes ==
  ASSUME NEW r \in Seq(Byte), NEW n \in Nat, n <= Len(r)
  PROVE  /\ SubSeq(r, 1, n) \in Seq(Byte) /\ Len(SubSeq(r, 1, n)) = n
         /\ SubSeq(r, n + 1, Len(r)) \in Seq(Byte)
         /\ \A k \in 1 .. n : SubSeq(r, 1, n)[k] = r[k]
<1>1. Len(r) \in Nat /\ \A k \in 1 .. Len(r) : r[k] \in Byte
  OBVIOUS
<1>2. /\ SubSeq(r, 1, n) \in Seq(Byte) /\ Len(SubSeq(r, 1, n)) = n
      /\ \A k \in 1 .. n : SubSeq(r, 1, n)[k] = r[k]
  BY <1>1
<1>3. SubSeq(r, n + 1, Len(r)) \in Seq(Byte)
  BY <1>1
<1> QED BY <1>2, <1>3
=============================================================================
