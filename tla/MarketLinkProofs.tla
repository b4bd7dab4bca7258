-------------------------- MODULE MarketLinkProofs --------------------------
(***************************************************************************)
(* The polling loop of MarketLink on any stream of bytes: types, that      *)
(* handling a message again does nothing, where the position comes from,   *)
(* and that the loop is Polling's.  If TCP delivers the messages whole,    *)
(* the price comes from one book, and the bytes implement the messages of  *)
(* Delivery.                                                               *)
(***************************************************************************)
EXTENDS MarketLink, ExecutorProofs, WireProofs

-----------------------------------------------------------------------------
(* What the exchange puts on the wire.                                      *)

(* Where a word starts is monotonic in its number. *)
LEMMA Times ==
  /\ WordBytes \in Nat /\ WordBytes >= 1
  /\ \A a \in Nat : a * WordBytes \in Nat /\ (a + 1) * WordBytes = a * WordBytes + WordBytes
  /\ \A a, b \in Nat : a <= b => a * WordBytes <= b * WordBytes
<1>1. WordBytes \in Nat /\ WordBytes >= 1
  BY WireAssumption
<1>2. \A a \in Nat : a * WordBytes \in Nat /\ (a + 1) * WordBytes = a * WordBytes + WordBytes
  BY <1>1
<1>3. ASSUME NEW a \in Nat, NEW b \in Nat, a <= b
      PROVE  a * WordBytes <= b * WordBytes
  <2>1. b - a \in Nat /\ (b - a) * WordBytes \in Nat
    BY <1>1, <1>3
  <2>2. b * WordBytes = a * WordBytes + (b - a) * WordBytes
    BY <1>1
  <2> QED BY <1>2, <2>1, <2>2
<1> QED BY <1>1, <1>2, <1>3

(* The bytes of WordsToBytes word by word. *)
Running(words) ==
  LET bytes[k \in 0 .. Len(words)] ==
        IF k = 0 THEN << >> ELSE bytes[k - 1] \o ToBytes(words[k])
  IN  bytes

(* WordsToBytes is a loop over the words. *)
LEMMA RunningIs ==
  ASSUME NEW words \in Seq(Int)
  PROVE  /\ WordsToBytes(words) = Running(words)[Len(words)]
         /\ Running(words)[0] = << >>
         /\ \A k \in 1 .. Len(words) :
              Running(words)[k] = Running(words)[k - 1] \o ToBytes(words[k])
<1> DEFINE n == Len(words)
           F == [k \in 1 .. n |-> [x \in Seq(Byte) |-> x \o ToBytes(words[k])]]
           P(g) == g = [k \in 0 .. n |-> IF k = 0 THEN << >> ELSE g[k - 1] \o ToBytes(words[k])]
<1>1. n \in Nat /\ \A k \in 1 .. n : words[k] \in Int
  OBVIOUS
<1>2. \A k \in 1 .. n : ToBytes(words[k]) \in Seq(Byte)
  BY <1>1, ToBytesSeq
<1>3. << >> \in Seq(Byte) /\ F \in [1 .. n -> [Seq(Byte) -> Seq(Byte)]]
  BY <1>2
<1>4. \A k \in 1 .. n : \A x \in Seq(Byte) : F[k][x] = x \o ToBytes(words[k])
  OBVIOUS
<1> HIDE DEF F
<1>5. PICK g \in [0 .. n -> Seq(Byte)] : IsLoop(g, n, << >>, F)
  BY <1>1, <1>3, LoopExists
<1>6. ASSUME NEW k \in 1 .. n
      PROVE  g[k] = g[k - 1] \o ToBytes(words[k])
  <2>1. k - 1 \in 0 .. n
    BY <1>1
  <2>2. g[k] = F[k][g[k - 1]] /\ g[k - 1] \in Seq(Byte)
    BY <1>5, <2>1 DEF IsLoop
  <2> QED BY <1>4, <2>2, Zenon
<1>7. ASSUME NEW k \in 0 .. n
      PROVE  g[k] = IF k = 0 THEN << >> ELSE g[k - 1] \o ToBytes(words[k])
  <2>1. CASE k = 0
    BY <1>5, <2>1 DEF IsLoop
  <2>2. CASE k # 0
    <3>1. k \in 1 .. n
      BY <1>1, <2>2
    <3> QED BY <1>6, <2>2, <3>1, Zenon
  <2> QED BY <2>1, <2>2
<1>8. P(g)
  BY <1>7
<1>9. P(Running(words))
  BY <1>8, Zenon DEF Running
<1>10. WordsToBytes(words) = Running(words)[n]
  BY DEF WordsToBytes, Running
<1>11. Running(words)[0] = << >>
  BY <1>1, <1>9
<1>12. ASSUME NEW k \in 1 .. n
       PROVE  Running(words)[k] = Running(words)[k - 1] \o ToBytes(words[k])
  <2>1. k \in 0 .. n /\ k # 0
    BY <1>1
  <2> QED BY <1>9, <2>1, Zenon
<1> QED BY <1>10, <1>11, <1>12

(* Byte j of word k is where it should be. *)
LEMMA WordsToBytesIs ==
  ASSUME NEW words \in Seq(Int)
  PROVE  /\ WordsToBytes(words) \in Seq(Byte)
         /\ Len(WordsToBytes(words)) = Len(words) * WordBytes
         /\ \A k \in 1 .. Len(words) : \A j \in 1 .. WordBytes :
              WordsToBytes(words)[(k - 1) * WordBytes + j] = ToBytes(words[k])[j]
<1> DEFINE n == Len(words)
           B == Running(words)
           OK(k) == /\ B[k] \in Seq(Byte) /\ Len(B[k]) = k * WordBytes
                    /\ \A i \in 1 .. k : \A j \in 1 .. WordBytes :
                         B[k][(i - 1) * WordBytes + j] = ToBytes(words[i])[j]
           T == {k \in 0 .. n : OK(k)}
<1>1. n \in Nat /\ \A k \in 1 .. n : words[k] \in Int
  OBVIOUS
<1>2. /\ WordsToBytes(words) = B[n] /\ B[0] = << >>
      /\ \A k \in 1 .. n : B[k] = B[k - 1] \o ToBytes(words[k])
  BY RunningIs
<1> HIDE DEF B
<1>3. 0 \in T
  <2>1. B[0] \in Seq(Byte) /\ Len(B[0]) = 0 * WordBytes
    BY <1>2, Times
  <2>2. \A i \in 1 .. 0 : FALSE
    OBVIOUS
  <2>3. OK(0)
    BY <2>1, <2>2
  <2> QED BY <1>1, <2>3
<1>4. ASSUME NEW k \in 1 .. n, k - 1 \in T
      PROVE  k \in T
  <2> DEFINE old == B[k - 1]
             new == ToBytes(words[k])
  <2>1. /\ k \in Nat /\ k - 1 \in Nat /\ k \in 0 .. n /\ (k - 1) * WordBytes \in Nat
        /\ k * WordBytes = (k - 1) * WordBytes + WordBytes
        /\ WordBytes \in Nat
    <3>1. k \in Nat /\ k - 1 \in Nat /\ k \in 0 .. n /\ (k - 1) + 1 = k
      BY <1>1
    <3>2. (k - 1) * WordBytes \in Nat /\ ((k - 1) + 1) * WordBytes = (k - 1) * WordBytes + WordBytes
      BY <3>1, Times
    <3> QED BY <3>1, <3>2, Times
  <2>2. OK(k - 1)
    BY <1>4
  <2>3. new \in Seq(Byte) /\ Len(new) = WordBytes /\ B[k] = old \o new
    BY <1>1, <1>2, ToBytesSeq
  <2>4. /\ old \in Seq(Byte) /\ Len(old) = (k - 1) * WordBytes
        /\ \A i \in 1 .. k - 1 : \A j \in 1 .. WordBytes :
             old[(i - 1) * WordBytes + j] = ToBytes(words[i])[j]
    BY <2>2
  <2> HIDE DEF old, new, OK
  <2>5. B[k] \in Seq(Byte) /\ Len(B[k]) = k * WordBytes
    <3>1. B[k] \in Seq(Byte) /\ Len(B[k]) = Len(old) + Len(new)
      BY <2>3, <2>4, Joined
    <3> QED BY <2>1, <2>3, <2>4, <3>1
  <2>6. /\ \A p \in 1 .. Len(old) : B[k][p] = old[p]
        /\ \A j \in 1 .. Len(new) : B[k][Len(old) + j] = new[j]
    <3>1. old \in Seq(Byte) /\ new \in Seq(Byte)
      BY <2>3, <2>4
    <3>2. /\ \A p \in 1 .. Len(old) : (old \o new)[p] = old[p]
          /\ \A j \in 1 .. Len(new) : (old \o new)[Len(old) + j] = new[j]
      BY <3>1, Joined
    <3> QED BY <2>3, <3>2, Zenon
  <2>7. ASSUME NEW i \in 1 .. k, NEW j \in 1 .. WordBytes
        PROVE  B[k][(i - 1) * WordBytes + j] = ToBytes(words[i])[j]
    <3>1. CASE i = k
      BY <2>3, <2>4, <2>6, <3>1 DEF new
    <3>2. CASE i # k
      <4>1. i \in Nat /\ i - 1 \in Nat /\ i <= k - 1 /\ i \in 1 .. k - 1 /\ (i - 1) + 1 = i
        BY <2>1, <3>2
      <4>2. /\ (i - 1) * WordBytes \in Nat /\ i * WordBytes \in Nat
            /\ ((i - 1) + 1) * WordBytes = (i - 1) * WordBytes + WordBytes
            /\ i * WordBytes <= (k - 1) * WordBytes
        BY <2>1, <4>1, Times
      <4>3. (i - 1) * WordBytes + j \in 1 .. Len(old)
        <5> DEFINE x == (i - 1) * WordBytes
                   y == (k - 1) * WordBytes
                   z == i * WordBytes
        <5>1. x \in Nat /\ y \in Nat /\ z \in Nat /\ z = x + WordBytes /\ z <= y /\ Len(old) = y
          BY <2>1, <2>4, <4>1, <4>2
        <5> HIDE DEF x, y, z
        <5>2. x + j \in 1 .. Len(old)
          BY <2>1, <5>1
        <5> QED BY <5>2 DEF x
      <4> QED BY <2>4, <2>6, <4>1, <4>3
    <3> QED BY <3>1, <3>2
  <2>8. OK(k)
    BY <2>5, <2>7 DEF OK
  <2> QED BY <2>1, <2>8
<1> HIDE DEF T
<1>5. n \in T
  <2>1. \A k \in 0 .. n : k \in T
    BY <1>1, <1>3, <1>4, Induction
  <2> QED BY <1>1, <2>1
<1>6. OK(n)
  BY <1>5 DEF T
<1> QED BY <1>2, <1>6

(* The numbers of messages.h: a message has 2 or 4 words, a book one more   *)
(* than four times its depth, and the buffer holds a book.                  *)
LEMMA Sizes ==
  /\ Depth \in Nat /\ Depth >= 1 /\ BookWords \in Nat /\ BookWords >= 5
  /\ BufferBytes \in Nat /\ BufferBytes = 4 + BookWords * WordBytes /\ BufferBytes >= 9
  /\ BookWords * WordBytes \in Nat
<1>1. Depth \in Nat /\ Depth >= 1
  BY LinkAssumption
<1>2. BookWords \in Nat /\ BookWords >= 5
  BY <1>1 DEF BookWords
<1>3. /\ BookWords * WordBytes \in Nat /\ 5 * WordBytes <= BookWords * WordBytes
      /\ WordBytes \in Nat /\ WordBytes >= 1
  BY <1>2, Times
<1>4. BookWords * WordBytes >= 5
  BY <1>3
<1>5. BufferBytes = 4 + BookWords * WordBytes
  BY <1>3 DEF BufferBytes, HeaderBytes
<1> QED BY <1>1, <1>2, <1>3, <1>4, <1>5

(* A word of a message lies within the buffer, also one byte further on. *)
LEMMA WordAtIs ==
  ASSUME NEW k \in 1 .. BookWords
  PROVE  /\ WordAt(k) \in Nat /\ WordAt(k) >= 4
         /\ \A j \in 1 .. WordBytes :
              /\ WordAt(k) + j - 1 = 3 + ((k - 1) * WordBytes + j)
              /\ WordAt(k) + j - 1 \in 1 .. BufferBytes - 1
              /\ (k - 1) * WordBytes + j \in 1 .. k * WordBytes
<1> DEFINE x == (k - 1) * WordBytes
           z == k * WordBytes
           e == BookWords * WordBytes
<1>1. k \in Nat /\ k - 1 \in Nat /\ (k - 1) + 1 = k /\ k <= BookWords /\ BookWords \in Nat
  BY Sizes
<1>2. x \in Nat /\ ((k - 1) + 1) * WordBytes = x + WordBytes /\ z \in Nat /\ z <= e
  BY <1>1, Times
<1>3. z = x + WordBytes
  BY <1>1, <1>2
<1>4. e \in Nat /\ BufferBytes = 4 + e /\ WordBytes \in Nat
  BY Sizes, Times
<1>5. WordAt(k) = 3 + x + 1
  BY DEF WordAt, HeaderBytes
<1> HIDE DEF x, z, e
<1>6. WordAt(k) \in Nat /\ WordAt(k) >= 4
  BY <1>2, <1>5
<1>7. ASSUME NEW j \in 1 .. WordBytes
      PROVE  /\ WordAt(k) + j - 1 = 3 + (x + j)
             /\ WordAt(k) + j - 1 \in 1 .. BufferBytes - 1
             /\ x + j \in 1 .. z
  BY <1>2, <1>3, <1>4, <1>5
<1> QED BY <1>6, <1>7 DEF x, z

(* A message on the wire: its type is byte 3, its words follow. *)
LEMMA EncodeIs ==
  ASSUME NEW m \in ExecMessages
  PROVE  /\ Encode(m) \in Seq(Byte) /\ Len(Encode(m)) = 3 + Len(m.words) * WordBytes
         /\ Len(Encode(m)) <= BufferBytes /\ Len(Encode(m)) >= 3 /\ Len(m.words) \in 0 .. 4
         /\ m.words \in Seq(Int)
         /\ Encode(m)[3] = m.type /\ m.type \in Byte
         /\ m.type # ORDER_BOOK_UPDATE_MESSAGE_TYPE
         /\ \A k \in 1 .. Len(m.words) : \A j \in 1 .. WordBytes :
              Encode(m)[3 + ((k - 1) * WordBytes + j)] = ToBytes(m.words[k])[j]
<1> DEFINE body == WordsToBytes(m.words)
           head == <<0, 0, m.type>>
           n == Len(m.words)
<1>1. /\ m.type \in Byte /\ m.type # ORDER_BOOK_UPDATE_MESSAGE_TYPE
      /\ m.words \in Seq(Int) /\ n \in 0 .. 4
  <2>1. /\ m \in [type : Byte \ {ORDER_BOOK_UPDATE_MESSAGE_TYPE}, words : Seq(Int)]
        /\ n = WordCount(m.type)
    BY ExecAssumption
  <2>2. WordCount(m.type) \in 0 .. 4
    BY DEF WordCount
  <2> QED BY <2>1, <2>2
<1>2. /\ body \in Seq(Byte) /\ Len(body) = n * WordBytes
      /\ \A k \in 1 .. n : \A j \in 1 .. WordBytes :
           body[(k - 1) * WordBytes + j] = ToBytes(m.words[k])[j]
  BY <1>1, WordsToBytesIs
<1>3. head \in Seq(Byte) /\ Len(head) = 3 /\ head[3] = m.type
  BY <1>1 DEF Byte
<1>4. Encode(m) = head \o body
  BY DEF Encode
<1> HIDE DEF head, body
<1>5. /\ head \o body \in Seq(Byte) /\ Len(head \o body) = Len(head) + Len(body)
      /\ \A p \in 1 .. Len(head) : (head \o body)[p] = head[p]
      /\ \A j \in 1 .. Len(body) : (head \o body)[Len(head) + j] = body[j]
  <2>1. head \in Seq(Byte) /\ body \in Seq(Byte)
    BY <1>2, <1>3
  <2> QED BY <2>1, Joined
<1>6. /\ n \in Nat /\ n <= BookWords /\ n * WordBytes \in Nat
      /\ n * WordBytes <= BookWords * WordBytes
  <2>1. n \in 0 .. 4 /\ BookWords \in Nat /\ BookWords >= 5
    BY <1>1, Sizes
  <2> HIDE DEF n
  <2>2. n \in Nat /\ n <= BookWords
    BY <2>1
  <2> QED BY <2>1, <2>2, Times
<1> HIDE DEF n
<1>7. Len(head \o body) = 3 + n * WordBytes
  BY <1>2, <1>3, <1>5
<1>8. 3 + n * WordBytes <= BufferBytes /\ 3 + n * WordBytes >= 3
  <2> DEFINE x == n * WordBytes
             e == BookWords * WordBytes
  <2>1. x \in Nat /\ x <= e /\ e \in Nat /\ BufferBytes = 4 + e
    BY <1>6, Sizes
  <2> HIDE DEF x, e
  <2>2. 3 + x <= BufferBytes /\ 3 + x >= 3
    BY <2>1
  <2> QED BY <2>2 DEF x
<1>9. (head \o body)[3] = m.type
  <2>1. 3 \in 1 .. Len(head)
    BY <1>3
  <2> QED BY <1>3, <1>5, <2>1
<1>10. ASSUME NEW k \in 1 .. n, NEW j \in 1 .. WordBytes
       PROVE  (head \o body)[3 + ((k - 1) * WordBytes + j)] = ToBytes(m.words[k])[j]
  <2>1. k \in 1 .. BookWords /\ k \in Nat /\ k <= n
    BY <1>6, Sizes
  <2>2. (k - 1) * WordBytes + j \in 1 .. k * WordBytes
    BY <2>1, WordAtIs
  <2>3. k * WordBytes <= n * WordBytes /\ k * WordBytes \in Nat
    BY <1>6, <2>1, Times
  <2>4. (k - 1) * WordBytes + j \in 1 .. Len(body)
    BY <1>2, <1>6, <2>2, <2>3
  <2>5. (head \o body)[Len(head) + ((k - 1) * WordBytes + j)] = body[(k - 1) * WordBytes + j]
    BY <1>5, <2>4
  <2> QED BY <1>2, <1>3, <2>5
<1>11. \A k \in 1 .. n : \A j \in 1 .. WordBytes :
         Encode(m)[3 + ((k - 1) * WordBytes + j)] = ToBytes(m.words[k])[j]
  BY <1>4, <1>10, Zenon
<1>12. /\ Encode(m) \in Seq(Byte) /\ Len(Encode(m)) = 3 + n * WordBytes /\ Encode(m)[3] = m.type
       /\ Len(Encode(m)) <= BufferBytes /\ Len(Encode(m)) >= 3
  BY <1>4, <1>5, <1>7, <1>8, <1>9, Zenon
<1> QED BY <1>1, <1>11, <1>12 DEF n

(* A datagram: instrument in byte 4, words after it, as long as the buffer. *)
LEMMA EncodeBookIs ==
  ASSUME NEW d \in Datagrams
  PROVE  /\ EncodeBook(d) \in [1 .. BufferBytes -> Byte] /\ EncodeBook(d) \in Seq(Byte)
         /\ Len(EncodeBook(d)) = BufferBytes
         /\ EncodeBook(d)[3] = ORDER_BOOK_UPDATE_MESSAGE_TYPE
         /\ EncodeBook(d)[4] = d.instrument
         /\ \A k \in 1 .. BookWords : \A j \in 1 .. WordBytes :
              EncodeBook(d)[4 + ((k - 1) * WordBytes + j)] = ToBytes(d.words[k])[j]
<1> DEFINE body == WordsToBytes(d.words)
           head == <<0, 0, ORDER_BOOK_UPDATE_MESSAGE_TYPE, d.instrument>>
<1>1. d.instrument \in Byte /\ d.words \in Seq(Int) /\ Len(d.words) = BookWords
  BY BookAssumption
<1>2. /\ body \in Seq(Byte) /\ Len(body) = BookWords * WordBytes
      /\ \A k \in 1 .. BookWords : \A j \in 1 .. WordBytes :
           body[(k - 1) * WordBytes + j] = ToBytes(d.words[k])[j]
  BY <1>1, WordsToBytesIs
<1>3. /\ head \in Seq(Byte) /\ Len(head) = 4
      /\ head[3] = ORDER_BOOK_UPDATE_MESSAGE_TYPE /\ head[4] = d.instrument
  BY <1>1 DEF Byte, ORDER_BOOK_UPDATE_MESSAGE_TYPE
<1>4. EncodeBook(d) = head \o body
  BY DEF EncodeBook
<1> HIDE DEF head, body
<1>5. /\ head \o body \in Seq(Byte) /\ Len(head \o body) = Len(head) + Len(body)
      /\ \A p \in 1 .. Len(head) : (head \o body)[p] = head[p]
      /\ \A j \in 1 .. Len(body) : (head \o body)[Len(head) + j] = body[j]
  <2>1. head \in Seq(Byte) /\ body \in Seq(Byte)
    BY <1>2, <1>3
  <2> QED BY <2>1, Joined
<1>6. Len(head \o body) = BufferBytes
  BY <1>2, <1>3, <1>5, Sizes
<1>7. (head \o body)[3] = head[3] /\ (head \o body)[4] = head[4]
  <2>1. 3 \in 1 .. Len(head) /\ 4 \in 1 .. Len(head)
    BY <1>3
  <2> QED BY <1>5, <2>1
<1>8. ASSUME NEW k \in 1 .. BookWords, NEW j \in 1 .. WordBytes
      PROVE  (head \o body)[4 + ((k - 1) * WordBytes + j)] = ToBytes(d.words[k])[j]
  <2>1. (k - 1) * WordBytes + j \in 1 .. k * WordBytes
    BY WordAtIs
  <2>2. k * WordBytes <= BookWords * WordBytes /\ k * WordBytes \in Nat /\ k \in Nat
    BY Sizes, Times
  <2>3. (k - 1) * WordBytes + j \in 1 .. Len(body)
    BY <1>2, <2>1, <2>2, Sizes
  <2>4. (head \o body)[Len(head) + ((k - 1) * WordBytes + j)] = body[(k - 1) * WordBytes + j]
    BY <1>5, <2>3
  <2> QED BY <1>2, <1>3, <2>4
<1>9. head \o body \in [1 .. BufferBytes -> Byte]
  <2> DEFINE s == head \o body
  <2>1. s \in Seq(Byte) /\ Len(s) = BufferBytes
    BY <1>5, <1>6
  <2> HIDE DEF s
  <2>2. s \in [1 .. BufferBytes -> Byte]
    BY <2>1
  <2> QED BY <2>2 DEF s
<1> QED BY <1>3, <1>4, <1>5, <1>6, <1>7, <1>8, <1>9

-----------------------------------------------------------------------------
(* What the handlers make of a buffer, whatever it holds.                   *)

Buffer == [1 .. BufferBytes -> Byte]

(* A read writes over the start of the buffer. *)
LEMMA PutIs ==
  ASSUME NEW b \in Buffer, NEW bytes \in Seq(Byte), Len(bytes) <= BufferBytes
  PROVE  /\ Put(b, 1, bytes) \in Buffer
         /\ \A k \in 1 .. Len(bytes) : Put(b, 1, bytes)[k] = bytes[k]
<1>1. /\ Len(bytes) \in Nat /\ BufferBytes \in Nat /\ DOMAIN b = 1 .. BufferBytes
      /\ \A k \in 1 .. Len(bytes) : bytes[k] \in Byte
      /\ \A k \in 1 .. BufferBytes : b[k] \in Byte
  BY Sizes DEF Buffer
<1>2. \A k \in 1 .. BufferBytes : 1 <= k /\ k < 1 + Len(bytes) => k \in 1 .. Len(bytes)
                                                                  /\ k - 1 + 1 = k
  BY <1>1
<1>3. \A k \in 1 .. Len(bytes) : k \in 1 .. BufferBytes /\ 1 <= k /\ k < 1 + Len(bytes)
  BY <1>1
<1>4. Put(b, 1, bytes) = [k \in 1 .. BufferBytes |->
                            IF 1 <= k /\ k < 1 + Len(bytes) THEN bytes[k - 1 + 1] ELSE b[k]]
  BY <1>1 DEF Put
<1>5. \A k \in 1 .. BufferBytes :
        (IF 1 <= k /\ k < 1 + Len(bytes) THEN bytes[k - 1 + 1] ELSE b[k]) \in Byte
  BY <1>1, <1>2
<1>6. Put(b, 1, bytes) \in Buffer
  BY <1>4, <1>5 DEF Buffer
<1>7. \A k \in 1 .. Len(bytes) : Put(b, 1, bytes)[k] = bytes[k]
  BY <1>2, <1>3, <1>4
<1> QED BY <1>6, <1>7

(* The type is a byte, and the words of messages and books are numbers. *)
LEMMA BufferWords ==
  ASSUME NEW b \in Buffer
  PROVE  /\ Type(b) \in Byte
         /\ \A k \in 1 .. BookWords : Word(b, WordAt(k)) \in Int /\ Word(b, WordAt(k) + 1) \in Int
<1>1. \A k \in 1 .. BufferBytes : b[k] \in Byte /\ b[k] \in Int
  <2>1. \A x \in Byte : x \in Int
    BY DEF Byte
  <2>2. \A k \in 1 .. BufferBytes : b[k] \in Byte
    BY DEF Buffer
  <2> QED BY <2>1, <2>2
<1>2. Type(b) \in Byte
  <2>1. HeaderBytes \in 1 .. BufferBytes
    BY Sizes DEF HeaderBytes
  <2> QED BY <1>1, <2>1, Zenon DEF Type
<1>3. ASSUME NEW k \in 1 .. BookWords
      PROVE  Word(b, WordAt(k)) \in Int /\ Word(b, WordAt(k) + 1) \in Int
  <2>1. WordAt(k) \in Int /\ WordAt(k) + 1 \in Int /\ BufferBytes \in Nat
    BY WordAtIs, Sizes
  <2>2. ASSUME NEW j \in 1 .. WordBytes
        PROVE  WordAt(k) + j - 1 \in 1 .. BufferBytes /\ WordAt(k) + 1 + j - 1 \in 1 .. BufferBytes
    <3>1. WordAt(k) + j - 1 \in 1 .. BufferBytes - 1 /\ j \in Int
      BY WordAtIs, Times
    <3> QED BY <2>1, <3>1
  <2>3. \A j \in 1 .. WordBytes : b[WordAt(k) + j - 1] \in Int /\ b[WordAt(k) + 1 + j - 1] \in Int
    BY <1>1, <2>2
  <2>4. Word(b, WordAt(k)) \in Int
    BY <2>1, <2>3, WordType
  <2>5. Word(b, WordAt(k) + 1) \in Int
    BY <2>1, <2>3, WordType
  <2> QED BY <2>4, <2>5
<1> QED BY <1>2, <1>3

(* The number of a level's word is that of a word of a book. *)
LEMMA LevelWord ==
  ASSUME NEW which \in {0, 2}, NEW i \in 1 .. Depth
  PROVE  1 + which * Depth + i \in 1 .. BookWords /\ 1 + which * Depth + i \in Nat
BY Sizes DEF BookWords

(* The levels of a book kept so far. *)
Kept(b, which) ==
  LET kept[i \in 0 .. Depth] ==
        IF i = 0 THEN << >>
        ELSE IF Level(b, which, i) = 0 THEN kept[i - 1]
        ELSE Append(kept[i - 1], Level(b, which, i))
  IN  kept

(* Levels is a loop over the levels. *)
LEMMA KeptIs ==
  ASSUME NEW b, NEW which, \A i \in 1 .. Depth : Level(b, which, i) \in Int
  PROVE  /\ Levels(b, which) = Kept(b, which)[Depth]
         /\ Kept(b, which)[0] = << >>
         /\ \A i \in 1 .. Depth :
              Kept(b, which)[i] = IF Level(b, which, i) = 0 THEN Kept(b, which)[i - 1]
                                  ELSE Append(Kept(b, which)[i - 1], Level(b, which, i))
         /\ \A i \in 0 .. Depth : Kept(b, which)[i] \in Seq(Int)
<1> DEFINE l == [i \in 1 .. Depth |-> Level(b, which, i)]
           F == [i \in 1 .. Depth |->
                   [x \in Seq(Int) |-> IF l[i] = 0 THEN x ELSE Append(x, l[i])]]
           P(g) == g = [i \in 0 .. Depth |->
                          IF i = 0 THEN << >>
                          ELSE IF Level(b, which, i) = 0 THEN g[i - 1]
                          ELSE Append(g[i - 1], Level(b, which, i))]
<1>1. Depth \in Nat /\ << >> \in Seq(Int)
  BY Sizes
<1>2. \A i \in 1 .. Depth : l[i] \in Int /\ l[i] = Level(b, which, i)
  OBVIOUS
<1> HIDE DEF l
<1>3. F \in [1 .. Depth -> [Seq(Int) -> Seq(Int)]]
  BY <1>2
<1>4. \A i \in 1 .. Depth : \A x \in Seq(Int) : F[i][x] = IF l[i] = 0 THEN x ELSE Append(x, l[i])
  OBVIOUS
<1> HIDE DEF F
<1>5. PICK g \in [0 .. Depth -> Seq(Int)] : IsLoop(g, Depth, << >>, F)
  BY <1>1, <1>3, LoopExists
<1>6. ASSUME NEW i \in 1 .. Depth
      PROVE  g[i] = IF Level(b, which, i) = 0 THEN g[i - 1]
                    ELSE Append(g[i - 1], Level(b, which, i))
  <2>1. i - 1 \in 0 .. Depth
    BY <1>1
  <2>2. g[i] = F[i][g[i - 1]] /\ g[i - 1] \in Seq(Int)
    BY <1>5, <2>1 DEF IsLoop
  <2>3. F[i][g[i - 1]] = IF l[i] = 0 THEN g[i - 1] ELSE Append(g[i - 1], l[i])
    BY <1>4, <2>2, Zenon
  <2> QED BY <1>2, <2>2, <2>3, Zenon
<1>7. ASSUME NEW i \in 0 .. Depth
      PROVE  g[i] = IF i = 0 THEN << >>
                    ELSE IF Level(b, which, i) = 0 THEN g[i - 1]
                    ELSE Append(g[i - 1], Level(b, which, i))
  <2>1. CASE i = 0
    BY <1>5, <2>1 DEF IsLoop
  <2>2. CASE i # 0
    <3>1. i \in 1 .. Depth
      BY <1>1, <2>2
    <3> QED BY <1>6, <2>2, <3>1, Zenon
  <2> QED BY <2>1, <2>2
<1>8. P(g)
  BY <1>7
<1>9. P(Kept(b, which))
  BY <1>8, Zenon DEF Kept
<1> DEFINE K == Kept(b, which)
<1>10. Levels(b, which) = K[Depth]
  BY DEF Levels, Kept
<1>11. K = [i \in 0 .. Depth |-> IF i = 0 THEN << >>
                                 ELSE IF Level(b, which, i) = 0 THEN K[i - 1]
                                 ELSE Append(K[i - 1], Level(b, which, i))]
  BY <1>9
<1> HIDE DEF K
<1>12. K[0] = << >>
  <2>1. 0 \in 0 .. Depth
    BY <1>1
  <2> QED BY <1>11, <2>1, Zenon
<1>13. ASSUME NEW i \in 1 .. Depth
       PROVE  K[i] = IF Level(b, which, i) = 0 THEN K[i - 1]
                     ELSE Append(K[i - 1], Level(b, which, i))
  <2>1. i \in 0 .. Depth /\ i # 0
    BY <1>1
  <2> QED BY <1>11, <2>1, Zenon
<1> DEFINE T == {i \in 0 .. Depth : K[i] \in Seq(Int)}
<1>14. 0 \in T
  <2>1. 0 \in 0 .. Depth /\ << >> \in Seq(Int)
    BY <1>1
  <2> QED BY <1>12, <2>1
<1>15. ASSUME NEW i \in 1 .. Depth, i - 1 \in T
       PROVE  i \in T
  <2>1. i \in 0 .. Depth /\ K[i - 1] \in Seq(Int)
    BY <1>1, <1>15
  <2>2. Append(K[i - 1], Level(b, which, i)) \in Seq(Int)
    BY <2>1
  <2> QED BY <1>13, <2>1, <2>2
<1> HIDE DEF T
<1>16. \A i \in 0 .. Depth : i \in T
  BY <1>1, <1>14, <1>15, Induction
<1>17. \A i \in 0 .. Depth : K[i] \in Seq(Int)
  BY <1>16 DEF T
<1> QED BY <1>10, <1>12, <1>13, <1>17 DEF K

(* The prices handleOrderBookUpdate passes on are numbers. *)
LEMMA BookPrices ==
  ASSUME NEW b \in Buffer
  PROVE  PricesAreInts(OrderBook(b))
<1>1. \A which \in {0, 2} : \A i \in 1 .. Depth : Level(b, which, i) \in Int
  <2> SUFFICES ASSUME NEW which \in {0, 2}, NEW i \in 1 .. Depth
               PROVE  Level(b, which, i) \in Int
    OBVIOUS
  <2>1. 1 + which * Depth + i \in 1 .. BookWords
    BY LevelWord
  <2>2. Word(b, WordAt(1 + which * Depth + i) + 1) \in Int
    BY <2>1, BufferWords
  <2> QED BY <2>2, Zenon DEF Level
<1>2. Depth \in 0 .. Depth
  BY Sizes
<1>3. Levels(b, 0) \in Seq(Int) /\ Levels(b, 2) \in Seq(Int)
  BY <1>1, <1>2, KeptIs
<1>4. \A s \in Seq(Int) : s # << >> => s[1] \in Int
  OBVIOUS
<1> QED BY <1>3, <1>4 DEF PricesAreInts, OrderBook, IsPriced

(* Whatever is in the buffer, handling it keeps the trader's types. *)
LEMMA DispatchType ==
  ASSUME TraderTypeOK, NEW b \in Buffer, Dispatch(b)
  PROVE  TraderTypeOK'
<1>1. CASE handleOrderBookUpdate(b)
  BY <1>1, BookPrices, BookHandledType DEF handleOrderBookUpdate
<1>2. CASE handlePositionUpdate(b)
  <2>1. 2 \in 1 .. BookWords
    BY Sizes
  <2>2. Word(b, WordAt(2)) \in Int
    BY <2>1, BufferWords
  <2> QED BY <1>2, <2>2, PositionType DEF handlePositionUpdate
<1>3. CASE handleOrderStatusUpdate(b)
  BY <1>3, StatusType DEF handleOrderStatusUpdate
<1>4. CASE UNCHANGED traderVars
  BY <1>4 DEF traderVars, TraderTypeOK, ExecutorTypeOK, LinkTypeOK
<1> QED BY <1>1, <1>2, <1>3, <1>4 DEF Dispatch

(* What a handler is given is a message. *)
LEMMA DecodedType ==
  ASSUME NEW b \in Buffer
  PROVE  Decoded(b) \in [type : Byte, words : Seq(Int)]
<1> DEFINE n == WordCount(Type(b))
           w == [k \in 1 .. n |-> Word(b, WordAt(k))]
<1>1. n \in Nat /\ n <= 4
  BY DEF WordCount
<1> HIDE DEF n
<1>2. \A k \in 1 .. n : k \in 1 .. BookWords
  BY <1>1, Sizes
<1>3. \A k \in 1 .. n : Word(b, WordAt(k)) \in Int
  BY <1>2, BufferWords
<1>4. w \in Seq(Int)
  BY <1>1, <1>3
<1>5. Decoded(b) = [type |-> Type(b), words |-> w]
  BY DEF Decoded, n
<1> QED BY <1>4, <1>5, BufferWords

-----------------------------------------------------------------------------
(* The types, one lemma per step that reads or brings bytes.                *)

(* The handler's sends neither open nor close an open connection, and leave *)
(* the program running or end it.                                           *)
LEMMA SendsEnd ==
  ASSUME AfterSends
  PROVE  /\ conn' = conn \/ (conn \in {"closed", "reset"} /\ conn' = "closed")
         /\ conn' = "open" <=> conn = "open"
         /\ phase' \in {phase, "running", "killed"}
BY DEF AfterSends

(* A read from the execution socket fills the buffer from the start and is  *)
(* handled whatever came.                                                   *)
LEMMA ReadExecType ==
  ASSUME TypeOK, ReadExec
  PROVE  TypeOK'
<1> DEFINE n   == IF Len(rcv) < BufferBytes THEN Len(rcv) ELSE BufferBytes
           msg == Put(buffer, 1, SubSeq(rcv, 1, n))
<1>1. /\ buffer \in Buffer /\ rcv \in Seq(Byte) /\ TraderTypeOK
      /\ handled \in Seq([type : Byte, words : Seq(Int)])
  BY DEF TypeOK, Buffer
<1>2. n \in Nat /\ n <= Len(rcv) /\ n <= BufferBytes
  BY <1>1, Sizes
<1>3. /\ buffer' = msg /\ rcv' = SubSeq(rcv, n + 1, Len(rcv)) /\ Dispatch(msg)
      /\ handled' = Append(handled, Decoded(msg)) /\ got' = "exec"
      /\ AfterSends /\ UNCHANGED <<poll, sent, wire, info, published>>
  BY DEF ReadExec
<1> HIDE DEF n
<1>4. SubSeq(rcv, 1, n) \in Seq(Byte) /\ Len(SubSeq(rcv, 1, n)) <= BufferBytes
  BY <1>1, <1>2, ReadBytes
<1>5. msg \in Buffer
  BY <1>1, <1>4, PutIs
<1>6. rcv' \in Seq(Byte)
  BY <1>1, <1>2, <1>3, ReadBytes
<1> HIDE DEF msg
<1>7. TraderTypeOK'
  BY <1>1, <1>3, <1>5, DispatchType
<1>8. handled' \in Seq([type : Byte, words : Seq(Int)])
  <2>1. Decoded(msg) \in [type : Byte, words : Seq(Int)]
    BY <1>5, DecodedType
  <2> QED BY <1>1, <1>3, <2>1
<1>9. /\ conn' \in {"none", "open", "closed", "reset"}
      /\ phase' \in {"start", "execution", "initialised", "registered", "running", "exited", "killed"}
  BY <1>3, SendsEnd DEF TypeOK
<1> QED BY <1>3, <1>5, <1>6, <1>7, <1>8, <1>9, Zenon DEF TypeOK, Buffer

(* Likewise for a datagram, which is as long as the buffer. *)
LEMMA ReadInfoType ==
  ASSUME TypeOK, ReadInfo
  PROVE  TypeOK'
<1> DEFINE msg == Put(buffer, 1, Head(info))
<1>1. buffer \in Buffer /\ info \in Seq(Buffer) /\ TraderTypeOK /\ info # << >>
  BY DEF TypeOK, Buffer, ReadInfo
<1>2. Head(info) \in Buffer /\ Tail(info) \in Seq(Buffer)
  BY <1>1
<1>3. Head(info) \in Seq(Byte) /\ Len(Head(info)) <= BufferBytes
  <2>1. \A b \in [1 .. BufferBytes -> Byte] : b \in Seq(Byte) /\ Len(b) = BufferBytes
    BY Sizes
  <2> QED BY <1>2, <2>1, Sizes DEF Buffer
<1>4. msg \in Buffer
  BY <1>1, <1>3, PutIs
<1>5. /\ buffer' = msg /\ info' = Tail(info) /\ poll' = "exec" /\ got' = "info"
      /\ Dispatch(msg) /\ UNCHANGED <<handled, sent, wire, rcv, published>> /\ AfterSends
  BY DEF ReadInfo
<1> HIDE DEF msg
<1>6. TraderTypeOK'
  BY <1>1, <1>4, <1>5, DispatchType
<1>7. info' \in Seq([1 .. BufferBytes -> Byte])
  BY <1>2, <1>5 DEF Buffer
<1>8. /\ conn' \in {"none", "open", "closed", "reset"}
      /\ phase' \in {"start", "execution", "initialised", "registered", "running", "exited", "killed"}
  BY <1>5, SendsEnd DEF TypeOK
<1> QED BY <1>4, <1>5, <1>6, <1>7, <1>8, Zenon DEF TypeOK, Buffer

(* At end of file the buffer is handled as it is. *)
LEMMA ReadExecEofType ==
  ASSUME TypeOK, ReadExecEof
  PROVE  TypeOK'
<1>1. buffer \in Buffer /\ TraderTypeOK /\ Dispatch(buffer) /\ got' = "nothing"
  BY DEF TypeOK, Buffer, ReadExecEof
<1>2. UNCHANGED <<phase, poll, buffer, handled, networkVars>>
  BY DEF ReadExecEof
<1>3. TraderTypeOK'
  BY <1>1, DispatchType
<1> QED BY <1>1, <1>2, <1>3, Zenon DEF TypeOK, networkVars

(* The steps that read nothing move the program from phase to phase and     *)
(* from socket to socket.                                                   *)
Quiet ==
  \/ initConnection \/ registerTrader \/ registerMarketLink
  \/ ReadExecError \/ ReadExecWouldBlock \/ ReadInfoWouldBlock \/ ReadInfoError

(* They change phase, poll and conn only. *)
LEMMA QuietSteps ==
  ASSUME Quiet
  PROVE  /\ UNCHANGED <<traderVars, buffer, got, handled, sent, wire, rcv, info, published>>
         /\ phase' \in {phase, "execution", "initialised", "registered", "running", "exited"}
         /\ poll' \in {poll, "exec", "info"}
         /\ conn' \in {conn, "open", "closed"}
         /\ conn' = "open" => conn = "open" \/ phase = "start"
         /\ conn = "open" => conn' = "open"
BY DEF Quiet, initConnection, createExecutionSocket, createInformationSocket, registerTrader,
       registerMarketLink, ReadExecError, ReadExecWouldBlock, ReadInfoWouldBlock,
       ReadInfoError, networkVars

(* A step of the network. *)
LEMMA NetworkType ==
  ASSUME TypeOK, Network
  PROVE  TypeOK'
<1> DEFINE Types == /\ wire \in Seq(Byte) /\ rcv \in Seq(Byte) /\ sent \in Seq(ExecMessages)
                    /\ info \in Seq(Buffer) /\ conn \in {"none", "open", "closed", "reset"}
<1>1. UNCHANGED <<traderVars, processVars>>
  BY DEF Network
<1>2. Types
  BY DEF TypeOK, Buffer
<1>3. ASSUME NEW m \in ExecMessages, Transmit(m)
      PROVE  Types'
  <2>1. Encode(m) \in Seq(Byte)
    BY EncodeIs
  <2> QED BY <1>2, <1>3, <2>1 DEF Transmit, Buffer
<1>4. ASSUME NEW n \in 1 .. Len(wire), Arrive(n)
      PROVE  Types'
  <2>1. SubSeq(wire, 1, n) \in Seq(Byte) /\ SubSeq(wire, n + 1, Len(wire)) \in Seq(Byte)
    BY <1>2, ReadBytes
  <2> QED BY <1>2, <1>4, <2>1 DEF Arrive, Buffer
<1>5. ASSUME NEW d \in Datagrams, Publish(d)
      PROVE  Types'
  <2>1. EncodeBook(d) \in Buffer
    BY EncodeBookIs DEF Buffer
  <2>2. Append(info, EncodeBook(d)) \in Seq(Buffer)
    BY <1>2, <2>1
  <2>3. info' \in Seq(Buffer)' /\ UNCHANGED <<sent, wire, rcv, conn>>
    BY <1>5, <2>2 DEF Publish, Buffer
  <2> QED BY <1>2, <2>3
<1>6. ASSUME Disconnect
      PROVE  Types'
  BY <1>2, <1>6 DEF Disconnect, Buffer
<1> HIDE DEF Types
<1>7. Types'
  BY <1>3, <1>4, <1>5, <1>6 DEF Network
<1> QED BY <1>1, <1>7, Zenon DEF Types, TypeOK, processVars, traderVars, TraderTypeOK,
                                ExecutorTypeOK, LinkTypeOK, Buffer

(* The bytes are bytes, the trader's state is well-typed and the handlers   *)
(* are given messages, however TCP cuts the stream.                         *)
THEOREM LinkTypes == Spec => []TypeOK
<1>1. Init => TypeOK
  <2> SUFFICES ASSUME Init
               PROVE  TypeOK
    OBVIOUS
  <2>1. TraderTypeOK
    BY ExecutorAssumption DEF Init, TraderInit, PricingInit, ExecutorInit, LinkInit, TraderTypeOK,
         ExecutorTypeOK, LinkTypeOK
  <2>2. buffer \in [1 .. BufferBytes -> Byte]
    BY DEF Init, Byte
  <2> QED BY <2>1, <2>2 DEF Init, TypeOK
<1>2. ASSUME TypeOK, [Next]_vars
      PROVE  TypeOK'
  <2>1. CASE Quiet
    BY <1>2, <2>1, QuietSteps DEF TypeOK, traderVars, TraderTypeOK, ExecutorTypeOK, LinkTypeOK
  <2>2. CASE ReadExec
    BY <1>2, <2>2, ReadExecType
  <2>3. CASE ReadExecEof
    BY <1>2, <2>3, ReadExecEofType
  <2>4. CASE ReadInfo
    BY <1>2, <2>4, ReadInfoType
  <2>5. CASE Network
    BY <1>2, <2>5, NetworkType
  <2>6. CASE UNCHANGED vars
    BY <1>2, <2>6 DEF TypeOK, vars, traderVars, processVars, networkVars, TraderTypeOK,
                     ExecutorTypeOK, LinkTypeOK
  <2> QED BY <1>2, <2>1, <2>2, <2>3, <2>4, <2>5, <2>6 DEF Next, main, runLoop, Quiet
<1> QED BY <1>1, <1>2, PTL DEF Spec

-----------------------------------------------------------------------------
(* Handling the message in the buffer again does nothing: its effect is     *)
(* already there.                                                           *)

Absorbed ==
  /\ Type(buffer) = ORDER_BOOK_UPDATE_MESSAGE_TYPE =>
       /\ PriceOf(OrderBook(buffer))
       /\ AtRest(Quotes, BUY, theo_price_ - Edge)
       /\ AtRest(Quotes, SELL, theo_price_ + Edge)
  /\ Type(buffer) = POSITION_UPDATE_TYPE => position_ = Word(buffer, WordAt(2))

(* Once a handler has run, the message it was given is absorbed. *)
LEMMA DispatchAbsorbs ==
  ASSUME TraderTypeOK, NEW b \in Buffer, Dispatch(b), buffer' = b
  PROVE  Absorbed'
<1>1. /\ ORDER_BOOK_UPDATE_MESSAGE_TYPE # ORDER_STATUS_UPDATE_TYPE
      /\ ORDER_BOOK_UPDATE_MESSAGE_TYPE # POSITION_UPDATE_TYPE
      /\ POSITION_UPDATE_TYPE # ORDER_STATUS_UPDATE_TYPE
  BY DEF ORDER_BOOK_UPDATE_MESSAGE_TYPE, ORDER_STATUS_UPDATE_TYPE, POSITION_UPDATE_TYPE
<1>2. Type(buffer)' = Type(b)
  BY DEF Type
<1>3. Type(b) = ORDER_BOOK_UPDATE_MESSAGE_TYPE =>
        /\ PriceOf(OrderBook(buffer))'
        /\ AtRest(Quotes, BUY, theo_price_ - Edge)'
        /\ AtRest(Quotes, SELL, theo_price_ + Edge)'
  <2> SUFFICES ASSUME Type(b) = ORDER_BOOK_UPDATE_MESSAGE_TYPE
               PROVE  /\ PriceOf(OrderBook(buffer))'
                      /\ AtRest(Quotes, BUY, theo_price_ - Edge)'
                      /\ AtRest(Quotes, SELL, theo_price_ + Edge)'
    OBVIOUS
  <2>1. onOrderBookUpdate(OrderBook(b))
    BY <1>1 DEF Dispatch, handleOrderBookUpdate
  <2> DEFINE book == OrderBook(b)
  <2>2. PricesAreInts(book)
    BY BookPrices
  <2>3. OrderBook(buffer)' = book
    BY DEF OrderBook, Levels, Level, Word
  <2> HIDE DEF book
  <2>4. /\ PriceOf(book)'
        /\ AtRest(Quotes, BUY, theo_price_ - Edge)'
        /\ AtRest(Quotes, SELL, theo_price_ + Edge)'
    BY <2>1, <2>2, BookSettles DEF book
  <2> QED BY <2>3, <2>4 DEF PriceOf
<1>4. Type(b) = POSITION_UPDATE_TYPE => position_' = Word(buffer, WordAt(2))'
  BY <1>1 DEF Dispatch, handlePositionUpdate, onPositionUpdate, executor_onPositionUpdate, Word
<1> QED BY <1>2, <1>3, <1>4 DEF Absorbed

(* And handling it once more leaves the trader as it is. *)
LEMMA AbsorbedAgain ==
  ASSUME Absorbed, Dispatch(buffer)
  PROVE  UNCHANGED traderVars
<1>1. CASE Type(buffer) = ORDER_BOOK_UPDATE_MESSAGE_TYPE /\ handleOrderBookUpdate(buffer)
  <2>1. /\ onOrderBookUpdate(OrderBook(buffer)) /\ PriceOf(OrderBook(buffer))
        /\ AtRest(Quotes, BUY, theo_price_ - Edge) /\ AtRest(Quotes, SELL, theo_price_ + Edge)
    BY <1>1 DEF handleOrderBookUpdate, Absorbed
  <2> QED BY <2>1, BookAgain
<1>2. CASE Type(buffer) = POSITION_UPDATE_TYPE /\ handlePositionUpdate(buffer)
  BY <1>2 DEF Absorbed, handlePositionUpdate, onPositionUpdate, executor_onPositionUpdate, traderVars
<1>3. CASE handleOrderStatusUpdate(buffer)
  BY <1>3 DEF handleOrderStatusUpdate, onOrderStatusUpdate
<1> QED BY <1>1, <1>2, <1>3 DEF Dispatch

(* Absorbed depends on the trader and the buffer only. *)
LEMMA AbsorbedKept ==
  ASSUME Absorbed, UNCHANGED <<traderVars, buffer>>
  PROVE  Absorbed'
<1>1. UNCHANGED Quotes /\ UNCHANGED theo_price_ /\ UNCHANGED position_ /\ UNCHANGED buffer
  BY DEF traderVars, Quotes, CurrentLink
<1>2. /\ UNCHANGED Type(buffer) /\ UNCHANGED OrderBook(buffer) /\ UNCHANGED Word(buffer, WordAt(2))
  BY <1>1 DEF Type, OrderBook, Levels, Level, Word
<1> QED BY <1>1, <1>2 DEF Absorbed, PriceOf, AtRest, HasRoom

(* The steps of the loop that handle a message, with the bytes it is in. *)
LEMMA ReadStep ==
  ASSUME TypeOK, ReadExec \/ ReadInfo
  PROVE  buffer' \in Buffer /\ \E b \in Buffer : buffer' = b /\ Dispatch(b)
<1>1. TypeOK'
  BY ReadExecType, ReadInfoType
<1>2. buffer' \in Buffer
  BY <1>1 DEF TypeOK, Buffer
<1>3. \E b : buffer' = b /\ Dispatch(b)
  BY DEF ReadExec, ReadInfo
<1> QED BY <1>2, <1>3

(* Every message is absorbed by the time the loop reads again, however TCP  *)
(* cut the stream it came in.                                               *)
LEMMA AlwaysAbsorbed == Spec => []Absorbed
<1>1. Init => Absorbed
  <2>1. Init => Type(buffer) = 0
    BY Sizes DEF Init, Type, HeaderBytes
  <2> QED BY <2>1 DEF Absorbed, ORDER_BOOK_UPDATE_MESSAGE_TYPE, POSITION_UPDATE_TYPE
<1>2. ASSUME TypeOK, Absorbed, [Next]_vars
      PROVE  Absorbed'
  <2>1. CASE ReadExec \/ ReadInfo
    <3>1. TraderTypeOK
      BY <1>2 DEF TypeOK
    <3> QED BY <1>2, <2>1, <3>1, ReadStep, DispatchAbsorbs
  <2>2. CASE ReadExecEof
    <3>1. Dispatch(buffer) /\ UNCHANGED buffer
      BY <2>2 DEF ReadExecEof
    <3>2. UNCHANGED traderVars
      BY <1>2, <3>1, AbsorbedAgain
    <3> QED BY <1>2, <3>1, <3>2, AbsorbedKept
  <2>3. CASE Quiet \/ Network \/ UNCHANGED vars
    <3>1. UNCHANGED <<traderVars, buffer>>
      BY <2>3, QuietSteps DEF Network, processVars, vars
    <3> QED BY <1>2, <3>1, AbsorbedKept
  <2> QED BY <1>2, <2>1, <2>2, <2>3 DEF Next, main, runLoop, Quiet
<1> QED BY <1>1, <1>2, LinkTypes, PTL DEF Spec

(* When the exchange has closed the connection the loop handles the message *)
(* left in msg over and over; the trader's state and what it has sent stay  *)
(* as they are, whatever the message.                                       *)
THEOREM ReplaysAreSilent == Spec => ReplayIsSilent
<1> DEFINE AtEof  == phase = "running" /\ poll = "exec" /\ rcv = << >> /\ conn = "closed"
<1>1. ASSUME Absorbed, [Next]_vars
      PROVE  [AtEof => UNCHANGED traderVars]_vars
  <2> SUFFICES ASSUME AtEof
               PROVE  UNCHANGED traderVars
    OBVIOUS
  <2>1. CASE ReadExecEof
    BY <1>1, <2>1, AbsorbedAgain DEF ReadExecEof
  <2>2. CASE Quiet
    BY <2>2, QuietSteps
  <2>3. CASE Network
    BY <2>3 DEF Network
  <2>4. CASE UNCHANGED vars
    BY <2>4 DEF vars
  <2>5. ~ReadExec /\ ~ReadInfo
    BY DEF ReadExec, ReadInfo
  <2> QED BY <1>1, <2>1, <2>2, <2>3, <2>4, <2>5 DEF Next, main, runLoop, Quiet
<1> QED BY <1>1, AlwaysAbsorbed, PTL DEF Spec, ReplayIsSilent

-----------------------------------------------------------------------------
(* What a handler is given. *)

(* A message that is read whole is decoded to what the exchange encoded,    *)
(* whatever the buffer held before.                                         *)
LEMMA DecodedIs ==
  ASSUME NEW b \in Buffer, NEW m \in ExecMessages
  PROVE  Decoded(Put(b, 1, Encode(m))) = m
<1> DEFINE msg == Put(b, 1, Encode(m))
           n   == WordCount(m.type)
<1>1. /\ m \in [type : Byte \ {ORDER_BOOK_UPDATE_MESSAGE_TYPE}, words : Seq(Int)]
      /\ Len(m.words) = n /\ \A k \in DOMAIN m.words : FitsWord(m.words[k])
  BY ExecAssumption
<1>2. n \in Nat /\ n <= 4
  BY DEF WordCount
<1>3. /\ Encode(m) \in Seq(Byte) /\ Len(Encode(m)) = 3 + n * WordBytes /\ Encode(m)[3] = m.type
      /\ Len(Encode(m)) <= BufferBytes /\ Len(Encode(m)) >= 3
      /\ \A k \in 1 .. n : \A j \in 1 .. WordBytes :
           Encode(m)[3 + ((k - 1) * WordBytes + j)] = ToBytes(m.words[k])[j]
  BY <1>1, EncodeIs
<1>4. msg \in Buffer /\ \A k \in 1 .. Len(Encode(m)) : msg[k] = Encode(m)[k]
  BY <1>3, PutIs
<1> HIDE DEF msg, n
<1>5. Type(msg) = m.type
  <2>1. 3 \in 1 .. Len(Encode(m))
    BY <1>3
  <2> QED BY <1>3, <1>4, <2>1 DEF Type, HeaderBytes
<1>6. ASSUME NEW k \in 1 .. n
      PROVE  Word(msg, WordAt(k)) = m.words[k]
  <2>1. k \in 1 .. BookWords /\ k \in Nat /\ k >= 1 /\ k <= n
    BY <1>2, Sizes
  <2>2. ASSUME NEW j \in 1 .. WordBytes
        PROVE  msg[WordAt(k) + j - 1] = ToBytes(m.words[k])[j]
    <3> DEFINE x == (k - 1) * WordBytes + j
               y == n * WordBytes
    <3>1. WordAt(k) + j - 1 = 3 + x /\ x \in 1 .. k * WordBytes
      BY <2>1, WordAtIs
    <3>2. k * WordBytes \in Nat /\ y \in Nat /\ k * WordBytes <= y
      BY <1>2, <2>1, Times
    <3>3. Len(Encode(m)) = 3 + y /\ Encode(m)[3 + x] = ToBytes(m.words[k])[j]
      BY <1>3
    <3> HIDE DEF x, y
    <3>4. 3 + x \in 1 .. Len(Encode(m))
      BY <3>1, <3>2, <3>3
    <3> QED BY <1>4, <3>1, <3>3, <3>4
  <2>3. FitsWord(m.words[k])
    BY <1>1, <1>2
  <2>4. WordAt(k) \in Int
    BY <2>1, WordAtIs
  <2> QED BY <2>2, <2>3, <2>4, WordRoundTrip
<1>7. [k \in 1 .. n |-> Word(msg, WordAt(k))] = m.words
  <2>1. m.words = [k \in 1 .. n |-> m.words[k]]
    BY <1>1, <1>2
  <2> QED BY <1>6, <2>1
<1>8. Decoded(msg) = [type |-> m.type, words |-> m.words]
  BY <1>5, <1>7 DEF Decoded, n
<1> QED BY <1>1, <1>8 DEF msg

-----------------------------------------------------------------------------
(* The position is a position update's, however TCP cuts the stream.        *)

(* What waits on the information channel is books. *)
BooksWait == \A k \in 1 .. Len(info) : info[k][3] = ORDER_BOOK_UPDATE_MESSAGE_TYPE

(* It stays so. *)
LEMMA BooksWaitStep ==
  ASSUME TypeOK, BooksWait, [Next]_vars
  PROVE  BooksWait'
<1>1. info \in Seq(Buffer)
  BY DEF TypeOK, Buffer
<1>2. ASSUME NEW d \in Datagrams, Publish(d)
      PROVE  BooksWait'
  <2> DEFINE e == EncodeBook(d)
  <2>1. info' = Append(info, e) /\ e \in Buffer /\ e[3] = ORDER_BOOK_UPDATE_MESSAGE_TYPE
    BY <1>2, EncodeBookIs DEF Publish, Buffer
  <2> HIDE DEF e
  <2>2. \A k \in 1 .. Len(info') : (k \in 1 .. Len(info) /\ info'[k] = info[k]) \/ info'[k] = e
    BY <1>1, <2>1
  <2> QED BY <2>1, <2>2 DEF BooksWait
<1>3. CASE ReadInfo
  <2>1. info # << >> /\ info' = Tail(info)
    BY <1>3 DEF ReadInfo
  <2>2. \A k \in 1 .. Len(Tail(info)) : k + 1 \in 1 .. Len(info) /\ Tail(info)[k] = info[k + 1]
    BY <1>1, <2>1
  <2> QED BY <2>1, <2>2 DEF BooksWait
<1>4. CASE UNCHANGED info
  BY <1>4 DEF BooksWait
<1>5. UNCHANGED info \/ ReadInfo \/ \E d \in Datagrams : Publish(d)
  <2>1. CASE Quiet \/ ReadExec \/ ReadExecEof \/ UNCHANGED vars
    BY <2>1, QuietSteps DEF ReadExec, ReadExecEof, networkVars, vars
  <2>2. CASE Network
    BY <2>2 DEF Network, Transmit, Arrive, Disconnect
  <2> QED BY <2>1, <2>2 DEF Next, main, runLoop, Quiet
<1> QED BY <1>2, <1>3, <1>4, <1>5

(* A handler gives the executor the position it decodes, or leaves it. *)
LEMMA DispatchPosition ==
  ASSUME NEW b, Dispatch(b)
  PROVE  /\ Type(b) = POSITION_UPDATE_TYPE =>
              Decoded(b).type = POSITION_UPDATE_TYPE /\ position_' = Decoded(b).words[2]
         /\ Type(b) # POSITION_UPDATE_TYPE =>
              Decoded(b).type # POSITION_UPDATE_TYPE /\ position_' = position_
<1>1. Decoded(b).type = Type(b)
  BY DEF Decoded
<1>2. CASE Type(b) = POSITION_UPDATE_TYPE
  <2>1. handlePositionUpdate(b)
    BY <1>2 DEF Dispatch, ORDER_BOOK_UPDATE_MESSAGE_TYPE, ORDER_STATUS_UPDATE_TYPE,
                POSITION_UPDATE_TYPE
  <2>2. position_' = Word(b, WordAt(2))
    BY <2>1 DEF handlePositionUpdate, onPositionUpdate, executor_onPositionUpdate
  <2>3. WordCount(Type(b)) = 2
    BY <1>2 DEF WordCount
  <2>4. Decoded(b).words[2] = Word(b, WordAt(2))
    BY <2>3 DEF Decoded
  <2> QED BY <1>1, <1>2, <2>2, <2>4
<1>3. CASE Type(b) # POSITION_UPDATE_TYPE
  BY <1>1, <1>3 DEF Dispatch, handleOrderBookUpdate, onOrderBookUpdate, executeTrades,
                    handleOrderStatusUpdate, onOrderStatusUpdate, traderVars
<1> QED BY <1>2, <1>3

(* A read from the execution socket adds the message it handles. *)
LEMMA ReadExecPosition ==
  ASSUME TypeOK, PositionFromMessage, ReadExec
  PROVE  PositionFromMessage'
<1>1. PICK b : Dispatch(b) /\ handled' = Append(handled, Decoded(b))
  BY DEF ReadExec
<1> DEFINE m == Decoded(b)
           n == Len(handled)
           Updates == {i \in DOMAIN handled : handled[i].type = POSITION_UPDATE_TYPE}
<1>2. handled \in Seq([type : Byte, words : Seq(Int)]) /\ n \in Nat
  BY DEF TypeOK
<1>3. /\ m.type = POSITION_UPDATE_TYPE => position_' = m.words[2]
      /\ m.type # POSITION_UPDATE_TYPE => position_' = position_
  BY <1>1, DispatchPosition
<1> HIDE DEF m
<1>4. /\ DOMAIN handled' = (DOMAIN handled) \cup {n + 1} /\ handled'[n + 1] = m
      /\ DOMAIN handled = 1 .. n /\ \A i \in DOMAIN handled : handled'[i] = handled[i]
  BY <1>1, <1>2 DEF m
<1>5. /\ Updates = {} => position_ = 0
      /\ \A i \in Updates : (\A j \in Updates : j <= i) => position_ = handled[i].words[2]
  BY DEF PositionFromMessage
<1>6. CASE m.type = POSITION_UPDATE_TYPE
  <2>1. Updates' = Updates \cup {n + 1}
    BY <1>4, <1>6
  <2>2. \A i \in Updates' : (\A j \in Updates' : j <= i) => i = n + 1
    BY <1>2, <1>4, <2>1
  <2>3. position_' = handled'[n + 1].words[2]
    BY <1>3, <1>4, <1>6
  <2> HIDE DEF Updates
  <2>4. Updates' # {} /\ \A i \in Updates' : (\A j \in Updates' : j <= i)
                                               => position_' = handled'[i].words[2]
    BY <2>1, <2>2, <2>3
  <2> QED BY <2>4 DEF PositionFromMessage, Updates
<1>7. CASE m.type # POSITION_UPDATE_TYPE
  <2>1. Updates' = Updates
    BY <1>4, <1>7
  <2>2. \A i \in Updates : handled'[i] = handled[i]
    BY <1>4
  <2> HIDE DEF Updates
  <2>3. /\ Updates' = {} => position_' = 0
        /\ \A i \in Updates' : (\A j \in Updates' : j <= i) => position_' = handled'[i].words[2]
    BY <1>3, <1>5, <1>7, <2>1, <2>2
  <2> QED BY <2>3 DEF PositionFromMessage, Updates
<1> QED BY <1>6, <1>7

(* However TCP cuts the stream and whatever the reused buffer held, the     *)
(* position the executor limits itself by is the etf_position of the last   *)
(* position update a handler had: book updates do not touch it, and the     *)
(* replays at end of file do not move it.                                   *)
THEOREM PositionFromLastUpdate == Spec => []PositionFromMessage
<1>1. Init => BooksWait /\ PositionFromMessage
  BY DEF Init, TraderInit, ExecutorInit, BooksWait, PositionFromMessage
<1>2. ASSUME TypeOK, Absorbed, BooksWait, PositionFromMessage, [Next]_vars
      PROVE  PositionFromMessage'
  <2>1. CASE ReadExec
    BY <1>2, <2>1, ReadExecPosition
  <2>2. ASSUME UNCHANGED <<position_, handled>>
        PROVE  PositionFromMessage'
    BY <1>2, <2>2 DEF PositionFromMessage
  <2>3. CASE ReadInfo
    <3> DEFINE h == Head(info)
               b == Put(buffer, 1, h)
    <3>1. info \in Seq(Buffer) /\ info # << >> /\ buffer \in Buffer
      BY <1>2, <2>3 DEF TypeOK, Buffer, ReadInfo
    <3>2. 1 \in 1 .. Len(info) /\ h = info[1] /\ h \in Buffer
      BY <3>1
    <3>3. h[3] = ORDER_BOOK_UPDATE_MESSAGE_TYPE
      BY <1>2, <3>2 DEF BooksWait
    <3>4. Dispatch(b) /\ UNCHANGED handled
      BY <2>3 DEF ReadInfo
    <3> HIDE DEF h
    <3>5. h \in Seq(Byte) /\ Len(h) = BufferBytes /\ BufferBytes \in Nat /\ BufferBytes >= 3
      BY <3>2, Sizes DEF Buffer
    <3>6. b[3] = h[3]
      BY <3>1, <3>5, PutIs
    <3>7. Type(b) # POSITION_UPDATE_TYPE
      BY <3>3, <3>6 DEF Type, HeaderBytes, ORDER_BOOK_UPDATE_MESSAGE_TYPE, POSITION_UPDATE_TYPE
    <3> HIDE DEF b
    <3>8. UNCHANGED position_
      BY <3>4, <3>7, DispatchPosition
    <3> QED BY <2>2, <3>4, <3>8
  <2>4. CASE ReadExecEof
    <3>1. Dispatch(buffer) /\ UNCHANGED handled
      BY <2>4 DEF ReadExecEof
    <3>2. UNCHANGED traderVars
      BY <1>2, <3>1, AbsorbedAgain
    <3> QED BY <2>2, <3>1, <3>2 DEF traderVars
  <2>5. CASE Quiet \/ Network \/ UNCHANGED vars
    <3>1. UNCHANGED <<traderVars, handled>>
      BY <2>5, QuietSteps DEF Network, processVars, vars
    <3> QED BY <2>2, <3>1 DEF traderVars
  <2> QED BY <1>2, <2>1, <2>3, <2>4, <2>5 DEF Next, main, runLoop, Quiet
<1>3. ASSUME TypeOK, BooksWait, [Next]_vars
      PROVE  BooksWait'
  BY <1>3, BooksWaitStep
<1> QED BY <1>1, <1>2, <1>3, LinkTypes, AlwaysAbsorbed, PTL DEF Spec

-----------------------------------------------------------------------------
(* The loop is Polling's.                                                   *)

(* A read of either socket, and what its handler sends. *)
LEMMA SendsHandled ==
  ASSUME phase = "running", AfterSends
  PROVE  Polled!Handle /\ Stage = "running"
BY SendsEnd DEF Polled!Handle, Stage, Stopped, AfterSends

(* What a read takes from the receive buffer is what Polling has it take. *)
LEMMA ReadExecPolled ==
  ASSUME TypeOK, ReadExec
  PROVE  Polled!ReadExec
<1> DEFINE n == IF Len(rcv) < BufferBytes THEN Len(rcv) ELSE BufferBytes
<1>1. /\ phase = "running" /\ poll = "exec" /\ rcv # << >> /\ AfterSends
      /\ rcv' = SubSeq(rcv, n + 1, Len(rcv)) /\ UNCHANGED <<poll, info>>
  BY DEF ReadExec
<1>2. rcv \in Seq(Byte) /\ Len(rcv) \in Nat /\ BufferBytes \in Nat
  BY Sizes DEF TypeOK
<1>3. Len(rcv) > 0
  BY <1>1, <1>2
<1>4. n \in Nat /\ n <= Len(rcv)
  BY <1>2
<1>5. Len(rcv') = Len(rcv) - n
  <2> HIDE DEF n
  <2> QED BY <1>1, <1>2, <1>4
<1>6. Len(rcv') = IF Len(rcv) < BufferBytes THEN 0 ELSE Len(rcv) - BufferBytes
  BY <1>2, <1>5
<1>7. Polled!Handle /\ Stage = "running"
  BY <1>1, SendsHandled
<1>8. UNCHANGED Len(info)
  BY <1>1
<1> QED BY <1>1, <1>3, <1>6, <1>7, <1>8 DEF Polled!ReadExec, Polled!At

(* Nothing is connected before main has begun. *)
Unconnected == phase = "start" => conn = "none"

(* It connects once. *)
LEMMA UnconnectedStep ==
  ASSUME Unconnected, [Next]_vars
  PROVE  Unconnected'
<1>1. CASE Quiet
  BY <1>1 DEF Unconnected, Quiet, initConnection, createExecutionSocket,
              createInformationSocket, registerTrader, registerMarketLink, ReadExecError,
              ReadExecWouldBlock, ReadInfoWouldBlock, ReadInfoError, networkVars
<1>2. CASE ReadExec \/ ReadInfo
  BY <1>2, SendsEnd DEF Unconnected, ReadExec, ReadInfo
<1>3. CASE ReadExecEof \/ UNCHANGED vars
  BY <1>3 DEF Unconnected, ReadExecEof, networkVars, vars, processVars
<1>4. CASE Network
  BY <1>4 DEF Unconnected, Network, processVars, Transmit, Arrive, Publish, Disconnect
<1> QED BY <1>1, <1>2, <1>3, <1>4 DEF Next, main, runLoop, Quiet

(* The start-up, up to the call of runLoop. *)
LEMMA StartUpPolled ==
  ASSUME Unconnected, initConnection \/ registerTrader \/ registerMarketLink
  PROVE  Polled!StartUp
<1>1. UNCHANGED <<poll, rcv, info>> /\ Stage = "starting"
  BY DEF initConnection, createExecutionSocket, createInformationSocket, registerTrader,
         registerMarketLink, networkVars, Stage, Stopped
<1>2. Stage' \in {"starting", "running", "stopped"}
  BY DEF Stage
<1>3. \/ conn' = conn
      \/ conn = "none" /\ conn' = "open"
      \/ conn = "reset" /\ conn' = "closed"
  BY DEF Unconnected, initConnection, createExecutionSocket, createInformationSocket,
         registerTrader, registerMarketLink, networkVars
<1> QED BY <1>1, <1>2, <1>3 DEF Polled!StartUp

(* What the network does. *)
LEMMA NetworkPolled ==
  ASSUME TypeOK, Network
  PROVE  \/ Polled!ExecArrives \/ Polled!InfoArrives \/ Polled!Disconnect
         \/ UNCHANGED <<Stage, poll, Len(rcv), Len(info), conn>>
<1>1. rcv \in Seq(Byte) /\ wire \in Seq(Byte) /\ info \in Seq(Buffer)
  BY DEF TypeOK, Buffer
<1>2. UNCHANGED poll /\ UNCHANGED Stage
  BY DEF Network, processVars, Stage, Stopped
<1>3. ASSUME NEW n \in 1 .. Len(wire), Arrive(n)
      PROVE  Polled!ExecArrives
  <2> DEFINE part == SubSeq(wire, 1, n)
  <2>1. part \in Seq(Byte) /\ Len(part) = n /\ n \in Nat /\ n > 0
    BY <1>1
  <2>2. conn = "open" /\ rcv' = rcv \o part /\ UNCHANGED <<conn, info>>
    BY <1>3 DEF Arrive
  <2> HIDE DEF part
  <2>3. Len(rcv') \in Nat /\ Len(rcv) \in Nat /\ Len(rcv') > Len(rcv)
    BY <1>1, <2>1, <2>2, Joined
  <2> QED BY <1>2, <2>2, <2>3 DEF Polled!ExecArrives
<1>4. ASSUME NEW d \in Datagrams, Publish(d)
      PROVE  Polled!InfoArrives
  <2>1. info' = Append(info, EncodeBook(d)) /\ UNCHANGED <<rcv, conn>>
    BY <1>4 DEF Publish
  <2>2. EncodeBook(d) \in Buffer
    BY EncodeBookIs DEF Buffer
  <2>3. Len(info') = Len(info) + 1 /\ Len(info') \in Nat
    BY <1>1, <2>1, <2>2
  <2> QED BY <1>2, <2>1, <2>3 DEF Polled!InfoArrives
<1>5. ASSUME Disconnect
      PROVE  Polled!Disconnect
  BY <1>2, <1>5 DEF Disconnect, Polled!Disconnect
<1>6. ASSUME NEW m \in ExecMessages, Transmit(m)
      PROVE  UNCHANGED <<Stage, poll, Len(rcv), Len(info), conn>>
  BY <1>2, <1>6 DEF Transmit
<1> QED BY <1>3, <1>4, <1>5, <1>6 DEF Network

(* The rest of the loop. *)
LEMMA LoopPolled ==
  ASSUME TypeOK, runLoop, ~ReadExec, ~ReadExecEof
  PROVE  Polled!readNextMessage
<1>1. rcv \in Seq(Byte) /\ info \in Seq(Buffer)
  BY DEF TypeOK, Buffer
<1>2. (rcv = << >> => Len(rcv) = 0) /\ (info = << >> => Len(info) = 0)
  BY <1>1
<1>3. phase = "running" => Stage = "running"
  BY DEF Stage
<1>4. phase' = "exited" => Stage' = "stopped"
  BY DEF Stage, Stopped
<1>5. UNCHANGED phase => UNCHANGED Stage
  BY DEF Stage, Stopped
<1>6. CASE ReadExecError
  BY <1>2, <1>3, <1>4, <1>6 DEF ReadExecError, networkVars, Polled!ReadExecError, Polled!At,
                                Polled!readNextMessage
<1>7. CASE ReadExecWouldBlock
  BY <1>2, <1>3, <1>5, <1>7 DEF ReadExecWouldBlock, networkVars, Polled!ReadExecWouldBlock,
                                Polled!At, Polled!readNextMessage
<1>8. CASE ReadInfo
  <2>1. /\ phase = "running" /\ poll = "info" /\ poll' = "exec" /\ UNCHANGED rcv /\ AfterSends
        /\ info # << >> /\ info' = Tail(info)
    BY <1>8 DEF ReadInfo
  <2>2. Len(info) > 0 /\ Len(info') = Len(info) - 1
    BY <1>1, <2>1
  <2>3. Polled!Handle
    BY <2>1, SendsHandled
  <2> QED BY <1>3, <2>1, <2>2, <2>3 DEF Polled!ReadInfo, Polled!At, Polled!readNextMessage
<1>9. CASE ReadInfoWouldBlock
  BY <1>2, <1>3, <1>5, <1>9 DEF ReadInfoWouldBlock, networkVars, Polled!ReadInfoWouldBlock,
                                Polled!At, Polled!readNextMessage
<1>10. CASE ReadInfoError
  BY <1>3, <1>4, <1>10 DEF ReadInfoError, networkVars, Polled!ReadInfoError, Polled!At,
                           Polled!readNextMessage
<1> QED BY <1>6, <1>7, <1>8, <1>9, <1>10 DEF runLoop

(* For every layout of the messages, every traffic and every way TCP cuts   *)
(* it, the loop polls its sockets as Polling says: the execution socket     *)
(* first, the information socket when that has nothing, one message a turn. *)
THEOREM LinkIsPolling == Spec => ImplementsPolling
<1> DEFINE polled == <<Stage, poll, Len(rcv), Len(info), conn>>
<1>1. Init => Polled!Init /\ Unconnected
  BY DEF Init, Polled!Init, Stage, Stopped, Unconnected
<1>2. ASSUME TypeOK, Unconnected, [Next]_vars
      PROVE  [Polled!Next]_polled
  <2>1. CASE initConnection \/ registerTrader \/ registerMarketLink
    BY <1>2, <2>1, StartUpPolled DEF Polled!Next
  <2>2. CASE ReadExec
    BY <1>2, <2>2, ReadExecPolled DEF Polled!Next, Polled!readNextMessage
  <2>3. CASE ReadExecEof \/ UNCHANGED vars
    BY <2>3 DEF ReadExecEof, networkVars, processVars, vars, Stage, Stopped
  <2>4. CASE runLoop /\ ~ReadExec /\ ~ReadExecEof
    BY <1>2, <2>4, LoopPolled DEF Polled!Next
  <2>5. CASE Network
    BY <1>2, <2>5, NetworkPolled DEF Polled!Next
  <2> QED BY <1>2, <2>1, <2>2, <2>3, <2>4, <2>5 DEF Next, main
<1>3. ASSUME Unconnected, [Next]_vars
      PROVE  Unconnected'
  BY <1>3, UnconnectedStep
<1> QED BY <1>1, <1>2, <1>3, LinkTypes, PTL
       DEF Spec, ImplementsPolling, Polled!SafeSpec, Polled!pollingVars

-----------------------------------------------------------------------------
(* If every message arrives whole, prices come from books and from nothing  *)
(* that only looks like one.                                                *)

(* A level that is read is the level that was published. *)
LEMMA LevelIs ==
  ASSUME NEW d \in Datagrams, NEW which \in {0, 2}, NEW i \in 1 .. Depth
  PROVE  /\ Level(EncodeBook(d), which, i) = d.words[1 + which * Depth + i]
         /\ d.words[1 + which * Depth + i] \in Int
<1> DEFINE k == 1 + which * Depth + i
           b == EncodeBook(d)
<1>1. k \in 1 .. BookWords /\ k \in Nat
  BY LevelWord
<1>2. Level(b, which, i) = Word(b, WordAt(k) + 1)
  BY DEF Level
<1>3. \A c \in 1 .. BookWords : \A j \in 1 .. WordBytes :
        b[4 + ((c - 1) * WordBytes + j)] = ToBytes(d.words[c])[j]
  BY EncodeBookIs
<1>4. FitsWord(d.words[k]) /\ d.words[k] \in Int
  <2>1. /\ d.words \in Seq(Int) /\ Len(d.words) = BookWords
        /\ \A c \in DOMAIN d.words : FitsWord(d.words[c])
    BY BookAssumption
  <2>2. DOMAIN d.words = 1 .. BookWords
    BY <2>1
  <2> HIDE DEF k
  <2> QED BY <1>1, <2>1, <2>2
<1> HIDE DEF k, b
<1>5. WordAt(k) + 1 \in Int /\ WordAt(k) \in Int
  BY <1>1, WordAtIs
<1>6. ASSUME NEW j \in 1 .. WordBytes
      PROVE  b[WordAt(k) + 1 + j - 1] = ToBytes(d.words[k])[j]
  <2> DEFINE x == (k - 1) * WordBytes + j
  <2>1. WordAt(k) + j - 1 = 3 + x /\ x \in Int /\ j \in Int
    BY <1>1, WordAtIs, Times
  <2>2. b[4 + x] = ToBytes(d.words[k])[j]
    BY <1>1, <1>3
  <2> HIDE DEF x
  <2>3. WordAt(k) + 1 + j - 1 = 4 + x
    BY <1>5, <2>1
  <2> QED BY <2>2, <2>3
<1>7. Word(b, WordAt(k) + 1) = d.words[k]
  BY <1>4, <1>5, <1>6, WordRoundTrip
<1> QED BY <1>2, <1>4, <1>7 DEF k, b

(* The first level of a vector is the first one of the message that is not  *)
(* empty.                                                                   *)
LEMMA FirstLevel ==
  ASSUME NEW b, NEW which, \A i \in 1 .. Depth : Level(b, which, i) \in Int,
         Levels(b, which) # << >>
  PROVE  \E f \in 1 .. Depth :
           /\ Levels(b, which)[1] = Level(b, which, f) /\ Level(b, which, f) # 0
           /\ \A j \in 1 .. f - 1 : Level(b, which, j) = 0
<1> DEFINE K == Kept(b, which)
           L == [i \in 1 .. Depth |-> Level(b, which, i)]
           Empty(i) == K[i] = << >> /\ \A j \in 1 .. i : L[j] = 0
           First(i) == /\ K[i] # << >>
                       /\ \E f \in 1 .. i : /\ K[i][1] = L[f] /\ L[f] # 0
                                            /\ \A j \in 1 .. f - 1 : L[j] = 0
           T == {i \in 0 .. Depth : Empty(i) \/ First(i)}
<1>1. /\ Levels(b, which) = K[Depth] /\ K[0] = << >>
      /\ \A i \in 1 .. Depth :
           K[i] = IF L[i] = 0 THEN K[i - 1] ELSE Append(K[i - 1], L[i])
      /\ \A i \in 0 .. Depth : K[i] \in Seq(Int)
      /\ \A i \in 1 .. Depth : L[i] \in Int /\ L[i] = Level(b, which, i)
  BY KeptIs
<1> HIDE DEF K, L
<1>2. Depth \in Nat
  BY Sizes
<1>3. 0 \in T
  <2>1. 0 \in 0 .. Depth /\ Empty(0)
    BY <1>1, <1>2
  <2> QED BY <2>1
<1>4. ASSUME NEW i \in 1 .. Depth, i - 1 \in T
      PROVE  i \in T
  <2>1. /\ i \in 0 .. Depth /\ i - 1 \in 0 .. Depth /\ i \in Nat
        /\ \A j \in 1 .. i : j \in 1 .. i - 1 \/ j = i
        /\ \A j \in 1 .. i - 1 : j \in 1 .. i
    BY <1>2
  <2>2. K[i - 1] \in Seq(Int) /\ L[i] \in Int
    BY <1>1, <2>1
  <2>3. CASE L[i] = 0
    <3>1. K[i] = K[i - 1]
      BY <1>1, <2>3
    <3>2. Empty(i - 1) => Empty(i)
      BY <2>1, <2>3, <3>1
    <3>3. First(i - 1) => First(i)
      BY <2>1, <3>1
    <3> QED BY <1>4, <2>1, <3>2, <3>3
  <2>4. CASE L[i] # 0
    <3>1. K[i] = Append(K[i - 1], L[i])
      BY <1>1, <2>4
    <3>2. Empty(i - 1) => First(i)
      <4>1. Empty(i - 1) => K[i] # << >> /\ K[i][1] = L[i]
        BY <3>1
      <4>2. i \in 1 .. i
        BY <2>1
      <4> QED BY <2>4, <4>1, <4>2
    <3>3. First(i - 1) => First(i)
      <4>1. \A t \in Seq(Int), x \in Int :
              t # << >> => Append(t, x) # << >> /\ Append(t, x)[1] = t[1]
        <5> SUFFICES ASSUME NEW t \in Seq(Int), NEW x \in Int, t # << >>
                     PROVE  Append(t, x) # << >> /\ Append(t, x)[1] = t[1]
          OBVIOUS
        <5>1. Len(t) >= 1 /\ Len(Append(t, x)) = Len(t) + 1
          OBVIOUS
        <5> QED BY <5>1
      <4>2. First(i - 1) => K[i] # << >> /\ K[i][1] = K[i - 1][1]
        BY <2>2, <3>1, <4>1
      <4> QED BY <2>1, <4>2
    <3> QED BY <1>4, <2>1, <3>2, <3>3
  <2> QED BY <2>3, <2>4
<1> HIDE DEF T
<1>5. Depth \in T
  <2>1. \A k \in 0 .. Depth : k \in T
    BY <1>2, <1>3, <1>4, Induction
  <2> QED BY <1>2, <2>1
<1>6. First(Depth)
  BY <1>1, <1>5 DEF T
<1>7. PICK f \in 1 .. Depth : /\ K[Depth][1] = L[f] /\ L[f] # 0
                              /\ \A j \in 1 .. f - 1 : L[j] = 0
  BY <1>6
<1>8. \A j \in 1 .. f - 1 : j \in 1 .. Depth
  BY <1>2
<1> QED BY <1>1, <1>7, <1>8

(* What TheoFromBooks says of a book. *)
PricedBy(d, price) ==
  LET prices(which) == {d.words[1 + which * Depth + i] : i \in 1 .. Depth} \ {0}
  IN  /\ d.instrument = 0
      /\ \E ask \in prices(0), bid \in prices(2) :
           /\ \A p \in prices(0) : ask <= p
           /\ \A p \in prices(2) : bid >= p
           /\ price = Midpoint(ask, bid)

(* As the levels are sorted, the first one is the best one. *)
LEMMA BookPriced ==
  ASSUME NEW d \in Datagrams, IsPriced(OrderBook(EncodeBook(d)))
  PROVE  PricedBy(d, Midpoint(OrderBook(EncodeBook(d)).ask_prices[1],
                              OrderBook(EncodeBook(d)).bid_prices[1]))
<1> DEFINE b     == EncodeBook(d)
           asks  == Levels(b, 0)
           bids  == Levels(b, 2)
           w(which, i) == d.words[1 + which * Depth + i]
<1>1. /\ asks # << >> /\ bids # << >>
      /\ OrderBook(b).ask_prices = asks /\ OrderBook(b).bid_prices = bids
      /\ b[4] = 0
  BY DEF IsPriced, OrderBook, FUTURE, ETF, HeaderBytes
<1>2. d.instrument = 0
  BY <1>1, EncodeBookIs
<1>3. \A which \in {0, 2} : \A i \in 1 .. Depth :
        Level(b, which, i) = w(which, i) /\ w(which, i) \in Int
  BY LevelIs
<1> HIDE DEF b
<1>4. PICK f \in 1 .. Depth : /\ asks[1] = w(0, f) /\ w(0, f) # 0
                              /\ \A j \in 1 .. f - 1 : w(0, j) = 0
  <2>1. \A i \in 1 .. Depth : Level(b, 0, i) \in Int
    BY <1>3
  <2>2. PICK f \in 1 .. Depth : /\ asks[1] = Level(b, 0, f) /\ Level(b, 0, f) # 0
                                /\ \A j \in 1 .. f - 1 : Level(b, 0, j) = 0
    BY <1>1, <2>1, FirstLevel
  <2>3. \A j \in 1 .. f - 1 : j \in 1 .. Depth
    BY Sizes
  <2> QED BY <1>3, <2>2, <2>3
<1>5. PICK g \in 1 .. Depth : /\ bids[1] = w(2, g) /\ w(2, g) # 0
                              /\ \A j \in 1 .. g - 1 : w(2, j) = 0
  <2>1. \A i \in 1 .. Depth : Level(b, 2, i) \in Int
    BY <1>3
  <2>2. PICK g \in 1 .. Depth : /\ bids[1] = Level(b, 2, g) /\ Level(b, 2, g) # 0
                                /\ \A j \in 1 .. g - 1 : Level(b, 2, j) = 0
    BY <1>1, <2>1, FirstLevel
  <2>3. \A j \in 1 .. g - 1 : j \in 1 .. Depth
    BY Sizes
  <2> QED BY <1>3, <2>2, <2>3
<1>6. \A i, j \in 1 .. Depth :
        /\ i < j /\ w(0, i) # 0 /\ w(0, j) # 0 => w(0, i) <= w(0, j)
        /\ i < j /\ w(2, i) # 0 /\ w(2, j) # 0 => w(2, i) >= w(2, j)
  <2>1. \A i \in 1 .. Depth : 1 + 0 * Depth + i = 1 + i
    BY Sizes
  <2> QED BY <2>1, BookAssumption
<1>7. \A i, j \in 1 .. Depth : i < j \/ i = j \/ j \in 1 .. i - 1
  BY Sizes
<1>8. ASSUME NEW j \in 1 .. Depth, w(0, j) # 0
      PROVE  w(0, f) <= w(0, j)
  BY <1>3, <1>4, <1>6, <1>7, <1>8
<1>9. ASSUME NEW j \in 1 .. Depth, w(2, j) # 0
      PROVE  w(2, g) >= w(2, j)
  BY <1>3, <1>5, <1>6, <1>7, <1>9
<1>10. PricedBy(d, Midpoint(w(0, f), w(2, g)))
  BY <1>2, <1>4, <1>5, <1>8, <1>9 DEF PricedBy
<1> QED BY <1>1, <1>4, <1>5, <1>10 DEF b

(* Bytes that are not a book's when read into the buffer. *)
NotBook(bytes) == bytes # << >> => Len(bytes) >= 3 /\ bytes[3] # ORDER_BOOK_UPDATE_MESSAGE_TYPE

(* A backlog starts with a message, never in the middle of one, and fits a  *)
(* read; the information channel has books.                                 *)
InFrame ==
  /\ NotBook(wire) /\ NotBook(rcv) /\ Len(rcv) + Len(wire) <= BufferBytes
  /\ \A k \in 1 .. Len(info) : \E d \in Datagrams : info[k] = EncodeBook(d)

(* What is put behind a message does not change what it starts with. *)
LEMMA JoinedNotBook ==
  ASSUME NEW s \in Seq(Byte), NEW t \in Seq(Byte), NotBook(s), NotBook(t)
  PROVE  /\ NotBook(s \o t) /\ s \o t \in Seq(Byte) /\ Len(s \o t) = Len(s) + Len(t)
         /\ Len(s) \in Nat /\ Len(t) \in Nat
<1>1. Len(s) \in Nat /\ Len(t) \in Nat /\ (s # << >> => Len(s) >= 3)
  BY DEF NotBook
<1>2. /\ s \o t \in Seq(Byte) /\ Len(s \o t) = Len(s) + Len(t)
      /\ \A k \in 1 .. Len(s) : (s \o t)[k] = s[k]
  BY Joined
<1>3. CASE s = << >>
  <2>1. s \o t = t
    BY <1>3
  <2> QED BY <1>1, <1>2, <2>1
<1>4. CASE s # << >>
  <2>1. 3 \in 1 .. Len(s)
    BY <1>1, <1>4
  <2>2. (s \o t)[3] = s[3] /\ Len(s \o t) >= 3
    BY <1>1, <1>2, <1>4, <2>1
  <2> QED BY <1>1, <1>2, <1>4, <2>2 DEF NotBook
<1> QED BY <1>3, <1>4

(* The network keeps what it delivers in frame. *)
LEMMA NetworkInFrame ==
  ASSUME Arrival # "any", TypeOK, InFrame, Network
  PROVE  InFrame'
<1> DEFINE Books == \A k \in 1 .. Len(info) : \E d \in Datagrams : info[k] = EncodeBook(d)
           Bytes == NotBook(wire) /\ NotBook(rcv) /\ Len(rcv) + Len(wire) <= BufferBytes
<1>1. /\ wire \in Seq(Byte) /\ rcv \in Seq(Byte) /\ Bytes /\ Books
      /\ info \in Seq(Buffer) /\ Len(wire) \in Nat /\ Len(rcv) \in Nat /\ BufferBytes \in Nat
  BY Sizes DEF TypeOK, InFrame, Buffer
<1>2. ASSUME NEW m \in ExecMessages, Transmit(m)
      PROVE  Bytes' /\ Books'
  <2> DEFINE e == Encode(m)
  <2>1. /\ wire' = wire \o e /\ UNCHANGED <<rcv, info>>
        /\ Arrival = "single" => wire = << >> /\ rcv = << >>
        /\ Arrival = "whole" => Len(rcv \o wire \o e) <= BufferBytes
    BY <1>2 DEF Transmit
  <2>2. e \in Seq(Byte) /\ NotBook(e) /\ Len(e) <= BufferBytes /\ Len(e) \in Nat
    BY EncodeIs DEF NotBook
  <2> HIDE DEF e
  <2>3. NotBook(wire \o e) /\ Len(wire \o e) = Len(wire) + Len(e)
    BY <1>1, <2>2, JoinedNotBook
  <2>4. Len(rcv \o wire \o e) = Len(rcv) + Len(wire) + Len(e)
    <3>1. rcv \o wire \in Seq(Byte) /\ Len(rcv \o wire) = Len(rcv) + Len(wire)
      BY <1>1, Joined
    <3> QED BY <2>2, <3>1, Joined
  <2>5. Arrival \in {"single", "whole"}
    BY LinkAssumption
  <2>6. Len(rcv) + Len(wire \o e) <= BufferBytes
    <3>1. CASE Arrival = "single"
      <4>1. Len(wire) = 0 /\ Len(rcv) = 0
        BY <2>1, <3>1
      <4> QED BY <2>2, <2>3, <4>1
    <3>2. CASE Arrival = "whole"
      BY <1>1, <2>1, <2>2, <2>3, <2>4, <3>2
    <3> QED BY <2>5, <3>1, <3>2
  <2>7. Bytes'
    BY <1>1, <2>1, <2>3, <2>6 DEF NotBook
  <2> QED BY <1>1, <2>1, <2>7
<1>3. ASSUME NEW n \in 1 .. Len(wire), Arrive(n)
      PROVE  Bytes' /\ Books'
  <2>1. /\ rcv' = rcv \o SubSeq(wire, 1, Len(wire)) /\ UNCHANGED info
        /\ wire' = SubSeq(wire, Len(wire) + 1, Len(wire))
    BY <1>3 DEF Arrive
  <2>2. SubSeq(wire, 1, Len(wire)) = wire /\ SubSeq(wire, Len(wire) + 1, Len(wire)) = << >>
    BY <1>1
  <2>3. NotBook(rcv \o wire) /\ Len(rcv \o wire) = Len(rcv) + Len(wire)
    BY <1>1, JoinedNotBook
  <2>4. rcv' = rcv \o wire /\ wire' = << >> /\ Len(<< >>) = 0
    BY <2>1, <2>2
  <2>5. Bytes'
    BY <1>1, <2>3, <2>4 DEF NotBook
  <2> QED BY <1>1, <2>1, <2>5
<1>4. ASSUME NEW d \in Datagrams, Publish(d)
      PROVE  Bytes' /\ Books'
  <2> DEFINE e == EncodeBook(d)
  <2>1. info' = Append(info, e) /\ UNCHANGED <<wire, rcv>>
    BY <1>4 DEF Publish
  <2>2. e \in Buffer
    BY EncodeBookIs DEF Buffer
  <2>3. e = EncodeBook(d)
    OBVIOUS
  <2> HIDE DEF e
  <2>4. ASSUME NEW k \in 1 .. Len(info')
        PROVE  \E c \in Datagrams : info'[k] = EncodeBook(c)
    <3>1. (k \in 1 .. Len(info) /\ info'[k] = info[k]) \/ info'[k] = e
      BY <1>1, <2>1, <2>2
    <3> QED BY <1>1, <2>3, <3>1
  <2> QED BY <1>1, <2>1, <2>4 DEF NotBook
<1>5. ASSUME UNCHANGED <<wire, rcv, info>>
      PROVE  Bytes' /\ Books'
  BY <1>1, <1>5 DEF NotBook
<1>6. Bytes' /\ Books'
  BY <1>2, <1>3, <1>4, <1>5 DEF Network, Disconnect
<1> QED BY <1>6 DEF InFrame

(* A read from the execution socket leaves nothing and brings no book. *)
LEMMA ReadExecInFrame ==
  ASSUME TypeOK, InFrame, ReadExec
  PROVE  InFrame' /\ UNCHANGED theo_price_
<1> DEFINE n   == IF Len(rcv) < BufferBytes THEN Len(rcv) ELSE BufferBytes
           msg == Put(buffer, 1, rcv)
<1>1. /\ wire \in Seq(Byte) /\ rcv \in Seq(Byte) /\ buffer \in Buffer
      /\ NotBook(wire) /\ NotBook(rcv) /\ Len(rcv) + Len(wire) <= BufferBytes
      /\ Len(wire) \in Nat /\ Len(rcv) \in Nat /\ BufferBytes \in Nat
  BY Sizes DEF TypeOK, InFrame, Buffer
<1>2. n = Len(rcv) /\ Len(rcv) <= BufferBytes
  BY <1>1
<1>3. SubSeq(rcv, 1, Len(rcv)) = rcv /\ SubSeq(rcv, Len(rcv) + 1, Len(rcv)) = << >>
  BY <1>1
<1>4. rcv # << >> /\ rcv' = << >> /\ Dispatch(msg) /\ UNCHANGED <<wire, info>>
  BY <1>2, <1>3 DEF ReadExec
<1>5. Len(rcv) >= 3 /\ rcv[3] # ORDER_BOOK_UPDATE_MESSAGE_TYPE /\ 3 \in 1 .. Len(rcv)
  BY <1>1, <1>4 DEF NotBook
<1>6. Type(msg) # ORDER_BOOK_UPDATE_MESSAGE_TYPE
  <2>1. msg[3] = rcv[3]
    BY <1>1, <1>2, <1>5, PutIs
  <2> QED BY <1>5, <2>1 DEF Type, HeaderBytes
<1> HIDE DEF msg
<1>7. UNCHANGED theo_price_
  BY <1>4, <1>6 DEF Dispatch, handleOrderStatusUpdate, onOrderStatusUpdate, handlePositionUpdate,
                    onPositionUpdate, traderVars
<1>8. NotBook(rcv)' /\ NotBook(wire)' /\ Len(rcv') + Len(wire') <= BufferBytes
  <2>1. Len(rcv') = 0
    BY <1>4
  <2> QED BY <1>1, <1>4, <2>1 DEF NotBook
<1> QED BY <1>4, <1>7, <1>8 DEF InFrame

(* A datagram is a book, and its price is that of a book. *)
LEMMA ReadInfoInFrame ==
  ASSUME TypeOK, InFrame, ReadInfo
  PROVE  /\ InFrame'
         /\ UNCHANGED theo_price_ \/ \E d \in Datagrams : PricedBy(d, theo_price_')
<1>1. /\ info \in Seq(Buffer) /\ info # << >> /\ buffer \in Buffer
      /\ info' = Tail(info) /\ UNCHANGED <<wire, rcv>> /\ Dispatch(Put(buffer, 1, Head(info)))
  BY DEF TypeOK, Buffer, ReadInfo
<1>2. /\ 1 \in 1 .. Len(info) /\ Head(info) = info[1]
      /\ \A k \in 1 .. Len(Tail(info)) : k + 1 \in 1 .. Len(info) /\ Tail(info)[k] = info[k + 1]
  BY <1>1
<1>3. InFrame'
  BY <1>1, <1>2 DEF InFrame, NotBook
<1>4. PICK d \in Datagrams : Head(info) = EncodeBook(d)
  BY <1>2 DEF InFrame
<1> DEFINE e == EncodeBook(d)
<1>5. Put(buffer, 1, e) = e
  <2>1. e \in Buffer /\ e \in Seq(Byte) /\ Len(e) = BufferBytes
    BY EncodeBookIs DEF Buffer
  <2> HIDE DEF e
  <2>2. /\ Put(buffer, 1, e) \in Buffer
        /\ \A k \in 1 .. BufferBytes : Put(buffer, 1, e)[k] = e[k]
    BY <1>1, <2>1, PutIs, Sizes
  <2> QED BY <2>1, <2>2 DEF Buffer
<1>6. Type(e) = ORDER_BOOK_UPDATE_MESSAGE_TYPE
  BY EncodeBookIs DEF Type, HeaderBytes
<1>7. onOrderBookUpdate(OrderBook(e))
  BY <1>1, <1>4, <1>5, <1>6 DEF Dispatch, handleOrderBookUpdate, ORDER_BOOK_UPDATE_MESSAGE_TYPE,
                                ORDER_STATUS_UPDATE_TYPE, POSITION_UPDATE_TYPE
<1>8. \/ UNCHANGED theo_price_
      \/ /\ IsPriced(OrderBook(e))
         /\ theo_price_' = Midpoint(OrderBook(e).ask_prices[1], OrderBook(e).bid_prices[1])
  BY <1>7 DEF onOrderBookUpdate, model_onOrderBookUpdate
<1>9. IsPriced(OrderBook(e)) => PricedBy(d, Midpoint(OrderBook(e).ask_prices[1],
                                                     OrderBook(e).bid_prices[1]))
  BY BookPriced
<1> QED BY <1>3, <1>8, <1>9

(* If messages arrive whole, the theoretical price is always that of the    *)
(* best ask and the best bid of one FUTURE book: no execution message is    *)
(* taken for a book, no book is mixed with the message it was written over, *)
(* and a repeated one does not move the price.                              *)
THEOREM PriceFromOneBook ==
  ASSUME Arrival # "any"
  PROVE  Spec => []TheoFromBooks
<1>1. Init => InFrame /\ TheoFromBooks
  BY Sizes DEF Init, TraderInit, PricingInit, InFrame, NotBook, TheoFromBooks
<1>2. ASSUME TypeOK, Absorbed, InFrame, TheoFromBooks, [Next]_vars
      PROVE  InFrame' /\ TheoFromBooks'
  <2>1. ASSUME UNCHANGED theo_price_
        PROVE  TheoFromBooks'
    BY <1>2, <2>1 DEF TheoFromBooks
  <2>2. CASE ReadExec
    BY <1>2, <2>1, <2>2, ReadExecInFrame
  <2>3. CASE ReadInfo
    <3>1. ASSUME NEW d \in Datagrams, PricedBy(d, theo_price_')
          PROVE  TheoFromBooks'
      BY <3>1 DEF TheoFromBooks, PricedBy
    <3> QED BY <1>2, <2>1, <2>3, <3>1, ReadInfoInFrame
  <2>4. CASE Network
    <3>1. UNCHANGED theo_price_
      BY <2>4 DEF Network, traderVars
    <3> QED BY <1>2, <2>1, <2>4, <3>1, NetworkInFrame
  <2>5. CASE Quiet \/ ReadExecEof \/ UNCHANGED vars
    <3>1. UNCHANGED <<wire, rcv, info>>
      BY <2>5, QuietSteps DEF ReadExecEof, networkVars, vars
    <3>2. UNCHANGED theo_price_
      BY <1>2, <2>5, QuietSteps, AbsorbedAgain DEF ReadExecEof, traderVars, vars
    <3>3. InFrame'
      BY <1>2, <3>1 DEF InFrame, NotBook
    <3> QED BY <2>1, <3>2, <3>3
  <2> QED BY <1>2, <2>2, <2>3, <2>4, <2>5 DEF Next, main, runLoop, Quiet
<1> QED BY <1>1, <1>2, LinkTypes, AlwaysAbsorbed, PTL DEF Spec

-----------------------------------------------------------------------------
(* If messages arrive whole, the bytes are Delivery's messages.             *)

AllBytes == Seq(Byte)

(* s is the sequences of q joined; g are the steps. *)
JoinedBy(q, s, g) ==
  /\ g \in [0 .. Len(q) -> AllBytes] /\ g[0] = << >> /\ g[Len(q)] = s
  /\ \A k \in 1 .. Len(q) : g[k] = g[k - 1] \o q[k]

(* The steps of FlattenSeq. *)
Flatten(q) ==
  LET flatten[i \in 1 .. Len(q)] == IF i = 1 THEN q[i] ELSE flatten[i - 1] \o q[i]
  IN  flatten

(* FlattenSeq joins. *)
LEMMA FlattenJoins ==
  ASSUME NEW q \in Seq(AllBytes)
  PROVE  \E g : JoinedBy(q, FlattenSeq(q), g)
<1> DEFINE n == Len(q)
           F == [k \in 1 .. n |-> [x \in AllBytes |-> x \o q[k]]]
           P(g) == g = [i \in 1 .. n |-> IF i = 1 THEN q[i] ELSE g[i - 1] \o q[i]]
<1>1. n \in Nat /\ \A k \in 1 .. n : q[k] \in AllBytes
  OBVIOUS
<1>2. << >> \in AllBytes /\ \A x, y \in AllBytes : x \o y \in AllBytes /\ << >> \o y = y
  BY DEF AllBytes
<1>3. F \in [1 .. n -> [AllBytes -> AllBytes]]
  BY <1>1, <1>2
<1>4. \A k \in 1 .. n : \A x \in AllBytes : F[k][x] = x \o q[k]
  OBVIOUS
<1> HIDE DEF F
<1>5. PICK g \in [0 .. n -> AllBytes] : IsLoop(g, n, << >>, F)
  BY <1>1, <1>2, <1>3, LoopExists
<1>6. ASSUME NEW k \in 1 .. n
      PROVE  g[k] = g[k - 1] \o q[k]
  <2>1. k - 1 \in 0 .. n
    BY <1>1
  <2>2. g[k] = F[k][g[k - 1]] /\ g[k - 1] \in AllBytes
    BY <1>5, <2>1 DEF IsLoop
  <2> QED BY <1>4, <2>2, Zenon
<1>7. g[0] = << >>
  BY <1>5 DEF IsLoop
<1> DEFINE h == [i \in 1 .. n |-> g[i]]
<1>8. P(h)
  <2>1. ASSUME NEW i \in 1 .. n
        PROVE  g[i] = IF i = 1 THEN q[i] ELSE h[i - 1] \o q[i]
    <3>1. CASE i = 1
      <4>1. g[1] = g[1 - 1] \o q[1] /\ q[1] \in AllBytes
        BY <1>1, <1>6, <3>1
      <4>2. 1 - 1 = 0
        OBVIOUS
      <4> QED BY <1>2, <1>7, <3>1, <4>1, <4>2, Zenon
    <3>2. CASE i # 1
      <4>1. i - 1 \in 1 .. n
        BY <1>1, <3>2
      <4>2. h[i - 1] = g[i - 1]
        BY <4>1
      <4> QED BY <1>6, <3>2, <4>2, Zenon
    <3> QED BY <3>1, <3>2
  <2> QED BY <2>1
<1>9. P(Flatten(q))
  BY <1>8, Zenon DEF Flatten
<1> DEFINE f == Flatten(q)
           T == {k \in 0 .. n : k = 0 \/ f[k] = g[k]}
<1> HIDE DEF f
<1>10. 0 \in T
  BY <1>1
<1>11. ASSUME NEW k \in 1 .. n, k - 1 \in T
       PROVE  k \in T
  <2>1. f[k] = IF k = 1 THEN q[k] ELSE f[k - 1] \o q[k]
    BY <1>9 DEF f
  <2>2. g[k] = g[k - 1] \o q[k] /\ q[k] \in AllBytes /\ k \in 0 .. n
    BY <1>1, <1>6
  <2>3. CASE k = 1
    <3>1. k - 1 = 0
      BY <2>3
    <3>2. g[k] = q[k]
      BY <1>2, <1>7, <2>2, <3>1, Zenon
    <3> QED BY <2>1, <2>2, <2>3, <3>2
  <2>4. CASE k # 1
    <3>1. k - 1 # 0
      BY <2>4
    <3>2. f[k - 1] = g[k - 1]
      BY <1>11, <3>1
    <3>3. f[k] = g[k]
      BY <2>1, <2>2, <2>4, <3>2, Zenon
    <3> QED BY <2>2, <3>3
  <2> QED BY <2>3, <2>4
<1> HIDE DEF T
<1>12. n \in T
  <2>1. \A k \in 0 .. n : k \in T
    BY <1>1, <1>10, <1>11, Induction
  <2> QED BY <1>1, <2>1
<1>13. FlattenSeq(q) = IF n = 0 THEN q ELSE f[n]
  BY Zenon DEF FlattenSeq, Flatten, f
<1>14. FlattenSeq(q) = g[n]
  <2>1. n = 0 => q = << >>
    OBVIOUS
  <2>2. n = 0 \/ f[n] = g[n]
    BY <1>12 DEF T
  <2> QED BY <1>7, <1>13, <2>1, <2>2
<1>15. JoinedBy(q, FlattenSeq(q), g)
  BY <1>5, <1>6, <1>7, <1>14 DEF JoinedBy
<1> QED BY <1>15

(* There is only one way to join. *)
LEMMA JoinUnique ==
  ASSUME NEW q, Len(q) \in Nat, NEW s, NEW g, NEW t, NEW h, JoinedBy(q, s, g), JoinedBy(q, t, h)
  PROVE  s = t
<1> DEFINE T == {k \in 0 .. Len(q) : g[k] = h[k]}
<1>1. 0 \in T
  BY DEF JoinedBy
<1>2. ASSUME NEW k \in 1 .. Len(q), k - 1 \in T
      PROVE  k \in T
  <2>1. g[k] = g[k - 1] \o q[k] /\ h[k] = h[k - 1] \o q[k]
    BY DEF JoinedBy
  <2>2. g[k] = h[k]
    BY <1>2, <2>1
  <2> QED BY <2>2
<1> HIDE DEF T
<1>3. Len(q) \in T
  <2>1. \A k \in 0 .. Len(q) : k \in T
    BY <1>1, <1>2, Induction
  <2> QED BY <2>1
<1> QED BY <1>3 DEF T, JoinedBy

(* Joining the parts and joining the whole. *)
LEMMA JoinTwo ==
  ASSUME NEW q \in Seq(AllBytes), NEW s, NEW g, JoinedBy(q, s, g),
         NEW r \in Seq(AllBytes), NEW t, NEW h, JoinedBy(r, t, h)
  PROVE  \E d : JoinedBy(q \o r, s \o t, d)
<1> DEFINE n == Len(q)
           m == Len(r)
           w == q \o r
           d == [k \in 0 .. n + m |-> IF k <= n THEN g[k] ELSE s \o h[k - n]]
<1>1. n \in Nat /\ m \in Nat /\ Len(w) = n + m /\ \A k \in 1 .. m : r[k] \in AllBytes
  OBVIOUS
<1>2. /\ \A k \in 1 .. n : w[k] = q[k]
      /\ \A k \in 1 .. n + m : k > n => w[k] = r[k - n]
  BY <1>1
<1>3. /\ g \in [0 .. n -> AllBytes] /\ g[0] = << >> /\ g[n] = s
      /\ \A k \in 1 .. n : g[k] = g[k - 1] \o q[k]
      /\ h \in [0 .. m -> AllBytes] /\ h[0] = << >> /\ h[m] = t
      /\ \A k \in 1 .. m : h[k] = h[k - 1] \o r[k]
  BY Zenon DEF JoinedBy
<1>4. s \in AllBytes
  BY <1>1, <1>3
<1>5. /\ \A x, y \in AllBytes : x \o y \in AllBytes
      /\ \A x, y, z \in AllBytes : x \o (y \o z) = (x \o y) \o z
      /\ s \o << >> = s
  BY <1>4 DEF AllBytes
<1> HIDE DEF n, m, w
<1>6. \A k \in 0 .. n + m : k > n => k - n \in 0 .. m /\ h[k - n] \in AllBytes
  BY <1>1, <1>3
<1>7. d \in [0 .. n + m -> AllBytes]
  <2>1. \A k \in 0 .. n + m : k <= n => g[k] \in AllBytes
    BY <1>1, <1>3
  <2>2. \A k \in 0 .. n + m : ~(k <= n) => s \o h[k - n] \in AllBytes
    <3>1. \A k \in 0 .. n + m : ~(k <= n) => k > n
      BY <1>1
    <3> QED BY <1>4, <1>5, <1>6, <3>1, Zenon
  <2> QED BY <2>1, <2>2
<1>8. /\ \A k \in 0 .. n : d[k] = g[k]
      /\ \A k \in 0 .. m : d[n + k] = s \o h[k]
  <2>1. \A k \in 0 .. n : k \in 0 .. n + m /\ k <= n
    BY <1>1
  <2>2. \A k \in 0 .. n : d[k] = g[k]
    BY <2>1
  <2>3. ASSUME NEW k \in 0 .. m
        PROVE  d[n + k] = s \o h[k]
    <3>1. n + k \in 0 .. n + m /\ (n + k) - n = k /\ (n + k <= n <=> k = 0) /\ n + 0 = n /\ n \in 0 .. n
      BY <1>1
    <3>2. CASE k = 0
      <4>1. d[n + k] = g[n]
        BY <2>2, <3>1, <3>2
      <4> QED BY <1>3, <1>4, <1>5, <3>2, <4>1, Zenon
    <3>3. CASE k # 0
      BY <3>1, <3>3
    <3> QED BY <3>2, <3>3
  <2> QED BY <2>2, <2>3
<1> HIDE DEF d
<1>9. ASSUME NEW k \in 1 .. n + m
      PROVE  d[k] = d[k - 1] \o w[k]
  <2>1. CASE k <= n
    <3>1. k \in 1 .. n /\ k \in 0 .. n /\ k - 1 \in 0 .. n
      BY <1>1, <2>1
    <3> QED BY <1>2, <1>3, <1>8, <3>1, Zenon
  <2>2. CASE ~(k <= n)
    <3> DEFINE i == k - n
    <3>1. i \in 1 .. m /\ i \in 0 .. m /\ i - 1 \in 0 .. m /\ k = n + i /\ k - 1 = n + (i - 1) /\ k > n
      BY <1>1, <2>2
    <3>2. w[k] = r[i]
      BY <1>2, <3>1
    <3> HIDE DEF i
    <3>3. d[k] = s \o h[i] /\ d[k - 1] = s \o h[i - 1]
      BY <1>8, <3>1, Zenon
    <3>4. h[i] = h[i - 1] \o r[i] /\ h[i - 1] \in AllBytes /\ r[i] \in AllBytes
      BY <1>1, <1>3, <3>1
    <3>5. s \o (h[i - 1] \o r[i]) = (s \o h[i - 1]) \o r[i]
      BY <1>4, <1>5, <3>4
    <3> QED BY <3>2, <3>3, <3>4, <3>5, Zenon
  <2> QED BY <2>1, <2>2
<1>10. d[0] = << >> /\ d[n + m] = s \o t
  <2>1. 0 \in 0 .. n /\ m \in 0 .. m
    BY <1>1
  <2> QED BY <1>3, <1>8, <2>1, Zenon
<1>11. JoinedBy(w, s \o t, d)
  BY <1>1, <1>7, <1>9, <1>10 DEF JoinedBy
<1> QED BY <1>11 DEF w

(* The bytes of messages. *)
Encoded(p) == [k \in DOMAIN p |-> Encode(p[k])]
OnWire(p)  == FlattenSeq(Encoded(p))

(* They are encoded one by one. *)
LEMMA EncodedIs ==
  ASSUME NEW p \in Seq(ExecMessages)
  PROVE  /\ Encoded(p) \in Seq(AllBytes) /\ Len(Encoded(p)) = Len(p)
         /\ \A k \in 1 .. Len(p) : Encoded(p)[k] = Encode(p[k])
<1>1. DOMAIN p = 1 .. Len(p) /\ Len(p) \in Nat /\ \A k \in 1 .. Len(p) : p[k] \in ExecMessages
  OBVIOUS
<1>2. \A k \in 1 .. Len(p) : Encode(p[k]) \in AllBytes
  BY <1>1, EncodeIs DEF AllBytes
<1>3. Encoded(p) = [k \in 1 .. Len(p) |-> Encode(p[k])]
  BY <1>1 DEF Encoded
<1> QED BY <1>1, <1>2, <1>3

(* What is sent later is behind what was sent before. *)
LEMMA WireJoin ==
  ASSUME NEW p \in Seq(ExecMessages), NEW r \in Seq(ExecMessages)
  PROVE  /\ OnWire(p \o r) = OnWire(p) \o OnWire(r)
         /\ OnWire(p) \in AllBytes
<1> DEFINE a == Encoded(p)
           b == Encoded(r)
<1>1. /\ a \in Seq(AllBytes) /\ Len(a) = Len(p) /\ \A k \in 1 .. Len(p) : a[k] = Encode(p[k])
      /\ b \in Seq(AllBytes) /\ Len(b) = Len(r) /\ \A k \in 1 .. Len(r) : b[k] = Encode(r[k])
  BY EncodedIs
<1>2. Encoded(p \o r) = a \o b
  <2> DEFINE w == p \o r
             c == Encoded(w)
             n == Len(p)
             m == Len(r)
  <2>1. w \in Seq(ExecMessages) /\ Len(w) = n + m /\ n \in Nat /\ m \in Nat
    OBVIOUS
  <2>2. /\ \A k \in 1 .. n : w[k] = p[k]
        /\ \A k \in 1 .. n + m : k > n => w[k] = r[k - n]
    BY <2>1
  <2> HIDE DEF w
  <2>3. c \in Seq(AllBytes) /\ Len(c) = n + m /\ \A k \in 1 .. n + m : c[k] = Encode(w[k])
    BY <2>1, EncodedIs
  <2> HIDE DEF c, a, b
  <2>4. a \o b \in Seq(AllBytes) /\ Len(a \o b) = n + m
    <3>1. a \in Seq(AllBytes) /\ b \in Seq(AllBytes)
      BY <1>1
    <3>2. a \o b \in Seq(AllBytes) /\ Len(a \o b) = Len(a) + Len(b)
      BY <3>1
    <3> QED BY <1>1, <3>2
  <2>5. /\ \A k \in 1 .. n : (a \o b)[k] = a[k]
        /\ \A k \in 1 .. n + m : k > n => (a \o b)[k] = b[k - n]
    BY <1>1
  <2>6. ASSUME NEW k \in 1 .. n + m
        PROVE  c[k] = (a \o b)[k]
    <3>1. CASE k > n
      <4>1. k - n \in 1 .. m
        BY <2>1, <3>1
      <4> QED BY <1>1, <2>2, <2>3, <2>5, <3>1, <4>1, Zenon
    <3>2. CASE ~(k > n)
      <4>1. k \in 1 .. n
        BY <2>1, <3>2
      <4> QED BY <1>1, <2>2, <2>3, <2>5, <4>1, Zenon
    <3> QED BY <3>1, <3>2
  <2> DEFINE d == a \o b
  <2> HIDE DEF d
  <2>7. c = d
    BY <2>1, <2>3, <2>4, <2>6 DEF d
  <2> QED BY <2>7 DEF c, d, w
<1> HIDE DEF a, b
<1>3. PICK g : JoinedBy(a, FlattenSeq(a), g)
  BY <1>1, FlattenJoins
<1>4. PICK h : JoinedBy(b, FlattenSeq(b), h)
  BY <1>1, FlattenJoins
<1>5. PICK d : JoinedBy(a \o b, FlattenSeq(a) \o FlattenSeq(b), d)
  BY <1>1, <1>3, <1>4, JoinTwo
<1>6. a \o b \in Seq(AllBytes) /\ Len(a \o b) \in Nat
  BY <1>1
<1>7. PICK e : JoinedBy(a \o b, FlattenSeq(a \o b), e)
  BY <1>6, FlattenJoins
<1>8. FlattenSeq(a \o b) = FlattenSeq(a) \o FlattenSeq(b)
  BY <1>5, <1>6, <1>7, JoinUnique
<1>9. FlattenSeq(a) \in AllBytes
  <2>1. Len(a) \in 0 .. Len(a)
    BY <1>1
  <2>2. g \in [0 .. Len(a) -> AllBytes] /\ g[Len(a)] = FlattenSeq(a)
    BY <1>3, Zenon DEF JoinedBy
  <2> QED BY <2>1, <2>2
<1> QED BY <1>2, <1>8, <1>9, Zenon DEF OnWire, a, b

(* No message, one message, and a message before others. *)
LEMMA WireCases ==
  /\ OnWire(<< >>) = << >>
  /\ \A m \in ExecMessages : OnWire(<<m>>) = Encode(m)
  /\ \A p \in Seq(ExecMessages) :
       p # << >> => OnWire(p) = Encode(p[1]) \o OnWire(Tail(p))
<1>1. OnWire(<< >>) = << >>
  <2>1. Encoded(<< >>) = << >>
    BY DEF Encoded
  <2>2. FlattenSeq(<< >>) = << >>
    <3>1. Len(<< >>) = 0
      OBVIOUS
    <3> QED BY <3>1, Zenon DEF FlattenSeq
  <2> QED BY <2>1, <2>2, Zenon DEF OnWire
<1>2. ASSUME NEW m \in ExecMessages
      PROVE  OnWire(<<m>>) = Encode(m)
  <2> DEFINE f == Encode(m)
             q == <<f>>
             g == [k \in 0 .. 1 |-> IF k = 0 THEN << >> ELSE f]
  <2>1. f \in AllBytes
    BY EncodeIs DEF AllBytes
  <2>2. Encoded(<<m>>) = q
    BY DEF Encoded
  <2> HIDE DEF f
  <2>3. q \in Seq(AllBytes) /\ Len(q) = 1 /\ q[1] = f
    BY <2>1
  <2>4. << >> \in AllBytes /\ << >> \o f = f
    BY <2>1 DEF AllBytes
  <2> HIDE DEF q
  <2>5. g \in [0 .. 1 -> AllBytes] /\ g[0] = << >> /\ g[1] = f
    BY <2>1, <2>4
  <2> HIDE DEF g
  <2>6. JoinedBy(q, f, g)
    <3>1. ASSUME NEW k \in 1 .. 1
          PROVE  g[k] = g[k - 1] \o q[k]
      <4>1. k = 1 /\ k - 1 = 0
        OBVIOUS
      <4> QED BY <2>3, <2>4, <2>5, <4>1, Zenon
    <3> QED BY <2>3, <2>5, <3>1 DEF JoinedBy
  <2>7. PICK h : JoinedBy(q, FlattenSeq(q), h)
    BY <2>3, FlattenJoins
  <2>8. Len(q) \in Nat
    BY <2>3
  <2>9. FlattenSeq(q) = f
    BY <2>6, <2>7, <2>8, JoinUnique
  <2> QED BY <2>2, <2>9, Zenon DEF OnWire, f
<1>3. ASSUME NEW p \in Seq(ExecMessages), p # << >>
      PROVE  OnWire(p) = Encode(p[1]) \o OnWire(Tail(p))
  <2>1. p[1] \in ExecMessages /\ Tail(p) \in Seq(ExecMessages) /\ <<p[1]>> \in Seq(ExecMessages)
    BY <1>3
  <2>2. p = <<p[1]>> \o Tail(p)
    BY <1>3
  <2>3. OnWire(<<p[1]>> \o Tail(p)) = OnWire(<<p[1]>>) \o OnWire(Tail(p))
    BY <2>1, WireJoin
  <2> QED BY <1>2, <2>1, <2>2, <2>3
<1> QED BY <1>1, <1>2, <1>3

(* Sequences with the same bytes are the same. *)
LEMMA SameBytes ==
  ASSUME NEW a \in Seq(Byte), NEW b \in Seq(Byte), Len(a) = Len(b), \A k \in 1 .. Len(a) : a[k] = b[k]
  PROVE  a = b
OBVIOUS

(* What is equal up to n is equal there, and behind it. *)
LEMMA Cancel ==
  ASSUME NEW a \in AllBytes, NEW b \in AllBytes, NEW x \in AllBytes, NEW y \in AllBytes,
         Len(a) = Len(b), a \o x = b \o y
  PROVE  a = b /\ x = y
<1> DEFINE n == Len(a)
           v == a \o x
           w == b \o y
<1>1. /\ a \in Seq(Byte) /\ b \in Seq(Byte) /\ x \in Seq(Byte) /\ y \in Seq(Byte)
      /\ n \in Nat /\ Len(b) = n /\ Len(x) \in Nat /\ Len(y) \in Nat
  BY DEF AllBytes
<1>2. /\ Len(v) = n + Len(x) /\ \A k \in 1 .. n : v[k] = a[k]
      /\ \A j \in 1 .. Len(x) : v[n + j] = x[j]
  BY <1>1, Joined
<1>3. /\ Len(w) = Len(b) + Len(y) /\ \A k \in 1 .. Len(b) : w[k] = b[k]
      /\ \A j \in 1 .. Len(y) : w[Len(b) + j] = y[j]
  BY <1>1, Joined
<1>4. v = w
  OBVIOUS
<1> HIDE DEF n, v, w
<1>5. Len(x) = Len(y)
  BY <1>1, <1>2, <1>3, <1>4
<1>6. \A k \in 1 .. n : a[k] = b[k]
  BY <1>1, <1>2, <1>3, <1>4
<1>7. \A j \in 1 .. Len(x) : x[j] = y[j]
  BY <1>1, <1>2, <1>3, <1>4, <1>5
<1>8. a = b
  <2>1. Len(a) = Len(b) /\ \A k \in 1 .. Len(a) : a[k] = b[k]
    BY <1>6 DEF n
  <2> QED BY <1>1, <2>1, SameBytes
<1>9. x = y
  BY <1>1, <1>5, <1>7, SameBytes
<1> QED BY <1>8, <1>9

(* The type says how long a message is: bytes that start with a message     *)
(* start with no other.                                                     *)
SameStart(m, x, l, y) == Encode(m) \o x = Encode(l) \o y

LEMMA FirstMessage ==
  ASSUME NEW m \in ExecMessages, NEW x \in AllBytes, NEW l \in ExecMessages, NEW y \in AllBytes,
         SameStart(m, x, l, y)
  PROVE  m = l /\ x = y
<1> DEFINE a == Encode(m)
           b == Encode(l)
<1>1. /\ a \in Seq(Byte) /\ Len(a) = 3 + Len(m.words) * WordBytes /\ Len(a) >= 3 /\ a[3] = m.type
      /\ b \in Seq(Byte) /\ Len(b) = 3 + Len(l.words) * WordBytes /\ Len(b) >= 3 /\ b[3] = l.type
  BY EncodeIs
<1>2. Len(m.words) = WordCount(m.type) /\ Len(l.words) = WordCount(l.type)
  BY ExecAssumption
<1>3. a \o x = b \o y /\ x \in Seq(Byte) /\ y \in Seq(Byte)
  BY DEF AllBytes, SameStart
<1> HIDE DEF a, b
<1>4. (a \o x)[3] = a[3] /\ (b \o y)[3] = b[3]
  <2>1. 3 \in 1 .. Len(a) /\ 3 \in 1 .. Len(b)
    BY <1>1
  <2>2. \A k \in 1 .. Len(a) : (a \o x)[k] = a[k]
    BY <1>1, <1>3, Joined
  <2>3. \A k \in 1 .. Len(b) : (b \o y)[k] = b[k]
    BY <1>1, <1>3, Joined
  <2> QED BY <2>1, <2>2, <2>3
<1>5. m.type = l.type
  BY <1>1, <1>3, <1>4
<1>6. Len(a) = Len(b)
  BY <1>1, <1>2, <1>5, Zenon
<1>7. a \in AllBytes /\ b \in AllBytes
  BY <1>1 DEF AllBytes
<1>8. a = b /\ x = y
  BY <1>3, <1>6, <1>7, Cancel
<1>9. m = l
  <2> DEFINE z == [k \in 1 .. BufferBytes |-> 0]
  <2>1. z \in Buffer
    BY DEF Buffer, Byte
  <2> HIDE DEF z
  <2>2. Decoded(Put(z, 1, Encode(m))) = m /\ Decoded(Put(z, 1, Encode(l))) = l
    BY <2>1, DecodedIs
  <2> QED BY <1>8, <2>2, Zenon DEF a, b
<1> QED BY <1>8, <1>9

(* So messages can be told from their bytes, each of which has at least a   *)
(* header.                                                                  *)
LEMMA WireUnique ==
  ASSUME NEW p \in Seq(ExecMessages), NEW r \in Seq(ExecMessages), OnWire(p) = OnWire(r)
  PROVE  p = r
<1> DEFINE T == {n \in 0 .. Len(p) : \A x, y \in Seq(ExecMessages) :
                                       Len(x) = n /\ OnWire(x) = OnWire(y) => x = y}
<1>0. Len(p) \in Nat
  OBVIOUS
<1>1. \A x \in Seq(ExecMessages) : x # << >> =>
        /\ x[1] \in ExecMessages /\ Tail(x) \in Seq(ExecMessages) /\ Len(Tail(x)) = Len(x) - 1
        /\ x = <<x[1]>> \o Tail(x)
        /\ OnWire(x) = Encode(x[1]) \o OnWire(Tail(x)) /\ OnWire(Tail(x)) \in AllBytes
        /\ OnWire(x) # << >>
  <2> SUFFICES ASSUME NEW x \in Seq(ExecMessages), x # << >>
               PROVE  /\ x[1] \in ExecMessages /\ Tail(x) \in Seq(ExecMessages) /\ Len(Tail(x)) = Len(x) - 1
                      /\ x = <<x[1]>> \o Tail(x)
                      /\ OnWire(x) = Encode(x[1]) \o OnWire(Tail(x)) /\ OnWire(Tail(x)) \in AllBytes
                      /\ OnWire(x) # << >>
    OBVIOUS
  <2>1. /\ x[1] \in ExecMessages /\ Tail(x) \in Seq(ExecMessages) /\ Len(Tail(x)) = Len(x) - 1
        /\ x = <<x[1]>> \o Tail(x)
    OBVIOUS
  <2>2. OnWire(x) = Encode(x[1]) \o OnWire(Tail(x)) /\ OnWire(Tail(x)) \in AllBytes
    BY <2>1, WireCases, WireJoin
  <2>3. OnWire(x) # << >>
    <3> DEFINE a == Encode(x[1])
               b == OnWire(Tail(x))
    <3>1. a \in Seq(Byte) /\ Len(a) >= 3 /\ b \in Seq(Byte)
      BY <2>1, <2>2, EncodeIs DEF AllBytes
    <3> HIDE DEF a, b
    <3>2. a \o b # << >>
      BY <3>1
    <3> QED BY <2>2, <3>2 DEF a, b
  <2> QED BY <2>1, <2>2, <2>3
<1>2. 0 \in T
  <2>1. ASSUME NEW x \in Seq(ExecMessages), NEW y \in Seq(ExecMessages), Len(x) = 0, OnWire(x) = OnWire(y)
        PROVE  x = y
    <3>1. x = << >>
      BY <2>1
    <3>2. OnWire(y) = << >>
      BY <2>1, <3>1, WireCases
    <3> QED BY <1>1, <3>1, <3>2
  <2> QED BY <1>0, <2>1
<1>3. ASSUME NEW n \in 1 .. Len(p), n - 1 \in T
      PROVE  n \in T
  <2>1. ASSUME NEW x \in Seq(ExecMessages), NEW y \in Seq(ExecMessages), Len(x) = n, OnWire(x) = OnWire(y)
        PROVE  x = y
    <3>1. x # << >>
      BY <2>1
    <3>2. y # << >>
      BY <1>1, <2>1, <3>1, WireCases
    <3>3. /\ x[1] \in ExecMessages /\ Tail(x) \in Seq(ExecMessages) /\ Len(Tail(x)) = n - 1
          /\ x = <<x[1]>> \o Tail(x)
          /\ OnWire(x) = Encode(x[1]) \o OnWire(Tail(x)) /\ OnWire(Tail(x)) \in AllBytes
      BY <1>1, <2>1, <3>1
    <3>4. /\ y[1] \in ExecMessages /\ Tail(y) \in Seq(ExecMessages)
          /\ y = <<y[1]>> \o Tail(y)
          /\ OnWire(y) = Encode(y[1]) \o OnWire(Tail(y)) /\ OnWire(Tail(y)) \in AllBytes
      BY <1>1, <3>2
    <3>5. Encode(x[1]) \o OnWire(Tail(x)) = Encode(y[1]) \o OnWire(Tail(y))
      BY <2>1, <3>3, <3>4, Zenon
    <3>6. x[1] = y[1] /\ OnWire(Tail(x)) = OnWire(Tail(y))
      <4> DEFINE u == x[1]
                 v == y[1]
                 s == OnWire(Tail(x))
                 t == OnWire(Tail(y))
      <4>1. /\ u \in ExecMessages /\ v \in ExecMessages /\ s \in AllBytes /\ t \in AllBytes
            /\ SameStart(u, s, v, t)
        BY <3>3, <3>4, <3>5 DEF SameStart
      <4> HIDE DEF u, v, s, t
      <4>2. u = v /\ s = t
        BY <4>1, FirstMessage
      <4> QED BY <4>2 DEF u, v, s, t
    <3>7. Tail(x) = Tail(y)
      BY <1>3, <3>3, <3>4, <3>6
    <3> QED BY <3>3, <3>4, <3>6, <3>7, Zenon
  <2>2. n \in 0 .. Len(p)
    BY <1>0
  <2> QED BY <2>1, <2>2
<1> HIDE DEF T
<1>4. Len(p) \in T
  <2>1. \A n \in 0 .. Len(p) : n \in T
    BY <1>0, <1>2, <1>3, Induction
  <2> QED BY <1>0, <2>1
<1> QED BY <1>4 DEF T

(* A read takes no more messages than headers fit it. *)
LEMMA WireLength ==
  ASSUME NEW p \in Seq(ExecMessages)
  PROVE  Len(OnWire(p)) >= 3 * Len(p)
<1> DEFINE T == {n \in 0 .. Len(p) : \A x \in Seq(ExecMessages) : Len(x) = n => Len(OnWire(x)) >= 3 * n}
<1>0. Len(p) \in Nat
  OBVIOUS
<1>1. 0 \in T
  <2>1. ASSUME NEW x \in Seq(ExecMessages), Len(x) = 0
        PROVE  Len(OnWire(x)) >= 3 * 0
    <3>1. x = << >>
      BY <2>1
    <3>2. OnWire(x) = << >>
      BY <3>1, WireCases
    <3> QED BY <3>2
  <2> QED BY <1>0, <2>1
<1>2. ASSUME NEW n \in 1 .. Len(p), n - 1 \in T
      PROVE  n \in T
  <2>1. ASSUME NEW x \in Seq(ExecMessages), Len(x) = n
        PROVE  Len(OnWire(x)) >= 3 * n
    <3>1. x # << >> /\ x[1] \in ExecMessages /\ Tail(x) \in Seq(ExecMessages) /\ Len(Tail(x)) = n - 1
      BY <2>1
    <3> DEFINE a == Encode(x[1])
               b == OnWire(Tail(x))
    <3>2. OnWire(x) = a \o b
      BY <3>1, WireCases
    <3>3. a \in Seq(Byte) /\ Len(a) >= 3
      BY <3>1, EncodeIs
    <3>4. b \in Seq(Byte)
      BY <3>1, WireJoin DEF AllBytes
    <3>5. Len(b) >= 3 * (n - 1)
      BY <1>2, <3>1
    <3> HIDE DEF a, b
    <3>6. Len(a \o b) = Len(a) + Len(b) /\ Len(a) \in Nat /\ Len(b) \in Nat /\ n \in Nat
      BY <1>0, <3>3, <3>4, Joined
    <3> QED BY <3>2, <3>3, <3>5, <3>6
  <2>2. n \in 0 .. Len(p)
    BY <1>0
  <2> QED BY <2>1, <2>2
<1> HIDE DEF T
<1>3. Len(p) \in T
  <2>1. \A n \in 0 .. Len(p) : n \in T
    BY <1>0, <1>1, <1>2, Induction
  <2> QED BY <1>0, <2>1
<1> QED BY <1>3 DEF T

(* What the handlers get of a read that starts with a message. *)
LEMMA FirstDecoded ==
  ASSUME NEW b \in Buffer, NEW m \in ExecMessages, NEW x \in AllBytes, Len(Encode(m) \o x) <= BufferBytes
  PROVE  Decoded(Put(b, 1, Encode(m) \o x)) = m
<1> DEFINE a == Encode(m)
           w == a \o x
           c == Put(b, 1, w)
<1>1. a \in Seq(Byte) /\ Len(a) \in Nat /\ Len(a) <= BufferBytes /\ x \in Seq(Byte)
  BY EncodeIs DEF AllBytes
<1>2. Len(w) <= BufferBytes
  OBVIOUS
<1>3. a = Encode(m)
  OBVIOUS
<1> HIDE DEF a
<1>4. /\ w \in Seq(Byte) /\ Len(w) = Len(a) + Len(x) /\ \A k \in 1 .. Len(a) : w[k] = a[k]
  BY <1>1, Joined
<1>5. Len(x) \in Nat /\ Len(w) \in Nat /\ Len(a) <= Len(w)
  BY <1>1, <1>4
<1> HIDE DEF w
<1>6. c \in Buffer /\ \A k \in 1 .. Len(w) : c[k] = w[k]
  BY <1>2, <1>4, PutIs
<1>7. \A k \in 1 .. Len(a) : c[k] = a[k]
  <2>1. \A k \in 1 .. Len(a) : k \in 1 .. Len(w)
    BY <1>1, <1>5
  <2> QED BY <1>4, <1>6, <2>1, Zenon
<1> HIDE DEF c
<1>8. Put(c, 1, a) = c
  <2>1. DOMAIN c = 1 .. BufferBytes /\ BufferBytes \in Nat /\ c = [k \in 1 .. BufferBytes |-> c[k]]
    BY <1>6, Sizes DEF Buffer
  <2>2. ASSUME NEW k \in 1 .. BufferBytes
        PROVE  (IF 1 <= k /\ k < 1 + Len(a) THEN a[k - 1 + 1] ELSE c[k]) = c[k]
    <3>1. CASE 1 <= k /\ k < 1 + Len(a)
      <4>1. k \in 1 .. Len(a) /\ k - 1 + 1 = k
        BY <1>1, <2>1, <3>1
      <4> QED BY <1>7, <4>1
    <3> QED BY <3>1
  <2>3. Put(c, 1, a) = [k \in 1 .. BufferBytes |-> IF 1 <= k /\ k < 1 + Len(a) THEN a[k - 1 + 1] ELSE c[k]]
    BY <2>1, Zenon DEF Put
  <2> QED BY <2>1, <2>2, <2>3
<1>9. Decoded(Put(c, 1, a)) = m
  BY <1>3, <1>6, DecodedIs
<1>10. Decoded(c) = m
  BY <1>8, <1>9, Zenon
<1> QED BY <1>10 DEF c, w, a

(* Unread as a function of the messages sent and the bytes to come. *)
UnreadOf(all, bytes) ==
  CHOOSE part \in {SubSeq(all, i, j) : i \in 1 .. Len(all) + 1, j \in 0 .. Len(all)} :
    FlattenSeq([k \in DOMAIN part |-> Encode(part[k])]) = bytes

ToCome == rcv \o (IF conn = "open" THEN wire ELSE << >>)

(* It is that function before and after a step. *)
LEMMA UnreadIs == Unread = UnreadOf(sent, ToCome) /\ Unread' = UnreadOf(sent', ToCome')
<1>1. Unread = UnreadOf(sent, ToCome)
  BY DEF Unread, UnreadOf, ToCome
<1>2. Unread' = UnreadOf(sent', ToCome')
  BY DEF Unread, UnreadOf, ToCome
<1> QED BY <1>1, <1>2

(* If the bytes to come are a part of the messages, it is this part. *)
LEMMA UnreadPart ==
  ASSUME NEW a \in Seq(ExecMessages), NEW u \in Seq(ExecMessages), NEW b \in Seq(ExecMessages)
  PROVE  UnreadOf(a \o u \o b, OnWire(u)) = u
<1> DEFINE all == a \o u \o b
           parts == {SubSeq(all, i, j) : i \in 1 .. Len(all) + 1, j \in 0 .. Len(all)}
           n == Len(a)
           m == Len(u)
<1>1. /\ a \o u \in Seq(ExecMessages) /\ Len(a \o u) = n + m /\ n \in Nat /\ m \in Nat
      /\ \A k \in 1 .. m : (a \o u)[n + k] = u[k]
  <2>1. a \o u \in Seq(ExecMessages) /\ Len(a \o u) = n + m /\ n \in Nat /\ m \in Nat
    OBVIOUS
  <2>2. ASSUME NEW k \in 1 .. m
        PROVE  (a \o u)[n + k] = u[k]
    <3>1. n + k \in 1 .. n + m /\ (n + k) - n = k /\ ~(n + k <= n)
      BY <2>1
    <3> QED BY <3>1
  <2> QED BY <2>1, <2>2
<1> DEFINE c == a \o u
<1> HIDE DEF c
<1>2. /\ c \o b \in Seq(ExecMessages) /\ Len(c \o b) = Len(c) + Len(b) /\ Len(b) \in Nat
      /\ \A k \in 1 .. Len(c) : (c \o b)[k] = c[k]
  BY <1>1 DEF c
<1>3. /\ all \in Seq(ExecMessages) /\ Len(all) = n + m + Len(b) /\ Len(b) \in Nat
      /\ \A k \in 1 .. m : all[n + k] = u[k]
  <2>1. \A k \in 1 .. m : n + k \in 1 .. n + m
    BY <1>1
  <2> QED BY <1>1, <1>2, <2>1 DEF c
<1> HIDE DEF all, n, m
<1>4. SubSeq(all, n + 1, n + m) = u
  <2> DEFINE x == SubSeq(all, n + 1, n + m)
  <2>1. x \in Seq(ExecMessages) /\ Len(x) = m /\ \A k \in 1 .. m : x[k] = all[n + 1 + k - 1]
    BY <1>1, <1>3
  <2>2. \A k \in 1 .. m : n + 1 + k - 1 = n + k
    BY <1>1
  <2> HIDE DEF x
  <2>3. \A k \in 1 .. m : x[k] = u[k]
    BY <1>3, <2>1, <2>2
  <2>4. x = u
    BY <2>1, <2>3 DEF m
  <2> QED BY <2>4 DEF x
<1>5. u \in parts
  <2>1. n + 1 \in 1 .. Len(all) + 1 /\ n + m \in 0 .. Len(all)
    BY <1>1, <1>3
  <2> QED BY <1>4, <2>1
<1>6. \A part \in parts : part \in Seq(ExecMessages)
  <2> SUFFICES ASSUME NEW part \in parts
               PROVE  part \in Seq(ExecMessages)
    OBVIOUS
  <2>1. PICK i \in 1 .. Len(all) + 1, j \in 0 .. Len(all) : part = SubSeq(all, i, j)
    OBVIOUS
  <2>2. all \in Seq(ExecMessages) /\ Len(all) \in Nat
    BY <1>1, <1>3
  <2> HIDE DEF parts
  <2>3. SubSeq(all, i, j) \in Seq(ExecMessages)
    BY <2>2
  <2> QED BY <2>1, <2>3, Zenon
<1> HIDE DEF parts
<1>7. \A part : OnWire(part) = FlattenSeq([k \in DOMAIN part |-> Encode(part[k])])
  BY DEF OnWire, Encoded
<1> DEFINE z == UnreadOf(all, OnWire(u))
<1>8. z = CHOOSE part \in parts : FlattenSeq([k \in DOMAIN part |-> Encode(part[k])]) = OnWire(u)
  BY DEF UnreadOf, parts
<1> HIDE DEF z
<1>9. z \in parts /\ OnWire(z) = OnWire(u)
  BY <1>5, <1>7, <1>8, Zenon
<1>10. z = u
  BY <1>6, <1>9, WireUnique
<1> QED BY <1>10 DEF z, all

(* all is: messages that were read, p in the receive buffer, r under way.   *)
Carried(all, in, out, a, p, r) ==
  /\ a \in Seq(ExecMessages) /\ p \in Seq(ExecMessages) /\ r \in Seq(ExecMessages)
  /\ all = a \o p \o r /\ in = OnWire(p) /\ out = OnWire(r)

(* The bytes on both sides of the connection are whole messages, the last   *)
(* ones that were sent.                                                     *)
Backlog ==
  /\ \E a, p, r : Carried(sent, rcv, wire, a, p, r)
  /\ phase = "start" => wire = << >>

(* The same messages, parted otherwise. *)
LEMMA Regroup ==
  ASSUME NEW a \in Seq(ExecMessages), NEW p \in Seq(ExecMessages), NEW r \in Seq(ExecMessages)
  PROVE  /\ p \o r \in Seq(ExecMessages) /\ a \o p \in Seq(ExecMessages)
         /\ << >> \in Seq(ExecMessages) /\ p \o << >> = p /\ << >> \o r = r
         /\ a \o p \o r = a \o (p \o r) \o << >>
         /\ a \o p \o r = (a \o p) \o << >> \o r
<1>1. p \o r \in Seq(ExecMessages) /\ a \o p \in Seq(ExecMessages) /\ << >> \in Seq(ExecMessages)
  OBVIOUS
<1>2. p \o << >> = p /\ << >> \o r = r /\ (a \o p) \o << >> = a \o p
  BY <1>1
<1>3. a \o p \o r = a \o (p \o r)
  OBVIOUS
<1>4. (a \o (p \o r)) \o << >> = a \o (p \o r)
  <2> DEFINE w == a \o (p \o r)
  <2>1. w \in Seq(ExecMessages)
    BY <1>1
  <2> HIDE DEF w
  <2>2. w \o << >> = w
    BY <2>1
  <2> QED BY <2>2 DEF w
<1> QED BY <1>1, <1>2, <1>3, <1>4, Zenon

OneMore(a, p, r, m) ==
  /\ r \o <<m>> \in Seq(ExecMessages)
  /\ Append(p \o r, m) = p \o (r \o <<m>>)
  /\ Append(a \o p \o r, m) = a \o p \o (r \o <<m>>)

(* One message more. *)
LEMMA RegroupMore ==
  ASSUME NEW a \in Seq(ExecMessages), NEW p \in Seq(ExecMessages), NEW r \in Seq(ExecMessages),
         NEW m \in ExecMessages
  PROVE  OneMore(a, p, r, m)
<1>1. r \o <<m>> \in Seq(ExecMessages) /\ <<m>> \in Seq(ExecMessages) /\ a \o p \in Seq(ExecMessages)
  OBVIOUS
<1>2. \A x \in Seq(ExecMessages) : Append(x \o r, m) = x \o (r \o <<m>>)
  <2> SUFFICES ASSUME NEW x \in Seq(ExecMessages)
               PROVE  Append(x \o r, m) = x \o (r \o <<m>>)
    OBVIOUS
  <2>1. Append(x \o r, m) = (x \o r) \o <<m>>
    OBVIOUS
  <2>2. (x \o r) \o <<m>> = x \o (r \o <<m>>)
    BY <1>1
  <2> QED BY <2>1, <2>2
<1> QED BY <1>1, <1>2, Zenon DEF OneMore

(* The messages to come are those whose bytes are to come. *)
LEMMA UnreadCarried ==
  ASSUME NEW all, NEW in, NEW out, NEW a, NEW p, NEW r, Carried(all, in, out, a, p, r)
  PROVE  UnreadOf(all, in \o out) = p \o r /\ UnreadOf(all, in \o << >>) = p
<1>1. /\ a \in Seq(ExecMessages) /\ p \in Seq(ExecMessages) /\ r \in Seq(ExecMessages)
      /\ all = a \o p \o r /\ in = OnWire(p) /\ out = OnWire(r)
  BY DEF Carried
<1>2. /\ p \o r \in Seq(ExecMessages) /\ << >> \in Seq(ExecMessages) /\ a \o p \o r = a \o (p \o r) \o << >>
  BY <1>1, Regroup
<1>3. OnWire(p \o r) = in \o out /\ in \in AllBytes
  BY <1>1, WireJoin
<1>4. in \o << >> = in
  BY <1>3 DEF AllBytes
<1>5. UnreadOf(a \o (p \o r) \o << >>, OnWire(p \o r)) = p \o r
  BY <1>1, <1>2, UnreadPart
<1>6. UnreadOf(a \o p \o r, OnWire(p)) = p
  BY <1>1, UnreadPart
<1> QED BY <1>1, <1>2, <1>3, <1>4, <1>5, <1>6, Zenon

(* Unread in a state. *)
LEMMA UnreadNow ==
  ASSUME NEW a, NEW p, NEW r, Carried(sent, rcv, wire, a, p, r)
  PROVE  Unread = IF conn = "open" THEN p \o r ELSE p
<1>1. UnreadOf(sent, rcv \o wire) = p \o r /\ UnreadOf(sent, rcv \o << >>) = p
  BY UnreadCarried
<1>2. CASE conn = "open"
  BY <1>1, <1>2, UnreadIs DEF ToCome
<1>3. CASE conn # "open"
  BY <1>1, <1>3, UnreadIs DEF ToCome
<1> QED BY <1>2, <1>3

(* And in the next. *)
LEMMA UnreadNext ==
  ASSUME NEW a, NEW p, NEW r, Carried(sent', rcv', wire', a, p, r)
  PROVE  Unread' = IF conn' = "open" THEN p \o r ELSE p
<1>1. UnreadOf(sent', rcv' \o wire') = p \o r /\ UnreadOf(sent', rcv' \o << >>) = p
  BY UnreadCarried
<1>2. CASE conn' = "open"
  BY <1>1, <1>2, UnreadIs DEF ToCome
<1>3. CASE conn' # "open"
  BY <1>1, <1>3, UnreadIs DEF ToCome
<1> QED BY <1>2, <1>3

(* A step that leaves the bytes and what of them is to come. *)
LEMMA SameBacklog ==
  ASSUME Backlog, UNCHANGED <<sent, rcv, wire>>, phase' = "start" => phase = "start",
         conn' = "open" => conn = "open" \/ phase = "start", conn = "open" => conn' = "open"
  PROVE  Backlog' /\ Unread' = Unread
<1>1. Backlog'
  BY Zenon DEF Backlog
<1>2. ToCome' = ToCome
  <2>1. CASE phase = "start"
    BY <2>1 DEF Backlog, ToCome
  <2>2. CASE phase # "start"
    BY <2>2 DEF ToCome
  <2> QED BY <2>1, <2>2
<1>3. sent' = sent
  OBVIOUS
<1> QED BY <1>1, <1>2, <1>3, UnreadIs, Zenon

(* The exchange sends: one message more under way. *)
LEMMA TransmitDelivers ==
  ASSUME TypeOK, Backlog, NEW m \in ExecMessages, Transmit(m), UNCHANGED <<phase, handled>>
  PROVE  Backlog' /\ Delivered!Send
<1>1. PICK a, p, r : Carried(sent, rcv, wire, a, p, r)
  BY DEF Backlog
<1>2. /\ a \in Seq(ExecMessages) /\ p \in Seq(ExecMessages) /\ r \in Seq(ExecMessages)
      /\ sent = a \o p \o r /\ rcv = OnWire(p) /\ wire = OnWire(r)
  BY <1>1 DEF Carried
<1>3. /\ sent' = Append(sent, m) /\ wire' = wire \o Encode(m) /\ rcv' = rcv
      /\ conn = "open" /\ conn' = "open" /\ phase' # "start"
  BY DEF Transmit
<1>4. /\ r \o <<m>> \in Seq(ExecMessages) /\ Append(p \o r, m) = p \o (r \o <<m>>)
      /\ Append(a \o p \o r, m) = a \o p \o (r \o <<m>>)
  <2>1. OneMore(a, p, r, m)
    BY <1>2, RegroupMore
  <2> QED BY <2>1, Zenon DEF OneMore
<1>5. OnWire(r \o <<m>>) = OnWire(r) \o Encode(m)
  <2>1. <<m>> \in Seq(ExecMessages)
    OBVIOUS
  <2> QED BY <1>2, <2>1, WireJoin, WireCases
<1>6. Carried(sent', rcv', wire', a, p, r \o <<m>>)
  BY <1>2, <1>3, <1>4, <1>5, Zenon DEF Carried
<1>7. Unread = p \o r
  BY <1>1, <1>3, UnreadNow
<1>8. Unread' = p \o (r \o <<m>>)
  BY <1>3, <1>6, UnreadNext
<1>9. Unread' = Append(Unread, m)
  BY <1>4, <1>7, <1>8, Zenon
<1>10. Backlog'
  BY <1>3, <1>6, Zenon DEF Backlog
<1> QED BY <1>9, <1>10, Zenon DEF Delivered!Send

(* All that is under way arrives: nothing happens to the messages. *)
LEMMA ArriveDelivers ==
  ASSUME Arrival # "any", TypeOK, Backlog, NEW n \in 1 .. Len(wire), Arrive(n), UNCHANGED phase
  PROVE  Backlog' /\ Unread' = Unread
<1>1. PICK a, p, r : Carried(sent, rcv, wire, a, p, r)
  BY DEF Backlog
<1>2. /\ a \in Seq(ExecMessages) /\ p \in Seq(ExecMessages) /\ r \in Seq(ExecMessages)
      /\ sent = a \o p \o r /\ rcv = OnWire(p) /\ wire = OnWire(r)
  BY <1>1 DEF Carried
<1>3. wire \in Seq(Byte) /\ n = Len(wire)
  BY DEF TypeOK, Arrive
<1>4. SubSeq(wire, 1, Len(wire)) = wire /\ SubSeq(wire, Len(wire) + 1, Len(wire)) = << >>
  BY <1>3
<1>5. rcv' = rcv \o wire /\ wire' = << >> /\ sent' = sent /\ conn = "open" /\ conn' = "open"
  BY <1>3, <1>4 DEF Arrive
<1>6. /\ p \o r \in Seq(ExecMessages) /\ << >> \in Seq(ExecMessages)
      /\ a \o p \o r = a \o (p \o r) \o << >>
  BY <1>2, Regroup
<1>7. OnWire(p \o r) = OnWire(p) \o OnWire(r) /\ OnWire(<< >>) = << >>
  BY <1>2, WireJoin, WireCases
<1>8. Carried(sent', rcv', wire', a, p \o r, << >>)
  BY <1>2, <1>5, <1>6, <1>7, Zenon DEF Carried
<1>9. Unread = p \o r
  BY <1>1, <1>5, UnreadNow
<1>10. Unread' = (p \o r) \o << >>
  BY <1>5, <1>8, UnreadNext
<1>11. (p \o r) \o << >> = p \o r
  BY <1>6
<1>12. Backlog'
  BY <1>5, <1>8, Zenon DEF Backlog
<1> QED BY <1>9, <1>10, <1>11, <1>12, Zenon

(* A connection that ends loses what is under way. *)
LEMMA DisconnectDelivers ==
  ASSUME Backlog, Disconnect, UNCHANGED <<phase, handled>>
  PROVE  Backlog' /\ Delivered!Reset
<1>1. PICK a, p, r : Carried(sent, rcv, wire, a, p, r)
  BY DEF Backlog
<1>2. p \in Seq(ExecMessages) /\ r \in Seq(ExecMessages)
  BY <1>1 DEF Carried
<1>3. UNCHANGED <<sent, rcv, wire>> /\ conn = "open" /\ conn' # "open"
  BY DEF Disconnect
<1>4. Carried(sent', rcv', wire', a, p, r)
  BY <1>1, <1>3, Zenon
<1>5. Unread = p \o r
  BY <1>1, <1>3, UnreadNow
<1>6. Unread' = p
  BY <1>3, <1>4, UnreadNext
<1>7. Len(p) \in 0 .. Len(p \o r) /\ p = SubSeq(p \o r, 1, Len(p))
  BY <1>2
<1>8. \E n \in 0 .. Len(Unread) : Unread' = SubSeq(Unread, 1, n)
  BY <1>5, <1>6, <1>7, Zenon
<1>9. Backlog'
  BY <1>3, <1>4, Zenon DEF Backlog
<1> QED BY <1>8, <1>9, Zenon DEF Delivered!Reset

(* A read takes the whole receive buffer, and hands on its first message. *)
LEMMA ReadDelivers ==
  ASSUME MaxCoalesce \in Nat, BufferBytes < HeaderBytes * (MaxCoalesce + 1),
         TypeOK, InFrame, Backlog, ReadExec
  PROVE  Backlog' /\ Delivered!Read
<1> DEFINE n == IF Len(rcv) < BufferBytes THEN Len(rcv) ELSE BufferBytes
<1>1. PICK a, p, r : Carried(sent, rcv, wire, a, p, r)
  BY DEF Backlog
<1>2. /\ a \in Seq(ExecMessages) /\ p \in Seq(ExecMessages) /\ r \in Seq(ExecMessages)
      /\ sent = a \o p \o r /\ rcv = OnWire(p) /\ wire = OnWire(r)
  BY <1>1 DEF Carried
<1>3. /\ rcv \in Seq(Byte) /\ Len(rcv) \in Nat /\ Len(rcv) <= BufferBytes /\ BufferBytes \in Nat
      /\ buffer \in Buffer
  BY Sizes DEF TypeOK, InFrame, Buffer
<1>4. n = Len(rcv)
  BY <1>3
<1>5. SubSeq(rcv, 1, Len(rcv)) = rcv /\ SubSeq(rcv, Len(rcv) + 1, Len(rcv)) = << >>
  BY <1>3
<1>6. /\ rcv # << >> /\ rcv' = << >> /\ handled' = Append(handled, Decoded(Put(buffer, 1, rcv)))
      /\ UNCHANGED <<sent, wire>> /\ phase' # "start" /\ (conn' = "open" <=> conn = "open")
  BY <1>4, <1>5, SendsEnd DEF ReadExec
<1>7. p # << >>
  BY <1>2, <1>6, WireCases
<1>8. p[1] \in ExecMessages /\ Tail(p) \in Seq(ExecMessages) /\ Len(p) \in Nat /\ Len(p) >= 1
  BY <1>2, <1>7
<1>9. Decoded(Put(buffer, 1, rcv)) = p[1]
  <2> DEFINE x == OnWire(Tail(p))
             m == p[1]
  <2>1. rcv = Encode(m) \o x /\ x \in AllBytes /\ m \in ExecMessages
    BY <1>2, <1>7, <1>8, WireCases, WireJoin
  <2>2. Len(Encode(m) \o x) <= BufferBytes
    BY <1>3, <2>1
  <2> HIDE DEF x, m
  <2>3. Decoded(Put(buffer, 1, Encode(m) \o x)) = m
    BY <1>3, <2>1, <2>2, FirstDecoded
  <2> QED BY <2>1, <2>3, Zenon DEF m
<1>10. Len(p) \in 1 .. MaxCoalesce
  <2>1. Len(rcv) >= 3 * Len(p)
    BY <1>2, WireLength
  <2>2. BufferBytes < 3 * (MaxCoalesce + 1)
    BY DEF HeaderBytes
  <2> QED BY <1>3, <1>8, <2>1, <2>2
<1>11. /\ a \o p \in Seq(ExecMessages) /\ << >> \in Seq(ExecMessages) /\ << >> \o r = r
       /\ a \o p \o r = (a \o p) \o << >> \o r
  BY <1>2, Regroup
<1>12. Carried(sent', rcv', wire', a \o p, << >>, r)
  BY <1>2, <1>6, <1>11, WireCases, Zenon DEF Carried
<1>13. Unread = IF conn = "open" THEN p \o r ELSE p
  BY <1>1, UnreadNow
<1>14. Unread' = IF conn = "open" THEN r ELSE << >>
  <2>1. Unread' = IF conn' = "open" THEN << >> \o r ELSE << >>
    BY <1>12, UnreadNext
  <2> QED BY <1>6, <1>11, <2>1, Zenon
<1> DEFINE u == Unread
<1>15. /\ u # << >> /\ Head(u) = p[1] /\ Len(p) <= Len(u)
       /\ Unread' = SubSeq(u, Len(p) + 1, Len(u))
  <2>1. CASE conn = "open"
    <3>1. u = p \o r /\ Unread' = r
      BY <1>13, <1>14, <2>1
    <3>2. p \o r # << >> /\ Head(p \o r) = p[1] /\ Len(p) <= Len(p \o r)
      BY <1>2, <1>8
    <3>3. SubSeq(p \o r, Len(p) + 1, Len(p \o r)) = r
      BY <1>2
    <3> QED BY <3>1, <3>2, <3>3, Zenon
  <2>2. CASE conn # "open"
    <3>1. u = p /\ Unread' = << >>
      BY <1>13, <1>14, <2>2
    <3>2. Head(p) = p[1] /\ Len(p) <= Len(p) /\ SubSeq(p, Len(p) + 1, Len(p)) = << >>
      BY <1>2, <1>7, <1>8
    <3> QED BY <1>7, <3>1, <3>2, Zenon
  <2> QED BY <2>1, <2>2
<1>16. Backlog'
  BY <1>6, <1>12 DEF Backlog
<1> QED BY <1>6, <1>9, <1>10, <1>15, <1>16, Zenon DEF Delivered!Read

(* If messages arrive whole and a read holds no more than MaxCoalesce of    *)
(* them -- sizeof(Message) bytes hold 29 headers -- the byte stream and the *)
(* reused buffer are Delivery's channel: every read hands the first message *)
(* that waits to its handler, drops the others, and is in frame the next    *)
(* time, however the connection ends.                                       *)
THEOREM LinkIsDelivery ==
  ASSUME Arrival # "any", MaxCoalesce \in Nat, BufferBytes < HeaderBytes * (MaxCoalesce + 1)
  PROVE  Spec => ImplementsDelivery
<1>1. Init => InFrame /\ Backlog
  <2> SUFFICES ASSUME Init
               PROVE  InFrame /\ Backlog
    OBVIOUS
  <2>1. sent = << >> /\ rcv = << >> /\ wire = << >> /\ info = << >>
    BY DEF Init
  <2>2. InFrame
    BY <2>1, Sizes DEF InFrame, NotBook
  <2>3. << >> \in Seq(ExecMessages) /\ << >> \o << >> \o << >> = << >> /\ OnWire(<< >>) = << >>
    BY WireCases
  <2>4. Carried(sent, rcv, wire, << >>, << >>, << >>)
    BY <2>1, <2>3, Zenon DEF Carried
  <2> QED BY <2>1, <2>2, <2>4, Zenon DEF Backlog
<1>2. Init => Delivered!Init
  <2> SUFFICES ASSUME Init
               PROVE  Unread = << >> /\ handled = << >>
    BY Zenon DEF Delivered!Init
  <2>1. handled = << >> /\ sent = << >> /\ rcv = << >> /\ conn # "open"
    BY DEF Init
  <2>2. << >> \in Seq(ExecMessages) /\ << >> \o << >> \o << >> = << >> /\ << >> \o << >> = << >>
    OBVIOUS
  <2>3. UnreadOf(<< >> \o << >> \o << >>, OnWire(<< >>)) = << >>
    BY <2>2, UnreadPart
  <2>4. ToCome = << >>
    BY <2>1, <2>2 DEF ToCome
  <2>5. OnWire(<< >>) = << >>
    BY WireCases
  <2> QED BY <2>1, <2>2, <2>3, <2>4, <2>5, UnreadIs, Zenon
<1>3. ASSUME TypeOK, InFrame, Backlog, [Next]_vars
      PROVE  InFrame' /\ Backlog' /\ [Delivered!Next]_<<Unread, handled>>
  <2>1. CASE ReadExec
    BY <1>3, <2>1, ReadExecInFrame, ReadDelivers DEF Delivered!Next
  <2>2. CASE Network
    <3>1. InFrame'
      BY <1>3, <2>2, NetworkInFrame
    <3>2. UNCHANGED <<phase, handled>>
      BY <2>2 DEF Network, processVars
    <3>3. ASSUME NEW m \in ExecMessages, Transmit(m)
          PROVE  Backlog' /\ Delivered!Send
      BY <1>3, <3>2, <3>3, TransmitDelivers
    <3>4. ASSUME NEW n \in 1 .. Len(wire), Arrive(n)
          PROVE  Backlog' /\ Unread' = Unread
      BY <1>3, <3>2, <3>4, ArriveDelivers
    <3>5. ASSUME Disconnect
          PROVE  Backlog' /\ Delivered!Reset
      BY <1>3, <3>2, <3>5, DisconnectDelivers
    <3>6. ASSUME NEW d \in Datagrams, Publish(d)
          PROVE  Backlog' /\ Unread' = Unread
      <4>1. UNCHANGED <<sent, wire, rcv, conn>>
        BY <3>6 DEF Publish
      <4> QED BY <1>3, <3>2, <4>1, SameBacklog
    <3>7. Backlog' /\ (Delivered!Next \/ Unread' = Unread)
      BY <2>2, <3>3, <3>4, <3>5, <3>6 DEF Network, Delivered!Next
    <3> QED BY <3>1, <3>2, <3>7
  <2>3. CASE Quiet \/ ReadExecEof \/ ReadInfo \/ UNCHANGED vars
    <3>1. UNCHANGED <<sent, wire, rcv, handled>>
      BY <2>3, QuietSteps DEF ReadExecEof, ReadInfo, networkVars, processVars, vars
    <3>2. /\ phase' = "start" => phase = "start"
          /\ conn' = "open" => conn = "open" \/ phase = "start"
          /\ conn = "open" => conn' = "open"
      BY <2>3, QuietSteps, SendsEnd DEF ReadExecEof, ReadInfo, networkVars, processVars, vars
    <3>3. Backlog' /\ Unread' = Unread
      BY <1>3, <3>1, <3>2, SameBacklog
    <3>4. InFrame'
      <4>1. CASE ReadInfo
        BY <1>3, <4>1, ReadInfoInFrame
      <4>2. CASE ~ReadInfo
        <5>1. UNCHANGED <<wire, rcv, info>>
          BY <2>3, <4>2, QuietSteps DEF ReadExecEof, networkVars, vars
        <5> QED BY <1>3, <5>1 DEF InFrame, NotBook
      <4> QED BY <4>1, <4>2
    <3> QED BY <3>1, <3>3, <3>4
  <2> QED BY <1>3, <2>1, <2>2, <2>3 DEF Next, main, runLoop, Quiet
<1> QED BY <1>1, <1>2, <1>3, LinkTypes, PTL DEF Spec, ImplementsDelivery, Delivered!Spec
=============================================================================
