------------------------ MODULE CommandStreamProofs ------------------------
(***************************************************************************)
(* The outgoing bytes: what registerTrader, cancelOrder and insertOrder    *)
(* write is what the exchange reads, if the login is taken and up to the   *)
(* first short write.                                                      *)
(***************************************************************************)
EXTENDS CommandStream, WireProofs

(* How many bytes send() is given. *)
Sizes == {CANCEL_MESSAGE_SIZE, INSERT_MESSAGE_SIZE, LOGIN_MESSAGE_SIZE}

Body == [1 .. BodyBytes -> Byte]

-----------------------------------------------------------------------------
(* Writing into a Message.                                                  *)

(* Bytes written over a body replace those they fall on. *)
LEMMA PutBody ==
  ASSUME NEW b \in Body, NEW at \in Nat \ {0}, NEW bytes \in Seq(Byte)
  PROVE  /\ Put(b, at, bytes) \in Body
         /\ \A k \in 1 .. BodyBytes :
              Put(b, at, bytes)[k] = IF at <= k /\ k < at + Len(bytes) THEN bytes[k - at + 1] ELSE b[k]
<1>1. Len(bytes) \in Nat /\ DOMAIN b = 1 .. BodyBytes
  BY DEF Body
<1>2. \A k \in 1 .. BodyBytes : at <= k /\ k < at + Len(bytes) => k - at + 1 \in 1 .. Len(bytes)
  BY <1>1 DEF BodyBytes
<1>3. \A k \in 1 .. BodyBytes :
        (IF at <= k /\ k < at + Len(bytes) THEN bytes[k - at + 1] ELSE b[k]) \in Byte
  BY <1>2 DEF Body
<1> QED BY <1>1, <1>3 DEF Put, Body

(* Message{}. *)
LEMMA ZerosBody == Zeros \in Body
BY DEF Zeros, Body, Byte

(* Header and as much of the body as fits the size. *)
Framed(f, size, type, body) ==
  /\ f \in Seq(Byte) /\ Len(f) = size /\ f[1] = 0 /\ f[2] = size /\ f[3] = type
  /\ \A j \in 1 .. size - 3 : f[j + 3] = IF j <= Len(body) THEN body[j] ELSE 0

(* This is what send() is given. *)
LEMMA FrameOf ==
  ASSUME NEW size \in Sizes, NEW type \in Byte, NEW body \in Seq(Byte)
  PROVE  Framed(Frame(size, type, body), size, type, body)
<1> DEFINE p == Put(Zeros, 1, body)
           h == <<size \div 256, size % 256, type>>
           f == Frame(size, type, body)
<1>1. size \in 7 .. 73 /\ size \div 256 = 0 /\ size % 256 = size
  BY DEF Sizes, CANCEL_MESSAGE_SIZE, INSERT_MESSAGE_SIZE, LOGIN_MESSAGE_SIZE
<1>2. h \in Seq(Byte) /\ Len(h) = 3 /\ h[1] = 0 /\ h[2] = size /\ h[3] = type
  BY <1>1 DEF Byte
<1>3. /\ p \in Body
      /\ \A k \in 1 .. BodyBytes : p[k] = IF k < 1 + Len(body) THEN body[k] ELSE 0
  <2>1. /\ p \in Body
        /\ \A k \in 1 .. BodyBytes :
             p[k] = IF 1 <= k /\ k < 1 + Len(body) THEN body[k - 1 + 1] ELSE Zeros[k]
    BY ZerosBody, PutBody
  <2>2. \A k \in 1 .. BodyBytes : 1 <= k /\ k - 1 + 1 = k
    BY DEF BodyBytes
  <2>3. \A k \in 1 .. BodyBytes : Zeros[k] = 0
    BY DEF Zeros
  <2> HIDE DEF p
  <2> QED BY <2>1, <2>2, <2>3
<1> HIDE DEF h, p
<1>4. p \in Seq(Byte) /\ Len(p) = 85
  <2>1. p \in [1 .. 85 -> Byte] /\ 85 \in Nat
    BY <1>3 DEF Body, BodyBytes
  <2>2. \A n \in Nat : \A b \in [1 .. n -> Byte] : b \in Seq(Byte) /\ Len(b) = n
    OBVIOUS
  <2> QED BY <2>1, <2>2
<1>5. /\ h \o p \in Seq(Byte) /\ Len(h \o p) = 88
      /\ \A k \in 1 .. 3 : (h \o p)[k] = h[k]
      /\ \A j \in 1 .. BodyBytes : (h \o p)[3 + j] = p[j]
  <2>1. h \in Seq(Byte) /\ p \in Seq(Byte)
    BY <1>2, <1>4
  <2>2. /\ h \o p \in Seq(Byte) /\ Len(h \o p) = Len(h) + Len(p)
        /\ \A k \in 1 .. Len(h) : (h \o p)[k] = h[k]
        /\ \A j \in 1 .. Len(p) : (h \o p)[Len(h) + j] = p[j]
    BY <2>1, Joined
  <2>3. Len(h) = 3 /\ Len(p) = BodyBytes /\ BodyBytes = 85
    BY <1>2, <1>4 DEF BodyBytes
  <2>4. Len(h \o p) = 88
    BY <2>2, <2>3
  <2> QED BY <2>2, <2>3, <2>4, Zenon
<1> DEFINE w == h \o p
<1>6. f = SubSeq(h \o p, 1, size)
  BY DEF Frame, h, p
<1> HIDE DEF f
<1>7. /\ w \in Seq(Byte) /\ Len(w) = 88 /\ f = SubSeq(w, 1, size)
      /\ \A k \in 1 .. 3 : w[k] = h[k]
      /\ \A j \in 1 .. BodyBytes : w[3 + j] = p[j]
  BY <1>5, <1>6
<1> HIDE DEF w
<1>8. f \in Seq(Byte) /\ Len(f) = size /\ \A k \in 1 .. size : f[k] = w[k]
  <2>1. size \in Nat /\ size <= 88
    BY <1>1
  <2>2. w \in Seq(Byte) /\ size <= Len(w) /\ f = SubSeq(w, 1, size)
    BY <1>7, <2>1
  <2>3. /\ SubSeq(w, 1, size) \in Seq(Byte) /\ Len(SubSeq(w, 1, size)) = size
        /\ \A k \in 1 .. size : SubSeq(w, 1, size)[k] = w[k]
    BY <2>1, <2>2, ReadBytes
  <2> QED BY <2>2, <2>3
<1>9. f[1] = 0 /\ f[2] = size /\ f[3] = type
  <2>1. /\ 1 \in 1 .. size /\ 2 \in 1 .. size /\ 3 \in 1 .. size
        /\ 1 \in 1 .. 3 /\ 2 \in 1 .. 3 /\ 3 \in 1 .. 3
    BY <1>1
  <2> QED BY <1>2, <1>7, <1>8, <2>1
<1>10. ASSUME NEW j \in 1 .. size - 3
      PROVE  f[j + 3] = IF j <= Len(body) THEN body[j] ELSE 0
  <2>1. j + 3 \in 1 .. size /\ j \in 1 .. BodyBytes /\ j + 3 = 3 + j /\ j \in Int
    BY <1>1 DEF BodyBytes
  <2>2. f[j + 3] = p[j]
    BY <1>7, <1>8, <2>1
  <2>3. j < 1 + Len(body) <=> j <= Len(body)
    BY <2>1
  <2> QED BY <1>3, <2>1, <2>2, <2>3
<1> QED BY <1>8, <1>9, <1>10 DEF Framed, f

-----------------------------------------------------------------------------
(* The commands.                                                            *)

CommandBytes(m) ==
  IF IsInsert(m) THEN InsertBytes(m.id, m.side, m.price, m.volume) ELSE CancelBytes(m.id)

(* The bytes f are one frame. *)
IsFrame(f) == f \in Seq(Byte) /\ Len(f) >= 3 /\ FrameSize(f, 1) = Len(f)

(* A word of a frame is read as it was written. *)
LEMMA WordInFrame ==
  ASSUME NEW n, FitsWord(n), NEW f, NEW at \in Nat, \A k \in 1 .. 4 : f[at + k - 1] = ToBytes(n)[k]
  PROVE  Word(f, at) = n
<1>1. WordBytes = 4 /\ at \in Int
  BY StreamAssumption
<1> QED BY <1>1, WordRoundTrip

(* A cancel is read as it was sent. *)
LEMMA CancelRead ==
  ASSUME NEW id, FitsWord(id)
  PROVE  LET f == CancelBytes(id)
         IN  IsFrame(f) /\ ~IsLogin(f) /\ Decode(f) = CancelMessage(id)
<1> DEFINE f == CancelBytes(id)
           b == ToBytes(id)
<1>1. b \in Seq(Byte) /\ Len(b) = 4
  BY ToBytesSeq, StreamAssumption DEF FitsWord
<1>2. CANCEL_MESSAGE_SIZE \in Sizes /\ CANCEL_MESSAGE_TYPE \in Byte
  BY DEF Sizes, Byte, CANCEL_MESSAGE_TYPE
<1>3. f = Frame(CANCEL_MESSAGE_SIZE, CANCEL_MESSAGE_TYPE, b)
  BY DEF CancelBytes
<1> HIDE DEF f, b
<1>4. /\ f \in Seq(Byte) /\ Len(f) = CANCEL_MESSAGE_SIZE /\ f[1] = 0 /\ f[2] = CANCEL_MESSAGE_SIZE
      /\ f[3] = CANCEL_MESSAGE_TYPE
      /\ \A j \in 1 .. CANCEL_MESSAGE_SIZE - 3 : f[j + 3] = IF j <= Len(b) THEN b[j] ELSE 0
  <2>1. b \in Seq(Byte)
    BY <1>1
  <2>2. Framed(f, CANCEL_MESSAGE_SIZE, CANCEL_MESSAGE_TYPE, b)
    BY <1>2, <1>3, <2>1, FrameOf
  <2> QED BY <2>2, Zenon DEF Framed
<1>5. \A j \in 1 .. 4 : f[4 + j - 1] = b[j]
  <2>1. \A j \in 1 .. 4 : j \in 1 .. CANCEL_MESSAGE_SIZE - 3 /\ j <= Len(b) /\ 4 + j - 1 = j + 3
    BY <1>1 DEF CANCEL_MESSAGE_SIZE
  <2> QED BY <1>4, <2>1
<1>6. Word(f, 4) = id
  BY <1>5, WordInFrame DEF b
<1>7. IsFrame(f)
  BY <1>4 DEF IsFrame, FrameSize, CANCEL_MESSAGE_SIZE
<1>8. ~IsLogin(f)
  BY <1>4 DEF IsLogin, CANCEL_MESSAGE_TYPE, LOGIN_MESSAGE_TYPE
<1>9. Decode(f) = CancelMessage(id)
  BY <1>4, <1>6 DEF Decode, ReadAsCancel
<1> QED BY <1>7, <1>8, <1>9 DEF f

(* Two parts of lengths n and k, one behind the other. *)
Parts2(w, left, n, right, k) ==
  /\ w \in Seq(Byte) /\ Len(w) = n + k
  /\ \A p \in 1 .. n : w[p] = left[p]
  /\ \A p \in 1 .. k : w[n + p] = right[p]

(* Joining them puts them there. *)
LEMMA JoinedParts ==
  ASSUME NEW left \in Seq(Byte), NEW right \in Seq(Byte)
  PROVE  Parts2(left \o right, left, Len(left), right, Len(right))
<1>1. /\ left \o right \in Seq(Byte) /\ Len(left \o right) = Len(left) + Len(right)
      /\ \A p \in 1 .. Len(left) : (left \o right)[p] = left[p]
      /\ \A j \in 1 .. Len(right) : (left \o right)[Len(left) + j] = right[j]
  BY Joined
<1> QED BY <1>1, Zenon DEF Parts2

(* The fields of an insert, with a byte each for the side and the lifespan. *)
InsertFields(b, i, c, p, v, l) ==
  /\ b \in Seq(Byte) /\ Len(b) = 14 /\ b[5] = c /\ b[14] = l
  /\ \A j \in 1 .. 4 : b[j] = i[j] /\ b[5 + j] = p[j] /\ b[9 + j] = v[j]

(* They are packed one behind the other. *)
LEMMA InsertBody ==
  ASSUME NEW i \in Seq(Byte), NEW c \in Byte, NEW p \in Seq(Byte), NEW v \in Seq(Byte), NEW l \in Byte,
         Len(i) = 4, Len(p) = 4, Len(v) = 4
  PROVE  InsertFields(i \o <<c>> \o p \o v \o <<l>>, i, c, p, v, l)
<1> DEFINE c1 == <<c>>
           l1 == <<l>>
           b1 == i \o c1
           b2 == b1 \o p
           b3 == b2 \o v
           b  == b3 \o l1
<1>1. /\ c1 \in Seq(Byte) /\ Len(c1) = 1 /\ c1[1] = c
      /\ l1 \in Seq(Byte) /\ Len(l1) = 1 /\ l1[1] = l
  OBVIOUS
<1> HIDE DEF c1, l1
<1>2. Parts2(b1, i, 4, c1, 1)
  <2>1. Parts2(i \o c1, i, Len(i), c1, Len(c1))
    BY <1>1, JoinedParts
  <2> QED BY <1>1, <2>1
<1> HIDE DEF b1
<1>3. b1 \in Seq(Byte) /\ Len(b1) = 5
  BY <1>2 DEF Parts2
<1>4. Parts2(b2, b1, 5, p, 4)
  <2>1. Parts2(b1 \o p, b1, Len(b1), p, Len(p))
    BY <1>3, JoinedParts
  <2> QED BY <1>3, <2>1
<1> HIDE DEF b2
<1>5. b2 \in Seq(Byte) /\ Len(b2) = 9
  BY <1>4 DEF Parts2
<1>6. Parts2(b3, b2, 9, v, 4)
  <2>1. Parts2(b2 \o v, b2, Len(b2), v, Len(v))
    BY <1>5, JoinedParts
  <2> QED BY <1>5, <2>1
<1> HIDE DEF b3
<1>7. b3 \in Seq(Byte) /\ Len(b3) = 13
  BY <1>6 DEF Parts2
<1>8. Parts2(b, b3, 13, l1, 1)
  <2>1. Parts2(b3 \o l1, b3, Len(b3), l1, Len(l1))
    BY <1>1, <1>7, JoinedParts
  <2> QED BY <1>1, <1>7, <2>1
<1> HIDE DEF b
<1>9. b \in Seq(Byte) /\ Len(b) = 14
  BY <1>8 DEF Parts2
<1>10. b[5] = c /\ b[14] = l
  <2>1. b[14] = l1[1] /\ b[5] = b3[5]
    BY <1>8 DEF Parts2
  <2>2. b3[5] = b2[5]
    BY <1>6 DEF Parts2
  <2>3. b2[5] = b1[5]
    BY <1>4 DEF Parts2
  <2>4. b1[5] = c1[1]
    BY <1>2 DEF Parts2
  <2> QED BY <1>1, <2>1, <2>2, <2>3, <2>4
<1>11. ASSUME NEW j \in 1 .. 4
       PROVE  b[j] = i[j] /\ b[5 + j] = p[j] /\ b[9 + j] = v[j]
  <2>1. b[j] = b3[j] /\ b[5 + j] = b3[5 + j] /\ b[9 + j] = b3[9 + j]
    BY <1>8 DEF Parts2
  <2>2. b3[j] = b2[j] /\ b3[5 + j] = b2[5 + j] /\ b3[9 + j] = v[j]
    BY <1>6 DEF Parts2
  <2>3. b2[j] = b1[j] /\ b2[5 + j] = p[j]
    BY <1>4 DEF Parts2
  <2>4. b1[j] = i[j]
    BY <1>2 DEF Parts2
  <2> QED BY <2>1, <2>2, <2>3, <2>4
<1>12. InsertFields(b, i, c, p, v, l)
  BY <1>9, <1>10, <1>11 DEF InsertFields
<1> QED BY <1>12 DEF b, b3, b2, b1, c1, l1

(* An insert is read as it was sent. *)
LEMMA InsertRead ==
  ASSUME NEW id, NEW side \in Side, NEW price, NEW volume,
         FitsWord(id), FitsWord(price), FitsWord(volume)
  PROVE  LET f == InsertBytes(id, side, price, volume)
         IN  IsFrame(f) /\ ~IsLogin(f) /\ Decode(f) = InsertMessage(id, side, price, volume)
<1> DEFINE f == InsertBytes(id, side, price, volume)
           b == ToBytes(id) \o <<SideByte(side)>> \o ToBytes(price) \o ToBytes(volume) \o <<GOOD_FOR_DAY>>
<1>1. \A n : FitsWord(n) => ToBytes(n) \in Seq(Byte) /\ Len(ToBytes(n)) = 4
  BY ToBytesSeq, StreamAssumption DEF FitsWord
<1>2. /\ SideByte(side) \in Byte /\ GOOD_FOR_DAY \in Byte
      /\ INSERT_MESSAGE_SIZE \in Sizes /\ INSERT_MESSAGE_TYPE \in Byte
  BY DEF SideByte, GOOD_FOR_DAY, Byte, Sizes, INSERT_MESSAGE_TYPE
<1>3. /\ b \in Seq(Byte) /\ Len(b) = 14 /\ b[5] = SideByte(side) /\ b[14] = GOOD_FOR_DAY
      /\ \A j \in 1 .. 4 : /\ b[j] = ToBytes(id)[j] /\ b[5 + j] = ToBytes(price)[j]
                            /\ b[9 + j] = ToBytes(volume)[j]
  <2>1. /\ ToBytes(id) \in Seq(Byte) /\ Len(ToBytes(id)) = 4
        /\ ToBytes(price) \in Seq(Byte) /\ Len(ToBytes(price)) = 4
        /\ ToBytes(volume) \in Seq(Byte) /\ Len(ToBytes(volume)) = 4
    BY <1>1
  <2>2. InsertFields(b, ToBytes(id), SideByte(side), ToBytes(price), ToBytes(volume), GOOD_FOR_DAY)
    BY <1>2, <2>1, InsertBody
  <2> QED BY <2>2, Zenon DEF InsertFields
<1>4. f = Frame(INSERT_MESSAGE_SIZE, INSERT_MESSAGE_TYPE, b)
  BY DEF InsertBytes
<1> HIDE DEF f, b
<1>5. /\ f \in Seq(Byte) /\ Len(f) = INSERT_MESSAGE_SIZE /\ f[1] = 0 /\ f[2] = INSERT_MESSAGE_SIZE
      /\ f[3] = INSERT_MESSAGE_TYPE
      /\ \A j \in 1 .. INSERT_MESSAGE_SIZE - 3 : f[j + 3] = IF j <= Len(b) THEN b[j] ELSE 0
  <2>1. b \in Seq(Byte)
    BY <1>3
  <2>2. Framed(f, INSERT_MESSAGE_SIZE, INSERT_MESSAGE_TYPE, b)
    BY <1>2, <1>4, <2>1, FrameOf
  <2> QED BY <2>2, Zenon DEF Framed
<1>6. \A j \in 1 .. 14 : f[j + 3] = b[j]
  <2>1. \A j \in 1 .. 14 : j \in 1 .. INSERT_MESSAGE_SIZE - 3 /\ j <= Len(b)
    BY <1>3 DEF INSERT_MESSAGE_SIZE
  <2> QED BY <1>5, <2>1
<1>7. f[8] = SideByte(side) /\ f[17] = GOOD_FOR_DAY
  <2>1. f[5 + 3] = b[5] /\ f[14 + 3] = b[14]
    BY <1>6
  <2> QED BY <1>3, <2>1
<1>8. ASSUME NEW j \in 1 .. 4
      PROVE  /\ f[4 + j - 1] = ToBytes(id)[j] /\ f[9 + j - 1] = ToBytes(price)[j]
             /\ f[13 + j - 1] = ToBytes(volume)[j]
  <2>1. j \in 1 .. 14 /\ 5 + j \in 1 .. 14 /\ 9 + j \in 1 .. 14
    OBVIOUS
  <2>2. /\ 4 + j - 1 = j + 3 /\ 9 + j - 1 = (5 + j) + 3 /\ 13 + j - 1 = (9 + j) + 3
    OBVIOUS
  <2>3. f[j + 3] = b[j] /\ f[(5 + j) + 3] = b[5 + j] /\ f[(9 + j) + 3] = b[9 + j]
    BY <1>6, <2>1
  <2> QED BY <1>3, <2>2, <2>3
<1>9. Word(f, 4) = id /\ Word(f, 9) = price /\ Word(f, 13) = volume
  BY <1>8, WordInFrame
<1>10. (IF f[8] = 1 THEN BUY ELSE SELL) = side
  BY <1>7 DEF SideByte, Side
<1>11. IsFrame(f)
  BY <1>5 DEF IsFrame, FrameSize, INSERT_MESSAGE_SIZE
<1>12. ~IsLogin(f)
  BY <1>5 DEF IsLogin, INSERT_MESSAGE_TYPE, LOGIN_MESSAGE_TYPE
<1>13. Decode(f) = InsertMessage(id, side, price, volume)
  BY <1>5, <1>7, <1>9, <1>10 DEF Decode, ReadAsInsert, INSERT_MESSAGE_TYPE, CANCEL_MESSAGE_TYPE
<1> QED BY <1>11, <1>12, <1>13 DEF f

(* Sizes, layout and byte order agree: what either command writes is one    *)
(* frame that decodes to the command.                                       *)
LEMMA CommandRead ==
  ASSUME NEW m \in Commands
  PROVE  IsFrame(CommandBytes(m)) /\ ~IsLogin(CommandBytes(m)) /\ Decode(CommandBytes(m)) = m
<1>1. m \in Message /\ FitsWord(m.id) /\ (IsInsert(m) => FitsWord(m.price) /\ FitsWord(m.volume))
  BY StreamAssumption
<1>2. CASE IsInsert(m)
  <2>1. m.side \in Side /\ m = InsertMessage(m.id, m.side, m.price, m.volume)
    BY <1>1, <1>2 DEF Message, IsInsert, InsertMessage, INSERT_MESSAGE_TYPE, CANCEL_MESSAGE_TYPE
  <2> QED BY <1>1, <1>2, <2>1, InsertRead DEF CommandBytes
<1>3. CASE ~IsInsert(m)
  <2>1. m = CancelMessage(m.id)
    BY <1>1, <1>3 DEF Message, IsInsert, CancelMessage, INSERT_MESSAGE_TYPE, CANCEL_MESSAGE_TYPE
  <2> QED BY <1>1, <1>3, <2>1, CancelRead DEF CommandBytes
<1> QED BY <1>2, <1>3

-----------------------------------------------------------------------------
(* The login.                                                               *)

(* A slice of a sequence of bytes. *)
Sliced(w, r, at, n) ==
  w \in Seq(Byte) /\ Len(w) = n /\ \A j \in 1 .. n : w[j] = r[at + j - 1]

(* This is what SubSeq yields. *)
LEMMA Slice ==
  ASSUME NEW r \in Seq(Byte), NEW at \in Nat \ {0}, NEW n \in Nat, at + n - 1 <= Len(r)
  PROVE  Sliced(SubSeq(r, at, at + n - 1), r, at, n)
<1> DEFINE w == SubSeq(r, at, at + n - 1)
<1>1. Len(r) \in Nat /\ \A k \in 1 .. Len(r) : r[k] \in Byte
  OBVIOUS
<1>2. w \in Seq(Byte) /\ Len(w) = n
  BY <1>1
<1>3. \A j \in 1 .. n : w[j] = r[at + j - 1]
  BY <1>1
<1> QED BY <1>2, <1>3 DEF Sliced

(* A field that holds a string and zeros behind it. *)
Holds(w, n, t) ==
  w \in Seq(Byte) /\ Len(w) = n /\ \A j \in 1 .. n : w[j] = IF j <= Len(t) THEN t[j] ELSE 0

(* It is read as that string, whether or not a zero fits behind it. *)
LEMMA FieldRead ==
  ASSUME NEW n \in Nat, NEW t \in Seq(Byte \ {0}), Len(t) <= n, NEW w, Holds(w, n, t)
  PROVE  UpToNul(w) = t
<1> DEFINE nuls == {k \in DOMAIN w : w[k] = 0}
<1>1. w \in Seq(Byte) /\ Len(w) = n /\ Len(t) \in Nat /\ DOMAIN w = 1 .. n /\ DOMAIN t = 1 .. Len(t)
  BY DEF Holds
<1>2. \A j \in 1 .. Len(t) : t[j] # 0 /\ j \in 1 .. n /\ w[j] = t[j]
  BY <1>1 DEF Holds
<1>3. \A j \in 1 .. n : j > Len(t) => w[j] = 0
  BY <1>1 DEF Holds
<1>4. nuls = Len(t) + 1 .. n
  <2>1. ASSUME NEW k \in nuls
        PROVE  k \in Len(t) + 1 .. n
    BY <1>1, <1>2
  <2>2. ASSUME NEW k \in Len(t) + 1 .. n
        PROVE  k \in nuls
    BY <1>1, <1>3
  <2> QED BY <2>1, <2>2
<1> HIDE DEF nuls
<1>5. UpToNul(w) = IF nuls = {} THEN w ELSE SubSeq(w, 1, Min(nuls) - 1)
  BY DEF UpToNul, nuls
<1>6. CASE Len(t) = n
  <2>1. nuls = {}
    BY <1>1, <1>4, <1>6
  <2>2. w = t
    BY <1>1, <1>2, <1>6
  <2> QED BY <1>5, <2>1, <2>2
<1>7. CASE Len(t) # n
  <2>1. Len(t) + 1 \in nuls /\ \A k \in nuls : Len(t) + 1 <= k /\ k \in Int
    <3>1. \A l \in Nat : l <= n /\ l # n => l + 1 \in l + 1 .. n /\ \A k \in l + 1 .. n : l + 1 <= k /\ k \in Int
      OBVIOUS
    <3> QED BY <1>1, <1>4, <1>7, <3>1
  <2>2. Min(nuls) \in nuls /\ \A k \in nuls : Min(nuls) <= k
    BY <2>1, Zenon DEF Min
  <2>3. Min(nuls) = Len(t) + 1
    BY <1>1, <2>1, <2>2
  <2>4. Min(nuls) - 1 = Len(t)
    BY <1>1, <2>3
  <2>5. SubSeq(w, 1, Len(t)) = t
    <3>1. /\ SubSeq(w, 1, Len(t)) \in Seq(Byte) /\ Len(SubSeq(w, 1, Len(t))) = Len(t)
          /\ \A k \in 1 .. Len(t) : SubSeq(w, 1, Len(t))[k] = w[k]
      BY <1>1, ReadBytes
    <3> QED BY <1>1, <1>2, <3>1
  <2> QED BY <1>5, <2>1, <2>4, <2>5
<1> QED BY <1>6, <1>7

(* A string and the NUL that snprintf writes behind it. *)
LEMMA Terminated ==
  ASSUME NEW t \in Seq(Byte \ {0})
  PROVE  /\ t \in Seq(Byte) /\ t \o <<0>> \in Seq(Byte) /\ Len(t \o <<0>>) = Len(t) + 1
         /\ \A j \in 1 .. Len(t) + 1 : (t \o <<0>>)[j] = IF j <= Len(t) THEN t[j] ELSE 0
<1> DEFINE z == <<0>>
<1>1. z \in Seq(Byte) /\ Len(z) = 1 /\ z[1] = 0 /\ t \in Seq(Byte) /\ Len(t) \in Nat
  BY DEF Byte
<1> HIDE DEF z
<1>2. Parts2(t \o z, t, Len(t), z, 1)
  BY <1>1, JoinedParts
<1>3. \A j \in 1 .. Len(t) + 1 : (t \o z)[j] = IF j <= Len(t) THEN t[j] ELSE 0
  <2>1. ASSUME NEW j \in 1 .. Len(t) + 1, j <= Len(t)
        PROVE  (t \o z)[j] = t[j]
    BY <1>1, <1>2, <2>1 DEF Parts2
  <2>2. (t \o z)[Len(t) + 1] = 0
    BY <1>1, <1>2 DEF Parts2
  <2>3. \A j \in 1 .. Len(t) + 1 : j <= Len(t) \/ j = Len(t) + 1
    BY <1>1
  <2>4. ~(Len(t) + 1 <= Len(t))
    BY <1>1
  <2> QED BY <2>1, <2>2, <2>3, <2>4
<1>4. t \o z \in Seq(Byte) /\ Len(t \o z) = Len(t) + 1
  BY <1>2 DEF Parts2
<1> QED BY <1>1, <1>3, <1>4 DEF z

(* The exchange reads the name and the secret that were written. *)
LEMMA LoginRead ==
  ASSUME NEW n \in Names, NEW s \in Secrets
  PROVE  LET f == LoginBytes(n, s)
         IN  /\ IsFrame(f) /\ IsLogin(f)
             /\ UpToNul(SubSeq(f, 4, 23)) = n
             /\ UpToNul(SubSeq(f, 24, LOGIN_MESSAGE_SIZE)) = s
<1> DEFINE f  == LoginBytes(n, s)
           nz == n \o <<0>>
           sz == s \o <<0>>
           b1 == Put(Zeros, 1, nz)
           b  == Put(b1, NameBytes + 1, sz)
<1>1. /\ n \in Seq(Byte \ {0}) /\ Len(n) \in 0 .. 20
      /\ s \in Seq(Byte \ {0}) /\ Len(s) \in 0 .. 50
  <2>1. n \in Seq(Byte \ {0}) /\ Len(n) <= NameBytes /\ s \in Seq(Byte \ {0}) /\ Len(s) <= SecretBytes
    BY StreamAssumption, Zenon
  <2>2. Len(n) \in Nat /\ Len(s) \in Nat
    BY <2>1
  <2>3. Len(n) \in 0 .. 20 /\ Len(s) \in 0 .. 50
    <3>1. /\ \A l \in Nat : l <= NameBytes => l \in 0 .. 20
          /\ \A l \in Nat : l <= SecretBytes => l \in 0 .. 50
      BY DEF NameBytes, SecretBytes
    <3> QED BY <2>1, <2>2, <3>1, Zenon
  <2> QED BY <2>1, <2>3
<1>2. /\ nz \in Seq(Byte) /\ Len(nz) = Len(n) + 1
      /\ \A j \in 1 .. Len(n) + 1 : nz[j] = IF j <= Len(n) THEN n[j] ELSE 0
      /\ sz \in Seq(Byte) /\ Len(sz) = Len(s) + 1
      /\ \A j \in 1 .. Len(s) + 1 : sz[j] = IF j <= Len(s) THEN s[j] ELSE 0
  BY <1>1, Terminated
<1>3. f = Frame(LOGIN_MESSAGE_SIZE, LOGIN_MESSAGE_TYPE, b)
  BY DEF LoginBytes
<1> HIDE DEF f, nz, sz
<1>4. /\ b1 \in Body
      /\ \A k \in 1 .. BodyBytes : b1[k] = IF 1 <= k /\ k < 1 + Len(nz) THEN nz[k - 1 + 1] ELSE Zeros[k]
  <2>1. 1 \in Nat \ {0} /\ nz \in Seq(Byte) /\ Zeros \in Body
    BY <1>2, ZerosBody
  <2> QED BY <2>1, PutBody
<1> HIDE DEF b1
<1>5. /\ b \in Body
      /\ \A k \in 1 .. BodyBytes :
           b[k] = IF NameBytes + 1 <= k /\ k < NameBytes + 1 + Len(sz)
                  THEN sz[k - (NameBytes + 1) + 1] ELSE b1[k]
  <2>1. NameBytes + 1 \in Nat \ {0}
    BY DEF NameBytes
  <2> QED BY <1>2, <1>4, <2>1, PutBody
<1> HIDE DEF b
<1>6. \A k \in 1 .. 85 : b1[k] = IF k <= Len(n) THEN n[k] ELSE 0
  <2>1. \A k \in 1 .. 85 : k - 1 + 1 = k /\ Zeros[k] = 0 /\ k \in 1 .. BodyBytes
    BY DEF Zeros, BodyBytes
  <2>2. ASSUME NEW k \in 1 .. 85, k <= Len(n)
        PROVE  b1[k] = n[k]
    <3>1. k < 1 + Len(nz) /\ 1 <= k /\ k \in 1 .. Len(n) + 1
      BY <1>1, <1>2, <2>2
    <3> QED BY <1>2, <1>4, <2>1, <2>2, <3>1
  <2>3. ASSUME NEW k \in 1 .. 85, ~(k <= Len(n))
        PROVE  b1[k] = 0
    <3>1. CASE k = Len(n) + 1
      <4>1. k < 1 + Len(nz) /\ 1 <= k /\ k \in 1 .. Len(n) + 1
        BY <1>1, <1>2, <3>1
      <4> QED BY <1>2, <1>4, <2>1, <2>3, <4>1
    <3>2. CASE k # Len(n) + 1
      <4>1. ~(k < 1 + Len(nz))
        BY <1>1, <1>2, <2>3, <3>2
      <4> QED BY <1>4, <2>1, <4>1
    <3> QED BY <3>1, <3>2
  <2> QED BY <2>2, <2>3
<1>7. \A k \in 1 .. 20 : b[k] = IF k <= Len(n) THEN n[k] ELSE 0
  <2>1. \A k \in 1 .. 20 : ~(NameBytes + 1 <= k) /\ k \in 1 .. BodyBytes /\ k \in 1 .. 85
    BY DEF NameBytes, BodyBytes
  <2> QED BY <1>5, <1>6, <2>1
<1>8. \A j \in 1 .. 50 : b[20 + j] = IF j <= Len(s) THEN s[j] ELSE 0
  <2> TAKE j \in 1 .. 50
  <2>1. /\ 20 + j \in 1 .. BodyBytes /\ 20 + j \in 1 .. 85 /\ NameBytes + 1 <= 20 + j
        /\ (20 + j) - (NameBytes + 1) + 1 = j
        /\ (20 + j < NameBytes + 1 + Len(sz) <=> j <= Len(s) + 1)
    BY <1>1, <1>2 DEF NameBytes, BodyBytes
  <2>2. CASE j <= Len(s) + 1
    <3>1. b[20 + j] = sz[j] /\ j \in 1 .. Len(s) + 1
      <4>1. b[20 + j] = sz[(20 + j) - (NameBytes + 1) + 1]
        BY <1>5, <2>1, <2>2
      <4>2. \A l \in 0 .. 50 : j <= l + 1 => j \in 1 .. l + 1
        OBVIOUS
      <4> QED BY <1>1, <2>1, <2>2, <4>1, <4>2
    <3> QED BY <1>2, <3>1
  <2>3. CASE ~(j <= Len(s) + 1)
    <3>1. ~(j <= Len(s)) /\ ~(20 + j <= Len(n))
      <4>1. \A l \in 0 .. 50, k \in 0 .. 20 : ~(j <= l + 1) => ~(j <= l) /\ ~(20 + j <= k)
        OBVIOUS
      <4> QED BY <1>1, <2>3, <4>1
    <3>2. b[20 + j] = b1[20 + j]
      BY <1>5, <2>1, <2>3
    <3> QED BY <1>6, <2>1, <3>1, <3>2
  <2> QED BY <2>2, <2>3
<1>9. b \in Seq(Byte) /\ Len(b) = 85
  <2>1. b \in [1 .. 85 -> Byte] /\ 85 \in Nat
    BY <1>5 DEF Body, BodyBytes
  <2>2. \A i \in Nat : \A x \in [1 .. i -> Byte] : x \in Seq(Byte) /\ Len(x) = i
    OBVIOUS
  <2> QED BY <2>1, <2>2
<1>10. /\ f \in Seq(Byte) /\ Len(f) = LOGIN_MESSAGE_SIZE /\ f[1] = 0 /\ f[2] = LOGIN_MESSAGE_SIZE
       /\ f[3] = LOGIN_MESSAGE_TYPE
       /\ \A j \in 1 .. LOGIN_MESSAGE_SIZE - 3 : f[j + 3] = IF j <= Len(b) THEN b[j] ELSE 0
  <2>1. LOGIN_MESSAGE_SIZE \in Sizes /\ LOGIN_MESSAGE_TYPE \in Byte
    BY DEF Sizes, Byte, LOGIN_MESSAGE_TYPE
  <2>2. b \in Seq(Byte)
    BY <1>9
  <2>3. Framed(f, LOGIN_MESSAGE_SIZE, LOGIN_MESSAGE_TYPE, b)
    BY <1>3, <2>1, <2>2, FrameOf
  <2> QED BY <2>3, Zenon DEF Framed
<1>11. \A j \in 1 .. 70 : f[j + 3] = b[j]
  <2>1. \A j \in 1 .. 70 : j \in 1 .. LOGIN_MESSAGE_SIZE - 3 /\ j <= Len(b)
    BY <1>9 DEF LOGIN_MESSAGE_SIZE
  <2> QED BY <1>10, <2>1
<1>12. UpToNul(SubSeq(f, 4, 23)) = n
  <2> DEFINE w == SubSeq(f, 4, 4 + 20 - 1)
  <2>1. Sliced(w, f, 4, 20)
    <3>1. 4 \in Nat \ {0} /\ 20 \in Nat /\ 4 + 20 - 1 <= Len(f) /\ f \in Seq(Byte)
      BY <1>10 DEF LOGIN_MESSAGE_SIZE
    <3> QED BY <3>1, Slice
  <2>2. Holds(w, 20, n)
    <3> HIDE DEF w
    <3>1. \A j \in 1 .. 20 : 4 + j - 1 = j + 3 /\ j \in 1 .. 70
      OBVIOUS
    <3>2. w \in Seq(Byte) /\ Len(w) = 20 /\ \A j \in 1 .. 20 : w[j] = f[4 + j - 1]
      BY <2>1, Zenon DEF Sliced
    <3>3. \A j \in 1 .. 20 : w[j] = IF j <= Len(n) THEN n[j] ELSE 0
      BY <1>7, <1>11, <3>1, <3>2
    <3> QED BY <3>2, <3>3, Zenon DEF Holds
  <2>3. UpToNul(w) = n
    <3>1. 20 \in Nat /\ n \in Seq(Byte \ {0}) /\ Len(n) <= 20
      <4>1. 20 \in Nat /\ \A l \in 0 .. 20 : l <= 20
        OBVIOUS
      <4> QED BY <1>1, <4>1, Zenon
    <3> HIDE DEF w
    <3> QED BY <2>2, <3>1, FieldRead
  <2>4. 4 + 20 - 1 = 23
    OBVIOUS
  <2> QED BY <2>3, <2>4
<1>13. UpToNul(SubSeq(f, 24, LOGIN_MESSAGE_SIZE)) = s
  <2> DEFINE w == SubSeq(f, 24, 24 + 50 - 1)
  <2>1. Sliced(w, f, 24, 50)
    <3>1. 24 \in Nat \ {0} /\ 50 \in Nat /\ 24 + 50 - 1 <= Len(f) /\ f \in Seq(Byte)
      BY <1>10 DEF LOGIN_MESSAGE_SIZE
    <3> QED BY <3>1, Slice
  <2>2. Holds(w, 50, s)
    <3> HIDE DEF w
    <3>1. \A j \in 1 .. 50 : 24 + j - 1 = (20 + j) + 3 /\ 20 + j \in 1 .. 70
      OBVIOUS
    <3>2. w \in Seq(Byte) /\ Len(w) = 50 /\ \A j \in 1 .. 50 : w[j] = f[24 + j - 1]
      BY <2>1, Zenon DEF Sliced
    <3>3. \A j \in 1 .. 50 : w[j] = IF j <= Len(s) THEN s[j] ELSE 0
      <4> TAKE j \in 1 .. 50
      <4>1. w[j] = b[20 + j]
        <5>1. f[(20 + j) + 3] = b[20 + j]
          BY <1>11, <3>1, Zenon
        <5> QED BY <3>1, <3>2, <5>1, Zenon
      <4> QED BY <1>8, <4>1
    <3> QED BY <3>2, <3>3, Zenon DEF Holds
  <2>3. UpToNul(w) = s
    <3>1. 50 \in Nat /\ s \in Seq(Byte \ {0}) /\ Len(s) <= 50
      <4>1. 50 \in Nat /\ \A l \in 0 .. 50 : l <= 50
        OBVIOUS
      <4> QED BY <1>1, <4>1, Zenon
    <3> HIDE DEF w
    <3> QED BY <2>2, <3>1, FieldRead
  <2>4. 24 + 50 - 1 = LOGIN_MESSAGE_SIZE
    BY DEF LOGIN_MESSAGE_SIZE
  <2> QED BY <2>3, <2>4
<1>14. IsFrame(f)
  BY <1>10 DEF IsFrame, FrameSize, LOGIN_MESSAGE_SIZE
<1>15. IsLogin(f)
  BY <1>10 DEF IsLogin
<1> QED BY <1>12, <1>13, <1>14, <1>15 DEF f

-----------------------------------------------------------------------------
(* Cutting the stream into frames.                                          *)

(* A frame that is there ends in the stream. *)
LEMMA FrameFits ==
  ASSUME NEW s \in Seq(Byte), NEW at \in 1 .. Len(s) + 1, HasFrame(s, at)
  PROVE  /\ FrameSize(s, at) \in Nat /\ FrameSize(s, at) >= 3
         /\ at + FrameSize(s, at) \in at + 1 .. Len(s) + 1
         /\ at + FrameSize(s, at) - 1 <= Len(s)
<1>1. Len(s) \in Nat /\ at \in Nat /\ at + 2 <= Len(s)
  BY DEF HasFrame, HeaderBytes
<1>2. at \in 1 .. Len(s) /\ at + 1 \in 1 .. Len(s)
  BY <1>1
<1>3. s[at] \in Byte /\ s[at + 1] \in Byte
  BY <1>2
<1>4. FrameSize(s, at) \in Nat
  <2>1. \A a, b \in Byte : a * 256 + b \in Nat
    BY DEF Byte
  <2> QED BY <1>3, <2>1, Zenon DEF FrameSize
<1>5. FrameSize(s, at) >= 3 /\ at + FrameSize(s, at) - 1 <= Len(s)
  BY DEF HasFrame, HeaderBytes
<1> QED BY <1>1, <1>4, <1>5

(* The recursion of Frames. *)
FramesFrom(s) ==
  LET frames[at \in 1 .. Len(s) + 1] ==
        IF HasFrame(s, at)
        THEN <<Decode(SubSeq(s, at, at + FrameSize(s, at) - 1))>> \o frames[at + FrameSize(s, at)]
        ELSE << >>
  IN  frames

(* It has a result, because every frame is longer than nothing. *)
LEMMA FramesIs ==
  ASSUME NEW s \in Seq(Byte)
  PROVE  /\ Frames(s) = FramesFrom(s)[1]
         /\ \A at \in 1 .. Len(s) + 1 :
              FramesFrom(s)[at] =
                IF HasFrame(s, at)
                THEN <<Decode(SubSeq(s, at, at + FrameSize(s, at) - 1))>>
                       \o FramesFrom(s)[at + FrameSize(s, at)]
                ELSE << >>
<1> DEFINE n == Len(s) + 1
           dec(at) == Decode(SubSeq(s, at, at + FrameSize(s, at) - 1))
           D == {dec(at) : at \in 1 .. n}
           S == Seq(D)
           X == [1 .. n -> S]
           F == [at \in 1 .. n |-> [x \in X |-> IF HasFrame(s, at)
                                                THEN <<dec(at)>> \o x[at + FrameSize(s, at)]
                                                ELSE << >>]]
           P(g) == g = [at \in 1 .. n |->
                          IF HasFrame(s, at)
                          THEN <<Decode(SubSeq(s, at, at + FrameSize(s, at) - 1))>>
                                 \o g[at + FrameSize(s, at)]
                          ELSE << >>]
<1>1. n \in Nat /\ << >> \in S
  OBVIOUS
<1>2. \A at \in 1 .. n : HasFrame(s, at) => at + FrameSize(s, at) \in at + 1 .. n
  BY FrameFits
<1>3. \A at \in 1 .. n : at + 1 .. n \subseteq 1 .. n
  BY <1>1
<1>4. \A at \in 1 .. n : dec(at) \in D
  OBVIOUS
<1> HIDE DEF n, dec, D
<1>5. \A at \in 1 .. n : \A x \in X : HasFrame(s, at) => <<dec(at)>> \o x[at + FrameSize(s, at)] \in S
  BY <1>2, <1>3, <1>4
<1>6. F \in [1 .. n -> [X -> S]]
  BY <1>1, <1>5
<1>7. \A at \in 1 .. n : \A x \in X :
        F[at][x] = IF HasFrame(s, at) THEN <<dec(at)>> \o x[at + FrameSize(s, at)] ELSE << >>
  OBVIOUS
<1> HIDE DEF F
<1>8. \A at \in 1 .. n : \A x, y \in X : (\A j \in at + 1 .. n : x[j] = y[j]) => F[at][x] = F[at][y]
  <2> SUFFICES ASSUME NEW at \in 1 .. n, NEW x \in X, NEW y \in X, \A j \in at + 1 .. n : x[j] = y[j]
               PROVE  F[at][x] = F[at][y]
    OBVIOUS
  <2>1. HasFrame(s, at) => x[at + FrameSize(s, at)] = y[at + FrameSize(s, at)]
    BY <1>2, Zenon
  <2> QED BY <1>7, <2>1, Zenon
<1>9. PICK g \in X : \A at \in 1 .. n : g[at] = F[at][g]
  <2> HIDE DEF S
  <2>1. LooksUp(F, n, S)
    BY <1>6, <1>8, Zenon DEF LooksUp
  <2>2. \E g \in [1 .. n -> S] : \A at \in 1 .. n : g[at] = F[at][g]
    BY <1>1, <2>1, DownExists
  <2> QED BY <2>2
<1>10. \A at \in 1 .. n : g[at] = IF HasFrame(s, at) THEN <<dec(at)>> \o g[at + FrameSize(s, at)] ELSE << >>
  BY <1>7, <1>9
<1>11. g = [at \in 1 .. n |-> g[at]]
  BY <1>9
<1>12. g = [at \in 1 .. n |-> IF HasFrame(s, at) THEN <<dec(at)>> \o g[at + FrameSize(s, at)] ELSE << >>]
  BY <1>10, <1>11
<1>13. P(g)
  BY <1>12, Zenon DEF dec
<1>14. P(FramesFrom(s))
  BY <1>13, Zenon DEF FramesFrom, n
<1>15. Frames(s) = FramesFrom(s)[1]
  BY Zenon DEF Frames, FramesFrom
<1>16. ASSUME NEW at \in 1 .. n
       PROVE  FramesFrom(s)[at] =
                IF HasFrame(s, at)
                THEN <<Decode(SubSeq(s, at, at + FrameSize(s, at) - 1))>>
                       \o FramesFrom(s)[at + FrameSize(s, at)]
                ELSE << >>
  BY <1>14, Zenon
<1> QED BY <1>15, <1>16 DEF n

AllFrames == {f \in Seq(Byte) : IsFrame(f)}

(* s is the frames q one behind the other; the k-th ends at e[k]. *)
Split(s, q, e) ==
  /\ s \in Seq(Byte) /\ q \in Seq(AllFrames) /\ e \in [0 .. Len(q) -> 0 .. Len(s)]
  /\ e[0] = 0 /\ e[Len(q)] = Len(s)
  /\ \A k \in 1 .. Len(q) : /\ e[k] = e[k - 1] + Len(q[k])
                            /\ \A j \in 1 .. Len(q[k]) : s[e[k - 1] + j] = q[k][j]

(* The bytes of a frame. *)
LEMMA FrameBytes ==
  ASSUME NEW f \in AllFrames
  PROVE  f \in Seq(Byte) /\ Len(f) \in Nat /\ Len(f) >= 3 /\ f[1] * 256 + f[2] = Len(f)
<1>1. f \in Seq(Byte) /\ IsFrame(f)
  BY DEF AllFrames
<1>2. Len(f) >= 3 /\ f[1] * 256 + f[1 + 1] = Len(f)
  BY <1>1, Zenon DEF IsFrame, FrameSize
<1>3. Len(f) \in Nat
  BY <1>1
<1> QED BY <1>1, <1>2, <1>3

(* The exchange finds the frame f at at, and will look for another at next. *)
Found(s, at, f, next) ==
  /\ at \in 1 .. Len(s) + 1 /\ HasFrame(s, at) /\ FrameSize(s, at) = Len(f)
  /\ SubSeq(s, at, at + FrameSize(s, at) - 1) = f
  /\ at + FrameSize(s, at) = next

(* It finds every frame where it begins. *)
LEMMA SplitAt ==
  ASSUME NEW s, NEW q, NEW e, Split(s, q, e), NEW k \in 1 .. Len(q)
  PROVE  Found(s, e[k - 1] + 1, q[k], e[k] + 1)
<1> DEFINE d == e[k - 1]
           f == q[k]
<1>1. s \in Seq(Byte) /\ Len(q) \in Nat /\ Len(s) \in Nat
  BY DEF Split
<1>2. f \in AllFrames
  BY DEF Split
<1>3. f \in Seq(Byte) /\ Len(f) \in Nat /\ Len(f) >= 3 /\ f[1] * 256 + f[2] = Len(f)
  BY <1>2, FrameBytes
<1>4. k - 1 \in 0 .. Len(q) /\ k \in 0 .. Len(q)
  BY <1>1
<1>5. d \in 0 .. Len(s) /\ e[k] \in 0 .. Len(s)
  BY <1>4 DEF Split
<1>6. e[k] = d + Len(f) /\ \A j \in 1 .. Len(f) : s[d + j] = f[j]
  BY Zenon DEF Split
<1> HIDE DEF d, f
<1>7. d \in Nat /\ d + Len(f) <= Len(s) /\ d + 1 \in 1 .. Len(s) + 1
  BY <1>1, <1>3, <1>5, <1>6
<1>8. FrameSize(s, d + 1) = Len(f)
  <2>1. 1 \in 1 .. Len(f) /\ 2 \in 1 .. Len(f) /\ d + 1 + 1 = d + 2
    BY <1>3, <1>7
  <2>2. s[d + 1] = f[1] /\ s[d + 2] = f[2]
    BY <1>6, <2>1
  <2> QED BY <1>3, <2>1, <2>2, Zenon DEF FrameSize
<1>9. HasFrame(s, d + 1)
  BY <1>1, <1>3, <1>7, <1>8 DEF HasFrame, HeaderBytes
<1>10. SubSeq(s, d + 1, d + 1 + Len(f) - 1) = f
  <2> DEFINE w == SubSeq(s, d + 1, d + 1 + Len(f) - 1)
  <2>1. Sliced(w, s, d + 1, Len(f))
    <3>1. d + 1 \in Nat \ {0} /\ d + 1 + Len(f) - 1 <= Len(s)
      BY <1>1, <1>3, <1>7
    <3> QED BY <1>1, <1>3, <3>1, Slice
  <2> HIDE DEF w
  <2>2. w \in Seq(Byte) /\ Len(w) = Len(f) /\ \A j \in 1 .. Len(f) : w[j] = s[d + 1 + j - 1]
    BY <2>1, Zenon DEF Sliced
  <2>3. \A j \in 1 .. Len(f) : d + 1 + j - 1 = d + j
    BY <1>3, <1>7
  <2>4. \A j \in 1 .. Len(f) : w[j] = f[j]
    BY <1>6, <2>2, <2>3, Zenon
  <2>5. w = f
    BY <1>3, <2>2, <2>4
  <2> QED BY <2>5 DEF w
<1>11. d + 1 + Len(f) = e[k] + 1
  BY <1>3, <1>6, <1>7
<1>12. Found(s, d + 1, f, e[k] + 1)
  BY <1>7, <1>8, <1>9, <1>10, <1>11, Zenon DEF Found
<1> QED BY <1>12 DEF d, f

(* So the exchange reads what each of them says. *)
LEMMA FramesAre ==
  ASSUME NEW s, NEW q, NEW e, Split(s, q, e)
  PROVE  Frames(s) = [k \in 1 .. Len(q) |-> Decode(q[k])]
<1> DEFINE n == Len(q)
           G == FramesFrom(s)
           from(k) == [i \in 1 .. k |-> Decode(q[n - k + i])]
           T == {k \in 0 .. n : G[e[n - k] + 1] = from(k)}
<1>1. s \in Seq(Byte) /\ n \in Nat /\ Len(s) \in Nat /\ e[0] = 0 /\ e[n] = Len(s)
  BY DEF Split
<1>2. /\ Frames(s) = G[1]
      /\ \A at \in 1 .. Len(s) + 1 :
           G[at] = IF HasFrame(s, at)
                   THEN <<Decode(SubSeq(s, at, at + FrameSize(s, at) - 1))>> \o G[at + FrameSize(s, at)]
                   ELSE << >>
  BY <1>1, FramesIs
<1> HIDE DEF G
<1>3. 0 \in T
  <2>1. ~HasFrame(s, Len(s) + 1)
    BY <1>1 DEF HasFrame, HeaderBytes
  <2>2. Len(s) + 1 \in 1 .. Len(s) + 1 /\ n - 0 = n /\ 0 \in 0 .. n
    BY <1>1
  <2>3. G[Len(s) + 1] = << >>
    BY <1>2, <2>1, <2>2, Zenon
  <2>4. from(0) = << >>
    OBVIOUS
  <2> QED BY <1>1, <2>2, <2>3, <2>4
<1>4. ASSUME NEW k \in 1 .. n, k - 1 \in T
      PROVE  k \in T
  <2> DEFINE i == n - k + 1
             at == e[i - 1] + 1
             dec == Decode(q[i])
  <2>1. i \in 1 .. n /\ i - 1 = n - k /\ n - (k - 1) = i /\ k \in 0 .. n
    BY <1>1
  <2>2. G[e[i] + 1] = from(k - 1)
    BY <1>4, <2>1
  <2>3. /\ at \in 1 .. Len(s) + 1 /\ HasFrame(s, at)
        /\ SubSeq(s, at, at + FrameSize(s, at) - 1) = q[i]
        /\ at + FrameSize(s, at) = e[i] + 1
    <3> HIDE DEF i
    <3>1. i \in 1 .. Len(q)
      BY <2>1
    <3>2. Found(s, at, q[i], e[i] + 1)
      BY <3>1, SplitAt
    <3> QED BY <3>2, Zenon DEF Found
  <2>4. G[at] = <<dec>> \o G[e[i] + 1]
    <3> HIDE DEF at, i
    <3> QED BY <1>2, <2>3, Zenon
  <2>5. <<dec>> \o from(k - 1) = from(k)
    <3>1. \A j \in 1 .. k - 1 : n - (k - 1) + j = n - k + (j + 1)
      BY <1>1
    <3>2. n - k + 1 = i
      OBVIOUS
    <3> DEFINE x == from(k - 1)
               y == from(k)
    <3>3. x = [j \in 1 .. k - 1 |-> y[j + 1]]
      <4>1. \A j \in 1 .. k - 1 : y[j + 1] = Decode(q[n - k + (j + 1)])
        OBVIOUS
      <4> QED BY <3>1, <4>1
    <3>4. y[1] = dec /\ DOMAIN y = 1 .. k
      BY <3>2
    <3>5. y = [j \in 1 .. k |-> y[j]]
      OBVIOUS
    <3> HIDE DEF x, y, dec
    <3>6. k \in Nat /\ k - 1 \in Nat
      BY <1>1
    <3>7. <<dec>> \o x = [j \in 1 .. k |-> IF j <= 1 THEN <<dec>>[j] ELSE x[j - 1]]
      BY <3>3, <3>6
    <3>8. \A j \in 1 .. k : (IF j <= 1 THEN <<dec>>[j] ELSE x[j - 1]) = y[j]
      BY <3>3, <3>4, <3>6
    <3>9. <<dec>> \o x = y
      BY <3>5, <3>7, <3>8
    <3> QED BY <3>9 DEF x, y
  <2>6. G[e[n - k] + 1] = from(k)
    BY <2>1, <2>2, <2>4, <2>5, Zenon
  <2> QED BY <2>1, <2>6
<1> HIDE DEF T
<1>5. n \in T
  <2>1. \A k \in 0 .. n : k \in T
    BY <1>1, <1>3, <1>4, Induction
  <2> QED BY <1>1, <2>1
<1>6. G[e[n - n] + 1] = from(n)
  BY <1>5 DEF T
<1>7. n - n = 0 /\ 0 + 1 = 1 /\ \A i \in 1 .. n : n - n + i = i
  BY <1>1
<1>8. G[1] = from(n)
  BY <1>1, <1>6, <1>7, Zenon
<1>9. from(n) = [i \in 1 .. n |-> Decode(q[i])]
  BY <1>7
<1> QED BY <1>2, <1>8, <1>9

(* The empty stream. *)
LEMMA SplitEmpty == \E e : Split(<< >>, << >>, e)
<1> DEFINE e == [k \in 0 .. 0 |-> 0]
<1>1. << >> \in Seq(Byte) /\ << >> \in Seq(AllFrames) /\ Len(<< >>) = 0
  OBVIOUS
<1>2. e \in [0 .. 0 -> 0 .. 0] /\ e[0] = 0
  OBVIOUS
<1> HIDE DEF e
<1>3. Split(<< >>, << >>, e)
  BY <1>1, <1>2 DEF Split
<1> QED BY <1>3

(* A frame that is written goes behind the others. *)
LEMMA SplitAppend ==
  ASSUME NEW s, NEW q, NEW e, Split(s, q, e), NEW f \in AllFrames
  PROVE  \E c : Split(s \o f, Append(q, f), c)
<1> DEFINE n == Len(q)
           l == Len(s)
           z == Len(f)
           t == s \o f
           r == Append(q, f)
           c == [k \in 0 .. n + 1 |-> IF k = n + 1 THEN l + z ELSE e[k]]
<1>1. s \in Seq(Byte) /\ q \in Seq(AllFrames) /\ n \in Nat /\ l \in Nat
  BY DEF Split
<1>2. /\ e \in [0 .. n -> 0 .. l] /\ e[0] = 0 /\ e[n] = l
      /\ \A k \in 1 .. n : e[k] = e[k - 1] + Len(q[k]) /\ \A j \in 1 .. Len(q[k]) : s[e[k - 1] + j] = q[k][j]
  BY Zenon DEF Split
<1>3. f \in Seq(Byte) /\ z \in Nat /\ z >= 3
  BY FrameBytes
<1>4. /\ t \in Seq(Byte) /\ Len(t) = l + z
      /\ \A p \in 1 .. l : t[p] = s[p]
      /\ \A p \in 1 .. z : t[l + p] = f[p]
  <2>1. Parts2(s \o f, s, Len(s), f, Len(f))
    BY <1>1, <1>3, JoinedParts
  <2> QED BY <2>1, Zenon DEF Parts2
<1>5. r \in Seq(AllFrames) /\ Len(r) = n + 1 /\ r[n + 1] = f /\ \A k \in 1 .. n : r[k] = q[k]
  BY <1>1
<1>6. \A k \in 1 .. n : Len(q[k]) \in Nat
  <2>1. \A k \in 1 .. n : q[k] \in AllFrames
    BY <1>1
  <2> QED BY <2>1, FrameBytes
<1> HIDE DEF n, l, z, t, r
<1>7. c \in [0 .. n + 1 -> 0 .. l + z]
  <2>1. \A k \in 0 .. n + 1 : k # n + 1 => k \in 0 .. n
    BY <1>1
  <2>2. \A k \in 0 .. n : e[k] \in 0 .. l + z
    BY <1>1, <1>2, <1>3
  <2>3. l + z \in 0 .. l + z
    BY <1>1, <1>3
  <2> QED BY <2>1, <2>2, <2>3
<1>8. c[0] = 0 /\ c[n + 1] = l + z /\ \A k \in 0 .. n : c[k] = e[k]
  BY <1>1, <1>2
<1> HIDE DEF c
<1>9. ASSUME NEW k \in 1 .. n + 1
      PROVE  c[k] = c[k - 1] + Len(r[k]) /\ \A j \in 1 .. Len(r[k]) : t[c[k - 1] + j] = r[k][j]
  <2>1. CASE k = n + 1
    <3>1. k - 1 = n /\ n \in 0 .. n
      BY <1>1, <2>1
    <3>2. c[k - 1] = l
      BY <1>2, <1>8, <3>1
    <3> QED BY <1>4, <1>5, <1>8, <2>1, <3>2 DEF z
  <2>2. CASE k # n + 1
    <3>1. k \in 1 .. n /\ k \in 0 .. n /\ k - 1 \in 0 .. n
      BY <1>1, <2>2
    <3>2. c[k] = e[k] /\ c[k - 1] = e[k - 1] /\ r[k] = q[k] /\ Len(q[k]) \in Nat
      BY <1>5, <1>6, <1>8, <3>1
    <3>3. e[k] = e[k - 1] + Len(q[k]) /\ \A j \in 1 .. Len(q[k]) : s[e[k - 1] + j] = q[k][j]
      BY <1>2, <3>1
    <3>4. e[k] \in 0 .. l /\ e[k - 1] \in 0 .. l
      BY <1>2, <3>1
    <3>5. \A j \in 1 .. Len(q[k]) : e[k - 1] + j \in 1 .. l
      BY <1>1, <3>2, <3>3, <3>4
    <3>6. \A j \in 1 .. Len(q[k]) : t[e[k - 1] + j] = q[k][j]
      BY <1>4, <3>3, <3>5, Zenon
    <3> QED BY <3>2, <3>3, <3>6
  <2> QED BY <2>1, <2>2
<1>10. Split(t, r, c)
  <2>1. c \in [0 .. Len(r) -> 0 .. Len(t)] /\ c[Len(r)] = Len(t)
    BY <1>4, <1>5, <1>7, <1>8
  <2>2. \A k \in 1 .. Len(r) : /\ c[k] = c[k - 1] + Len(r[k])
                               /\ \A j \in 1 .. Len(r[k]) : t[c[k - 1] + j] = r[k][j]
    BY <1>5, <1>9
  <2> QED BY <1>4, <1>5, <1>8, <2>1, <2>2, Zenon DEF Split
<1> QED BY <1>10 DEF t, r

(* The frame that is read is the first, and the others are left. *)
LEMMA SplitTail ==
  ASSUME NEW s, NEW q, NEW e, Split(s, q, e), Len(q) > 0
  PROVE  \E c : Split(SubSeq(s, Len(q[1]) + 1, Len(s)), Tail(q), c)
<1> DEFINE n == Len(q)
           l == Len(s)
           z == Len(q[1])
           t == SubSeq(s, z + 1, l)
           r == Tail(q)
           c == [k \in 0 .. n - 1 |-> e[k + 1] - z]
<1>1. s \in Seq(Byte) /\ q \in Seq(AllFrames) /\ n \in Nat /\ l \in Nat /\ 1 \in 1 .. n
  BY DEF Split
<1>2. /\ e \in [0 .. n -> 0 .. l] /\ e[0] = 0 /\ e[n] = l
      /\ \A k \in 1 .. n : e[k] = e[k - 1] + Len(q[k]) /\ \A j \in 1 .. Len(q[k]) : s[e[k - 1] + j] = q[k][j]
  BY Zenon DEF Split
<1>3. \A k \in 1 .. n : Len(q[k]) \in Nat
  <2>1. \A k \in 1 .. n : q[k] \in AllFrames
    BY <1>1
  <2> QED BY <2>1, FrameBytes
<1>4. r \in Seq(AllFrames) /\ Len(r) = n - 1 /\ \A k \in 1 .. n - 1 : r[k] = q[k + 1]
  BY <1>1
<1>5. z \in Nat /\ e[1] = z /\ z <= l
  <2>0. 1 - 1 = 0
    OBVIOUS
  <2>1. e[1] = e[1 - 1] + z
    BY <1>1, <1>2, Zenon
  <2>2. z \in Nat
    BY <1>1, <1>3
  <2>3. e[1] \in 0 .. l
    BY <1>1, <1>2
  <2> HIDE DEF z, l
  <2> QED BY <1>1, <1>2, <2>0, <2>1, <2>2, <2>3
<1> HIDE DEF n, z, l
<1>6. t \in Seq(Byte) /\ Len(t) = l - z /\ \A p \in 1 .. l - z : t[p] = s[z + 1 + p - 1]
  <2>1. z + 1 \in Nat \ {0} /\ l - z \in Nat /\ z + 1 + (l - z) - 1 = l
    BY <1>1, <1>5
  <2>2. Sliced(SubSeq(s, z + 1, z + 1 + (l - z) - 1), s, z + 1, l - z)
    <3>1. z + 1 + (l - z) - 1 <= Len(s)
      BY <1>1, <2>1 DEF l
    <3> QED BY <1>1, <2>1, <3>1, Slice
  <2>3. Sliced(t, s, z + 1, l - z)
    BY <2>1, <2>2, Zenon
  <2> QED BY <2>3, Zenon DEF Sliced
<1> HIDE DEF t, r
<1> DEFINE U == {k \in 0 .. n - 1 : e[k + 1] >= z}
<1>7. \A k \in 0 .. n - 1 : k \in U
  <2>1. 0 \in U
    BY <1>1, <1>5
  <2>2. ASSUME NEW k \in 1 .. n - 1, k - 1 \in U
        PROVE  k \in U
    <3>1. k + 1 \in 1 .. n /\ (k + 1) - 1 = k /\ k \in 0 .. n /\ (k - 1) + 1 = k /\ k \in 0 .. n - 1
      BY <1>1
    <3>2. e[k + 1] = e[(k + 1) - 1] + Len(q[k + 1])
      BY <1>2, <3>1, Zenon
    <3>3. Len(q[k + 1]) \in Nat /\ e[k] \in Nat /\ e[k] >= z
      BY <1>1, <1>2, <1>3, <2>2, <3>1
    <3>4. e[k + 1] >= z
      BY <1>5, <3>1, <3>2, <3>3
    <3> QED BY <3>1, <3>4
  <2> HIDE DEF U
  <2>3. n - 1 \in Nat
    BY <1>1
  <2> QED BY <2>1, <2>2, <2>3, Induction
<1>8. \A k \in 0 .. n - 1 : k + 1 \in 0 .. n /\ e[k + 1] \in z .. l
  <2>1. \A k \in 0 .. n - 1 : k + 1 \in 0 .. n
    BY <1>1
  <2>2. \A k \in 0 .. n - 1 : e[k + 1] \in 0 .. l
    BY <1>2, <2>1
  <2>3. \A k \in 0 .. n - 1 : e[k + 1] >= z
    BY <1>7
  <2> QED BY <1>1, <1>5, <2>1, <2>2, <2>3
<1>9. c \in [0 .. n - 1 -> 0 .. l - z]
  <2>1. \A x \in z .. l : x - z \in 0 .. l - z
    BY <1>1, <1>5
  <2> QED BY <1>8, <2>1
<1>10. c[0] = 0 /\ c[n - 1] = l - z /\ \A k \in 0 .. n - 1 : c[k] = e[k + 1] - z
  <2>1. 0 \in 0 .. n - 1 /\ n - 1 \in 0 .. n - 1 /\ 0 + 1 = 1 /\ (n - 1) + 1 = n /\ z - z = 0
    BY <1>1, <1>5
  <2>2. c[0] = e[1] - z /\ c[n - 1] = e[n] - z
    BY <2>1
  <2> QED BY <1>2, <1>5, <2>1, <2>2
<1> HIDE DEF c, U
<1>11. ASSUME NEW k \in 1 .. n - 1
       PROVE  c[k] = c[k - 1] + Len(r[k]) /\ \A j \in 1 .. Len(r[k]) : t[c[k - 1] + j] = r[k][j]
  <2>1. k \in 0 .. n - 1 /\ k - 1 \in 0 .. n - 1 /\ k + 1 \in 1 .. n /\ (k + 1) - 1 = k /\ (k - 1) + 1 = k
    BY <1>1
  <2> DEFINE g == q[k + 1]
             a == e[k]
             b == e[k + 1]
  <2>2. b = a + Len(g) /\ \A j \in 1 .. Len(g) : s[a + j] = g[j]
    <3>1. e[k + 1] = e[(k + 1) - 1] + Len(g) /\ \A j \in 1 .. Len(g) : s[e[(k + 1) - 1] + j] = g[j]
      BY <1>2, <2>1, Zenon
    <3> QED BY <2>1, <3>1, Zenon
  <2>3. r[k] = g /\ Len(g) \in Nat /\ c[k] = b - z /\ c[k - 1] = a - z
    BY <1>3, <1>4, <1>10, <2>1
  <2>4. a \in z .. l /\ b \in z .. l
    BY <1>8, <2>1
  <2> HIDE DEF g, a, b
  <2>5. c[k] = c[k - 1] + Len(g)
    BY <1>1, <1>5, <2>2, <2>3, <2>4
  <2>6. \A j \in 1 .. Len(g) : a - z + j \in 1 .. l - z /\ z + 1 + (a - z + j) - 1 = a + j
    BY <1>1, <1>5, <2>2, <2>3, <2>4
  <2>7. \A j \in 1 .. Len(g) : t[a - z + j] = s[a + j]
    BY <1>6, <2>6, Zenon
  <2>8. \A j \in 1 .. Len(g) : t[c[k - 1] + j] = g[j]
    BY <2>2, <2>3, <2>7, Zenon
  <2> QED BY <2>3, <2>5, <2>8, Zenon
<1>12. Split(t, r, c)
  <2>1. c \in [0 .. Len(r) -> 0 .. Len(t)] /\ c[Len(r)] = Len(t)
    BY <1>4, <1>6, <1>9, <1>10
  <2>2. \A k \in 1 .. Len(r) : /\ c[k] = c[k - 1] + Len(r[k])
                               /\ \A j \in 1 .. Len(r[k]) : t[c[k - 1] + j] = r[k][j]
    BY <1>4, <1>11
  <2> QED BY <1>4, <1>6, <1>10, <2>1, <2>2, Zenon DEF Split
<1> QED BY <1>12 DEF t, r, z, l

-----------------------------------------------------------------------------
(* The steps.                                                               *)

(* Both commands: send() takes some of the bytes, and the history notes a   *)
(* cancel of which it takes none.                                           *)
CommandStep(m, n) ==
  /\ send(CommandBytes(m), n)
  /\ lost' = IF n = 0 /\ ~IsInsert(m) THEN lost \cup {m.id} ELSE lost

(* These are the steps of the specification. *)
LEMMA NextSteps ==
  ASSUME Next
  PROVE  \/ registerTrader
         \/ \E m \in Commands : \E n \in Taken(CommandBytes(m)) : CommandStep(m, n)
         \/ ReadFrame
<1>1. ASSUME NEW m \in Commands, IsInsert(m), insertOrder(m.id, m.side, m.price, m.volume)
      PROVE  \E n \in Taken(CommandBytes(m)) : CommandStep(m, n)
  BY <1>1, Zenon DEF insertOrder, CommandBytes, CommandStep
<1>2. ASSUME NEW m \in Commands, ~IsInsert(m), cancelOrder(m.id)
      PROVE  \E n \in Taken(CommandBytes(m)) : CommandStep(m, n)
  BY <1>2, Zenon DEF cancelOrder, CommandBytes, CommandStep
<1> QED BY <1>1, <1>2, Zenon DEF Next

(* What send() takes of a frame: all, nothing or a part. *)
LEMMA TakenOfFrame ==
  ASSUME NEW bytes \in AllFrames, NEW n \in Taken(bytes)
  PROVE  /\ n \in Nat /\ n <= Len(bytes)
         /\ n = 0 \/ n = Len(bytes) \/ n \in 1 .. Len(bytes) - 1
         /\ SubSeq(bytes, 1, n) \in Seq(Byte)
         /\ n = 0 => SubSeq(bytes, 1, n) = << >>
         /\ n = Len(bytes) => SubSeq(bytes, 1, n) = bytes
<1>1. bytes \in Seq(Byte) /\ Len(bytes) \in Nat /\ Len(bytes) >= 3
  BY FrameBytes
<1>2. Cuts \in SUBSET Nat
  BY StreamAssumption
<1>3. n \in {0, Len(bytes)} \cup {k \in Cuts : k < Len(bytes)}
  BY Zenon DEF Taken
<1>4. n \in Nat /\ n <= Len(bytes) /\ (n = 0 \/ n = Len(bytes) \/ n \in 1 .. Len(bytes) - 1)
  BY <1>1, <1>2, <1>3
<1>5. SubSeq(bytes, 1, n) \in Seq(Byte) /\ Len(SubSeq(bytes, 1, n)) = n
      /\ \A k \in 1 .. n : SubSeq(bytes, 1, n)[k] = bytes[k]
  BY <1>1, <1>4, ReadBytes
<1> DEFINE w == SubSeq(bytes, 1, n)
<1> HIDE DEF w
<1>6. w \in Seq(Byte) /\ Len(w) = n /\ \A k \in 1 .. n : w[k] = bytes[k]
  BY <1>5 DEF w
<1>7. n = 0 => w = << >>
  BY <1>6
<1>8. n = Len(bytes) => w = bytes
  BY <1>1, <1>6
<1> QED BY <1>4, <1>6, <1>7, <1>8, Zenon DEF w

(* The same for a command. *)
LEMMA TakenBytes ==
  ASSUME NEW m \in Commands, NEW n \in Taken(CommandBytes(m))
  PROVE  LET bytes == CommandBytes(m)
         IN  /\ bytes \in AllFrames /\ n \in Nat /\ n <= Len(bytes)
             /\ n = 0 \/ n = Len(bytes) \/ n \in 1 .. Len(bytes) - 1
             /\ SubSeq(bytes, 1, n) \in Seq(Byte)
             /\ n = 0 => SubSeq(bytes, 1, n) = << >>
             /\ n = Len(bytes) => SubSeq(bytes, 1, n) = bytes
<1>1. CommandBytes(m) \in AllFrames
  BY CommandRead DEF AllFrames, IsFrame
<1> QED BY <1>1, TakenOfFrame

(* registerTrader, when send() takes n bytes of the login. *)
LoginTaken(n) ==
  /\ ~registered /\ registered' = TRUE
  /\ stream' = SubSeq(LoginBytes(name, secret), 1, n)
  /\ cut' = (cut \/ n # Len(LoginBytes(name, secret)))
  /\ UNCHANGED <<name, secret, lost, login, sends>>

(* It takes some of them. *)
LEMMA RegisterSteps ==
  ASSUME registerTrader
  PROVE  \E n : n \in Taken(LoginBytes(name, secret)) /\ LoginTaken(n)
BY Zenon DEF registerTrader, LoginTaken

(* All, nothing or a part. *)
LEMMA LoginTakenBytes ==
  ASSUME TypeOK, NEW n \in Taken(LoginBytes(name, secret))
  PROVE  /\ LoginBytes(name, secret) \in AllFrames
         /\ SubSeq(LoginBytes(name, secret), 1, n) \in Seq(Byte)
         /\ n = Len(LoginBytes(name, secret))
              => SubSeq(LoginBytes(name, secret), 1, n) = LoginBytes(name, secret)
<1>1. LoginBytes(name, secret) \in AllFrames
  BY LoginRead DEF TypeOK, AllFrames, IsFrame
<1> QED BY <1>1, TakenOfFrame

(* The exchange reads a frame that is there, whatever it holds. *)
LEMMA ReadType ==
  ASSUME stream \in Seq(Byte), ReadFrame
  PROVE  stream' \in Seq(Byte)
<1>1. 1 \in 1 .. Len(stream) + 1 /\ HasFrame(stream, 1)
  BY DEF ReadFrame
<1> DEFINE n == FrameSize(stream, 1)
<1>2. n \in Nat /\ 1 + n - 1 <= Len(stream)
  BY <1>1, FrameFits
<1> HIDE DEF n
<1>3. n <= Len(stream)
  BY <1>2
<1>4. /\ SubSeq(stream, 1, n) \in Seq(Byte) /\ Len(SubSeq(stream, 1, n)) = n
      /\ SubSeq(stream, n + 1, Len(stream)) \in Seq(Byte)
  BY <1>2, <1>3, ReadBytes
<1>5. stream' = SubSeq(stream, Len(SubSeq(stream, 1, n)) + 1, Len(stream))
  BY Zenon DEF ReadFrame, n
<1> QED BY <1>4, <1>5

(* Whatever is written, the stream stays one of bytes. *)
LEMMA TypeStep ==
  ASSUME TypeOK, [Next]_vars
  PROVE  TypeOK'
<1>1. CASE registerTrader
  <2>1. PICK n : n \in Taken(LoginBytes(name, secret)) /\ LoginTaken(n)
    BY <1>1, RegisterSteps
  <2>2. SubSeq(LoginBytes(name, secret), 1, n) \in Seq(Byte)
    BY <2>1, LoginTakenBytes
  <2> QED BY <2>1, <2>2 DEF TypeOK, LoginTaken
<1>2. ASSUME NEW m \in Commands, NEW n \in Taken(CommandBytes(m)), CommandStep(m, n)
      PROVE  TypeOK'
  <2> DEFINE w == SubSeq(CommandBytes(m), 1, n)
  <2>1. w \in Seq(Byte)
    BY TakenBytes
  <2>2. stream' = stream \o w /\ (cut' = (cut \/ n \in 1 .. Len(CommandBytes(m)) - 1))
        /\ sends < MaxSends /\ sends' = sends + 1 /\ UNCHANGED <<name, secret, registered, login>>
    BY <1>2, Zenon DEF CommandStep, send
  <2> HIDE DEF w
  <2>3. stream' \in Seq(Byte)
    BY <2>1, <2>2, Joined DEF TypeOK
  <2>4. sends' \in 0 .. MaxSends
    BY <2>2, StreamAssumption DEF TypeOK
  <2>5. cut' \in BOOLEAN
    BY <2>2, Zenon
  <2> QED BY <2>2, <2>3, <2>4, <2>5 DEF TypeOK
<1>3. CASE ReadFrame
  <2>1. stream' \in Seq(Byte)
    BY <1>3, ReadType DEF TypeOK
  <2>2. UNCHANGED <<name, secret, registered, lost, cut, sends>>
    BY <1>3, Zenon DEF ReadFrame
  <2> QED BY <2>1, <2>2 DEF TypeOK
<1>4. CASE UNCHANGED vars
  BY <1>4 DEF TypeOK, vars
<1> QED BY <1>1, <1>2, <1>3, <1>4, NextSteps

(* Every state is of its type.  In particular every number in the stream is *)
(* a byte, whatever the executor sends and wherever a write falls short.    *)
THEOREM StreamTypes == Spec => []TypeOK
<1>1. Init => TypeOK
  <2>1. MaxSends \in Nat
    BY StreamAssumption
  <2>2. 0 \in 0 .. MaxSends /\ << >> \in Seq(Byte)
    BY <2>1
  <2> QED BY <2>2 DEF Init, TypeOK
<1>2. TypeOK /\ [Next]_vars => TypeOK'
  BY TypeStep
<1> QED BY <1>1, <1>2, PTL DEF Spec

-----------------------------------------------------------------------------
(* What the stream holds.                                                   *)

Given(n, s) == [name |-> n, secret |-> s]

(* The stream st is the frames q: the login, until it is read, and behind   *)
(* it commands.                                                             *)
Carries(st, q, reg, log, n, s) ==
  /\ \E e : Split(st, q, e)
  /\ log \in {NoLogin, Given(n, s)}
  /\ ~reg => q = << >> /\ log = NoLogin
  /\ reg /\ log = NoLogin => Len(q) > 0 /\ q[1] = LoginBytes(n, s)
  /\ \A k \in 1 .. Len(q) : \/ reg /\ log = NoLogin /\ k = 1
                            \/ \E m \in Commands : q[k] = CommandBytes(m)

(* This holds up to the first short write.  It is inductive. *)
StreamInv ==
  /\ TypeOK
  /\ ~cut => \E q : Carries(stream, q, registered, login, name, secret)

(* What the exchange will read of the frames q. *)
Read(q) == [k \in 1 .. Len(q) |-> Decode(q[k])]

(* Queue as a function of the state. *)
QueueOf(c, reg, log, st) ==
  IF c THEN << >> ELSE IF reg /\ log = NoLogin THEN Tail(Frames(st)) ELSE Frames(st)

(* It is that function before and after a step. *)
LEMMA QueueIs ==
  /\ Queue = QueueOf(cut, registered, login, stream)
  /\ Queue' = QueueOf(cut', registered', login', stream')
BY Zenon DEF Queue, QueueOf

(* The login the exchange reads is not the one it starts with. *)
LEMMA GivenIsNew ==
  ASSUME NEW n, NEW s
  PROVE  Given(n, s) # NoLogin
<1>1. "secret" \in DOMAIN Given(n, s)
  BY DEF Given
<1>2. ~("secret" \in DOMAIN NoLogin)
  BY DEF NoLogin
<1> QED BY <1>1, <1>2, Zenon

(* What commands the stream holds, by its frames. *)
LEMMA QueueRead ==
  ASSUME NEW st, NEW q, NEW reg, NEW log, NEW n, NEW s, Carries(st, q, reg, log, n, s)
  PROVE  /\ q \in Seq(AllFrames)
         /\ Frames(st) = Read(q)
         /\ QueueOf(FALSE, reg, log, st) = IF reg /\ log = NoLogin THEN Tail(Read(q)) ELSE Read(q)
<1>1. PICK e : Split(st, q, e)
  BY Zenon DEF Carries
<1>2. q \in Seq(AllFrames)
  BY <1>1, Zenon DEF Split
<1>3. Frames(st) = Read(q)
  BY <1>1, FramesAre, Zenon DEF Read
<1> QED BY <1>2, <1>3, Zenon DEF QueueOf

(* Reading frames, one behind the others and without the first. *)
LEMMA ReadAppend ==
  ASSUME NEW q \in Seq(AllFrames), NEW f \in AllFrames
  PROVE  Read(Append(q, f)) = Append(Read(q), Decode(f))
<1> DEFINE r == Append(q, f)
<1>1. Len(q) \in Nat /\ Len(r) = Len(q) + 1 /\ r[Len(q) + 1] = f /\ \A k \in 1 .. Len(q) : r[k] = q[k]
  OBVIOUS
<1> HIDE DEF r
<1> DEFINE n == Len(q)
           a == Read(r)
           b == Read(q)
           d == Decode(f)
<1>2. a = [k \in 1 .. n + 1 |-> Decode(r[k])] /\ b = [k \in 1 .. n |-> Decode(q[k])]
  BY <1>1 DEF Read
<1>3. n \in Nat
  BY <1>1
<1> HIDE DEF n, a, b, d
<1>4. Append(b, d) = [k \in 1 .. n + 1 |-> IF k = n + 1 THEN d ELSE b[k]]
  BY <1>2, <1>3
<1>5. \A k \in 1 .. n + 1 : Decode(r[k]) = IF k = n + 1 THEN d ELSE b[k]
  <2>1. \A k \in 1 .. n + 1 : k # n + 1 => k \in 1 .. n
    BY <1>3
  <2>2. \A k \in 1 .. n : b[k] = Decode(q[k])
    BY <1>2
  <2> QED BY <1>1, <2>1, <2>2, Zenon DEF n, d
<1>6. a = Append(b, d)
  BY <1>2, <1>4, <1>5
<1> QED BY <1>6 DEF a, b, d, r

(* The same for the frame that is read. *)
LEMMA ReadTail ==
  ASSUME NEW q \in Seq(AllFrames), Len(q) > 0
  PROVE  Read(Tail(q)) = Tail(Read(q)) /\ Read(q) # << >>
<1> DEFINE r == Tail(q)
           n == Len(q)
<1>1. n \in Nat /\ n > 0 /\ Len(r) = n - 1 /\ \A k \in 1 .. n - 1 : r[k] = q[k + 1]
  OBVIOUS
<1> HIDE DEF r
<1> DEFINE a == Read(r)
           b == Read(q)
<1>2. a = [k \in 1 .. n - 1 |-> Decode(r[k])] /\ b = [k \in 1 .. n |-> Decode(q[k])]
  BY <1>1 DEF Read
<1> HIDE DEF n, a, b
<1>3. b # << >> /\ Tail(b) = [k \in 1 .. n - 1 |-> b[k + 1]]
  BY <1>1, <1>2
<1>4. \A k \in 1 .. n - 1 : Decode(r[k]) = b[k + 1]
  <2>1. \A k \in 1 .. n - 1 : k + 1 \in 1 .. n
    BY <1>1
  <2> QED BY <1>1, <1>2, <2>1
<1>5. a = Tail(b)
  BY <1>2, <1>3, <1>4
<1> QED BY <1>3, <1>5 DEF a, b, r

-----------------------------------------------------------------------------
(* What a step does to the frames, up to the first short write.             *)

(* A login that is sent whole is alone in the stream. *)
LEMMA RegisterFrames ==
  ASSUME TypeOK, NEW q, Carries(stream, q, registered, login, name, secret), registerTrader,
         ~cut'
  PROVE  /\ Carries(stream', <<LoginBytes(name, secret)>>, registered', login', name', secret')
         /\ QueueOf(FALSE, registered', login', stream') = QueueOf(FALSE, registered, login, stream)
<1> DEFINE f == LoginBytes(name, secret)
<1>1. f \in AllFrames
  BY LoginRead DEF TypeOK, AllFrames, IsFrame
<1>2. /\ ~registered /\ registered' = TRUE /\ stream' = f
      /\ name' = name /\ secret' = secret /\ login' = login
  <2>1. PICK n : n \in Taken(LoginBytes(name, secret)) /\ LoginTaken(n)
    BY RegisterSteps
  <2>2. n = Len(LoginBytes(name, secret))
    BY <2>1 DEF LoginTaken
  <2> QED BY <2>1, <2>2, LoginTakenBytes DEF LoginTaken
<1> HIDE DEF f
<1>3. q = << >> /\ login = NoLogin
  BY <1>2, Zenon DEF Carries
<1>4. \E e : Split(f, <<f>>, e)
  <2>1. PICK e : Split(<< >>, << >>, e)
    BY SplitEmpty
  <2>2. \E c : Split(<< >> \o f, Append(<< >>, f), c)
    BY <1>1, <2>1, SplitAppend
  <2>3. << >> \o f = f /\ Append(<< >>, f) = <<f>>
    BY <1>1, FrameBytes
  <2> QED BY <2>2, <2>3, Zenon
<1>5. Len(<<f>>) = 1 /\ <<f>>[1] = f /\ \A k \in 1 .. 1 : k = 1
  OBVIOUS
<1>6. Carries(f, <<f>>, TRUE, NoLogin, name, secret)
  <2>1. Len(<<f>>) > 0 /\ \A k \in 1 .. Len(<<f>>) : k = 1
    BY <1>5
  <2> QED BY <1>4, <1>5, <2>1, Zenon DEF Carries, f
<1>7. QueueOf(FALSE, TRUE, NoLogin, f) = Tail(Read(<<f>>))
  BY <1>6, QueueRead
<1>8. QueueOf(FALSE, registered, login, stream) = Read(<< >>)
  BY <1>2, <1>3, QueueRead
<1>9. Read(<< >>) = << >> /\ Tail(Read(<<f>>)) = << >>
  <2>1. <<f>> \in Seq(AllFrames) /\ Len(<<f>>) > 0 /\ Tail(<<f>>) = << >>
    BY <1>1
  <2>2. Tail(Read(<<f>>)) = Read(<< >>)
    BY <2>1, ReadTail
  <2>3. Read(<< >>) = << >>
    BY DEF Read
  <2> QED BY <2>2, <2>3
<1> QED BY <1>2, <1>3, <1>6, <1>7, <1>8, <1>9, Zenon DEF f

(* A command that is sent whole goes behind the others. *)
LEMMA SendFrames ==
  ASSUME NEW q, Carries(stream, q, registered, login, name, secret), registered,
         NEW m \in Commands, stream' = stream \o CommandBytes(m),
         UNCHANGED <<name, secret, registered, login>>
  PROVE  /\ Carries(stream', Append(q, CommandBytes(m)), registered', login', name', secret')
         /\ QueueOf(FALSE, registered', login', stream')
              = Append(QueueOf(FALSE, registered, login, stream), m)
<1> DEFINE f == CommandBytes(m)
           r == Append(q, f)
<1>1. f \in AllFrames /\ Decode(f) = m
  BY CommandRead DEF AllFrames, IsFrame
<1>2. /\ q \in Seq(AllFrames)
      /\ QueueOf(FALSE, registered, login, stream)
           = IF registered /\ login = NoLogin THEN Tail(Read(q)) ELSE Read(q)
  BY QueueRead
<1>3. PICK e : Split(stream, q, e)
  BY Zenon DEF Carries
<1>4. f = CommandBytes(m)
  OBVIOUS
<1> HIDE DEF f
<1>5. \E c : Split(stream \o f, r, c)
  BY <1>1, <1>3, SplitAppend
<1>6. Len(q) \in Nat /\ Len(r) = Len(q) + 1 /\ r[Len(q) + 1] = f /\ \A k \in 1 .. Len(q) : r[k] = q[k]
  BY <1>1, <1>2
<1> HIDE DEF r
<1>7. /\ login \in {NoLogin, Given(name, secret)}
      /\ login = NoLogin => Len(q) > 0 /\ q[1] = LoginBytes(name, secret)
      /\ \A k \in 1 .. Len(q) : (login = NoLogin /\ k = 1) \/ \E c \in Commands : q[k] = CommandBytes(c)
  BY Zenon DEF Carries
<1>8. login = NoLogin => Len(r) > 0 /\ r[1] = LoginBytes(name, secret)
  <2>1. Len(q) > 0 => Len(r) > 0 /\ 1 \in 1 .. Len(q)
    BY <1>6
  <2> QED BY <1>6, <1>7, <2>1, Zenon
<1>9. ASSUME NEW k \in 1 .. Len(r)
      PROVE  (login = NoLogin /\ k = 1) \/ \E c \in Commands : r[k] = CommandBytes(c)
  <2>1. CASE k = Len(q) + 1
    BY <1>4, <1>6, <2>1, Zenon
  <2>2. CASE k # Len(q) + 1
    <3>1. k \in 1 .. Len(q)
      BY <1>6, <2>2
    <3> QED BY <1>6, <1>7, <3>1, Zenon
  <2> QED BY <2>1, <2>2
<1>10. Carries(stream \o f, r, registered, login, name, secret)
  BY <1>5, <1>7, <1>8, <1>9, Zenon DEF Carries
<1>11. QueueOf(FALSE, registered, login, stream \o f)
         = IF registered /\ login = NoLogin THEN Tail(Read(r)) ELSE Read(r)
  BY <1>10, QueueRead
<1>12. Read(r) = Append(Read(q), m)
  BY <1>1, <1>2, ReadAppend DEF r
<1>13. login = NoLogin => Tail(Read(r)) = Append(Tail(Read(q)), m)
  <2> SUFFICES ASSUME login = NoLogin
               PROVE  Tail(Append(Read(q), m)) = Append(Tail(Read(q)), m)
    BY <1>12
  <2>1. Len(q) > 0 /\ Len(q) \in Nat
    BY <1>6, <1>7
  <2> DEFINE x == Read(q)
             n == Len(q)
  <2>2. x = [k \in 1 .. n |-> Decode(q[k])] /\ n \in Nat /\ n > 0
    BY <2>1 DEF Read
  <2> HIDE DEF x, n
  <2>3. \E S : x \in Seq(S) /\ m \in S
    <3> DEFINE S == {Decode(q[k]) : k \in 1 .. n} \cup {m}
    <3>1. \A k \in 1 .. n : Decode(q[k]) \in S
      OBVIOUS
    <3>2. m \in S
      OBVIOUS
    <3> HIDE DEF S
    <3>3. x \in Seq(S)
      BY <2>2, <3>1
    <3> QED BY <3>2, <3>3
  <2>4. PICK S : x \in Seq(S) /\ m \in S
    BY <2>3
  <2>5. Len(x) = n
    BY <2>2
  <2>6. Tail(Append(x, m)) = Append(Tail(x), m)
    <3> DEFINE y == Append(x, m)
               z == Tail(x)
    <3>0. n \in Nat /\ n > 0
      BY <2>2
    <3>1. y \in Seq(S) /\ Len(y) = n + 1 /\ y[n + 1] = m /\ \A k \in 1 .. n : y[k] = x[k]
      <4>1. y \in Seq(S) /\ Len(y) = Len(x) + 1 /\ y[Len(x) + 1] = m /\ \A k \in 1 .. Len(x) : y[k] = x[k]
        BY <2>4
      <4> QED BY <2>5, <4>1
    <3>2. z \in Seq(S) /\ Len(z) = n - 1 /\ \A k \in 1 .. n - 1 : z[k] = x[k + 1]
      <4>1. x # << >>
        BY <2>5, <3>0
      <4>2. z \in Seq(S) /\ Len(z) = Len(x) - 1 /\ \A k \in 1 .. Len(x) - 1 : z[k] = x[k + 1]
        BY <2>4, <4>1
      <4> QED BY <2>5, <4>2
    <3> HIDE DEF y, z
    <3>3. Tail(y) \in Seq(S) /\ Len(Tail(y)) = n /\ \A k \in 1 .. n : Tail(y)[k] = y[k + 1]
      BY <2>2, <3>1
    <3>4. Append(z, m) \in Seq(S) /\ Len(Append(z, m)) = n
          /\ Append(z, m)[n] = m /\ \A k \in 1 .. n - 1 : Append(z, m)[k] = z[k]
      BY <2>2, <2>4, <3>2
    <3> DEFINE a == Tail(y)
               b == Append(z, m)
    <3> HIDE DEF a, b
    <3>5. \A k \in 1 .. n : a[k] = b[k]
      <4>1. \A k \in 1 .. n : k = n \/ (k \in 1 .. n - 1 /\ k + 1 \in 1 .. n)
        BY <2>2
      <4>2. a[n] = b[n]
        BY <3>0, <3>1, <3>3, <3>4 DEF a, b
      <4>3. \A k \in 1 .. n - 1 : a[k] = b[k]
        <5>1. \A k \in 1 .. n - 1 : k \in 1 .. n /\ k + 1 \in 1 .. n
          BY <3>0
        <5> QED BY <3>1, <3>2, <3>3, <3>4, <5>1, Zenon DEF a, b
      <4> QED BY <4>1, <4>2, <4>3, Zenon
    <3>6. a = b
      BY <3>3, <3>4, <3>5 DEF a, b
    <3> QED BY <3>6 DEF a, b, y, z
  <2> QED BY <2>6 DEF x
<1> QED BY <1>2, <1>4, <1>10, <1>11, <1>12, <1>13, Zenon DEF r

(* Reading: the login first, and then commands, the oldest first. *)
LEMMA ReadFrames ==
  ASSUME TypeOK, NEW q, Carries(stream, q, registered, login, name, secret), ReadFrame
  PROVE  /\ Carries(stream', Tail(q), registered', login', name', secret')
         /\ \/ QueueOf(FALSE, registered', login', stream') = QueueOf(FALSE, registered, login, stream)
            \/ /\ QueueOf(FALSE, registered, login, stream) # << >>
               /\ QueueOf(FALSE, registered', login', stream')
                    = Tail(QueueOf(FALSE, registered, login, stream))
<1> DEFINE f == SubSeq(stream, 1, FrameSize(stream, 1))
           r == Tail(q)
           t == SubSeq(stream, Len(f) + 1, Len(stream))
<1>1. /\ HasFrame(stream, 1) /\ stream' = t
      /\ login' = IF ~IsLogin(f) THEN login
                  ELSE [name   |-> UpToNul(SubSeq(f, 4, 23)),
                        secret |-> UpToNul(SubSeq(f, 24, LOGIN_MESSAGE_SIZE))]
      /\ name' = name /\ secret' = secret /\ registered' = registered
  BY Zenon DEF ReadFrame
<1>2. PICK e : Split(stream, q, e)
  BY Zenon DEF Carries
<1>3. q \in Seq(AllFrames) /\ Len(q) \in Nat /\ stream \in Seq(Byte) /\ Len(stream) \in Nat
  BY <1>2 DEF Split
<1>4. Len(q) > 0
  <2>1. CASE Len(q) = 0
    <3>1. Len(stream) = 0
      BY <1>2, <2>1, Zenon DEF Split
    <3> QED BY <1>1, <3>1 DEF HasFrame, HeaderBytes
  <2> QED BY <1>3, <2>1
<1>5. f = q[1]
  <2>1. 1 \in 1 .. Len(q) /\ 1 - 1 = 0
    BY <1>3, <1>4
  <2>2. Found(stream, e[1 - 1] + 1, q[1], e[1] + 1)
    BY <1>2, <2>1, SplitAt
  <2>3. e[1 - 1] = 0
    BY <1>2, <2>1, Zenon DEF Split
  <2>4. 0 + 1 = 1
    OBVIOUS
  <2>5. /\ 1 \in 1 .. Len(stream) + 1 /\ HasFrame(stream, 1) /\ FrameSize(stream, 1) = Len(q[1])
        /\ SubSeq(stream, 1, 1 + FrameSize(stream, 1) - 1) = q[1]
    BY <2>2, <2>3, <2>4, Zenon DEF Found
  <2>6. FrameSize(stream, 1) \in Nat
    BY <1>3, <2>5, FrameFits
  <2>7. 1 + FrameSize(stream, 1) - 1 = FrameSize(stream, 1)
    BY <2>6
  <2> QED BY <2>5, <2>7, Zenon
<1> HIDE DEF f
<1>6. \E c : Split(t, r, c)
  BY <1>2, <1>4, <1>5, SplitTail
<1> HIDE DEF t
<1>7. Len(r) = Len(q) - 1 /\ \A k \in 1 .. Len(r) : r[k] = q[k + 1] /\ k + 1 \in 1 .. Len(q) /\ k + 1 # 1
  BY <1>3, <1>4
<1>8. /\ QueueOf(FALSE, registered, login, stream)
           = IF registered /\ login = NoLogin THEN Tail(Read(q)) ELSE Read(q)
  BY QueueRead
<1>9. Read(r) = Tail(Read(q)) /\ Read(q) # << >>
  BY <1>3, <1>4, ReadTail
<1> HIDE DEF r
<1>10. registered
  <2>1. q # << >>
    BY <1>3, <1>4
  <2> QED BY <2>1, Zenon DEF Carries
<1>11. \A k \in 1 .. Len(r) : \E m \in Commands : r[k] = CommandBytes(m)
  <2>1. \A k \in 1 .. Len(q) : k = 1 \/ \E m \in Commands : q[k] = CommandBytes(m)
    BY Zenon DEF Carries
  <2> QED BY <1>7, <2>1, Zenon
<1>12. login' = Given(name, secret)
  <2>1. CASE login = NoLogin
    <3>1. f = LoginBytes(name, secret)
      BY <1>5, <1>10, <2>1, Zenon DEF Carries
    <3>2. /\ IsLogin(f) /\ UpToNul(SubSeq(f, 4, 23)) = name
          /\ UpToNul(SubSeq(f, 24, LOGIN_MESSAGE_SIZE)) = secret
      BY <3>1, LoginRead DEF TypeOK
    <3> QED BY <1>1, <3>2, Zenon DEF Given
  <2>2. CASE login # NoLogin
    <3>1. login = Given(name, secret)
      BY <2>2, Zenon DEF Carries
    <3>2. 1 \in 1 .. Len(q)
      BY <1>3, <1>4
    <3>3. PICK m \in Commands : q[1] = CommandBytes(m)
      BY <2>2, <3>2, Zenon DEF Carries
    <3>4. ~IsLogin(f)
      BY <1>5, <3>3, CommandRead, Zenon
    <3> QED BY <1>1, <3>1, <3>4, Zenon
  <2> QED BY <2>1, <2>2
<1>13. login' # NoLogin
  BY <1>12, GivenIsNew, Zenon
<1>14. Carries(t, r, registered, login', name, secret)
  BY <1>6, <1>10, <1>11, <1>12, <1>13, Zenon DEF Carries
<1>15. QueueOf(FALSE, registered, login', t) = Read(r)
  BY <1>13, <1>14, QueueRead, Zenon
<1> QED BY <1>1, <1>8, <1>9, <1>14, <1>15, Zenon DEF r

(* send() takes all of a command or none of it, or the write falls short.   *)
LEMMA CommandFrames ==
  ASSUME NEW q, Carries(stream, q, registered, login, name, secret),
         stream \in Seq(Byte), NEW m \in Commands, NEW n \in Taken(CommandBytes(m)),
         CommandStep(m, n), ~cut'
  PROVE  /\ \E r : Carries(stream', r, registered', login', name', secret')
         /\ \/ /\ QueueOf(FALSE, registered', login', stream')
                    = Append(QueueOf(FALSE, registered, login, stream), m)
               /\ lost' = lost
            \/ /\ QueueOf(FALSE, registered', login', stream') = QueueOf(FALSE, registered, login, stream)
               /\ lost' = IF IsInsert(m) THEN lost ELSE lost \cup {m.id}
<1> DEFINE f == CommandBytes(m)
<1>1. /\ registered /\ stream' = stream \o SubSeq(f, 1, n)
      /\ (cut' = (cut \/ n \in 1 .. Len(f) - 1))
      /\ UNCHANGED <<name, secret, registered, login>>
      /\ lost' = IF n = 0 /\ ~IsInsert(m) THEN lost \cup {m.id} ELSE lost
  BY Zenon DEF CommandStep, send
<1>2. /\ f \in AllFrames /\ (n = 0 \/ n = Len(f) \/ n \in 1 .. Len(f) - 1)
      /\ n = 0 => SubSeq(f, 1, n) = << >>
      /\ n = Len(f) => SubSeq(f, 1, n) = f
  BY TakenBytes, Zenon
<1>3. Len(f) # 0
  BY <1>2, FrameBytes
<1>4. n = 0 \/ n = Len(f)
  BY <1>1, <1>2, Zenon
<1>5. CASE n = 0
  <2>1. stream \o << >> = stream
    OBVIOUS
  <2>2. stream' = stream /\ lost' = IF IsInsert(m) THEN lost ELSE lost \cup {m.id}
    BY <1>1, <1>2, <1>5, <2>1, Zenon
  <2> QED BY <1>1, <2>2, Zenon
<1>6. CASE n = Len(f)
  <2>1. stream' = stream \o f /\ lost' = lost
    BY <1>1, <1>2, <1>3, <1>6, Zenon
  <2> QED BY <1>1, <2>1, SendFrames, Zenon
<1> QED BY <1>4, <1>5, <1>6

(* The invariant holds to begin with ... *)
LEMMA InvInit ==
  ASSUME Init
  PROVE  StreamInv
<1>1. TypeOK
  <2>1. MaxSends \in Nat
    BY StreamAssumption
  <2>2. 0 \in 0 .. MaxSends /\ << >> \in Seq(Byte)
    BY <2>1
  <2> QED BY <2>2 DEF Init, TypeOK
<1>2. stream = << >> /\ ~registered /\ login = NoLogin
  BY DEF Init
<1>3. \A k \in 1 .. Len(<< >>) : FALSE
  OBVIOUS
<1>4. Carries(stream, << >>, registered, login, name, secret)
  BY <1>2, <1>3, SplitEmpty, Zenon DEF Carries
<1> QED BY <1>1, <1>4 DEF StreamInv

(* What a step is to the channel of commands. *)
QueueStep ==
  \/ cut'
  \/ UNCHANGED <<Queue, lost>>
  \/ Queue # << >> /\ Queue' = Tail(Queue) /\ lost' = lost
  \/ \E m \in Commands :
       \/ Queue' = Append(Queue, m) /\ lost' = lost
       \/ Queue' = Queue /\ lost' = IF IsInsert(m) THEN lost ELSE lost \cup {m.id}

(* ... every step keeps it, and is one of those. *)
LEMMA InvStep ==
  ASSUME StreamInv, [Next]_vars
  PROVE  StreamInv' /\ QueueStep
<1>1. TypeOK /\ TypeOK'
  BY TypeStep DEF StreamInv
<1>2. CASE cut'
  BY <1>1, <1>2, Zenon DEF StreamInv, QueueStep
<1>3. CASE ~cut'
  <2> DEFINE Q  == QueueOf(FALSE, registered, login, stream)
             Q1 == QueueOf(FALSE, registered', login', stream')
             Kept == \E q : Carries(stream', q, registered', login', name', secret')
  <2>1. cut => cut'
    <3>1. CASE registerTrader
      BY <3>1 DEF registerTrader
    <3>2. ASSUME NEW m \in Commands, NEW n \in Taken(CommandBytes(m)), CommandStep(m, n)
          PROVE  cut => cut'
      BY <3>2, Zenon DEF CommandStep, send
    <3>3. CASE ReadFrame
      BY <3>3, Zenon DEF ReadFrame
    <3>4. CASE UNCHANGED vars
      BY <3>4 DEF vars
    <3> QED BY <3>1, <3>2, <3>3, <3>4, NextSteps
  <2>2. ~cut
    BY <1>3, <2>1
  <2>3. cut = FALSE /\ cut' = FALSE
    BY <1>1, <1>3, <2>2 DEF TypeOK
  <2>4. Queue = Q /\ Queue' = Q1
    BY <2>3, QueueIs, Zenon
  <2>5. PICK q : Carries(stream, q, registered, login, name, secret)
    BY <2>2, Zenon DEF StreamInv
  <2>6. SUFFICES ASSUME TRUE
                 PROVE  Kept /\ QueueStep
    BY <1>1, Zenon DEF StreamInv
  <2> HIDE DEF Q, Q1
  <2>7. CASE registerTrader
    <3>1. lost' = lost
      BY <2>7, Zenon DEF registerTrader
    <3>2. Kept /\ Q1 = Q
      BY <1>1, <1>3, <2>5, <2>7, RegisterFrames, Zenon DEF Q, Q1
    <3> QED BY <2>4, <3>1, <3>2, Zenon DEF QueueStep
  <2>8. ASSUME NEW m \in Commands, NEW n \in Taken(CommandBytes(m)), CommandStep(m, n)
        PROVE  Kept /\ QueueStep
    <3>1. stream \in Seq(Byte)
      BY <1>1 DEF TypeOK
    <3>2. /\ Kept
          /\ \/ Q1 = Append(Q, m) /\ lost' = lost
             \/ Q1 = Q /\ lost' = IF IsInsert(m) THEN lost ELSE lost \cup {m.id}
      BY <1>3, <2>5, <2>8, <3>1, CommandFrames, Zenon DEF Q, Q1
    <3> QED BY <2>4, <3>2, Zenon DEF QueueStep
  <2>9. CASE ReadFrame
    <3>1. lost' = lost
      BY <2>9, Zenon DEF ReadFrame
    <3>2. Kept /\ (Q1 = Q \/ (Q # << >> /\ Q1 = Tail(Q)))
      BY <1>1, <2>5, <2>9, ReadFrames, Zenon DEF Q, Q1
    <3> QED BY <2>4, <3>1, <3>2, Zenon DEF QueueStep
  <2>10. CASE UNCHANGED vars
    <3>1. UNCHANGED <<name, secret, registered, stream, lost, cut, login>>
      BY <2>10 DEF vars
    <3>2. Kept
      BY <2>5, <3>1, Zenon
    <3>3. Q1 = Q /\ lost' = lost
      BY <3>1, Zenon DEF Q, Q1
    <3> QED BY <2>4, <3>2, <3>3, Zenon DEF QueueStep
  <2> QED BY <2>7, <2>8, <2>9, <2>10, NextSteps
<1> QED BY <1>2, <1>3

(* If the login is taken, and up to a short write, the exchange logs in the *)
(* trader with the name and the secret it was given, for every name and     *)
(* secret that fit their fields, those that fill them included.             *)
THEOREM LoginAlwaysIntact == Spec => []LoginIntact
<1>1. Init => StreamInv
  BY InvInit
<1>2. StreamInv /\ [Next]_vars => StreamInv'
  BY InvStep
<1>3. StreamInv => LoginIntact
  BY Zenon DEF StreamInv, LoginIntact, Carries, Given
<1> QED BY <1>1, <1>2, <1>3, PTL DEF Spec

(* If the login is taken, and up to a short write, the bytes are the        *)
(* channel of commands that Trading is built on: packed layout, sizes and   *)
(* byte order carry every command whose numbers fit an int, unchanged and   *)
(* in order, behind the login.                                              *)
THEOREM StreamIsOrderChannel == Spec => ImplementsOrderChannel
<1>1. Init => StreamInv
  BY InvInit
<1>2. StreamInv /\ [Next]_vars => StreamInv'
  BY InvStep
<1>3. Init => Channel!LinkInit
  <2> SUFFICES ASSUME Init
               PROVE  Queue = << >> /\ lost = {}
    BY DEF Channel!LinkInit
  <2>1. stream = << >> /\ registered = FALSE /\ cut = FALSE /\ lost = {} /\ login = NoLogin
    BY DEF Init
  <2>2. \A k \in 1 .. Len(<< >>) : FALSE
    OBVIOUS
  <2>3. Carries(stream, << >>, registered, login, name, secret)
    BY <2>1, <2>2, SplitEmpty, Zenon DEF Carries
  <2>4. QueueOf(FALSE, registered, login, stream) = Read(<< >>)
    BY <2>1, <2>3, QueueRead
  <2>5. Read(<< >>) = << >>
    BY DEF Read
  <2>6. Queue = << >>
    BY <2>1, <2>4, <2>5, QueueIs, Zenon
  <2> QED BY <2>1, <2>6
<1>4. StreamInv /\ [Next]_vars => [cut' \/ Channel!Next]_<<Queue, lost>>
  <2> SUFFICES ASSUME StreamInv, [Next]_vars, ~cut', ~(UNCHANGED <<Queue, lost>>)
               PROVE  Channel!Next
    BY Zenon
  <2>1. QueueStep
    BY InvStep
  <2>2. CASE Queue # << >> /\ Queue' = Tail(Queue) /\ lost' = lost
    BY <2>2, Zenon DEF Channel!Next, Channel!Receive
  <2>3. ASSUME NEW m \in Commands, Queue' = Append(Queue, m), lost' = lost
        PROVE  Channel!Send(m, TRUE)
    <3>1. m \in Message
      BY StreamAssumption
    <3>2. CASE IsInsert(m)
      <4>1. m = InsertMessage(m.id, m.side, m.price, m.volume)
        BY <3>1, <3>2 DEF Message, IsInsert, InsertMessage, INSERT_MESSAGE_TYPE, CANCEL_MESSAGE_TYPE
      <4> QED BY <2>3, <3>2, <4>1 DEF Channel!Send, Channel!insertOrder, Channel!CurrentLink, Channel!IsInsert, Channel!InsertMessage, IsInsert, InsertMessage, Channel!INSERT_MESSAGE_TYPE, INSERT_MESSAGE_TYPE
    <3>3. CASE ~IsInsert(m)
      <4>1. m = CancelMessage(m.id)
        BY <3>1, <3>3 DEF Message, IsInsert, CancelMessage, INSERT_MESSAGE_TYPE, CANCEL_MESSAGE_TYPE
      <4> QED BY <2>3, <3>3, <4>1 DEF Channel!Send, Channel!cancelOrder, Channel!CurrentLink, Channel!IsInsert, Channel!CancelMessage, IsInsert, CancelMessage, Channel!INSERT_MESSAGE_TYPE, INSERT_MESSAGE_TYPE, Channel!CANCEL_MESSAGE_TYPE, CANCEL_MESSAGE_TYPE
    <3> QED BY <3>2, <3>3
  <2>4. ASSUME NEW m \in Commands, Queue' = Queue,
               lost' = IF IsInsert(m) THEN lost ELSE lost \cup {m.id}
        PROVE  Channel!Send(m, FALSE)
    BY <2>4 DEF Channel!Send, Channel!insertOrder, Channel!cancelOrder, Channel!CurrentLink, Channel!IsInsert, IsInsert, Channel!INSERT_MESSAGE_TYPE, INSERT_MESSAGE_TYPE
  <2> QED BY <2>1, <2>2, <2>3, <2>4, Zenon DEF QueueStep, Channel!Next
<1> QED BY <1>1, <1>2, <1>3, <1>4, PTL DEF Spec, ImplementsOrderChannel
=============================================================================
