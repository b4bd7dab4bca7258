--------------------------- MODULE CommandStream ---------------------------
(***************************************************************************)
(* The bytes that registerTrader, cancelOrder and insertOrder write to     *)
(* exec_sock_, and the exchange cutting them into messages again by their  *)
(* size fields.  send() on the non-blocking socket takes all of a message, *)
(* none of it, or -- a short write -- a part; nothing looks at which.      *)
(***************************************************************************)
EXTENDS Wire

CONSTANTS
  Names, Secrets,   \* what AutoTrader may be constructed with
  Commands,         \* what the executor may send
  Cuts,             \* bound: the lengths at which a write may fall short
  MaxSends          \* bound: commands sent

NameBytes   == 20
SecretBytes == 50

(* The strings fit their fields and have no NUL; numbers are ints. *)
ASSUME StreamAssumption ==
  /\ WordBytes = 4 /\ Cuts \in SUBSET Nat /\ MaxSends \in Nat
  /\ \A s \in Names : s \in Seq(Byte \ {0}) /\ Len(s) <= NameBytes
  /\ \A s \in Secrets : s \in Seq(Byte \ {0}) /\ Len(s) <= SecretBytes
  /\ \A m \in Commands : /\ m \in Message /\ FitsWord(m.id)
                         /\ IsInsert(m) => FitsWord(m.price) /\ FitsWord(m.volume)

VARIABLES
  name, secret,   \* name_ and secret_ of AutoTrader
  registered,     \* has registerTrader run?
  stream,         \* bytes in exec_sock_ the exchange has not read
  lost,           \* ids whose cancel send() did not take at all (history)
  cut,            \* was a write short, or the login refused? (history)
  login,          \* the login as the exchange read it
  sends           \* commands sent so far

vars == <<name, secret, registered, stream, lost, cut, login, sends>>

LOGIN_MESSAGE_SIZE  == 73
CANCEL_MESSAGE_SIZE == 7
INSERT_MESSAGE_SIZE == 17

BodyBytes    == 85   \* the largest member of the union
GOOD_FOR_DAY == 1
SideByte(side) == IF side = BUY THEN 1 ELSE 0

Zeros == [k \in 1 .. BodyBytes |-> 0]

(* What is handed to send(): the first size bytes of a Message that was all *)
(* zeros and now holds body.                                                *)
Frame(size, type, body) ==
  SubSeq(<<size \div 256, size % 256, type>> \o Put(Zeros, 1, body), 1, size)

(* Mutant: the secret before the name. *)
LoginSecretFirst(n, s) ==
  Frame(LOGIN_MESSAGE_SIZE, LOGIN_MESSAGE_TYPE,
        Put(Put(Zeros, NameBytes + 1, s \o <<0>>), 1, n \o <<0>>))

(* snprintf writes the string and a NUL; the name's may fall on the secret, *)
(* which is written next, and the secret's behind what is sent.             *)
LoginBytes(n, s) ==
  Frame(LOGIN_MESSAGE_SIZE, LOGIN_MESSAGE_TYPE,
        Put(Put(Zeros, 1, n \o <<0>>), NameBytes + 1, s \o <<0>>))

CancelBytes(id) == Frame(CANCEL_MESSAGE_SIZE, CANCEL_MESSAGE_TYPE, ToBytes(id))

(* Mutant: without #pragma pack the compiler aligns the price. *)
InsertBytesAligned(id, side, price, volume) ==
  Frame(INSERT_MESSAGE_SIZE, INSERT_MESSAGE_TYPE,
        ToBytes(id) \o <<SideByte(side), 0, 0, 0>> \o ToBytes(price) \o ToBytes(volume)
          \o <<GOOD_FOR_DAY>>)

InsertBytes(id, side, price, volume) ==
  Frame(INSERT_MESSAGE_SIZE, INSERT_MESSAGE_TYPE,
        ToBytes(id) \o <<SideByte(side)>> \o ToBytes(price) \o ToBytes(volume)
          \o <<GOOD_FOR_DAY>>)

-----------------------------------------------------------------------------
(* EXTERNAL: how the exchange reads the stream. *)

FrameSize(s, at) == s[at] * 256 + s[at + 1]

HasFrame(s, at) ==
  /\ at + HeaderBytes - 1 <= Len(s)
  /\ FrameSize(s, at) >= HeaderBytes
  /\ at + FrameSize(s, at) - 1 <= Len(s)

UpToNul(s) ==
  LET nuls == {k \in DOMAIN s : s[k] = 0}
  IN  IF nuls = {} THEN s ELSE SubSeq(s, 1, Min(nuls) - 1)

ReadAsCancel(f) == CancelMessage(Word(f, 4))

ReadAsInsert(f) ==
  InsertMessage(Word(f, 4), IF f[8] = 1 THEN BUY ELSE SELL, Word(f, 9), Word(f, 13))

NotACommand == [type |-> 0]

IsLogin(f) == f[3] = LOGIN_MESSAGE_TYPE /\ Len(f) = LOGIN_MESSAGE_SIZE

Decode(f) ==
  IF f[3] = CANCEL_MESSAGE_TYPE /\ Len(f) = CANCEL_MESSAGE_SIZE THEN ReadAsCancel(f)
  ELSE IF f[3] = INSERT_MESSAGE_TYPE /\ Len(f) = INSERT_MESSAGE_SIZE /\ f[17] = GOOD_FOR_DAY
       THEN ReadAsInsert(f)
  ELSE NotACommand

(* The frames of s, decoded, by where the first begins. *)
Frames(s) ==
  LET frames[at \in 1 .. Len(s) + 1] ==
        IF HasFrame(s, at)
        THEN <<Decode(SubSeq(s, at, at + FrameSize(s, at) - 1))>> \o frames[at + FrameSize(s, at)]
        ELSE << >>
  IN  frames[1]

ReadFrame ==
  LET f == SubSeq(stream, 1, FrameSize(stream, 1))
  IN  /\ HasFrame(stream, 1)
      /\ stream' = SubSeq(stream, Len(f) + 1, Len(stream))
      /\ login' = IF ~IsLogin(f) THEN login
                  ELSE [name   |-> UpToNul(SubSeq(f, 4, 23)),
                        secret |-> UpToNul(SubSeq(f, 24, LOGIN_MESSAGE_SIZE))]
      /\ UNCHANGED <<name, secret, registered, lost, cut, sends>>

-----------------------------------------------------------------------------
NoLogin == [name |-> << >>]

Init ==
  /\ name \in Names /\ secret \in Secrets
  /\ registered = FALSE
  /\ stream = << >> /\ lost = {} /\ cut = FALSE
  /\ login = NoLogin
  /\ sends = 0

(* How many of the bytes send() may take. *)
Taken(bytes) == {0, Len(bytes)} \cup {n \in Cuts : n < Len(bytes)}

registerTrader ==
  LET bytes == LoginBytes(name, secret)
  IN  \E n \in Taken(bytes) :
        /\ ~registered
        /\ registered' = TRUE
        /\ stream' = SubSeq(bytes, 1, n)
        /\ cut' = (cut \/ n # Len(bytes))
        /\ UNCHANGED <<name, secret, lost, login, sends>>

(* send() takes n of the bytes. *)
send(bytes, n) ==
  /\ registered /\ sends < MaxSends
  /\ stream' = stream \o SubSeq(bytes, 1, n)
  /\ cut' = (cut \/ n \in 1 .. Len(bytes) - 1)
  /\ sends' = sends + 1
  /\ UNCHANGED <<name, secret, registered, login>>

cancelOrder(id) ==
  LET bytes == CancelBytes(id)
  IN  \E n \in Taken(bytes) :
        /\ send(bytes, n)
        /\ lost' = IF n = 0 THEN lost \cup {id} ELSE lost

insertOrder(id, side, price, volume) ==
  LET bytes == InsertBytes(id, side, price, volume)
  IN  \E n \in Taken(bytes) : send(bytes, n) /\ UNCHANGED lost

Next ==
  \/ registerTrader
  \/ \E m \in Commands : IF IsInsert(m) THEN insertOrder(m.id, m.side, m.price, m.volume)
                                        ELSE cancelOrder(m.id)
  \/ ReadFrame

Spec == Init /\ [][Next]_vars

-----------------------------------------------------------------------------
TypeOK ==
  /\ name \in Names /\ secret \in Secrets
  /\ registered \in BOOLEAN /\ cut \in BOOLEAN
  /\ stream \in Seq(Byte)
  /\ sends \in 0 .. MaxSends

(* The commands in the stream, as the exchange will read them; the login is *)
(* before them until it is read.                                            *)
Queue ==
  IF cut THEN << >>
  ELSE IF registered /\ login = NoLogin THEN Tail(Frames(stream)) ELSE Frames(stream)

Channel == INSTANCE OrderChannel WITH toExchange <- Queue, LossySends <- TRUE

(* Sizes, packed layout and byte order agree with each other: the stream    *)
(* carries the executor's commands to the exchange unchanged and in order,  *)
(* and a command send() refuses leaves no trace in it.  This is the link    *)
(* that Trading is built on.  It holds if the login is taken, and up to the *)
(* first short write, which puts every later command out of frame.          *)
ImplementsOrderChannel ==
  Channel!LinkInit /\ [][cut' \/ Channel!Next]_<<Queue, lost>>

(* The exchange reads the name and the secret the trader was given, also    *)
(* when one fills its field and its NUL falls outside.  A short write may   *)
(* put a second, garbled login in the stream.                               *)
LoginIntact == ~cut => login \in {NoLogin, [name |-> name, secret |-> secret]}
=============================================================================
