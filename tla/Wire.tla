-------------------------------- MODULE Wire --------------------------------
(***************************************************************************)
(* The bytes of a struct Message: 3 header bytes (size, type), then the    *)
(* packed fields, integers in network order.                               *)
(***************************************************************************)
EXTENDS Messages, SequencesExt

CONSTANT WordBytes   \* sizeof(int): 4 in the code

ASSUME WireAssumption == WordBytes \in Nat \ {0}

HeaderBytes == 3

Byte == 0 .. 255

(* n >> 8 * k for the bytes of a word. *)
Shifted(n) ==
  LET shift[k \in 0 .. WordBytes] == IF k = 0 THEN n ELSE shift[k - 1] \div 256
  IN  shift

(* n is an int. *)
FitsWord(n) == n \in Int /\ Shifted(n)[WordBytes - 1] \in -128 .. 127

(* Mutant: the higher bits are not masked off. *)
ToBytesUnmasked(n) == [k \in 1 .. WordBytes |-> Shifted(n)[WordBytes - k]]

(* htonl. *)
ToBytes(n) == [k \in 1 .. WordBytes |-> Shifted(n)[WordBytes - k] % 256]

(* Mutant: ntohl is missing. *)
WordHostOrder(b, at) ==
  LET value[k \in 0 .. WordBytes] ==
        IF k = 0 THEN IF b[at + WordBytes - 1] < 128 THEN 0 ELSE -1
                 ELSE value[k - 1] * 256 + b[at + WordBytes - k]
  IN  value[WordBytes]

(* ntohl, and the conversion to int: the first byte has the sign. *)
Word(b, at) ==
  LET value[k \in 0 .. WordBytes] ==
        IF k = 0 THEN IF b[at] < 128 THEN 0 ELSE -1
                 ELSE value[k - 1] * 256 + b[at + k - 1]
  IN  value[WordBytes]

(* b with bytes written over it from index at on. *)
Put(b, at, bytes) ==
  [k \in DOMAIN b |-> IF at <= k /\ k < at + Len(bytes) THEN bytes[k - at + 1] ELSE b[k]]
=============================================================================
