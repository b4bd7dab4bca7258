-------------------------- MODULE MCCommandStream --------------------------
(* Names and secrets that are short, empty or fill their field; commands    *)
(* with ids and prices of one to four bytes, a negative price among them.   *)
EXTENDS CommandStream

Text(char, length) == [k \in 1 .. length |-> char]

MCNames   == {Text(97, 4), Text(98, NameBytes)}
MCSecrets == {<< >>, Text(112, 8), Text(113, SecretBytes)}

MCCommands == {CancelMessage(2), CancelMessage(70000),
               InsertMessage(3, BUY, -100, 10), InsertMessage(20000000, SELL, 1000100, 10)}
=============================================================================
