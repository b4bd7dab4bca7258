------------------------------- MODULE Polling -------------------------------
(***************************************************************************)
(* How readNextMessage shares its attention between the two sockets, with  *)
(* traffic that may never end on either.  It tries exec_sock_ first, and   *)
(* info_sock_ only when exec_sock_ had nothing; after each message it is   *)
(* back at exec_sock_.  A message is how many bytes or datagrams it takes  *)
(* from the receive buffers; MarketLink has their contents.                *)
(***************************************************************************)
EXTENDS Naturals

CONSTANTS
  MessageBytes,   \* sizeof(Message): what one read() of exec_sock_ may take
  Backlogs        \* bound: how much may wait on a socket

ASSUME PollingAssumption == MessageBytes \in Nat \ {0} /\ Backlogs \subseteq Nat

VARIABLES
  stage,   \* of the process: starting, running, stopped
  poll,    \* the socket readNextMessage tries next
  exec,    \* bytes waiting on exec_sock_
  info,    \* datagrams waiting on info_sock_
  conn     \* the execution connection

pollingVars == <<stage, poll, exec, info, conn>>

Init == stage = "starting" /\ poll = "exec" /\ exec = 0 /\ info = 0 /\ conn = "none"

(* Up to the call of runLoop.  The login is the only send: it takes the     *)
(* error of a connection that was reset.                                    *)
StartUp ==
  /\ stage = "starting" /\ stage' \in {"starting", "running", "stopped"}
  /\ \/ conn' = conn
     \/ conn = "none" /\ conn' = "open"
     \/ conn = "reset" /\ conn' = "closed"
  /\ UNCHANGED <<poll, exec, info>>

(* A handler may send.  On a connection that was reset the first send takes *)
(* the error, and then, as on one the exchange has closed, SIGPIPE may end  *)
(* the process.                                                             *)
Handle ==
  \/ UNCHANGED <<conn, stage>>
  \/ conn \in {"closed", "reset"} /\ conn' = "closed" /\ stage' \in {"running", "stopped"}

At(socket) == stage = "running" /\ poll = socket

(* Data.  End of file, when conn is closed, returns too but changes nothing *)
(* here: the loop is back at exec_sock_ at once.                            *)
ReadExec ==
  /\ At("exec") /\ exec > 0
  /\ exec' = IF exec < MessageBytes THEN 0 ELSE exec - MessageBytes
  /\ Handle
  /\ UNCHANGED <<poll, info>>

(* Mutant: any error is taken for EWOULDBLOCK. *)
RetryOnError ==
  /\ At("exec") /\ exec = 0 /\ conn = "reset"
  /\ poll' = "info"
  /\ UNCHANGED <<stage, exec, info, conn>>

ReadExecError ==
  /\ At("exec") /\ exec = 0 /\ conn = "reset"
  /\ stage' = "stopped"
  /\ UNCHANGED <<poll, exec, info, conn>>

(* Mutant: exec_sock_ is polled until it has something. *)
RetryExec == At("exec") /\ exec = 0 /\ conn = "open" /\ UNCHANGED pollingVars

ReadExecWouldBlock ==
  /\ At("exec") /\ exec = 0 /\ conn = "open"
  /\ poll' = "info"
  /\ UNCHANGED <<stage, exec, info, conn>>

(* Mutant: info_sock_ is read until it has nothing left. *)
ReadInfoAgain ==
  /\ At("info") /\ info > 0
  /\ info' = info - 1
  /\ Handle
  /\ UNCHANGED <<poll, exec>>

ReadInfo ==
  /\ At("info") /\ info > 0
  /\ info' = info - 1
  /\ poll' = "exec"
  /\ Handle
  /\ UNCHANGED exec

ReadInfoWouldBlock ==
  /\ At("info") /\ info = 0
  /\ poll' = "exec"
  /\ UNCHANGED <<stage, exec, info, conn>>

ReadInfoError ==
  /\ At("info")
  /\ stage' = "stopped"
  /\ UNCHANGED <<poll, exec, info, conn>>

readNextMessage ==
  \/ ReadExec \/ ReadExecError \/ ReadExecWouldBlock
  \/ ReadInfo \/ ReadInfoWouldBlock \/ ReadInfoError

(* EXTERNAL: what arrives, for ever if it likes. *)
ExecArrives ==
  /\ conn = "open" /\ exec' \in Backlogs /\ exec' > exec
  /\ UNCHANGED <<stage, poll, info, conn>>

InfoArrives ==
  /\ info' \in Backlogs /\ info' = info + 1
  /\ UNCHANGED <<stage, poll, exec, conn>>

Disconnect ==
  /\ conn = "open" /\ conn' \in {"closed", "reset"}
  /\ UNCHANGED <<stage, poll, exec, info>>

Next == StartUp \/ readNextMessage \/ ExecArrives \/ InfoArrives \/ Disconnect

SafeSpec == Init /\ [][Next]_pollingVars

(* The loop never sleeps; of the traffic nothing is assumed. *)
Spec == SafeSpec /\ WF_pollingVars(readNextMessage)

-----------------------------------------------------------------------------
(* No flood of book updates keeps readNextMessage from the execution        *)
(* channel: while bytes wait there, it is read again and again.             *)
ExecHandled ==
  <>[](stage = "running" /\ exec > 0) => []<><<ReadExec>>_pollingVars

(* The information channel is second: endless execution traffic starves it, *)
(* and so does end of file.  But it need not wait for more than a pause: if *)
(* on an open connection execution messages stop coming, whatever backlog   *)
(* they left is read and the datagrams that wait are handled, one after the *)
(* other.                                                                   *)
DatagramsHandled ==
  /\ <>[][exec' <= exec]_pollingVars
  /\ <>[](stage = "running" /\ conn = "open" /\ info > 0)
  => []<><<ReadInfo>>_pollingVars

(* A connection that is reset does not leave the trader quoting into it,    *)
(* whatever backlog it left and however many book updates go on coming: the *)
(* program ends, or finds the connection closed.                            *)
ResetStops == (stage = "running" /\ conn = "reset") ~> (stage = "stopped" \/ conn = "closed")
=============================================================================
