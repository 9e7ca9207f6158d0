------------------------------ MODULE NewUser ------------------------------
(***************************************************************************)
(* The first commands of a new user, and the user's row in the accounts    *)
(* table (src/src/transServer.c: connection_handler inserts the row after  *)
(* addUser has put the user into the tree and the ring, where any other    *)
(* connection finds it).                                                   *)
(*                                                                         *)
(* CommandQueue with that row.  Every command here is an ADD of one cent,  *)
(* so the balance in memory is the number of commands executed; updateBal  *)
(* writes the balance, not the difference, and changes nothing when there  *)
(* is no row.                                                              *)
(***************************************************************************)
EXTENDS CommandQueue

VARIABLE row    \* user -> the balance in the user's row

NoRow == -1
newVars == <<vars, row>>

NewInit == Init /\ row = [u \in Users |-> NoRow]

(* INSERT INTO accounts ... SELECT ..., 0.00 WHERE NOT EXISTS              *)
InsertAcct(c) ==
    /\ Inserted(c)
    /\ row' = [row EXCEPT ![conn[c].user] = IF @ = NoRow THEN 0 ELSE @]

(* UPDATE accounts SET balance = ...                                       *)
UpdateBal(t) ==
    /\ Executed(t)
    /\ row' = [row EXCEPT ![Here(t)] = IF @ = NoRow THEN NoRow ELSE start[Here(t)]]

OtherSteps ==
    \/ \E c \in Conns : AddUser(c) \/ Loaded(c) \/ Cenq(c) \/ CenqPost(c)
    \/ \E t \in Threads : \/ Start(t) \/ First(t) \/ Repost(t) \/ Leave(t)
                          \/ Take(t) \/ Scan(t) \/ Miss(t) \/ Cdeq(t)
    \/ TriggerThread

NewNext ==
    \/ \E c \in Conns : InsertAcct(c)
    \/ \E t \in Threads : UpdateBal(t)
    \/ (OtherSteps \/ \E c \in Conns, u \in Users : Receive(c, u)) /\ UNCHANGED row

NewSpec == NewInit /\ [][NewNext]_newVars
-----------------------------------------------------------------------------
(* "Update users current balance by the amount specified in the command."  *)
(* (transServer.c:890): when nobody works on a user that has executed      *)
(* commands and nobody is adding the user, the row holds the balance.      *)
Quiet(u) ==
    /\ lock[u] = Nobody
    /\ \A c \in Conns : conn[c].user = u => conn[c].pc \notin {"add", "load", "insert"}
RowIsRight(u) == Quiet(u) /\ start[u] > 0 => row[u] = start[u]
=============================================================================
