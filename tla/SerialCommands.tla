--------------------------- MODULE SerialCommands ---------------------------
(***************************************************************************)
(* What the command queues of src/src/transServer.c promise a client:      *)
(* every command is executed once, one command at a time for each user,    *)
(* and the commands of one connection for one user in the order sent.      *)
(* Nothing is promised across users, or across connections.                *)
(***************************************************************************)
EXTENDS Integers

CONSTANTS Users, Conns, MaxSent,
    Nothing     \* no command of the user is being executed

VARIABLES
    last,   \* connection -> the number of its last command
    todo,   \* user -> the commands that wait
    doing   \* user -> the command being executed

vars == <<last, todo, doing>>

Command == [conn : Conns, n : 1 .. MaxSent]

Init ==
    /\ last = [c \in Conns |-> 0]
    /\ todo = [u \in Users |-> {}]
    /\ doing = [u \in Users |-> Nothing]

Submit(c, u) ==
    /\ last[c] < MaxSent
    /\ last' = [last EXCEPT ![c] = @ + 1]
    /\ todo' = [todo EXCEPT ![u] = @ \cup {[conn |-> c, n |-> last[c] + 1]}]
    /\ UNCHANGED doing

IsNext(cmd, cmds) == \A other \in cmds : other.conn = cmd.conn => cmd.n <= other.n

Begin(u, cmd) ==
    /\ doing[u] = Nothing
    /\ IsNext(cmd, todo[u])
    /\ doing' = [doing EXCEPT ![u] = cmd]
    /\ todo' = [todo EXCEPT ![u] = @ \ {cmd}]
    /\ UNCHANGED last

End(u) ==
    /\ doing[u] # Nothing
    /\ doing' = [doing EXCEPT ![u] = Nothing]
    /\ UNCHANGED <<last, todo>>

Next ==
    \/ \E c \in Conns, u \in Users : Submit(c, u)
    \/ \E u \in Users : \E cmd \in todo[u] : Begin(u, cmd)
    \/ \E u \in Users : End(u)

Spec == Init /\ [][Next]_vars
=============================================================================
