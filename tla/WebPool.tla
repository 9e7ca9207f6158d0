------------------------------ MODULE WebPool ------------------------------
(***************************************************************************)
(* The transaction server for web pages (src/src/transServerWeb.c): main   *)
(* accepts connections and queues their sockets (wenq), and each thread of *)
(* a pool takes a socket (wdeq), receives one command from it and queues   *)
(* the command as the other server does: NewUser, with the pool's threads  *)
(* for the connections.                                                    *)
(*                                                                         *)
(* The thread closes a socket that sends nothing, or what is no message;   *)
(* a socket from which a command was queued belongs to the command, whose  *)
(* reply goes there, and is never closed, nor is one whose message was     *)
(* answered at once.  So the process runs out of descriptors; accept then  *)
(* returns -1 again and again, and main queues each -1 like a socket.      *)
(***************************************************************************)
EXTENDS NewUser

CONSTANTS
    MaxOpen,     \* the sockets the process may have open (RLIMIT_NOFILE)
    MaxSockets,  \* bound: the connections of clients
    MaxErrors    \* bound: how often accept fails

ASSUME PoolAssumption ==
    /\ MaxOpen \in Nat /\ MaxSockets \in Nat /\ MaxErrors \in Nat
    /\ MaxSent >= MaxSockets

VARIABLES
    accepted,    \* how many connections accept has returned
    open,        \* the sockets not closed
    waiting,     \* webSockList
    serving,     \* thread -> webSock, from wdeq to cenq
    sender,      \* thread -> the sockets of the commands it has received
    settled,     \* the sockets whose message is no command
    errors       \* how often accept has failed

poolVars == <<accepted, open, waiting, serving, sender, settled, errors>>
webVars == <<newVars, poolVars>>

Sockets == 1 .. MaxSockets
Failed == -1     \* accept's error
None == 0        \* no socket

PoolInit ==
    /\ NewInit
    /\ accepted = 0
    /\ open = {}
    /\ waiting = <<>>
    /\ serving = [c \in Conns |-> None]
    /\ sender = [c \in Conns |-> <<>>]
    /\ settled = {}
    /\ errors = 0
-----------------------------------------------------------------------------
(* main.                                                                   *)

WenqInPlace(s) == waiting' = IF waiting = <<>> THEN <<s>> ELSE [waiting EXCEPT ![Len(waiting)] = s]
Wenq(s) == waiting' = Append(waiting, s)

Accept ==
    /\ accepted < MaxSockets /\ Cardinality(open) < MaxOpen
    /\ accepted' = accepted + 1
    /\ open' = open \cup {accepted'}
    /\ Wenq(accepted')
    /\ UNCHANGED <<newVars, serving, sender, settled, errors>>

(* A client connects when there is no descriptor left.                     *)
AcceptFails ==
    /\ Cardinality(open) = MaxOpen
    /\ errors < MaxErrors
    /\ errors' = errors + 1
    /\ Wenq(Failed)
    /\ UNCHANGED <<newVars, accepted, open, serving, sender, settled>>
-----------------------------------------------------------------------------
(* A thread of the pool.                                                   *)

Wdeq(c) ==
    /\ conn[c] = Idle /\ serving[c] = None
    /\ waiting # <<>>
    /\ serving' = [serving EXCEPT ![c] = Head(waiting)]
    /\ waiting' = Tail(waiting)
    /\ UNCHANGED <<newVars, accepted, open, sender, settled, errors>>

Done(c) == serving[c] # None /\ serving' = [serving EXCEPT ![c] = None]

(* A command: the socket goes with it into the user's queue.               *)
RecvAndClose(c, u) ==
    /\ Done(c) /\ serving[c] # Failed
    /\ Receive(c, u)
    /\ open' = open \ {serving[c]}
    /\ sender' = [sender EXCEPT ![c] = Append(@, serving[c])]
    /\ UNCHANGED <<row, accepted, waiting, settled, errors>>
Recv(c, u) ==
    /\ Done(c) /\ serving[c] # Failed
    /\ Receive(c, u)
    /\ sender' = [sender EXCEPT ![c] = Append(@, serving[c])]
    /\ UNCHANGED <<row, accepted, open, waiting, settled, errors>>

(* recv returns less than 1, or something that has not 2 or 4 fields.      *)
RecvNothing(c) ==
    /\ conn[c] = Idle /\ Done(c)
    /\ open' = open \ {serving[c]}
    /\ UNCHANGED <<newVars, accepted, waiting, sender, settled, errors>>

(* USR, DUMPLOG, another keyword, or a user ID that is not valid.          *)
RecvOther(c) ==
    /\ conn[c] = Idle /\ Done(c) /\ serving[c] # Failed
    /\ settled' = settled \cup {serving[c]}
    /\ UNCHANGED <<newVars, accepted, open, waiting, sender, errors>>

ServerSteps ==
    \/ \E c \in Conns : InsertAcct(c)
    \/ \E t \in Threads : UpdateBal(t)
    \/ OtherSteps /\ UNCHANGED row

PoolNext ==
    \/ Accept \/ AcceptFails
    \/ \E c \in Conns : Wdeq(c) \/ RecvNothing(c) \/ RecvOther(c) \/ \E u \in Users : Recv(c, u)
    \/ ServerSteps /\ UNCHANGED poolVars

PoolSpec == PoolInit /\ [][PoolNext]_webVars

(* Every thread runs, every database answers, and a client that has        *)
(* connected sends a message or closes the connection.  The trigger thread *)
(* holds a user for moments and sleeps 10 seconds after a pass, so it does *)
(* not meet the same walk of the ring at the same user again and again:    *)
(* MaxVisits.                                                              *)
PoolThread(c) ==
    \/ Wdeq(c) \/ RecvNothing(c) \/ RecvOther(c) \/ \E u \in Users : Recv(c, u)
    \/ InsertAcct(c) /\ UNCHANGED poolVars
    \/ (AddUser(c) \/ Loaded(c) \/ Cenq(c) \/ CenqPost(c)) /\ UNCHANGED <<row, poolVars>>
CommandThread(t) ==
    /\ UpdateBal(t) \/ (Thread(t) /\ ~Executed(t) /\ UNCHANGED row)
    /\ UNCHANGED poolVars

FairPoolSpec ==
    /\ PoolSpec
    /\ \A c \in Conns : WF_webVars(PoolThread(c))
    /\ \A t \in Threads : WF_webVars(CommandThread(t))
    /\ WF_webVars((\E u \in Users : TriggerDone(u)) /\ UNCHANGED <<row, poolVars>>)
-----------------------------------------------------------------------------
(* Properties.                                                             *)

(* The socket of a user's command.                                         *)
SocketOf(command) == sender[command.conn][command.n]
Commands == UNION {{u} \X DOMAIN cells[u] : u \in Users}

(* Each socket has one holder: webSockList, a thread of the pool or one    *)
(* command; and it stays open for as long as its holder may use it, which  *)
(* for a command is until it has been executed.                            *)
OneHolder ==
    /\ \A i, j \in DOMAIN waiting : i # j /\ waiting[i] = waiting[j] => waiting[i] = Failed
    /\ \A c, d \in Conns : c # d /\ serving[c] = serving[d] => serving[c] \in {Failed, None}
    /\ \A i \in DOMAIN waiting, c \in Conns : waiting[i] = serving[c] => waiting[i] = Failed
    /\ \A x, y \in Commands :
          SocketOf(cells[x[1]][x[2]]) = SocketOf(cells[y[1]][y[2]]) => x = y
    /\ \A i \in DOMAIN waiting : waiting[i] \in open \cup {Failed}
    /\ \A c \in Conns : serving[c] \in open \cup {Failed, None}
    /\ \A x \in Commands :
          /\ SocketOf(cells[x[1]][x[2]]) \in open
          /\ \A c \in Conns : serving[c] # SocketOf(cells[x[1]][x[2]])

(* A client whose connection was accepted is not forgotten: the thread     *)
(* closes the socket or finds a message that is no command, or the command *)
(* is executed in the end; whatever is in webSockList with it, whoever's *)
(* commands wait, and when accept fails.                                   *)
IsExecuted(s) == \E u \in Users : \E i \in 1 .. start[u] : SocketOf(cells[u][i]) = s
EveryClientServed ==
    \A s \in Sockets : s \in open ~> (s \notin open \/ s \in settled \/ IsExecuted(s))
=============================================================================
