---------------------------- MODULE CommandQueue ----------------------------
(***************************************************************************)
(* How a user's commands get from the web server's connections to the      *)
(* command threads (src/src/transServer.c: connection_handler, getUser,    *)
(* addUser, cenq, cdeq, and the scan at the top of command_handler).       *)
(*                                                                         *)
(* Every user has a queue of its own and a lock, cUser->busy; the users    *)
(* form a ring, which grows and never shrinks.  A command thread waits for *)
(* the semaphore uList->avail and then walks the ring, for as long as it   *)
(* takes, until it locks a user whose queue is not empty.  The trigger     *)
(* thread takes the same locks.                                            *)
(*                                                                         *)
(* The list of a comm_queue is the sequence of all commands ever queued    *)
(* and the number of those that cdeq has unlinked; "length" is the counter *)
(* of the code, read by the scan without the queue's mutex.  What a        *)
(* command does is the business of module Accounts; here it has a sender   *)
(* and a number.                                                           *)
(***************************************************************************)
EXTENDS Integers, Sequences, FiniteSets

CONSTANTS
    Users, Threads, Conns,
    Trigger,    \* the trigger thread
    Nobody,     \* an unlocked mutex
    MaxSent,    \* bound: the messages a connection sends
    MaxVisits   \* bound: the times the trigger thread locks a user

Command == [conn : Conns, n : 1 .. MaxSent]

ASSUME NamesAssumption ==
    /\ Trigger \notin Threads \cup Conns
    /\ Nobody \notin Threads \cup Conns \cup {Trigger}
    /\ Threads \cap Conns = {}
    /\ Nobody \notin Command

ASSUME FiniteAssumption ==
    IsFiniteSet(Users) /\ IsFiniteSet(Threads) /\ IsFiniteSet(Conns)

ASSUME BoundAssumption == MaxSent \in Nat /\ MaxVisits \in Nat

VARIABLES
    ring,     \* the users in uList, in the order of "next", from uList->curr
    lock,     \* user -> the thread that holds user->busy
    cells,    \* user -> the commands queued so far, oldest first
    start,    \* user -> how many of them cdeq has taken
    length,   \* user -> commList->length
    avail,    \* the semaphore uList->avail
    at,       \* command thread -> where it is
    cur,      \* command thread -> cUser, as a position in the ring
    conn,     \* connection -> where it is, and the user it serves
    sent,     \* connection -> the messages received from it
    visits    \* the times the trigger thread has locked a user

vars == <<ring, lock, cells, start, length, avail, at, cur, conn, sent, visits>>

InRing == {ring[i] : i \in DOMAIN ring}
FollowingPastEnd(i) == i + 1
Following(i) == (i % Len(ring)) + 1
Idle == [pc |-> "recv", user |-> Nobody]
Serving == [pc : {"add", "load", "insert", "cenq", "post"}, user : Users]
Places == {"start", "first", "repost", "wait", "scan", "peek", "run", "leave"}

TypeOK ==
    /\ ring \in Seq(Users)
    /\ lock \in [Users -> Threads \cup Conns \cup {Trigger, Nobody}]
    /\ cells \in [Users -> Seq(Command)]
    /\ start \in [Users -> Nat]
    /\ length \in [Users -> Nat]
    /\ avail \in Nat
    /\ at \in [Threads -> Places]
    /\ cur \in [Threads -> Nat]
    /\ \A t \in Threads : at[t] # "start" => cur[t] \in DOMAIN ring
    /\ conn \in [Conns -> {Idle} \cup Serving]
    /\ sent \in [Conns -> 0 .. MaxSent]
    /\ visits \in 0 .. MaxVisits

Init ==
    /\ ring = <<>>
    /\ lock = [u \in Users |-> Nobody]
    /\ cells = [u \in Users |-> <<>>]
    /\ start = [u \in Users |-> 0]
    /\ length = [u \in Users |-> 0]
    /\ avail = 0
    /\ at = [t \in Threads |-> "start"]
    /\ cur = [t \in Threads |-> 0]
    /\ conn = [c \in Conns |-> Idle]
    /\ sent = [c \in Conns |-> 0]
    /\ visits = 0

-----------------------------------------------------------------------------
(* Connections.                                                            *)

GoTo(c, pc, u) == conn' = [conn EXCEPT ![c] = [pc |-> pc, user |-> u]]

(* recv, and getUser: the user is known, or will have to be added.         *)
Receive(c, u) ==
    /\ conn[c] = Idle
    /\ sent[c] < MaxSent
    /\ sent' = [sent EXCEPT ![c] = @ + 1]
    /\ GoTo(c, IF u \in InRing THEN "cenq" ELSE "add", u)
    /\ UNCHANGED <<ring, lock, cells, start, length, avail, at, cur, visits>>

(* addUser: another connection may have added the user since; if not, the  *)
(* new user goes into the ring, before uList->curr, with its lock held.    *)
AddUser(c) ==
    /\ conn[c].pc = "add"
    /\ LET u == conn[c].user
       IN  IF u \in InRing
           THEN GoTo(c, "insert", u) /\ UNCHANGED <<ring, lock>>
           ELSE /\ ring' = Append(ring, u)
                /\ lock' = [lock EXCEPT ![u] = c]
                /\ GoTo(c, "load", u)
    /\ UNCHANGED <<cells, start, length, avail, at, cur, sent, visits>>

(* The user's rows have been read: addUser returns.                        *)
LoadedAndInserted(c) ==
    /\ conn[c].pc = "load"
    /\ lock' = [lock EXCEPT ![conn[c].user] = Nobody]
    /\ GoTo(c, "cenq", conn[c].user)
    /\ UNCHANGED <<ring, cells, start, length, avail, at, cur, sent, visits>>
Loaded(c) ==
    /\ conn[c].pc = "load"
    /\ lock' = [lock EXCEPT ![conn[c].user] = Nobody]
    /\ GoTo(c, "insert", conn[c].user)
    /\ UNCHANGED <<ring, cells, start, length, avail, at, cur, sent, visits>>

(* insertAcct has run.                                                     *)
Inserted(c) ==
    /\ conn[c].pc = "insert"
    /\ GoTo(c, "cenq", conn[c].user)
    /\ UNCHANGED <<ring, lock, cells, start, length, avail, at, cur, sent, visits>>

(* cenq: the element is linked and counted under the queue's mutex, the    *)
(* semaphore posted after it.                                              *)
CenqInFront(c) ==
    LET u == conn[c].user
    IN  /\ conn[c].pc = "cenq"
        /\ cells' = [cells EXCEPT ![u] = SubSeq(@, 1, start[u]) \o <<[conn |-> c, n |-> sent[c]]>>
                                           \o SubSeq(@, start[u] + 1, Len(@))]
        /\ length' = [length EXCEPT ![u] = @ + 1]
        /\ GoTo(c, "post", u)
        /\ UNCHANGED <<ring, lock, start, avail, at, cur, sent, visits>>
Cenq(c) ==
    LET u == conn[c].user
    IN  /\ conn[c].pc = "cenq"
        /\ cells' = [cells EXCEPT ![u] = Append(@, [conn |-> c, n |-> sent[c]])]
        /\ length' = [length EXCEPT ![u] = @ + 1]
        /\ GoTo(c, "post", u)
        /\ UNCHANGED <<ring, lock, start, avail, at, cur, sent, visits>>

CenqPost(c) ==
    /\ conn[c].pc = "post"
    /\ avail' = avail + 1
    /\ conn' = [conn EXCEPT ![c] = Idle]
    /\ UNCHANGED <<ring, lock, cells, start, length, at, cur, sent, visits>>

-----------------------------------------------------------------------------
(* Command threads.                                                        *)

Jump(t, from, to) == at[t] = from /\ at' = [at EXCEPT ![t] = to]
Here(t) == ring[cur[t]]
Step(t) == cur' = [cur EXCEPT ![t] = Following(@)]
Unlocked(t) == lock' = [lock EXCEPT ![Here(t)] = Nobody]

(* pthread_mutex_trylock(&cUser->busy), and cUser = cUser->next when it    *)
(* fails.                                                                  *)
BlindLock(t, from, to) ==
    /\ lock' = [lock EXCEPT ![Here(t)] = t]
    /\ Jump(t, from, to)
    /\ UNCHANGED <<ring, cells, start, length, avail, cur, conn, sent, visits>>
TryLock(t, from, to) ==
    \/ /\ lock[Here(t)] = Nobody
       /\ lock' = [lock EXCEPT ![Here(t)] = t]
       /\ Jump(t, from, to)
       /\ UNCHANGED <<ring, cells, start, length, avail, cur, conn, sent, visits>>
    \/ /\ lock[Here(t)] # Nobody
       /\ at[t] = from
       /\ Step(t)
       /\ UNCHANGED <<ring, lock, cells, start, length, avail, at, conn, sent, visits>>

(* A new thread borrows a permit until it has a user to start from.        *)
Start(t) ==
    /\ avail > 0
    /\ avail' = avail - 1
    /\ cur' = [cur EXCEPT ![t] = 1]
    /\ Jump(t, "start", "first")
    /\ UNCHANGED <<ring, lock, cells, start, length, conn, sent, visits>>

First(t) == at[t] = "first" /\ TryLock(t, "first", "repost")

RepostNothing(t) ==
    /\ Jump(t, "repost", "leave")
    /\ UNCHANGED <<ring, lock, cells, start, length, avail, cur, conn, sent, visits>>
Repost(t) ==
    /\ Jump(t, "repost", "leave")
    /\ avail' = avail + 1
    /\ UNCHANGED <<ring, lock, cells, start, length, cur, conn, sent, visits>>

(* The top of the loop: unlock the user, go on to the next one.            *)
Leave(t) ==
    /\ Jump(t, "leave", "wait")
    /\ Unlocked(t)
    /\ Step(t)
    /\ UNCHANGED <<ring, cells, start, length, avail, conn, sent, visits>>

Take(t) ==
    /\ avail > 0
    /\ avail' = avail - 1
    /\ Jump(t, "wait", "scan")
    /\ UNCHANGED <<ring, lock, cells, start, length, cur, conn, sent, visits>>

Scan(t) == at[t] = "scan" /\ TryLock(t, "scan", "peek")

(* "if(!cUser->commList->length)": nothing here, try the next one.         *)
MissInPlace(t) ==
    /\ Jump(t, "peek", "scan")
    /\ length[Here(t)] = 0
    /\ Unlocked(t)
    /\ UNCHANGED <<ring, cells, start, length, avail, cur, conn, sent, visits>>
Miss(t) ==
    /\ Jump(t, "peek", "scan")
    /\ length[Here(t)] = 0
    /\ Unlocked(t)
    /\ Step(t)
    /\ UNCHANGED <<ring, cells, start, length, avail, conn, sent, visits>>

(* cdeq, of the first element.                                             *)
CdeqUncounted(t) ==
    LET u == Here(t)
    IN  /\ Jump(t, "peek", "run")
        /\ length[u] # 0
        /\ start' = [start EXCEPT ![u] = @ + 1]
        /\ UNCHANGED <<ring, lock, cells, length, avail, cur, conn, sent, visits>>
Cdeq(t) ==
    LET u == Here(t)
    IN  /\ Jump(t, "peek", "run")
        /\ length[u] # 0
        /\ start' = [start EXCEPT ![u] = @ + 1]
        /\ length' = [length EXCEPT ![u] = @ - 1]
        /\ UNCHANGED <<ring, lock, cells, avail, cur, conn, sent, visits>>

(* The command has been executed.                                          *)
Executed(t) ==
    /\ Jump(t, "run", "leave")
    /\ UNCHANGED <<ring, lock, cells, start, length, avail, cur, conn, sent, visits>>

-----------------------------------------------------------------------------
(* The trigger thread visits users that have triggers, whoever they are.   *)

NotVisiting == \A u \in Users : lock[u] # Trigger
TriggerVisit(u) ==
    /\ NotVisiting /\ visits < MaxVisits
    /\ u \in InRing
    /\ lock[u] = Nobody
    /\ lock' = [lock EXCEPT ![u] = Trigger]
    /\ visits' = visits + 1
    /\ UNCHANGED <<ring, cells, start, length, avail, at, cur, conn, sent>>
TriggerDone(u) ==
    /\ lock[u] = Trigger
    /\ lock' = [lock EXCEPT ![u] = Nobody]
    /\ UNCHANGED <<ring, cells, start, length, avail, at, cur, conn, sent, visits>>

Connection(c) ==
    \/ \E u \in Users : Receive(c, u)
    \/ AddUser(c)
    \/ Loaded(c)
    \/ Inserted(c)
    \/ Cenq(c)
    \/ CenqPost(c)

Thread(t) ==
    \/ Start(t)
    \/ First(t)
    \/ Repost(t)
    \/ Leave(t)
    \/ Take(t)
    \/ Scan(t)
    \/ Miss(t)
    \/ Cdeq(t)
    \/ Executed(t)

TriggerThread == \E u \in Users : TriggerVisit(u) \/ TriggerDone(u)

Next ==
    \/ \E c \in Conns : Connection(c)
    \/ \E t \in Threads : Thread(t)
    \/ TriggerThread

Spec == Init /\ [][Next]_vars
-----------------------------------------------------------------------------
(* Properties.                                                             *)

Backlog == UNION {{u} \X (start[u] + 1 .. Len(cells[u])) : u \in Users}
Holders == {t \in Threads : at[t] \in {"first", "repost", "scan", "peek"}}
Posting == {c \in Conns : conn[c].pc = "post"}

(* A thread that walks the ring has a command to find: the permits left in *)
(* the semaphore, those the threads hold and those cenq has yet to post    *)
(* are as many as the commands waiting in all the queues together.  With   *)
(* one permit more a thread would walk for ever, with one less a command   *)
(* would be forgotten.                                                     *)
PermitsMatch ==
    avail + Cardinality(Holders) + Cardinality(Posting) = Cardinality(Backlog)

(* cdeq returns an element, never NULL, which command_handler would        *)
(* dereference: the counter that is read without the mutex is right.       *)
LengthIsBacklog == \A u \in Users : start[u] + length[u] = Len(cells[u])

(* A user is locked by whoever works on it, so no two threads ever execute *)
(* commands of one user at the same time.                                  *)
OneAtATime ==
    \A t \in Threads : at[t] \in {"repost", "peek", "run", "leave"} => lock[Here(t)] = t

(* The commands a connection sends for a user are queued in the order      *)
(* sent, however long adding the user takes (connection_handler does not   *)
(* receive the next before cenq has returned).                             *)
InOrder ==
    \A u \in Users : \A i, j \in DOMAIN cells[u] :
        i < j /\ cells[u][i].conn = cells[u][j].conn => cells[u][i].n < cells[u][j].n

(* The queues, the locks and the walk together keep the promise of         *)
(* SerialCommands: what a user's commands do is as if one thread did it.   *)
Queued(c) == IF conn[c].pc \in {"recv", "post"} THEN sent[c] ELSE sent[c] - 1
Waiting(u) == {cells[u][i] : i \in start[u] + 1 .. Len(cells[u])}
Executing(u) ==
    IF \E t \in Threads : at[t] = "run" /\ Here(t) = u THEN cells[u][start[u]] ELSE Nobody
Serial == INSTANCE SerialCommands WITH
    Nothing <- Nobody,
    last <- [c \in Conns |-> Queued(c)],
    todo <- [u \in Users |-> Waiting(u)],
    doing <- [u \in Users |-> Executing(u)]
Serialised == Serial!Spec
=============================================================================
