------------------------------ MODULE Workload ------------------------------
(***************************************************************************)
(* The workload generator (src/src/Workload.c) and the server it drives    *)
(* (NewUser).  main reads a script, hashes the user of each line to one of *)
(* NUM_THREADS threads (userSort) and queues the line for it (cenq); each  *)
(* thread takes its lines (cdeq), sends one over its own connection and    *)
(* waits for the server's REC before the next.  At the end main queues a   *)
(* NULL for one thread after the other and joins it.                       *)
(*                                                                         *)
(* The server takes what has come with one recv and reads the first string *)
(* of it; a DUMPLOG goes to the log and to no queue.  A connection may     *)
(* break: the thread ends at its next send or recv, and what was queued    *)
(* for it is never sent.                                                   *)
(***************************************************************************)
EXTENDS NewUser

CONSTANTS
    DumpLog,   \* a line that dumps the whole log: it names a file, not a user
    Sum,       \* user -> the sum userSort makes of the letters of the name
    Lines,     \* how long a script is
    Scripts,   \* the scripts
    MaxBreaks  \* bound: the connections that break

NUM_THREADS == Cardinality(Conns)

ASSUME WorkloadAssumption ==
    /\ DumpLog \notin Users
    /\ Sum \in [Users -> Nat]
    /\ Conns # {} /\ Conns = 0 .. NUM_THREADS - 1
    /\ Scripts \subseteq [1 .. Lines -> Users \cup {DumpLog}]
    /\ Lines \in Nat /\ MaxSent >= Lines /\ MaxBreaks \in Nat

VARIABLES
    script,    \* the lines of the file
    read,      \* how many of them main has queued
    closed,    \* how many threads main has queued a NULL for
    todo,      \* thread -> its queue of lines
    state,     \* thread -> where it is
    inbox,     \* connection -> the lines sent and not received
    reply,     \* connection -> whether there is a REC to receive
    broken,    \* connection -> whether it is broken
    received,  \* connection -> the commands the server has received
    dumped     \* the DUMPLOG lines the server has sent to its log

clientVars == <<script, read, closed, todo, state>>
lineVars == <<inbox, reply, broken>>
serverVars == <<received, dumped>>
loadVars == <<newVars, clientVars, lineVars, serverVars>>

TheEnd == 0   \* a NULL in the queue

WorkloadInit ==
    /\ NewInit
    /\ script \in Scripts
    /\ read = 0 /\ closed = 0
    /\ todo = [c \in Conns |-> <<>>]
    /\ state = [c \in Conns |-> "cdeq"]
    /\ inbox = [c \in Conns |-> <<>>]
    /\ reply = [c \in Conns |-> FALSE]
    /\ broken = [c \in Conns |-> FALSE]
    /\ received = [c \in Conns |-> <<>>]
    /\ dumped = {}
-----------------------------------------------------------------------------
(* main.                                                                   *)

(* The name of a file begins with a character that userSort returns 0 for. *)
UserSort(name) == IF name = DumpLog THEN 0 ELSE Sum[name] % NUM_THREADS

ThreadOf(line) == UserSort(script[line])

Queue(c, line) == todo' = [todo EXCEPT ![c] = Append(@, line)]

ReadLine ==
    /\ read < Lines
    /\ read' = read + 1
    /\ Queue(ThreadOf(read'), read')
    /\ UNCHANGED <<newVars, script, closed, state, lineVars, serverVars>>

(* The threads below "closed" have ended: pthread_join has returned.       *)
HasEnded(c) == state[c] \in {"ended", "dead"}
Close ==
    /\ read = Lines /\ closed < NUM_THREADS
    /\ closed > 0 => HasEnded(closed - 1)
    /\ Queue(closed, TheEnd)
    /\ closed' = closed + 1
    /\ UNCHANGED <<newVars, script, read, state, lineVars, serverVars>>
-----------------------------------------------------------------------------
(* comm_handler.                                                           *)

Becomes(c, from, to) == state[c] = from /\ state' = [state EXCEPT ![c] = to]
Dequeue(c) == todo[c] # <<>> /\ todo' = [todo EXCEPT ![c] = Tail(@)]

SendAhead(c) ==
    /\ Becomes(c, "cdeq", "cdeq") /\ Dequeue(c)
    /\ Head(todo[c]) # TheEnd /\ ~broken[c]
    /\ inbox' = [inbox EXCEPT ![c] = Append(@, Head(todo[c]))]
    /\ UNCHANGED <<newVars, script, read, closed, reply, broken, serverVars>>
Send(c) ==
    /\ Becomes(c, "cdeq", "recv") /\ Dequeue(c)
    /\ Head(todo[c]) # TheEnd /\ ~broken[c]
    /\ inbox' = [inbox EXCEPT ![c] = Append(@, Head(todo[c]))]
    /\ UNCHANGED <<newVars, script, read, closed, reply, broken, serverVars>>
SendFails(c) ==
    /\ Becomes(c, "cdeq", "dead") /\ Dequeue(c)
    /\ Head(todo[c]) # TheEnd /\ broken[c]
    /\ UNCHANGED <<newVars, script, read, closed, lineVars, serverVars>>

RecvReply(c) ==
    /\ Becomes(c, "recv", "cdeq")
    /\ reply[c] /\ reply' = [reply EXCEPT ![c] = FALSE]
    /\ UNCHANGED <<newVars, script, read, closed, todo, inbox, broken, serverVars>>
RecvRetries(c) ==
    /\ Becomes(c, "recv", "recv")
    /\ broken[c] /\ ~reply[c]
    /\ UNCHANGED <<newVars, script, read, closed, todo, lineVars, serverVars>>
RecvFails(c) ==
    /\ Becomes(c, "recv", "dead")
    /\ broken[c] /\ ~reply[c]
    /\ UNCHANGED <<newVars, script, read, closed, todo, lineVars, serverVars>>

Finish(c) ==
    /\ Becomes(c, "cdeq", "ended") /\ Dequeue(c)
    /\ Head(todo[c]) = TheEnd
    /\ UNCHANGED <<newVars, script, read, closed, lineVars, serverVars>>

(* What is on its way either way may arrive all the same.                  *)
Break(c) ==
    /\ ~broken[c] /\ Cardinality({d \in Conns : broken[d]}) < MaxBreaks
    /\ broken' = [broken EXCEPT ![c] = TRUE]
    /\ \E arrives \in BOOLEAN : inbox' = IF arrives THEN inbox ELSE [inbox EXCEPT ![c] = <<>>]
    /\ \E arrives \in BOOLEAN : reply' = [reply EXCEPT ![c] = @ /\ arrives]
    /\ UNCHANGED <<newVars, clientVars, serverVars>>
-----------------------------------------------------------------------------
(* The server: one recv takes all that has come and handles the first      *)
(* line.  REC goes out before anything else happens.                       *)

TakesAll(c) ==
    /\ conn[c] = Idle /\ inbox[c] # <<>>
    /\ inbox' = [inbox EXCEPT ![c] = <<>>]
    /\ reply' = [reply EXCEPT ![c] = ~broken[c]]

ServeCommand(c) ==
    /\ TakesAll(c)
    /\ script[Head(inbox[c])] # DumpLog
    /\ Receive(c, script[Head(inbox[c])])
    /\ received' = [received EXCEPT ![c] = Append(@, Head(inbox[c]))]
    /\ UNCHANGED <<row, clientVars, broken, dumped>>
ServeDump(c) ==
    /\ TakesAll(c)
    /\ script[Head(inbox[c])] = DumpLog
    /\ dumped' = dumped \cup {Head(inbox[c])}
    /\ UNCHANGED <<newVars, clientVars, broken, received>>

Main == ReadLine \/ Close
CommHandler(c) == Send(c) \/ SendFails(c) \/ RecvReply(c) \/ RecvFails(c) \/ Finish(c)
ConnectionHandler(c) ==
    \/ ServeCommand(c) \/ ServeDump(c)
    \/ InsertAcct(c) /\ UNCHANGED <<clientVars, lineVars, serverVars>>
    \/ /\ AddUser(c) \/ Loaded(c) \/ Cenq(c) \/ CenqPost(c)
       /\ UNCHANGED <<row, clientVars, lineVars, serverVars>>
CommandHandler(t) ==
    /\ UpdateBal(t) \/ (Thread(t) /\ ~Executed(t) /\ UNCHANGED row)
    /\ UNCHANGED <<clientVars, lineVars, serverVars>>

WorkloadNext ==
    \/ Main
    \/ \E c \in Conns : CommHandler(c) \/ Break(c) \/ ConnectionHandler(c)
    \/ \E t \in Threads : CommandHandler(t)
    \/ TriggerThread /\ UNCHANGED <<row, clientVars, lineVars, serverVars>>

WorkloadSpec == WorkloadInit /\ [][WorkloadNext]_loadVars

(* Threads run, on both sides, and the trigger thread gives a user back.   *)
FairWorkload ==
    /\ WorkloadSpec
    /\ WF_loadVars(Main)
    /\ \A c \in Conns : WF_loadVars(CommHandler(c)) /\ WF_loadVars(ConnectionHandler(c))
    /\ \A t \in Threads : WF_loadVars(CommandHandler(t))
    /\ WF_loadVars((\E u \in Users : TriggerDone(u))
                     /\ UNCHANGED <<row, clientVars, lineVars, serverVars>>)
-----------------------------------------------------------------------------
(* Properties.                                                             *)

LineOf(command) == received[command.conn][command.n]
QueuedLines(u) == [i \in DOMAIN cells[u] |-> LineOf(cells[u][i])]

(* The server has a user's commands in the order of the script, with none  *)
(* left out between two, whatever breaks; and when it comes to a DUMPLOG,  *)
(* the commands that the same thread had before it are in their queues.    *)
KeepsScript ==
    /\ \A u \in Users : \A i \in DOMAIN cells[u] :
          /\ script[QueuedLines(u)[i]] = u
          /\ \A line \in 1 .. QueuedLines(u)[i] - 1 :
                script[line] = u => \E j \in 1 .. i - 1 : QueuedLines(u)[j] = line
    /\ \A d \in dumped : \A line \in 1 .. d - 1 :
          ThreadOf(line) = ThreadOf(d) /\ script[line] # DumpLog =>
              \E i \in DOMAIN cells[script[line]] : QueuedLines(script[line])[i] = line

(* Since all of a user's commands come over one connection, the user's row *)
(* is there before the first of them runs and follows the balance.         *)
RowsAreRight == \A u \in Users : RowIsRight(u)

(* Every line of the script is executed, or reaches the log, unless its    *)
(* thread's connection breaks; and main comes to its end all the same.     *)
Handled(line) ==
    \/ line \in dumped
    \/ \E u \in Users : \E i \in 1 .. start[u] : QueuedLines(u)[i] = line
EveryLineExecuted ==
    /\ \A line \in 1 .. Lines : <>(Handled(line) \/ broken[ThreadOf(line)])
    /\ <>(closed = NUM_THREADS /\ HasEnded(NUM_THREADS - 1))
=============================================================================
