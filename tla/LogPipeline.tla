----------------------------- MODULE LogPipeline -----------------------------
(***************************************************************************)
(* From lenq in a server to the log file: the log threads of the servers   *)
(* (log_handler in src/src/transServer.c, and the same in loadBalancer.c), *)
(* and the log server (src/src/logServer.c).                               *)
(*                                                                         *)
(* A log thread sends one line at a time and keeps it until the log server *)
(* has said "REC"; when the connection breaks it opens another one and     *)
(* sends the line again.  What was on its way in the old connection may    *)
(* still be read by the thread that serves it, even after later lines.     *)
(*                                                                         *)
(* A line is a user's command or another event ("line"), a DUMPLOG to the  *)
(* log file ("dump"), which waits until no user's command has been logged  *)
(* for three seconds, or the DUMPLOG of one user ("user"), which only      *)
(* reads the tree.                                                         *)
(***************************************************************************)
EXTENDS Integers, FiniteSets, Sequences, SequencesExt

CONSTANTS
    Servers,    \* that log
    Limit,      \* 0x10000, the lines kept in memory
    Room,       \* the lines for which outStr, of 0x1000000 bytes, is large enough in any case
    MaxLines,   \* bound: the lines of each server
    MaxBreaks   \* bound: the connections that break

ASSUME ConstantsAssumption ==
    /\ Limit \in Nat /\ Room \in Nat
    /\ MaxLines \in Nat
    /\ MaxBreaks \in Nat

VARIABLES
    made,     \* server -> the kinds of the lines queued so far
    taken,    \* server -> how many its log thread has taken (ldeq)
    holds,    \* server -> whether the thread still holds the last one taken
    up,       \* server -> connected[currLOG]
    wire,     \* server -> what is on its connection
    strays,   \* lines on broken connections, with the number of the break
    breaks,   \* how many connections have broken
    queue,    \* the log server's queue
    recent,   \* whether lastUserCmd is less than three seconds ago
    tree,     \* logRoot
    count,
    file,     \* logOut
    cut,      \* the lines that did not fit into outStr
    dumped,   \* the DUMPLOGs that have written the file
    skipped   \* the DUMPLOGs that have not: of one user, or no file

sendVars == <<made, taken, holds, up, wire, strays, breaks>>
logVars == <<recent, tree, count, file, cut, dumped, skipped>>
vars == <<sendVars, queue, logVars>>

Lines == Servers \X (1 .. MaxLines)
Kind(l) == made[l[1]][l[2]]
Held(s) == <<s, taken[s]>>
Kinds == {"line", "dump", "user"}

TypeOK ==
    /\ \A s \in Servers : made[s] \in Seq(Kinds) /\ Len(made[s]) <= MaxLines
    /\ \A s \in Servers : taken[s] \in 0 .. Len(made[s])
    /\ holds \in [Servers -> BOOLEAN] /\ up \in [Servers -> BOOLEAN]
    /\ wire \in [Servers -> {"none", "line", "REC"}]
    /\ strays \subseteq Lines \X (1 .. MaxBreaks)
    /\ breaks \in 0 .. MaxBreaks
    /\ queue \in Seq(Lines)
    /\ recent \in BOOLEAN
    /\ tree \in Seq(Lines) /\ file \in Seq(Lines)
    /\ count \in Nat /\ Len(tree) <= count
    /\ dumped \subseteq Lines /\ skipped \subseteq Lines /\ cut \subseteq Lines
    /\ \A s \in Servers : (wire[s] # "none" => up[s] /\ holds[s]) /\ (holds[s] => taken[s] > 0)

Init ==
    /\ made = [s \in Servers |-> <<>>]
    /\ taken = [s \in Servers |-> 0]
    /\ holds = [s \in Servers |-> FALSE]
    /\ up = [s \in Servers |-> FALSE]
    /\ wire = [s \in Servers |-> "none"]
    /\ strays = {}
    /\ breaks = 0
    /\ queue = <<>>
    /\ recent = TRUE
    /\ tree = <<>> /\ file = <<>>
    /\ count = 0
    /\ cut = {} /\ dumped = {} /\ skipped = {}

-----------------------------------------------------------------------------
(* A server and its log thread.                                            *)

Lenq(s) ==
    /\ Len(made[s]) < MaxLines
    /\ \E kind \in Kinds : made' = [made EXCEPT ![s] = Append(@, kind)]
    /\ UNCHANGED <<taken, holds, up, wire, strays, breaks, queue, logVars>>

Ldeq(s) ==
    /\ ~holds[s]
    /\ taken[s] < Len(made[s])
    /\ taken' = [taken EXCEPT ![s] = @ + 1]
    /\ holds' = [holds EXCEPT ![s] = TRUE]
    /\ UNCHANGED <<made, up, wire, strays, breaks, queue, logVars>>

Connect(s) ==
    /\ holds[s] /\ ~up[s]
    /\ up' = [up EXCEPT ![s] = TRUE]
    /\ UNCHANGED <<made, taken, holds, wire, strays, breaks, queue, logVars>>

Send(s) ==
    /\ holds[s] /\ up[s] /\ wire[s] = "none"
    /\ wire' = [wire EXCEPT ![s] = "line"]
    /\ UNCHANGED <<made, taken, holds, up, strays, breaks, queue, logVars>>

(* recv has read "REC".                                                    *)
Recv(s) ==
    /\ wire[s] = "REC"
    /\ wire' = [wire EXCEPT ![s] = "none"]
    /\ holds' = [holds EXCEPT ![s] = FALSE]
    /\ UNCHANGED <<made, taken, up, strays, breaks, queue, logVars>>

(* send or recv fails: the socket is closed.  The line may be lost with it *)
(* or wait to be read, the REC is lost.                                    *)
BreakDropsLine(s) ==
    /\ up[s] /\ breaks < MaxBreaks
    /\ breaks' = breaks + 1
    /\ up' = [up EXCEPT ![s] = FALSE]
    /\ holds' = [holds EXCEPT ![s] = FALSE]
    /\ wire' = [wire EXCEPT ![s] = "none"]
    /\ UNCHANGED <<made, taken, strays, queue, logVars>>
Break(s) ==
    /\ up[s] /\ breaks < MaxBreaks
    /\ breaks' = breaks + 1
    /\ up' = [up EXCEPT ![s] = FALSE]
    /\ wire' = [wire EXCEPT ![s] = "none"]
    /\ \/ strays' = strays
       \/ wire[s] = "line" /\ strays' = strays \cup {<<Held(s), breaks + 1>>}
    /\ UNCHANGED <<made, taken, holds, queue, logVars>>
-----------------------------------------------------------------------------
(* The log server's connection threads.                                    *)

ReceiveAtHead(s) ==
    /\ wire[s] = "line"
    /\ queue' = <<Held(s)>> \o queue
    /\ wire' = [wire EXCEPT ![s] = "REC"]
    /\ UNCHANGED <<made, taken, holds, up, strays, breaks, logVars>>
Receive(s) ==
    /\ wire[s] = "line"
    /\ queue' = Append(queue, Held(s))
    /\ wire' = [wire EXCEPT ![s] = "REC"]
    /\ UNCHANGED <<made, taken, holds, up, strays, breaks, logVars>>

ReceiveStray ==
    \E stray \in strays :
        /\ strays' = strays \ {stray}
        /\ queue' = Append(queue, stray[1])
        /\ UNCHANGED <<made, taken, holds, up, wire, breaks, logVars>>
-----------------------------------------------------------------------------
(* The log server's log thread.                                            *)

Take(kind) == queue # <<>> /\ Kind(Head(queue)) = kind

(* The tree goes to the end of the file by way of outStr, which takes all  *)
(* of it or, when the lines are many and long, the first of them.          *)
Flush(lines) ==
    /\ \E fits \in {Len(lines)} \cup Room .. Len(lines) :
          /\ file' = file \o SubSeq(lines, 1, fits)
          /\ cut' = cut \cup ToSet(SubSeq(lines, fits + 1, Len(lines)))
    /\ tree' = <<>> /\ count' = 0

(* After any line but a DUMPLOG that is done or put back: when there have  *)
(* been too many the file takes the tree, if it can be opened.             *)
Settle(lines) ==
    \/ count + 1 > Limit /\ Flush(lines)
    \/ tree' = lines /\ count' = count + 1 /\ UNCHANGED <<file, cut>>

(* Of the lines, the users' commands set lastUserCmd.                      *)
Record ==
    /\ Take("line")
    /\ queue' = Tail(queue)
    /\ recent' \in {recent, TRUE}
    /\ Settle(Append(tree, Head(queue)))
    /\ UNCHANGED <<sendVars, dumped, skipped>>

(* To the end of the queue, until the users are quiet.                     *)
PostponeForgets ==
    /\ Take("dump") /\ recent
    /\ queue' = Tail(queue)
    /\ UNCHANGED <<sendVars, logVars>>
Postpone ==
    /\ Take("dump") /\ recent
    /\ queue' = Append(Tail(queue), Head(queue))
    /\ UNCHANGED <<sendVars, logVars>>

DumpTreeOnly ==
    /\ Take("dump") /\ ~recent
    /\ queue' = Tail(queue)
    /\ dumped' = dumped \cup {Head(queue)}
    /\ tree' = <<>> /\ count' = 0
    /\ UNCHANGED <<sendVars, recent, file, cut, skipped>>
Dump ==
    /\ Take("dump") /\ ~recent
    /\ queue' = Tail(queue)
    /\ dumped' = dumped \cup {Head(queue)}
    /\ Flush(tree)
    /\ UNCHANGED <<sendVars, recent, skipped>>

(* Nothing is written to logOut for it: the file does not open, or it is  *)
(* the DUMPLOG of one user, written to a file of its own.                  *)
DumpElsewhere ==
    /\ (Take("dump") /\ ~recent) \/ Take("user")
    /\ queue' = Tail(queue)
    /\ skipped' = skipped \cup {Head(queue)}
    /\ Settle(tree)
    /\ UNCHANGED <<sendVars, recent, dumped>>

(* Three seconds without a user's command.                                 *)
Quiet ==
    /\ recent /\ recent' = FALSE
    /\ UNCHANGED <<sendVars, queue, tree, count, file, cut, dumped, skipped>>

LogStep == Record \/ Postpone \/ Dump \/ DumpElsewhere

Next ==
    \/ \E s \in Servers :
          Lenq(s) \/ Ldeq(s) \/ Connect(s) \/ Send(s) \/ Recv(s) \/ Break(s) \/ Receive(s)
    \/ ReceiveStray \/ LogStep \/ Quiet

Spec == Init /\ [][Next]_vars

(* Threads run, and when users are quiet, three seconds pass.              *)
FairSpec ==
    /\ Spec
    /\ \A s \in Servers :
          WF_vars(Ldeq(s)) /\ WF_vars(Connect(s)) /\ WF_vars(Send(s) \/ Recv(s) \/ Receive(s))
    /\ WF_vars(LogStep) /\ WF_vars(Quiet)
-----------------------------------------------------------------------------
(* Properties.                                                             *)

Kept == queue \o tree \o file
Copies(l) == Cardinality({i \in DOMAIN Kept : Kept[i] = l})
Sent(s) == {n \in 1 .. taken[s] : ~(n = taken[s] /\ holds[s])}

(* A line that the log thread frees is at the log server, whatever         *)
(* connections have broken, but for the lines that outStr was too small    *)
(* for when the tree was written.                                          *)
NothingLost ==
    \A s \in Servers : \A n \in Sent(s) :
        Copies(<<s, n>>) > 0 \/ <<s, n>> \in dumped \cup skipped \cup cut

(* Each server's lines are recorded once and in its order, but for a line  *)
(* that is sent again, which a broken connection costs: one for each.      *)
InOrder ==
    LET recorded == file \o tree
    IN  /\ \A l \in Lines : Copies(l) <= 1 + breaks
        /\ breaks = 0 =>
              \A i, j \in DOMAIN recorded :
                  i < j /\ recorded[i][1] = recorded[j][1] => recorded[i][2] < recorded[j][2]

(* "Exports the current node structure" (line 497): a dump that a server   *)
(* has asked for contains all that this server has logged before it, but   *)
(* for what outStr was too small for.                                      *)
DumpIsComplete ==
    \A d \in dumped : \A n \in 1 .. d[2] - 1 :
        made[d[1]][n] = "line" => <<d[1], n>> \in ToSet(file) \cup cut

(* Every dump comes to its turn, once the users are quiet.                 *)
EveryDumpEnds ==
    \A l \in Lines :
        (l[2] <= Len(made[l[1]]) /\ made[l[1]][l[2]] = "dump") ~> l \in dumped \cup skipped
=============================================================================
