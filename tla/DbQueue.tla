------------------------------- MODULE DbQueue -------------------------------
(***************************************************************************)
(* How a thread gets its SQL statements executed (src/src/transServer.c:   *)
(* dbenq, dbdeq, dbWrite_handler; dbRead_handler is the same loop on a     *)
(* queue of its own).                                                      *)
(*                                                                         *)
(* The requester (a command thread, the trigger thread or a connection)    *)
(* writes the statements into its one buffer, dbStr, and queues an element *)
(* that points to the buffer and to its semaphore "returned".  A writer    *)
(* executes what the buffer holds, through a connection that may break,    *)
(* puts its own semaphore into the element, posts the requester's, and     *)
(* waits for the requester's answer before it frees the element and the    *)
(* result.                                                                 *)
(*                                                                         *)
(* PostgreSQL is external: a bundle of statements is executed as a whole   *)
(* or not at all, and when the connection breaks under it the writer does  *)
(* not learn which.                                                        *)
(***************************************************************************)
EXTENDS Integers, Sequences, FiniteSets

CONSTANTS
    Requesters, Writers,
    NoWriter,     \* element->srcReturned before a writer sets it
    MaxRequests,  \* bound: the requests of a requester
    MaxDrops      \* bound: the connections that break

ASSUME ConstantsAssumption ==
    /\ IsFiniteSet(Writers)
    /\ NoWriter \notin Writers
    /\ MaxRequests \in Nat
    /\ MaxDrops \in Nat

VARIABLES
    cells,   \* the elements queued so far
    taken,   \* how many of them dbdeq has unlinked
    freed,   \* the elements freed
    length,  \* the semaphore dbWq->length
    stage,   \* requester -> where it is
    mine,    \* requester -> dbResp, as a position in cells
    buf,     \* requester -> the number of the statements in its buffer
    dest,    \* requester -> its semaphore
    at,      \* writer -> where it is
    elem,    \* writer -> dbWrite, as a position in cells
    src,     \* writer -> its semaphore
    up,      \* writer -> whether its connection is up
    ran,     \* requester -> statements -> the times they were executed
    drops    \* the connections that broke

vars == <<cells, taken, freed, length, stage, mine, buf, dest, at, elem, src, up, ran, drops>>

Stages == {"work", "ready", "asked", "told"}
Places == {"idle", "taking", "exec", "answer", "wait"}
Element == [who : Requesters, src : Writers \cup {NoWriter}]

TypeOK ==
    /\ cells \in Seq(Element)
    /\ taken \in 0 .. Len(cells)
    /\ freed \subseteq 1 .. taken
    /\ length \in Nat
    /\ stage \in [Requesters -> Stages]
    /\ mine \in [Requesters -> Nat]
    /\ buf \in [Requesters -> 0 .. MaxRequests]
    /\ dest \in [Requesters -> Nat]
    /\ at \in [Writers -> Places]
    /\ elem \in [Writers -> Nat]
    /\ src \in [Writers -> Nat]
    /\ up \in [Writers -> BOOLEAN]
    /\ ran \in [Requesters -> [1 .. MaxRequests -> Nat]]
    /\ drops \in 0 .. MaxDrops

Init ==
    /\ cells = <<>>
    /\ taken = 0
    /\ freed = {}
    /\ length = 0
    /\ stage = [r \in Requesters |-> "work"]
    /\ mine = [r \in Requesters |-> 0]
    /\ buf = [r \in Requesters |-> 0]
    /\ dest = [r \in Requesters |-> 0]
    /\ at = [w \in Writers |-> "idle"]
    /\ elem = [w \in Writers |-> 0]
    /\ src = [w \in Writers |-> 0]
    /\ up = [w \in Writers |-> TRUE]
    /\ ran = [r \in Requesters |-> [n \in 1 .. MaxRequests |-> 0]]
    /\ drops = 0

Moves(r, from, to) == stage[r] = from /\ stage' = [stage EXCEPT ![r] = to]
Jump(w, from, to) == at[w] = from /\ at' = [at EXCEPT ![w] = to]

-----------------------------------------------------------------------------
(* Requesters.                                                             *)

(* sprintf into dbStr.                                                     *)
Prepare(r) ==
    /\ buf[r] < MaxRequests
    /\ Moves(r, "work", "ready")
    /\ buf' = [buf EXCEPT ![r] = @ + 1]
    /\ UNCHANGED <<cells, taken, freed, length, mine, dest, at, elem, src, up, ran, drops>>

DbenqTwice(r) ==
    /\ Moves(r, "ready", "asked")
    /\ cells' = Append(cells, [who |-> r, src |-> NoWriter])
    /\ length' = length + 2
    /\ mine' = [mine EXCEPT ![r] = Len(cells) + 1]
    /\ UNCHANGED <<taken, freed, buf, dest, at, elem, src, up, ran, drops>>
Dbenq(r) ==
    /\ Moves(r, "ready", "asked")
    /\ cells' = Append(cells, [who |-> r, src |-> NoWriter])
    /\ length' = length + 1
    /\ mine' = [mine EXCEPT ![r] = Len(cells) + 1]
    /\ UNCHANGED <<taken, freed, buf, dest, at, elem, src, up, ran, drops>>

(* sem_wait(dbResp->destReturned)                                          *)
Told(r) ==
    /\ dest[r] > 0
    /\ Moves(r, "asked", "told")
    /\ dest' = [dest EXCEPT ![r] = @ - 1]
    /\ UNCHANGED <<cells, taken, freed, length, mine, buf, at, elem, src, up, ran, drops>>

(* sem_post(dbResp->srcReturned)                                           *)
ReleaseNothing(r) ==
    /\ Moves(r, "told", "work")
    /\ UNCHANGED <<cells, taken, freed, length, mine, buf, dest, at, elem, src, up, ran, drops>>
Release(r) ==
    /\ Moves(r, "told", "work")
    /\ src' = [src EXCEPT ![cells[mine[r]].src] = @ + 1]
    /\ UNCHANGED <<cells, taken, freed, length, mine, buf, dest, at, elem, up, ran, drops>>

-----------------------------------------------------------------------------
(* Writers.                                                                *)

Owner(w) == cells[elem[w]].who

(* dbdeq: sem_wait(q->length), and then the first element, if there is one *)
(* (the handler would dereference the NULL returned if there is none).     *)
WaitLength(w) ==
    /\ length > 0
    /\ Jump(w, "idle", "taking")
    /\ length' = length - 1
    /\ UNCHANGED <<cells, taken, freed, stage, mine, buf, dest, elem, src, up, ran, drops>>

Dbdeq(w) ==
    /\ taken < Len(cells)
    /\ Jump(w, "taking", "exec")
    /\ taken' = taken + 1
    /\ elem' = [elem EXCEPT ![w] = taken + 1]
    /\ UNCHANGED <<cells, freed, length, stage, mine, buf, dest, src, up, ran, drops>>

Reconnect(w) ==
    /\ at[w] = "exec"
    /\ ~up[w]
    /\ up' = [up EXCEPT ![w] = TRUE]
    /\ UNCHANGED <<cells, taken, freed, length, stage, mine, buf, dest, at, elem, src, ran, drops>>

(* PQexec executes what the owner's buffer holds now.                      *)
Executes(w) == ran' = [ran EXCEPT ![Owner(w)][buf[Owner(w)]] = @ + 1]

ExecNeverOK(w) ==
    /\ at[w] = "exec"
    /\ up[w]
    /\ Executes(w)
    /\ UNCHANGED <<cells, taken, freed, length, stage, mine, buf, dest, at, elem, src, up, drops>>
Exec(w) ==
    /\ up[w]
    /\ Jump(w, "exec", "answer")
    /\ Executes(w)
    /\ UNCHANGED <<cells, taken, freed, length, stage, mine, buf, dest, elem, src, up, drops>>

(* The connection breaks, before or after the statements were executed:    *)
(* the result is an error, and the loop starts over.                       *)
ExecGivesUp(w) ==
    /\ at[w] = "exec"
    /\ up[w]
    /\ drops < MaxDrops
    /\ drops' = drops + 1
    /\ up' = [up EXCEPT ![w] = FALSE]
    /\ at' = [at EXCEPT ![w] = "answer"]
    /\ Executes(w) \/ ran' = ran
    /\ UNCHANGED <<cells, taken, freed, length, stage, mine, buf, dest, elem, src>>
ExecBreaks(w) ==
    /\ at[w] = "exec"
    /\ up[w]
    /\ drops < MaxDrops
    /\ drops' = drops + 1
    /\ up' = [up EXCEPT ![w] = FALSE]
    /\ Executes(w) \/ ran' = ran
    /\ UNCHANGED <<cells, taken, freed, length, stage, mine, buf, dest, at, elem, src>>

AnswerAndFree(w) ==
    /\ Jump(w, "answer", "wait")
    /\ cells' = [cells EXCEPT ![elem[w]].src = w]
    /\ dest' = [dest EXCEPT ![Owner(w)] = @ + 1]
    /\ freed' = freed \cup {elem[w]}
    /\ UNCHANGED <<taken, length, stage, mine, buf, elem, src, up, ran, drops>>
Answer(w) ==
    /\ Jump(w, "answer", "wait")
    /\ cells' = [cells EXCEPT ![elem[w]].src = w]
    /\ dest' = [dest EXCEPT ![Owner(w)] = @ + 1]
    /\ UNCHANGED <<taken, freed, length, stage, mine, buf, elem, src, up, ran, drops>>

(* sem_wait(dbWrite->srcReturned), PQclear and free.                       *)
Free(w) ==
    /\ src[w] > 0
    /\ Jump(w, "wait", "idle")
    /\ src' = [src EXCEPT ![w] = @ - 1]
    /\ freed' = freed \cup {elem[w]}
    /\ UNCHANGED <<cells, taken, length, stage, mine, buf, dest, elem, up, ran, drops>>

Requester(r) == Prepare(r) \/ Dbenq(r) \/ Told(r) \/ Release(r)
Writer(w) ==
    \/ WaitLength(w) \/ Dbdeq(w) \/ Reconnect(w) \/ Exec(w) \/ ExecBreaks(w)
    \/ Answer(w) \/ Free(w)

Next ==
    \/ \E r \in Requesters : Requester(r)
    \/ \E w \in Writers : Writer(w)

Spec == Init /\ [][Next]_vars

(* Threads run, and a database that has gone comes back: each connection   *)
(* is restored in the end.  (Nothing makes it break, or a thread ask.)     *)
FairSpec ==
    /\ Spec
    /\ \A r \in Requesters : WF_vars(Dbenq(r) \/ Told(r) \/ Release(r))
    /\ \A w \in Writers :
          WF_vars(WaitLength(w) \/ Dbdeq(w) \/ Reconnect(w) \/ Exec(w) \/ Answer(w) \/ Free(w))
-----------------------------------------------------------------------------
(* Properties.                                                             *)

(* dbdeq finds an element whenever sem_wait has let it pass: the semaphore *)
(* counts the elements no writer has been let in for.                      *)
Taking == {w \in Writers : at[w] = "taking"}
PermitsMatch == length + Cardinality(Taking) = Len(cells) - taken

(* A requester that has been answered has had its own last statements      *)
(* executed: no post is left over from an earlier request, and nobody      *)
(* overwrites the buffer before the writer has read it.                    *)
AnsweredAfterRun ==
    \A r \in Requesters :
        /\ stage[r] = "told" => ran[r][buf[r]] > 0
        /\ \A n \in 1 .. MaxRequests : n < buf[r] => ran[r][n] > 0

(* Neither side uses an element after the writer has freed it, though both *)
(* hold a pointer to it.                                                   *)
NoUseAfterFree ==
    /\ \A r \in Requesters : stage[r] \in {"asked", "told"} => mine[r] \notin freed
    /\ \A w \in Writers : at[w] \in {"exec", "answer", "wait"} => elem[w] \notin freed

(* Statements are executed again only after a connection broke under them: *)
(* each of the dropped connections stands for one extra execution at most. *)
TwiceOnlyAfterDrop ==
    \A r \in Requesters : \A n \in 1 .. MaxRequests : ran[r][n] <= 1 + drops

(* Every requester is answered and goes on (it may hold a user's lock).    *)
EveryRequestAnswered == \A r \in Requesters : stage[r] = "asked" ~> stage[r] = "work"
=============================================================================
