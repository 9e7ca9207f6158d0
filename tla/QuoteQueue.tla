----------------------------- MODULE QuoteQueue -----------------------------
(***************************************************************************)
(* The queue of quote requests in a server (qenq, qdeq and quote_handler in*)
(* src/src/transServer.c) and those who wait on it: the command threads    *)
(* and the trigger thread.                                                 *)
(*                                                                         *)
(* A requester gets the queue's element back from qenq and then reads from *)
(* it the semaphore to wait on.  The quote thread that took the element    *)
(* posts the semaphore and frees the element, perhaps before that read;    *)
(* its memory may by then be the element of another request.  Elements are *)
(* therefore blocks of memory that calloc uses again.                      *)
(***************************************************************************)
EXTENDS Naturals, Sequences, FiniteSets

CONSTANTS
    Requesters,    \* threads that ask for quotes
    QuoteThreads,  \* NUM_LB * 2
    Stocks,
    Blocks,        \* of memory, for the elements
    None,
    MaxFailures    \* bound: failures of getaddrinfo, send and recv

ASSUME ConstantsAssumption ==
    /\ None \notin Requesters \cup Stocks \cup Blocks
    /\ IsFiniteSet(Requesters) /\ IsFiniteSet(QuoteThreads) /\ IsFiniteSet(Blocks)
    /\ Cardinality(Blocks) > Cardinality(Requesters) + Cardinality(QuoteThreads) + 1
    /\ MaxFailures \in Nat

VARIABLES
    queue,      \* the blocks from start to end; the last one is blank
    length,     \* the semaphore quotes->length
    memory,     \* block -> stockObj, returned (the requester it belongs to)
    sem,        \* requester -> the value of its semaphore
    price,      \* stock -> "none" (ts = 0), "old" (older than quoteTo), "new"
    pc,         \* requester -> where it is
    stock,      \* requester -> cStock
    element,    \* requester -> quoteResp
    waitsFor,   \* requester -> whose semaphore it waits on
    thread,     \* quote thread -> step, block (quoteReq)
    connected,  \* quote thread -> connected[currLB]
    none,       \* quote thread -> noneConnected
    failures,
    crashed,    \* sem_wait(NULL)
    priced,     \* history: the requesters whose stock has been written since they asked
    swept       \* history: whether a requester came after its block was freed

requestVars == <<queue, length, memory, sem, pc, stock, element, waitsFor>>
threadVars == <<thread, connected, none, failures>>
vars == <<requestVars, threadVars, price, crashed, priced, swept>>

Blank == [stock |-> None, returned |-> None]

(* What is neither in the queue nor with a quote thread has been freed.    *)
InQueue(b) == \E i \in DOMAIN queue : queue[i] = b
Freed(b) == ~InQueue(b) /\ \A q \in QuoteThreads : thread[q].block # b

(* calloc takes any freed block.  Those that no requester has yet to read  *)
(* are all alike, and one of them stands for them.                         *)
UnreadBut(R, b) == \E r \in Requesters \ R : element[r] = b
Unread(b) == UnreadBut({}, b)
Fresh == CHOOSE b \in Blocks : Freed(b) /\ ~Unread(b)
Calloc == {b \in Blocks : Freed(b) /\ (Unread(b) \/ b = Fresh)}

TypeOK ==
    /\ queue \in Seq(Blocks) /\ length \in Nat
    /\ Len(queue) = length + 1
    /\ memory \in [Blocks -> [stock : Stocks \cup {None}, returned : Requesters \cup {None}]]
    /\ sem \in [Requesters -> Nat]
    /\ price \in [Stocks -> {"none", "old", "new"}]
    /\ pc \in [Requesters -> {"idle", "enqueued", "waiting", "answered"}]
    /\ stock \in [Requesters -> Stocks \cup {None}]
    /\ element \in [Requesters -> Blocks \cup {None}]
    /\ waitsFor \in [Requesters -> Requesters \cup {None}]
    /\ thread \in [QuoteThreads -> [step : {"idle", "ask", "askNew", "post", "free"},
                                    block : Blocks \cup {None}]]
    /\ connected \in [QuoteThreads -> BOOLEAN] /\ none \in [QuoteThreads -> BOOLEAN]
    /\ failures \in 0 .. MaxFailures
    /\ crashed \in BOOLEAN /\ swept \in BOOLEAN
    /\ priced \subseteq Requesters

Init ==
    /\ queue = <<CHOOSE b \in Blocks : TRUE>>
    /\ length = 0
    /\ memory = [b \in Blocks |-> Blank]
    /\ sem = [r \in Requesters |-> 0]
    /\ price = [k \in Stocks |-> "none"]
    /\ pc = [r \in Requesters |-> "idle"]
    /\ stock = [r \in Requesters |-> None]
    /\ element = [r \in Requesters |-> None]
    /\ waitsFor = [r \in Requesters |-> None]
    /\ thread = [q \in QuoteThreads |-> [step |-> "idle", block |-> None]]
    /\ connected = [q \in QuoteThreads |-> FALSE]
    /\ none = [q \in QuoteThreads |-> FALSE]
    /\ failures = 0
    /\ crashed = FALSE /\ swept = FALSE
    /\ priced = {}

-----------------------------------------------------------------------------
(* The requesters.                                                         *)

(* qenq: the blank end becomes the request, a block from calloc the end.   *)
Qenq(r, k) ==
    LET b == queue[Len(queue)]
    IN  /\ \E free \in Calloc :
              /\ queue' = Append(queue, free)
              /\ memory' = [memory EXCEPT ![b] = [stock |-> k, returned |-> r], ![free] = Blank]
        /\ length' = length + 1
        /\ element' = [element EXCEPT ![r] = b]

(* A QUOTE asks when the stock has no price, the others when it is old.    *)
Ask(r, k) ==
    /\ pc[r] = "idle"
    /\ price[k] # "new"
    /\ Qenq(r, k)
    /\ pc' = [pc EXCEPT ![r] = "enqueued"]
    /\ stock' = [stock EXCEPT ![r] = k]
    /\ priced' = priced \ {r}
    /\ UNCHANGED <<sem, waitsFor, threadVars, price, crashed, swept>>

(* The read of quoteResp->returned.                                        *)
ReadReturned(r) ==
    LET found == memory[element[r]].returned
    IN  /\ pc[r] = "enqueued"
        /\ pc' = [pc EXCEPT ![r] = "waiting"]
        /\ waitsFor' = [waitsFor EXCEPT ![r] = found]
        /\ element' = [element EXCEPT ![r] = None]
        /\ crashed' = (found = None)
        /\ swept' = (swept \/ found # r)
        /\ memory' = IF Freed(element[r]) /\ ~UnreadBut({r}, element[r])
                     THEN [memory EXCEPT ![element[r]] = Blank] ELSE memory
        /\ UNCHANGED <<queue, length, sem, stock, threadVars, price, priced>>

SemWait(r) ==
    /\ pc[r] = "waiting"
    /\ sem[waitsFor[r]] > 0
    /\ sem' = [sem EXCEPT ![waitsFor[r]] = @ - 1]
    /\ pc' = [pc EXCEPT ![r] = "answered"]
    /\ waitsFor' = [waitsFor EXCEPT ![r] = None]
    /\ UNCHANGED <<queue, length, memory, stock, element, threadVars, price, crashed, priced, swept>>

(* The command reads the price, and ends.                                  *)
Use(r) ==
    /\ pc[r] = "answered"
    /\ pc' = [pc EXCEPT ![r] = "idle"]
    /\ stock' = [stock EXCEPT ![r] = None]
    /\ UNCHANGED <<queue, length, memory, sem, element, waitsFor, threadVars, price, crashed,
                   priced, swept>>

(* A price gets older than quoteTo.                                        *)
Age(k) ==
    /\ price[k] = "new"
    /\ price' = [price EXCEPT ![k] = "old"]
    /\ UNCHANGED <<requestVars, threadVars, crashed, priced, swept>>
-----------------------------------------------------------------------------
(* The quote threads.                                                      *)

Goto(q, step) == thread' = [thread EXCEPT ![q].step = step]

(* qdeq: sem_wait(q->length), and the first element under the mutex.       *)
QdeqKeeps(q) ==
    /\ thread[q].step = "idle"
    /\ length > 0
    /\ length' = length - 1
    /\ thread' = [thread EXCEPT ![q] = [step |-> "ask", block |-> Head(queue)]]
    /\ UNCHANGED <<queue, memory, sem, pc, stock, element, waitsFor, connected, none, failures,
                   price, crashed, priced, swept>>
Qdeq(q) ==
    /\ thread[q].step = "idle"
    /\ length > 0
    /\ length' = length - 1
    /\ thread' = [thread EXCEPT ![q] = [step |-> "ask", block |-> Head(queue)]]
    /\ queue' = Tail(queue)
    /\ UNCHANGED <<memory, sem, pc, stock, element, waitsFor, connected, none, failures,
                   price, crashed, priced, swept>>

Unchanged == UNCHANGED <<requestVars, crashed, swept>>

(* getaddrinfo fails: with the only load balancer not connected,           *)
(* noneConnected is set, and nothing sets it back.                         *)
Unresolved(q) ==
    /\ thread[q].step = "ask" /\ ~connected[q]
    /\ failures < MaxFailures
    /\ failures' = failures + 1
    /\ none' = [none EXCEPT ![q] = TRUE]
    /\ UNCHANGED <<thread, connected, price, priced>> /\ Unchanged

Connect(q) ==
    /\ thread[q].step = "ask" /\ ~connected[q]
    /\ connected' = [connected EXCEPT ![q] = TRUE]
    /\ UNCHANGED <<thread, none, failures, price, priced>> /\ Unchanged

(* send or recv fails.  After the first of the two requests, the second is *)
(* sent on the closed socket, fails as well, and all begins again.         *)
BreakForgets(q) ==
    /\ thread[q].step \in {"ask", "askNew"} /\ connected[q]
    /\ failures < MaxFailures
    /\ failures' = failures + 1
    /\ connected' = [connected EXCEPT ![q] = FALSE]
    /\ thread' = [thread EXCEPT ![q] = [step |-> "idle", block |-> None]]
    /\ UNCHANGED <<none, price, priced>> /\ Unchanged
Break(q) ==
    /\ thread[q].step \in {"ask", "askNew"} /\ connected[q]
    /\ failures < MaxFailures
    /\ failures' = failures + 1
    /\ connected' = [connected EXCEPT ![q] = FALSE]
    /\ Goto(q, "ask")
    /\ UNCHANGED <<none, price, priced>> /\ Unchanged

WriteStock(q) ==
    LET k == memory[thread[q].block].stock
    IN  /\ price' = [price EXCEPT ![k] = "new"]
        /\ priced' = priced \cup {r \in Requesters : stock[r] = k}

(* The load balancer has a price in its cache.  With noneConnected set the *)
(* thread begins again with the same request.                              *)
Cached(q) ==
    /\ thread[q].step = "ask" /\ connected[q]
    /\ WriteStock(q)
    /\ Goto(q, IF none[q] THEN "ask" ELSE "post")
    /\ UNCHANGED <<connected, none, failures>> /\ Unchanged

(* It has none: the request with an N, for a new price.                    *)
NotCachedPosts(q) ==
    /\ thread[q].step = "ask" /\ connected[q]
    /\ ~none[q]
    /\ Goto(q, "post")
    /\ UNCHANGED <<connected, none, failures, price, priced>> /\ Unchanged
NotCached(q) ==
    /\ thread[q].step = "ask" /\ connected[q]
    /\ ~none[q]
    /\ Goto(q, "askNew")
    /\ UNCHANGED <<connected, none, failures, price, priced>> /\ Unchanged

FetchedFrees(q) ==
    /\ thread[q].step = "askNew" /\ connected[q]
    /\ WriteStock(q)
    /\ Goto(q, "free")
    /\ UNCHANGED <<connected, none, failures>> /\ Unchanged
Fetched(q) ==
    /\ thread[q].step = "askNew" /\ connected[q]
    /\ WriteStock(q)
    /\ Goto(q, "post")
    /\ UNCHANGED <<connected, none, failures>> /\ Unchanged

Post(q) ==
    LET r == memory[thread[q].block].returned
    IN  /\ thread[q].step = "post"
        /\ sem' = [sem EXCEPT ![r] = @ + 1]
        /\ Goto(q, "free")
        /\ UNCHANGED <<queue, length, memory, pc, stock, element, waitsFor, connected, none,
                       failures, price, crashed, priced, swept>>

(* free(quoteReq): the block keeps its contents until calloc takes it,     *)
(* which matters while its requester has not read it.                      *)
Free(q) ==
    /\ thread[q].step = "free"
    /\ thread' = [thread EXCEPT ![q] = [step |-> "idle", block |-> None]]
    /\ memory' = IF Unread(thread[q].block) THEN memory
                 ELSE [memory EXCEPT ![thread[q].block] = Blank]
    /\ UNCHANGED <<queue, length, sem, pc, stock, element, waitsFor, connected, none, failures, price, crashed, priced, swept>>
-----------------------------------------------------------------------------
RequesterStep(r) == ReadReturned(r) \/ SemWait(r) \/ Use(r)

QuoteStep(q) ==
    \/ Qdeq(q) \/ Unresolved(q) \/ Connect(q) \/ Break(q)
    \/ Cached(q) \/ NotCached(q) \/ Fetched(q) \/ Post(q) \/ Free(q)

Next ==
    /\ ~crashed
    /\ \/ \E r \in Requesters : RequesterStep(r) \/ \E k \in Stocks : Ask(r, k)
       \/ \E k \in Stocks : Age(k)
       \/ \E q \in QuoteThreads : QuoteStep(q)

Spec == Init /\ [][Next]_vars

(* Threads run.                                                            *)
FairSpec ==
    /\ Spec
    /\ \A r \in Requesters : WF_vars(~crashed /\ RequesterStep(r))
    /\ \A q \in QuoteThreads : WF_vars(~crashed /\ QuoteStep(q))
-----------------------------------------------------------------------------
(* Properties.                                                             *)

(* As long as no requester came too late to read its element, an answered  *)
(* one has a price of its own stock, written after it asked.               *)
AnsweredHasPrice == \A r \in Requesters : pc[r] = "answered" /\ ~swept => r \in priced

(* No element is freed, or used again, while it is queued or being         *)
(* answered, and none is answered by two threads.                          *)
OneOwner ==
    /\ \A i, j \in DOMAIN queue : queue[i] = queue[j] => i = j
    /\ \A q \in QuoteThreads : thread[q].block # None =>
          ~InQueue(thread[q].block) /\ \A p \in QuoteThreads \ {q} : thread[p].block # thread[q].block

(* An answer is for the one who waits: between asking and being answered   *)
(* there is one thing on its way to a requester, its element or a permit.  *)
OneAnswer ==
    ~swept =>
        \A r \in Requesters :
            LET asked == {b \in Blocks : memory[b].returned = r /\ ~Freed(b)
                              /\ \A q \in QuoteThreads : thread[q] # [step |-> "free", block |-> b]}
            IN  Cardinality(asked) + sem[r] = (IF pc[r] \in {"enqueued", "waiting"} THEN 1 ELSE 0)

(* Every request is answered, unless a requester came too late or the name *)
(* of the load balancer could not be resolved.                             *)
EveryRequestAnswered ==
    \A r \in Requesters :
        pc[r] = "enqueued" ~> pc[r] = "answered" \/ swept \/ \E q \in QuoteThreads : none[q]
=============================================================================
