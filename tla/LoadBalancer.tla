---------------------------- MODULE LoadBalancer ----------------------------
(***************************************************************************)
(* The load balancer's cache of quotes (src/src/loadBalancer.c: main,      *)
(* connection_handler, qenq, qdeq, quote_handler).                         *)
(*                                                                         *)
(* Transaction servers ask for quotes in two ways.  QCR looks whether the  *)
(* cache has a fresh one; QNR has one fetched when it has not: the request *)
(* goes into a queue, from which one of the quote_handler threads takes it,*)
(* and the connection waits for the semaphore of its element.  A handler   *)
(* keeps the lock of the stock's cell from before the fetch until all its  *)
(* workers have stopped.  The fetch is one step here: what it gives is     *)
(* what QuoteRound says, which QuoteFanout implements.                     *)
(*                                                                         *)
(* A quote is named by the number of the element it was fetched for: two   *)
(* replies to one request, of which a fetch may put a quote together, are  *)
(* not told apart here.                                                    *)
(***************************************************************************)
EXTENDS Integers, Sequences, FiniteSets

CONSTANTS
    Conns,        \* connections of transaction servers
    Handlers,     \* quote_handler threads
    Stocks,       \* names of stocks, as numbers of letters: AAB is <<0, 0, 1>>
    Nobody,       \* an unlocked mutex, nobody's
    QuoteTo,      \* quoteTo, the age at which a quote is stale
    MaxRequests,  \* bound: the requests queued
    MaxTime,      \* bound: the clock, which begins with QuoteTo
    MaxEmpty      \* bound: fetches to which the quote server sends nothing

CHAR_LIM == 26
Letters == 0 .. CHAR_LIM - 1
Names == Letters \X Letters \X Letters    \* what validStockID accepts

ASSUME BalancerAssumption ==
    /\ Nobody \notin Handlers
    /\ Stocks \subseteq Names
    /\ QuoteTo \in Nat \ {0}
    /\ MaxRequests \in Nat /\ MaxTime \in Nat /\ MaxEmpty \in Nat

(* quoteAddress: the cell of a stock.                                      *)
AddressOverlaps(s) == (s[1] + s[2]) * CHAR_LIM + s[3]
Address(s) == (s[1] * CHAR_LIM + s[2]) * CHAR_LIM + s[3]
Cells == {Address(s) : s \in Stocks}

VARIABLES
    now,       \* getmTS()
    cache,     \* cell -> the quotes whose price and key it holds, and its time
    busy,      \* cell -> the handler that holds q->busy
    queue,     \* the stocks of all elements queued so far, oldest first
    by,        \* the handlers that took them: as many as have been taken
    returned,  \* the elements whose semaphore has been posted
    at,        \* handler -> where it is
    got,       \* handler -> newQuote, the price and the key fetched
    conn,      \* connection -> where it is, and the request it works on
    empty      \* fetches to which the quote server has sent nothing

vars == <<now, cache, busy, queue, by, returned, at, got, conn, empty>>

Elements == 1 .. Len(queue)
None == 0     \* no quote, no element
Requests == 0 .. MaxRequests
NoQuote == [price |-> None, key |-> None]
Idle == [pc |-> "recv"]
Asking ==
    [pc : {"check", "qenq", "wait"}, kind : {"QCR", "QNR"}, stock : Stocks,
     asked : Nat, element : Requests]

TypeOK ==
    /\ now \in Nat
    /\ cache \in [Cells -> [price : Requests, key : Requests, ts : Nat]]
    /\ busy \in [Cells -> Handlers \cup {Nobody}]
    /\ queue \in Seq(Stocks) /\ Len(queue) <= MaxRequests
    /\ by \in Seq(Handlers) /\ Len(by) <= Len(queue)
    /\ returned \subseteq 1 .. Len(by)
    /\ at \in [Handlers -> {"idle", "lock", "fetch", "store", "rest", "collect", "dead"}]
    /\ got \in [Handlers -> [price : Requests, key : Requests]]
    /\ conn \in [Conns -> {Idle} \cup Asking]
    /\ empty \in 0 .. MaxEmpty

Init ==
    /\ now = QuoteTo
    /\ cache = [a \in Cells |-> [price |-> None, key |-> None, ts |-> 0]]
    /\ busy = [a \in Cells |-> Nobody]
    /\ queue = <<>>
    /\ by = <<>>
    /\ returned = {}
    /\ at = [h \in Handlers |-> "idle"]
    /\ got = [h \in Handlers |-> NoQuote]
    /\ conn = [c \in Conns |-> Idle]
    /\ empty = 0
-----------------------------------------------------------------------------
(* connection_handler.                                                     *)

CellOf(c) == Address(conn[c].stock)
Reply(c) == conn' = [conn EXCEPT ![c] = Idle]
FreshEnough(q) == now - q.ts <= QuoteTo
Fresh(q) == now - q.ts < QuoteTo

(* A message arrives.                                                      *)
ToQueue == {c \in Conns : conn[c].pc \in {"check", "qenq"} /\ conn[c].kind = "QNR"}
Recv(c, kind, s) ==
    /\ conn[c] = Idle
    /\ kind = "QNR" => Len(queue) + Cardinality(ToQueue) < MaxRequests
    /\ conn' = [conn EXCEPT ![c] = [pc |-> "check", kind |-> kind, stock |-> s, asked |-> now,
                                    element |-> None]]
    /\ UNCHANGED <<now, cache, busy, queue, by, returned, at, got, empty>>

(* The cell is locked, read and unlocked again: its quote is the reply, or *)
(* "NOT" is, or a quote has to be fetched.                                 *)
Check(c) ==
    LET fresh == Fresh(cache[CellOf(c)])
    IN  /\ conn[c].pc = "check"
        /\ busy[CellOf(c)] = Nobody
        /\ IF fresh \/ conn[c].kind = "QCR"
           THEN Reply(c)
           ELSE conn' = [conn EXCEPT ![c].pc = "qenq"]
        /\ UNCHANGED <<now, cache, busy, queue, by, returned, at, got, empty>>

Qenq(c) ==
    /\ conn[c].pc = "qenq"
    /\ queue' = Append(queue, conn[c].stock)
    /\ conn' = [conn EXCEPT ![c].pc = "wait", ![c].element = Len(queue')]
    /\ UNCHANGED <<now, cache, busy, by, returned, at, got, empty>>

(* sem_wait(&quoteResp->returned), and the cell is read under its lock.    *)
ReplyFetched(c) ==
    /\ conn[c].pc = "wait"
    /\ conn[c].element \in returned
    /\ busy[CellOf(c)] = Nobody
    /\ Reply(c)
    /\ UNCHANGED <<now, cache, busy, queue, by, returned, at, got, empty>>
-----------------------------------------------------------------------------
(* quote_handler.                                                          *)

Jump(h, from, to) == at[h] = from /\ at' = [at EXCEPT ![h] = to]

TakenBy(h) == {r \in DOMAIN by : by[r] = h}
Element(h) == CHOOSE r \in TakenBy(h) : \A q \in TakenBy(h) : q <= r
Cell(h) == Address(queue[Element(h)])

Qdeq(h) ==
    /\ Len(by) < Len(queue)
    /\ Jump(h, "idle", "lock")
    /\ by' = Append(by, h)
    /\ UNCHANGED <<now, cache, busy, queue, returned, got, conn, empty>>

LockNothing(h) ==
    /\ Jump(h, "lock", "fetch")
    /\ busy[Cell(h)] = Nobody
    /\ UNCHANGED <<now, cache, busy, queue, by, returned, got, conn, empty>>
LockCell(h) ==
    /\ Jump(h, "lock", "fetch")
    /\ busy[Cell(h)] = Nobody
    /\ busy' = [busy EXCEPT ![Cell(h)] = h]
    /\ UNCHANGED <<now, cache, queue, by, returned, got, conn, empty>>

(* The first worker to return has the quote server's reply.                *)
Fetch(h) ==
    /\ Jump(h, "fetch", "store")
    /\ got' = [got EXCEPT ![h] = [price |-> Element(h), key |-> Element(h)]]
    /\ UNCHANGED <<now, cache, busy, queue, by, returned, conn, empty>>

(* The quote server closes the connection of the first: what its buffer    *)
(* holds is the text of earlier replies, or none, which ends the handler.  *)
FetchNothing(h) ==
    /\ empty < MaxEmpty
    /\ empty' = empty + 1
    /\ \/ /\ Jump(h, "fetch", "store")
          /\ \E old \in TakenBy(h) \ {Element(h)} : \E key \in {old, Element(h)} :
                got' = [got EXCEPT ![h] = [price |-> old, key |-> key]]
          /\ UNCHANGED busy
       \/ /\ Jump(h, "fetch", "dead")
          /\ busy' = [busy EXCEPT ![Cell(h)] = Nobody]
          /\ UNCHANGED got
    /\ UNCHANGED <<now, cache, queue, by, returned, conn>>

StorePrice(h) ==
    /\ Jump(h, "store", "rest")
    /\ cache' = [cache EXCEPT ![Cell(h)].price = got[h].price]
    /\ UNCHANGED <<now, busy, queue, by, returned, got, conn, empty>>

StoreRest(h) ==
    /\ Jump(h, "rest", "collect")
    /\ cache' = [cache EXCEPT ![Cell(h)].key = got[h].key, ![Cell(h)].ts = now]
    /\ returned' = returned \cup {Element(h)}
    /\ got' = [got EXCEPT ![h] = NoQuote]
    /\ UNCHANGED <<now, busy, queue, by, conn, empty>>

CollectLocked(h) ==
    /\ Jump(h, "collect", "idle")
    /\ UNCHANGED <<now, cache, busy, queue, by, returned, got, conn, empty>>
Collect(h) ==
    /\ Jump(h, "collect", "idle")
    /\ busy' = [busy EXCEPT ![Cell(h)] = Nobody]
    /\ UNCHANGED <<now, cache, queue, by, returned, got, conn, empty>>
-----------------------------------------------------------------------------
Tick ==
    /\ now < MaxTime
    /\ now' = now + 1
    /\ UNCHANGED <<cache, busy, queue, by, returned, at, got, conn, empty>>

Handler(h) ==
    \/ Qdeq(h) \/ LockCell(h) \/ Fetch(h) \/ FetchNothing(h)
    \/ StorePrice(h) \/ StoreRest(h) \/ Collect(h)
Next ==
    \/ \E c \in Conns, kind \in {"QCR", "QNR"}, s \in Stocks : Recv(c, kind, s)
    \/ \E c \in Conns : Check(c) \/ Qenq(c) \/ ReplyFetched(c)
    \/ \E h \in Handlers : Handler(h)
    \/ Tick

Spec == Init /\ [][Next]_vars

(* Threads run, and a thread gets a mutex that is free again and again.    *)
(* That a fetch ends, and the stopping of its workers, is assumed as well: *)
(* QuoteFanout shows it while the workers have time left to connect, and   *)
(* the liveness below holds only as long.                                  *)
FairSpec ==
    /\ Spec
    /\ \A c \in Conns : SF_vars(Check(c) \/ Qenq(c) \/ ReplyFetched(c))
    /\ \A h \in Handlers : SF_vars(Handler(h))
-----------------------------------------------------------------------------
(* Properties.                                                             *)

(* The price and the key in a cell that nobody has locked were fetched     *)
(* together: quote_handler replaces the parts one by one (lines 495-504),  *)
(* and the key is what the purchase is recorded with.  (That one reply has *)
(* both is more than a fetch gives: see QuoteRound.)                       *)
CellsAreWhole ==
    empty = 0 => \A a \in Cells : busy[a] = Nobody => cache[a].price = cache[a].key

(* As long as the quote server replies, the cell of a stock holds a quote  *)
(* of this very stock, whichever handlers fetch for whichever connections: *)
(* "quoteAddress" is all that a cell, a lock and a request have in common. *)
QuoteOfItsStock ==
    empty = 0 =>
        \A s \in Stocks : LET price == cache[Address(s)].price
                          IN  price # None => queue[price] = s

(* The connections, the queue and the handlers together serve quotes as    *)
(* QuoteService promises.  In particular what a connection reads when it   *)
(* has been woken, another handler's quote perhaps, is no older than its   *)
(* request.                                                                *)
Service == INSTANCE QuoteService WITH
    since <- [s \in Stocks |-> cache[Address(s)].ts],
    asks <- [c \in Conns |-> IF conn[c] = Idle THEN [kind |-> "none"]
                             ELSE [kind |-> conn[c].kind, stock |-> conn[c].stock,
                                   asked |-> conn[c].asked]]
ServesQuotes == Service!Spec

(* Every request is answered as long as fetches end, though handlers wait  *)
(* for each other's cells with a request in hand and connections wait for  *)
(* handlers; excepted are a request whose handler an empty reply has ended,*)
(* and those that come when it has ended them all.                         *)
Abandoned(c) ==
    /\ conn[c].pc = "wait"
    /\ LET r == conn[c].element
       IN  IF r \in DOMAIN by THEN at[by[r]] = "dead" ELSE \A h \in Handlers : at[h] = "dead"
EveryRequestAnswered == \A c \in Conns : conn[c] # Idle ~> conn[c] = Idle \/ Abandoned(c)
=============================================================================
