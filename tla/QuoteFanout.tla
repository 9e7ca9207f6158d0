----------------------------- MODULE QuoteFanout -----------------------------
(***************************************************************************)
(* How the load balancer fetches a quote (src/src/loadBalancer.c:          *)
(* quote_handler and its get_quote_thread workers).                        *)
(*                                                                         *)
(* For each request the handler lets all its workers ask the quote server  *)
(* at once, takes the first reply, answers the requester, and then waits   *)
(* until every worker has stopped.  They meet at two semaphores, quoteStart*)
(* and quoteFin, at the flag "go", and at one mutex per worker, which the  *)
(* handler holds between requests and the worker while it works.           *)
(*                                                                         *)
(* A worker that sees quoteFin at 0 asks again: the handler has taken the  *)
(* first post, and it takes another one to stop the workers.               *)
(*                                                                         *)
(* The quote server is external: it answers, closes the connection without *)
(* a reply, or a worker gives up on it.  Asked again about the same request*)
(* it may say something else.  On 0 bytes read the code looks at the byte  *)
(* before the buffer, the top byte of the block's size, which is 0, and    *)
(* leaves the buffer with the text it held.                                *)
(*                                                                         *)
(* A worker's time for connecting, "to", is set once, before its loop:     *)
(* select counts it down (Linux writes back what is left of it), and       *)
(* nothing sets it again.  When it is used up, select only looks whether   *)
(* the connection is there already.                                        *)
(***************************************************************************)
EXTENDS Integers, FiniteSets

CONSTANTS
    N,            \* maxRequests, the workers of a handler
    MaxRequests,  \* bound: the requests that arrive
    MaxEmpty,     \* bound: the connections the server closes without a reply
    MaxTexts,     \* bound: the different replies the server has to one request
    Patience,     \* the 20 ms a worker's connections may take, in units of time
    Nobody        \* an unlocked mutex

Workers == 1 .. N
Handler == 0
Requests == 0 .. MaxRequests
Texts == 1 .. MaxTexts

(* A reply: the number of the request it answers, and what it says.        *)
Replies == [of : Requests \ {0}, says : Texts]
Empty == [of |-> 0, says |-> 0]    \* no text

ASSUME ConstantsAssumption ==
    /\ N \in Nat \ {0}
    /\ MaxRequests \in Nat
    /\ MaxEmpty \in Nat
    /\ MaxTexts \in Nat
    /\ Patience \in Nat
    /\ Nobody \notin 0 .. N

VARIABLES
    req,        \* the number of the request under way, or of the last one
    main,       \* where the handler is
    i,          \* the handler's loop counter
    id,         \* serverReply, as the worker whose reply it is
    price, key, \* newQuote: the replies from which its two parts were parsed
    busy,       \* worker -> who holds replies[worker]->busy
    quoteStart, quoteFin, go,
    returned,   \* who holds threadReturned
    returnedID, \* threadReturnedID
    at,         \* worker -> where it is
    asked,      \* worker -> the request it has sent on its connection, if any
    text,       \* worker -> the reply in its buffer
    left,       \* worker -> what is left of "to"
    empty       \* how often the server has closed a connection without a reply

mainVars == <<req, main, i, id, price, key>>
workVars == <<at, asked, text, left>>
syncVars == <<busy, quoteStart, quoteFin, go, returned, returnedID>>
vars == <<mainVars, workVars, syncVars, empty>>

HandlerPlaces == {"idle", "open", "post", "settle", "seen", "wait", "pick", "parse", "rest",
                  "answer", "collect", "dead"}
WorkerPlaces == {"top", "start", "lock", "spin", "send", "recv", "report", "post", "release"}

TypeOK ==
    /\ req \in Requests
    /\ main \in HandlerPlaces
    /\ i \in 1 .. N + 1
    /\ id \in Workers
    /\ {price, key} \subseteq Replies \cup {Empty}
    /\ busy \in [Workers -> {Handler, Nobody} \cup Workers]
    /\ quoteStart \in 0 .. N
    /\ quoteFin \in 0 .. N
    /\ go \in BOOLEAN
    /\ returned \in {Nobody} \cup Workers
    /\ returnedID \in Workers
    /\ at \in [Workers -> WorkerPlaces]
    /\ asked \in [Workers -> Requests]
    /\ text \in [Workers -> Replies \cup {Empty}]
    /\ left \in [Workers -> 0 .. Patience]
    /\ empty \in 0 .. MaxEmpty

(* The workers have been created; each has found quoteFin at 1, waits to   *)
(* start, and has lost its mutex to the handler.                           *)
Init ==
    /\ req = 0
    /\ main = "idle"
    /\ i = 1
    /\ id = 1
    /\ price = Empty /\ key = Empty
    /\ busy = [w \in Workers |-> Handler]
    /\ quoteStart = 0
    /\ quoteFin = 0
    /\ go = FALSE
    /\ returned = Nobody
    /\ returnedID = 1
    /\ at = [w \in Workers |-> "start"]
    /\ asked = [w \in Workers |-> 0]
    /\ text = [w \in Workers |-> Empty]
    /\ left = [w \in Workers |-> Patience]
    /\ empty = 0

-----------------------------------------------------------------------------
(* The handler.                                                            *)

Jump(from, to) == main = from /\ main' = to
(* A step of "for(i=0;i<maxRequests;i++)", which ends in the next place.   *)
Loop(from, to) ==
    /\ main = from
    /\ i' = IF i = N THEN 1 ELSE i + 1
    /\ main' = IF i = N THEN to ELSE from

(* qdeq, and the pointers the workers read.                                *)
Dequeue ==
    /\ req < MaxRequests
    /\ Jump("idle", "open")
    /\ req' = req + 1
    /\ UNCHANGED <<empty, i, id, price, key, workVars, syncVars>>

Open ==
    /\ Loop("open", "post")
    /\ busy' = [busy EXCEPT ![i] = Nobody]
    /\ UNCHANGED <<empty, req, id, price, key, workVars, quoteStart, quoteFin, go, returned, returnedID>>

PostStart ==
    /\ Loop("post", "settle")
    /\ quoteStart' = quoteStart + 1
    /\ UNCHANGED <<empty, req, id, price, key, workVars, busy, quoteFin, go, returned, returnedID>>

(* do ... while(semVal)                                                    *)
Settle ==
    /\ quoteFin = 0
    /\ Jump("settle", "seen")
    /\ UNCHANGED <<empty, req, i, id, price, key, workVars, syncVars>>

(* The handler tries each worker's mutex until the worker has it.          *)
SeeNobody ==
    /\ Loop("seen", "wait")
    /\ go' = (go \/ i = N)
    /\ UNCHANGED <<empty, req, id, price, key, workVars, busy, quoteStart, quoteFin, returned, returnedID>>
SeeLocked ==
    /\ busy[i] # Nobody
    /\ Loop("seen", "wait")
    /\ go' = (go \/ i = N)
    /\ UNCHANGED <<empty, req, id, price, key, workVars, busy, quoteStart, quoteFin, returned, returnedID>>

WaitFin ==
    /\ quoteFin > 0
    /\ Jump("wait", "pick")
    /\ quoteFin' = quoteFin - 1
    /\ UNCHANGED <<empty, req, i, id, price, key, workVars, busy, quoteStart, go, returned, returnedID>>

Pick ==
    /\ Jump("pick", "parse")
    /\ id' = returnedID
    /\ UNCHANGED <<empty, req, i, price, key, workVars, syncVars>>

(* delimSep reads the reply while its worker, if it goes on, may overwrite *)
(* it: what was read before and what is read after (price and key, but the *)
(* cut may also fall inside a field) are of different replies then.  With  *)
(* no text there the handler gives up its loop for good.                   *)
Parse ==
    /\ main = "parse"
    /\ price' = text[id]
    /\ main' = IF text[id] = Empty THEN "dead" ELSE "rest"
    /\ UNCHANGED <<empty, req, i, id, key, workVars, syncVars>>
ParseRest ==
    /\ Jump("rest", "answer")
    /\ key' = text[id]
    /\ UNCHANGED <<empty, req, i, id, price, workVars, syncVars>>

(* The quote goes into the cache and the requester is told.                *)
Answer ==
    /\ Jump("answer", "collect")
    /\ price' = Empty /\ key' = Empty
    /\ UNCHANGED <<empty, req, i, id, workVars, syncVars>>

(* pthread_mutex_lock(&replies[i]->busy), and after the last one quoteFin  *)
(* is emptied.                                                             *)
CollectOnce ==
    /\ busy[i] = Nobody
    /\ Loop("collect", "idle")
    /\ busy' = [busy EXCEPT ![i] = Handler]
    /\ IF i = N
       THEN /\ quoteFin' = IF quoteFin > 0 THEN quoteFin - 1 ELSE 0
            /\ go' = FALSE
       ELSE UNCHANGED <<quoteFin, go>>
    /\ UNCHANGED <<empty, req, id, price, key, workVars, quoteStart, returned, returnedID>>
Collect ==
    /\ busy[i] = Nobody
    /\ Loop("collect", "idle")
    /\ busy' = [busy EXCEPT ![i] = Handler]
    /\ IF i = N
       THEN /\ quoteFin' = IF quoteFin > N THEN quoteFin - N ELSE 0
            /\ go' = FALSE
       ELSE UNCHANGED <<quoteFin, go>>
    /\ UNCHANGED <<empty, req, id, price, key, workVars, quoteStart, returned, returnedID>>

-----------------------------------------------------------------------------
(* A worker.                                                               *)

Goes(w, from, to) == at[w] = from /\ at' = [at EXCEPT ![w] = to]

(* The top of the loop: stop when somebody has posted quoteFin.            *)
Stop(w) ==
    /\ quoteFin > 0
    /\ Goes(w, "top", "start")
    /\ busy' = [busy EXCEPT ![w] = Nobody]
    /\ UNCHANGED <<empty, mainVars, asked, text, left, quoteStart, quoteFin, go, returned, returnedID>>
Again(w) ==
    /\ quoteFin = 0
    /\ Goes(w, "top", "send")
    /\ UNCHANGED <<empty, mainVars, asked, text, left, syncVars>>

WaitStart(w) ==
    /\ quoteStart > 0
    /\ Goes(w, "start", "lock")
    /\ quoteStart' = quoteStart - 1
    /\ UNCHANGED <<empty, mainVars, asked, text, left, busy, quoteFin, go, returned, returnedID>>

Lock(w) ==
    /\ busy[w] = Nobody
    /\ Goes(w, "lock", "spin")
    /\ busy' = [busy EXCEPT ![w] = w]
    /\ UNCHANGED <<empty, mainVars, asked, text, left, quoteStart, quoteFin, go, returned, returnedID>>

(* while(!*go)                                                             *)
SpinNot(w) ==
    /\ Goes(w, "spin", "send")
    /\ UNCHANGED <<empty, mainVars, asked, text, left, syncVars>>
Spin(w) ==
    /\ go
    /\ Goes(w, "spin", "send")
    /\ UNCHANGED <<empty, mainVars, asked, text, left, syncVars>>

(* Waiting for a connection takes what it takes off the time left.         *)
Waits(w) == \E rest \in 0 .. left[w] : left' = [left EXCEPT ![w] = rest]

Send(w) ==
    /\ Goes(w, "send", "recv")
    /\ Waits(w)
    /\ asked' = [asked EXCEPT ![w] = req]
    /\ UNCHANGED <<empty, mainVars, text, syncVars>>

(* select returns 0: the time left has passed, and nothing is left of it.  *)
TimeOut(w) ==
    /\ Goes(w, "send", "top")
    /\ left' = [left EXCEPT ![w] = 0]
    /\ UNCHANGED <<empty, mainVars, asked, text, syncVars>>

(* No address, no socket, a refused connection, an error of select or send.*)
Fail(w) ==
    /\ Goes(w, "send", "top")
    /\ Waits(w)
    /\ UNCHANGED <<empty, mainVars, asked, text, syncVars>>

(* The connection is closed whatever has come of it.                       *)
Closes(w) == asked' = [asked EXCEPT ![w] = 0]

(* No answer within "timeOut" tries, or a reply has been reported since.   *)
GiveUp(w) ==
    /\ Goes(w, "recv", "top")
    /\ Closes(w)
    /\ UNCHANGED <<empty, mainVars, text, left, syncVars>>

(* The reply overwrites the buffer, whoever is reading it.                 *)
Receive(w) ==
    /\ Goes(w, "recv", "report")
    /\ \E t \in Texts : text' = [text EXCEPT ![w] = [of |-> asked[w], says |-> t]]
    /\ Closes(w)
    /\ UNCHANGED <<empty, mainVars, left, syncVars>>
ReceiveNothing(w) ==
    /\ empty < MaxEmpty
    /\ empty' = empty + 1
    /\ Goes(w, "recv", "report")
    /\ Closes(w)
    /\ UNCHANGED <<mainVars, text, left, syncVars>>

(* pthread_mutex_trylock(threadReturned): one worker at a time reports.    *)
Report(w) ==
    /\ returned = Nobody
    /\ Goes(w, "report", "post")
    /\ returned' = w
    /\ UNCHANGED <<empty, mainVars, asked, text, left, busy, quoteStart, quoteFin, go, returnedID>>
SkipReport(w) ==
    /\ returned # Nobody
    /\ Goes(w, "report", "top")
    /\ UNCHANGED <<empty, mainVars, asked, text, left, syncVars>>

PostFinUnsigned(w) ==
    /\ Goes(w, "post", "release")
    /\ quoteFin' = quoteFin + 1
    /\ UNCHANGED <<empty, mainVars, asked, text, left, busy, quoteStart, go, returned, returnedID>>
PostFin(w) ==
    /\ Goes(w, "post", "release")
    /\ returnedID' = w
    /\ quoteFin' = quoteFin + 1
    /\ UNCHANGED <<empty, mainVars, asked, text, left, busy, quoteStart, go, returned>>

Release(w) ==
    /\ Goes(w, "release", "top")
    /\ returned' = Nobody
    /\ UNCHANGED <<empty, mainVars, asked, text, left, busy, quoteStart, quoteFin, go, returnedID>>

HandlerStep ==
    \/ Open \/ PostStart \/ Settle \/ SeeLocked \/ WaitFin \/ Pick
    \/ Parse \/ ParseRest \/ Answer \/ Collect

WorkerStep(w) ==
    \/ Stop(w) \/ Again(w) \/ WaitStart(w) \/ Lock(w) \/ Spin(w) \/ Send(w)
    \/ TimeOut(w) \/ Fail(w) \/ GiveUp(w) \/ Receive(w) \/ ReceiveNothing(w)
    \/ Report(w) \/ SkipReport(w) \/ PostFin(w) \/ Release(w)

Next == Dequeue \/ HandlerStep \/ \E w \in Workers : WorkerStep(w)

Spec == Init /\ [][Next]_vars

(* Threads run; a worker that tries to connect again and again while it    *)
(* has time left gets through, and one that asks again and again gets an   *)
(* answer.  Nothing is assumed of a worker whose time is used up.          *)
SendInTime(w) == left[w] > 0 /\ Send(w)
FairSpec ==
    /\ Spec
    /\ WF_vars(HandlerStep)
    /\ \A w \in Workers : WF_vars(WorkerStep(w)) /\ SF_vars(SendInTime(w)) /\ SF_vars(Receive(w))
-----------------------------------------------------------------------------
(* Properties.                                                             *)

(* The workers together keep the promise of QuoteRound: price and key that *)
(* go into the cache for a request are each from a reply to that request,  *)
(* though not always from the same one, as long as the server replies, and *)
(* though the workers keep their buffers, the identity of the last to      *)
(* report and the right to ask again from one request to the next.         *)
Round == INSTANCE QuoteRound WITH
    stage <- CASE main \in {"idle", "collect", "dead"} -> main
               [] main = "answer" -> "store"
               [] OTHER -> "fetch",
    got <- [price |-> IF main = "answer" THEN price ELSE Empty,
            key |-> IF main = "answer" THEN key ELSE Empty]
Rounds == Round!Spec

(* Nothing outlives its request: between two of them nothing is left over  *)
(* that could start a worker, or let the handler or a worker take the next *)
(* for answered, and a worker asks only about the one under way.           *)
RoundIsOver ==
    /\ main = "idle" =>
          /\ quoteStart = 0 /\ quoteFin = 0 /\ ~go
          /\ returned = Nobody
          /\ \A w \in Workers : busy[w] = Handler /\ at[w] = "start"
    /\ \A w \in Workers :
          at[w] = "recv" => asked[w] = req /\ main \notin {"idle", "open", "post"}

(* Every request that is taken is answered, and the handler gets back to   *)
(* the queue, although each stop of the workers costs one more reply.  Two *)
(* things can end it: an empty reply, and that the workers still at it     *)
(* have used up their 20 ms, whatever the ones that have stopped have left.*)
OutOfTime ==
    /\ quoteFin = 0
    /\ \E w \in Workers : at[w] # "start"
    /\ \A w \in Workers : at[w] = "start" \/ (at[w] \in {"top", "send"} /\ left[w] = 0)
EveryRequestAnswered ==
    main # "idle" ~> main = "idle" \/ (main = "dead" /\ empty > 0) \/ OutOfTime

(* "Wait for at least one quote thread to return with quote" (line 478):   *)
(* what the handler then parses is the quote server's reply to this request*)
ReturnedWithQuote == main = "rest" => price.of = req
=============================================================================
