# A verification of the day-trading system in `src/src`

The repository is a distributed stock-trading system: PHP pages in Apache, or
a workload generator, send user commands to one of several *transaction
servers*, which keep the users' accounts in memory and in PostgreSQL, fetch
quotes through a *load balancer* with a cache, and report to a *log server*.
This directory models the parts of it that have state, checks them with TLC on
small instances and proves the most important results with TLAPS.

## The system

| component | source | state | operations |
|---|---|---|---|
| connections | `transServer.c` `connection_handler`, `getUser`, `addUser`, `cenq` | tree and ring of users, one queue per user, `uList->avail` | receive a message, add a user, queue a command, answer `USR`, write `DUMPLOG` to the log |
| command threads (30) | `command_handler`, `cdeq` | `cUser->busy`, position in the ring | walk the ring, lock a user, take and execute one command |
| accounts | the commands in `command_handler`, `addUserStock`, `addTrigger`, `removeTrigger` | balance, holdings, pending order, triggers | the 15 user commands |
| trigger thread (1) | `trigger_handler`, the rings of stocks and triggers | `cStock`, `cTrigger`, the ring of each stock | refresh a quote, visit the triggers of a stock, fire them |
| database threads (5 writers, 1 reader) | `dbWrite_handler`, `dbRead_handler`, `dbenq`, `dbdeq` | queue of statements, 5 connections each (`NUM_DB`), elements shared with the requesters | execute, answer, free |
| quote threads (2) | `quote_handler`, `qenq`, `qdeq` | queue of requests, connections to the balancers, `stock->price`, `stock->ts` | fetch or reuse a quote |
| log thread (1) | `log_handler`, `lenq`, `ldeq` | queue of lines, connection to the log server | send, resend |
| load balancer | `loadBalancer.c` | cached quotes, requests under way, quote queue, log queue | answer from the cache, fetch from the quote servers |
| log server | `logServer.c` | queue of lines, tree of lines, log file | receive and acknowledge, record, flush, dump for a user or for all |
| workload generator | `Workload.c` | one queue per connection | hash users to connections, send in order |
| web pages | `apache/htdocs/*.php` | PHP session | one request per page, failover to another server |
| `transServerWeb.c` | the same server for pages: a pool of 30 connection threads that each take one socket from a queue (`wenq`, `wdeq`) and serve one command | | |

Threads share memory and use mutexes and semaphores; the servers talk TCP. The
hard parts are the ones where two threads meet: the locks on users and stocks,
the counters and semaphores of the queues, the elements that both sides of a
queue point to, prices written without a lock while a command reads them, the
trigger rings, and what is repeated or lost when a connection breaks.

## The modules

| module | models | state and actions |
|---|---|---|
| `Accounts` | the commands and the trigger thread on the accounts, their quotes, and the database rows they leave | one action per command; `pc[u]` is what the holder of `cUser->busy` is doing |
| `CommandQueue` | receiving, adding users, the queues, the walk of the ring | one action per step between two locks or semaphores of `connection_handler`, `addUser`, `cenq`, `command_handler` |
| `SerialCommands` | what `CommandQueue` promises a client | submit, begin and end a command of a user |
| `NewUser` | `CommandQueue` with the user's row in the accounts table | `insertAcct` and `updateBal` ride on two of its actions |
| `WebPool` | `NewUser` with the sockets of the web server: `accept`, `wenq`, `wdeq` and the pool's threads | the list of sockets, the socket of each thread, the open descriptors; a thread of the pool is a connection of `CommandQueue` that serves one command of a socket |
| `DbQueue` | requesters, writers and the element between them | one action per semaphore operation, `PQexec` that may break |
| `TriggerRing` | the ring of triggers of a stock: `addTrigger`, `removeTrigger`, the walk of `trigger_handler` | pointers, the stock's lock and the users' locks; a critical section of a command is one action, the walk is one action per line that reads or locks |
| `QuoteQueue` | requests for quotes: `qenq`, `qdeq`, `quote_handler`, and those who wait | blocks of memory that are freed and used again; one action per `send`/`recv`, semaphore or `free` |
| `QuoteFanout` | the load balancer's `quote_handler` and its workers | two semaphores, a flag, one mutex and one buffer per worker; one action per operation on them |
| `QuoteRound` | what `QuoteFanout` promises of one round of `quote_handler` | ask, answer, and end for good |
| `LoadBalancer` | the load balancer's connections, its cells (cached quotes), `qenq`, `qdeq` and the handlers' part in the cells | the clock, the parts of a cell and its lock, the queue; one action per section under a lock or between two semaphores, the fetch is one |
| `QuoteService` | what `LoadBalancer` promises to the transaction servers | ask, answer, decline, refresh, tick |
| `Workload` | the workload generator, composed with `NewUser` | script, queues of lines, what is on its way on a connection; one action per `send`, `recv`, `cenq`, `cdeq` |
| `LogPipeline` | `lenq`, `log_handler` of a server; `connection_handler`, `log_handler` of the log server | the line on each side, the connection and its acknowledgement, queue, tree and file |
| `MCAccounts`, `MCQuoteQueue`, `MCLoadBalancer`, `MCWorkload` | instances for TLC: symmetry, the set of quotes, constraints, stocks, scripts | the other modules are checked as they are, with the constants of the `.cfg` |
| `AccountsProofs`, `CommandQueueProofs`, `DbQueueProofs`, `TriggerRingProofs`, `LoadBalancerProofs`, `QuoteQueueProofs`, `QuoteFanoutProofs`, `LogPipelineProofs` | theorems | |

**Accounts.** `command_handler` runs a command while it holds `cUser->busy`, so
a command is one action; it is split where the code waits or where other
threads can be seen: BUY and SELL read `cStock->price` (line 978) and later the
stock's time stamp (999), which a quote thread may have replaced (`Priced`,
`Prompt`); a command that writes to the database waits for
`dbResp->destReturned` (`Write`, `DbDone`). A refused command leaves no trace and
is a stuttering step. Time is the age of quotes and orders in ticks of
`QuoteTo`. The rows in the database are changed by the statements of the bundle
(`UpdateBal`, `InsertTrig`, ...), as a whole; `price2str` is modelled by what
its output means to PostgreSQL, because for a negative sum it prints
`-1.0-50`, which is an expression in one statement and no number in another.
`shorted` remembers whom the debugging check on line 1225 has printed: what is
promised of an account is promised until then, and `accounts_oversold` shows
how a user gets there.

A stock is named by its letters, since a user's triggers hang in a tree of
letters, one branch for each side (`places`). `removeTrigger` climbs from the node of its
trigger and frees what has become bare, but starts counting at `strlen-1`
(line 2011): at a node it clears the child for the letter before the one it has
come up by (2044-2046). With ABC's trigger goes the node of ABB, if there is one, and
all that hangs from it (`FreedPlaces`). A trigger that was there is `lost`: it keeps its row and its place
in its stock's ring, where the trigger thread finds and executes it, but no command of its
owner does, who can set a second one beside it (`repeated`).

After a missed trylock (line 1743) the trigger thread reads the ring of that stock
without its lock (`missed`). A trigger that is removed afterwards is not only
removed but also `gone`: freed, and still to be come upon. When it is executed (`revived`), a buy
trigger's money, which was given back on the cancellation, is given again, and
`deleteTrig` deletes the row of whatever the user has set there since. The freed
block is taken to hold its words still; what else `free` on a freed block may do
to the process is not modelled. What a miss leaves of a ring is the matter of `TriggerRing`;
here a ring is a set.

**CommandQueue.** The list of a user's commands is the sequence of all that were
ever queued, and `start`, how many were taken; `length` is the code's own
counter. Locks are the name of the holder. A thread goes on to the next user
when `pthread_mutex_trylock` fails, exactly as the code does, so a walk that
never ends is a behaviour of the model.

**WebPool.** `transServerWeb.c` has the same users, queues and command threads, but
30 threads that share a list of sockets in place of a thread per connection. A
thread that has queued a command never closes its socket, which is where the
command's reply would go, so the process runs out of descriptors, and `main`
queues the -1 of `accept` like a socket. `sender` and `settled` remember what became
of each socket.

**DbQueue.** A requester has one buffer (`dbStr`) and writes its next statements
into it; the model numbers them, and counts how often PostgreSQL executed each.
A connection may break under `PQexec`, before or after the statements took
effect.

**TriggerRing.** Whether a trigger fires is data, and open; what it does to an
account is in `Accounts`. A mutex has no owner, as in the code: after a failed
`pthread_mutex_trylock` (1740) the trigger thread unlocks the stock and goes on
without it, and what it unlocks later may be another thread's. A freed block
keeps the words that the thread reads until it is allocated again. `missed`
remembers whether that has happened. `Whole` says that the ring is one circle of the
triggers that were set and not removed, and that each is in its owner's tree; until
a miss it always is (`RingIsWhole`), and after one a pass still ends unless, for good,
the ring is not whole or the trigger that the pass began with is no more in it
(`PassEnds`). The module has one stock: what the removal of another stock's
trigger takes out of the tree is in `Accounts`, and the ring is untouched by it.

**QuoteQueue.** A requester reads `returned` from the element that `qenq` gave it
after the element has become public; the quote thread may have freed it by
then, and `calloc` may have made it another request. `swept` remembers whether a
requester came too late; what is checked is what holds until then. Cells of
memory that nobody will read are all alike, so one of them stands for them in
`Calloc`. `noneConnected` is set when the load balancer's name is not resolved,
and, as in the code, never set back.

**QuoteFanout.** For each request the handler lets all workers ask the quote
server at once and takes the first reply. A reply is told by the request it answers and
by what it says (`MaxTexts`), since the server, asked again about the same request, may
give another price. The handler parses the buffer of a worker that goes on asking
(480-506 against 651), in two steps (`Parse`, `ParseRest`), between which the worker may
receive again. So a cached quote may have the price of one reply and the key of
another, and `QuoteRound`, which is a round as its caller sees it, does not promise
otherwise: each part is from a reply to the request at hand as long as the quote server
replies. After an empty reply (`ReceiveNothing`) it may be from an earlier request's, or the
handler ends.

The time a worker may wait for connections, `to`, is set before its loop (559-560);
`select` (622) counts it down and nothing sets it again. `left` is what remains of it: `Send`
and `Fail` may use up any part, `TimeOut` all. With nothing left `select` only looks whether
the connection is there already, so a worker whose server is not local may fail at line 638
for ever. `GiveUp` is the 20 tries of `recv`. `threadReturned` (404) is never initialised; it
is taken for a zeroed one, which is a usable mutex.

**LoadBalancer.** The cell of a stock is found by an address computed from the
letters of its name, and nothing else connects a request, a lock and a quote. A
quote is named by the number of the element of the queue it was fetched for, so
that it can be told for which stock and by which request; that it may be put together
of two replies to that request is in `QuoteRound`, and not seen here. A cell has a price,
a key and a time stamp, which `quote_handler` replaces one after the other. The
handler has the cell locked from before the fetch until all workers have
stopped; a connection looks into the cell under the same lock, twice for a QNR:
before it queues a request, and when its semaphore has been posted. The fetch is
one step here, with the outcomes of `QuoteRound` (`Fetch`, `FetchNothing`); that it ends is
assumed, on the condition under which `QuoteFanout` shows it.

**Workload.** `main` hashes the users of a script to threads and queues each line;
a thread sends one line and waits for REC. The server's side is
`connection_handler` of `NewUser`, whose one `recv` takes everything that has come and
handles the first string of it. DUMPLOG without a user names a file, which
`userSort` sends to thread 0. A connection may break, with what is on its way
either way arriving or not; the generator's thread then ends, and `main` goes on
queuing for it and joins it.

**LogPipeline.** The log thread keeps a line until the log server's REC has come
and otherwise connects and sends again. The log server records lines in a tree
that it writes to its file when it gets large, and a DUMPLOG goes to the end of
its queue until no user command has come for three seconds; the passing of
those three seconds is the action `Quiet`, which the next user command undoes. The
tree is written through a buffer of 16 MB; `mxmlSaveString` leaves out what does not fit,
and the tree is deleted all the same (`Flush`; `cut` remembers the lines). The comment at `logServer.c:496` speaks of a file named in the
command; the code, and the model, write `logOut`. The process being killed is
not modelled: it keeps its queue and tree in memory only.

## How they fit together

`NewUser` extends `CommandQueue`, and `CommandQueue` implements `SerialCommands`,
which is the assumption under which a command is one action of `Accounts`.
`DbQueue` justifies the other assumption there, that a bundle is executed as a
whole and before its requester goes on. `TriggerRing` is what `Accounts` takes as
a set of triggers and a visit, with the freed ones among them after a miss, `QuoteQueue` what it takes as a refreshed quote.
The answers that `QuoteQueue` gets from a load balancer are those of `QuoteService`,
which `LoadBalancer` implements, with a fetch as one step; `QuoteRound` says what
that step may do, and `QuoteFanout` implements it. `Workload` puts the generator in
front of `NewUser`, which then has the connections and the order of commands that
this client produces, in place of any.

## What is checked

| run | instance | shows |
|---|---|---|
| `accounts_one` | 1 user; the stocks ABB and ABC, of which ABB has quotes, of -1 and 2; amount 3, levels {1, 3}, money <= 6, shares <= 1, 2 triggers at a time, misses included | `Solvent`: a user that line 1225 has not reported has no debt and owes no shares, and can pay the pending order. `MoneyConserved`: the transactions table accounts for every cent, unless a freed trigger has been executed. `StoreAgrees`: rows and memory agree when nobody works on the user; of triggers, unless one was set where one is lost or a freed one executed. `LockReleased`: no bundle that the database rejects for ever |
| `accounts_oversold` | 1 user (violation) | a sell trigger takes the shares of a pending SELL, which then commits: finding |
| `web_pool` | 2 users, 2 threads of the pool, 2 command threads, 2 clients and 2 descriptors, 1 failing accept, 1 visit of the trigger thread, fair threads | permits, counter, locks and order are right, and `SerialCommands` is implemented; a socket has one holder and is open while it may be used; every client that is accepted is served, so every queued command is executed |
| `workload_script` | 2 users, 2 connections, 1 command thread, 3 scripts of 3 lines with and without DUMPLOG, 1 broken connection, 1 visit of the trigger thread, fair threads | `KeepsScript`: the server has each user's commands in the order of the script and none is left out between two. `RowsAreRight`: a new user's row follows the balance. `EveryLineExecuted`: every line is executed unless its connection breaks, and the generator ends |
| `db_requests` | 2 requesters, 2 writers, 2 requests each, 1 broken connection, fair threads | answers come after execution, elements are not used after `free`, only a broken connection executes twice, every request is answered |
| `ring_live` | 2 users, 2 triggers, misses included, fair threads | the ring is one circle of the triggers in the users' trees, and the one that is executed stays in its owner's tree, until the first miss; every command ends; a pass ends, after a miss too, unless for good the ring is not whole or the trigger it began with is gone from it while others remain |
| `ring_cancelled` | 1 user, 2 triggers (violation) | after a miss, a cancelled trigger is executed: finding |
| `quote_answers` | 2 requesters, 2 quote threads, 1 stock, 1 failure, fair threads | no element has two owners, each who waits has one answer under way, it comes after the price, and it comes |
| `balancer_quotes` | 2 connections, 2 handlers, the stocks ABA and BAA, 3 requests, quotes stale after one tick, 1 empty reply, fair threads | `CellsAreWhole`: nobody reads half of what one fetch has brought and half of another's. `QuoteOfItsStock`: a cell has quotes of its stock. `ServesQuotes`: `QuoteService` is implemented, so an answer is no older than its request allows. Every request is answered unless an empty reply has ended its handler |
| `fanout_rounds` | 2 workers, 3 requests, 2 texts, 1 empty reply, fair threads | nothing is left over between two requests and no worker asks about the last one; `Rounds`: `QuoteRound` is implemented, so every price and key is from a reply to its request until an empty reply; every request is answered unless an empty reply has ended the handler or all workers it waits for are out of time |
| `fanout_silent` | 1 worker, 2 requests (violation) | a connection closed without a reply passes the last reply on as this one: finding |
| `log_lines` | 1 server, 3 lines, 1 broken connection, fair threads | no acknowledged line is missing unless the buffer was too small, they are in order and each once unless the connection breaks, a DUMPLOG has all lines before it, and ends |

`TypeOK` is checked by the runs of `Accounts`, `CommandQueue` (in `web_pool`) and
`TriggerRing`, and proved for these three; in the other modules it documents the
range of the variables, and `DbQueueProofs` and `LoadBalancerProofs` prove it, or what
it says of domains.

*Bounds.* `MaxMoney` and `MaxShares` stop the client, not the server: at them
every command is still handled that does not need more, and prices and amounts
are chosen so that a sum buys a share, with change left, or, at a negative price, none.
Two stocks that differ in the last letter only are what it takes for the removal of one
to take the other's node; `MaxTriggers` = 2 lets one be lost while another is set, or gone while
another is in its place, and `TransIDs` tells those two apart.
`QuoteTo` = 0 or 1 gives valid and expired quotes and orders. One user is enough
in `Accounts`, because users share nothing there but stock prices, and the
trigger thread's quotes change those between the steps of a command as well.
Two users, two threads and two connections are the fewest for which a lock is
contended, the ring has a next user, and two messages of a connection are queued
while another connection's are. Two requesters and two writers let one writer
be busy while the other takes an element, and free one that the other's
requester follows. Two triggers of two users, put in and taken out again, let the
ring be empty, of one and of two; how it is for more is proved. Two quote threads the fewest that can hold two elements; two workers the fewest
of which one can be ahead of the other, and with three requests something left
over from one can reach the next but one. `MaxTexts` = 2: two replies to a request are enough to
differ. `Patience` = 1: of a worker's time it matters whether any is left. In the load balancer, two connections
and two handlers are the fewest for which two fetches of one cell meet, and the
addresses of the two stocks differ only by the order of the letters; the third
request comes when the first quote is stale. One command thread is enough in
`Workload`, where the question is which connection a command comes over; two are in
`web_pool`. Three lines let two users alternate, and a DUMPLOG come after or
between the commands of its own thread and of the other. `Limit` = 1 in place of 65536 lets the
tree be flushed between any two lines, and `Room` = 1 lets the buffer take a part of
it. `MaxVisits`, `MaxSent`, `MaxRequests`,
`MaxSockets`, `MaxErrors`, `MaxDrops`, `MaxBreaks`, `MaxFailures`, `MaxEmpty` and
`MaxLines`, and `MaxTime`, the clock of the load balancer, bound clients, the trigger thread and the network, never a server's
step; `MaxOpen` is the limit of descriptors that the process has. `Timely` cuts off
what comes after a state about which the run's properties say nothing.

*Fairness.* Threads are scheduled (weak fairness of each thread's steps), and
databases answer in the end. Nothing makes a client send, a connection break or
a trigger visit happen. In `web_pool` the trigger thread locks a user a bounded
number of times: it holds a user for moments and sleeps 10 seconds after a
pass, so it is not what makes a walk of the ring miss a user again and again.
`TriggerRing` and `LoadBalancer` assume that a thread gets a mutex that is free again
and again (strong fairness); without that a lock could be taken from a waiting thread for ever.
`QuoteFanout` assumes that a worker that asks the quote server again and again is answered,
since the code asks again without limit, and that it gets a connection as long as it has time
left for one (`SendInTime`); nothing is assumed of a worker whose time is up, and `OutOfTime` is the
exception in `EveryRequestAnswered`. `LoadBalancer` assumes that a fetch ends. In `Workload` the threads of both programs run;
nothing makes a connection break.

*Deadlock* is not checked where the bounded clients stop sending.

## Findings

* `transServer.c:1226` (`accounts_oversold`): a sell trigger and a pending SELL take the
  same shares.
* `transServer.c:1743` (`ring_cancelled`): after a missed lock the walk reads the ring
  unlocked and executes a trigger that has been cancelled.
* `loadBalancer.c:676` (`fanout_silent`): a connection closed without a reply is taken
  for a reply.

Others are known and covered by the condition of a property:

* `transServer.c:711`: `insertAcct` comes after the user can be found by other connections;
  `RowsAreRight` is checked where a user's commands come over one connection, as
  the generator sends them.
* `transServer.c:926`, 975, 1148, 1724: `quoteResp->returned` is read after the element may be
  freed (`swept`).
* `transServer.c:2044`: the removal of a trigger takes another stock's trigger out of its
  owner's tree (`lost`, `repeated`).
* `transServer.c:1783`: a cancelled buy trigger that is executed after a miss pays
  out twice (`revived`).
* `transServer.c:3143`: `noneConnected` is never set back.
* `loadBalancer.c:651`: a reply overwrites the buffer that 480-506 parse, so price and key
  may be of two replies; `QuoteRound` promises no more.
* `loadBalancer.c:622`: `to` is never set again, and a worker that has waited 20 ms in all for
  connections waits no more for any (`OutOfTime`).
* `logServer.c:516`, 570: 65536 lines of more than 256 bytes do not fit into the buffer that
  the tree is written through (`cut`).

## What is proved

All theorems hold for every value of the constants under the named assumptions
(finite sets of threads, users and connections; distinct names).

* `AccountsProofs`: `TypeCorrect`; `SolventAlways`: `Spec => []Solvent`. Solvency
  is not inductive: the invariant adds what BUY and SELL hold between reading the
  price and leaving the order (the cost is covered by the balance, the number is
  not negative), and that a pending order's cost is not negative; the arithmetic
  is that `p * (a \div p) <= a`. `StoreAlwaysAgrees`: `Spec => []StoreAgrees`. A row may
  differ from memory while its user is worked on; the invariant (`RowsAgree`) is that the
  rows as they will be when the bundle in flight has run are those of memory at
  every moment. The statements rely on there being one trigger of a type for a
  stock, and no shares without a `user_stock` record. The first is an invariant of the tree
  only (`TreeInv`: the tree has one at most, and the lost ones are in the ring); of the
  ring it follows until the user sets one where one is lost, or a freed one is
  executed, which is where the property ends. One lemma for each action that
  writes shows that its statements do to the rows what the action does to memory.
  `MoneyAlwaysConserved`: `Spec => []MoneyConserved`. What the transactions add up to is the
  balance and what the buy triggers hold, lost ones too, for every user that line 1225 has not
  reported and none of whose freed triggers has been executed, in the rows as they will be. The sum over the set of triggers
  is taken apart without an operator of the induction theorems: among the sets
  for which an equation fails there would be a smallest (`SmallestSet`), so a trigger more
  or less adds or takes its amount (`TotalAdd`, `TotalRemove`).
* `CommandQueueProofs`: `TypeCorrect`, `NeverNull`, `OneThreadPerUser`,
  `QueuedInOrder`, `PermitsAlwaysMatch`. The invariant adds that a permit exists
  only when there is a user (so `uList->curr` is not NULL), that a connection
  which is adding a user holds its lock, and the last number each connection has
  queued. `PermitsAlwaysMatch` counts the sets of commands, threads and
  connections step by step. `Refinement`: `Spec => Serial!Spec`, from the same
  invariants: `Cenq` is Submit, `Cdeq` is Begin, `Executed` is End, every other step
  stutters.
  The same module has the theorems about the two programs that are made of the
  server, whose invariants contain those above.
  `PoolIsServer`: `PoolSpec => Spec`, so all of the above holds for `WebPool` too.
  `OneHolderAlways`: `PoolSpec => []OneHolder`, for any number of descriptors, clients
  and threads of the pool. The invariant says the same of every command that a thread has
  received, queued or not yet (`HeldOnce`, `HeldOpen`), and that a command is at one place
  of one queue (`QueuedForOne`).
  `ScriptAlwaysKept`: `WorkloadSpec => []KeepsScript`, for any script, any number of
  threads and users, and whatever connections break. The invariant follows the
  lines of a thread from the script through its queue, the connection and the
  server to the user's queue (`Flows`): they are of this thread, at most one of them has
  been sent and not been answered, none is lost before the connection breaks, and
  what has reached the server has no gap; then that the commands that the server had
  over a connection are in their users' queues, but for the one being served.
  `RowsAlwaysRight`: `WorkloadSpec => []RowsAreRight`. A connection that has found a new user
  before its row is inserted would have to be another user's thread's, so while the
  row is missing nobody has a command queued for the user (`RowFirst`), and afterwards
  the row follows the balance (`RowFollows`).
* `DbQueueProofs`: `TypeCorrect`, `NeverUsedAfterFree`, `AnswerMeansRun`,
  `PermitsAlwaysMatch`, `RepeatsOnlyAfterDrop`. The invariant is the handshake: at every moment an
  element belongs to one pending requester and at most one writer, one of the
  two semaphores is at 0, and a post that is left over belongs to this request.
  For `RepeatsOnlyAfterDrop` it counts (`Bounded`): a request's statements are executed at most
  once more than connections have broken, not at all before they are in the
  buffer, and, until a `PQexec` of them has returned, no more often than
  connections have broken.

* `TriggerRingProofs`: `RingStaysWhole`: `Spec => []RingIsWhole`; `ExecutedLives`: `Spec =>
  []ExecutesLive`. What makes the ring one circle, and not several, is said
  without reachability: no proper part of it is closed under `next`; so no
  induction is needed, and the lemmas `Inserted` and `Removed` show that the four
  assignments of an insertion, and the two of a removal, keep it. The invariant
  (`Orderly`, which holds until a lock is missed) adds who holds the stock's lock
  and which owner's, that the trigger thread is at a trigger of the tree, and
  that a trigger's place in the tree leads to it. `TypeCorrect`: `Spec => []TypeOK`, after a
  miss too: the trigger that the thread steps from, tries, executes and removes is a
  block, freed or not, and never a null pointer (`Typed`).
* `LoadBalancerProofs`: `CellsStayWhole`, `QuotesOfOneStock`, for any number of
  connections, handlers, stocks and requests, as long as the quote server
  replies. The invariant follows a handler: it has a request, then the cell's
  lock, then the quote of its request, then half of it stored; and a cell's
  price was fetched for a stock of that address, its price and key by one fetch. `AddressIsOneToOne` is the
  arithmetic of three letters. `QuotesAreServed`: `Spec => ServesQuotes`, the refinement of
  `QuoteService`, whether or not the quote server replies. Its invariant (`Serving`) ties an
  element of the queue to the connection that waits for it, names the request it
  was queued for, and keeps the quote of a connection that has been woken no older than its
  request; so storing a time stamp is a Refresh that somebody waits for, and what
  is answered was fresh when it was asked for, or fetched since.

* `QuoteQueueProofs`: `OneOwnerAlways`, `OneAnswerAlways`, `AnswersHavePrices`. The invariant
  follows an element: the last of the queue is blank, every other open one names
  a requester and that requester's stock, no two the same requester; who waits
  has either an open element or a permit; and a thread that is about to post has
  put the requester among those whose stock is written. All but who owns a block
  holds until a requester comes too late (`swept`).

* `QuoteFanoutProofs`: `RoundsEnd`: `Spec => []RoundIsOver`, and `RoundsAreKept`: `Spec => Rounds`,
  the refinement of `QuoteRound`, for any number of workers and requests. The
  invariant goes through a round: who has the workers' mutexes in each part of
  it, and two counts. While the workers start, the posts of `quoteStart` and the
  workers that have passed it are the workers together; afterwards no more posts
  of `quoteFin` are left than workers that have stopped or are about to, so that
  those left over when the last mutex is back are at most `maxRequests`. What the
  buffers hold (replies to this or an earlier request; in every worker that reports one
  to this, as long as the server replies) then gives the refinement step by step: while the
  handler reads a buffer, it changes only to another reply to this request, so that
  price and key each are from one, though not from the same.

* `LogPipelineProofs`: `NothingIsLost`, `RecordedInOrder`, `DumpsAreComplete`, for any
  servers and any number of lines and breaks. The invariant has a part for each:
  what a log thread has been told is received is in the queue, in the tree, in the
  file, done or cut off (`AllThere`); the lines a server has logged before one that is in
  the queue are recorded or ahead of it there, so that a DUMPLOG that is put back
  any number of times still has them all in front of it (`QueueFollows`); a line is in
  the queue, the tree, the file and on its way, strays included, no more often in
  all than it may have been sent (`Counted`); and until a connection breaks the file, the
  tree, the queue and the line in the thread's hand are in order (`Ordered`). Flush
  and Settle are one relation there (`Moves`): of the lines, the first go to the
  file and the others are cut off, or all stay.

Every invariant that a passing run checks, and each of the three refinements, is
so proved for every value of the constants. Only model-checked: liveness (`LockReleased`,
`EveryClientServed`, `EveryLineExecuted`, `EveryRequestAnswered`, `PassEnds`, `EveryCommandEnds`,
`EveryDumpEnds`), which rests on fairness and is beyond the prover. Not settled by either:
what of the ring's order survives in `TriggerRing` after a missed lock, where the proofs
give the types only (`ring_cancelled` shows a trigger that is executed after its end).

## What is not modelled

`apache/`, `postgres/`, `mxml/` (third-party binaries, headers and manuals),
`Documents/`. They are nearly all of the repository's lines: the headers of
PostgreSQL and Apache are installed copies, of which `src/src` uses a dozen
functions, taken here as external. Of `src/src`, the four C programs are what
the modules are about.

In `transServer.c`: `removeUser` and `removeUserStock` (never called), string parsing
(`delimSep*`, `str2price` beyond "accepted or rejected"), the wording of logs and
replies, the search trees but for a user's tree of triggers, what DISPLAY_SUMMARY prints.
`dbRead_handler` is `dbWrite_handler` over again, the repetition after a broken
connection included, on a queue of its own: it is `DbQueue` with one writer.
`transServerWeb.c` repeats `transServer.c` but for the pool of sockets; only that is
mapped to its lines. In `logServer.c`: the XML, which lines are a user's, and the
process being killed, which loses its queue and tree. What two half-done
insertions into a ring leave, when two command threads are in it after a miss,
is open. The PHP pages are not modelled: a page waits for an answer that
`quickSend`, which at this commit only ever sends REC, does not give;
`reconnect.php` waits for HAVE where the server would say HAV.

## Plan

Modules, in this order; those marked are done.

1. `Accounts`, with `AccountsProofs` (done).
2. `CommandQueue`, `SerialCommands`, `NewUser`, `WebPool`, with `CommandQueueProofs`
   (done).
3. `DbQueue`, with `DbQueueProofs` (done).
4. `QuoteFanout` with `QuoteRound` and `QuoteFanoutProofs`, `TriggerRing` with `TriggerRingProofs`, `LogPipeline` with `LogPipelineProofs`,
   `QuoteQueue` with `QuoteQueueProofs` (done).
5. `LoadBalancer` with `QuoteService` and `LoadBalancerProofs` (done).
6. `Workload` (done).
7. `Prices`: `str2price`, `price2str` and `SqlValue` over bounded inputs, for TLC.

Theorems still worth proving: what the trigger thread may still rely on after a
missed lock.
