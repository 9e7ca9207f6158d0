------------------------------ MODULE Accounts ------------------------------
(***************************************************************************)
(* The trading accounts of one transaction server (src/src/transServer.c): *)
(* what command_handler does for each user command, what trigger_handler   *)
(* does when a trigger fires, and the rows both leave in the user's        *)
(* database.                                                               *)
(*                                                                         *)
(* A thread works on a user between pthread_mutex_trylock(&cUser->busy)    *)
(* and the unlock, so a command is one action, split where something else  *)
(* can be seen in between: BUY and SELL read the quoted price and, later,  *)
(* its time stamp ("priced"), and a command that changes the account waits *)
(* for a database writer ("writing", or "firing" when it is the trigger    *)
(* thread).  A refused command changes nothing and is a stuttering step,   *)
(* unless it has refreshed a quote or dropped an expired prompt.           *)
(*                                                                         *)
(* Time stamps are kept as ages, in clock ticks, and count no further than *)
(* QuoteTo + 1, "expired"; money is in cents, as in the code.              *)
(*                                                                         *)
(* The name of a stock is its sequence of letters: a user's triggers hang  *)
(* in a tree of letters, and removeTrigger frees places of that tree which *)
(* may be another stock's.  The ring of each stock, which the trigger      *)
(* thread walks, is here the set of its triggers; TriggerRing has the ring *)
(* itself.  A block of memory that has been freed is taken to hold its     *)
(* words still, as there.                                                  *)
(***************************************************************************)
EXTENDS Integers, Sequences, FiniteSetsExt

CONSTANTS
    Users,
    Letters,
    Stocks,     \* names, sequences of letters
    NoStock,    \* cUser->stockObj = NULL
    TransIDs,   \* tell a user's triggers on one stock and side apart
    Amounts,    \* the money in the commands, once str2price has accepted it
    Levels,     \* the levels in SET_*_TRIGGER
    Prices,     \* stock -> the prices in its quotes, -1 is one str2price rejects;
                \* bound: nobody asks for the quote of a stock that has none
    QuoteTo,    \* how long a quote is valid (28000 ms)
    MaxTriggers,  \* bound: a client has no more triggers at a time
    MaxMoney,   \* bound: a client stops at this much money
    MaxShares   \* bound: ... and at this many shares of a stock

ASSUME ConstantsAssumption ==
    /\ Stocks \subseteq Seq(Letters)
    /\ NoStock \notin Stocks
    /\ Amounts \subseteq Nat /\ Levels \subseteq Nat
    /\ Prices \in [Stocks -> SUBSET Int]
    /\ QuoteTo \in Nat
    /\ MaxTriggers \in Nat
    /\ MaxMoney \in Nat
    /\ MaxShares \in Nat

VARIABLES
    quote,      \* stock -> the quoted price, its age, and whether it was ever fetched
    balance,    \* user -> the balance, without the money reserved by buy triggers
    pending,    \* user -> the buy or sell that waits for COMMIT or CANCEL
    owned,      \* user -> the stocks the user has a user_stock record for
    num,        \* user -> stock -> the number in that record
    triggers,   \* user -> the triggers of the user in the rings of their stocks
    places,     \* user -> side -> the nodes of the trigger tree, by their letters
    lost,       \* user -> those triggers the tree does not lead to any more
    gone,       \* user -> freed triggers the trigger thread may still come upon
    pc,         \* user -> what the thread that holds cUser->busy is doing
    prompt,     \* user -> the locals of BUY and SELL once the price is read
    db,         \* user -> the user's rows in the database
    bundle,     \* user -> those rows once the statements in flight have run
    pass,       \* the trigger thread's cStock and quotePrice
    missed,     \* the stocks in whose ring it has failed to lock a user
    shorted,    \* the users for whom the check on line 1225 has printed
    repeated,   \* the users who have set a trigger where one was lost
    revived     \* the users one of whose freed triggers has been executed

treeVars == <<triggers, places, lost, gone>>
history == <<missed, shorted, repeated, revived>>
vars == <<quote, balance, pending, owned, num, treeVars, pc, prompt, db,
          bundle, pass, history>>

Sides == {"b", "s"}
Ages == 0 .. (QuoteTo + 1)
Expired(age) == age > QuoteTo
NoQuote == [price |-> 0, age |-> QuoteTo + 1, asked |-> FALSE]
NoPending == [buysell |-> 0, reserve |-> 0, no |-> 0, age |-> QuoteTo + 1,
              stock |-> NoStock]
NoPrompt == [buysell |-> 0, stock |-> NoStock, price |-> 0, no |-> 0]
NoPass == [stock |-> NoStock, price |-> 0]
NoRows == [balance |-> 0, stocks |-> {}, triggers |-> {}, ledger |-> 0]

OnPlace(ts, s, side) == {t \in ts : t.stock = s /\ t.type = side}

(* What getTrigger finds: a trigger of that stock and side, in the tree.   *)
InTree(u) == triggers[u] \ lost[u]
Placed(u, s, side) == OnPlace(InTree(u), s, side)
HasTrigger(u, s, side) == Placed(u, s, side) # {}

WithLevel(ts, s, side, prc) ==
    {IF t.stock = s /\ t.type = side THEN [t EXCEPT !.trig = prc] ELSE t : t \in ts}

-----------------------------------------------------------------------------
(* The SQL statements, as what they do to a user's rows.                   *)

UpdateBal(r, prc) == [r EXCEPT !.balance = prc]
InsertStk(r, s, n) == [r EXCEPT !.stocks = @ \cup {<<s, n>>}]
UpdateStk(r, s, n) ==
    [r EXCEPT !.stocks = {IF row[1] = s THEN <<s, n>> ELSE row : row \in @}]
InsertTrig(r, t) == [r EXCEPT !.triggers = @ \cup {t}]
UpdateTrig(r, s, side, prc) == [r EXCEPT !.triggers = WithLevel(@, s, side, prc)]
DeleteTrigEitherType(r, s, side) == [r EXCEPT !.triggers = {t \in @ : t.stock # s}]
DeleteTrig(r, s, side) == [r EXCEPT !.triggers = @ \ OnPlace(@, s, side)]

(* The table of transactions is kept as the sum of its adjustments: money  *)
(* added or earned (commands 'a', 's', 'h') less money spent ('b', 'g').   *)
InsertTran(r, adjustment) == [r EXCEPT !.ledger = @ + adjustment]

(* price2str writes -150 cents as "-1.0-50".  Unquoted in insertTran that  *)
(* is an expression, worth -51.00; quoted in updateBal it is no number at  *)
(* all and the bundle of statements fails.                                 *)
SqlValue(prc) ==
    IF prc >= 0 THEN prc ELSE -(100 * ((-prc) \div 100)) - 100 * ((-prc) % 100)
IsNumberNotZero(prc) == prc > 0
IsNumber(prc) == prc >= 0 \/ (-prc) % 100 = 0

-----------------------------------------------------------------------------
(* The trigger tree.                                                       *)

Begins(p, q) == Len(p) <= Len(q) /\ SubSeq(q, 1, Len(p)) = p
Prefixes(s) == {SubSeq(s, 1, i) : i \in 1 .. Len(s)}
Places == UNION {Prefixes(s) : s \in Stocks}

(* removeTrigger climbs from the node of s as long as the node it leaves   *)
(* has no trigger ("kept" are the stocks that keep theirs) and no child.   *)
(* Come to the node of the first i letters it frees a child of it: the one *)
(* for the last of these letters, s[i], where it has come up from the one  *)
(* for s[i + 1] (lines 2011 and 2044).                                     *)
FreedBelow(s, i) == Append(SubSeq(s, 1, i), s[i])
Bare(nodes, kept, s, i) ==
    /\ SubSeq(s, 1, i) \notin kept
    /\ \A p \in nodes : Begins(SubSeq(s, 1, i), p) /\ Len(p) = i + 1
                          => i < Len(s) /\ p = FreedBelow(s, i)
FreedPlaces(nodes, kept, s) ==
    {FreedBelow(s, i) : i \in {j \in 1 .. Len(s) - 1 :
                                 \A k \in j + 1 .. Len(s) : Bare(nodes, kept, s, k)}}
Hangs(p, freed) == \E q \in freed : Begins(q, p)

(* removeTrigger(t).  A lost trigger's "parent" is no node of the tree any *)
(* more; a freed trigger's is, and what is removed from there is the       *)
(* trigger set since.  What hangs from a freed node is lost.               *)
RemoveTrigger(u, t) ==
    LET out == IF t \in triggers[u] THEN {t} ELSE Placed(u, t.stock, t.type)
        others == {o \in InTree(u) \ out : o.type = t.type}
        freed == IF t \in lost[u] THEN {}
                 ELSE FreedPlaces(places[u][t.type], {o.stock : o \in others}, t.stock)
    IN  /\ triggers' = [triggers EXCEPT ![u] = @ \ out]
        /\ places' = [places EXCEPT ![u][t.type] = {p \in @ : ~Hangs(p, freed)}]
        /\ lost' = [lost EXCEPT ![u] = (@ \ out) \cup {o \in others : Hangs(o.stock, freed)}]
        /\ gone' = [gone EXCEPT ![u] = (@ \ {t}) \cup
                                        (IF t.stock \in missed THEN out ELSE {})]

-----------------------------------------------------------------------------
Quoted == [price : Int, age : Ages, asked : BOOLEAN]
Pass == [stock : Stocks, price : Nat \ {0}]
Pending == [buysell : {-1, 1}, reserve : Int, no : Int, age : Ages, stock : Stocks]
Prompted == [buysell : {-1, 1}, stock : Stocks, price : Nat \ {0}, no : Int]
Trigger == [stock : Stocks, type : Sides, amount : Nat, trig : Nat, trans : TransIDs]

TypeOK ==
    /\ quote \in [Stocks -> Quoted]
    /\ balance \in [Users -> Int]
    /\ pending \in [Users -> {NoPending} \cup Pending]
    /\ owned \in [Users -> SUBSET Stocks]
    /\ num \in [Users -> [Stocks -> Int]]
    /\ triggers \in [Users -> SUBSET Trigger]
    /\ places \in [Users -> [Sides -> SUBSET Places]]
    /\ lost \in [Users -> SUBSET Trigger] /\ gone \in [Users -> SUBSET Trigger]
    /\ pc \in [Users -> {"free", "priced", "writing", "firing"}]
    /\ prompt \in [Users -> {NoPrompt} \cup Prompted]
    /\ \A u \in Users : pc[u] = "priced" <=> prompt[u] # NoPrompt
    /\ pass \in {NoPass} \cup Pass
    /\ missed \subseteq Stocks
    /\ shorted \subseteq Users /\ repeated \subseteq Users /\ revived \subseteq Users

Init ==
    /\ quote = [s \in Stocks |-> NoQuote]
    /\ balance = [u \in Users |-> 0]
    /\ pending = [u \in Users |-> NoPending]
    /\ owned = [u \in Users |-> {}]
    /\ num = [u \in Users |-> [s \in Stocks |-> 0]]
    /\ triggers = [u \in Users |-> {}]
    /\ places = [u \in Users |-> [side \in Sides |-> {}]]
    /\ lost = [u \in Users |-> {}] /\ gone = [u \in Users |-> {}]
    /\ pc = [u \in Users |-> "free"]
    /\ prompt = [u \in Users |-> NoPrompt]
    /\ db = [u \in Users |-> NoRows]
    /\ bundle = [u \in Users |-> NoRows]
    /\ pass = NoPass
    /\ missed = {} /\ shorted = {} /\ repeated = {} /\ revived = {}

(* A command thread has taken u and one of u's commands.  Clients whose    *)
(* account has reached a bound send no more of them.                       *)
Command(u) ==
    /\ pc[u] = "free"
    /\ balance[u] \in -MaxMoney .. MaxMoney
    /\ db[u].ledger \in -MaxMoney .. MaxMoney
    /\ \A s \in Stocks : num[u][s] \in -MaxShares .. MaxShares

(* qenq, and the wait for quote_handler: the load balancer answers with a  *)
(* quote that is still valid, its own or a cached one.                     *)
Fetched(s) == [price : Prices[s], age : 0 .. QuoteTo, asked : {TRUE}]
Refreshed(s) == IF Expired(quote[s].age) THEN Fetched(s) ELSE {quote[s]}

(* dbenq and the wait for the writer, which runs the statements on u's     *)
(* rows and leaves r.                                                      *)
Write(u, r, who) ==
    /\ bundle' = [bundle EXCEPT ![u] = r]
    /\ pc' = [pc EXCEPT ![u] = who]

(* num shares of s more for u: addUserStock and insertStk, or updateStk.   *)
Acquire(u, s, n) ==
    /\ owned' = [owned EXCEPT ![u] = @ \cup {s}]
    /\ num' = [num EXCEPT ![u][s] = @ + n]
AcquireRows(u, s, n) ==
    IF s \in owned[u] THEN UpdateStk(db[u], s, num[u][s] + n) ELSE InsertStk(db[u], s, n)

(* The shares a sale of prc cents sells: enough to reach prc, or all.      *)
SharesToSell(u, s, prc, price) ==
    LET enough == prc \div price + 1
    IN  IF num[u][s] < enough THEN num[u][s] ELSE enough

-----------------------------------------------------------------------------
(* Commands.                                                               *)

Add(u, prc) ==
    /\ Command(u)
    /\ db[u].ledger + prc <= MaxMoney
    /\ balance' = [balance EXCEPT ![u] = @ + prc]
    /\ Write(u, InsertTran(UpdateBal(db[u], balance[u] + prc), prc), "writing")
    /\ UNCHANGED <<quote, pending, owned, num, treeVars, prompt, db, pass, history>>

(* QUOTE fetches a price once, and never again.                            *)
Quote(u, s) ==
    /\ Command(u)
    /\ ~quote[s].asked
    /\ \E q \in Fetched(s) : quote' = [quote EXCEPT ![s] = q]
    /\ UNCHANGED <<balance, pending, owned, num, treeVars, pc, prompt, db, bundle, pass, history>>

(* BUY and SELL up to "quotePrice = cStock->price" and the number of       *)
(* shares; the refusals after the quote (-21 and -11) keep the quote.      *)
Priced(u, s, side, q, n) ==
    /\ quote' = [quote EXCEPT ![s] = q]
    /\ IF q.price >= 1 /\ n # 0
       THEN /\ prompt' = [prompt EXCEPT ![u] =
                   [buysell |-> side, stock |-> s, price |-> q.price, no |-> n]]
            /\ pc' = [pc EXCEPT ![u] = "priced"]
       ELSE UNCHANGED <<prompt, pc>>
    /\ UNCHANGED <<balance, pending, owned, num, treeVars, db, bundle, pass, history>>

Buy(u, s, prc) ==
    /\ Command(u)
    /\ pending[u].buysell = 0
    /\ balance[u] >= prc
    /\ \E q \in Refreshed(s) : Priced(u, s, 1, q, prc \div q.price)

Sell(u, s, prc) ==
    /\ Command(u)
    /\ s \in owned[u] /\ num[u][s] # 0
    /\ pending[u].buysell = 0
    /\ \E q \in Refreshed(s) : Priced(u, s, -1, q, SharesToSell(u, s, prc, q.price))

(* The rest of BUY and SELL: prompt_time is the time stamp the stock has   *)
(* now, and the reply shows the price it has now.                          *)
Prompt(u) ==
    /\ pc[u] = "priced"
    /\ LET p == prompt[u]
       IN  pending' = [pending EXCEPT ![u] =
               [buysell |-> p.buysell, reserve |-> p.price * p.no, no |-> p.no,
                age |-> quote[p.stock].age, stock |-> p.stock]]
    /\ prompt' = [prompt EXCEPT ![u] = NoPrompt]
    /\ pc' = [pc EXCEPT ![u] = "free"]
    /\ UNCHANGED <<quote, balance, owned, num, treeVars, db, bundle, pass, history>>

(* COMMIT_BUY or COMMIT_SELL too late (-13), or CANCEL_BUY or CANCEL_SELL. *)
DropOnlyBuysell(u) ==
    /\ pending' = [pending EXCEPT ![u].buysell = 0]
    /\ UNCHANGED <<quote, balance, owned, num, treeVars, pc, prompt, db, bundle, pass, history>>
DropPending(u) ==
    /\ pending' = [pending EXCEPT ![u] = NoPending]
    /\ UNCHANGED <<quote, balance, owned, num, treeVars, pc, prompt, db, bundle, pass, history>>

CommitBuyExpired(u) ==
    Command(u) /\ pending[u].buysell = 1 /\ Expired(pending[u].age) /\ DropPending(u)
CommitSellExpired(u) ==
    Command(u) /\ pending[u].buysell = -1 /\ Expired(pending[u].age) /\ DropPending(u)
CancelBuy(u) == Command(u) /\ pending[u].buysell = 1 /\ DropPending(u)
CancelSell(u) == Command(u) /\ pending[u].buysell = -1 /\ DropPending(u)

CommitBuy(u) ==
    LET p == pending[u]
        new == balance[u] - p.reserve
    IN  /\ Command(u)
        /\ p.buysell = 1
        /\ ~Expired(p.age)
        /\ balance' = [balance EXCEPT ![u] = new]
        /\ Acquire(u, p.stock, p.no)
        /\ Write(u, InsertTran(UpdateBal(AcquireRows(u, p.stock, p.no), new), -p.reserve), "writing")
        /\ pending' = [pending EXCEPT ![u] = NoPending]
        /\ UNCHANGED <<quote, treeVars, prompt, db, pass, history>>

CommitSell(u) ==
    LET p == pending[u]
        new == balance[u] + p.reserve
        left == num[u][p.stock] - p.no
    IN  /\ Command(u)
        /\ p.buysell = -1
        /\ ~Expired(p.age)
        /\ p.stock \in owned[u]
        /\ balance' = [balance EXCEPT ![u] = new]
        /\ shorted' = IF left < 0 THEN shorted \cup {u} ELSE shorted
        /\ num' = [num EXCEPT ![u][p.stock] = left]
        /\ Write(u, InsertTran(UpdateStk(UpdateBal(db[u], new), p.stock, left),
                               SqlValue(p.reserve)), "writing")
        /\ pending' = [pending EXCEPT ![u] = NoPending]
        /\ UNCHANGED <<quote, owned, treeVars, prompt, db, pass, missed, repeated, revived>>

(* A new trigger; its level is 0, which never fires, until SET_*_TRIGGER.  *)
(* One that was lost is no hindrance: there are two from then on.          *)
Fresh(u, s, side) ==
    TransIDs \ {t.trans : t \in OnPlace(triggers[u] \cup gone[u], s, side)}
Few(u) == Cardinality(triggers[u] \cup gone[u]) < MaxTriggers
NewTrigger(u, s, side, prc) ==
    [stock |-> s, type |-> side, amount |-> prc, trig |-> 0,
     trans |-> CHOOSE id \in Fresh(u, s, side) : TRUE]

PlantTrigger(u, s, side, prc, r) ==
    /\ ~HasTrigger(u, s, side)
    /\ Few(u) /\ Fresh(u, s, side) # {}
    /\ triggers' = [triggers EXCEPT ![u] = @ \cup {NewTrigger(u, s, side, prc)}]
    /\ places' = [places EXCEPT ![u][side] = @ \cup Prefixes(s)]
    /\ repeated' = IF OnPlace(triggers[u], s, side) # {} THEN repeated \cup {u} ELSE repeated
    /\ Write(u, InsertTrig(r, NewTrigger(u, s, side, prc)), "writing")
    /\ UNCHANGED <<lost, gone, missed, shorted, revived>>
AddTriggerWhilePending(u, s, side, prc, r) == PlantTrigger(u, s, side, prc, r)
AddTrigger(u, s, side, prc, r) ==
    pending[u].buysell = 0 /\ PlantTrigger(u, s, side, prc, r)

SetBuyAmount(u, s, prc) ==
    /\ Command(u)
    /\ balance[u] >= prc
    /\ AddTrigger(u, s, "b", prc, UpdateBal(db[u], balance[u] - prc))
    /\ balance' = [balance EXCEPT ![u] = @ - prc]
    /\ UNCHANGED <<quote, pending, owned, num, prompt, db, pass>>

SetSellAmount(u, s, prc) ==
    /\ Command(u)
    /\ s \in owned[u]
    /\ AddTrigger(u, s, "s", prc, db[u])
    /\ UNCHANGED <<quote, balance, pending, owned, num, prompt, db, pass>>

SetTrigger(u, s, side, prc) ==
    /\ Command(u)
    /\ HasTrigger(u, s, side)
    /\ triggers' = [triggers EXCEPT ![u] = lost[u] \cup WithLevel(InTree(u), s, side, prc)]
    /\ Write(u, UpdateTrig(db[u], s, side, prc), "writing")
    /\ UNCHANGED <<quote, balance, pending, owned, num, places, lost, gone, prompt, db,
                   pass, history>>

CancelSetBuy(u, s) ==
    /\ Command(u)
    /\ \E t \in Placed(u, s, "b") :
          /\ balance' = [balance EXCEPT ![u] = @ + t.amount]
          /\ RemoveTrigger(u, t)
          /\ Write(u, DeleteTrig(UpdateBal(db[u], balance[u] + t.amount), s, "b"), "writing")
    /\ UNCHANGED <<quote, pending, owned, num, prompt, db, pass, history>>

CancelSetSell(u, s) ==
    /\ Command(u)
    /\ \E t \in Placed(u, s, "s") : RemoveTrigger(u, t)
    /\ Write(u, DeleteTrig(db[u], s, "s"), "writing")
    /\ UNCHANGED <<quote, balance, pending, owned, num, prompt, db, pass, history>>

-----------------------------------------------------------------------------
(* The trigger thread.  It reads one price for a whole pass over a stock's *)
(* triggers; it visits those whose user it can lock, in an order that is   *)
(* left open here, and waits for the database after each one that fires.   *)
(* Once it has missed a user's lock (line 1743) it reads the ring without  *)
(* the stock's: from then on it may come upon triggers that have been      *)
(* removed.                                                                *)

Firing == \E u \in Users : pc[u] = "firing"
InRing(s) == \E u \in Users : \E t \in triggers[u] \cup gone[u] : t.stock = s

StartPass(s) ==
    /\ pass = NoPass
    /\ InRing(s)
    /\ \E q \in Refreshed(s) :
          /\ quote' = [quote EXCEPT ![s] = q]
          /\ pass' = IF q.price >= 1 THEN [stock |-> s, price |-> q.price] ELSE NoPass
    /\ UNCHANGED <<balance, pending, owned, num, treeVars, pc, prompt, db, bundle, history>>

(* The owner of a trigger is in a command, perhaps one that is refused.    *)
Miss ==
    /\ pass # NoPass
    /\ ~Firing
    /\ InRing(pass.stock)
    /\ missed' = missed \cup {pass.stock}
    /\ UNCHANGED <<quote, balance, pending, owned, num, treeVars, pc, prompt, db, bundle,
                   pass, shorted, repeated, revived>>

(* "!sTrigger -> continue", or the last trigger of the ring was visited.   *)
EndPass ==
    /\ pass # NoPass
    /\ ~Firing
    /\ pass' = NoPass
    /\ UNCHANGED <<quote, balance, pending, owned, num, treeVars, pc, prompt, db, bundle, history>>

Visits(u, t) ==
    /\ pass.stock = t.stock
    /\ ~Firing
    /\ pc[u] = "free"
    /\ RemoveTrigger(u, t)
    /\ revived' = IF t \in triggers[u] THEN revived ELSE revived \cup {u}
    /\ UNCHANGED <<quote, pending, prompt, db, pass, missed, shorted, repeated>>

FireBuyKeepsChange(u, t) ==
    LET n == t.amount \div pass.price
    IN  /\ Visits(u, t)
        /\ t.type = "b" /\ pass.price < t.trig /\ n # 0
        /\ Acquire(u, t.stock, n)
        /\ Write(u, DeleteTrig(InsertTran(AcquireRows(u, t.stock, n), -pass.price * n),
                               t.stock, "b"), "firing")
        /\ UNCHANGED balance
FireBuy(u, t) ==
    LET n == t.amount \div pass.price
        tbuy == pass.price * n
        new == balance[u] + t.amount - tbuy
    IN  /\ Visits(u, t)
        /\ t.type = "b" /\ pass.price < t.trig /\ n # 0
        /\ Acquire(u, t.stock, n)
        /\ balance' = [balance EXCEPT ![u] = new]
        /\ Write(u, DeleteTrig(InsertTran(UpdateBal(AcquireRows(u, t.stock, n), new), -tbuy),
                               t.stock, "b"), "firing")

FireSell(u, t) ==
    LET n == SharesToSell(u, t.stock, t.amount, pass.price)
        tsell == pass.price * n
        new == balance[u] + tsell
        left == num[u][t.stock] - n
    IN  /\ Visits(u, t)
        /\ t.type = "s" /\ pass.price > t.trig /\ t.trig # 0
        /\ t.stock \in owned[u] /\ num[u][t.stock] # 0
        /\ num' = [num EXCEPT ![u][t.stock] = left]
        /\ balance' = [balance EXCEPT ![u] = new]
        /\ Write(u, DeleteTrig(InsertTran(UpdateBal(UpdateStk(db[u], t.stock, left), new),
                                          SqlValue(tsell)), t.stock, "s"), "firing")
        /\ UNCHANGED owned

-----------------------------------------------------------------------------
(* dbWrite_handler has run the statements of u and posted destReturned;    *)
(* a bundle the database rejects is sent again for ever.                   *)
DbDone(u) ==
    /\ pc[u] \in {"writing", "firing"}
    /\ IsNumber(bundle[u].balance)
    /\ db' = [db EXCEPT ![u] = bundle[u]]
    /\ bundle' = [bundle EXCEPT ![u] = NoRows]
    /\ pc' = [pc EXCEPT ![u] = "free"]
    /\ UNCHANGED <<quote, balance, pending, owned, num, treeVars, prompt, pass, history>>

Older(age) == IF Expired(age) THEN age ELSE age + 1

(* A tick of gettimeofday.                                                 *)
Tick ==
    /\ quote' = [s \in Stocks |-> [quote[s] EXCEPT !.age = Older(@)]]
    /\ pending' = [u \in Users |-> [pending[u] EXCEPT !.age = Older(@)]]
    /\ UNCHANGED <<balance, owned, num, treeVars, pc, prompt, db, bundle, pass, history>>

UserCommand(u) ==
    \/ \E prc \in Amounts : Add(u, prc)
    \/ \E s \in Stocks : Quote(u, s)
    \/ \E s \in Stocks, prc \in Amounts : Buy(u, s, prc)
    \/ \E s \in Stocks, prc \in Amounts : Sell(u, s, prc)
    \/ CommitBuyExpired(u)
    \/ CommitSellExpired(u)
    \/ CancelBuy(u)
    \/ CancelSell(u)
    \/ CommitBuy(u)
    \/ CommitSell(u)
    \/ \E s \in Stocks, prc \in Amounts : SetBuyAmount(u, s, prc)
    \/ \E s \in Stocks, prc \in Amounts : SetSellAmount(u, s, prc)
    \/ \E s \in Stocks, side \in Sides, prc \in Levels : SetTrigger(u, s, side, prc)
    \/ \E s \in Stocks : CancelSetBuy(u, s)
    \/ \E s \in Stocks : CancelSetSell(u, s)

Next ==
    \/ \E u \in Users : UserCommand(u)
    \/ \E u \in Users : Prompt(u)
    \/ \E u \in Users : DbDone(u)
    \/ \E s \in Stocks : StartPass(s)
    \/ \E u \in Users : \E t \in triggers[u] \cup gone[u] : FireBuy(u, t)
    \/ \E u \in Users : \E t \in triggers[u] \cup gone[u] : FireSell(u, t)
    \/ Miss
    \/ EndPass
    \/ Tick

Spec == Init /\ [][Next]_vars

(* Threads keep running and the databases keep answering: a thread that    *)
(* has read a price goes on, and a writer gets to every bundle.            *)
FairSpec ==
    /\ Spec
    /\ \A u \in Users : WF_vars(Prompt(u)) /\ WF_vars(DbDone(u))
-----------------------------------------------------------------------------
(* Properties.                                                             *)

(* A user line 1225 has never reported has no debt and owes no shares, and *)
(* a pending buy can be paid: transServer.c checks the balance in BUY and  *)
(* SET_BUY_AMOUNT and the shares in SELL, but neither again in COMMIT_BUY, *)
(* COMMIT_SELL or the trigger thread.                                      *)
SolventUser(u) ==
    /\ balance[u] >= 0
    /\ \A s \in Stocks : num[u][s] >= 0
    /\ pending[u].buysell = 1 => pending[u].reserve <= balance[u]
Solvent == \A u \in Users \ shorted : SolventUser(u)

(* The transactions table accounts for every cent: what was added, earned  *)
(* and spent is the balance and what the buy triggers hold, lost ones too, *)
(* in the rows once the statements in flight have run (insertTran and      *)
(* updateBal in every bundle that moves money).  This ends when the        *)
(* trigger thread executes a trigger that had been removed: what it held   *)
(* was given back, and is given again.                                     *)
RowsOf(u) == IF pc[u] \in {"writing", "firing"} THEN bundle[u] ELSE db[u]
HeldByTriggers(u) ==
    MapThenSumSet(LAMBDA t : t.amount, {t \in triggers[u] : t.type = "b"})
MoneyConserved ==
    \A u \in Users \ (shorted \cup revived) :
        RowsOf(u).ledger = balance[u] + HeldByTriggers(u)

(* The database holds what memory holds whenever nobody works on the user: *)
(* a server that reads the rows (addUser) finds the account as it is.  Of  *)
(* the triggers this is true, and lost ones have their row and are still   *)
(* in their ring, until the user sets one where one was lost, or a removed *)
(* one is executed: updateTrig and deleteTrig then find another's row.     *)
StoreAgrees ==
    \A u \in Users : pc[u] \in {"free", "priced"} =>
        /\ db[u].balance = balance[u]
        /\ db[u].stocks = {<<s, num[u][s]>> : s \in owned[u]}
        /\ u \notin repeated \cup revived => db[u].triggers = triggers[u]

(* Until a user is reported on line 1225 every lock on it is released: no  *)
(* bundle is one the database rejects for ever.                            *)
LockReleased == \A u \in Users : pc[u] # "free" ~> (pc[u] = "free" \/ u \in shorted)

(* SELL's reply promises "Enough money entered to sell # shares of <stock> *)
(* @ $$$ each. You have __ seconds to commit." (line 1173).                *)
SellStaysCovered ==
    \A u \in Users : pending[u].buysell = -1 => pending[u].no <= num[u][pending[u].stock]
=============================================================================
