--------------------------- MODULE AccountsProofs ---------------------------
(* Theorems about Accounts, for every set of users, stocks and prices.     *)
EXTENDS Accounts, FiniteSetTheorems, TLAPS

(* C's division rounds down: what is bought for a never costs more than a. *)
LEMMA DivBound ==
    ASSUME NEW a \in Nat, NEW p \in Int, p >= 1
    PROVE  /\ a \div p \in Nat
           /\ p * (a \div p) \in Nat
           /\ p * (a \div p) <= a
BY SMTT(30)

(* A product of natural numbers is one.                                    *)
LEMMA ProductNat ==
    ASSUME NEW p \in Int, NEW n \in Int, p >= 1, n >= 0
    PROVE  p * n \in Int /\ p * n >= 0
BY SMTT(30)

-----------------------------------------------------------------------------
(* Types.                                                                  *)

(* Amounts and levels are numbers, and NULL is no stock.                   *)
LEMMA ConstantFacts ==
    Amounts \subseteq Nat /\ Levels \subseteq Nat /\ NoStock \notin Stocks /\ QuoteTo \in Nat
BY ConstantsAssumption

(* What the quote server answers is a quote.                               *)
LEMMA FetchedType == ASSUME NEW s \in Stocks PROVE Fetched(s) \subseteq Quoted
<1> SUFFICES ASSUME NEW q \in Fetched(s) PROVE q \in Quoted
    OBVIOUS
<1>1. 0 .. QuoteTo \subseteq Ages /\ Prices[s] \subseteq Int
    BY ConstantsAssumption DEF Ages
<1>2. q.price \in Int /\ q.age \in Ages /\ q.asked \in BOOLEAN
    BY <1>1 DEF Fetched
<1> QED BY <1>2 DEF Fetched, Quoted

(* A refreshed quote is a quote.                                           *)
LEMMA RefreshedType ==
    ASSUME TypeOK, NEW s \in Stocks
    PROVE  Refreshed(s) \subseteq Quoted
<1>1. quote[s] \in Quoted
    BY DEF TypeOK
<1> QED BY <1>1, FetchedType DEF Refreshed

(* SELL and FireSell sell a whole number of shares.                        *)
LEMMA SharesType ==
    ASSUME TypeOK, NEW u \in Users, NEW s \in Stocks, NEW prc \in Nat,
           NEW price \in Int, price >= 1
    PROVE  SharesToSell(u, s, prc, price) \in Int
BY DivBound DEF TypeOK, SharesToSell

(* A tick takes an age to an age.                                          *)
LEMMA OlderType == \A age \in Ages : Older(age) \in Ages
BY ConstantsAssumption DEF Older, Ages, Expired

(* Changing the level of triggers leaves triggers.                         *)
LEMMA TriggersType ==
    ASSUME NEW ts \in SUBSET Trigger, NEW s, NEW side, NEW prc \in Nat
    PROVE  WithLevel(ts, s, side, prc) \in SUBSET Trigger
BY DEF WithLevel, Trigger

(* The tree, the rings and what has been freed keep their types.           *)
TreeType ==
    /\ triggers \in [Users -> SUBSET Trigger]
    /\ places \in [Users -> [Sides -> SUBSET Places]]
    /\ lost \in [Users -> SUBSET Trigger]
    /\ gone \in [Users -> SUBSET Trigger]

(* removeTrigger takes "out" from the rings and cuts "more" off the tree.  *)
Removes(u, t, out, more) ==
    /\ triggers' = [triggers EXCEPT ![u] = @ \ out]
    /\ lost' = [lost EXCEPT ![u] = (@ \ out) \cup more]
    /\ t \in triggers[u] => out = {t}

LEMMA RemoveFacts ==
    ASSUME TypeOK, NEW u \in Users, NEW t \in Trigger, RemoveTrigger(u, t)
    PROVE  /\ TreeType'
           /\ \E out \in SUBSET triggers[u] : \E more \in SUBSET (InTree(u) \ out) :
                 Removes(u, t, out, more)
<1> DEFINE out == IF t \in triggers[u] THEN {t} ELSE Placed(u, t.stock, t.type)
           others == {o \in InTree(u) \ out : o.type = t.type}
           freed == IF t \in lost[u] THEN {}
                    ELSE FreedPlaces(places[u][t.type], {o.stock : o \in others}, t.stock)
           more == {o \in others : Hangs(o.stock, freed)}
           kept == {p \in places[u][t.type] : ~Hangs(p, freed)}
           left == (gone[u] \ {t}) \cup (IF t.stock \in missed THEN out ELSE {})
<1>1. /\ triggers' = [triggers EXCEPT ![u] = @ \ out]
      /\ places' = [places EXCEPT ![u][t.type] = kept]
      /\ lost' = [lost EXCEPT ![u] = (@ \ out) \cup more]
      /\ gone' = [gone EXCEPT ![u] = left]
    BY DEF RemoveTrigger
<1>2. out \in SUBSET triggers[u] /\ more \in SUBSET (InTree(u) \ out)
    BY DEF Placed, OnPlace, InTree
<1>3. triggers[u] \in SUBSET Trigger /\ gone[u] \in SUBSET Trigger /\ lost[u] \in SUBSET Trigger
    BY DEF TypeOK
<1>4. kept \in SUBSET Places /\ t.type \in Sides
    <2>1. t.type \in Sides
        BY DEF Trigger
    <2>2. places[u][t.type] \in SUBSET Places
        BY <2>1 DEF TypeOK
    <2> HIDE DEF freed
    <2> QED BY <2>1, <2>2
<1>5. left \in SUBSET Trigger /\ more \in SUBSET Trigger /\ out \in SUBSET Trigger
    BY <1>2, <1>3 DEF InTree
<1>6. t \in triggers[u] => out = {t}
    OBVIOUS
<1> HIDE DEF out, more, kept, left
<1>7. TreeType'
    BY <1>1, <1>3, <1>4, <1>5 DEF TypeOK, TreeType
<1> QED BY <1>1, <1>2, <1>6, <1>7 DEF Removes

(* A new trigger is one, and no other of its user on its stock and side is *)
(* told apart by the same number.                                          *)
LEMMA NewTriggerType ==
    ASSUME NEW u \in Users, NEW s \in Stocks, NEW side \in Sides, NEW prc \in Nat,
           Fresh(u, s, side) # {}
    PROVE  LET t == NewTrigger(u, s, side, prc)
           IN  /\ t \in Trigger
               /\ t.stock = s /\ t.type = side /\ t.amount = prc
               /\ \A t1 \in OnPlace(triggers[u], s, side) : t1.trans # t.trans
<1> DEFINE id == CHOOSE i \in Fresh(u, s, side) : TRUE
<1>1. id \in Fresh(u, s, side)
    OBVIOUS
<1>2. id \in TransIDs /\ \A t1 \in OnPlace(triggers[u], s, side) : t1.trans # id
    <2> HIDE DEF id
    <2>1. OnPlace(triggers[u], s, side) \subseteq OnPlace(triggers[u] \cup gone[u], s, side)
        BY DEF OnPlace
    <2> QED BY <1>1, <2>1 DEF Fresh
<1>3. NewTrigger(u, s, side, prc) = [stock |-> s, type |-> side, amount |-> prc, trig |-> 0, trans |-> id]
    BY DEF NewTrigger
<1> HIDE DEF id
<1> QED BY <1>2, <1>3 DEF Trigger

(* SET_BUY_AMOUNT and SET_SELL_AMOUNT.                                     *)
LEMMA PlantFacts ==
    ASSUME TypeOK, NEW u \in Users, NEW s \in Stocks, NEW side \in Sides, NEW prc \in Nat,
           NEW r, AddTrigger(u, s, side, prc, r)
    PROVE  /\ TreeType'
           /\ NewTrigger(u, s, side, prc) \in Trigger
           /\ triggers' = [triggers EXCEPT ![u] = @ \cup {NewTrigger(u, s, side, prc)}]
           /\ lost' = lost
<1> DEFINE t == NewTrigger(u, s, side, prc)
<1>1. /\ Fresh(u, s, side) # {}
      /\ triggers' = [triggers EXCEPT ![u] = @ \cup {t}]
      /\ places' = [places EXCEPT ![u][side] = @ \cup Prefixes(s)]
      /\ UNCHANGED <<lost, gone>>
    BY DEF AddTrigger, PlantTrigger
<1>2. t \in Trigger
    BY <1>1, NewTriggerType
<1>3. Prefixes(s) \subseteq Places
    BY DEF Places
<1> HIDE DEF t
<1>4. TreeType'
    BY <1>1, <1>2, <1>3 DEF TypeOK, TreeType
<1> QED BY <1>1, <1>2, <1>4 DEF t

(* What is left of TypeOK when these are known.                            *)
Else ==
    /\ quote \in [Stocks -> Quoted]
    /\ balance \in [Users -> Int]
    /\ pending \in [Users -> {NoPending} \cup Pending]
    /\ owned \in [Users -> SUBSET Stocks]
    /\ num \in [Users -> [Stocks -> Int]]
    /\ pc \in [Users -> {"free", "priced", "writing", "firing"}]
    /\ prompt \in [Users -> {NoPrompt} \cup Prompted]
    /\ \A u \in Users : pc[u] = "priced" <=> prompt[u] # NoPrompt
    /\ pass \in {NoPass} \cup Pass
    /\ missed \subseteq Stocks
    /\ shorted \subseteq Users /\ repeated \subseteq Users /\ revived \subseteq Users

LEMMA TypeParts == (TypeOK <=> TreeType /\ Else) /\ (TypeOK' <=> TreeType' /\ Else')
BY DEF TypeOK, TreeType, Else

(* BUY and SELL leave a whole set of locals.                               *)
LEMMA PricedType ==
    ASSUME TypeOK, NEW u \in Users, NEW s \in Stocks, NEW side \in {-1, 1},
           NEW q \in Quoted, q.price >= 1, NEW n \in Int,
           Priced(u, s, side, q, n)
    PROVE  TypeOK'
<1> DEFINE p == [buysell |-> side, stock |-> s, price |-> q.price, no |-> n]
<1>1. p \in Prompted /\ p # NoPrompt
    <2>1. q.price \in Int
        BY DEF Quoted
    <2>2. p.buysell # 0 /\ NoPrompt.buysell = 0
        BY DEF NoPrompt
    <2> QED BY <2>1, <2>2 DEF Prompted
<1>2. prompt' \in [Users -> {NoPrompt} \cup Prompted]
    <2> HIDE DEF p
    <2>1. prompt' = prompt \/ prompt' = [prompt EXCEPT ![u] = p]
        BY DEF Priced, p
    <2> QED BY <1>1, <2>1 DEF TypeOK
<1>3. ASSUME NEW v \in Users PROVE pc'[v] = "priced" <=> prompt'[v] # NoPrompt
    <2> HIDE DEF p
    <2>1. \/ UNCHANGED <<prompt, pc>>
          \/ /\ prompt' = [prompt EXCEPT ![u] = p]
             /\ pc' = [pc EXCEPT ![u] = "priced"]
        BY DEF Priced, p
    <2> QED BY <1>1, <2>1 DEF TypeOK
<1> QED BY <1>2, <1>3 DEF TypeOK, Priced, treeVars, history

(* While the trigger thread visits a trigger it holds a price.             *)
LEMMA PassOn ==
    ASSUME TypeOK, NEW t \in Trigger, pass.stock = t.stock
    PROVE  pass.price \in Nat \ {0}
<1>1. pass \in Pass
    BY ConstantsAssumption DEF TypeOK, NoPass, Trigger
<1> QED BY <1>1 DEF Pass

(* Every field has its type, and a prompt, a pending order and a pass of   *)
(* the trigger thread are whole or absent.                                 *)
LEMMA TypeInit == Init => TypeOK
BY ConstantsAssumption DEF Init, TypeOK, Quoted, Ages, NoQuote, NoRows

(* Every command, trigger and tick keeps the types.                        *)
LEMMA TypeStep == TypeOK /\ [Next]_vars => TypeOK'
<1> SUFFICES ASSUME TypeOK, [Next]_vars PROVE TypeOK'
    OBVIOUS
<1> USE ConstantFacts
<1>1. CASE UNCHANGED vars
    BY <1>1 DEF TypeOK, vars, treeVars, history
<1>2. ASSUME NEW u \in Users, UserCommand(u) PROVE TypeOK'
    <2>1. ASSUME NEW prc \in Amounts, Add(u, prc) PROVE TypeOK'
        <3>1. prc \in Nat /\ balance' \in [Users -> Int]
            BY <2>1 DEF TypeOK, Add
        <3>2. /\ pc' \in [Users -> {"free", "priced", "writing", "firing"}] /\ prompt' = prompt
              /\ \A v \in Users : pc'[v] = "priced" <=> prompt'[v] # NoPrompt
            BY <2>1 DEF TypeOK, Command, Add, Write
        <3> QED
            BY <2>1, <3>1, <3>2 DEF TypeOK, Add, treeVars, history
    <2>2. ASSUME NEW s \in Stocks, Quote(u, s) PROVE TypeOK'
        BY <2>2, FetchedType DEF TypeOK, Command, Quote, treeVars, history
    <2>3. ASSUME NEW s \in Stocks, NEW prc \in Amounts, Buy(u, s, prc) PROVE TypeOK'
        <3>1. PICK q \in Refreshed(s) : Priced(u, s, 1, q, prc \div q.price)
            BY <2>3 DEF Buy
        <3>2. q \in Quoted
            BY RefreshedType
        <3>3. CASE q.price >= 1
            <4>1. prc \div q.price \in Int
                BY <3>2, <3>3, DivBound DEF Quoted
            <4> QED BY <3>1, <3>2, <3>3, <4>1, PricedType
        <3>4. CASE ~(q.price >= 1)
            BY <3>1, <3>2, <3>4 DEF TypeOK, Priced, treeVars, history
        <3> QED BY <3>3, <3>4
    <2>4. ASSUME NEW s \in Stocks, NEW prc \in Amounts, Sell(u, s, prc) PROVE TypeOK'
        <3>1. PICK q \in Refreshed(s) :
                  Priced(u, s, -1, q, SharesToSell(u, s, prc, q.price))
            BY <2>4 DEF Sell
        <3>2. q \in Quoted
            BY RefreshedType
        <3>3. CASE q.price >= 1
            <4>1. SharesToSell(u, s, prc, q.price) \in Int
                BY <3>2, <3>3, SharesType DEF Quoted
            <4> QED BY <3>1, <3>2, <3>3, <4>1, PricedType
        <3>4. CASE ~(q.price >= 1)
            BY <3>1, <3>2, <3>4 DEF TypeOK, Priced, treeVars, history
        <3> QED BY <3>3, <3>4
    <2>5. CASE \/ CommitBuyExpired(u) \/ CommitSellExpired(u)
               \/ CancelBuy(u) \/ CancelSell(u)
        BY <2>5 DEF TypeOK, CommitBuyExpired, CommitSellExpired, CancelBuy, CancelSell,
                    DropPending, treeVars, history
    <2>6. CASE CommitBuy(u)
        <3>1. pending[u] \in Pending
            BY <2>6 DEF TypeOK, CommitBuy, NoPending
        <3>2. pending[u].stock \in Stocks /\ pending[u].no \in Int /\ pending[u].reserve \in Int
            BY <3>1 DEF Pending
        <3> QED BY <2>6, <3>2 DEF TypeOK, Command, CommitBuy, Acquire, Write, treeVars, history
    <2>7. CASE CommitSell(u)
        <3>1. pending[u] \in Pending
            BY <2>7 DEF TypeOK, CommitSell, NoPending
        <3>2. pending[u].stock \in Stocks /\ pending[u].no \in Int /\ pending[u].reserve \in Int
            BY <3>1 DEF Pending
        <3>3. TreeType' /\ UNCHANGED missed
            BY <2>7 DEF TypeOK, TreeType, CommitSell, treeVars
        <3>4. balance' \in [Users -> Int] /\ num' \in [Users -> [Stocks -> Int]]
            BY <2>7, <3>2 DEF TypeOK, CommitSell
        <3>5. /\ pc[u] = "free" /\ pc' = [pc EXCEPT ![u] = "writing"]
              /\ pending' = [pending EXCEPT ![u] = NoPending]
              /\ shorted' \subseteq Users
              /\ UNCHANGED <<quote, owned, prompt, pass, repeated, revived>>
            BY <2>7 DEF TypeOK, Command, CommitSell, Write
        <3>6. Else'
            BY <3>3, <3>4, <3>5, TypeParts DEF Else
        <3> QED BY <3>3, <3>6, TypeParts
    <2>8. ASSUME NEW s \in Stocks, NEW prc \in Amounts, SetBuyAmount(u, s, prc) PROVE TypeOK'
        <3>1. TreeType'
            BY <2>8, PlantFacts DEF SetBuyAmount, Sides
        <3>2. balance' \in [Users -> Int]
            BY <2>8 DEF TypeOK, SetBuyAmount
        <3>3. pc[u] = "free" /\ pc' = [pc EXCEPT ![u] = "writing"]
            BY <2>8 DEF SetBuyAmount, AddTrigger, PlantTrigger, Write, Command
        <3>4. /\ UNCHANGED <<quote, pending, owned, num, prompt, pass, missed, shorted, revived>>
              /\ repeated' \subseteq Users
            BY <2>8 DEF SetBuyAmount, AddTrigger, PlantTrigger, TypeOK
        <3>5. Else'
            BY <3>2, <3>3, <3>4, TypeParts DEF Else
        <3> QED BY <3>1, <3>5, TypeParts
    <2>9. ASSUME NEW s \in Stocks, NEW prc \in Amounts, SetSellAmount(u, s, prc) PROVE TypeOK'
        <3>1. TreeType'
            BY <2>9, PlantFacts DEF SetSellAmount, Sides
        <3>2. pc[u] = "free" /\ pc' = [pc EXCEPT ![u] = "writing"]
            BY <2>9 DEF SetSellAmount, AddTrigger, PlantTrigger, Write, Command
        <3>3. /\ UNCHANGED <<quote, balance, pending, owned, num, prompt, pass, missed, shorted, revived>>
              /\ repeated' \subseteq Users
            BY <2>9 DEF SetSellAmount, AddTrigger, PlantTrigger, TypeOK
        <3>4. Else'
            BY <3>2, <3>3, TypeParts DEF Else
        <3> QED BY <3>1, <3>4, TypeParts
    <2>10. ASSUME NEW s \in Stocks, NEW side \in Sides, NEW prc \in Levels,
                  SetTrigger(u, s, side, prc)
           PROVE  TypeOK'
        <3>1. WithLevel(InTree(u), s, side, prc) \in SUBSET Trigger /\ lost[u] \in SUBSET Trigger
            BY TriggersType DEF TypeOK, InTree
        <3> QED BY <2>10, <3>1 DEF TypeOK, Command, SetTrigger, Write, history
    <2>11. ASSUME NEW s \in Stocks, CancelSetBuy(u, s) PROVE TypeOK'
        <3>1. PICK t \in Placed(u, s, "b") : balance' = [balance EXCEPT ![u] = @ + t.amount]
                                             /\ RemoveTrigger(u, t)
            BY <2>11 DEF CancelSetBuy
        <3>2. t \in Trigger
            BY DEF Placed, OnPlace, InTree, TypeOK
        <3>3. TreeType' /\ balance' \in [Users -> Int]
            BY <3>1, <3>2, RemoveFacts DEF TypeOK, Trigger
        <3>4. /\ pc[u] = "free" /\ pc' = [pc EXCEPT ![u] = "writing"]
              /\ UNCHANGED <<quote, pending, owned, num, prompt, pass, missed, shorted, repeated, revived>>
            BY <2>11 DEF CancelSetBuy, Command, Write, history
        <3>5. Else'
            BY <3>3, <3>4, TypeParts DEF Else
        <3> QED BY <3>3, <3>5, TypeParts
    <2>12. ASSUME NEW s \in Stocks, CancelSetSell(u, s) PROVE TypeOK'
        <3>1. PICK t \in Placed(u, s, "s") : RemoveTrigger(u, t)
            BY <2>12 DEF CancelSetSell
        <3>2. t \in Trigger
            BY DEF Placed, OnPlace, InTree, TypeOK
        <3>3. TreeType'
            BY <3>1, <3>2, RemoveFacts
        <3>4. /\ pc[u] = "free" /\ pc' = [pc EXCEPT ![u] = "writing"]
              /\ UNCHANGED <<quote, balance, pending, owned, num, prompt, pass, missed, shorted,
                             repeated, revived>>
            BY <2>12 DEF CancelSetSell, Command, Write, history
        <3>5. Else'
            BY <3>4, TypeParts DEF Else
        <3> QED BY <3>3, <3>5, TypeParts
    <2> QED BY <1>2, <2>1, <2>2, <2>3, <2>4, <2>5, <2>6, <2>7, <2>8, <2>9, <2>10,
               <2>11, <2>12 DEF UserCommand
<1>3. ASSUME NEW u \in Users, Prompt(u) PROVE TypeOK'
    <2> DEFINE p == prompt[u]
               new == [buysell |-> p.buysell, reserve |-> p.price * p.no, no |-> p.no,
                       age |-> quote[p.stock].age, stock |-> p.stock]
    <2>1. p \in Prompted
        BY <1>3 DEF TypeOK, Prompt
    <2>2. new \in Pending
        <3>1. quote[p.stock].price \in Int /\ quote[p.stock].age \in Ages
            BY <2>1 DEF TypeOK, Prompted, Quoted
        <3>2. p.price \in Int /\ p.no \in Int
            BY <2>1 DEF Prompted
        <3>3. p.price * p.no \in Int
            BY <3>2
        <3> QED BY <2>1, <3>1, <3>2, <3>3 DEF Pending, Prompted
    <2> HIDE DEF new
    <2>3. pending' = [pending EXCEPT ![u] = new]
        BY <1>3 DEF Prompt, new
    <2> QED BY <1>3, <2>2, <2>3 DEF TypeOK, Prompt, treeVars, history
<1>4. ASSUME NEW u \in Users, DbDone(u) PROVE TypeOK'
    BY <1>4 DEF TypeOK, DbDone, treeVars, history
<1>5. ASSUME NEW s \in Stocks, StartPass(s) PROVE TypeOK'
    <2>1. PICK q \in Refreshed(s) :
              /\ quote' = [quote EXCEPT ![s] = q]
              /\ pass' = IF q.price >= 1 THEN [stock |-> s, price |-> q.price] ELSE NoPass
        BY <1>5 DEF StartPass
    <2>2. q \in Quoted
        BY RefreshedType
    <2>3. pass' \in {NoPass} \cup Pass
        BY <2>1, <2>2 DEF Quoted, Pass
    <2> QED BY <1>5, <2>1, <2>2, <2>3 DEF TypeOK, StartPass, treeVars, history
<1>6. ASSUME NEW u \in Users, NEW t \in triggers[u] \cup gone[u], FireBuy(u, t) PROVE TypeOK'
    <2>1. t \in Trigger /\ TreeType'
        BY <1>6, RemoveFacts DEF TypeOK, FireBuy, Visits
    <2>2. t.stock \in Stocks /\ pass.price \in Nat \ {0} /\ t.amount \in Nat
        BY <1>6, <2>1, PassOn DEF FireBuy, Visits, Trigger
    <2> DEFINE n == t.amount \div pass.price
               tbuy == pass.price * n
    <2>3. n \in Int /\ tbuy \in Int
        BY <2>2, DivBound
    <2>4. /\ owned' = [owned EXCEPT ![u] = @ \cup {t.stock}]
          /\ num' = [num EXCEPT ![u][t.stock] = @ + n]
          /\ balance' = [balance EXCEPT ![u] = balance[u] + t.amount - tbuy]
        BY <1>6 DEF FireBuy, Acquire
    <2> HIDE DEF n, tbuy
    <2>5. /\ owned' \in [Users -> SUBSET Stocks] /\ num' \in [Users -> [Stocks -> Int]]
          /\ balance' \in [Users -> Int]
        BY <2>2, <2>3, <2>4 DEF TypeOK
    <2>6. /\ pc[u] = "free" /\ pc' = [pc EXCEPT ![u] = "firing"]
          /\ UNCHANGED <<quote, pending, prompt, pass, missed, shorted, repeated>>
          /\ revived' \subseteq Users
        BY <1>6 DEF FireBuy, Visits, Write, TypeOK
    <2>7. Else'
        BY <2>5, <2>6, TypeParts DEF Else
    <2> QED BY <2>1, <2>7, TypeParts
<1>7. ASSUME NEW u \in Users, NEW t \in triggers[u] \cup gone[u], FireSell(u, t) PROVE TypeOK'
    <2>1. t \in Trigger /\ TreeType'
        BY <1>7, RemoveFacts DEF TypeOK, FireSell, Visits
    <2>2. t.stock \in Stocks /\ pass.price \in Nat \ {0} /\ t.amount \in Nat
        BY <1>7, <2>1, PassOn DEF FireSell, Visits, Trigger
    <2> DEFINE n == SharesToSell(u, t.stock, t.amount, pass.price)
               tsell == pass.price * n
    <2>3. n \in Int
        BY <2>2, SharesType
    <2>4. tsell \in Int
        BY <2>2, <2>3
    <2>5. /\ num' = [num EXCEPT ![u][t.stock] = num[u][t.stock] - n]
          /\ balance' = [balance EXCEPT ![u] = balance[u] + tsell]
          /\ owned' = owned
        BY <1>7 DEF FireSell
    <2> HIDE DEF n, tsell
    <2>6. /\ num' \in [Users -> [Stocks -> Int]] /\ balance' \in [Users -> Int]
          /\ owned' \in [Users -> SUBSET Stocks]
        BY <2>2, <2>3, <2>4, <2>5 DEF TypeOK
    <2>7. /\ pc[u] = "free" /\ pc' = [pc EXCEPT ![u] = "firing"]
          /\ UNCHANGED <<quote, pending, prompt, pass, missed, shorted, repeated>>
          /\ revived' \subseteq Users
        BY <1>7 DEF FireSell, Visits, Write, TypeOK
    <2>8. Else'
        BY <2>6, <2>7, TypeParts DEF Else
    <2> QED BY <2>1, <2>8, TypeParts
<1>8. CASE EndPass
    BY <1>8 DEF TypeOK, EndPass, treeVars, history
<1>9. CASE Tick
    <2>1. ASSUME NEW s \in Stocks PROVE quote'[s] \in Quoted
        <3>1. quote[s] \in Quoted /\ quote'[s] = [quote[s] EXCEPT !.age = Older(@)]
            BY <1>9 DEF TypeOK, Tick
        <3> QED BY <3>1, OlderType DEF Quoted
    <2>2. ASSUME NEW u \in Users PROVE pending'[u] \in {NoPending} \cup Pending
        <3>1. pending'[u] = [pending[u] EXCEPT !.age = Older(@)]
            BY <1>9 DEF Tick
        <3>2. CASE pending[u] = NoPending
            BY <3>1, <3>2 DEF NoPending, Older, Expired
        <3>3. CASE pending[u] \in Pending
            BY <3>1, <3>3, OlderType DEF Pending
        <3> QED BY <3>2, <3>3 DEF TypeOK
    <2>3. quote' \in [Stocks -> Quoted] /\ pending' \in [Users -> {NoPending} \cup Pending]
        BY <1>9, <2>1, <2>2 DEF Tick
    <2> QED BY <1>9, <2>3 DEF TypeOK, Tick, treeVars, history
<1>10. CASE Miss
    <2>1. pass \in Pass
        BY <1>10 DEF TypeOK, Miss
    <2> QED BY <1>10, <2>1 DEF TypeOK, Miss, treeVars, Pass
<1> QED BY <1>1, <1>2, <1>3, <1>4, <1>5, <1>6, <1>7, <1>8, <1>9, <1>10 DEF Next

(* The fields of every account keep their types, whatever the commands,    *)
(* the quotes and the order in which threads work on the users.            *)
THEOREM TypeCorrect == Spec => []TypeOK
BY TypeInit, TypeStep, PTL DEF Spec

-----------------------------------------------------------------------------
(* Solvency.  The inductive invariant adds what BUY and SELL have in hand  *)
(* before they leave a pending order, and that an order is never for less  *)
(* than nothing.                                                           *)

Covered(u) ==
    /\ SolventUser(u)
    /\ pending[u].buysell # 0 => pending[u].no >= 0 /\ pending[u].reserve >= 0
    /\ prompt[u].buysell # 0 => prompt[u].no >= 0
    /\ prompt[u].buysell = 1 => prompt[u].price * prompt[u].no <= balance[u]

IndInv == TypeOK /\ \A u \in Users \ shorted : Covered(u)

(* Users whose money, shares and orders a step leaves alone stay covered.  *)
LEMMA Frame ==
    ASSUME NEW u \in Users, Covered(u),
           balance'[u] = balance[u], num'[u] = num[u], prompt'[u] = prompt[u],
           \/ pending'[u] = pending[u]
           \/ pending'[u] = NoPending
    PROVE  Covered(u)'
BY DEF Covered, SolventUser, NoPending

(* Users who gain money and owe no shares stay covered.                    *)
LEMMA MoreOfBoth ==
    ASSUME NEW u \in Users, TypeOK, TypeOK', Covered(u), balance'[u] >= balance[u],
           \A s \in Stocks : num'[u][s] >= 0,
           prompt'[u] = prompt[u], pending'[u] = pending[u]
    PROVE  Covered(u)'
<1>1. balance[u] \in Int /\ balance'[u] \in Int
    BY DEF TypeOK
<1>2. pending[u].buysell = 1 => pending[u].reserve \in Int
    BY DEF TypeOK, NoPending, Pending
<1>3. prompt[u].buysell = 1 => prompt[u].price * prompt[u].no \in Int
    <2>1. prompt[u].buysell = 1 => prompt[u].price \in Int /\ prompt[u].no \in Int
        BY DEF TypeOK, NoPrompt, Prompted
    <2> QED BY <2>1
<1> QED BY <1>1, <1>2, <1>3 DEF Covered, SolventUser

(* A balance that grows keeps a solvent user solvent.                      *)
LEMMA MoreMoney ==
    ASSUME NEW u \in Users, TypeOK, TypeOK', Covered(u), balance'[u] >= balance[u],
           num'[u] = num[u], prompt'[u] = prompt[u], pending'[u] = pending[u]
    PROVE  Covered(u)'
BY MoreOfBoth DEF Covered, SolventUser

(* A trigger that sells sells no more than the user owns.                  *)
LEMMA SharesBound ==
    ASSUME TypeOK, NEW u \in Users, NEW s \in Stocks, NEW prc \in Nat,
           NEW price \in Nat \ {0}, num[u][s] >= 0
    PROVE  SharesToSell(u, s, prc, price) \in 0 .. num[u][s]
<1>1. prc \div price \in Nat
    BY DivBound
<1> QED BY <1>1 DEF TypeOK, SharesToSell

(* A new account is in the invariant.                                      *)
LEMMA IndInit == Init => IndInv
<1> SUFFICES ASSUME Init PROVE IndInv
    OBVIOUS
<1>1. ASSUME NEW u \in Users PROVE Covered(u)
    BY DEF Init, Covered, SolventUser, NoPending, NoPrompt
<1> QED BY <1>1, TypeInit DEF IndInv

(* Every step keeps the invariant, one case for each action.               *)
LEMMA IndStep == IndInv /\ [Next]_vars => IndInv'
<1> SUFFICES ASSUME IndInv, [Next]_vars,
                    NEW v \in Users, v \notin shorted'
             PROVE  Covered(v)'
    BY TypeStep DEF IndInv
<1>1. TypeOK /\ TypeOK' /\ (v \notin shorted => Covered(v))
    BY TypeStep DEF IndInv
<1>2. balance[v] \in Int /\ num[v] \in [Stocks -> Int]
    BY <1>1 DEF TypeOK
<1> USE ConstantFacts
<1>3. CASE UNCHANGED vars
    BY <1>1, <1>3, Frame DEF vars, history
<1>4. ASSUME NEW u \in Users, UserCommand(u) PROVE Covered(v)'
    <2>1. ASSUME NEW prc \in Amounts, Add(u, prc) PROVE Covered(v)'
        <3>1. Covered(v) /\ UNCHANGED <<pending, num, prompt>>
            BY <1>1, <2>1 DEF Add, history
        <3>2. balance'[v] \in Int /\ balance'[v] >= balance[v]
            BY <1>1, <1>2, <2>1 DEF TypeOK, Add
        <3> QED BY <1>1, <1>2, <3>1, <3>2, MoreMoney
    <2>2. ASSUME NEW s \in Stocks, Quote(u, s) PROVE Covered(v)'
        BY <1>1, <2>2, Frame DEF Quote, history
    <2>3. ASSUME NEW s \in Stocks, NEW prc \in Amounts, Buy(u, s, prc) PROVE Covered(v)'
        <3>1. PICK q \in Refreshed(s) : Priced(u, s, 1, q, prc \div q.price)
            BY <2>3 DEF Buy
        <3>2. Covered(v) /\ UNCHANGED <<pending, num, balance>>
            BY <1>1, <3>1 DEF Priced, history
        <3>3. q \in Quoted
            BY <1>1, RefreshedType
        <3>4. CASE u = v /\ q.price >= 1 /\ prc \div q.price # 0
            <4>1. /\ prompt'[v].buysell = 1
                  /\ prompt'[v].price = q.price
                  /\ prompt'[v].no = prc \div q.price
                BY <1>1, <3>1, <3>4 DEF TypeOK, Priced
            <4>2. prc \div q.price >= 0 /\ q.price * (prc \div q.price) <= balance[v]
                <5>1. prc \in Nat /\ q.price \in Int /\ balance[v] >= prc /\ balance[v] \in Int
                    BY <1>2, <2>3, <3>3, <3>4 DEF Buy, Quoted
                <5>2. /\ prc \div q.price \in Nat
                      /\ q.price * (prc \div q.price) \in Nat
                      /\ q.price * (prc \div q.price) <= prc
                    BY <3>4, <5>1, DivBound
                <5> DEFINE n == prc \div q.price  cost == q.price * n
                <5> HIDE DEF n, cost
                <5>3. n >= 0 /\ cost <= balance[v]
                    BY <5>1, <5>2 DEF n, cost
                <5> QED BY <5>3 DEF n, cost
            <4> QED BY <3>2, <4>1, <4>2 DEF Covered, SolventUser
        <3>5. CASE ~(u = v /\ q.price >= 1 /\ prc \div q.price # 0)
            <4>1. prompt'[v] = prompt[v]
                BY <1>1, <3>1, <3>5 DEF TypeOK, Priced
            <4> QED BY <3>2, <4>1, Frame
        <3> QED BY <3>4, <3>5
    <2>4. ASSUME NEW s \in Stocks, NEW prc \in Amounts, Sell(u, s, prc) PROVE Covered(v)'
        <3> DEFINE n(q) == SharesToSell(u, s, prc, q.price)
        <3>1. PICK q \in Refreshed(s) : Priced(u, s, -1, q, n(q))
            BY <2>4 DEF Sell
        <3>2. Covered(v) /\ UNCHANGED <<pending, num, balance>>
            BY <1>1, <3>1 DEF Priced, history
        <3>3. q \in Quoted
            BY <1>1, RefreshedType
        <3>4. CASE u = v /\ q.price >= 1 /\ n(q) # 0
            <4>1. prompt'[v].buysell = -1 /\ prompt'[v].no = n(q)
                BY <1>1, <3>1, <3>4 DEF TypeOK, Priced
            <4>2. n(q) >= 0
                <5>1. prc \in Nat /\ q.price \in Nat \ {0} /\ num[u][s] >= 0
                    BY <3>2, <3>3, <3>4 DEF Covered, SolventUser, Quoted
                <5>2. n(q) \in 0 .. num[u][s]
                    BY <1>1, <5>1, SharesBound
                <5> QED BY <1>2, <3>4, <5>2
            <4> HIDE DEF n
            <4> QED BY <3>2, <4>1, <4>2 DEF Covered, SolventUser
        <3>5. CASE ~(u = v /\ q.price >= 1 /\ n(q) # 0)
            <4>1. prompt'[v] = prompt[v]
                BY <1>1, <3>1, <3>5 DEF TypeOK, Priced
            <4> QED BY <3>2, <4>1, Frame
        <3> QED BY <3>4, <3>5
    <2>5. CASE \/ CommitBuyExpired(u) \/ CommitSellExpired(u)
               \/ CancelBuy(u) \/ CancelSell(u)
        <3>1. /\ UNCHANGED <<balance, num, prompt, shorted>>
              /\ pending' = [pending EXCEPT ![u] = NoPending]
            BY <2>5 DEF CommitBuyExpired, CommitSellExpired, CancelBuy, CancelSell,
                         DropPending, history
        <3>2. pending'[v] = pending[v] \/ pending'[v] = NoPending
            BY <1>1, <3>1 DEF TypeOK
        <3> QED BY <1>1, <3>1, <3>2, Frame
    <2>6. CASE CommitBuy(u)
        <3>1. Covered(v) /\ UNCHANGED prompt
            BY <1>1, <2>6 DEF CommitBuy, history
        <3>2. CASE u # v
            <4>1. UNCHANGED <<balance[v], num[v], pending[v]>>
                BY <1>1, <2>6, <3>2 DEF TypeOK, CommitBuy, Acquire
            <4> QED BY <3>1, <4>1, Frame
        <3>3. CASE u = v
            <4> DEFINE p == pending[u]
            <4>1. p \in Pending /\ p.buysell = 1 /\ prompt[v] = NoPrompt
                BY <1>1, <2>6, <3>3 DEF TypeOK, CommitBuy, Command, NoPending
            <4>2. /\ p.no \in Nat /\ p.reserve \in Nat /\ p.stock \in Stocks
                  /\ p.reserve <= balance[v]
                BY <3>1, <3>3, <4>1 DEF Covered, SolventUser, Pending
            <4>3. /\ balance'[v] = balance[v] - p.reserve
                  /\ num'[v] = [num[v] EXCEPT ![p.stock] = @ + p.no]
                  /\ pending'[v] = NoPending
                BY <1>1, <2>6, <3>3 DEF TypeOK, CommitBuy, Acquire
            <4>4. \A s \in Stocks : num'[v][s] >= 0
                BY <1>2, <3>1, <4>2, <4>3 DEF Covered, SolventUser
            <4>5. balance'[v] >= 0
                BY <1>2, <4>2, <4>3
            <4> HIDE DEF p
            <4> QED BY <3>1, <4>1, <4>3, <4>4, <4>5 DEF Covered, SolventUser, NoPending, NoPrompt
        <3> QED BY <3>2, <3>3
    <2>7. CASE CommitSell(u)
        <3> DEFINE p == pending[u]
                   left == num[u][p.stock] - p.no
        <3>1. Covered(v) /\ UNCHANGED prompt /\ (left < 0 => u # v)
            BY <1>1, <2>7 DEF CommitSell
        <3>2. CASE u # v
            <4>1. UNCHANGED <<balance[v], num[v], pending[v]>>
                BY <1>1, <2>7, <3>2 DEF TypeOK, CommitSell
            <4> QED BY <3>1, <4>1, Frame
        <3>3. CASE u = v
            <4>1. p \in Pending /\ p.buysell = -1 /\ prompt[v] = NoPrompt
                BY <1>1, <2>7, <3>3 DEF TypeOK, CommitSell, Command, NoPending
            <4>2. p.no \in Nat /\ p.reserve \in Nat /\ p.stock \in Stocks
                BY <3>1, <3>3, <4>1 DEF Covered, SolventUser, Pending
            <4>3. left \in Int /\ left >= 0
                BY <1>2, <3>1, <3>3, <4>2
            <4>4. /\ balance'[v] = balance[v] + p.reserve
                  /\ num'[v] = [num[v] EXCEPT ![p.stock] = left]
                  /\ pending'[v] = NoPending
                BY <1>1, <2>7, <3>3 DEF TypeOK, CommitSell
            <4> HIDE DEF left, p
            <4>5. \A s \in Stocks : num'[v][s] >= 0
                BY <1>2, <3>1, <4>2, <4>3, <4>4 DEF Covered, SolventUser
            <4>6. balance'[v] >= 0
                BY <1>2, <3>1, <4>2, <4>4 DEF Covered, SolventUser
            <4> QED BY <3>1, <4>1, <4>4, <4>5, <4>6 DEF Covered, SolventUser, NoPending, NoPrompt
        <3> QED BY <3>2, <3>3
    <2>8. ASSUME NEW s \in Stocks, NEW prc \in Amounts, SetBuyAmount(u, s, prc)
          PROVE  Covered(v)'
        <3>1. Covered(v) /\ UNCHANGED <<num, prompt, pending>>
            BY <1>1, <2>8 DEF SetBuyAmount, AddTrigger, PlantTrigger
        <3>2. CASE u # v
            <4>1. UNCHANGED balance[v]
                BY <1>1, <2>8, <3>2 DEF TypeOK, SetBuyAmount
            <4> QED BY <3>1, <4>1, Frame
        <3>3. CASE u = v
            <4>1. /\ balance'[v] = balance[v] - prc /\ balance[v] >= prc
                  /\ pending[v].buysell = 0 /\ prompt[v] = NoPrompt
                BY <1>1, <2>8, <3>3 DEF TypeOK, SetBuyAmount, AddTrigger, PlantTrigger, Command
            <4>2. prc \in Int /\ balance'[v] >= 0
                <5>1. prc \in Int
                    OBVIOUS
                <5> QED BY <1>2, <4>1, <5>1
            <4> QED BY <3>1, <4>1, <4>2 DEF Covered, SolventUser, NoPrompt
        <3> QED BY <3>2, <3>3
    <2>9. ASSUME NEW s \in Stocks, NEW prc \in Amounts, SetSellAmount(u, s, prc)
          PROVE  Covered(v)'
        BY <1>1, <2>9, Frame DEF SetSellAmount, AddTrigger, PlantTrigger
    <2>10. ASSUME NEW s \in Stocks, NEW side \in Sides, NEW prc \in Levels,
                  SetTrigger(u, s, side, prc)
           PROVE  Covered(v)'
        BY <1>1, <2>10, Frame DEF SetTrigger, history
    <2>11. ASSUME NEW s \in Stocks, CancelSetBuy(u, s) PROVE Covered(v)'
        <3>1. Covered(v) /\ UNCHANGED <<num, prompt, pending>>
            BY <1>1, <2>11 DEF CancelSetBuy, history
        <3>2. balance'[v] >= balance[v]
            <4>1. PICK t \in Placed(u, s, "b") : balance' = [balance EXCEPT ![u] = @ + t.amount]
                BY <2>11 DEF CancelSetBuy
            <4>2. t.amount \in Nat
                BY <1>1 DEF TypeOK, Trigger, Placed, OnPlace, InTree
            <4> QED BY <1>1, <1>2, <4>1, <4>2 DEF TypeOK
        <3> QED BY <1>1, <3>1, <3>2, MoreMoney
    <2>12. ASSUME NEW s \in Stocks, CancelSetSell(u, s) PROVE Covered(v)'
        BY <1>1, <2>12, Frame DEF CancelSetSell, history
    <2> QED BY <1>4, <2>1, <2>2, <2>3, <2>4, <2>5, <2>6, <2>7, <2>8, <2>9, <2>10,
               <2>11, <2>12 DEF UserCommand
<1>5. ASSUME NEW u \in Users, Prompt(u) PROVE Covered(v)'
    <2>1. Covered(v) /\ UNCHANGED <<balance, num>>
        BY <1>1, <1>5 DEF Prompt, history
    <2>2. CASE u # v
        BY <1>1, <1>5, <2>1, <2>2, Frame DEF TypeOK, Prompt
    <2>3. CASE u = v
        <3> DEFINE p == prompt[v]
        <3>1. /\ pending'[v].buysell = p.buysell /\ pending'[v].no = p.no
              /\ pending'[v].reserve = p.price * p.no
              /\ prompt'[v] = NoPrompt
            BY <1>1, <1>5, <2>3 DEF TypeOK, Prompt
        <3>2. p \in Prompted
            BY <1>1, <1>5, <2>3 DEF TypeOK, Prompt
        <3>3. p.no \in Nat /\ p.price \in Nat /\ p.price >= 1 /\ p.buysell \in {-1, 1}
            BY <2>1, <3>2 DEF Covered, Prompted
        <3>4. p.price * p.no >= 0
            BY <3>3, ProductNat
        <3>5. p.buysell = 1 => p.price * p.no <= balance[v]
            BY <2>1 DEF Covered
        <3> HIDE DEF p
        <3> QED BY <2>1, <3>1, <3>3, <3>4, <3>5 DEF Covered, SolventUser, NoPrompt
    <2> QED BY <2>2, <2>3
<1>6. ASSUME NEW u \in Users, DbDone(u) PROVE Covered(v)'
    BY <1>1, <1>6, Frame DEF DbDone, history
<1>7. ASSUME NEW s \in Stocks, StartPass(s) PROVE Covered(v)'
    BY <1>1, <1>7, Frame DEF StartPass, history
<1>8. CASE EndPass
    BY <1>1, <1>8, Frame DEF EndPass, history
<1>9. ASSUME NEW u \in Users, NEW t \in triggers[u] \cup gone[u], FireBuy(u, t) PROVE Covered(v)'
    <2> DEFINE n == t.amount \div pass.price
               cost == pass.price * n
    <2>1. Covered(v) /\ UNCHANGED <<pending, prompt>>
        BY <1>1, <1>9 DEF FireBuy, Visits
    <2>2. t \in Trigger /\ pass.price \in Nat \ {0}
        BY <1>1, <1>9, PassOn DEF TypeOK, FireBuy, Visits
    <2>3. t.amount \in Nat /\ n \in Nat /\ cost \in Nat /\ cost <= t.amount
        BY <2>2, DivBound DEF Trigger
    <2>4. /\ balance' = [balance EXCEPT ![u] = balance[u] + t.amount - cost]
          /\ num' = [num EXCEPT ![u][t.stock] = @ + n]
        BY <1>9 DEF FireBuy, Acquire
    <2> HIDE DEF n, cost
    <2>5. balance'[v] >= balance[v]
        BY <1>1, <1>2, <2>3, <2>4 DEF TypeOK
    <2>6. \A s \in Stocks : num'[v][s] >= 0
        BY <1>1, <1>2, <2>1, <2>3, <2>4 DEF TypeOK, Covered, SolventUser
    <2> QED BY <1>1, <2>1, <2>5, <2>6, MoreOfBoth
<1>10. ASSUME NEW u \in Users, NEW t \in triggers[u] \cup gone[u], FireSell(u, t) PROVE Covered(v)'
    <2> DEFINE n == SharesToSell(u, t.stock, t.amount, pass.price)
               gain == pass.price * n
    <2>1. Covered(v) /\ UNCHANGED <<pending, prompt>>
        BY <1>1, <1>10 DEF FireSell, Visits
    <2>2. /\ balance' = [balance EXCEPT ![u] = balance[u] + gain]
          /\ num' = [num EXCEPT ![u][t.stock] = num[u][t.stock] - n]
        BY <1>10 DEF FireSell
    <2>3. CASE u # v
        BY <1>1, <2>1, <2>2, <2>3, Frame DEF TypeOK
    <2>4. CASE u = v
        <3>1. t \in Trigger /\ t.stock \in Stocks /\ t.amount \in Nat /\ pass.price \in Nat \ {0}
            BY <1>1, <1>10, PassOn DEF TypeOK, FireSell, Visits, Trigger
        <3>2. num[v][t.stock] \in Nat
            BY <1>2, <2>1, <3>1 DEF Covered, SolventUser
        <3>3. n \in 0 .. num[v][t.stock]
            BY <1>1, <2>4, <3>1, <3>2, SharesBound
        <3>4. gain \in Int /\ gain >= 0
            BY <3>1, <3>2, <3>3, ProductNat
        <3> HIDE DEF n, gain
        <3>5. balance'[v] >= balance[v]
            BY <1>1, <1>2, <2>2, <3>4 DEF TypeOK
        <3>6. \A s \in Stocks : num'[v][s] >= 0
            BY <1>1, <1>2, <2>1, <2>2, <2>4, <3>1, <3>2, <3>3 DEF TypeOK, Covered, SolventUser
        <3> QED BY <1>1, <2>1, <3>5, <3>6, MoreOfBoth
    <2> QED BY <2>3, <2>4
<1>11. CASE Tick
    <2>1. Covered(v) /\ UNCHANGED <<balance, num, prompt>>
        BY <1>1, <1>11 DEF Tick, history
    <2>2. pending'[v] = [pending[v] EXCEPT !.age = Older(@)]
        BY <1>11 DEF Tick
    <2>3. pending[v] \in {NoPending} \cup Pending
        BY <1>1 DEF TypeOK
    <2>4. /\ pending'[v].buysell = pending[v].buysell
          /\ pending'[v].no = pending[v].no
          /\ pending'[v].reserve = pending[v].reserve
        BY <2>2, <2>3 DEF Pending, NoPending
    <2> QED BY <2>1, <2>4 DEF Covered, SolventUser
<1>12. CASE Miss
    BY <1>1, <1>12, Frame DEF Miss
<1> QED BY <1>3, <1>4, <1>5, <1>6, <1>7, <1>8, <1>9, <1>10, <1>11, <1>12 DEF Next

(* A user line 1225 has never reported has no debt and owes no shares, and *)
(* a pending buy can be paid, whatever the commands, quotes and triggers.  *)
THEOREM SolventAlways == Spec => []Solvent
<1>1. IndInv => Solvent
    BY DEF IndInv, Covered, Solvent
<1> QED BY <1>1, IndInit, IndStep, PTL DEF Spec
-----------------------------------------------------------------------------
(* The money in a set of triggers.  MapThenSumSet is the value of a        *)
(* recursive function; its equation holds by induction on the set, in the  *)
(* form: among the sets for which it fails there would be a smallest.      *)

Total(ts) == MapThenSumSet(LAMBDA t : t.amount, ts)
First(ts) == CHOOSE t \in ts : TRUE
IsTotal(g, S) ==
    g = [ts \in SUBSET S |-> IF ts = {} THEN 0
                             ELSE First(ts).amount + g[ts \ {First(ts)}]]
Totals(S) == CHOOSE g : IsTotal(g, S)

(* Among some subsets of a finite set there is a smallest.                  *)
LEMMA SmallestSet ==
    ASSUME NEW S, IsFiniteSet(S), NEW T \in SUBSET SUBSET S, T # {}
    PROVE  \E s \in T : \A t \in T : t \subseteq s => t = s
<1>1. SUBSET S = FiniteSubsetsOf(S)
    BY FS_FiniteSubsetsOfFinite
<1>2. IsWellFoundedOn(StrictSubsetOrdering(S), SUBSET S)
    BY <1>1, FS_StrictSubsetOrderingWellFounded
<1>3. PICK s \in T : \A t \in T : <<t, s>> \notin StrictSubsetOrdering(S)
    BY <1>2, WFMin
<1>4. ASSUME NEW t \in T, t \subseteq s PROVE t = s
    BY <1>3, <1>4 DEF StrictSubsetOrdering
<1> QED BY <1>4

(* Total is the value of that function.                                    *)
LEMMA TotalIs == ASSUME NEW S PROVE Total(S) = Totals(S)[S]
  BY DEF Total, Totals, IsTotal, First, MapThenSumSet, MapThenFoldSet

(* There is one such function at most...                                   *)
LEMMA TotalUnique ==
    ASSUME NEW S, IsFiniteSet(S), NEW R, NEW g, NEW h, IsTotal(g, S), IsTotal(h, R),
           NEW ts \in SUBSET S, ts \in SUBSET R
    PROVE  g[ts] = h[ts]
<1> DEFINE Bad == {s \in SUBSET S : s \in SUBSET R /\ g[s] # h[s]}
<1> SUFFICES ASSUME Bad # {} PROVE FALSE
    OBVIOUS
<1>0. Bad \in SUBSET SUBSET S
    OBVIOUS
<1>1. PICK s \in Bad : \A t \in Bad : t \subseteq s => t = s
    <2> HIDE DEF Bad
    <2> QED BY <1>0, SmallestSet
<1>2. s # {}
    BY DEF IsTotal
<1>3. First(s) \in s
    BY <1>2 DEF First
<1>4. g[s \ {First(s)}] = h[s \ {First(s)}]
    BY <1>1, <1>3
<1> QED BY <1>1, <1>2, <1>4 DEF IsTotal

(* ... and there is one.                                                   *)
LEMMA TotalExists == ASSUME NEW S, IsFiniteSet(S) PROVE IsTotal(Totals(S), S)
<1> DEFINE Bad == {s \in SUBSET S : ~ \E g : IsTotal(g, s)}
<1>1. SUFFICES ASSUME Bad # {} PROVE FALSE
    <2>1. \E g : IsTotal(g, S)
        BY <1>1
    <2> QED BY <2>1 DEF Totals
<1>0. Bad \in SUBSET SUBSET S
    OBVIOUS
<1>2. PICK s \in Bad : \A t \in Bad : t \subseteq s => t = s
    <2> HIDE DEF Bad
    <2> QED BY <1>0, <1>1, SmallestSet
<1>3. \A t \in SUBSET s : t # s => IsTotal(Totals(t), t)
    BY <1>2 DEF Totals
<1> DEFINE g == [t \in SUBSET s |-> IF t = {} THEN 0
                   ELSE First(t).amount + Totals(t \ {First(t)})[t \ {First(t)}]]
<1>4. ASSUME NEW t \in SUBSET s, t # s PROVE g[t] = Totals(t)[t]
    <2>1. CASE t = {}
        BY <1>3, <1>4, <2>1 DEF IsTotal
    <2>2. CASE t # {}
        <3> DEFINE r == t \ {First(t)}
        <3>1. First(t) \in t
            BY <2>2 DEF First
        <3>2. IsTotal(Totals(t), t) /\ IsTotal(Totals(r), r) /\ IsFiniteSet(r)
            BY <1>2, <1>3, <1>4, <3>1, FS_Subset
        <3>3. Totals(r)[r] = Totals(t)[r]
            BY <3>2, TotalUnique
        <3>4. Totals(t)[t] = First(t).amount + Totals(t)[r]
            BY <2>2, <3>2 DEF IsTotal
        <3> QED BY <2>2, <3>3, <3>4
    <2> QED BY <2>1, <2>2
<1>5. IsTotal(g, s)
    <2>1. ASSUME NEW t \in SUBSET s, t # {} PROVE g[t] = First(t).amount + g[t \ {First(t)}]
        <3>1. First(t) \in t
            BY <2>1 DEF First
        <3>2. t \ {First(t)} \in SUBSET s /\ t \ {First(t)} # s
            BY <3>1
        <3>3. g[t \ {First(t)}] = Totals(t \ {First(t)})[t \ {First(t)}]
            BY <1>4, <3>2
        <3> QED BY <2>1, <3>3
    <2>2. g[{}] = 0
        OBVIOUS
    <2> QED BY <2>1, <2>2 DEF IsTotal
<1> QED BY <1>2, <1>5

(* So the sum is that of one trigger and of the others.                    *)
LEMMA TotalDef ==
    ASSUME NEW S, IsFiniteSet(S)
    PROVE  Total(S) = IF S = {} THEN 0 ELSE First(S).amount + Total(S \ {First(S)})
<1>1. IsTotal(Totals(S), S) /\ Total(S) = Totals(S)[S]
    BY TotalExists, TotalIs
<1>2. CASE S = {}
    BY <1>1, <1>2 DEF IsTotal
<1>3. CASE S # {}
    <2> DEFINE r == S \ {First(S)}
    <2>1. IsFiniteSet(r) /\ r \in SUBSET S
        BY FS_Subset
    <2>2. IsTotal(Totals(r), r) /\ Total(r) = Totals(r)[r]
        BY <2>1, TotalExists, TotalIs
    <2>3. Totals(r)[r] = Totals(S)[r]
        BY <1>1, <2>1, <2>2, TotalUnique
    <2>4. Totals(S)[S] = First(S).amount + Totals(S)[r]
        BY <1>1, <1>3 DEF IsTotal
    <2> QED BY <1>1, <1>3, <2>2, <2>3, <2>4
<1> QED BY <1>2, <1>3

(* It is a number,                                                         *)
LEMMA TotalInt ==
    ASSUME NEW S, IsFiniteSet(S), \A t \in S : t.amount \in Int
    PROVE  Total(S) \in Int
<1> DEFINE Bad == {s \in SUBSET S : Total(s) \notin Int}
<1>0. Bad \in SUBSET SUBSET S
    OBVIOUS
<1> SUFFICES ASSUME Bad # {} PROVE FALSE
    OBVIOUS
<1>1. PICK s \in Bad : \A t \in Bad : t \subseteq s => t = s
    <2> HIDE DEF Bad
    <2> QED BY <1>0, SmallestSet
<1>2. IsFiniteSet(s) /\ s \in SUBSET S
    BY <1>1, FS_Subset
<1>3. s # {} /\ Total(s) = First(s).amount + Total(s \ {First(s)})
    BY <1>1, <1>2, TotalDef
<1>4. First(s) \in s
    BY <1>3 DEF First
<1>5. Total(s \ {First(s)}) \in Int
    BY <1>1, <1>4
<1> QED BY <1>1, <1>2, <1>3, <1>4, <1>5

(* and the trigger may be any of them:                                     *)
LEMMA TotalRemove ==
    ASSUME NEW S, IsFiniteSet(S), \A t \in S : t.amount \in Int, NEW x \in S
    PROVE  Total(S) = x.amount + Total(S \ {x})
<1> DEFINE Bad == {s \in SUBSET S : \E y \in s : Total(s) # y.amount + Total(s \ {y})}
<1>0. Bad \in SUBSET SUBSET S
    OBVIOUS
<1> SUFFICES ASSUME Bad # {} PROVE FALSE
    OBVIOUS
<1>1. PICK s \in Bad : \A t \in Bad : t \subseteq s => t = s
    <2> HIDE DEF Bad
    <2> QED BY <1>0, SmallestSet
<1>2. PICK y \in s : Total(s) # y.amount + Total(s \ {y})
    BY <1>1
<1> DEFINE f == First(s)
<1>3. f \in s
    BY <1>2 DEF First
<1>4. IsFiniteSet(s) /\ \A t \in SUBSET s : IsFiniteSet(t) /\ \A e \in t : e.amount \in Int
    BY <1>1, FS_Subset
<1>5. Total(s) = f.amount + Total(s \ {f})
    BY <1>3, <1>4, TotalDef
<1>6. f # y
    BY <1>2, <1>5
<1> HIDE DEF f
<1>7. Total(s \ {f}) = y.amount + Total((s \ {f}) \ {y})
    <2>1. s \ {f} \in SUBSET S /\ s \ {f} # s /\ y \in s \ {f}
        BY <1>1, <1>2, <1>3, <1>6
    <2> QED BY <1>1, <2>1
<1>8. Total(s \ {y}) = f.amount + Total((s \ {y}) \ {f})
    <2>1. s \ {y} \in SUBSET S /\ s \ {y} # s /\ f \in s \ {y}
        BY <1>1, <1>2, <1>3, <1>6
    <2> QED BY <1>1, <2>1
<1> DEFINE r == (s \ {y}) \ {f}
<1>9. r = (s \ {f}) \ {y} /\ IsFiniteSet(r) /\ \A e \in r : e.amount \in Int
    BY <1>4
<1> HIDE DEF r
<1>10. f.amount \in Int /\ y.amount \in Int /\ Total(r) \in Int
    BY <1>2, <1>3, <1>4, <1>9, TotalInt
<1>11. Total(s) = f.amount + (y.amount + Total(r)) /\ Total(s \ {y}) = f.amount + Total(r)
    BY <1>5, <1>7, <1>8, <1>9 DEF r
<1>12. Total(s) = y.amount + (f.amount + Total(r))
    BY <1>10, <1>11
<1> QED BY <1>2, <1>11, <1>12

(* one trigger more adds its amount.                                       *)
LEMMA TotalAdd ==
    ASSUME NEW S, IsFiniteSet(S), \A t \in S : t.amount \in Int, NEW x, x \notin S, x.amount \in Int
    PROVE  Total(S \cup {x}) = x.amount + Total(S)
<1>1. IsFiniteSet(S \cup {x})
    BY FS_AddElement
<1>2. (S \cup {x}) \ {x} = S
    OBVIOUS
<1> QED BY <1>1, <1>2, TotalRemove
-----------------------------------------------------------------------------
(* The money held by triggers is that sum over those that buy.             *)
Buys(ts) == {t \in ts : t.type = "b"}
HeldIsTotal == \A u \in Users : HeldByTriggers(u) = Total(Buys(triggers[u]))

LEMMA HeldNow == HeldIsTotal
BY DEF HeldByTriggers, Total, Buys, HeldIsTotal

LEMMA HeldNext == HeldIsTotal'
BY HeldNow, PTL

LEMMA HeldSame ==
    ASSUME NEW u \in Users, Buys(triggers'[u]) = Buys(triggers[u])
    PROVE  HeldByTriggers(u)' = HeldByTriggers(u)
BY HeldNow, HeldNext DEF HeldIsTotal

(* What one trigger more, one less or another level means for the money    *)
(* that triggers hold.                                                     *)
Worth(t) == IF t.type = "b" THEN t.amount ELSE 0

LEMMA BuysFacts ==
    ASSUME NEW ts \in SUBSET Trigger, IsFiniteSet(ts)
    PROVE  /\ IsFiniteSet(Buys(ts))
           /\ \A t \in Buys(ts) : t.amount \in Int
           /\ Total(Buys(ts)) \in Int
<1>1. IsFiniteSet(Buys(ts)) /\ \A t \in Buys(ts) : t.amount \in Int
    BY FS_Subset DEF Buys, Trigger
<1> QED BY <1>1, TotalInt

LEMMA OneMore ==
    ASSUME NEW ts \in SUBSET Trigger, IsFiniteSet(ts), NEW t \in Trigger, t \notin ts
    PROVE  /\ IsFiniteSet(ts \cup {t})
           /\ Total(Buys(ts \cup {t})) = Worth(t) + Total(Buys(ts))
<1>1. IsFiniteSet(ts \cup {t})
    BY FS_AddElement
<1>2. t \notin Buys(ts) /\ t.amount \in Int
    BY DEF Buys, Trigger
<1>3. IsFiniteSet(Buys(ts)) /\ (\A e \in Buys(ts) : e.amount \in Int) /\ Total(Buys(ts)) \in Int
    BY BuysFacts
<1>4. CASE t.type = "b"
    <2>1. Buys(ts \cup {t}) = Buys(ts) \cup {t}
        BY <1>4 DEF Buys
    <2>2. Total(Buys(ts) \cup {t}) = t.amount + Total(Buys(ts))
        BY <1>2, <1>3, TotalAdd
    <2> QED BY <1>1, <1>4, <2>1, <2>2 DEF Worth
<1>5. CASE t.type # "b"
    <2>1. Buys(ts \cup {t}) = Buys(ts)
        BY <1>5 DEF Buys
    <2> QED BY <1>1, <1>3, <1>5, <2>1 DEF Worth
<1> QED BY <1>4, <1>5

LEMMA OneLess ==
    ASSUME NEW ts \in SUBSET Trigger, IsFiniteSet(ts), NEW t \in ts
    PROVE  /\ IsFiniteSet(ts \ {t})
           /\ Total(Buys(ts)) = Worth(t) + Total(Buys(ts \ {t}))
<1>1. IsFiniteSet(ts \ {t})
    BY FS_RemoveElement
<1> DEFINE r == ts \ {t}
<1>2. r \in SUBSET Trigger /\ t \in Trigger /\ t \notin r /\ r \cup {t} = ts
    OBVIOUS
<1> HIDE DEF r
<1>3. Total(Buys(r \cup {t})) = Worth(t) + Total(Buys(r))
    BY <1>1, <1>2, OneMore DEF r
<1> QED BY <1>1, <1>2, <1>3 DEF r

LEMMA OneForAnother ==
    ASSUME NEW ts \in SUBSET Trigger, IsFiniteSet(ts), NEW t \in ts,
           NEW new \in Trigger, Worth(new) = Worth(t), new \notin ts \ {t}
    PROVE  /\ IsFiniteSet((ts \ {t}) \cup {new})
           /\ Total(Buys((ts \ {t}) \cup {new})) = Total(Buys(ts))
<1> DEFINE r == ts \ {t}
<1>1. r \in SUBSET Trigger /\ new \notin r
    OBVIOUS
<1>2. IsFiniteSet(r) /\ Total(Buys(ts)) = Worth(t) + Total(Buys(r))
    BY OneLess
<1> HIDE DEF r
<1>3. IsFiniteSet(r \cup {new}) /\ Total(Buys(r \cup {new})) = Worth(new) + Total(Buys(r))
    BY <1>1, <1>2, OneMore
<1> QED BY <1>2, <1>3 DEF r

-----------------------------------------------------------------------------
(* The triggers of a user.  In the tree there is one of a type for a       *)
(* stock; so it is in the rings, until a trigger is set where one was lost *)
(* or a freed one is executed.  What is lost is still in a ring, and two   *)
(* triggers on one place are told apart.                                   *)

OneOfAType(ts) == \A t1, t2 \in ts : t1.stock = t2.stock /\ t1.type = t2.type => t1 = t2
Distinct(ts) == \A t1, t2 \in ts :
    t1.stock = t2.stock /\ t1.type = t2.type /\ t1.trans = t2.trans => t1 = t2
Plain(u) == u \notin repeated \cup revived
TreeOk(u) ==
    /\ lost[u] \subseteq triggers[u]
    /\ OneOfAType(InTree(u))
    /\ Distinct(triggers[u])
    /\ IsFiniteSet(triggers[u])
    /\ Plain(u) => OneOfAType(triggers[u])
TreeInv == \A u \in Users : TreeOk(u)

(* A step that changes the triggers of one user.                           *)
LEMMA OneTree ==
    ASSUME TreeInv, NEW u \in Users, TreeOk(u)',
           \A v \in Users : v # u => triggers'[v] = triggers[v] /\ lost'[v] = lost[v],
           repeated \subseteq repeated', revived \subseteq revived'
    PROVE  TreeInv'
<1> SUFFICES ASSUME NEW v \in Users, v # u PROVE TreeOk(v)'
    BY DEF TreeInv
<1>1. TreeOk(v) /\ triggers'[v] = triggers[v] /\ lost'[v] = lost[v] /\ (Plain(v)' => Plain(v))
    BY DEF TreeInv, Plain
<1> QED BY <1>1 DEF TreeOk, InTree

(* removeTrigger takes one trigger out of the rings, if it is in one.      *)
LEMMA RemoveKeepsTree ==
    ASSUME TypeOK, TreeInv, NEW u \in Users, NEW t \in Trigger, RemoveTrigger(u, t),
           repeated \subseteq repeated', revived \subseteq revived'
    PROVE  /\ TreeInv'
           /\ \A v \in Users : v # u => triggers'[v] = triggers[v]
           /\ t \in triggers[u] => triggers'[u] = triggers[u] \ {t}
<1>0. PICK out \in SUBSET triggers[u] :
          \E more \in SUBSET (InTree(u) \ out) : Removes(u, t, out, more)
    BY RemoveFacts
<1>1. PICK more \in SUBSET (InTree(u) \ out) : Removes(u, t, out, more)
    BY <1>0
<1>2. /\ triggers'[u] = triggers[u] \ out /\ lost'[u] = (lost[u] \ out) \cup more
      /\ \A v \in Users : v # u => triggers'[v] = triggers[v] /\ lost'[v] = lost[v]
      /\ t \in triggers[u] => out = {t}
    BY <1>1 DEF Removes, TypeOK
<1>3. TreeOk(u)
    BY DEF TreeInv
<1>4. lost'[u] \subseteq triggers'[u] /\ InTree(u)' \subseteq InTree(u) /\ triggers'[u] \subseteq triggers[u]
    BY <1>1, <1>2, <1>3 DEF TreeOk, InTree
<1>5. IsFiniteSet(triggers'[u])
    BY <1>3, <1>4, FS_Subset DEF TreeOk
<1>6. OneOfAType(InTree(u))' /\ Distinct(triggers'[u])
    BY <1>3, <1>4 DEF TreeOk, OneOfAType, Distinct
<1>7. Plain(u)' => OneOfAType(triggers'[u])
    BY <1>3, <1>4 DEF TreeOk, OneOfAType, Plain
<1>8. TreeOk(u)'
    BY <1>4, <1>5, <1>6, <1>7 DEF TreeOk
<1> QED BY <1>2, <1>8, OneTree

(* A trigger is set where the tree has none.                               *)
LEMMA PlantKeepsTree ==
    ASSUME TypeOK, TreeInv, NEW u \in Users, NEW s \in Stocks, NEW side \in Sides, NEW prc \in Nat,
           NEW r, AddTrigger(u, s, side, prc, r)
    PROVE  LET t == NewTrigger(u, s, side, prc)
           IN  /\ TreeInv'
               /\ t \in Trigger /\ t \notin triggers[u]
               /\ t.type = side /\ t.amount = prc
               /\ triggers'[u] = triggers[u] \cup {t}
               /\ \A v \in Users : v # u => triggers'[v] = triggers[v]
               /\ repeated \subseteq repeated' /\ UNCHANGED revived
<1> DEFINE t == NewTrigger(u, s, side, prc)
<1>1. /\ t \in Trigger /\ t.stock = s /\ t.type = side /\ t.amount = prc
      /\ \A t1 \in OnPlace(triggers[u], s, side) : t1.trans # t.trans
    BY NewTriggerType DEF AddTrigger, PlantTrigger
<1>2. t \notin triggers[u]
    BY <1>1 DEF OnPlace
<1>3. triggers' = [triggers EXCEPT ![u] = @ \cup {t}] /\ lost' = lost
    BY PlantFacts
<1>4. /\ repeated' = IF OnPlace(triggers[u], s, side) # {} THEN repeated \cup {u} ELSE repeated
      /\ UNCHANGED revived /\ OnPlace(InTree(u), s, side) = {}
    BY DEF AddTrigger, PlantTrigger, HasTrigger, Placed
<1> HIDE DEF t
<1>5. /\ triggers'[u] = triggers[u] \cup {t}
      /\ \A v \in Users : v # u => triggers'[v] = triggers[v]
    BY <1>3 DEF TypeOK
<1>6. TreeOk(u)
    BY DEF TreeInv
<1>7. IsFiniteSet(triggers'[u]) /\ lost'[u] \subseteq triggers'[u]
    BY <1>3, <1>5, <1>6, FS_AddElement DEF TreeOk
<1>8. Distinct(triggers'[u])
    BY <1>1, <1>5, <1>6 DEF TreeOk, Distinct, OnPlace
<1>9. OneOfAType(InTree(u))'
    <2>1. InTree(u)' \subseteq InTree(u) \cup {t}
        BY <1>3, <1>5 DEF InTree
    <2> QED BY <1>1, <1>4, <1>6, <2>1 DEF TreeOk, OneOfAType, OnPlace
<1>10. Plain(u)' => OneOfAType(triggers'[u])
    <2>1. Plain(u)' => Plain(u) /\ OnPlace(triggers[u], s, side) = {}
        BY <1>4 DEF Plain
    <2> QED BY <1>1, <1>5, <1>6, <2>1 DEF TreeOk, OneOfAType, OnPlace
<1>11. TreeOk(u)'
    BY <1>7, <1>8, <1>9, <1>10 DEF TreeOk
<1>12. TreeInv'
    BY <1>3, <1>4, <1>5, <1>11, OneTree
<1> QED BY <1>1, <1>2, <1>4, <1>5, <1>12 DEF t

(* SET_*_TRIGGER puts a trigger with another level in the place of the one *)
(* the tree has; updateTrig does the same to the rows, if it is alone.     *)
Relevelled(u, t, new, s, side, prc) ==
    /\ Worth(new) = Worth(t) /\ new \notin triggers[u] \ {t}
    /\ triggers'[u] = (triggers[u] \ {t}) \cup {new}
    /\ Plain(u) => WithLevel(triggers[u], s, side, prc) = triggers'[u]

LEMMA LevelKeepsTree ==
    ASSUME TypeOK, TreeInv, NEW u \in Users, NEW s \in Stocks, NEW side \in Sides, NEW prc \in Levels,
           SetTrigger(u, s, side, prc)
    PROVE  /\ TreeInv'
           /\ \A v \in Users : v # u => triggers'[v] = triggers[v]
           /\ \E t \in triggers[u] : \E new \in Trigger : Relevelled(u, t, new, s, side, prc)
<1>1. PICK t \in InTree(u) : t.stock = s /\ t.type = side
    BY DEF SetTrigger, HasTrigger, Placed, OnPlace
<1> DEFINE new == [t EXCEPT !.trig = prc]
<1>2. TreeOk(u) /\ triggers[u] \in SUBSET Trigger /\ prc \in Nat
    BY ConstantFacts DEF TreeInv, TypeOK
<1>3. /\ t \in triggers[u] /\ t \notin lost[u] /\ t \in Trigger /\ new \in Trigger
      /\ new.stock = s /\ new.type = side /\ new.amount = t.amount /\ new.trans = t.trans
    BY <1>1, <1>2 DEF InTree, Trigger
<1>4. \A t1 \in InTree(u) : t1.stock = s /\ t1.type = side <=> t1 = t
    BY <1>1, <1>2 DEF TreeOk, OneOfAType
<1>5. WithLevel(InTree(u), s, side, prc) = (InTree(u) \ {t}) \cup {new}
    BY <1>1, <1>4 DEF WithLevel
<1>6. /\ triggers' = [triggers EXCEPT ![u] = lost[u] \cup WithLevel(InTree(u), s, side, prc)]
      /\ UNCHANGED <<lost, repeated, revived>>
    BY DEF SetTrigger, history
<1> HIDE DEF new
<1>7. /\ triggers'[u] = (triggers[u] \ {t}) \cup {new}
      /\ \A v \in Users : v # u => triggers'[v] = triggers[v]
    BY <1>2, <1>3, <1>5, <1>6 DEF TreeOk, TypeOK, InTree
<1>8. \A t1 \in triggers[u] \ {t} : ~(t1.stock = s /\ t1.type = side /\ t1.trans = new.trans)
    BY <1>1, <1>2, <1>3 DEF TreeOk, Distinct
<1>9. new \notin triggers[u] \ {t}
    BY <1>3, <1>8
<1>10. IsFiniteSet(triggers'[u]) /\ lost'[u] \subseteq triggers'[u]
    <2>1. IsFiniteSet(triggers[u] \ {t})
        BY <1>2, FS_RemoveElement DEF TreeOk
    <2>2. IsFiniteSet(triggers'[u])
        BY <1>7, <2>1, FS_AddElement
    <2> QED BY <1>2, <1>3, <1>6, <1>7, <2>2 DEF TreeOk
<1>11. Distinct(triggers'[u])
    BY <1>2, <1>3, <1>7, <1>8 DEF TreeOk, Distinct
<1>12. OneOfAType(InTree(u))'
    <2>1. InTree(u)' \subseteq (InTree(u) \ {t}) \cup {new}
        BY <1>6, <1>7 DEF InTree
    <2> QED BY <1>2, <1>3, <1>4, <2>1 DEF TreeOk, OneOfAType
<1>13. Plain(u) => \A t1 \in triggers[u] : t1.stock = s /\ t1.type = side <=> t1 = t
    BY <1>1, <1>2, <1>3 DEF TreeOk, OneOfAType
<1>14. Plain(u)' => OneOfAType(triggers'[u])
    <2>1. Plain(u)' => Plain(u)
        BY <1>6 DEF Plain
    <2> QED BY <1>2, <1>3, <1>7, <1>13, <2>1 DEF TreeOk, OneOfAType
<1>15. TreeOk(u)'
    BY <1>10, <1>11, <1>12, <1>14 DEF TreeOk
<1>16. TreeInv'
    BY <1>6, <1>7, <1>15, OneTree DEF TypeOK
<1>17. Plain(u) => WithLevel(triggers[u], s, side, prc) = triggers'[u]
    BY <1>3, <1>7, <1>13 DEF WithLevel, new
<1>18. Worth(new) = Worth(t)
    BY <1>1, <1>3 DEF Worth
<1> QED BY <1>3, <1>7, <1>9, <1>16, <1>17, <1>18 DEF Relevelled

(* Every step keeps the triggers so.                                       *)
LEMMA TreeStep == TypeOK /\ TreeInv /\ [Next]_vars => TreeInv'
<1> SUFFICES ASSUME TypeOK, TreeInv, [Next]_vars PROVE TreeInv'
    OBVIOUS
<1>0. UNCHANGED treeVars /\ UNCHANGED <<repeated, revived>> => TreeInv'
    BY DEF treeVars, TreeInv, TreeOk, InTree, Plain
<1>1. ASSUME NEW u \in Users, UserCommand(u) PROVE TreeInv'
    <2>1. ASSUME NEW s \in Stocks, NEW prc \in Amounts, SetBuyAmount(u, s, prc) PROVE TreeInv'
        BY <2>1, PlantKeepsTree, ConstantFacts DEF SetBuyAmount, Sides
    <2>2. ASSUME NEW s \in Stocks, NEW prc \in Amounts, SetSellAmount(u, s, prc) PROVE TreeInv'
        BY <2>2, PlantKeepsTree, ConstantFacts DEF SetSellAmount, Sides
    <2>3. ASSUME NEW s \in Stocks, CancelSetBuy(u, s) PROVE TreeInv'
        <3>1. PICK t \in Placed(u, s, "b") : RemoveTrigger(u, t)
            BY <2>3 DEF CancelSetBuy
        <3>2. t \in Trigger /\ UNCHANGED <<repeated, revived>>
            BY <2>3 DEF Placed, OnPlace, InTree, TypeOK, CancelSetBuy, history
        <3> QED BY <3>1, <3>2, RemoveKeepsTree
    <2>4. ASSUME NEW s \in Stocks, CancelSetSell(u, s) PROVE TreeInv'
        <3>1. PICK t \in Placed(u, s, "s") : RemoveTrigger(u, t)
            BY <2>4 DEF CancelSetSell
        <3>2. t \in Trigger /\ UNCHANGED <<repeated, revived>>
            BY <2>4 DEF Placed, OnPlace, InTree, TypeOK, CancelSetSell, history
        <3> QED BY <3>1, <3>2, RemoveKeepsTree
    <2>5. CASE \/ \E prc \in Amounts : Add(u, prc)
               \/ \E s \in Stocks : Quote(u, s)
        BY <1>0, <2>5 DEF Add, Quote, history
    <2>6. CASE \/ \E s \in Stocks, prc \in Amounts : Buy(u, s, prc)
               \/ \E s \in Stocks, prc \in Amounts : Sell(u, s, prc)
        BY <1>0, <2>6 DEF Buy, Sell, Priced, history
    <2>7. CASE \/ CommitBuyExpired(u) \/ CommitSellExpired(u)
               \/ CancelBuy(u) \/ CancelSell(u)
        BY <1>0, <2>7 DEF CommitBuyExpired, CommitSellExpired, CancelBuy, CancelSell,
                          DropPending, history
    <2>8. CASE CommitBuy(u) \/ CommitSell(u)
        BY <1>0, <2>8 DEF CommitBuy, CommitSell, history
    <2> QED BY <1>1, <2>1, <2>2, <2>3, <2>4, <2>5, <2>6, <2>7, <2>8, LevelKeepsTree DEF UserCommand
<1>2. ASSUME NEW u \in Users, NEW t \in triggers[u] \cup gone[u], FireBuy(u, t) \/ FireSell(u, t)
      PROVE  TreeInv'
    <2>1. t \in Trigger
        BY <1>2 DEF TypeOK
    <2>2. RemoveTrigger(u, t) /\ repeated' = repeated /\ revived \subseteq revived'
        BY <1>2 DEF FireBuy, FireSell, Visits
    <2> QED BY <2>1, <2>2, RemoveKeepsTree
<1>3. ASSUME NEW u \in Users, Prompt(u) \/ DbDone(u) PROVE TreeInv'
    BY <1>0, <1>3 DEF Prompt, DbDone, history
<1>4. CASE \/ \E s \in Stocks : StartPass(s)
           \/ Miss
           \/ EndPass
           \/ Tick
           \/ UNCHANGED vars
    BY <1>0, <1>4 DEF StartPass, Miss, EndPass, Tick, vars, history
<1> QED BY <1>1, <1>2, <1>3, <1>4 DEF Next

-----------------------------------------------------------------------------
(* The rows in the database.  RowsAgree is the refinement of memory by the *)
(* rows, also while a bundle is on its way; the rest says what the SQL     *)
(* statements rely on: no shares without a user_stock record.              *)

Rows == [balance : Int, stocks : SUBSET (Stocks \X Int), triggers : SUBSET Trigger, ledger : Int]
RowsWith(S, f) == {<<s, f[s]>> : s \in S}
SetRow(rows, s, n) == {IF row[1] = s THEN <<s, n>> ELSE row : row \in rows}
AddRow(rows, s, n) == rows \cup {<<s, n>>}
OwnedRows(u) == RowsWith(owned[u], num[u])
RowsAgree(u) ==
    /\ RowsOf(u).balance = balance[u]
    /\ RowsOf(u).stocks = OwnedRows(u)
    /\ Plain(u) => RowsOf(u).triggers = triggers[u]
NoneUnowned(u) == \A s \in Stocks \ owned[u] : num[u][s] = 0

StoreInv ==
    /\ db \in [Users -> Rows]
    /\ bundle \in [Users -> Rows]
    /\ \A u \in Users : RowsAgree(u) /\ NoneUnowned(u)

(* The balance is a sum of adjustments for the users that owe nothing and  *)
(* have been given nothing twice.                                          *)
LedgerAgrees(u) == RowsOf(u).ledger = balance[u] + HeldByTriggers(u)
LedgerInv == \A u \in Users \ (shorted \cup revived) : LedgerAgrees(u)

(* The rows of a table of shares, when one is changed and when one is new. *)
LEMMA OneRowChanged ==
    ASSUME NEW D, NEW S \in SUBSET D, NEW f, f = [x \in D |-> f[x]], NEW s \in D, NEW n
    PROVE  SetRow(RowsWith(S, f), s, n) = RowsWith(S, [f EXCEPT ![s] = n])
<1> DEFINE g == [f EXCEPT ![s] = n]
<1>1. \A x \in S : <<x, g[x]>> = IF <<x, f[x]>>[1] = s THEN <<s, n>> ELSE <<x, f[x]>>
    OBVIOUS
<1> HIDE DEF g
<1>2. ASSUME NEW e \in SetRow(RowsWith(S, f), s, n) PROVE e \in RowsWith(S, g)
    BY <1>1 DEF SetRow, RowsWith
<1>3. ASSUME NEW e \in RowsWith(S, g) PROVE e \in SetRow(RowsWith(S, f), s, n)
    <2>1. PICK x \in S : e = <<x, g[x]>>
        BY <1>3 DEF RowsWith
    <2>2. <<x, f[x]>> \in RowsWith(S, f)
        BY DEF RowsWith
    <2>3. e = IF <<x, f[x]>>[1] = s THEN <<s, n>> ELSE <<x, f[x]>>
        BY <1>1, <2>1
    <2> QED BY <2>2, <2>3 DEF SetRow
<1>4. SetRow(RowsWith(S, f), s, n) = RowsWith(S, g)
    BY <1>2, <1>3
<1> QED BY <1>4 DEF g

LEMMA OneRowMore ==
    ASSUME NEW D, NEW S \in SUBSET D, NEW f, f = [x \in D |-> f[x]], NEW s \in D, s \notin S, NEW n
    PROVE  AddRow(RowsWith(S, f), s, n) = RowsWith(S \cup {s}, [f EXCEPT ![s] = n])
<1> DEFINE g == [f EXCEPT ![s] = n]
<1>1. g[s] = n /\ \A x \in S : g[x] = f[x]
    OBVIOUS
<1> HIDE DEF g
<1>2. AddRow(RowsWith(S, f), s, n) = RowsWith(S \cup {s}, g)
    BY <1>1 DEF RowsWith, AddRow
<1> QED BY <1>2 DEF g

(* What each statement does to the rows.                                   *)
LEMMA UpdateBalRows ==
    ASSUME NEW r \in Rows, NEW prc \in Int
    PROVE  /\ UpdateBal(r, prc) \in Rows
           /\ UpdateBal(r, prc).balance = prc
           /\ UpdateBal(r, prc).stocks = r.stocks
           /\ UpdateBal(r, prc).triggers = r.triggers
           /\ UpdateBal(r, prc).ledger = r.ledger
BY DEF UpdateBal, Rows

LEMMA InsertTranRows ==
    ASSUME NEW r \in Rows, NEW adjustment \in Int
    PROVE  /\ InsertTran(r, adjustment) \in Rows
           /\ InsertTran(r, adjustment).balance = r.balance
           /\ InsertTran(r, adjustment).stocks = r.stocks
           /\ InsertTran(r, adjustment).triggers = r.triggers
           /\ InsertTran(r, adjustment).ledger = r.ledger + adjustment
BY DEF InsertTran, Rows

LEMMA UpdateStkRows ==
    ASSUME NEW r \in Rows, NEW s \in Stocks, NEW n \in Int
    PROVE  /\ UpdateStk(r, s, n) \in Rows
           /\ UpdateStk(r, s, n).balance = r.balance
           /\ UpdateStk(r, s, n).stocks = SetRow(r.stocks, s, n)
           /\ UpdateStk(r, s, n).triggers = r.triggers
           /\ UpdateStk(r, s, n).ledger = r.ledger
<1> DEFINE new == SetRow(r.stocks, s, n)
<1>1. new \in SUBSET (Stocks \X Int)
    BY DEF Rows, SetRow
<1>2. UpdateStk(r, s, n) = [r EXCEPT !.stocks = new]
    BY DEF UpdateStk, SetRow
<1> HIDE DEF new
<1>3. /\ UpdateStk(r, s, n) \in Rows
      /\ UpdateStk(r, s, n).balance = r.balance
      /\ UpdateStk(r, s, n).stocks = new
      /\ UpdateStk(r, s, n).triggers = r.triggers
      /\ UpdateStk(r, s, n).ledger = r.ledger
    BY <1>1, <1>2 DEF Rows
<1> QED BY <1>3 DEF new

LEMMA InsertStkRows ==
    ASSUME NEW r \in Rows, NEW s \in Stocks, NEW n \in Int
    PROVE  /\ InsertStk(r, s, n) \in Rows
           /\ InsertStk(r, s, n).balance = r.balance
           /\ InsertStk(r, s, n).stocks = AddRow(r.stocks, s, n)
           /\ InsertStk(r, s, n).triggers = r.triggers
           /\ InsertStk(r, s, n).ledger = r.ledger
<1>1. r.stocks \cup {<<s, n>>} \in SUBSET (Stocks \X Int)
    BY DEF Rows
<1> QED BY <1>1 DEF InsertStk, Rows, AddRow

(* The statements on triggers, for whatever set ts they leave.             *)
LEMMA TriggerRows ==
    ASSUME NEW r \in Rows, NEW ts \in SUBSET Trigger, NEW q, q = [r EXCEPT !.triggers = ts]
    PROVE  /\ q \in Rows
           /\ q.balance = r.balance
           /\ q.stocks = r.stocks
           /\ q.triggers = ts
           /\ q.ledger = r.ledger
BY DEF Rows

LEMMA InsertTrigRows ==
    ASSUME NEW r \in Rows, NEW t \in Trigger
    PROVE  /\ InsertTrig(r, t) \in Rows
           /\ InsertTrig(r, t).balance = r.balance
           /\ InsertTrig(r, t).stocks = r.stocks
           /\ InsertTrig(r, t).triggers = r.triggers \cup {t}
           /\ InsertTrig(r, t).ledger = r.ledger
<1>1. r.triggers \cup {t} \in SUBSET Trigger
    BY DEF Rows
<1>2. InsertTrig(r, t) = [r EXCEPT !.triggers = r.triggers \cup {t}]
    BY DEF InsertTrig
<1> QED BY <1>1, <1>2, TriggerRows

LEMMA UpdateTrigRows ==
    ASSUME NEW r \in Rows, NEW s, NEW side, NEW prc \in Nat
    PROVE  /\ UpdateTrig(r, s, side, prc) \in Rows
           /\ UpdateTrig(r, s, side, prc).balance = r.balance
           /\ UpdateTrig(r, s, side, prc).stocks = r.stocks
           /\ UpdateTrig(r, s, side, prc).triggers = WithLevel(r.triggers, s, side, prc)
           /\ UpdateTrig(r, s, side, prc).ledger = r.ledger
<1>1. WithLevel(r.triggers, s, side, prc) \in SUBSET Trigger
    BY TriggersType DEF Rows
<1>2. UpdateTrig(r, s, side, prc) = [r EXCEPT !.triggers = WithLevel(r.triggers, s, side, prc)]
    BY DEF UpdateTrig
<1> QED BY <1>1, <1>2, TriggerRows

LEMMA DeleteTrigRows ==
    ASSUME NEW r \in Rows, NEW s, NEW side
    PROVE  /\ DeleteTrig(r, s, side) \in Rows
           /\ DeleteTrig(r, s, side).balance = r.balance
           /\ DeleteTrig(r, s, side).stocks = r.stocks
           /\ DeleteTrig(r, s, side).triggers = r.triggers \ OnPlace(r.triggers, s, side)
           /\ DeleteTrig(r, s, side).ledger = r.ledger
<1>1. r.triggers \ OnPlace(r.triggers, s, side) \in SUBSET Trigger
    BY DEF Rows
<1>2. DeleteTrig(r, s, side) = [r EXCEPT !.triggers = r.triggers \ OnPlace(r.triggers, s, side)]
    BY DEF DeleteTrig
<1> QED BY <1>1, <1>2, TriggerRows

(* addUserStock and insertStk, or updateStk: the rows after n shares more. *)
LEMMA AcquireRowsAgree ==
    ASSUME TypeOK, TreeInv, StoreInv, NEW u \in Users, pc[u] = "free", NEW s \in Stocks, NEW n \in Int
    PROVE  /\ AcquireRows(u, s, n) \in Rows
           /\ AcquireRows(u, s, n).balance = balance[u]
           /\ AcquireRows(u, s, n).stocks = RowsWith(owned[u] \cup {s}, [num[u] EXCEPT ![s] = num[u][s] + n])
           /\ AcquireRows(u, s, n).triggers = db[u].triggers
           /\ AcquireRows(u, s, n).ledger = db[u].ledger
<1>1. /\ db[u] \in Rows /\ num[u] \in [Stocks -> Int] /\ owned[u] \subseteq Stocks
      /\ db[u].balance = balance[u]
      /\ db[u].stocks = RowsWith(owned[u], num[u])
    BY DEF TypeOK, StoreInv, RowsAgree, RowsOf, OwnedRows
<1> DEFINE m == num[u][s] + n
<1>2. m \in Int
    BY <1>1
<1>3. CASE s \in owned[u]
    <2>1. AcquireRows(u, s, n) = UpdateStk(db[u], s, m)
        BY <1>3 DEF AcquireRows
    <2>2. owned[u] \cup {s} = owned[u]
        BY <1>3
    <2> HIDE DEF m
    <2>3. SetRow(db[u].stocks, s, m) = RowsWith(owned[u], [num[u] EXCEPT ![s] = m])
        BY <1>1, OneRowChanged
    <2>4. AcquireRows(u, s, n).stocks = RowsWith(owned[u] \cup {s}, [num[u] EXCEPT ![s] = m])
        <3>1. AcquireRows(u, s, n).stocks = SetRow(db[u].stocks, s, m)
            BY <1>1, <1>2, <2>1, UpdateStkRows
        <3> QED BY <1>1, <2>2, <2>3, <3>1
    <2>5. /\ AcquireRows(u, s, n) \in Rows
          /\ AcquireRows(u, s, n).balance = balance[u]
          /\ AcquireRows(u, s, n).triggers = db[u].triggers
          /\ AcquireRows(u, s, n).ledger = db[u].ledger
        BY <1>1, <1>2, <2>1, UpdateStkRows
    <2> QED BY <2>4, <2>5 DEF m
<1>4. CASE s \notin owned[u]
    <2>1. m = n
        BY <1>4 DEF StoreInv, NoneUnowned
    <2>2. AcquireRows(u, s, n) = InsertStk(db[u], s, n)
        BY <1>4 DEF AcquireRows
    <2> HIDE DEF m
    <2>3. AddRow(db[u].stocks, s, m) = RowsWith(owned[u] \cup {s}, [num[u] EXCEPT ![s] = m])
        BY <1>1, <1>4, OneRowMore
    <2>4. AcquireRows(u, s, n).stocks = RowsWith(owned[u] \cup {s}, [num[u] EXCEPT ![s] = m])
        BY <1>1, <2>1, <2>2, <2>3, InsertStkRows
    <2>5. /\ AcquireRows(u, s, n) \in Rows
          /\ AcquireRows(u, s, n).balance = balance[u]
          /\ AcquireRows(u, s, n).triggers = db[u].triggers
          /\ AcquireRows(u, s, n).ledger = db[u].ledger
        BY <1>1, <2>2, InsertStkRows
    <2> QED BY <2>4, <2>5 DEF m
<1> QED BY <1>3, <1>4

(* Nobody works on u: its rows are in the database and agree with memory.  *)
LEMMA FreeRows ==
    ASSUME StoreInv, NEW u \in Users, pc[u] = "free"
    PROVE  /\ RowsOf(u) = db[u]
           /\ db[u] \in Rows
           /\ db[u].balance = balance[u]
           /\ db[u].stocks = OwnedRows(u)
           /\ Plain(u) => db[u].triggers = triggers[u]
           /\ db[u].ledger \in Int
BY DEF StoreInv, RowsAgree, RowsOf, Rows

(* A thread that works on u and writes the rows r, which agree with the    *)
(* memory it leaves, keeps every account in agreement.                     *)
LEMMA WriteKeeps ==
    ASSUME TypeOK, TreeInv, StoreInv, LedgerInv, NEW u \in Users, pc[u] = "free",
           NEW who \in {"writing", "firing"}, NEW r \in Rows, Write(u, r, who), db' = db,
           shorted \subseteq shorted', repeated \subseteq repeated', revived \subseteq revived',
           \A v \in Users : v # u => /\ balance'[v] = balance[v]
                                     /\ owned'[v] = owned[v]
                                     /\ num'[v] = num[v]
                                     /\ triggers'[v] = triggers[v],
           r.balance = balance'[u], r.stocks = OwnedRows(u)', Plain(u)' => r.triggers = triggers'[u],
           NoneUnowned(u)',
           u \notin (shorted \cup revived)' => r.ledger = balance'[u] + HeldByTriggers(u)'
    PROVE  StoreInv' /\ LedgerInv'
<1>1. /\ bundle' \in [Users -> Rows] /\ bundle'[u] = r /\ pc'[u] = who
      /\ \A v \in Users : v # u => bundle'[v] = bundle[v] /\ pc'[v] = pc[v]
    BY DEF Write, StoreInv, TypeOK
<1>2. RowsOf(u)' = r /\ \A v \in Users : v # u => RowsOf(v)' = RowsOf(v)
    BY <1>1 DEF RowsOf
<1>3. ASSUME NEW v \in Users
      PROVE  RowsAgree(v)' /\ NoneUnowned(v)'
    <2>1. CASE v = u
        BY <1>2, <2>1 DEF RowsAgree
    <2>2. CASE v # u
        BY <1>2, <2>2 DEF StoreInv, RowsAgree, NoneUnowned, OwnedRows, Plain
    <2> QED BY <2>1, <2>2
<1>4. ASSUME NEW v \in Users \ (shorted \cup revived)' PROVE LedgerAgrees(v)'
    <2>1. CASE v = u
        BY <1>2, <1>4, <2>1 DEF LedgerAgrees
    <2>2. CASE v # u
        <3>1. LedgerAgrees(v) /\ HeldByTriggers(v)' = HeldByTriggers(v)
            BY <2>2, HeldSame DEF LedgerInv
        <3> QED BY <1>2, <2>2, <3>1 DEF LedgerAgrees
    <2> QED BY <2>1, <2>2
<1> QED BY <1>1, <1>3, <1>4 DEF StoreInv, LedgerInv

(* A step that moves no money, shares or triggers and leaves the rows.     *)
LEMMA QuietKeeps ==
    ASSUME StoreInv, LedgerInv, UNCHANGED <<balance, owned, num, triggers>>,
           db' \in [Users -> Rows], bundle' \in [Users -> Rows], UNCHANGED <<shorted, repeated, revived>>,
           \A u \in Users : RowsOf(u)' = RowsOf(u)
    PROVE  StoreInv' /\ LedgerInv'
<1>1. \A u \in Users : RowsAgree(u)' /\ NoneUnowned(u)'
    BY DEF StoreInv, RowsAgree, NoneUnowned, OwnedRows, Plain
<1>2. \A u \in Users : HeldByTriggers(u)' = HeldByTriggers(u)
    BY HeldSame
<1>3. LedgerInv'
    BY <1>2 DEF LedgerInv, LedgerAgrees
<1> QED BY <1>1, <1>3 DEF StoreInv

(* What is known of u's triggers when a thread takes u.                    *)
LEMMA HeldFacts ==
    ASSUME TypeOK, TreeInv, StoreInv, NEW u \in Users
    PROVE  /\ triggers[u] \in SUBSET Trigger
           /\ IsFiniteSet(triggers[u])
           /\ HeldByTriggers(u) = Total(Buys(triggers[u]))
           /\ HeldByTriggers(u)' = Total(Buys(triggers'[u]))
           /\ HeldByTriggers(u) \in Int
           /\ balance[u] \in Int
           /\ num[u] \in [Stocks -> Int]
           /\ owned[u] \in SUBSET Stocks
           /\ NoneUnowned(u)
<1>1. triggers[u] \in SUBSET Trigger /\ IsFiniteSet(triggers[u]) /\ NoneUnowned(u)
      /\ balance[u] \in Int /\ num[u] \in [Stocks -> Int] /\ owned[u] \in SUBSET Stocks
    BY DEF TypeOK, TreeInv, TreeOk, StoreInv
<1>2. HeldByTriggers(u) = Total(Buys(triggers[u])) /\ HeldByTriggers(u)' = Total(Buys(triggers'[u]))
    BY HeldNow, HeldNext DEF HeldIsTotal
<1>3. Total(Buys(triggers[u])) \in Int
    BY <1>1, BuysFacts
<1> QED BY <1>1, <1>2, <1>3

(* The table of transactions adds up before the thread works on u.         *)
LEMMA LedgerNow ==
    ASSUME StoreInv, LedgerInv, NEW u \in Users, pc[u] = "free", u \notin shorted \cup revived
    PROVE  db[u].ledger = balance[u] + HeldByTriggers(u)
BY FreeRows DEF LedgerInv, LedgerAgrees

(* The commands and triggers that write, one lemma each.                   *)
LEMMA AddKeeps ==
    ASSUME TypeOK, TreeInv, StoreInv, LedgerInv, NEW u \in Users, NEW prc \in Amounts, Add(u, prc)
    PROVE  StoreInv' /\ LedgerInv'
<1> DEFINE r1 == UpdateBal(db[u], balance[u] + prc)
           r == InsertTran(r1, prc)
<1>1. prc \in Int /\ balance[u] + prc \in Int
    BY ConstantsAssumption, HeldFacts
<1>2. /\ pc[u] = "free" /\ Write(u, r, "writing") /\ UNCHANGED <<db, history, owned, num, triggers>>
      /\ balance'[u] = balance[u] + prc /\ \A v \in Users : v # u => balance'[v] = balance[v]
    BY DEF Add, Command, TypeOK, treeVars
<1>3. r1 \in Rows /\ r1.balance = balance[u] + prc /\ r1.stocks = OwnedRows(u)
      /\ r1.triggers = db[u].triggers /\ r1.ledger = db[u].ledger
    BY <1>1, <1>2, FreeRows, UpdateBalRows
<1> HIDE DEF r1
<1>4. r \in Rows /\ r.balance = balance'[u] /\ r.stocks = OwnedRows(u)' /\ r.triggers = db[u].triggers
      /\ r.ledger = db[u].ledger + prc
    BY <1>1, <1>2, <1>3, InsertTranRows DEF OwnedRows
<1> HIDE DEF r
<1>5. u \notin (shorted \cup revived)' => r.ledger = balance'[u] + HeldByTriggers(u)'
    BY <1>1, <1>2, <1>4, LedgerNow, HeldFacts DEF history
<1>6. NoneUnowned(u)' /\ (Plain(u)' => r.triggers = triggers'[u])
    BY <1>2, <1>4, FreeRows, HeldFacts DEF NoneUnowned, Plain, history
<1> QED BY <1>2, <1>4, <1>5, <1>6, WriteKeeps DEF history

(* The rows that a purchase of n shares leaves, with the new balance.      *)
LEMMA PurchaseRows ==
    ASSUME TypeOK, TreeInv, StoreInv, NEW u \in Users, pc[u] = "free", NEW s \in Stocks, NEW n \in Int,
           NEW new \in Int, NEW spent \in Int, Acquire(u, s, n)
    PROVE  LET r == InsertTran(UpdateBal(AcquireRows(u, s, n), new), -spent)
           IN  /\ r \in Rows
               /\ r.balance = new
               /\ r.stocks = OwnedRows(u)'
               /\ r.triggers = db[u].triggers
               /\ r.ledger = db[u].ledger - spent
               /\ NoneUnowned(u)'
               /\ \A v \in Users : v # u => owned'[v] = owned[v] /\ num'[v] = num[v]
<1> DEFINE r1 == AcquireRows(u, s, n)
           r2 == UpdateBal(r1, new)
           r == InsertTran(r2, -spent)
<1>1. /\ owned'[u] = owned[u] \cup {s} /\ num'[u] = [num[u] EXCEPT ![s] = num[u][s] + n]
      /\ \A v \in Users : v # u => owned'[v] = owned[v] /\ num'[v] = num[v]
    BY DEF Acquire, TypeOK
<1>2. r1 \in Rows /\ r1.stocks = OwnedRows(u)' /\ r1.triggers = db[u].triggers /\ r1.ledger = db[u].ledger
    <2>1. /\ r1 \in Rows /\ r1.triggers = db[u].triggers /\ r1.ledger = db[u].ledger
          /\ r1.stocks = RowsWith(owned[u] \cup {s}, [num[u] EXCEPT ![s] = num[u][s] + n])
        BY AcquireRowsAgree
    <2>2. OwnedRows(u)' = RowsWith(owned'[u], num'[u])
        BY DEF OwnedRows
    <2> HIDE DEF r1
    <2> QED BY <1>1, <2>1, <2>2
<1> HIDE DEF r1
<1>3. r2 \in Rows /\ r2.balance = new /\ r2.stocks = OwnedRows(u)' /\ r2.triggers = db[u].triggers
      /\ r2.ledger = db[u].ledger
    BY <1>2, UpdateBalRows
<1> HIDE DEF r2
<1>4. db[u].ledger \in Int /\ -spent \in Int
    BY FreeRows
<1>5. r \in Rows /\ r.balance = new /\ r.stocks = OwnedRows(u)' /\ r.triggers = db[u].triggers
      /\ r.ledger = db[u].ledger - spent
    <2> DEFINE m == -spent
    <2>1. m \in Int /\ db[u].ledger + m = db[u].ledger - spent
        BY <1>4
    <2> HIDE DEF m
    <2>2. /\ InsertTran(r2, m) \in Rows
          /\ InsertTran(r2, m).balance = r2.balance
          /\ InsertTran(r2, m).stocks = r2.stocks
          /\ InsertTran(r2, m).triggers = r2.triggers
          /\ InsertTran(r2, m).ledger = r2.ledger + m
        BY <1>3, <2>1, InsertTranRows
    <2>3. r = InsertTran(r2, m)
        BY DEF m
    <2> HIDE DEF r
    <2> QED BY <1>3, <2>1, <2>2, <2>3
<1>6. NoneUnowned(u)'
    BY <1>1, HeldFacts DEF NoneUnowned
<1> QED BY <1>1, <1>5, <1>6 DEF r, r2, r1

LEMMA CommitBuyKeeps ==
    ASSUME TypeOK, TreeInv, StoreInv, LedgerInv, NEW u \in Users, CommitBuy(u)
    PROVE  StoreInv' /\ LedgerInv'
<1> DEFINE p == pending[u]
           new == balance[u] - p.reserve
           r == InsertTran(UpdateBal(AcquireRows(u, p.stock, p.no), new), -p.reserve)
<1>1. p \in Pending
    BY DEF TypeOK, CommitBuy, NoPending
<1>2. p.stock \in Stocks /\ p.no \in Int /\ p.reserve \in Int /\ new \in Int
    BY <1>1, HeldFacts DEF Pending
<1>3. /\ pc[u] = "free" /\ Write(u, r, "writing") /\ UNCHANGED <<db, history, triggers>>
      /\ Acquire(u, p.stock, p.no)
      /\ balance'[u] = new /\ \A v \in Users : v # u => balance'[v] = balance[v]
    BY DEF CommitBuy, Command, TypeOK, treeVars
<1>4. /\ r \in Rows /\ r.balance = balance'[u] /\ r.stocks = OwnedRows(u)' /\ r.triggers = db[u].triggers
      /\ r.ledger = db[u].ledger - p.reserve /\ NoneUnowned(u)'
      /\ \A v \in Users : v # u => owned'[v] = owned[v] /\ num'[v] = num[v]
    BY <1>2, <1>3, PurchaseRows
<1>5. u \notin (shorted \cup revived)' => r.ledger = balance'[u] + HeldByTriggers(u)'
    BY <1>2, <1>3, <1>4, LedgerNow, HeldFacts DEF history
<1>6. Plain(u)' => r.triggers = triggers'[u]
    BY <1>3, <1>4, FreeRows DEF Plain, history
<1> HIDE DEF r
<1> QED BY <1>3, <1>4, <1>5, <1>6, WriteKeeps DEF history

(* The rows of triggers after deleteTrig, when t is taken out of the rings.*)
LEMMA DeletedRows ==
    ASSUME TreeInv, StoreInv, NEW u \in Users, pc[u] = "free", NEW t \in triggers[u], Plain(u),
           triggers'[u] = triggers[u] \ {t}
    PROVE  db[u].triggers \ OnPlace(db[u].triggers, t.stock, t.type) = triggers'[u]
<1>1. db[u].triggers = triggers[u] /\ OneOfAType(triggers[u])
    BY FreeRows DEF TreeInv, TreeOk
<1>2. OnPlace(triggers[u], t.stock, t.type) = {t}
    BY <1>1 DEF OnPlace, OneOfAType
<1> QED BY <1>1, <1>2

(* A trigger that is executed, or cancelled.                               *)
LEMMA VisitFacts ==
    ASSUME TypeOK, TreeInv, StoreInv, NEW u \in Users, NEW t \in triggers[u] \cup gone[u], Visits(u, t)
    PROVE  /\ pc[u] = "free" /\ UNCHANGED <<db, shorted, repeated>> /\ revived \subseteq revived'
           /\ \A v \in Users : v # u => triggers'[v] = triggers[v]
           /\ u \notin revived' => /\ u \notin revived
                                   /\ t \in triggers[u]
                                   /\ triggers'[u] = triggers[u] \ {t}
                                   /\ HeldByTriggers(u) = Worth(t) + HeldByTriggers(u)'
                                   /\ HeldByTriggers(u)' \in Int
           /\ Plain(u)' => db[u].triggers \ OnPlace(db[u].triggers, t.stock, t.type) = triggers'[u]
<1>1. t \in Trigger /\ RemoveTrigger(u, t)
    BY DEF TypeOK, Visits
<1>2. /\ pc[u] = "free" /\ UNCHANGED <<db, shorted, repeated>> /\ revived \subseteq revived'
      /\ u \notin revived' => u \notin revived /\ t \in triggers[u]
    BY DEF Visits
<1>3. /\ \A v \in Users : v # u => triggers'[v] = triggers[v]
      /\ t \in triggers[u] => triggers'[u] = triggers[u] \ {t}
    BY <1>1, <1>2, RemoveKeepsTree
<1>4. ASSUME u \notin revived'
      PROVE HeldByTriggers(u) = Worth(t) + HeldByTriggers(u)' /\ HeldByTriggers(u)' \in Int
    <2> DEFINE ts == triggers[u]
               left == triggers'[u]
    <2>1. ts \in SUBSET Trigger /\ IsFiniteSet(ts) /\ t \in ts /\ left = ts \ {t}
          /\ HeldByTriggers(u) = Total(Buys(ts)) /\ HeldByTriggers(u)' = Total(Buys(left))
        BY <1>2, <1>3, <1>4, HeldFacts
    <2> HIDE DEF ts, left
    <2>2. IsFiniteSet(ts \ {t}) /\ Total(Buys(ts)) = Worth(t) + Total(Buys(ts \ {t}))
        BY <2>1, OneLess
    <2>3. left \in SUBSET Trigger /\ IsFiniteSet(left)
        BY <2>1, <2>2
    <2>4. Total(Buys(left)) \in Int
        BY <2>3, BuysFacts
    <2> QED BY <2>1, <2>2, <2>4
<1>5. Plain(u)' => db[u].triggers \ OnPlace(db[u].triggers, t.stock, t.type) = triggers'[u]
    <2>1. Plain(u)' => Plain(u) /\ t \in triggers[u]
        BY <1>2 DEF Plain
    <2> QED BY <1>2, <1>3, <2>1, DeletedRows
<1> QED BY <1>2, <1>3, <1>4, <1>5

(* A trigger that buys: its money is spent or goes back to the balance.    *)
LEMMA FireBuyKeeps ==
    ASSUME TypeOK, TreeInv, StoreInv, LedgerInv, NEW u \in Users,
           NEW t \in triggers[u] \cup gone[u], FireBuy(u, t)
    PROVE  StoreInv' /\ LedgerInv'
<1> DEFINE n == t.amount \div pass.price
           tbuy == pass.price * n
           new == balance[u] + t.amount - tbuy
           r1 == InsertTran(UpdateBal(AcquireRows(u, t.stock, n), new), -tbuy)
           r == DeleteTrig(r1, t.stock, "b")
<1>0. t \in Trigger /\ pass.stock = t.stock
    BY DEF TypeOK, FireBuy, Visits
<1>1. t.stock \in Stocks /\ t.amount \in Nat /\ pass.price \in Nat \ {0}
    BY <1>0, PassOn DEF Trigger
<1>2. n \in Int /\ tbuy \in Int
    BY <1>1, DivBound
<1>3. /\ Visits(u, t) /\ Write(u, r, "firing")
      /\ Acquire(u, t.stock, n) /\ t.type = "b"
      /\ balance'[u] = new /\ \A v \in Users : v # u => balance'[v] = balance[v]
    BY DEF FireBuy, TypeOK
<1> HIDE DEF n, tbuy
<1>4. new \in Int /\ balance[u] \in Int
    BY <1>1, <1>2, HeldFacts
<1>5. pc[u] = "free"
    BY <1>3, VisitFacts
<1>6. /\ r1 \in Rows /\ r1.balance = new /\ r1.stocks = OwnedRows(u)' /\ r1.triggers = db[u].triggers
      /\ r1.ledger = db[u].ledger - tbuy /\ NoneUnowned(u)'
      /\ \A v \in Users : v # u => owned'[v] = owned[v] /\ num'[v] = num[v]
    BY <1>1, <1>2, <1>3, <1>4, <1>5, PurchaseRows
<1> HIDE DEF r1
<1>7. r \in Rows /\ r.balance = balance'[u] /\ r.stocks = OwnedRows(u)'
      /\ r.triggers = db[u].triggers \ OnPlace(db[u].triggers, t.stock, t.type)
      /\ r.ledger = db[u].ledger - tbuy
    BY <1>3, <1>6, DeleteTrigRows
<1> HIDE DEF r
<1>8. u \notin (shorted \cup revived)' => r.ledger = balance'[u] + HeldByTriggers(u)'
    <2> SUFFICES ASSUME u \notin shorted' /\ u \notin revived'
                 PROVE  r.ledger = balance'[u] + HeldByTriggers(u)'
        OBVIOUS
    <2>1. /\ u \notin shorted \cup revived
          /\ HeldByTriggers(u) = Worth(t) + HeldByTriggers(u)' /\ HeldByTriggers(u)' \in Int
        BY <1>3, VisitFacts
    <2>2. db[u].ledger = balance[u] + HeldByTriggers(u) /\ Worth(t) = t.amount
        BY <1>3, <1>5, <2>1, LedgerNow DEF Worth
    <2> QED BY <1>1, <1>2, <1>3, <1>4, <1>7, <2>1, <2>2
<1>9. Plain(u)' => r.triggers = triggers'[u]
    BY <1>3, <1>7, VisitFacts
<1>10. /\ pc[u] = "free" /\ db' = db /\ shorted \subseteq shorted' /\ repeated \subseteq repeated'
       /\ revived \subseteq revived' /\ \A v \in Users : v # u => triggers'[v] = triggers[v]
    BY <1>3, VisitFacts
<1> QED BY <1>3, <1>6, <1>7, <1>8, <1>9, <1>10, WriteKeeps

(* The rows that a sale leaves.                                            *)
Sells(u, s, left) ==
    /\ SetRow(db[u].stocks, s, left) = OwnedRows(u)'
    /\ NoneUnowned(u)'
    /\ \A v \in Users : v # u => owned'[v] = owned[v] /\ num'[v] = num[v]

LEMMA SaleRows ==
    ASSUME TypeOK, TreeInv, StoreInv, NEW u \in Users, pc[u] = "free", NEW s \in owned[u], NEW left \in Int,
           num' = [num EXCEPT ![u][s] = left], owned' = owned
    PROVE  Sells(u, s, left)
<1>1. num'[u] = [num[u] EXCEPT ![s] = left] /\ \A v \in Users : v # u => num'[v] = num[v]
    BY DEF TypeOK
<1>2. num[u] \in [Stocks -> Int] /\ owned[u] \in SUBSET Stocks /\ s \in Stocks /\ NoneUnowned(u)
    BY HeldFacts
<1>3. SetRow(RowsWith(owned[u], num[u]), s, left) = RowsWith(owned[u], [num[u] EXCEPT ![s] = left])
    BY <1>2, OneRowChanged
<1>4. SetRow(db[u].stocks, s, left) = OwnedRows(u)'
    BY <1>1, <1>3, FreeRows DEF OwnedRows
<1>5. NoneUnowned(u)'
    BY <1>1, <1>2 DEF NoneUnowned
<1> QED BY <1>1, <1>4, <1>5 DEF Sells

(* What insertTran makes of an amount that is not negative, and of others. *)
LEMMA SqlValueFacts ==
    ASSUME NEW prc \in Int
    PROVE  SqlValue(prc) \in Int /\ (prc >= 0 => SqlValue(prc) = prc)
BY DEF SqlValue

LEMMA CommitSellKeeps ==
    ASSUME IndInv, TreeInv, StoreInv, LedgerInv, NEW u \in Users, CommitSell(u)
    PROVE  StoreInv' /\ LedgerInv'
<1> DEFINE p == pending[u]
           new == balance[u] + p.reserve
           left == num[u][p.stock] - p.no
           r1 == UpdateBal(db[u], new)
           r2 == UpdateStk(r1, p.stock, left)
           r == InsertTran(r2, SqlValue(p.reserve))
<1>0. TypeOK
    BY DEF IndInv
<1>1. p \in Pending
    BY <1>0 DEF TypeOK, CommitSell, NoPending
<1>2. p.stock \in Stocks /\ p.no \in Int /\ p.reserve \in Int /\ new \in Int /\ left \in Int
      /\ SqlValue(p.reserve) \in Int
    BY <1>0, <1>1, HeldFacts, SqlValueFacts DEF Pending
<1>3. /\ pc[u] = "free" /\ Write(u, r, "writing") /\ UNCHANGED <<db, triggers, owned, repeated, revived>>
      /\ p.stock \in owned[u] /\ num' = [num EXCEPT ![u][p.stock] = left]
      /\ balance'[u] = new /\ (\A v \in Users : v # u => balance'[v] = balance[v])
      /\ shorted \subseteq shorted' /\ p.buysell # 0
    BY <1>0 DEF CommitSell, Command, TypeOK, treeVars
<1>4. u \notin shorted' => SqlValue(p.reserve) = p.reserve
    <2>1. u \notin shorted' => Covered(u)
        BY <1>3 DEF IndInv
    <2>2. u \notin shorted' => p.reserve >= 0
        BY <1>3, <2>1 DEF Covered
    <2> QED BY <1>2, <2>2, SqlValueFacts
<1> HIDE DEF left
<1>5. SetRow(db[u].stocks, p.stock, left) = OwnedRows(u)' /\ NoneUnowned(u)'
      /\ \A v \in Users : v # u => owned'[v] = owned[v] /\ num'[v] = num[v]
    BY <1>0, <1>2, <1>3, SaleRows DEF Sells
<1> HIDE DEF p
<1>6. r1 \in Rows /\ r1.balance = new /\ r1.stocks = db[u].stocks /\ r1.triggers = db[u].triggers
      /\ r1.ledger = db[u].ledger
    BY <1>2, <1>3, FreeRows, UpdateBalRows
<1> HIDE DEF r1, new
<1>7. r2 \in Rows /\ r2.balance = new /\ r2.stocks = OwnedRows(u)' /\ r2.triggers = db[u].triggers
      /\ r2.ledger = db[u].ledger
    BY <1>2, <1>5, <1>6, UpdateStkRows
<1> HIDE DEF r2
<1>8. r \in Rows /\ r.balance = balance'[u] /\ r.stocks = OwnedRows(u)' /\ r.triggers = db[u].triggers
      /\ r.ledger = db[u].ledger + SqlValue(p.reserve)
    <2> DEFINE m == SqlValue(p.reserve)
    <2>1. m \in Int
        BY <1>2
    <2> HIDE DEF m
    <2>2. /\ InsertTran(r2, m) \in Rows
          /\ InsertTran(r2, m).balance = r2.balance
          /\ InsertTran(r2, m).stocks = r2.stocks
          /\ InsertTran(r2, m).triggers = r2.triggers
          /\ InsertTran(r2, m).ledger = r2.ledger + m
        BY <1>7, <2>1, InsertTranRows
    <2>3. r = InsertTran(r2, m)
        BY DEF m
    <2> HIDE DEF r
    <2>4. balance'[u] = new
        BY <1>3
    <2>5. r.ledger = db[u].ledger + m
        BY <1>7, <2>2, <2>3
    <2>6. r \in Rows /\ r.balance = balance'[u] /\ r.stocks = OwnedRows(u)' /\ r.triggers = db[u].triggers
        BY <1>7, <2>2, <2>3, <2>4
    <2> QED BY <2>5, <2>6 DEF m
<1> HIDE DEF r
<1>9. u \notin (shorted \cup revived)' => r.ledger = balance'[u] + HeldByTriggers(u)'
    <2>1. u \notin (shorted \cup revived)' => db[u].ledger = balance[u] + HeldByTriggers(u)
        BY <1>3, LedgerNow
    <2>2. HeldByTriggers(u)' = HeldByTriggers(u) /\ HeldByTriggers(u) \in Int /\ balance[u] \in Int
        BY <1>0, <1>3, HeldFacts
    <2> QED BY <1>2, <1>3, <1>4, <1>8, <2>1, <2>2 DEF new
<1>10. Plain(u)' => r.triggers = triggers'[u]
    BY <1>3, <1>8, FreeRows DEF Plain
<1> QED BY <1>0, <1>3, <1>5, <1>8, <1>9, <1>10, WriteKeeps

LEMMA FireSellKeeps ==
    ASSUME IndInv, TreeInv, StoreInv, LedgerInv, NEW u \in Users,
           NEW t \in triggers[u] \cup gone[u], FireSell(u, t)
    PROVE  StoreInv' /\ LedgerInv'
<1> DEFINE n == SharesToSell(u, t.stock, t.amount, pass.price)
           tsell == pass.price * n
           new == balance[u] + tsell
           left == num[u][t.stock] - n
           r1 == UpdateStk(db[u], t.stock, left)
           r2 == UpdateBal(r1, new)
           r3 == InsertTran(r2, SqlValue(tsell))
           r == DeleteTrig(r3, t.stock, "s")
<1>0. TypeOK
    BY DEF IndInv
<1>a. t \in Trigger /\ pass.stock = t.stock
    BY <1>0 DEF TypeOK, FireSell, Visits
<1>1. t.stock \in Stocks /\ t.amount \in Nat /\ pass.price \in Nat \ {0}
    BY <1>0, <1>a, PassOn DEF Trigger
<1>2. n \in Int
    BY <1>0, <1>1, SharesType
<1>3. /\ Visits(u, t) /\ Write(u, r, "firing") /\ owned' = owned
      /\ t.type = "s" /\ t.stock \in owned[u] /\ num' = [num EXCEPT ![u][t.stock] = left]
      /\ balance'[u] = new /\ (\A v \in Users : v # u => balance'[v] = balance[v])
    BY <1>0 DEF FireSell, TypeOK
<1>b. /\ pc[u] = "free" /\ UNCHANGED <<db, shorted, repeated>> /\ revived \subseteq revived'
      /\ \A v \in Users : v # u => triggers'[v] = triggers[v]
    BY <1>0, <1>3, VisitFacts
<1>4. tsell \in Int /\ (u \notin shorted => tsell >= 0)
    <2>1. tsell \in Int
        BY <1>1, <1>2
    <2>2. ASSUME u \notin shorted PROVE tsell >= 0
        <3>1. Covered(u) /\ num[u] \in [Stocks -> Int]
            BY <1>0, <2>2, HeldFacts DEF IndInv
        <3>2. num[u][t.stock] >= 0 /\ num[u][t.stock] \in Int
            BY <1>1, <3>1 DEF Covered, SolventUser
        <3>3. n \in 0 .. num[u][t.stock]
            BY <1>0, <1>1, <3>2, SharesBound
        <3>4. n >= 0 /\ pass.price >= 1
            BY <1>1, <1>2, <3>2, <3>3
        <3> QED BY <1>1, <1>2, <3>4, ProductNat
    <2> QED BY <2>1, <2>2
<1> HIDE DEF n, tsell
<1>5. new \in Int /\ left \in Int /\ SqlValue(tsell) \in Int /\ (u \notin shorted => SqlValue(tsell) = tsell)
    BY <1>0, <1>1, <1>2, <1>4, HeldFacts, SqlValueFacts
<1> HIDE DEF left, new
<1>6. SetRow(db[u].stocks, t.stock, left) = OwnedRows(u)' /\ NoneUnowned(u)'
      /\ \A v \in Users : v # u => owned'[v] = owned[v] /\ num'[v] = num[v]
    <2> DEFINE s == t.stock
    <2>1. pc[u] = "free" /\ s \in owned[u] /\ num' = [num EXCEPT ![u][s] = left] /\ owned' = owned
        BY <1>3, <1>b
    <2> HIDE DEF s
    <2>2. Sells(u, s, left)
        BY <1>0, <1>5, <2>1, SaleRows
    <2> QED BY <2>2 DEF s, Sells
<1>7. r1 \in Rows /\ r1.stocks = OwnedRows(u)' /\ r1.triggers = db[u].triggers /\ r1.ledger = db[u].ledger
    <2>1. db[u] \in Rows
        BY <1>b, FreeRows
    <2> DEFINE s == t.stock
    <2>2. s \in Stocks /\ SetRow(db[u].stocks, s, left) = OwnedRows(u)' /\ r1 = UpdateStk(db[u], s, left)
        BY <1>1, <1>6
    <2> HIDE DEF s, r1
    <2> QED BY <1>5, <2>1, <2>2, UpdateStkRows
<1> HIDE DEF r1
<1>8. r2 \in Rows /\ r2.balance = new /\ r2.stocks = OwnedRows(u)' /\ r2.triggers = db[u].triggers
      /\ r2.ledger = db[u].ledger
    BY <1>5, <1>7, UpdateBalRows
<1> HIDE DEF r2
<1>9. r3 \in Rows /\ r3.balance = new /\ r3.stocks = OwnedRows(u)' /\ r3.triggers = db[u].triggers
      /\ r3.ledger = db[u].ledger + SqlValue(tsell)
    BY <1>5, <1>8, InsertTranRows
<1> HIDE DEF r3
<1>10. r \in Rows /\ r.balance = balance'[u] /\ r.stocks = OwnedRows(u)'
       /\ r.triggers = db[u].triggers \ OnPlace(db[u].triggers, t.stock, t.type)
       /\ r.ledger = db[u].ledger + SqlValue(tsell)
    BY <1>3, <1>9, DeleteTrigRows
<1> HIDE DEF r
<1>11. u \notin (shorted \cup revived)' => r.ledger = balance'[u] + HeldByTriggers(u)'
    <2> SUFFICES ASSUME u \notin shorted' /\ u \notin revived'
                 PROVE  r.ledger = balance'[u] + HeldByTriggers(u)'
        OBVIOUS
    <2>1. /\ u \notin shorted /\ u \notin revived
          /\ HeldByTriggers(u) = Worth(t) + HeldByTriggers(u)' /\ HeldByTriggers(u)' \in Int
        BY <1>0, <1>3, <1>b, VisitFacts
    <2>2. db[u].ledger = balance[u] + HeldByTriggers(u) /\ Worth(t) = 0
        BY <1>3, <1>b, <2>1, LedgerNow DEF Worth
    <2>3. balance[u] \in Int
        BY <1>0, HeldFacts
    <2> QED BY <1>3, <1>4, <1>5, <1>10, <2>1, <2>2, <2>3 DEF new
<1>12. Plain(u)' => r.triggers = triggers'[u]
    BY <1>0, <1>3, <1>10, VisitFacts
<1> QED BY <1>0, <1>3, <1>b, <1>6, <1>10, <1>11, <1>12, WriteKeeps

(* One trigger more: its money, and its row.                               *)
LEMMA PlantedFacts ==
    ASSUME TypeOK, TreeInv, StoreInv, NEW u \in Users, pc[u] = "free", NEW s \in Stocks,
           NEW side \in Sides, NEW prc \in Nat, NEW r \in Rows, r.triggers = db[u].triggers,
           AddTrigger(u, s, side, prc, r)
    PROVE  LET t == NewTrigger(u, s, side, prc)
           IN  /\ Write(u, InsertTrig(r, t), "writing") /\ t \in Trigger
               /\ t.type = side /\ t.amount = prc
               /\ \A v \in Users : v # u => triggers'[v] = triggers[v]
               /\ repeated \subseteq repeated' /\ UNCHANGED <<shorted, revived>>
               /\ HeldByTriggers(u)' = Worth(t) + HeldByTriggers(u)
               /\ Plain(u)' => InsertTrig(r, t).triggers = triggers'[u]
<1> DEFINE t == NewTrigger(u, s, side, prc)
           ts == triggers[u]
<1>1. Write(u, InsertTrig(r, t), "writing") /\ UNCHANGED <<shorted, revived>>
    BY DEF AddTrigger, PlantTrigger
<1>2. /\ t \in Trigger /\ t \notin ts /\ t.type = side /\ t.amount = prc
      /\ triggers'[u] = ts \cup {t}
      /\ (\A v \in Users : v # u => triggers'[v] = triggers[v]) /\ repeated \subseteq repeated'
    BY PlantKeepsTree
<1>3. /\ ts \in SUBSET Trigger /\ IsFiniteSet(ts)
      /\ HeldByTriggers(u) = Total(Buys(ts)) /\ HeldByTriggers(u)' = Total(Buys(triggers'[u]))
    BY HeldFacts
<1> HIDE DEF t
<1>4. Plain(u)' => db[u].triggers = ts
    BY <1>1, <1>2, FreeRows DEF Plain
<1> HIDE DEF ts
<1>5. Total(Buys(ts \cup {t})) = Worth(t) + Total(Buys(ts))
    BY <1>2, <1>3, OneMore
<1>6. InsertTrig(r, t).triggers = db[u].triggers \cup {t}
    BY <1>2, InsertTrigRows
<1> QED BY <1>1, <1>2, <1>3, <1>4, <1>5, <1>6 DEF t

LEMMA SetBuyAmountKeeps ==
    ASSUME TypeOK, TreeInv, StoreInv, LedgerInv, NEW u \in Users, NEW s \in Stocks,
           NEW prc \in Amounts, SetBuyAmount(u, s, prc)
    PROVE  StoreInv' /\ LedgerInv'
<1> DEFINE t == NewTrigger(u, s, "b", prc)
           new == balance[u] - prc
           r1 == UpdateBal(db[u], new)
           r == InsertTrig(r1, t)
<1>1. prc \in Nat /\ new \in Int /\ balance[u] \in Int /\ HeldByTriggers(u) \in Int /\ "b" \in Sides
    BY ConstantFacts, HeldFacts DEF Sides
<1>2. /\ pc[u] = "free" /\ AddTrigger(u, s, "b", prc, r1) /\ UNCHANGED <<db, owned, num>>
      /\ balance'[u] = new /\ \A v \in Users : v # u => balance'[v] = balance[v]
    BY DEF SetBuyAmount, Command, TypeOK
<1>3. r1 \in Rows /\ r1.balance = new /\ r1.stocks = OwnedRows(u) /\ r1.triggers = db[u].triggers
      /\ r1.ledger = db[u].ledger
    BY <1>1, <1>2, FreeRows, UpdateBalRows
<1> HIDE DEF r1, new
<1>4. /\ Write(u, r, "writing") /\ t \in Trigger /\ t.type = "b" /\ t.amount = prc
      /\ \A v \in Users : v # u => triggers'[v] = triggers[v]
      /\ repeated \subseteq repeated' /\ UNCHANGED <<shorted, revived>>
      /\ HeldByTriggers(u)' = Worth(t) + HeldByTriggers(u)
      /\ Plain(u)' => r.triggers = triggers'[u]
    BY <1>1, <1>2, <1>3, PlantedFacts
<1> HIDE DEF t
<1>5. r \in Rows /\ r.balance = new /\ r.stocks = OwnedRows(u) /\ r.ledger = db[u].ledger
    BY <1>3, <1>4, InsertTrigRows
<1> HIDE DEF r
<1>6. OwnedRows(u)' = OwnedRows(u) /\ NoneUnowned(u)'
    BY <1>2, HeldFacts DEF OwnedRows, NoneUnowned
<1>7. u \notin (shorted \cup revived)' => r.ledger = balance'[u] + HeldByTriggers(u)'
    <2>1. Worth(t) = prc
        BY <1>4 DEF Worth
    <2>2. u \notin (shorted \cup revived)' => db[u].ledger = balance[u] + HeldByTriggers(u)
        BY <1>2, <1>4, LedgerNow
    <2> QED BY <1>1, <1>2, <1>4, <1>5, <2>1, <2>2 DEF new
<1> QED BY <1>2, <1>4, <1>5, <1>6, <1>7, WriteKeeps

LEMMA SetSellAmountKeeps ==
    ASSUME TypeOK, TreeInv, StoreInv, LedgerInv, NEW u \in Users, NEW s \in Stocks,
           NEW prc \in Amounts, SetSellAmount(u, s, prc)
    PROVE  StoreInv' /\ LedgerInv'
<1> DEFINE t == NewTrigger(u, s, "s", prc)
           r == InsertTrig(db[u], t)
<1>1. prc \in Nat /\ HeldByTriggers(u) \in Int /\ "s" \in Sides
    BY ConstantFacts, HeldFacts DEF Sides
<1>2. pc[u] = "free" /\ AddTrigger(u, s, "s", prc, db[u]) /\ UNCHANGED <<db, owned, num, balance>>
    BY DEF SetSellAmount, Command, TypeOK
<1>3. db[u] \in Rows /\ db[u].balance = balance[u] /\ db[u].stocks = OwnedRows(u)
    BY <1>2, FreeRows
<1>4. /\ Write(u, r, "writing") /\ t \in Trigger /\ t.type = "s"
      /\ \A v \in Users : v # u => triggers'[v] = triggers[v]
      /\ repeated \subseteq repeated' /\ UNCHANGED <<shorted, revived>>
      /\ HeldByTriggers(u)' = Worth(t) + HeldByTriggers(u)
      /\ Plain(u)' => r.triggers = triggers'[u]
    BY <1>1, <1>2, <1>3, PlantedFacts
<1> HIDE DEF t
<1>5. r \in Rows /\ r.balance = balance[u] /\ r.stocks = OwnedRows(u) /\ r.ledger = db[u].ledger
    BY <1>3, <1>4, InsertTrigRows
<1> HIDE DEF r
<1>6. OwnedRows(u)' = OwnedRows(u) /\ NoneUnowned(u)'
    BY <1>2, HeldFacts DEF OwnedRows, NoneUnowned
<1>7. u \notin (shorted \cup revived)' => r.ledger = balance'[u] + HeldByTriggers(u)'
    <2>1. Worth(t) = 0
        BY <1>4 DEF Worth
    <2>2. u \notin (shorted \cup revived)' => db[u].ledger = balance[u] + HeldByTriggers(u)
        BY <1>2, <1>4, LedgerNow
    <2> QED BY <1>1, <1>2, <1>4, <1>5, <2>1, <2>2
<1> QED BY <1>2, <1>4, <1>5, <1>6, <1>7, WriteKeeps

LEMMA SetTriggerKeeps ==
    ASSUME TypeOK, TreeInv, StoreInv, LedgerInv, NEW u \in Users, NEW s \in Stocks, NEW side \in Sides,
           NEW prc \in Levels, SetTrigger(u, s, side, prc)
    PROVE  StoreInv' /\ LedgerInv'
<1> DEFINE ts == triggers[u]
           r == UpdateTrig(db[u], s, side, prc)
<1>1. /\ pc[u] = "free" /\ Write(u, r, "writing") /\ UNCHANGED <<db, history, owned, num, balance>>
      /\ prc \in Nat
    BY ConstantFacts DEF SetTrigger, Command, TypeOK
<1>2. \A v \in Users : v # u => triggers'[v] = triggers[v]
    BY LevelKeepsTree
<1>3. PICK t \in triggers[u] : \E new \in Trigger : Relevelled(u, t, new, s, side, prc)
    BY LevelKeepsTree
<1>4. PICK new \in Trigger : Relevelled(u, t, new, s, side, prc)
    BY <1>3
<1>5. ts \in SUBSET Trigger /\ IsFiniteSet(ts) /\ t \in ts
      /\ HeldByTriggers(u) = Total(Buys(ts)) /\ HeldByTriggers(u)' = Total(Buys(triggers'[u]))
    BY HeldFacts
<1>6. /\ Worth(new) = Worth(t) /\ new \notin ts \ {t}
      /\ triggers'[u] = (ts \ {t}) \cup {new}
      /\ Plain(u) => WithLevel(ts, s, side, prc) = triggers'[u]
    BY <1>4 DEF Relevelled
<1>7. /\ db[u] \in Rows /\ db[u].balance = balance[u] /\ db[u].stocks = OwnedRows(u)
      /\ Plain(u) => db[u].triggers = ts
    BY <1>1, FreeRows
<1> HIDE DEF ts
<1>8. HeldByTriggers(u)' = HeldByTriggers(u)
    BY <1>5, <1>6, OneForAnother
<1>9. r \in Rows /\ r.balance = balance[u] /\ r.stocks = OwnedRows(u) /\ r.ledger = db[u].ledger
      /\ r.triggers = WithLevel(db[u].triggers, s, side, prc)
    BY <1>1, <1>7, UpdateTrigRows
<1> HIDE DEF r
<1>10. Plain(u)' => r.triggers = triggers'[u]
    BY <1>1, <1>6, <1>7, <1>9 DEF Plain, history
<1>11. OwnedRows(u)' = OwnedRows(u) /\ NoneUnowned(u)'
    BY <1>1, HeldFacts DEF OwnedRows, NoneUnowned
<1>12. u \notin (shorted \cup revived)' => r.ledger = balance'[u] + HeldByTriggers(u)'
    BY <1>1, <1>8, <1>9, LedgerNow DEF history
<1> QED BY <1>1, <1>2, <1>9, <1>10, <1>11, <1>12, WriteKeeps DEF history

(* A trigger that is cancelled: its row goes, and so does what it holds.   *)
LEMMA CancelFacts ==
    ASSUME TypeOK, TreeInv, StoreInv, NEW u \in Users, pc[u] = "free", NEW s, NEW side,
           NEW t \in Placed(u, s, side), RemoveTrigger(u, t), UNCHANGED history
    PROVE  /\ t \in Trigger /\ t.stock = s /\ t.type = side
           /\ \A v \in Users : v # u => triggers'[v] = triggers[v]
           /\ HeldByTriggers(u) = Worth(t) + HeldByTriggers(u)' /\ HeldByTriggers(u)' \in Int
           /\ Plain(u)' => db[u].triggers \ OnPlace(db[u].triggers, s, side) = triggers'[u]
<1>1. t \in triggers[u] /\ t \in Trigger /\ t.stock = s /\ t.type = side
    BY DEF Placed, OnPlace, InTree, TypeOK
<1>2. /\ \A v \in Users : v # u => triggers'[v] = triggers[v]
      /\ triggers'[u] = triggers[u] \ {t}
    BY <1>1, RemoveKeepsTree DEF history
<1>3. Plain(u)' => db[u].triggers \ OnPlace(db[u].triggers, s, side) = triggers'[u]
    BY <1>1, <1>2, DeletedRows DEF Plain, history
<1> DEFINE ts == triggers[u]
           left == triggers'[u]
<1>4. ts \in SUBSET Trigger /\ IsFiniteSet(ts) /\ t \in ts /\ left = ts \ {t}
      /\ HeldByTriggers(u) = Total(Buys(ts)) /\ HeldByTriggers(u)' = Total(Buys(left))
    BY <1>1, <1>2, HeldFacts
<1> HIDE DEF ts, left
<1>5. IsFiniteSet(ts \ {t}) /\ Total(Buys(ts)) = Worth(t) + Total(Buys(ts \ {t}))
    BY <1>4, OneLess
<1>6. left \in SUBSET Trigger /\ IsFiniteSet(left)
    BY <1>4, <1>5
<1>7. Total(Buys(left)) \in Int
    BY <1>6, BuysFacts
<1> QED BY <1>1, <1>2, <1>3, <1>4, <1>5, <1>7

LEMMA CancelSetBuyKeeps ==
    ASSUME TypeOK, TreeInv, StoreInv, LedgerInv, NEW u \in Users, NEW s \in Stocks, CancelSetBuy(u, s)
    PROVE  StoreInv' /\ LedgerInv'
<1>1. PICK t \in Placed(u, s, "b") :
          /\ balance' = [balance EXCEPT ![u] = @ + t.amount]
          /\ RemoveTrigger(u, t)
          /\ Write(u, DeleteTrig(UpdateBal(db[u], balance[u] + t.amount), s, "b"), "writing")
    BY DEF CancelSetBuy
<1> DEFINE new == balance[u] + t.amount
           r1 == UpdateBal(db[u], new)
           r == DeleteTrig(r1, s, "b")
<1>2. /\ pc[u] = "free" /\ Write(u, r, "writing") /\ UNCHANGED <<db, history, owned, num>>
      /\ balance'[u] = new /\ (\A v \in Users : v # u => balance'[v] = balance[v])
    BY <1>1 DEF CancelSetBuy, Command, TypeOK
<1>3. /\ t \in Trigger /\ t.type = "b"
      /\ \A v \in Users : v # u => triggers'[v] = triggers[v]
      /\ HeldByTriggers(u) = Worth(t) + HeldByTriggers(u)' /\ HeldByTriggers(u)' \in Int
      /\ Plain(u)' => db[u].triggers \ OnPlace(db[u].triggers, s, "b") = triggers'[u]
    BY <1>1, <1>2, CancelFacts
<1>4. t.amount \in Int /\ balance[u] \in Int /\ new \in Int
    BY <1>3, HeldFacts DEF Trigger
<1>5. r1 \in Rows /\ r1.balance = new /\ r1.stocks = OwnedRows(u) /\ r1.triggers = db[u].triggers
      /\ r1.ledger = db[u].ledger
    BY <1>2, <1>4, FreeRows, UpdateBalRows
<1> HIDE DEF r1, new
<1>6. r \in Rows /\ r.balance = new /\ r.stocks = OwnedRows(u) /\ r.ledger = db[u].ledger
      /\ r.triggers = db[u].triggers \ OnPlace(db[u].triggers, s, "b")
    BY <1>5, DeleteTrigRows
<1> HIDE DEF r
<1>7. OwnedRows(u)' = OwnedRows(u) /\ NoneUnowned(u)'
    BY <1>2, HeldFacts DEF OwnedRows, NoneUnowned
<1>8. u \notin (shorted \cup revived)' => r.ledger = balance'[u] + HeldByTriggers(u)'
    <2>1. Worth(t) = t.amount
        BY <1>3 DEF Worth
    <2>2. u \notin (shorted \cup revived)' => db[u].ledger = balance[u] + HeldByTriggers(u)
        BY <1>2, LedgerNow DEF history
    <2> QED BY <1>2, <1>3, <1>4, <1>6, <2>1, <2>2 DEF new
<1> QED BY <1>2, <1>3, <1>6, <1>7, <1>8, WriteKeeps DEF history

LEMMA CancelSetSellKeeps ==
    ASSUME TypeOK, TreeInv, StoreInv, LedgerInv, NEW u \in Users, NEW s \in Stocks, CancelSetSell(u, s)
    PROVE  StoreInv' /\ LedgerInv'
<1> DEFINE r == DeleteTrig(db[u], s, "s")
<1>1. /\ pc[u] = "free" /\ Write(u, r, "writing") /\ UNCHANGED <<db, history, owned, num, balance>>
    BY DEF CancelSetSell, Command, TypeOK
<1>2. PICK t \in Placed(u, s, "s") : RemoveTrigger(u, t)
    BY DEF CancelSetSell
<1>3. /\ t \in Trigger /\ t.type = "s"
      /\ \A v \in Users : v # u => triggers'[v] = triggers[v]
      /\ HeldByTriggers(u) = Worth(t) + HeldByTriggers(u)' /\ HeldByTriggers(u)' \in Int
      /\ Plain(u)' => db[u].triggers \ OnPlace(db[u].triggers, s, "s") = triggers'[u]
    BY <1>1, <1>2, CancelFacts
<1>4. db[u] \in Rows /\ db[u].balance = balance[u] /\ db[u].stocks = OwnedRows(u)
    BY <1>1, FreeRows
<1>5. r \in Rows /\ r.balance = balance[u] /\ r.stocks = OwnedRows(u) /\ r.ledger = db[u].ledger
      /\ r.triggers = db[u].triggers \ OnPlace(db[u].triggers, s, "s")
    BY <1>4, DeleteTrigRows
<1> HIDE DEF r
<1>6. OwnedRows(u)' = OwnedRows(u) /\ NoneUnowned(u)'
    BY <1>1, HeldFacts DEF OwnedRows, NoneUnowned
<1>7. u \notin (shorted \cup revived)' => r.ledger = balance'[u] + HeldByTriggers(u)'
    <2>1. Worth(t) = 0
        BY <1>3 DEF Worth
    <2> QED BY <1>1, <1>3, <1>5, <2>1, LedgerNow DEF history
<1> QED BY <1>1, <1>3, <1>5, <1>6, <1>7, WriteKeeps DEF history

(* The bundle that the writer has executed becomes the rows.               *)
LEMMA DbDoneKeeps ==
    ASSUME TypeOK, TreeInv, StoreInv, LedgerInv, NEW u \in Users, DbDone(u)
    PROVE  StoreInv' /\ LedgerInv'
<1>1. NoRows \in Rows
    BY DEF NoRows, Rows
<1>2. bundle[u] \in Rows /\ db' = [db EXCEPT ![u] = bundle[u]] /\ bundle' = [bundle EXCEPT ![u] = NoRows]
    BY DEF DbDone, StoreInv
<1>3. db' \in [Users -> Rows] /\ bundle' \in [Users -> Rows]
    BY <1>1, <1>2 DEF StoreInv
<1>4. ASSUME NEW v \in Users PROVE RowsOf(v)' = RowsOf(v)
    <2>1. CASE v = u
        BY <1>2, <2>1 DEF DbDone, RowsOf, StoreInv, TypeOK
    <2>2. CASE v # u
        BY <1>2, <2>2 DEF DbDone, RowsOf, StoreInv, TypeOK
    <2> QED BY <2>1, <2>2
<1>5. UNCHANGED <<balance, owned, num, triggers, shorted, repeated, revived>>
    BY DEF DbDone, treeVars, history
<1> QED BY <1>3, <1>4, <1>5, QuietKeeps

(* A step that leaves every account and all rows, and lets a thread that   *)
(* does not write start or finish, keeps the agreement.                    *)
LEMMA IdleKeeps ==
    ASSUME TypeOK, StoreInv, LedgerInv, UNCHANGED <<balance, owned, num, triggers, db, bundle>>,
           UNCHANGED <<shorted, repeated, revived>>,
           \A u \in Users : pc'[u] = pc[u] \/ {pc[u], pc'[u]} = {"free", "priced"}
    PROVE  StoreInv' /\ LedgerInv'
<1>1. ASSUME NEW u \in Users PROVE RowsOf(u)' = RowsOf(u)
    <2>1. (pc'[u] \in {"writing", "firing"}) <=> (pc[u] \in {"writing", "firing"})
        <3>1. CASE pc'[u] = pc[u]
            BY <3>1
        <3>2. CASE {pc[u], pc'[u]} = {"free", "priced"}
            <4>1. pc[u] \in {"free", "priced"} /\ pc'[u] \in {"free", "priced"}
                BY <3>2
            <4> QED BY <4>1
        <3> QED BY <3>1, <3>2
    <2> QED BY <2>1 DEF RowsOf
<1>2. db' \in [Users -> Rows] /\ bundle' \in [Users -> Rows]
    BY DEF StoreInv
<1> QED BY <1>1, <1>2, QuietKeeps

LEMMA PricedKeeps ==
    ASSUME TypeOK, TreeInv, StoreInv, LedgerInv, NEW u \in Users, pc[u] = "free", NEW s, NEW side, NEW q, NEW n,
           Priced(u, s, side, q, n)
    PROVE  StoreInv' /\ LedgerInv'
<1>1. UNCHANGED <<balance, owned, num, triggers, db, bundle, shorted, repeated, revived>>
    BY DEF Priced, treeVars, history
<1>2. pc' = pc \/ pc' = [pc EXCEPT ![u] = "priced"]
    BY DEF Priced
<1>3. \A v \in Users : pc'[v] = pc[v] \/ {pc[v], pc'[v]} = {"free", "priced"}
    BY <1>2 DEF TypeOK
<1> QED BY <1>1, <1>3, IdleKeeps

(* A new account has no triggers, no rows and no money.                    *)
LEMMA TreeInit == Init => TreeInv
BY FS_EmptySet DEF Init, TreeInv, TreeOk, InTree, OneOfAType, Distinct

LEMMA StoreInit == Init => StoreInv /\ LedgerInv
<1> SUFFICES ASSUME Init PROVE StoreInv /\ LedgerInv
    OBVIOUS
<1>1. NoRows \in Rows
    BY DEF NoRows, Rows
<1>2. ASSUME NEW u \in Users PROVE RowsOf(u) = NoRows /\ OwnedRows(u) = {} /\ HeldByTriggers(u) = 0
    <2>1. RowsOf(u) = NoRows /\ OwnedRows(u) = {} /\ triggers[u] = {}
        BY DEF Init, RowsOf, OwnedRows, RowsWith
    <2>2. Buys(triggers[u]) = {} /\ IsFiniteSet({})
        BY <2>1, FS_EmptySet DEF Buys
    <2>3. Total({}) = 0
        BY <2>2, TotalDef
    <2>4. HeldByTriggers(u) = Total(Buys(triggers[u]))
        BY HeldNow DEF HeldIsTotal
    <2>5. HeldByTriggers(u) = 0
        BY <2>2, <2>3, <2>4
    <2> QED BY <2>1, <2>5
<1>3. StoreInv
    <2>1. db \in [Users -> Rows] /\ bundle \in [Users -> Rows]
        BY <1>1 DEF Init
    <2>2. ASSUME NEW u \in Users PROVE RowsAgree(u)
        <3>1. balance[u] = 0 /\ triggers[u] = {}
            BY DEF Init
        <3>2. NoRows.balance = 0 /\ NoRows.stocks = {} /\ NoRows.triggers = {}
            BY DEF NoRows
        <3> QED BY <1>2, <3>1, <3>2 DEF RowsAgree
    <2>3. ASSUME NEW u \in Users PROVE NoneUnowned(u)
        BY DEF Init, NoneUnowned
    <2> QED BY <2>1, <2>2, <2>3 DEF StoreInv
<1>4. LedgerInv
    BY <1>2 DEF Init, LedgerInv, LedgerAgrees, NoRows
<1> QED BY <1>3, <1>4

(* Every step keeps memory, rows and ledger in agreement.                  *)
LEMMA StoreStep == IndInv /\ TreeInv /\ StoreInv /\ LedgerInv /\ [Next]_vars => StoreInv' /\ LedgerInv'
<1> SUFFICES ASSUME IndInv, TreeInv, StoreInv, LedgerInv, [Next]_vars PROVE StoreInv' /\ LedgerInv'
    OBVIOUS
<1>0. TypeOK
    BY DEF IndInv
<1>1. ASSUME NEW u \in Users, UserCommand(u) PROVE StoreInv' /\ LedgerInv'
    <2>1. ASSUME NEW s \in Stocks, Quote(u, s) PROVE StoreInv' /\ LedgerInv'
        BY <1>0, <2>1, IdleKeeps DEF Quote, treeVars, history
    <2>2. ASSUME NEW s \in Stocks, NEW prc \in Amounts, Buy(u, s, prc) PROVE StoreInv' /\ LedgerInv'
        BY <1>0, <2>2, PricedKeeps DEF Buy, Command
    <2>3. ASSUME NEW s \in Stocks, NEW prc \in Amounts, Sell(u, s, prc)
          PROVE  StoreInv' /\ LedgerInv'
        BY <1>0, <2>3, PricedKeeps DEF Sell, Command
    <2>4. CASE \/ CommitBuyExpired(u) \/ CommitSellExpired(u)
               \/ CancelBuy(u) \/ CancelSell(u)
        BY <1>0, <2>4, IdleKeeps DEF CommitBuyExpired, CommitSellExpired, CancelBuy, CancelSell,
                                     DropPending, treeVars, history
    <2> QED BY <1>0, <1>1, <2>1, <2>2, <2>3, <2>4, AddKeeps, CommitBuyKeeps, CommitSellKeeps,
               SetBuyAmountKeeps, SetSellAmountKeeps, SetTriggerKeeps, CancelSetBuyKeeps,
               CancelSetSellKeeps DEF UserCommand
<1>2. ASSUME NEW u \in Users, Prompt(u) PROVE StoreInv' /\ LedgerInv'
    <2>1. \A v \in Users : pc'[v] = pc[v] \/ {pc[v], pc'[v]} = {"free", "priced"}
        BY <1>0, <1>2 DEF Prompt, TypeOK
    <2> QED BY <1>0, <1>2, <2>1, IdleKeeps DEF Prompt, treeVars, history
<1>3. CASE \/ \E s \in Stocks : StartPass(s)
           \/ Miss
           \/ EndPass
           \/ Tick
           \/ UNCHANGED vars
    BY <1>0, <1>3, IdleKeeps DEF StartPass, Miss, EndPass, Tick, vars, treeVars, history
<1> QED BY <1>0, <1>1, <1>2, <1>3, DbDoneKeeps, FireBuyKeeps, FireSellKeeps DEF Next

(* The invariant of types, solvency, trees and rows together.              *)
StoreIndInv == IndInv /\ TreeInv /\ StoreInv /\ LedgerInv

LEMMA StoreIndInit == Init => StoreIndInv
BY IndInit, TreeInit, StoreInit DEF StoreIndInv

LEMMA StoreIndStep == StoreIndInv /\ [Next]_vars => StoreIndInv'
<1>1. IndInv => TypeOK
    BY DEF IndInv
<1> QED BY <1>1, IndStep, TreeStep, StoreStep DEF StoreIndInv

(* Whenever nobody works on a user the database holds what memory holds,   *)
(* whatever stocks the user's triggers are on and whichever of them        *)
(* removeTrigger has cut off the tree: its balance and its shares always,  *)
(* its triggers until it sets one where one was lost or a freed one of its *)
(* is executed.                                                            *)
THEOREM StoreAlwaysAgrees == Spec => []StoreAgrees
<1>1. StoreIndInv => StoreAgrees
    BY DEF StoreIndInv, StoreInv, StoreAgrees, RowsAgree, RowsOf, OwnedRows, RowsWith, Plain
<1> QED BY <1>1, StoreIndInit, StoreIndStep, PTL DEF Spec

(* The table of transactions adds up to the balance and what the buy       *)
(* triggers hold, whatever the orders, the triggers, the cuts in the trees *)
(* and their interleaving, for a user line 1225 did not report and none of *)
(* whose freed triggers has been executed: what such a trigger held is     *)
(* given back twice.                                                       *)
THEOREM MoneyAlwaysConserved == Spec => []MoneyConserved
<1>1. StoreIndInv => MoneyConserved
    BY DEF StoreIndInv, LedgerInv, LedgerAgrees, MoneyConserved
<1> QED BY <1>1, StoreIndInit, StoreIndStep, PTL DEF Spec
=============================================================================
