------------------------- MODULE LoadBalancerProofs -------------------------
(***************************************************************************)
(* Proofs about LoadBalancer, for any number of connections, handlers,     *)
(* stocks and requests: as long as the quote server replies, a cell that   *)
(* nobody has locked holds the price and the key of one fetch, and that is *)
(* a quote of the cell's stock; and, whether it replies or not, the whole  *)
(* implements QuoteService.                                                *)
(*                                                                         *)
(* The first invariant follows a handler through a request: it has the     *)
(* cell locked from before the fetch until its workers have stopped, so    *)
(* that between the two halves of a quote nobody else writes to the cell.  *)
(* The second, for QuoteService, ties the elements of the queue to those   *)
(* who wait for them.                                                      *)
(***************************************************************************)
EXTENDS LoadBalancer, TLAPS

(* quoteAddress gives two names two cells.                                 *)
LEMMA AddressIsOneToOne ==
    ASSUME NEW s \in Names, NEW t \in Names, Address(s) = Address(t)
    PROVE  s = t
PROOF
<1>1. PICK a \in Letters, b \in Letters, c \in Letters : s = <<a, b, c>>
  BY DEF Names
<1>2. PICK x \in Letters, y \in Letters, z \in Letters : t = <<x, y, z>>
  BY DEF Names
<1>3. (a * 26 + b) * 26 + c = (x * 26 + y) * 26 + z
  BY <1>1, <1>2 DEF Address, CHAR_LIM
<1>4. /\ a \in 0 .. 25 /\ b \in 0 .. 25 /\ c \in 0 .. 25
      /\ x \in 0 .. 25 /\ y \in 0 .. 25 /\ z \in 0 .. 25
  BY DEF Letters, CHAR_LIM
<1>5. a = x /\ b = y /\ c = z
  BY <1>3, <1>4
<1> QED BY <1>1, <1>2, <1>5
-----------------------------------------------------------------------------
(* The inductive invariant.                                                *)

Quotes == [price : Nat, key : Nat, ts : Nat]
Halves == [price : Nat, key : Nat]
Questions ==
    [pc : {"check", "qenq", "wait"}, kind : {"QCR", "QNR"}, stock : Stocks,
     asked : Nat, element : Nat]
Places == {"idle", "lock", "fetch", "store", "rest", "collect", "dead"}

Domains ==
    /\ now \in Nat
    /\ cache \in [Cells -> Quotes]
    /\ busy \in [Cells -> Handlers \cup {Nobody}]
    /\ queue \in Seq(Stocks) /\ by \in Seq(Handlers) /\ Len(by) <= Len(queue)
    /\ at \in [Handlers -> Places]
    /\ got \in [Handlers -> Halves]
    /\ conn \in [Conns -> {Idle} \cup Questions]

(* A handler at work has a request, the last it took.                      *)
Working(h) == at[h] \in {"lock", "fetch", "store", "rest", "collect"}
HasRequest == \A h \in Handlers : Working(h) => Element(h) \in TakenBy(h)

(* From the fetch until its workers have stopped it has the cell locked.   *)
HasCell ==
    \A h \in Handlers : at[h] \in {"fetch", "store", "rest", "collect"} => busy[Cell(h)] = h

(* What it is about to store is the answer to its request.                 *)
HasQuote ==
    \A h \in Handlers : at[h] \in {"store", "rest"} =>
        got[h].price = Element(h) /\ got[h].key = Element(h)

(* A cell has half of a quote only while its handler is between the two.   *)
HalfStored ==
    /\ \A h \in Handlers : at[h] = "rest" => cache[Cell(h)].price = Element(h)
    /\ \A a \in Cells : (\A h \in Handlers : at[h] = "rest" => Cell(h) # a) =>
                            cache[a].price = cache[a].key

(* A cell's price was fetched for a stock with that address.               *)
HasOwnPrice ==
    \A a \in Cells : cache[a].price # None =>
        cache[a].price \in DOMAIN queue /\ Address(queue[cache[a].price]) = a

Orderly ==
    Domains /\ HasRequest /\ HasCell /\ HasQuote /\ HalfStored /\ HasOwnPrice

Inv == empty \in Nat /\ (empty = 0 => Orderly)
-----------------------------------------------------------------------------
LEMMA AddressIsCell == \A s \in Stocks : Address(s) \in Cells
PROOF BY DEF Cells

(* A handler's request and cell: what they are, and what keeps them.       *)
LEMMA RequestOf ==
    ASSUME Domains, HasRequest, NEW h \in Handlers, Working(h)
    PROVE  /\ Element(h) \in TakenBy(h) /\ Element(h) \in DOMAIN by
           /\ Element(h) \in DOMAIN queue /\ Element(h) \in Nat /\ Element(h) # None
           /\ queue[Element(h)] \in Stocks /\ Cell(h) \in Cells
PROOF
<1>1. Element(h) \in TakenBy(h) /\ Element(h) \in DOMAIN by
  BY DEF HasRequest, TakenBy
<1>2. Element(h) \in 1 .. Len(by) /\ Element(h) \in 1 .. Len(queue)
  BY <1>1 DEF Domains
<1>3. queue[Element(h)] \in Stocks
  BY <1>2 DEF Domains
<1> QED BY <1>1, <1>2, <1>3, AddressIsCell DEF Domains, Cell, None

LEMMA SameRequest ==
    ASSUME NEW h \in Handlers, UNCHANGED by
    PROVE  TakenBy(h)' = TakenBy(h) /\ Element(h)' = Element(h)
PROOF
<1>1. TakenBy(h)' = TakenBy(h)
  BY DEF TakenBy
<1> QED BY <1>1 DEF Element

(* Steps of connections and of the clock leave handlers and cells alone.   *)
LEMMA ConnectionKeeps ==
    ASSUME Orderly, Domains', UNCHANGED <<cache, busy, by, at, got>>,
           queue' = queue \/ \E s \in Stocks : queue' = Append(queue, s)
    PROVE  Orderly'
PROOF
<1> USE DEF Orderly
<1>1. \A n \in DOMAIN queue : n \in DOMAIN queue' /\ queue'[n] = queue[n]
  <2>1. queue \in Seq(Stocks)
    BY DEF Domains
  <2> QED BY <2>1
<1>2. \A h \in Handlers : TakenBy(h)' = TakenBy(h) /\ Element(h)' = Element(h)
  BY SameRequest
<1>3. \A h \in Handlers : (Working(h)' <=> Working(h)) /\ (Working(h) => Cell(h)' = Cell(h))
  <2>1. ASSUME NEW h \in Handlers, Working(h) PROVE Cell(h)' = Cell(h)
    BY <2>1, <1>1, <1>2, RequestOf DEF Cell, Address
  <2> QED BY <2>1 DEF Working
<1>4. HasRequest'
  BY <1>2, <1>3 DEF HasRequest
<1>5. HasCell' /\ HasQuote'
  BY <1>2, <1>3 DEF HasCell, HasQuote, Working
<1>6. HalfStored'
  BY <1>2, <1>3 DEF HalfStored, Working
<1>7. HasOwnPrice'
  BY <1>1 DEF HasOwnPrice, Address
<1> QED BY <1>4, <1>5, <1>6, <1>7

(* Domains of the variables that a connection changes.                     *)
LEMMA ConnectionDomains ==
    ASSUME Domains,
           \/ \E c \in Conns, kind \in {"QCR", "QNR"}, s \in Stocks : Recv(c, kind, s)
           \/ \E c \in Conns : Check(c) \/ Qenq(c) \/ ReplyFetched(c)
           \/ Tick
    PROVE  /\ Domains' /\ UNCHANGED <<cache, busy, by, at, got>>
           /\ queue' = queue \/ \E s \in Stocks : queue' = Append(queue, s)
PROOF
<1>1. ASSUME NEW c \in Conns, NEW q \in {Idle} \cup Questions, UNCHANGED <<now, cache, busy, queue,
             by, at, got>>,
             conn' = [conn EXCEPT ![c] = q]
      PROVE  Domains'
  BY <1>1 DEF Domains
<1>2. ASSUME NEW c \in Conns, NEW kind \in {"QCR", "QNR"}, NEW s \in Stocks, Recv(c, kind, s)
      PROVE  Domains' /\ UNCHANGED <<cache, busy, by, at, got, queue>>
  <2> DEFINE q == [pc |-> "check", kind |-> kind, stock |-> s, asked |-> now, element |-> None]
  <2>1. q \in Questions
    BY DEF Questions, Domains, None
  <2>2. conn' = [conn EXCEPT ![c] = q] /\ UNCHANGED <<now, cache, busy, queue, by, at, got>>
    BY <1>2 DEF Recv
  <2> HIDE DEF q
  <2> QED BY <2>1, <2>2, <1>1
<1>3. ASSUME NEW c \in Conns, Check(c) \/ ReplyFetched(c)
      PROVE  Domains' /\ UNCHANGED <<cache, busy, by, at, got, queue>>
  <2>1. UNCHANGED <<now, cache, busy, queue, by, at, got>>
    BY <1>3 DEF Check, ReplyFetched
  <2>2. CASE Reply(c)
    BY <2>1, <2>2, <1>1 DEF Reply
  <2>3. CASE conn[c].pc = "check" /\ conn' = [conn EXCEPT ![c].pc = "qenq"]
    <3>1. conn[c] \in Questions
      BY <2>3 DEF Domains, Idle
    <3>2. [conn[c] EXCEPT !.pc = "qenq"] \in Questions
      BY <3>1 DEF Questions
    <3>3. conn' = [conn EXCEPT ![c] = [conn[c] EXCEPT !.pc = "qenq"]]
      BY <2>3
    <3> QED BY <3>2, <3>3, <2>1, <1>1
  <2> QED BY <2>1, <2>2, <2>3, <1>3 DEF Check, ReplyFetched
<1>4. ASSUME NEW c \in Conns, Qenq(c)
      PROVE  /\ Domains' /\ UNCHANGED <<cache, busy, by, at, got>>
             /\ \E s \in Stocks : queue' = Append(queue, s)
  <2>1. conn[c] \in Questions
    BY <1>4 DEF Qenq, Domains, Idle
  <2>2. conn[c].stock \in Stocks
    BY <2>1 DEF Questions
  <2>3. /\ queue' = Append(queue, conn[c].stock)
        /\ UNCHANGED <<now, cache, busy, by, at, got>>
        /\ conn' = [conn EXCEPT ![c].pc = "wait", ![c].element = Len(queue')]
    BY <1>4 DEF Qenq
  <2>4. queue' \in Seq(Stocks) /\ Len(queue') = Len(queue) + 1 /\ Len(queue') \in Nat
    BY <2>2, <2>3 DEF Domains
  <2>5. [conn[c] EXCEPT !.pc = "wait", !.element = Len(queue')] \in Questions
    BY <2>1, <2>4 DEF Questions
  <2>6. conn' = [conn EXCEPT ![c] = [conn[c] EXCEPT !.pc = "wait", !.element = Len(queue')]]
    BY <2>3 DEF Domains
  <2>7. conn' \in [Conns -> {Idle} \cup Questions]
    BY <2>5, <2>6 DEF Domains
  <2>8. Len(by) <= Len(queue')
    BY <2>4 DEF Domains
  <2> QED BY <2>2, <2>3, <2>4, <2>7, <2>8 DEF Domains
<1>5. ASSUME Tick PROVE Domains' /\ UNCHANGED <<cache, busy, by, at, got, queue>>
  BY <1>5 DEF Tick, Domains
<1> QED BY <1>2, <1>3, <1>4, <1>5
-----------------------------------------------------------------------------
(* The steps of a handler.                                                 *)

LEMMA QdeqKeeps ==
    ASSUME Orderly, NEW g \in Handlers, Qdeq(g)
    PROVE  Orderly'
PROOF
<1> USE DEF Orderly
<1>1. /\ Len(by) < Len(queue) /\ at[g] = "idle"
      /\ at' = [at EXCEPT ![g] = "lock"] /\ by' = Append(by, g)
      /\ UNCHANGED <<now, cache, busy, queue, got, conn>>
  BY DEF Qdeq, Jump
<1>2. /\ by' \in Seq(Handlers) /\ Len(by') = Len(by) + 1 /\ Len(by) \in Nat
      /\ by'[Len(by) + 1] = g
      /\ \A n \in 1 .. Len(by) : by'[n] = by[n]
      /\ DOMAIN by = 1 .. Len(by) /\ DOMAIN by' = 1 .. Len(by) + 1
  <2>1. by \in Seq(Handlers)
    BY DEF Domains
  <2> QED BY <2>1, <1>1
<1>3. Len(by') <= Len(queue')
  <2>1. Len(queue) \in Nat
    BY DEF Domains
  <2> QED BY <2>1, <1>1, <1>2
<1>4. Domains'
  BY <1>1, <1>2, <1>3 DEF Domains, Places
<1>5. \A h \in Handlers : at'[h] = IF h = g THEN "lock" ELSE at[h]
  BY <1>1 DEF Domains
<1>6. ASSUME NEW h \in Handlers, h # g
      PROVE  TakenBy(h)' = TakenBy(h) /\ Element(h)' = Element(h) /\ Cell(h)' = Cell(h)
  <2>1. TakenBy(h)' = TakenBy(h)
    BY <1>2, <1>6 DEF TakenBy
  <2>2. Element(h)' = Element(h)
    BY <2>1 DEF Element
  <2> QED BY <2>1, <2>2, <1>1 DEF Cell, Address
<1>7. Element(g)' \in TakenBy(g)'
  <2>1. Len(by) + 1 \in TakenBy(g)' /\ \A q \in TakenBy(g)' : q <= Len(by) + 1
    BY <1>2 DEF TakenBy
  <2>2. \E r \in TakenBy(g)' : \A q \in TakenBy(g)' : q <= r
    BY <2>1
  <2> DEFINE taken == TakenBy(g)'
  <2>3. Element(g)' = CHOOSE r \in taken : \A q \in taken : q <= r
    BY DEF Element
  <2> HIDE DEF taken
  <2>4. (CHOOSE r \in taken : \A q \in taken : q <= r) \in taken
    BY <2>2 DEF taken
  <2> QED BY <2>3, <2>4 DEF taken
<1>8. HasRequest'
  <2>1. ASSUME NEW h \in Handlers, Working(h)' PROVE Element(h)' \in TakenBy(h)'
    BY <2>1, <1>5, <1>6, <1>7 DEF HasRequest, Working
  <2> QED BY <2>1 DEF HasRequest
<1>9. HasCell' /\ HasQuote'
  BY <1>1, <1>5, <1>6 DEF HasCell, HasQuote
<1>10. HalfStored'
  <2>1. \A h \in Handlers : at'[h] = "rest" => h # g /\ at[h] = "rest"
    BY <1>5
  <2>2. \A h \in Handlers : at'[h] = "rest" => cache'[Cell(h)'].price = Element(h)'
    BY <2>1, <1>1, <1>6 DEF HalfStored
  <2>3. ASSUME NEW a \in Cells, \A h \in Handlers : at'[h] = "rest" => Cell(h)' # a
        PROVE  cache'[a].price = cache'[a].key
    <3>1. \A h \in Handlers : at[h] = "rest" => Cell(h) # a
      BY <2>3, <1>1, <1>5, <1>6
    <3> QED BY <3>1, <1>1 DEF HalfStored
  <2> QED BY <2>2, <2>3 DEF HalfStored
<1>11. HasOwnPrice'
  BY <1>1 DEF HasOwnPrice, Address
<1> QED BY <1>4, <1>8, <1>9, <1>10, <1>11

(* The other steps take no request: requests and cells stay what they are. *)
LEMMA SameCells ==
    ASSUME UNCHANGED <<queue, by>>
    PROVE  \A h \in Handlers : /\ TakenBy(h)' = TakenBy(h)
                               /\ Element(h)' = Element(h) /\ Cell(h)' = Cell(h)
PROOF BY SameRequest DEF Cell, Address

LEMMA LockCellKeeps ==
    ASSUME Orderly, NEW g \in Handlers, LockCell(g)
    PROVE  Orderly'
PROOF
<1> USE DEF Orderly
<1>1. /\ at[g] = "lock" /\ at' = [at EXCEPT ![g] = "fetch"]
      /\ busy[Cell(g)] = Nobody /\ busy' = [busy EXCEPT ![Cell(g)] = g]
      /\ UNCHANGED <<now, cache, queue, by, got, conn>>
  BY DEF LockCell, Jump
<1>2. \A h \in Handlers : at'[h] = IF h = g THEN "fetch" ELSE at[h]
  BY <1>1 DEF Domains
<1>3. Cell(g) \in Cells
  BY <1>1, RequestOf DEF Working
<1>4. \A a \in Cells : busy'[a] = IF a = Cell(g) THEN g ELSE busy[a]
  BY <1>1 DEF Domains
<1>5. Domains'
  BY <1>1, <1>3 DEF Domains, Places
<1>6. HasRequest'
  BY <1>1, <1>2, SameCells DEF HasRequest, Working
<1>7. HasCell'
  <2>1. ASSUME NEW h \in Handlers, at'[h] \in {"fetch", "store", "rest", "collect"}
        PROVE  busy'[Cell(h)'] = h
    <3>1. CASE h = g
      BY <3>1, <1>1, <1>3, <1>4, SameCells
    <3>2. CASE h # g
      <4>1. busy[Cell(h)] = h /\ Cell(h) \in Cells
        BY <3>2, <2>1, <1>2, RequestOf DEF HasCell, Working
      <4>2. Cell(h) # Cell(g)
        BY <4>1, <1>1, BalancerAssumption DEF BalancerAssumption
      <4> QED BY <4>1, <4>2, <1>1, <1>4, SameCells
    <3> QED BY <3>1, <3>2
  <2> QED BY <2>1 DEF HasCell
<1>8. HasQuote'
  BY <1>1, <1>2, SameCells DEF HasQuote
<1>9. HalfStored'
  <2>1. \A h \in Handlers : at'[h] = "rest" <=> at[h] = "rest"
    BY <1>1, <1>2
  <2> QED BY <2>1, <1>1, SameCells DEF HalfStored
<1>10. HasOwnPrice'
  BY <1>1 DEF HasOwnPrice, Address
<1> QED BY <1>5, <1>6, <1>7, <1>8, <1>9, <1>10

LEMMA FetchKeeps ==
    ASSUME Orderly, NEW g \in Handlers, Fetch(g)
    PROVE  Orderly'
PROOF
<1> USE DEF Orderly
<1> DEFINE reply == [price |-> Element(g), key |-> Element(g)]
<1>1. /\ at[g] = "fetch" /\ at' = [at EXCEPT ![g] = "store"]
      /\ got' = [got EXCEPT ![g] = reply]
      /\ UNCHANGED <<now, cache, busy, queue, by, conn>>
  BY DEF Fetch, Jump
<1>2. reply \in Halves /\ reply.price = Element(g) /\ reply.key = Element(g)
  BY <1>1, RequestOf DEF Halves, Working
<1> HIDE DEF reply
<1>3. \A h \in Handlers : at'[h] = IF h = g THEN "store" ELSE at[h]
  BY <1>1 DEF Domains
<1>4. \A h \in Handlers : got'[h] = IF h = g THEN reply ELSE got[h]
  BY <1>1 DEF Domains
<1>5. Domains'
  BY <1>1, <1>2 DEF Domains, Places
<1>6. HasRequest' /\ HasCell'
  BY <1>1, <1>3, SameCells DEF HasRequest, HasCell, Working
<1>7. HasQuote'
  BY <1>1, <1>2, <1>3, <1>4, SameCells DEF HasQuote
<1>8. HalfStored'
  <2>1. \A h \in Handlers : at'[h] = "rest" <=> at[h] = "rest"
    BY <1>1, <1>3
  <2> QED BY <2>1, <1>1, SameCells DEF HalfStored
<1>9. HasOwnPrice'
  BY <1>1 DEF HasOwnPrice, Address
<1> QED BY <1>5, <1>6, <1>7, <1>8, <1>9

LEMMA StorePriceKeeps ==
    ASSUME Orderly, NEW g \in Handlers, StorePrice(g)
    PROVE  Orderly'
PROOF
<1> USE DEF Orderly
<1>1. /\ at[g] = "store" /\ at' = [at EXCEPT ![g] = "rest"]
      /\ cache' = [cache EXCEPT ![Cell(g)].price = got[g].price]
      /\ UNCHANGED <<now, busy, queue, by, got, conn>>
  BY DEF StorePrice, Jump
<1>2. /\ Cell(g) \in Cells /\ Element(g) \in Nat /\ Element(g) \in DOMAIN queue
      /\ Address(queue[Element(g)]) = Cell(g) /\ busy[Cell(g)] = g
      /\ got[g].price = Element(g)
  BY <1>1, RequestOf DEF Working, Cell, HasCell, HasQuote
<1>3. \A h \in Handlers : at'[h] = IF h = g THEN "rest" ELSE at[h]
  BY <1>1 DEF Domains
<1>4. /\ cache' \in [Cells -> Quotes]
      /\ cache'[Cell(g)].price = Element(g)
      /\ \A a \in Cells : a # Cell(g) => cache'[a] = cache[a]
  BY <1>1, <1>2 DEF Domains, Quotes
<1>5. Domains'
  BY <1>1, <1>4 DEF Domains, Places
<1>6. HasRequest' /\ HasCell' /\ HasQuote'
  BY <1>1, <1>3, SameCells DEF HasRequest, HasCell, HasQuote, Working
<1>7. HalfStored'
  <2>1. ASSUME NEW h \in Handlers, at'[h] = "rest"
        PROVE  cache'[Cell(h)'].price = Element(h)'
    <3>1. CASE h = g
      BY <3>1, <1>1, <1>4, SameCells
    <3>2. CASE h # g
      <4>1. at[h] = "rest" /\ busy[Cell(h)] = h /\ Cell(h) \in Cells
        BY <3>2, <2>1, <1>3, RequestOf DEF HasCell, Working
      <4>2. Cell(h) # Cell(g)
        BY <4>1, <3>2, <1>2
      <4> QED BY <4>1, <4>2, <1>1, <1>4, SameCells DEF HalfStored
    <3> QED BY <3>1, <3>2
  <2>2. ASSUME NEW a \in Cells, \A h \in Handlers : at'[h] = "rest" => Cell(h)' # a
        PROVE  cache'[a].price = cache'[a].key
    <3>1. a # Cell(g) /\ \A h \in Handlers : at[h] = "rest" => Cell(h) # a
      BY <2>2, <1>1, <1>3, SameCells
    <3> QED BY <3>1, <1>4 DEF HalfStored
  <2> QED BY <2>1, <2>2 DEF HalfStored
<1>8. HasOwnPrice'
  <2>1. ASSUME NEW a \in Cells, cache'[a].price # None
        PROVE  cache'[a].price \in DOMAIN queue /\ Address(queue[cache'[a].price]) = a
    <3>1. CASE a = Cell(g)
      BY <3>1, <1>2, <1>4
    <3>2. CASE a # Cell(g)
      BY <3>2, <2>1, <1>4 DEF HasOwnPrice
    <3> QED BY <3>1, <3>2
  <2> QED BY <2>1, <1>1 DEF HasOwnPrice, Address
<1> QED BY <1>5, <1>6, <1>7, <1>8

LEMMA StoreRestKeeps ==
    ASSUME Orderly, NEW g \in Handlers, StoreRest(g)
    PROVE  Orderly'
PROOF
<1> USE DEF Orderly
<1>1. /\ at[g] = "rest" /\ at' = [at EXCEPT ![g] = "collect"]
      /\ cache' = [cache EXCEPT ![Cell(g)].key = got[g].key, ![Cell(g)].ts = now]
      /\ got' = [got EXCEPT ![g] = NoQuote]
      /\ UNCHANGED <<now, busy, queue, by, conn>>
  BY DEF StoreRest, Jump
<1>2. /\ Cell(g) \in Cells /\ Element(g) \in Nat /\ busy[Cell(g)] = g
      /\ got[g].key = Element(g) /\ cache[Cell(g)].price = Element(g)
  BY <1>1, RequestOf DEF Working, HasCell, HasQuote, HalfStored
<1>3. \A h \in Handlers : at'[h] = IF h = g THEN "collect" ELSE at[h]
  BY <1>1 DEF Domains
<1>4. /\ cache' \in [Cells -> Quotes]
      /\ cache'[Cell(g)].key = Element(g)
      /\ \A a \in Cells : cache'[a].price = cache[a].price
      /\ \A a \in Cells : a # Cell(g) => cache'[a] = cache[a]
  BY <1>1, <1>2 DEF Domains, Quotes
<1>5. NoQuote \in Halves
  BY DEF NoQuote, Halves, None
<1>6. Domains'
  BY <1>1, <1>4, <1>5 DEF Domains, Places
<1>7. HasRequest' /\ HasCell'
  BY <1>1, <1>3, SameCells DEF HasRequest, HasCell, Working
<1>8. HasQuote'
  <2>1. \A h \in Handlers : h # g => got'[h] = got[h]
    BY <1>1 DEF Domains
  <2> QED BY <2>1, <1>1, <1>3, SameCells DEF HasQuote
<1>9. HalfStored'
  <2>1. ASSUME NEW h \in Handlers, at'[h] = "rest"
        PROVE  cache'[Cell(h)'].price = Element(h)'
    <3>1. h # g /\ at[h] = "rest" /\ Cell(h) \in Cells
      BY <2>1, <1>3, RequestOf DEF Working
    <3> QED BY <3>1, <1>1, <1>4, SameCells DEF HalfStored
  <2>2. ASSUME NEW a \in Cells, \A h \in Handlers : at'[h] = "rest" => Cell(h)' # a
        PROVE  cache'[a].price = cache'[a].key
    <3>1. CASE a = Cell(g)
      BY <3>1, <1>2, <1>4
    <3>2. CASE a # Cell(g)
      <4>1. \A h \in Handlers : at[h] = "rest" => Cell(h) # a
        BY <3>2, <2>2, <1>1, <1>3, SameCells
      <4> QED BY <4>1, <3>2, <1>4 DEF HalfStored
    <3> QED BY <3>1, <3>2
  <2> QED BY <2>1, <2>2 DEF HalfStored
<1>10. HasOwnPrice'
  BY <1>1, <1>4 DEF HasOwnPrice, Address
<1> QED BY <1>6, <1>7, <1>8, <1>9, <1>10

LEMMA CollectKeeps ==
    ASSUME Orderly, NEW g \in Handlers, Collect(g)
    PROVE  Orderly'
PROOF
<1> USE DEF Orderly
<1>1. /\ at[g] = "collect" /\ at' = [at EXCEPT ![g] = "idle"]
      /\ busy' = [busy EXCEPT ![Cell(g)] = Nobody]
      /\ UNCHANGED <<now, cache, queue, by, got, conn>>
  BY DEF Collect, Jump
<1>2. Cell(g) \in Cells /\ busy[Cell(g)] = g
  BY <1>1, RequestOf DEF Working, HasCell
<1>3. \A h \in Handlers : at'[h] = IF h = g THEN "idle" ELSE at[h]
  BY <1>1 DEF Domains
<1>4. \A a \in Cells : a # Cell(g) => busy'[a] = busy[a]
  BY <1>1 DEF Domains
<1>5. Domains'
  BY <1>1, <1>2 DEF Domains, Places
<1>6. HasRequest'
  BY <1>1, <1>3, SameCells DEF HasRequest, Working
<1>7. HasCell'
  <2>1. ASSUME NEW h \in Handlers, at'[h] \in {"fetch", "store", "rest", "collect"}
        PROVE  busy'[Cell(h)'] = h
    <3>1. h # g /\ busy[Cell(h)] = h /\ Cell(h) \in Cells
      BY <2>1, <1>3, RequestOf DEF HasCell, Working
    <3> QED BY <3>1, <1>1, <1>2, <1>4, SameCells
  <2> QED BY <2>1 DEF HasCell
<1>8. HasQuote'
  BY <1>1, <1>3, SameCells DEF HasQuote
<1>9. HalfStored'
  <2>1. \A h \in Handlers : at'[h] = "rest" <=> at[h] = "rest"
    BY <1>1, <1>3
  <2> QED BY <2>1, <1>1, SameCells DEF HalfStored
<1>10. HasOwnPrice'
  BY <1>1 DEF HasOwnPrice, Address
<1> QED BY <1>5, <1>6, <1>7, <1>8, <1>9, <1>10
-----------------------------------------------------------------------------
LEMMA InvInit == Init => Inv
PROOF
<1> SUFFICES ASSUME Init PROVE Orderly
  BY DEF Inv, Init
<1> USE DEF Init
<1>1. Domains
  BY BalancerAssumption DEF Domains, BalancerAssumption, Quotes, Halves, Places, NoQuote, None
<1>2. \A h \in Handlers : at[h] = "idle"
  OBVIOUS
<1>3. \A a \in Cells : cache[a].price = None /\ cache[a].key = None
  OBVIOUS
<1> QED BY <1>1, <1>2, <1>3
        DEF Orderly, HasRequest, Working, HasCell, HasQuote, HalfStored, HasOwnPrice

LEMMA InvNext == Inv /\ [Next]_vars => Inv'
PROOF
<1> SUFFICES ASSUME Inv, [Next]_vars PROVE Inv'
  OBVIOUS
<1>1. /\ empty' = empty \/ empty' = empty + 1
      /\ empty' # empty => \E h \in Handlers : FetchNothing(h)
  BY DEF Next, vars, Recv, Check, Qenq, ReplyFetched, Handler, Qdeq, LockCell, Fetch,
         FetchNothing, StorePrice, StoreRest, Collect, Tick
<1>2. empty' \in Nat
  BY <1>1 DEF Inv
<1>3. ASSUME empty' = 0 PROVE Orderly'
  <2>1. Orderly /\ empty' = empty
    BY <1>1, <1>3 DEF Inv
  <2>2. CASE UNCHANGED vars
    <3>1. Domains' /\ UNCHANGED <<cache, busy, by, at, got, queue>>
      BY <2>1, <2>2 DEF vars, Orderly, Domains
    <3> QED BY <3>1, <2>1, ConnectionKeeps
  <2>3. CASE \/ \E c \in Conns, kind \in {"QCR", "QNR"}, s \in Stocks : Recv(c, kind, s)
             \/ \E c \in Conns : Check(c) \/ Qenq(c) \/ ReplyFetched(c)
             \/ Tick
    BY <2>1, <2>3, ConnectionDomains, ConnectionKeeps DEF Orderly
  <2>4. ASSUME NEW h \in Handlers, Handler(h) PROVE Orderly'
    <3>1. ~FetchNothing(h)
      BY <2>1 DEF FetchNothing, Inv
    <3> QED BY <3>1, <2>1, <2>4, QdeqKeeps, LockCellKeeps, FetchKeeps, StorePriceKeeps,
               StoreRestKeeps, CollectKeeps DEF Handler
  <2> QED BY <2>2, <2>3, <2>4 DEF Next
<1> QED BY <1>2, <1>3 DEF Inv
-----------------------------------------------------------------------------
(* The theorems.                                                           *)

(* The mutex of a cell keeps the parts of a quote together, though they    *)
(* are replaced one by one (lines 495-504).                                *)
THEOREM CellsStayWhole == Spec => []CellsAreWhole
PROOF
<1>1. Inv => CellsAreWhole
  <2> SUFFICES ASSUME Inv, empty = 0, NEW a \in Cells, busy[a] = Nobody
               PROVE  cache[a].price = cache[a].key
    BY DEF CellsAreWhole
  <2>1. \A h \in Handlers : at[h] = "rest" => Cell(h) # a
    BY BalancerAssumption DEF BalancerAssumption, Inv, Orderly, HasCell
  <2> QED BY <2>1 DEF Inv, Orderly, HalfStored
<1> QED BY <1>1, InvInit, InvNext, PTL DEF Spec

(* A cell has quotes of one stock only: handlers write to the cell of the  *)
(* stock they were asked for, and no two stocks have the same.             *)
THEOREM QuotesOfOneStock == Spec => []QuoteOfItsStock
PROOF
<1>1. Inv => QuoteOfItsStock
  <2> SUFFICES ASSUME Inv, empty = 0, NEW s \in Stocks, cache[Address(s)].price # None
               PROVE  queue[cache[Address(s)].price] = s
    BY DEF QuoteOfItsStock
  <2> DEFINE t == queue[cache[Address(s)].price]
  <2>1. cache[Address(s)].price \in DOMAIN queue /\ Address(t) = Address(s)
    BY AddressIsCell DEF Inv, Orderly, HasOwnPrice
  <2>2. t \in Stocks
    BY <2>1 DEF Inv, Orderly, Domains
  <2>3. t \in Names /\ s \in Names
    BY <2>2, BalancerAssumption DEF BalancerAssumption
  <2> HIDE DEF t
  <2>4. t = s
    BY <2>1, <2>3, AddressIsOneToOne
  <2> QED BY <2>4 DEF t
<1> QED BY <1>1, InvInit, InvNext, PTL DEF Spec
-----------------------------------------------------------------------------
(* QuoteService is implemented.  This invariant holds whether or not the   *)
(* quote server replies: an element that is not answered has somebody who  *)
(* waits for it, and it is the stock of that element that is fetched.      *)

Waiting(c) == conn[c].pc = "wait"
Unanswered ==
    /\ returned \subseteq DOMAIN by
    /\ \A h \in Handlers : at[h] \in {"lock", "fetch", "store", "rest"} => Element(h) \notin returned

Asked ==
    \A c \in Conns : conn[c] # Idle =>
        /\ conn[c].asked <= now
        /\ conn[c].pc \in {"qenq", "wait"} => conn[c].kind = "QNR"
WaitsForElement ==
    \A c \in Conns : Waiting(c) =>
        conn[c].element \in DOMAIN queue /\ queue[conn[c].element] = conn[c].stock
HasWaiter ==
    \A r \in DOMAIN queue \ returned : \E c \in Conns : Waiting(c) /\ conn[c].element = r

(* What a connection that is woken will read is younger than its request.  *)
NewForIt ==
    \A c \in Conns : Waiting(c) /\ conn[c].element \in returned => cache[CellOf(c)].ts >= conn[c].asked

Serving == Domains /\ HasRequest /\ Unanswered /\ Asked /\ WaitsForElement /\ HasWaiter /\ NewForIt
-----------------------------------------------------------------------------
(* A handler's step: the domains, and who has which request.               *)

LEMMA HandlerDomains ==
    ASSUME Domains, HasRequest, NEW g \in Handlers, Handler(g), ~Qdeq(g)
    PROVE  /\ Domains' /\ UNCHANGED <<queue, by, conn, now>>
           /\ Working(g) /\ \A h \in Handlers \ {g} : at'[h] = at[h]
PROOF
<1>1. Working(g)
  BY DEF Handler, LockCell, Fetch, FetchNothing, StorePrice, StoreRest, Collect, Jump, Working
<1>2. /\ Element(g) \in Nat /\ Cell(g) \in Cells
  BY <1>1, RequestOf
<1>3. UNCHANGED <<queue, by, conn, now>>
  BY DEF Handler, LockCell, Fetch, FetchNothing, StorePrice, StoreRest, Collect
<1>4. PICK p \in Places \ {"lock"} : at' = [at EXCEPT ![g] = p]
  BY DEF Handler, LockCell, Fetch, FetchNothing, StorePrice, StoreRest, Collect, Jump, Places
<1>5. busy' \in [Cells -> Handlers \cup {Nobody}]
  BY <1>2 DEF Domains, Handler, LockCell, Fetch, FetchNothing, StorePrice, StoreRest, Collect
<1>6. got' \in [Handlers -> Halves]
  <2>1. \A old \in TakenBy(g) : old \in Nat
    BY DEF TakenBy, Domains
  <2>2. ASSUME NEW q \in Halves, got' = [got EXCEPT ![g] = q] PROVE got' \in [Handlers -> Halves]
    BY <2>2 DEF Domains
  <2>3. \A n, k \in Nat : [price |-> n, key |-> k] \in Halves
    BY DEF Halves
  <2>4. \/ UNCHANGED got
        \/ \E n, k \in Nat : got' = [got EXCEPT ![g] = [price |-> n, key |-> k]]
    BY <1>2, <2>1
       DEF Handler, LockCell, Fetch, FetchNothing, StorePrice, StoreRest, Collect, NoQuote, None
  <2> QED BY <2>2, <2>3, <2>4 DEF Domains
<1>7. cache' \in [Cells -> Quotes]
  <2>1. \/ UNCHANGED cache
        \/ cache' = [cache EXCEPT ![Cell(g)].price = got[g].price]
        \/ cache' = [cache EXCEPT ![Cell(g)].key = got[g].key, ![Cell(g)].ts = now]
    BY DEF Handler, LockCell, Fetch, FetchNothing, StorePrice, StoreRest, Collect
  <2>2. ASSUME NEW q \in Quotes, cache' = [cache EXCEPT ![Cell(g)] = q]
        PROVE  cache' \in [Cells -> Quotes]
    BY <2>2 DEF Domains
  <2>3. got[g] \in Halves /\ cache[Cell(g)] \in Quotes /\ now \in Nat
    BY <1>2 DEF Domains
  <2>4. /\ [cache[Cell(g)] EXCEPT !.price = got[g].price] \in Quotes
        /\ [cache[Cell(g)] EXCEPT !.key = got[g].key, !.ts = now] \in Quotes
    BY <2>3 DEF Quotes, Halves
  <2>5. \/ UNCHANGED cache
        \/ cache' = [cache EXCEPT ![Cell(g)] = [cache[Cell(g)] EXCEPT !.price = got[g].price]]
        \/ cache' = [cache EXCEPT ![Cell(g)] = [cache[Cell(g)] EXCEPT !.key = got[g].key, !.ts = now]]
    BY <1>2, <2>1 DEF Domains
  <2> QED BY <2>2, <2>4, <2>5 DEF Domains
<1> QED BY <1>1, <1>3, <1>4, <1>5, <1>6, <1>7 DEF Domains

(* What a handler does, as far as those see it who wait.                   *)
LEMMA QdeqServes ==
    ASSUME Serving, NEW g \in Handlers, Qdeq(g)
    PROVE  Domains' /\ HasRequest' /\ Unanswered'
PROOF
<1>1. /\ Len(by) < Len(queue) /\ at[g] = "idle"
      /\ at' = [at EXCEPT ![g] = "lock"] /\ by' = Append(by, g)
      /\ UNCHANGED <<now, cache, busy, queue, returned, got, conn>>
  BY DEF Qdeq, Jump
<1>2. /\ by' \in Seq(Handlers) /\ Len(by') = Len(by) + 1 /\ Len(by) \in Nat
      /\ by'[Len(by) + 1] = g
      /\ \A n \in 1 .. Len(by) : by'[n] = by[n]
      /\ DOMAIN by = 1 .. Len(by) /\ DOMAIN by' = 1 .. Len(by) + 1
  <2>1. by \in Seq(Handlers)
    BY DEF Serving, Domains
  <2> QED BY <2>1, <1>1
<1>3. Len(by') <= Len(queue')
  <2>1. Len(queue) \in Nat
    BY DEF Serving, Domains
  <2> QED BY <2>1, <1>1, <1>2
<1>4. Domains'
  BY <1>1, <1>2, <1>3 DEF Serving, Domains, Places
<1>5. \A h \in Handlers : at'[h] = IF h = g THEN "lock" ELSE at[h]
  BY <1>1 DEF Serving, Domains
<1>6. ASSUME NEW h \in Handlers, h # g
      PROVE  TakenBy(h)' = TakenBy(h) /\ Element(h)' = Element(h)
  <2>1. TakenBy(h)' = TakenBy(h)
    BY <1>2, <1>6 DEF TakenBy
  <2> QED BY <2>1 DEF Element
<1>7. Element(g)' \in TakenBy(g)' /\ Element(g)' = Len(by) + 1
  <2> DEFINE taken == TakenBy(g)'
  <2>1. Len(by) + 1 \in taken /\ taken \subseteq Nat /\ \A q \in taken : q <= Len(by) + 1
    BY <1>2 DEF TakenBy
  <2>2. Element(g)' = CHOOSE r \in taken : \A q \in taken : q <= r
    BY DEF Element
  <2> HIDE DEF taken
  <2> DEFINE last == CHOOSE r \in taken : \A q \in taken : q <= r
  <2>3. last \in taken /\ \A q \in taken : q <= last
    BY <2>1
  <2> HIDE DEF last
  <2>4. last = Len(by) + 1
    BY <1>2, <2>1, <2>3
  <2> QED BY <2>1, <2>2, <2>4 DEF taken, last
<1>8. HasRequest'
  <2>1. ASSUME NEW h \in Handlers, Working(h)' PROVE Element(h)' \in TakenBy(h)'
    BY <2>1, <1>5, <1>6, <1>7 DEF Serving, HasRequest, Working
  <2> QED BY <2>1 DEF HasRequest
<1>9. Unanswered'
  <2>1. returned' = returned /\ returned \subseteq 1 .. Len(by)
    BY <1>1, <1>2 DEF Serving, Unanswered
  <2>2. returned' \subseteq DOMAIN by'
    BY <2>1, <1>2
  <2>3. ASSUME NEW h \in Handlers, at'[h] \in {"lock", "fetch", "store", "rest"}
        PROVE  Element(h)' \notin returned'
    <3>1. CASE h = g
      <4>1. Len(by) + 1 \notin 1 .. Len(by)
        BY <1>2
      <4> QED BY <4>1, <3>1, <2>1, <1>7
    <3>2. CASE h # g
      BY <3>2, <2>1, <2>3, <1>5, <1>6 DEF Serving, Unanswered
    <3> QED BY <3>1, <3>2
  <2> QED BY <2>2, <2>3 DEF Unanswered
<1> QED BY <1>4, <1>8, <1>9

LEMMA HandlerServes ==
    ASSUME Serving, NEW g \in Handlers, Handler(g), ~Qdeq(g)
    PROVE  Domains' /\ HasRequest' /\ Unanswered'
PROOF
<1> USE DEF Serving
<1>1. /\ Domains' /\ UNCHANGED <<queue, by>>
      /\ Working(g) /\ \A h \in Handlers \ {g} : at'[h] = at[h]
  BY HandlerDomains
<1>2. HasRequest'
  <2>1. ASSUME NEW h \in Handlers, Working(h)' PROVE Element(h)' \in TakenBy(h)'
    <3>1. Working(h)
      BY <2>1, <1>1 DEF Working
    <3> QED BY <3>1, <1>1, SameCells DEF HasRequest
  <2> QED BY <2>1 DEF HasRequest
<1>3. /\ at'[g] \in {"lock", "fetch", "store", "rest"} => at[g] \in {"lock", "fetch", "store", "rest"}
      /\ returned' = returned
         \/ (at[g] = "rest" /\ at'[g] = "collect" /\ returned' = returned \cup {Element(g)})
  BY DEF Domains, Handler, LockCell, Fetch, FetchNothing, StorePrice, StoreRest, Collect, Jump
<1>4. Element(g) \in DOMAIN by
  BY <1>1, RequestOf
<1>5. returned' \subseteq DOMAIN by'
  BY <1>1, <1>3, <1>4 DEF Unanswered
<1>6. ASSUME NEW h \in Handlers, at'[h] \in {"lock", "fetch", "store", "rest"}
      PROVE  Element(h)' \notin returned'
  <2>1. Element(h) \notin returned /\ Element(h)' = Element(h)
    BY <1>1, <1>3, <1>6, SameCells DEF Unanswered
  <2>2. CASE returned' = returned
    BY <2>1, <2>2
  <2>3. CASE at'[g] = "collect" /\ returned' = returned \cup {Element(g)}
    <3>1. h # g /\ Working(h)
      BY <2>3, <1>1, <1>6 DEF Working
    <3>2. by[Element(h)] = h /\ by[Element(g)] = g
      BY <3>1, <1>1 DEF HasRequest, TakenBy
    <3> QED BY <3>1, <3>2, <2>1, <2>3
  <2> QED BY <2>2, <2>3, <1>3
<1> QED BY <1>1, <1>2, <1>5, <1>6 DEF Unanswered
-----------------------------------------------------------------------------
(* Those who wait, as handlers work.                                       *)

LEMMA WaiterOf ==
    ASSUME Domains, NEW c \in Conns, conn[c] # Idle
    PROVE  /\ conn[c] \in Questions /\ conn[c].stock \in Stocks /\ CellOf(c) \in Cells
           /\ conn[c].asked \in Nat /\ conn[c].kind \in {"QCR", "QNR"}
PROOF
<1>1. conn[c] \in Questions
  BY DEF Domains
<1>2. /\ conn[c].stock \in Stocks /\ conn[c].asked \in Nat /\ conn[c].kind \in {"QCR", "QNR"}
  BY <1>1 DEF Questions
<1> QED BY <1>1, <1>2, AddressIsCell DEF CellOf

LEMMA WaitingIsBusy == \A c \in Conns : Waiting(c) => conn[c] # Idle
PROOF BY DEF Waiting, Idle

LEMMA WaitersKeep ==
    ASSUME Serving, UNCHANGED <<now, queue, returned, conn>>,
           \A a \in Cells : cache'[a].ts = cache[a].ts
    PROVE  Asked' /\ WaitsForElement' /\ HasWaiter' /\ NewForIt'
PROOF
<1>1. \A c \in Conns : Waiting(c) => CellOf(c) \in Cells
  BY WaiterOf, WaitingIsBusy DEF Serving
<1>2. \A c \in Conns : CellOf(c)' = CellOf(c) /\ (Waiting(c)' <=> Waiting(c))
  BY DEF CellOf, Address, Waiting
<1>3. Asked' /\ WaitsForElement'
  BY DEF Serving, Asked, WaitsForElement, Waiting, Idle
<1>4. HasWaiter'
  BY <1>2 DEF Serving, HasWaiter
<1>5. NewForIt'
  <2>1. ASSUME NEW c \in Conns, Waiting(c), conn[c].element \in returned
        PROVE  cache'[CellOf(c)].ts >= conn[c].asked
    BY <2>1, <1>1 DEF Serving, NewForIt
  <2> QED BY <2>1, <1>2 DEF NewForIt
<1> QED BY <1>3, <1>4, <1>5

LEMMA StoreRestWaiters ==
    ASSUME Serving, NEW g \in Handlers, StoreRest(g)
    PROVE  /\ Asked' /\ WaitsForElement' /\ HasWaiter' /\ NewForIt'
           /\ Cell(g) \in Cells /\ cache'[Cell(g)].ts = now
           /\ \A a \in Cells \ {Cell(g)} : cache'[a].ts = cache[a].ts
PROOF
<1> USE DEF Serving
<1>1. /\ at[g] = "rest" /\ returned' = returned \cup {Element(g)}
      /\ cache' = [cache EXCEPT ![Cell(g)].key = got[g].key, ![Cell(g)].ts = now]
      /\ UNCHANGED <<now, queue, by, conn>>
  BY DEF StoreRest, Jump
<1>2. Cell(g) \in Cells /\ Element(g) \in DOMAIN queue
  BY <1>1, RequestOf DEF Working
<1>3. /\ cache'[Cell(g)].ts = now
      /\ \A a \in Cells \ {Cell(g)} : cache'[a].ts = cache[a].ts
  BY <1>1, <1>2 DEF Domains, Quotes
<1>4. \A c \in Conns : CellOf(c)' = CellOf(c) /\ (Waiting(c)' <=> Waiting(c))
  BY <1>1 DEF CellOf, Address, Waiting
<1>5. Asked' /\ WaitsForElement'
  BY <1>1 DEF Asked, WaitsForElement, Waiting, Idle
<1>6. HasWaiter'
  <2>1. ASSUME NEW r \in DOMAIN queue' \ returned'
        PROVE  \E c \in Conns : Waiting(c)' /\ conn'[c].element = r
    <3>1. r \in DOMAIN queue \ returned
      BY <1>1, <2>1
    <3>2. PICK c \in Conns : Waiting(c) /\ conn[c].element = r
      BY <3>1 DEF HasWaiter
    <3> QED BY <3>2, <1>1, <1>4
  <2> QED BY <2>1 DEF HasWaiter
<1>7. NewForIt'
  <2>1. ASSUME NEW c \in Conns, Waiting(c), conn[c].element \in returned'
        PROVE  cache'[CellOf(c)].ts >= conn[c].asked
    <3>1. /\ CellOf(c) \in Cells /\ conn[c].asked <= now /\ now \in Nat /\ conn[c].asked \in Nat
      BY <2>1, WaiterOf, WaitingIsBusy DEF Asked, Domains
    <3>2. CASE CellOf(c) = Cell(g)
      BY <3>1, <3>2, <1>3
    <3>3. CASE CellOf(c) # Cell(g)
      <4>1. conn[c].element # Element(g)
        BY <3>3, <2>1 DEF WaitsForElement, Cell, CellOf
      <4>2. cache[CellOf(c)].ts >= conn[c].asked
        BY <4>1, <2>1, <1>1 DEF NewForIt
      <4> QED BY <4>2, <3>1, <3>3, <1>3
    <3> QED BY <3>2, <3>3
  <2> QED BY <2>1, <1>1, <1>4 DEF NewForIt
<1> QED BY <1>2, <1>3, <1>5, <1>6, <1>7

LEMMA OtherTimes ==
    ASSUME Serving, NEW g \in Handlers, Handler(g), ~StoreRest(g)
    PROVE  /\ UNCHANGED <<now, queue, returned, conn>>
           /\ \A a \in Cells : cache'[a].ts = cache[a].ts
PROOF
<1>1. UNCHANGED <<now, queue, returned, conn>>
  BY DEF Handler, Qdeq, LockCell, Fetch, FetchNothing, StorePrice, Collect
<1>2. UNCHANGED cache \/ StorePrice(g)
  BY DEF Handler, Qdeq, LockCell, Fetch, FetchNothing, Collect
<1>3. StorePrice(g) => \A a \in Cells : cache'[a].ts = cache[a].ts
  BY DEF StorePrice, Serving, Domains, Quotes
<1> QED BY <1>1, <1>2, <1>3

LEMMA HandlerKeeps ==
    ASSUME Serving, NEW g \in Handlers, Handler(g)
    PROVE  Serving'
PROOF
<1>1. Domains' /\ HasRequest' /\ Unanswered'
  BY QdeqServes, HandlerServes
<1>2. Asked' /\ WaitsForElement' /\ HasWaiter' /\ NewForIt'
  <2>1. CASE StoreRest(g)
    BY <2>1, StoreRestWaiters
  <2>2. CASE ~StoreRest(g)
    BY <2>2, OtherTimes, WaitersKeep
  <2> QED BY <2>1, <2>2
<1> QED BY <1>1, <1>2 DEF Serving
-----------------------------------------------------------------------------
(* The steps of connections and of the clock.                              *)

LEMMA RequestsKeep ==
    ASSUME HasRequest, Unanswered, UNCHANGED <<by, at, returned>>
    PROVE  HasRequest' /\ Unanswered'
PROOF
<1>1. \A h \in Handlers : TakenBy(h)' = TakenBy(h) /\ Element(h)' = Element(h)
  BY SameRequest
<1> QED BY <1>1 DEF HasRequest, Unanswered, Working

(* A connection that begins, ends or goes on to the queue.                 *)
LEMMA OneChanges ==
    ASSUME Serving, Domains', NEW c \in Conns, NEW q,
           UNCHANGED <<now, cache, queue, by, at, returned>>, conn' = [conn EXCEPT ![c] = q],
           Waiting(c) => conn[c].element \in returned,
           q.pc # "wait",
           q # Idle => q.asked <= now /\ (q.pc = "qenq" => q.kind = "QNR")
    PROVE  Serving'
PROOF
<1> USE DEF Serving
<1>1. /\ conn'[c] = q /\ \A d \in Conns \ {c} : conn'[d] = conn[d]
      /\ ~Waiting(c)' /\ \A d \in Conns \ {c} : Waiting(d)' = Waiting(d) /\ CellOf(d)' = CellOf(d)
  BY DEF Domains, Waiting, CellOf, Address
<1>2. HasRequest' /\ Unanswered'
  BY RequestsKeep
<1>3. Asked'
  <2>1. ASSUME NEW d \in Conns, conn'[d] # Idle
        PROVE  conn'[d].asked <= now /\ (conn'[d].pc \in {"qenq", "wait"} => conn'[d].kind = "QNR")
    BY <2>1, <1>1 DEF Asked
  <2> QED BY <2>1 DEF Asked
<1>4. WaitsForElement' /\ NewForIt'
  BY <1>1 DEF WaitsForElement, NewForIt
<1>5. HasWaiter'
  <2>1. ASSUME NEW r \in DOMAIN queue \ returned
        PROVE  \E d \in Conns : Waiting(d)' /\ conn'[d].element = r
    <3>1. PICK d \in Conns : Waiting(d) /\ conn[d].element = r
      BY DEF HasWaiter
    <3>2. d # c
      BY <3>1
    <3> QED BY <3>1, <3>2, <1>1
  <2> QED BY <2>1 DEF HasWaiter
<1> QED BY <1>2, <1>3, <1>4, <1>5

LEMMA RecvServes ==
    ASSUME Serving, NEW c \in Conns, NEW kind \in {"QCR", "QNR"}, NEW s \in Stocks, Recv(c, kind, s)
    PROVE  Serving'
PROOF
<1> DEFINE q == [pc |-> "check", kind |-> kind, stock |-> s, asked |-> now, element |-> None]
<1>1. /\ conn[c] = Idle /\ conn' = [conn EXCEPT ![c] = q]
      /\ UNCHANGED <<now, cache, queue, by, at, returned>>
  BY DEF Recv
<1>2. Domains'
  BY ConnectionDomains DEF Serving
<1>3. q.pc = "check" /\ q.asked <= now
  BY DEF Serving, Domains
<1>4. ~Waiting(c)
  BY <1>1 DEF Waiting, Idle
<1> HIDE DEF q
<1> QED BY <1>1, <1>2, <1>3, <1>4, OneChanges

LEMMA EndServes ==
    ASSUME Serving, NEW c \in Conns, Check(c) \/ ReplyFetched(c)
    PROVE  Serving'
PROOF
<1>1. UNCHANGED <<now, cache, queue, by, at, returned>>
  BY DEF Check, ReplyFetched
<1>2. Domains'
  BY ConnectionDomains DEF Serving
<1>3. Waiting(c) => conn[c].element \in returned
  BY DEF Check, ReplyFetched, Waiting
<1>4. CASE Reply(c)
  <2>1. conn' = [conn EXCEPT ![c] = Idle] /\ Idle.pc # "wait"
    BY <1>4 DEF Reply, Idle
  <2> QED BY <2>1, <1>1, <1>2, <1>3, OneChanges
<1>5. CASE Check(c) /\ ~Reply(c)
  <2> DEFINE q == [conn[c] EXCEPT !.pc = "qenq"]
  <2>1. conn[c].pc = "check" /\ conn[c].kind # "QCR" /\ conn' = [conn EXCEPT ![c].pc = "qenq"]
    BY <1>5 DEF Check
  <2>2. conn[c] \in Questions /\ conn[c] # Idle
    BY <2>1, WaiterOf DEF Serving, Idle
  <2>3. /\ conn[c].kind = "QNR" /\ q.kind = conn[c].kind /\ q.pc = "qenq" /\ q.asked = conn[c].asked
    BY <2>1, <2>2 DEF Questions
  <2>4. q.asked <= now
    BY <2>2, <2>3 DEF Serving, Asked
  <2>5. conn' = [conn EXCEPT ![c] = q]
    BY <2>1
  <2> HIDE DEF q
  <2> QED BY <2>3, <2>4, <2>5, <1>1, <1>2, <1>3, OneChanges
<1> QED BY <1>4, <1>5 DEF ReplyFetched

LEMMA QenqServes ==
    ASSUME Serving, NEW c \in Conns, Qenq(c)
    PROVE  Serving'
PROOF
<1> USE DEF Serving
<1>1. /\ conn[c].pc = "qenq" /\ queue' = Append(queue, conn[c].stock)
      /\ conn' = [conn EXCEPT ![c].pc = "wait", ![c].element = Len(queue')]
      /\ UNCHANGED <<now, cache, busy, by, returned, at, got, empty>>
  BY DEF Qenq
<1>2. Domains'
  BY ConnectionDomains
<1>3. conn[c] \in Questions /\ conn[c] # Idle /\ conn[c].stock \in Stocks
  BY <1>1, WaiterOf DEF Idle
<1>4. PICK k \in Nat : k = Len(queue) + 1
  BY DEF Domains
<1>5. /\ Len(queue') = k /\ queue'[k] = conn[c].stock
      /\ DOMAIN queue = 1 .. k - 1 /\ DOMAIN queue' = 1 .. k
      /\ \A n \in 1 .. k - 1 : queue'[n] = queue[n]
  <2>1. queue \in Seq(Stocks)
    BY DEF Domains
  <2> QED BY <2>1, <1>1, <1>3, <1>4
<1>6. /\ conn'[c].pc = "wait" /\ conn'[c].element = k
      /\ conn'[c].stock = conn[c].stock /\ conn'[c].asked = conn[c].asked
      /\ conn'[c].kind = conn[c].kind
      /\ \A d \in Conns \ {c} : conn'[d] = conn[d]
  BY <1>1, <1>3, <1>5 DEF Domains, Questions
<1>7. Waiting(c)' /\ \A d \in Conns \ {c} : Waiting(d)' = Waiting(d) /\ CellOf(d)' = CellOf(d)
  BY <1>6 DEF Waiting, CellOf, Address
<1>8. returned \subseteq 1 .. k - 1
  <2>1. DOMAIN by = 1 .. Len(by) /\ Len(by) \in Nat /\ Len(by) <= k - 1
    BY <1>4 DEF Domains
  <2> QED BY <2>1, <1>4 DEF Unanswered
<1>9. HasRequest' /\ Unanswered'
  BY <1>1, RequestsKeep
<1>10. Asked'
  <2>1. ASSUME NEW d \in Conns, conn'[d] # Idle
        PROVE  conn'[d].asked <= now /\ (conn'[d].pc \in {"qenq", "wait"} => conn'[d].kind = "QNR")
    BY <2>1, <1>1, <1>3, <1>6 DEF Asked
  <2> QED BY <2>1, <1>1 DEF Asked
<1>11. WaitsForElement'
  <2>1. ASSUME NEW d \in Conns, Waiting(d)'
        PROVE  conn'[d].element \in 1 .. k /\ queue'[conn'[d].element] = conn'[d].stock
    <3>1. CASE d = c
      BY <3>1, <1>4, <1>5, <1>6
    <3>2. CASE d # c
      <4>1. conn[d].element \in 1 .. k - 1 /\ queue[conn[d].element] = conn[d].stock
        BY <3>2, <2>1, <1>5, <1>7 DEF WaitsForElement
      <4> QED BY <4>1, <3>2, <1>4, <1>5, <1>6
    <3> QED BY <3>1, <3>2
  <2> QED BY <2>1, <1>5 DEF WaitsForElement
<1>12. HasWaiter'
  <2>1. ASSUME NEW r \in 1 .. k, r \notin returned
        PROVE  \E d \in Conns : Waiting(d)' /\ conn'[d].element = r
    <3>1. CASE r = k
      BY <3>1, <1>6, <1>7
    <3>2. CASE r # k
      <4>1. r \in DOMAIN queue \ returned
        BY <3>2, <2>1, <1>4, <1>5
      <4>2. PICK d \in Conns : Waiting(d) /\ conn[d].element = r
        BY <4>1 DEF HasWaiter
      <4>3. d # c
        BY <4>2, <1>1 DEF Waiting
      <4> QED BY <4>2, <4>3, <1>6, <1>7
    <3> QED BY <3>1, <3>2
  <2> QED BY <2>1, <1>1, <1>5 DEF HasWaiter
<1>13. NewForIt'
  <2>1. ASSUME NEW d \in Conns, Waiting(d)', conn'[d].element \in returned
        PROVE  cache[CellOf(d)'].ts >= conn'[d].asked
    <3>1. d # c
      BY <2>1, <1>4, <1>6, <1>8
    <3> QED BY <3>1, <2>1, <1>6, <1>7 DEF NewForIt
  <2> QED BY <2>1, <1>1 DEF NewForIt
<1> QED BY <1>2, <1>9, <1>10, <1>11, <1>12, <1>13

LEMMA TickServes == ASSUME Serving, Tick PROVE Serving'
PROOF
<1> USE DEF Serving
<1>1. now' = now + 1 /\ UNCHANGED <<cache, busy, queue, by, returned, at, got, conn>>
  BY DEF Tick
<1>2. Domains'
  BY ConnectionDomains
<1>3. HasRequest' /\ Unanswered'
  BY <1>1, RequestsKeep
<1>4. Asked'
  <2>1. ASSUME NEW c \in Conns, conn[c] # Idle PROVE conn[c].asked <= now + 1
    <3>1. conn[c].asked \in Nat /\ conn[c].asked <= now /\ now \in Nat
      BY <2>1, WaiterOf DEF Asked, Domains
    <3> QED BY <3>1
  <2> QED BY <2>1, <1>1 DEF Asked
<1>5. WaitsForElement' /\ HasWaiter' /\ NewForIt'
  BY <1>1 DEF WaitsForElement, HasWaiter, NewForIt, Waiting, CellOf, Address
<1> QED BY <1>2, <1>3, <1>4, <1>5

LEMMA ServingInit == Init => Serving
PROOF
<1> SUFFICES ASSUME Init PROVE Serving
  OBVIOUS
<1>1. Orderly
  BY InvInit DEF Init, Inv
<1>2. \A h \in Handlers : at[h] = "idle"
  BY DEF Init
<1>3. \A c \in Conns : conn[c] = Idle /\ ~Waiting(c)
  BY DEF Init, Idle, Waiting
<1>4. queue = <<>> /\ by = <<>> /\ returned = {}
  BY DEF Init
<1>5. DOMAIN queue = {}
  BY <1>4
<1> QED BY <1>1, <1>2, <1>3, <1>4, <1>5
        DEF Serving, Orderly, Unanswered, Asked, WaitsForElement, HasWaiter, NewForIt

LEMMA ServingNext == Serving /\ [Next]_vars => Serving'
PROOF
<1> SUFFICES ASSUME Serving, [Next]_vars PROVE Serving'
  OBVIOUS
<1>1. CASE UNCHANGED vars
  <2>1. UNCHANGED <<now, cache, busy, queue, by, returned, at, got, conn>>
    BY <1>1 DEF vars
  <2>2. Domains'
    BY <2>1 DEF Serving, Domains
  <2>3. HasRequest' /\ Unanswered'
    BY <2>1, RequestsKeep DEF Serving
  <2> QED BY <2>1, <2>2, <2>3, WaitersKeep DEF Serving
<1> QED BY <1>1, RecvServes, EndServes, QenqServes, TickServes, HandlerKeeps DEF Next
-----------------------------------------------------------------------------
(* The refinement, step by step.  Since and Asks are the state that        *)
(* QuoteService sees.                                                      *)

AskFor(q) ==
    IF q = Idle THEN [kind |-> "none"]
    ELSE [kind |-> q.kind, stock |-> q.stock, asked |-> q.asked]
Asks == [c \in Conns |-> AskFor(conn[c])]
Since == [s \in Stocks |-> cache[Address(s)].ts]

LEMMA AsksChange ==
    ASSUME Domains, NEW c \in Conns, NEW q, conn' = [conn EXCEPT ![c] = q]
    PROVE  Asks' = [Asks EXCEPT ![c] = AskFor(q)]
PROOF
<1>1. conn'[c] = q /\ \A d \in Conns \ {c} : conn'[d] = conn[d]
  BY DEF Domains
<1> QED BY <1>1 DEF Asks, AskFor

LEMMA AskOf ==
    ASSUME Domains, NEW c \in Conns, conn[c] # Idle
    PROVE  /\ Asks[c] # [kind |-> "none"]
           /\ Asks[c].kind = conn[c].kind /\ Asks[c].stock = conn[c].stock
           /\ Asks[c].asked = conn[c].asked
           /\ Since[Asks[c].stock] = cache[CellOf(c)].ts
           /\ now \in Nat /\ conn[c].asked \in Nat /\ cache[CellOf(c)].ts \in Nat /\ QuoteTo \in Nat \ {0}
PROOF
<1>1. conn[c].kind \in {"QCR", "QNR"} /\ CellOf(c) \in Cells /\ conn[c].stock \in Stocks
      /\ conn[c].asked \in Nat
  BY WaiterOf
<1>2. Asks[c] = [kind |-> conn[c].kind, stock |-> conn[c].stock, asked |-> conn[c].asked]
  BY DEF Asks, AskFor
<1>3. Asks[c] # [kind |-> "none"]
  <2>1. Asks[c].kind # "none"
    BY <1>1, <1>2
  <2> QED BY <2>1
<1>4. Since[Asks[c].stock] = cache[CellOf(c)].ts
  BY <1>1, <1>2 DEF Since, CellOf
<1> QED BY <1>1, <1>2, <1>3, <1>4, BalancerAssumption DEF BalancerAssumption, Domains, Quotes

LEMMA SameService ==
    ASSUME UNCHANGED <<now, Since, Asks>> PROVE UNCHANGED Service!serviceVars
PROOF BY DEF Service!serviceVars, Since, Asks, AskFor

(* A message that arrives is a question.                                   *)
LEMMA RecvIsAsk ==
    ASSUME Serving, NEW c \in Conns, NEW kind \in {"QCR", "QNR"}, NEW s \in Stocks, Recv(c, kind, s)
    PROVE  Service!Next
PROOF
<1> DEFINE q == [pc |-> "check", kind |-> kind, stock |-> s, asked |-> now, element |-> None]
<1>1. conn[c] = Idle /\ conn' = [conn EXCEPT ![c] = q] /\ UNCHANGED <<now, cache>>
  BY DEF Recv
<1>2. q # Idle
  <2>1. q.pc # Idle.pc
    BY DEF Idle
  <2> QED BY <2>1
<1>3. AskFor(q) = [kind |-> kind, stock |-> s, asked |-> now]
  BY <1>2 DEF AskFor
<1> HIDE DEF q
<1>4. Asks' = [Asks EXCEPT ![c] = [kind |-> kind, stock |-> s, asked |-> now]]
  BY <1>1, <1>3, AsksChange DEF Serving
<1>5. Asks[c] = [kind |-> "none"] /\ UNCHANGED <<now, Since>>
  BY <1>1 DEF Asks, AskFor, Since, Address
<1>6. Service!Ask(c, kind, s)
  BY <1>4, <1>5 DEF Service!Ask, Service!Nothing, Since, Asks, AskFor
<1> QED BY <1>6 DEF Service!Next

(* A reply answers the question when the quote is younger than it, ...     *)
LEMMA ReplyIsAnswer ==
    ASSUME Serving, NEW c \in Conns, conn[c] # Idle, Reply(c), UNCHANGED <<now, cache>>,
           cache[CellOf(c)].ts > conn[c].asked - QuoteTo
    PROVE  Service!Next
PROOF
<1>1. Asks' = [Asks EXCEPT ![c] = [kind |-> "none"]] /\ UNCHANGED <<now, Since>>
  <2>1. conn' = [conn EXCEPT ![c] = Idle] /\ AskFor(Idle) = [kind |-> "none"]
    BY DEF Reply, AskFor
  <2> QED BY <2>1, AsksChange DEF Serving, Since, Address
<1>2. Asks[c] # [kind |-> "none"] /\ Since[Asks[c].stock] > Asks[c].asked - QuoteTo
  BY AskOf DEF Serving
<1>3. Service!Answer(c)
  BY <1>1, <1>2 DEF Service!Answer, Service!Nothing, Since, Asks, AskFor
<1> QED BY <1>3 DEF Service!Next

(* ... and declines it when the cell is stale.                             *)
LEMMA ReplyIsDecline ==
    ASSUME Serving, NEW c \in Conns, conn[c] # Idle, Reply(c), UNCHANGED <<now, cache>>,
           conn[c].kind = "QCR", cache[CellOf(c)].ts <= now - QuoteTo
    PROVE  Service!Next
PROOF
<1>1. Asks' = [Asks EXCEPT ![c] = [kind |-> "none"]] /\ UNCHANGED <<now, Since>>
  <2>1. conn' = [conn EXCEPT ![c] = Idle] /\ AskFor(Idle) = [kind |-> "none"]
    BY DEF Reply, AskFor
  <2> QED BY <2>1, AsksChange DEF Serving, Since, Address
<1>2. /\ Asks[c] # [kind |-> "none"] /\ Asks[c].kind = "QCR"
      /\ Since[Asks[c].stock] <= now - QuoteTo
  BY AskOf DEF Serving
<1>3. Service!Decline(c)
  BY <1>1, <1>2 DEF Service!Decline, Service!Nothing, Since, Asks, AskFor
<1> QED BY <1>3 DEF Service!Next

(* A question that goes on to the queue is the question it was.            *)
LEMMA QueueStutters ==
    ASSUME Serving, NEW c \in Conns, conn[c] # Idle, NEW q, conn' = [conn EXCEPT ![c] = q],
           UNCHANGED <<now, cache>>, q.pc # "recv",
           q.kind = conn[c].kind, q.stock = conn[c].stock, q.asked = conn[c].asked
    PROVE  UNCHANGED Service!serviceVars
PROOF
<1>1. q # Idle
  BY DEF Idle
<1>2. AskFor(q) = Asks[c]
  BY <1>1 DEF AskFor, Asks
<1>3. Asks' = Asks
  BY <1>2, AsksChange DEF Serving, Asks
<1> QED BY <1>3, SameService DEF Since, Address

LEMMA ConnectionsServe ==
    ASSUME Serving, NEW c \in Conns, Check(c) \/ Qenq(c) \/ ReplyFetched(c)
    PROVE  Service!Next \/ UNCHANGED Service!serviceVars
PROOF
<1>1. conn[c] # Idle /\ UNCHANGED <<now, cache>>
  BY DEF Check, Qenq, ReplyFetched, Idle
<1>2. conn[c] \in Questions
  BY <1>1 DEF Serving, Domains
<1>3. /\ conn[c].asked \in Nat /\ now \in Nat /\ cache[CellOf(c)].ts \in Nat
      /\ QuoteTo \in Nat \ {0} /\ conn[c].asked <= now
  BY <1>1, AskOf DEF Serving, Asked
<1>4. CASE Check(c)
  <2>1. CASE Reply(c) /\ Fresh(cache[CellOf(c)])
    <3>1. cache[CellOf(c)].ts > conn[c].asked - QuoteTo
      BY <2>1, <1>3 DEF Fresh
    <3> QED BY <3>1, <2>1, <1>1, ReplyIsAnswer
  <2>2. CASE Reply(c) /\ ~Fresh(cache[CellOf(c)]) /\ conn[c].kind = "QCR"
    <3>1. cache[CellOf(c)].ts <= now - QuoteTo
      BY <2>2, <1>3 DEF Fresh
    <3> QED BY <3>1, <2>2, <1>1, ReplyIsDecline
  <2>3. CASE conn' = [conn EXCEPT ![c].pc = "qenq"]
    <3> DEFINE q == [conn[c] EXCEPT !.pc = "qenq"]
    <3>1. /\ conn' = [conn EXCEPT ![c] = q] /\ q.pc # "recv"
          /\ q.kind = conn[c].kind /\ q.stock = conn[c].stock /\ q.asked = conn[c].asked
      BY <2>3, <1>2 DEF Questions
    <3> HIDE DEF q
    <3> QED BY <3>1, <1>1, QueueStutters
  <2> QED BY <2>1, <2>2, <2>3, <1>4 DEF Check
<1>5. CASE Qenq(c)
  <2> DEFINE q == [conn[c] EXCEPT !.pc = "wait", !.element = Len(queue')]
  <2>1. conn' = [conn EXCEPT ![c].pc = "wait", ![c].element = Len(queue')]
    BY <1>5 DEF Qenq
  <2>2. conn' = [conn EXCEPT ![c] = q]
    BY <2>1 DEF Serving, Domains
  <2>3. /\ q.pc # "recv"
        /\ q.kind = conn[c].kind /\ q.stock = conn[c].stock /\ q.asked = conn[c].asked
    BY <1>2 DEF Questions
  <2> HIDE DEF q
  <2> QED BY <2>2, <2>3, <1>1, QueueStutters
<1>6. CASE ReplyFetched(c)
  <2>1. Reply(c) /\ cache[CellOf(c)].ts >= conn[c].asked
    BY <1>6 DEF ReplyFetched, Serving, NewForIt, Waiting
  <2>2. cache[CellOf(c)].ts > conn[c].asked - QuoteTo
    BY <2>1, <1>3
  <2> QED BY <2>1, <2>2, <1>1, ReplyIsAnswer
<1> QED BY <1>4, <1>5, <1>6

(* What a handler stores is a quote that somebody waits for.               *)
LEMMA HandlersServe ==
    ASSUME Serving, NEW g \in Handlers, Handler(g)
    PROVE  Service!Next \/ UNCHANGED Service!serviceVars
PROOF
<1>1. CASE ~StoreRest(g)
  <2>1. /\ UNCHANGED <<now, conn>>
        /\ \A a \in Cells : cache'[a].ts = cache[a].ts
    BY <1>1, OtherTimes
  <2>2. Since' = Since /\ Asks' = Asks
    BY <2>1, AddressIsCell DEF Since, Asks, AskFor, Address
  <2> QED BY <2>1, <2>2, SameService
<1>2. CASE StoreRest(g)
  <2>1. /\ at[g] = "rest" /\ UNCHANGED <<now, conn>>
        /\ Cell(g) \in Cells /\ cache'[Cell(g)].ts = now
        /\ \A a \in Cells \ {Cell(g)} : cache'[a].ts = cache[a].ts
    BY <1>2, StoreRestWaiters DEF StoreRest, Jump
  <2>2. PICK s \in Stocks : s = queue[Element(g)] /\ Address(s) = Cell(g)
    BY <2>1, RequestOf DEF Serving, Working, Cell
  <2>3. \A t \in Stocks \ {s} : Address(t) \in Cells \ {Cell(g)}
    BY <2>2, AddressIsCell, AddressIsOneToOne, BalancerAssumption DEF BalancerAssumption
  <2>4. Since' = [Since EXCEPT ![s] = now]
    <3>1. ASSUME NEW t \in Stocks
          PROVE  cache'[Address(t)].ts = IF t = s THEN now ELSE cache[Address(t)].ts
      BY <2>1, <2>2, <2>3
    <3> QED BY <3>1 DEF Since, Address
  <2>5. PICK c \in Conns : Waiting(c) /\ conn[c].element = Element(g)
    <3>1. Element(g) \in DOMAIN queue \ returned
      BY <2>1, RequestOf DEF Serving, Unanswered, Working
    <3> QED BY <3>1 DEF Serving, HasWaiter
  <2>6. conn[c] # Idle /\ conn[c].kind = "QNR" /\ conn[c].stock = s
    BY <2>2, <2>5, WaitingIsBusy DEF Serving, Asked, WaitsForElement, Waiting
  <2>7. Asks[c] # [kind |-> "none"] /\ Asks[c].kind = "QNR" /\ Asks[c].stock = s
    BY <2>6, AskOf DEF Serving
  <2>8. Asks' = Asks
    BY <2>1 DEF Asks, AskFor
  <2>9. Service!Refresh(s)
    BY <2>1, <2>4, <2>7, <2>8 DEF Service!Refresh, Service!Nothing, Since, Asks, AskFor
  <2> QED BY <2>9 DEF Service!Next
<1> QED BY <1>1, <1>2

(* Connections, queue, handlers and cells together serve quotes: a request *)
(* is answered once, with a quote that was not stale when it was made, a   *)
(* new one is fetched only for somebody who waits, and only a QCR is       *)
(* turned down, only while there is none (lines 310-364 and 448-521).      *)
THEOREM QuotesAreServed == Spec => ServesQuotes
PROOF
<1>1. Init => Service!Init
  <2> SUFFICES ASSUME Init PROVE Service!Init
    OBVIOUS
  <2>1. now = QuoteTo /\ Since = [s \in Stocks |-> 0]
    BY AddressIsCell DEF Init, Since
  <2>2. Asks = [c \in Conns |-> [kind |-> "none"]]
    BY DEF Init, Asks, AskFor
  <2> QED BY <2>1, <2>2 DEF Service!Init, Service!Nothing, Since, Asks, AskFor
<1>2. Serving /\ [Next]_vars => [Service!Next]_(Service!serviceVars)
  <2> SUFFICES ASSUME Serving, [Next]_vars PROVE Service!Next \/ UNCHANGED Service!serviceVars
    OBVIOUS
  <2>1. CASE UNCHANGED vars
    <3>1. UNCHANGED <<now, Since, Asks>>
      BY <2>1 DEF vars, Since, Asks, AskFor, Address
    <3> QED BY <3>1, SameService
  <2>2. CASE Tick
    <3>1. now' = now + 1 /\ UNCHANGED <<Since, Asks>>
      BY <2>2 DEF Tick, Since, Asks, AskFor, Address
    <3>2. Service!Tick
      BY <3>1 DEF Service!Tick, Since, Asks, AskFor
    <3> QED BY <3>2 DEF Service!Next
  <2> QED BY <2>1, <2>2, RecvIsAsk, ConnectionsServe, HandlersServe DEF Next
<1> QED BY <1>1, <1>2, ServingInit, ServingNext, PTL DEF Spec, ServesQuotes, Service!Spec
=============================================================================
