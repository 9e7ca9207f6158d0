-------------------------- MODULE QuoteQueueProofs --------------------------
(***************************************************************************)
(* Proofs about QuoteQueue, for any number of requesters, quote threads    *)
(* and stocks: an element has one owner; and until a requester comes too   *)
(* late to read its element, each who waits has one answer under way, and  *)
(* it comes after the price.                                               *)
(*                                                                         *)
(* The inductive invariant follows an element from qenq to free, together  *)
(* with the requester it names.                                            *)
(***************************************************************************)
EXTENDS QuoteQueue, FiniteSetTheorems, TLAPS

Steps == {"idle", "ask", "askNew", "post", "free"}

Domains ==
    /\ queue \in Seq(Blocks) /\ length \in Nat /\ Len(queue) = length + 1
    /\ memory \in [Blocks -> [stock : Stocks \cup {None}, returned : Requesters \cup {None}]]
    /\ sem \in [Requesters -> Nat]
    /\ pc \in [Requesters -> {"idle", "enqueued", "waiting", "answered"}]
    /\ stock \in [Requesters -> Stocks \cup {None}]
    /\ element \in [Requesters -> Blocks \cup {None}]
    /\ \A r \in Requesters : pc[r] = "enqueued" => element[r] \in Blocks
    /\ waitsFor \in [Requesters -> Requesters \cup {None}]
    /\ thread \in [QuoteThreads -> [step : Steps, block : Blocks \cup {None}]]
    /\ priced \subseteq Requesters

(* A block is in the queue once, or with one thread.                       *)
QueuedOnce == \A i, j \in DOMAIN queue : queue[i] = queue[j] => i = j
HasBlock == \A q \in QuoteThreads : thread[q].step # "idle" => thread[q].block \in Blocks
HeldByOne ==
    \A q \in QuoteThreads : thread[q].block # None =>
        /\ ~InQueue(thread[q].block)
        /\ \A p \in QuoteThreads \ {q} : thread[p].block # thread[q].block
IdleHasNone == \A q \in QuoteThreads : thread[q].step = "idle" => thread[q].block = None
Owned == QueuedOnce /\ HasBlock /\ IdleHasNone /\ HeldByOne

(* An element that is queued or with a thread that has not answered it.    *)
Open(b) == ~Freed(b) /\ \A q \in QuoteThreads : thread[q] # [step |-> "free", block |-> b]
Blankest == queue[Len(queue)]

(* The last element is blank; the others name a requester and its stock,   *)
(* each its own.                                                           *)
LastIsBlank == memory[Blankest].returned = None
Names ==
    \A b \in Blocks : Open(b) /\ b # Blankest =>
        /\ memory[b].returned \in Requesters
        /\ memory[b].stock = stock[memory[b].returned]
OneElement ==
    \A b, c \in Blocks :
        Open(b) /\ Open(c) /\ memory[b].returned = memory[c].returned => b = c

(* Who waits has either an open element or a permit, nobody else has any.  *)
HasOpen(r) == \E b \in Blocks : Open(b) /\ memory[b].returned = r
Pending(r) == pc[r] \in {"enqueued", "waiting"}
OneUnderWay ==
    \A r \in Requesters :
        \/ Pending(r) /\ HasOpen(r) /\ sem[r] = 0
        \/ Pending(r) /\ ~HasOpen(r) /\ sem[r] = 1
        \/ ~Pending(r) /\ ~HasOpen(r) /\ sem[r] = 0

(* It waits for its own semaphore, which is posted after the price.        *)
WaitsForOwn == \A r \in Requesters : pc[r] = "waiting" => waitsFor[r] = r
PricedFirst ==
    /\ \A q \in QuoteThreads : thread[q].step = "post" => memory[thread[q].block].returned \in priced
    /\ \A r \in Requesters : sem[r] > 0 \/ pc[r] = "answered" => r \in priced

InTime == LastIsBlank /\ Names /\ OneElement /\ OneUnderWay /\ WaitsForOwn /\ PricedFirst
Inv == Domains /\ Owned /\ (~swept => InTime)
-----------------------------------------------------------------------------
LEMMA SomeBlock == Blocks # {}
PROOF
<1>1. Cardinality(Requesters) \in Nat /\ Cardinality(QuoteThreads) \in Nat
  BY FS_CardinalityType, ConstantsAssumption
<1>2. Cardinality(Blocks) # 0
  BY <1>1, ConstantsAssumption, FS_CardinalityType
<1> QED BY <1>2, FS_EmptySet

LEMMA InvInit == Init => Inv
PROOF
<1> SUFFICES ASSUME Init PROVE Inv
  OBVIOUS
<1> DEFINE b0 == CHOOSE b \in Blocks : TRUE
<1>1. b0 \in Blocks
  BY SomeBlock
<1> HIDE DEF b0
<1>2. queue = <<b0>> /\ length = 0
  BY DEF Init, b0
<1>3. queue \in Seq(Blocks) /\ Len(queue) = 1 /\ queue[1] = b0 /\ DOMAIN queue = {1}
  BY <1>1, <1>2
<1>4. Domains
  BY <1>1, <1>2, <1>3 DEF Init, Domains, Blank, Steps
<1>5. Owned
  BY <1>3 DEF Init, Owned, QueuedOnce, HasBlock, IdleHasNone, HeldByOne
<1>6. \A b \in Blocks : memory[b].returned = None /\ (Open(b) => b = b0)
  BY <1>3, ConstantsAssumption DEF Init, Blank, Open, Freed, InQueue
<1>7. Blankest = b0
  BY <1>3 DEF Blankest
<1>8. LastIsBlank /\ Names /\ OneElement
  BY <1>1, <1>6, <1>7 DEF LastIsBlank, Names, OneElement
<1>9. OneUnderWay
  BY <1>6, ConstantsAssumption DEF Init, OneUnderWay, HasOpen, Pending
<1>10. WaitsForOwn /\ PricedFirst
  BY DEF Init, WaitsForOwn, PricedFirst
<1> QED BY <1>4, <1>5, <1>8, <1>9, <1>10 DEF Inv, InTime
-----------------------------------------------------------------------------
(* The queue as a set of blocks, when one is appended or taken.            *)
LEMMA Appended ==
    ASSUME Domains, QueuedOnce, NEW f \in Blocks, ~InQueue(f), queue' = Append(queue, f)
    PROVE  /\ queue' \in Seq(Blocks) /\ Len(queue') = Len(queue) + 1 /\ Len(queue) >= 1
           /\ \A b : InQueue(b)' <=> InQueue(b) \/ b = f
           /\ QueuedOnce'
           /\ Blankest \in Blocks /\ InQueue(Blankest) /\ Blankest' = f
PROOF
<1>1. queue \in Seq(Blocks) /\ Len(queue) \in Nat /\ Len(queue) >= 1 /\ DOMAIN queue = 1 .. Len(queue)
  BY DEF Domains
<1>2. /\ queue' \in Seq(Blocks) /\ Len(queue') = Len(queue) + 1
      /\ DOMAIN queue' = 1 .. Len(queue) + 1
      /\ \A i \in 1 .. Len(queue) : queue'[i] = queue[i]
      /\ queue'[Len(queue) + 1] = f
  BY <1>1
<1>3. \A b : InQueue(b)' <=> InQueue(b) \/ b = f
  BY <1>1, <1>2 DEF InQueue
<1>4. QueuedOnce'
  BY <1>1, <1>2 DEF InQueue, QueuedOnce
<1>5. Blankest \in Blocks /\ InQueue(Blankest) /\ Blankest' = f
  BY <1>1, <1>2 DEF InQueue, Blankest
<1> QED BY <1>1, <1>2, <1>3, <1>4, <1>5

LEMMA FirstTaken ==
    ASSUME Domains, QueuedOnce, length > 0, queue' = Tail(queue)
    PROVE  /\ queue' \in Seq(Blocks) /\ Len(queue') = Len(queue) - 1
           /\ \A b : InQueue(b)' <=> InQueue(b) /\ b # Head(queue)
           /\ QueuedOnce'
           /\ Head(queue) \in Blocks /\ InQueue(Head(queue))
           /\ Blankest' = Blankest /\ Blankest # Head(queue)
PROOF
<1>1. queue \in Seq(Blocks) /\ Len(queue) \in Nat /\ Len(queue) >= 2 /\ DOMAIN queue = 1 .. Len(queue)
  BY DEF Domains
<1>2. /\ queue' \in Seq(Blocks) /\ Len(queue') = Len(queue) - 1
      /\ DOMAIN queue' = 1 .. Len(queue) - 1
      /\ \A i \in 1 .. Len(queue) - 1 : queue'[i] = queue[i + 1]
      /\ Head(queue) = queue[1] /\ Head(queue) \in Blocks
  BY <1>1
<1>3. ASSUME NEW b PROVE InQueue(b)' <=> InQueue(b) /\ b # Head(queue)
  <2>1. ASSUME InQueue(b)' PROVE InQueue(b) /\ b # Head(queue)
    <3>1. PICK i \in 1 .. Len(queue) - 1 : queue[i + 1] = b
      BY <2>1, <1>2 DEF InQueue
    <3>2. i + 1 \in DOMAIN queue /\ 1 \in DOMAIN queue /\ i + 1 # 1
      BY <1>1
    <3> QED BY <3>1, <3>2, <1>2 DEF InQueue, QueuedOnce
  <2>2. ASSUME InQueue(b), b # Head(queue) PROVE InQueue(b)'
    <3>1. PICK i \in 1 .. Len(queue) : queue[i] = b /\ i # 1
      BY <2>2, <1>1, <1>2 DEF InQueue
    <3>2. i - 1 \in 1 .. Len(queue) - 1 /\ queue'[i - 1] = b
      BY <3>1, <1>1, <1>2
    <3> QED BY <3>2, <1>2 DEF InQueue
  <2> QED BY <2>1, <2>2
<1>4. ASSUME NEW i \in DOMAIN queue', NEW j \in DOMAIN queue', queue'[i] = queue'[j] PROVE i = j
  <2>1. queue[i + 1] = queue[j + 1] /\ i + 1 \in DOMAIN queue /\ j + 1 \in DOMAIN queue
    BY <1>1, <1>2, <1>4
  <2>2. i + 1 = j + 1
    BY <2>1 DEF QueuedOnce
  <2> QED BY <2>2, <1>1, <1>2
<1>5. 1 \in DOMAIN queue /\ Len(queue) \in DOMAIN queue /\ Len(queue) # 1
  BY <1>1
<1>6. Blankest' = Blankest /\ Blankest # Head(queue)
  BY <1>1, <1>2, <1>5 DEF Blankest, QueuedOnce
<1> QED BY <1>2, <1>3, <1>4, <1>5, <1>6 DEF QueuedOnce, InQueue

(* What holds of open elements when a step opens none and leaves their     *)
(* contents and their requesters' stocks alone.                            *)
LEMMA SameElements ==
    ASSUME Domains, Owned, InTime,
           Blankest' = Blankest,
           \A c \in Blocks : Open(c)' => Open(c),
           \A c \in Blocks : Open(c) => memory'[c] = memory[c],
           \A s \in Requesters : HasOpen(s) => stock'[s] = stock[s]
    PROVE  LastIsBlank' /\ Names' /\ OneElement'
PROOF
<1> DEFINE b == Blankest
<1>1. b \in Blocks /\ Open(b)
  <2>1. Len(queue) \in DOMAIN queue /\ b \in Blocks
    BY DEF Domains, Blankest
  <2>2. InQueue(b) /\ \A q \in QuoteThreads : thread[q].block # b
    BY <2>1, ConstantsAssumption DEF InQueue, Owned, HeldByOne, Blankest
  <2> QED BY <2>1, <2>2 DEF Open, Freed
<1>2. LastIsBlank'
  BY <1>1 DEF LastIsBlank, InTime
<1>3. Names'
  <2> SUFFICES ASSUME NEW c \in Blocks, Open(c)', c # b
               PROVE  /\ memory'[c].returned \in Requesters
                      /\ memory'[c].stock = stock'[memory'[c].returned]
    BY DEF Names
  <2>1. Open(c) /\ memory'[c] = memory[c]
    OBVIOUS
  <2>2. memory[c].returned \in Requesters /\ memory[c].stock = stock[memory[c].returned]
    BY <2>1 DEF InTime, Names
  <2> QED BY <2>1, <2>2 DEF HasOpen
<1>4. OneElement'
  <2> SUFFICES ASSUME NEW c \in Blocks, NEW d \in Blocks, Open(c)', Open(d)',
                      memory'[c].returned = memory'[d].returned
               PROVE  c = d
    BY DEF OneElement
  <2> QED BY DEF InTime, OneElement
<1> QED BY <1>2, <1>3, <1>4

(* A thread's element is open until it has been answered.                  *)
LEMMA HeldIsOpen ==
    ASSUME Domains, Owned, NEW q \in QuoteThreads, thread[q].step \in {"ask", "askNew", "post"}
    PROVE  thread[q].block \in Blocks /\ Open(thread[q].block) /\ thread[q].block # Blankest
PROOF
<1> DEFINE c == thread[q].block
<1>1. c \in Blocks /\ c # None /\ ~InQueue(c)
  BY ConstantsAssumption DEF Owned, HasBlock, HeldByOne
<1>2. \A p \in QuoteThreads : thread[p] # [step |-> "free", block |-> c]
  BY <1>1 DEF Owned, HeldByOne
<1>3. InQueue(Blankest)
  <2>1. Len(queue) \in DOMAIN queue
    BY DEF Domains
  <2> QED BY <2>1 DEF InQueue, Blankest
<1> QED BY <1>1, <1>2, <1>3 DEF Open, Freed
-----------------------------------------------------------------------------
(* The steps of the requesters.                                            *)

LEMMA InvAsk ==
    ASSUME Inv, NEW r \in Requesters, NEW k \in Stocks, Ask(r, k)
    PROVE  Inv'
PROOF
<1>0. Domains /\ Owned /\ QueuedOnce /\ HasBlock /\ IdleHasNone /\ HeldByOne
  BY DEF Inv, Owned
<1> DEFINE b == Blankest
<1>1. PICK free \in Blocks :
        /\ Freed(free)
        /\ queue' = Append(queue, free)
        /\ memory' = [memory EXCEPT ![b] = [stock |-> k, returned |-> r], ![free] = Blank]
  BY DEF Ask, Qenq, Calloc, Blankest
<1>2. /\ length' = length + 1
      /\ element' = [element EXCEPT ![r] = b]
      /\ pc[r] = "idle" /\ pc' = [pc EXCEPT ![r] = "enqueued"]
      /\ stock' = [stock EXCEPT ![r] = k]
      /\ priced' = priced \ {r}
      /\ UNCHANGED <<sem, waitsFor, thread, swept>>
  BY DEF Ask, Qenq, Blankest, threadVars
<1>3. /\ queue' \in Seq(Blocks) /\ Len(queue') = Len(queue) + 1
      /\ \A c : InQueue(c)' <=> InQueue(c) \/ c = free
      /\ QueuedOnce'
      /\ b \in Blocks /\ InQueue(b) /\ Blankest' = free /\ b # free
  BY <1>0, <1>1, Appended DEF Freed
<1> HIDE DEF b
<1>4. Domains'
  <2>1. memory' \in [Blocks -> [stock : Stocks \cup {None}, returned : Requesters \cup {None}]]
    BY <1>0, <1>1, <1>3 DEF Domains, Blank
  <2>2. Len(queue') = length' + 1 /\ length' \in Nat /\ queue' \in Seq(Blocks)
    BY <1>0, <1>2, <1>3 DEF Domains
  <2> QED BY <1>0, <1>2, <1>3, <2>1, <2>2 DEF Domains
<1>5. Owned'
  BY <1>0, <1>1, <1>2, <1>3 DEF Owned, HasBlock, IdleHasNone, HeldByOne, Freed
<1>6. ASSUME ~swept' PROVE InTime'
  <2>0. InTime
    BY <1>6, <1>2 DEF Inv
  <2>1. \A c \in Blocks : Open(c)' <=> Open(c) \/ c = free
    BY <1>0, <1>1, <1>2, <1>3 DEF Open, Freed
  <2>2. /\ memory'[free] = Blank /\ memory'[b] = [stock |-> k, returned |-> r]
        /\ \A c \in Blocks \ {b, free} : memory'[c] = memory[c]
        /\ ~Open(free) /\ Open(b) /\ memory[b].returned = None
    <3>1. /\ memory'[free] = Blank /\ memory'[b] = [stock |-> k, returned |-> r]
          /\ \A c \in Blocks \ {b, free} : memory'[c] = memory[c]
      BY <1>0, <1>1, <1>3 DEF Domains
    <3>2. memory[b].returned = None
      BY <2>0 DEF InTime, LastIsBlank, b
    <3>3. \A q \in QuoteThreads : thread[q].block # b
      BY <1>0, <1>3, ConstantsAssumption DEF HeldByOne
    <3>4. ~Open(free) /\ Open(b)
      BY <1>1, <1>3, <3>3 DEF Open, Freed
    <3> QED BY <3>1, <3>2, <3>4
  <2>3. ~Pending(r) /\ ~HasOpen(r) /\ sem[r] = 0
    BY <1>2, <2>0 DEF InTime, OneUnderWay, Pending
  <2>4. LastIsBlank'
    BY <2>2, <1>3 DEF LastIsBlank, Blank
  <2>5. Names'
    <3> SUFFICES ASSUME NEW c \in Blocks, Open(c)', c # free
                 PROVE  /\ memory'[c].returned \in Requesters
                        /\ memory'[c].stock = stock'[memory'[c].returned]
      BY <1>3 DEF Names
    <3>1. CASE c = b
      BY <3>1, <2>2, <1>2, <1>0 DEF Domains
    <3>2. CASE c # b
      <4>1. Open(c) /\ memory'[c] = memory[c] /\ memory[c].returned # r
        BY <3>2, <2>1, <2>2, <2>3 DEF HasOpen
      <4>2. memory[c].returned \in Requesters /\ memory[c].stock = stock[memory[c].returned]
        BY <4>1, <3>2, <2>0 DEF InTime, Names, b
      <4> QED BY <4>1, <4>2, <1>2, <1>0 DEF Domains
    <3> QED BY <3>1, <3>2
  <2>6. OneElement'
    <3> SUFFICES ASSUME NEW c \in Blocks, NEW d \in Blocks, Open(c)', Open(d)', c # d
                 PROVE  memory'[c].returned # memory'[d].returned
      BY DEF OneElement
    <3>1. \A e \in Blocks : Open(e) /\ e # b =>
              memory'[e] = memory[e] /\ memory[e].returned \in Requesters /\ memory[e].returned # r
      BY <2>0, <2>2, <2>3 DEF InTime, Names, HasOpen, b
    <3>2. memory[c].returned # memory[d].returned \/ c = b \/ d = b \/ c = free \/ d = free
      BY <2>0, <2>1 DEF InTime, OneElement
    <3> QED BY <3>1, <3>2, <2>1, <2>2, ConstantsAssumption DEF Blank
  <2>7. OneUnderWay'
    <3>1. HasOpen(r)'
      BY <1>3, <2>1, <2>2 DEF HasOpen
    <3>2. \A s \in Requesters \ {r} : HasOpen(s)' <=> HasOpen(s)
      BY <2>1, <2>2, ConstantsAssumption DEF HasOpen, Blank
    <3>3. \A s \in Requesters \ {r} : pc'[s] = pc[s]
      BY <1>2, <1>0 DEF Domains
    <3>4. pc'[r] = "enqueued" /\ sem' = sem
      BY <1>2, <1>0 DEF Domains
    <3> QED BY <3>1, <3>2, <3>3, <3>4, <2>0, <2>3 DEF InTime, OneUnderWay, Pending
  <2>8. WaitsForOwn'
    BY <1>0, <1>2, <2>0 DEF InTime, WaitsForOwn, Domains
  <2>9. PricedFirst'
    <3>1. ASSUME NEW q \in QuoteThreads, thread'[q].step = "post"
          PROVE  memory'[thread'[q].block].returned \in priced'
      <4> DEFINE c == thread[q].block
      <4>1. thread' = thread /\ c \in Blocks /\ ~InQueue(c) /\ c # None
        BY <1>0, <1>2, <3>1, ConstantsAssumption DEF HasBlock, HeldByOne
      <4>2. Open(c)
        BY <4>1, <1>0, <1>2, <3>1 DEF Open, Freed, HeldByOne
      <4>3. c # b /\ c # free
        BY <4>1, <4>2, <1>3, <2>2
      <4>4. memory'[c] = memory[c] /\ memory[c].returned \in priced
        BY <4>1, <4>3, <2>0, <2>2, <3>1 DEF InTime, PricedFirst
      <4> QED BY <4>1, <4>2, <4>4, <1>2, <2>3 DEF HasOpen
    <3>2. ASSUME NEW s \in Requesters, sem'[s] > 0 \/ pc'[s] = "answered" PROVE s \in priced'
      BY <1>0, <1>2, <2>0, <2>3, <3>2 DEF Domains, InTime, PricedFirst
    <3> QED BY <3>1, <3>2 DEF PricedFirst
  <2> QED BY <2>4, <2>5, <2>6, <2>7, <2>8, <2>9 DEF InTime
<1> QED BY <1>4, <1>5, <1>6 DEF Inv

LEMMA InvReadReturned ==
    ASSUME Inv, NEW r \in Requesters, ReadReturned(r)
    PROVE  Inv'
PROOF
<1>0. Domains /\ Owned
  BY DEF Inv
<1> DEFINE e == element[r]
           found == memory[e].returned
<1>1. /\ pc[r] = "enqueued" /\ pc' = [pc EXCEPT ![r] = "waiting"]
      /\ waitsFor' = [waitsFor EXCEPT ![r] = found]
      /\ element' = [element EXCEPT ![r] = None]
      /\ swept' = (swept \/ found # r)
      /\ UNCHANGED <<queue, length, sem, stock, thread, priced>>
  BY DEF ReadReturned, threadVars
<1>2. \/ Freed(e) /\ memory' = [memory EXCEPT ![e] = Blank]
      \/ memory' = memory
  BY DEF ReadReturned
<1>3. e \in Blocks /\ found \in Requesters \cup {None}
  BY <1>0, <1>1 DEF Domains
<1>4. Domains'
  <2>1. memory' \in [Blocks -> [stock : Stocks \cup {None}, returned : Requesters \cup {None}]]
    <3>1. Blank \in [stock : Stocks \cup {None}, returned : Requesters \cup {None}]
      BY DEF Blank
    <3>2. memory \in [Blocks -> [stock : Stocks \cup {None}, returned : Requesters \cup {None}]]
      BY <1>0 DEF Domains
    <3> HIDE DEF e
    <3> QED BY <1>2, <3>1, <3>2
  <2>2. waitsFor' \in [Requesters -> Requesters \cup {None}]
    BY <1>0, <1>1, <1>3 DEF Domains
  <2> QED BY <1>0, <1>1, <2>1, <2>2 DEF Domains
<1>5. Owned'
  BY <1>0, <1>1 DEF Owned, QueuedOnce, HasBlock, IdleHasNone, HeldByOne, InQueue
<1>6. ASSUME ~swept' PROVE InTime'
  <2>0. InTime /\ found = r
    BY <1>6, <1>1 DEF Inv
  <2>1. Blankest' = Blankest /\ \A c \in Blocks : Open(c)' <=> Open(c)
    BY <1>1 DEF Blankest, Open, Freed, InQueue
  <2>2. \A c \in Blocks : Open(c) => memory'[c] = memory[c]
    BY <1>0, <1>2, <1>3 DEF Open, Domains
  <2>3. LastIsBlank' /\ Names' /\ OneElement'
    BY <1>0, <1>1, <2>0, <2>1, <2>2, SameElements
  <2>4. \A s \in Requesters : HasOpen(s)' <=> HasOpen(s)
    BY <2>1, <2>2 DEF HasOpen
  <2>5. \A s \in Requesters : /\ Pending(s)' <=> Pending(s)
                              /\ pc'[s] = "answered" <=> pc[s] = "answered"
    BY <1>0, <1>1 DEF Pending, Domains
  <2>6. OneUnderWay'
    BY <2>0, <2>4, <2>5, <1>1 DEF InTime, OneUnderWay
  <2>7. WaitsForOwn'
    BY <1>0, <1>1, <2>0 DEF InTime, WaitsForOwn, Domains
  <2>8. PricedFirst'
    <3>1. ASSUME NEW q \in QuoteThreads, thread'[q].step = "post"
          PROVE  memory'[thread'[q].block].returned \in priced'
      BY <1>0, <1>1, <2>0, <2>2, <3>1, HeldIsOpen DEF InTime, PricedFirst
    <3> QED BY <3>1, <1>1, <2>0, <2>5 DEF InTime, PricedFirst
  <2> QED BY <2>3, <2>6, <2>7, <2>8 DEF InTime
<1> QED BY <1>4, <1>5, <1>6 DEF Inv

LEMMA InvSemWait ==
    ASSUME Inv, NEW r \in Requesters, SemWait(r)
    PROVE  Inv'
PROOF
<1>0. Domains /\ Owned
  BY DEF Inv
<1>1. /\ pc[r] = "waiting" /\ sem[waitsFor[r]] > 0
      /\ sem' = [sem EXCEPT ![waitsFor[r]] = @ - 1]
      /\ pc' = [pc EXCEPT ![r] = "answered"]
      /\ waitsFor' = [waitsFor EXCEPT ![r] = None]
      /\ UNCHANGED <<queue, length, memory, stock, element, thread, priced, swept>>
  BY DEF SemWait, threadVars
<1>2. Domains'
  <2>1. sem' \in [Requesters -> Nat]
    <3> DEFINE w == waitsFor[r]
    <3>1. sem \in [Requesters -> Nat] /\ sem' = [sem EXCEPT ![w] = sem[w] - 1] /\ sem[w] > 0
      BY <1>0, <1>1 DEF Domains
    <3> HIDE DEF w
    <3>2. CASE w \in Requesters
      BY <3>1, <3>2
    <3>3. CASE w \notin Requesters
      <4>1. \A s \in Requesters : sem'[s] = sem[s]
        BY <3>1, <3>3
      <4> QED BY <3>1, <4>1
    <3> QED BY <3>2, <3>3
  <2> QED BY <1>0, <1>1, <2>1 DEF Domains
<1>3. Owned'
  BY <1>0, <1>1 DEF Owned, QueuedOnce, HasBlock, IdleHasNone, HeldByOne, InQueue
<1>4. ASSUME ~swept' PROVE InTime'
  <2>0. InTime
    BY <1>4, <1>1 DEF Inv
  <2>1. Blankest' = Blankest /\ \A c \in Blocks : Open(c)' <=> Open(c)
    BY <1>1 DEF Blankest, Open, Freed, InQueue
  <2>2. LastIsBlank' /\ Names' /\ OneElement'
    BY <1>0, <1>1, <2>0, <2>1, SameElements
  <2>3. \A s \in Requesters : HasOpen(s)' <=> HasOpen(s)
    BY <1>1, <2>1 DEF HasOpen
  <2>4. waitsFor[r] = r /\ sem[r] = 1 /\ ~HasOpen(r)
    BY <1>0, <1>1, <2>0 DEF InTime, WaitsForOwn, OneUnderWay, Domains
  <2>5. /\ sem'[r] = 0 /\ ~Pending(r)'
        /\ \A s \in Requesters \ {r} : sem'[s] = sem[s] /\ pc'[s] = pc[s]
    BY <1>0, <1>1, <2>4 DEF Domains, Pending
  <2>6. OneUnderWay'
    BY <2>0, <2>3, <2>4, <2>5 DEF InTime, OneUnderWay, Pending
  <2>7. WaitsForOwn'
    BY <1>0, <1>1, <2>0 DEF InTime, WaitsForOwn, Domains
  <2>8. PricedFirst'
    BY <1>0, <1>1, <2>0, <2>4, <2>5 DEF InTime, PricedFirst
  <2> QED BY <2>2, <2>6, <2>7, <2>8 DEF InTime
<1> QED BY <1>2, <1>3, <1>4 DEF Inv

LEMMA InvUse ==
    ASSUME Inv, NEW r \in Requesters, Use(r)
    PROVE  Inv'
PROOF
<1>0. Domains /\ Owned
  BY DEF Inv
<1>1. /\ pc[r] = "answered" /\ pc' = [pc EXCEPT ![r] = "idle"]
      /\ stock' = [stock EXCEPT ![r] = None]
      /\ UNCHANGED <<queue, length, memory, sem, element, waitsFor, thread, priced, swept>>
  BY DEF Use, threadVars
<1>2. Domains'
  BY <1>0, <1>1 DEF Domains
<1>3. Owned'
  BY <1>0, <1>1 DEF Owned, QueuedOnce, HasBlock, IdleHasNone, HeldByOne, InQueue
<1>4. ASSUME ~swept' PROVE InTime'
  <2>0. InTime
    BY <1>4, <1>1 DEF Inv
  <2>1. Blankest' = Blankest /\ \A c \in Blocks : Open(c)' <=> Open(c)
    BY <1>1 DEF Blankest, Open, Freed, InQueue
  <2>2. ~HasOpen(r) /\ ~Pending(r) /\ sem[r] = 0
    BY <1>1, <2>0 DEF InTime, OneUnderWay, Pending
  <2>3. LastIsBlank' /\ Names' /\ OneElement'
    <3>1. \A s \in Requesters : HasOpen(s) => stock'[s] = stock[s]
      BY <1>0, <1>1, <2>2 DEF Domains
    <3> QED BY <1>0, <1>1, <2>0, <2>1, <3>1, SameElements
  <2>4. \A s \in Requesters : HasOpen(s)' <=> HasOpen(s)
    BY <1>1, <2>1 DEF HasOpen
  <2>5. \A s \in Requesters : Pending(s)' <=> Pending(s)
    BY <1>0, <1>1 DEF Pending, Domains
  <2>6. OneUnderWay'
    BY <2>0, <2>4, <2>5, <1>1 DEF InTime, OneUnderWay
  <2>7. WaitsForOwn' /\ PricedFirst'
    BY <1>0, <1>1, <2>0 DEF InTime, WaitsForOwn, PricedFirst, Domains
  <2> QED BY <2>3, <2>6, <2>7 DEF InTime
<1> QED BY <1>2, <1>3, <1>4 DEF Inv
-----------------------------------------------------------------------------
(* The steps of the quote threads.                                         *)

LEMMA InvQdeq ==
    ASSUME Inv, NEW q \in QuoteThreads, Qdeq(q)
    PROVE  Inv'
PROOF
<1>0. Domains /\ Owned
  BY DEF Inv
<1> DEFINE h == Head(queue)
<1>1. /\ thread[q].step = "idle" /\ length > 0 /\ length' = length - 1
      /\ thread' = [thread EXCEPT ![q] = [step |-> "ask", block |-> h]]
      /\ queue' = Tail(queue)
      /\ UNCHANGED <<memory, sem, pc, stock, element, waitsFor, priced, swept>>
  BY DEF Qdeq
<1>2. /\ queue' \in Seq(Blocks) /\ Len(queue') = Len(queue) - 1
      /\ \A b : InQueue(b)' <=> InQueue(b) /\ b # h
      /\ QueuedOnce'
      /\ h \in Blocks /\ InQueue(h)
      /\ Blankest' = Blankest /\ Blankest # h
  BY <1>0, <1>1, FirstTaken DEF Owned
<1> HIDE DEF h
<1>3. /\ thread'[q] = [step |-> "ask", block |-> h]
      /\ \A p \in QuoteThreads \ {q} : thread'[p] = thread[p]
  BY <1>0, <1>1 DEF Domains
<1>4. Domains'
  <2>1. Len(queue') = length' + 1 /\ length' \in Nat
    BY <1>0, <1>1, <1>2 DEF Domains
  <2>2. thread' \in [QuoteThreads -> [step : Steps, block : Blocks \cup {None}]]
    BY <1>0, <1>1, <1>2 DEF Domains, Steps
  <2> QED BY <1>0, <1>1, <1>2, <2>1, <2>2 DEF Domains
<1>5. \A p \in QuoteThreads : thread[p].block # h
  BY <1>0, <1>2, ConstantsAssumption DEF Owned, HeldByOne
<1>6. Owned'
  <2>1. HasBlock' /\ IdleHasNone'
    BY <1>0, <1>2, <1>3 DEF Owned, HasBlock, IdleHasNone
  <2>2. HeldByOne'
    BY <1>0, <1>2, <1>3, <1>5 DEF Owned, HeldByOne
  <2> QED BY <1>2, <2>1, <2>2 DEF Owned
<1>7. ASSUME ~swept' PROVE InTime'
  <2>0. InTime
    BY <1>7, <1>1 DEF Inv
  <2>1. \A c \in Blocks : Open(c)' => Open(c)
    <3> SUFFICES ASSUME NEW c \in Blocks, Open(c)' PROVE Open(c)
      OBVIOUS
    <3>1. ~Freed(c)
      <4>1. CASE c = h
        BY <4>1, <1>2 DEF Freed
      <4>2. CASE c # h
        <5>1. InQueue(c)' => InQueue(c)
          BY <1>2
        <5>2. \A p \in QuoteThreads : thread'[p].block = c => thread[p].block = c
          BY <4>2, <1>3
        <5> QED BY <5>1, <5>2 DEF Open, Freed
      <4> QED BY <4>1, <4>2
    <3>2. thread[q] # [step |-> "free", block |-> c]
      BY <1>1
    <3>3. \A p \in QuoteThreads : thread[p] # [step |-> "free", block |-> c]
      BY <3>2, <1>3 DEF Open
    <3> QED BY <3>1, <3>3 DEF Open
  <2>2. \A c \in Blocks : Open(c) => Open(c)'
    <3> SUFFICES ASSUME NEW c \in Blocks, Open(c) PROVE Open(c)'
      OBVIOUS
    <3>1. ~Freed(c)'
      <4>1. CASE c = h
        BY <4>1, <1>3 DEF Freed
      <4>2. CASE c # h /\ InQueue(c)
        BY <4>2, <1>2 DEF Freed
      <4>3. CASE ~InQueue(c)
        <5>1. PICK p \in QuoteThreads : thread[p].block = c
          BY <4>3 DEF Open, Freed
        <5>2. p # q \/ thread[q].block = c
          BY <5>1
        <5>3. CASE p # q
          BY <5>1, <5>3, <1>3 DEF Freed
        <5>4. CASE p = q
          BY <5>1, <5>4, <1>0, <1>1, ConstantsAssumption DEF Owned, IdleHasNone
        <5> QED BY <5>3, <5>4
      <4> QED BY <4>1, <4>2, <4>3
    <3>2. \A p \in QuoteThreads : thread'[p] # [step |-> "free", block |-> c]
      BY <1>3 DEF Open
    <3> QED BY <3>1, <3>2 DEF Open
  <2>3. LastIsBlank' /\ Names' /\ OneElement'
    BY <1>0, <1>1, <1>2, <2>0, <2>1, SameElements
  <2>4. \A s \in Requesters : HasOpen(s)' <=> HasOpen(s)
    BY <1>1, <2>1, <2>2 DEF HasOpen
  <2>5. OneUnderWay' /\ WaitsForOwn'
    BY <2>0, <2>4, <1>1 DEF InTime, OneUnderWay, Pending, WaitsForOwn
  <2>6. PricedFirst'
    BY <2>0, <1>1, <1>3 DEF InTime, PricedFirst
  <2> QED BY <2>3, <2>5, <2>6 DEF InTime
<1> QED BY <1>4, <1>6, <1>7 DEF Inv

(* Asking a load balancer leaves a thread with its element; a price comes  *)
(* before the answer.                                                      *)
LEMMA InvAsking ==
    ASSUME Inv, NEW q \in QuoteThreads, thread[q].step \in {"ask", "askNew"},
           NEW t \in {"ask", "askNew", "post"},
           Goto(q, t), UNCHANGED <<requestVars, swept>>,
           priced' \in SUBSET Requesters, priced \subseteq priced',
           t = "post" /\ ~swept => memory[thread[q].block].returned \in priced'
    PROVE  Inv'
PROOF
<1>0. Domains /\ Owned
  BY DEF Inv
<1>1. UNCHANGED <<queue, length, memory, sem, pc, stock, element, waitsFor, swept>>
  BY DEF requestVars
<1>2. /\ thread'[q].step = t /\ thread'[q].block = thread[q].block
      /\ thread'[q] \in [step : Steps, block : Blocks \cup {None}]
      /\ \A p \in QuoteThreads \ {q} : thread'[p] = thread[p]
      /\ thread' \in [QuoteThreads -> [step : Steps, block : Blocks \cup {None}]]
  BY <1>0 DEF Domains, Goto, Steps
<1>3. Domains'
  BY <1>0, <1>1, <1>2 DEF Domains
<1>4. \A p \in QuoteThreads : thread'[p].block = thread[p].block
  BY <1>2
<1>5. Owned'
  BY <1>0, <1>1, <1>2, <1>4 DEF Owned, QueuedOnce, HasBlock, IdleHasNone, HeldByOne, InQueue
<1>6. ASSUME ~swept' PROVE InTime'
  <2>0. InTime
    BY <1>6, <1>1 DEF Inv
  <2>1. \A c \in Blocks : Open(c)' <=> Open(c)
    <3> SUFFICES ASSUME NEW c \in Blocks PROVE Open(c)' <=> Open(c)
      OBVIOUS
    <3>1. Freed(c)' <=> Freed(c)
      BY <1>1, <1>4 DEF Freed, InQueue
    <3>2. /\ thread[q] # [step |-> "free", block |-> c]
          /\ thread'[q] # [step |-> "free", block |-> c]
      BY <1>2
    <3> QED BY <3>1, <3>2, <1>2 DEF Open
  <2>2. Blankest' = Blankest
    BY <1>1 DEF Blankest
  <2>3. LastIsBlank' /\ Names' /\ OneElement'
    BY <1>0, <1>1, <2>0, <2>1, <2>2, SameElements
  <2>4. \A s \in Requesters : HasOpen(s)' <=> HasOpen(s)
    BY <1>1, <2>1 DEF HasOpen
  <2>5. OneUnderWay' /\ WaitsForOwn'
    BY <2>0, <2>4, <1>1 DEF InTime, OneUnderWay, Pending, WaitsForOwn
  <2>6. PricedFirst'
    BY <2>0, <1>1, <1>2, <1>6 DEF InTime, PricedFirst
  <2> QED BY <2>3, <2>5, <2>6 DEF InTime
<1> QED BY <1>3, <1>5, <1>6 DEF Inv

LEMMA InvWriteStock ==
    ASSUME Inv, NEW q \in QuoteThreads, thread[q].step \in {"ask", "askNew"},
           NEW t \in {"ask", "post"},
           Goto(q, t), WriteStock(q), Unchanged
    PROVE  Inv'
PROOF
<1>1. Domains /\ Owned
  BY DEF Inv
<1> DEFINE c == thread[q].block
<1>2. priced' = priced \cup {r \in Requesters : stock[r] = memory[c].stock}
  BY DEF WriteStock
<1>3. ~swept => memory[c].returned \in priced'
  <2> SUFFICES ASSUME ~swept PROVE memory[c].returned \in priced'
    OBVIOUS
  <2>1. c \in Blocks /\ Open(c) /\ c # Blankest
    BY <1>1, HeldIsOpen
  <2>2. memory[c].returned \in Requesters /\ memory[c].stock = stock[memory[c].returned]
    BY <2>1 DEF Inv, InTime, Names
  <2> QED BY <1>2, <2>2
<1>4. priced' \in SUBSET Requesters /\ priced \subseteq priced'
  BY <1>1, <1>2 DEF Domains
<1>5. UNCHANGED <<requestVars, swept>>
  BY DEF Unchanged
<1> QED BY <1>3, <1>4, <1>5, InvAsking

LEMMA InvPost ==
    ASSUME Inv, NEW q \in QuoteThreads, Post(q)
    PROVE  Inv'
PROOF
<1>0. Domains /\ Owned
  BY DEF Inv
<1> DEFINE c == thread[q].block
           r == memory[c].returned
<1>1. /\ thread[q].step = "post"
      /\ sem' = [sem EXCEPT ![r] = @ + 1]
      /\ thread' = [thread EXCEPT ![q].step = "free"]
      /\ UNCHANGED <<queue, length, memory, pc, stock, element, waitsFor, priced, swept>>
  BY DEF Post, Goto
<1>2. c \in Blocks /\ Open(c) /\ c # Blankest
  BY <1>0, <1>1, HeldIsOpen
<1>3. /\ thread'[q] = [step |-> "free", block |-> c]
      /\ \A p \in QuoteThreads \ {q} : thread'[p] = thread[p]
      /\ thread' \in [QuoteThreads -> [step : Steps, block : Blocks \cup {None}]]
  BY <1>0, <1>1 DEF Domains, Steps
<1>4. Domains'
  <2>1. sem' \in [Requesters -> Nat]
    <3>1. CASE r \in Requesters
      BY <1>0, <1>1, <3>1 DEF Domains
    <3>2. CASE r \notin Requesters
      BY <1>0, <1>1, <3>2 DEF Domains
    <3> QED BY <3>1, <3>2
  <2> QED BY <1>0, <1>1, <1>3, <2>1 DEF Domains
<1>5. \A p \in QuoteThreads : thread'[p].block = thread[p].block
  BY <1>3
<1>6. Owned'
  BY <1>0, <1>1, <1>2, <1>3, <1>5 DEF Owned, QueuedOnce, HasBlock, IdleHasNone, HeldByOne, InQueue
<1>7. ASSUME ~swept' PROVE InTime'
  <2>0. InTime
    BY <1>7, <1>1 DEF Inv
  <2>1. r \in Requesters /\ HasOpen(r) /\ Pending(r) /\ sem[r] = 0
    BY <1>2, <2>0 DEF InTime, Names, HasOpen, OneUnderWay
  <2>2. sem'[r] = 1 /\ \A s \in Requesters \ {r} : sem'[s] = sem[s]
    BY <1>0, <1>1, <2>1 DEF Domains
  <2>3. \A d \in Blocks : Open(d)' <=> Open(d) /\ d # c
    <3> SUFFICES ASSUME NEW d \in Blocks PROVE Open(d)' <=> Open(d) /\ d # c
      OBVIOUS
    <3>1. Freed(d)' <=> Freed(d)
      BY <1>1, <1>5 DEF Freed, InQueue
    <3>2. thread'[q] = [step |-> "free", block |-> d] <=> d = c
      BY <1>3
    <3>3. thread[q] # [step |-> "free", block |-> d]
      BY <1>1
    <3> QED BY <3>1, <3>2, <3>3, <1>3 DEF Open
  <2>4. LastIsBlank' /\ Names' /\ OneElement'
    <3>1. Blankest' = Blankest
      BY <1>1 DEF Blankest
    <3> QED BY <1>0, <1>1, <2>0, <2>3, <3>1, SameElements
  <2>5. ~HasOpen(r)' /\ \A s \in Requesters \ {r} : HasOpen(s)' <=> HasOpen(s)
    BY <1>1, <1>2, <2>0, <2>3 DEF HasOpen, InTime, OneElement
  <2>6. OneUnderWay'
    BY <1>1, <2>0, <2>1, <2>2, <2>5 DEF InTime, OneUnderWay, Pending
  <2>7. WaitsForOwn'
    BY <1>1, <2>0 DEF InTime, WaitsForOwn
  <2>8. PricedFirst'
    BY <1>1, <1>3, <2>0, <2>2 DEF InTime, PricedFirst
  <2> QED BY <2>4, <2>6, <2>7, <2>8 DEF InTime
<1> QED BY <1>4, <1>6, <1>7 DEF Inv

LEMMA InvFree ==
    ASSUME Inv, NEW q \in QuoteThreads, Free(q)
    PROVE  Inv'
PROOF
<1>0. Domains /\ Owned
  BY DEF Inv
<1>c. PICK c : c = thread[q].block
  OBVIOUS
<1>1. /\ thread[q].step = "free"
      /\ thread' = [thread EXCEPT ![q] = [step |-> "idle", block |-> None]]
      /\ memory' = memory \/ memory' = [memory EXCEPT ![c] = Blank]
      /\ UNCHANGED <<queue, length, sem, pc, stock, element, waitsFor, priced, swept>>
  BY <1>c DEF Free
<1>2. c \in Blocks /\ c # None /\ thread[q] = [step |-> "free", block |-> c]
  BY <1>c, <1>0, <1>1, ConstantsAssumption DEF Domains, Owned, HasBlock
<1>3. /\ thread'[q] = [step |-> "idle", block |-> None]
      /\ \A p \in QuoteThreads \ {q} : thread'[p] = thread[p]
      /\ thread' \in [QuoteThreads -> [step : Steps, block : Blocks \cup {None}]]
  BY <1>0, <1>1 DEF Domains, Steps
<1>4. Domains'
  <2>1. memory' \in [Blocks -> [stock : Stocks \cup {None}, returned : Requesters \cup {None}]]
    <3>1. Blank \in [stock : Stocks \cup {None}, returned : Requesters \cup {None}]
      BY DEF Blank
    <3>2. memory \in [Blocks -> [stock : Stocks \cup {None}, returned : Requesters \cup {None}]]
      BY <1>0 DEF Domains
    <3> QED BY <1>1, <3>1, <3>2
  <2> QED BY <1>0, <1>1, <1>3, <2>1 DEF Domains
<1>5. Owned'
  BY <1>0, <1>1, <1>3 DEF Owned, QueuedOnce, HasBlock, IdleHasNone, HeldByOne, InQueue
<1>6. ASSUME ~swept' PROVE InTime'
  <2>0. InTime
    BY <1>6, <1>1 DEF Inv
  <2>1. ~Open(c) /\ \A d \in Blocks \ {c} : memory'[d] = memory[d]
    BY <1>0, <1>1, <1>2 DEF Open, Domains
  <2>2. \A d \in Blocks : Open(d)' <=> Open(d)
    <3> SUFFICES ASSUME NEW d \in Blocks PROVE Open(d)' <=> Open(d)
      OBVIOUS
    <3>1. CASE d = c
      <4>1. ~InQueue(c) /\ \A p \in QuoteThreads \ {q} : thread[p].block # c
        BY <1>0, <1>2 DEF Owned, HeldByOne
      <4>2. Freed(c)'
        BY <4>1, <1>1, <1>2, <1>3 DEF Freed, InQueue
      <4> QED BY <3>1, <4>2, <2>1 DEF Open
    <3>2. CASE d # c
      <4>1. thread[q].block # d /\ thread'[q].block # d
        BY <3>2, <1>2, <1>3, ConstantsAssumption
      <4>2. InQueue(d)' <=> InQueue(d)
        BY <1>1 DEF InQueue
      <4>3. \A p \in QuoteThreads : thread'[p].block = d <=> thread[p].block = d
        BY <4>1, <1>3
      <4>4. \A p \in QuoteThreads : thread'[p] = [step |-> "free", block |-> d]
                                        <=> thread[p] = [step |-> "free", block |-> d]
        BY <4>1, <1>3
      <4> QED BY <4>2, <4>3, <4>4 DEF Open, Freed
    <3> QED BY <3>1, <3>2
  <2>3. Blankest' = Blankest
    BY <1>1 DEF Blankest
  <2>4. \A d \in Blocks : Open(d) => memory'[d] = memory[d]
    BY <2>1
  <2>5. LastIsBlank' /\ Names' /\ OneElement'
    BY <1>0, <1>1, <2>0, <2>2, <2>3, <2>4, SameElements
  <2>6. \A s \in Requesters : HasOpen(s)' <=> HasOpen(s)
    BY <2>2, <2>4 DEF HasOpen
  <2>7. OneUnderWay' /\ WaitsForOwn'
    BY <1>1, <2>0, <2>6 DEF InTime, OneUnderWay, Pending, WaitsForOwn
  <2>8. PricedFirst'
    <3>1. ASSUME NEW p \in QuoteThreads, thread'[p].step = "post"
          PROVE  memory'[thread'[p].block].returned \in priced'
      <4>1. p # q /\ thread'[p] = thread[p]
        BY <3>1, <1>3
      <4>2. thread[p].block \in Blocks /\ Open(thread[p].block)
        BY <3>1, <4>1, <1>0, HeldIsOpen
      <4> QED BY <3>1, <4>1, <4>2, <2>0, <2>4, <1>1 DEF InTime, PricedFirst
    <3> QED BY <3>1, <1>1, <2>0 DEF InTime, PricedFirst
  <2> QED BY <2>5, <2>7, <2>8 DEF InTime
<1> QED BY <1>4, <1>5, <1>6 DEF Inv
-----------------------------------------------------------------------------
(* All steps.                                                              *)

LEMMA InvUnchanged ==
    ASSUME Inv, UNCHANGED <<requestVars, thread, priced, swept>>
    PROVE  Inv'
PROOF
<1>1. UNCHANGED <<queue, length, memory, sem, pc, stock, element, waitsFor, thread, priced, swept>>
  BY DEF requestVars
<1>2. Domains' /\ Owned'
  BY <1>1 DEF Inv, Domains, Owned, QueuedOnce, HasBlock, IdleHasNone, HeldByOne, InQueue
<1>3. ASSUME ~swept' PROVE InTime'
  <2>1. InTime
    BY <1>1, <1>3 DEF Inv
  <2>2. Blankest' = Blankest /\ \A b \in Blocks : Open(b)' <=> Open(b)
    BY <1>1 DEF Blankest, Open, Freed, InQueue
  <2>3. \A r \in Requesters : HasOpen(r)' <=> HasOpen(r)
    BY <1>1, <2>2 DEF HasOpen
  <2>4. LastIsBlank' /\ Names' /\ OneElement'
    BY <1>1, <2>1, <2>2 DEF InTime, LastIsBlank, Names, OneElement
  <2>5. OneUnderWay' /\ WaitsForOwn' /\ PricedFirst'
    BY <1>1, <2>1, <2>3 DEF InTime, OneUnderWay, Pending, WaitsForOwn, PricedFirst
  <2> QED BY <2>1, <2>4, <2>5 DEF InTime
<1> QED BY <1>2, <1>3 DEF Inv

LEMMA InvNext == ASSUME Inv, [Next]_vars PROVE Inv'
PROOF
<1>1. CASE UNCHANGED vars
  BY <1>1, InvUnchanged DEF vars, threadVars
<1>2. ASSUME NEW r \in Requesters, RequesterStep(r) \/ \E k \in Stocks : Ask(r, k) PROVE Inv'
  BY <1>2, InvAsk, InvReadReturned, InvSemWait, InvUse DEF RequesterStep
<1>3. ASSUME NEW k \in Stocks, Age(k) PROVE Inv'
  BY <1>3, InvUnchanged DEF Age, threadVars
<1>4. ASSUME NEW q \in QuoteThreads, QuoteStep(q) PROVE Inv'
  <2>1. CASE Qdeq(q) \/ Post(q) \/ Free(q)
    BY <2>1, InvQdeq, InvPost, InvFree
  <2>2. CASE Unresolved(q) \/ Connect(q)
    BY <2>2, InvUnchanged DEF Unresolved, Connect, Unchanged
  <2>3. CASE Break(q) \/ NotCached(q)
    <3>1. \E t \in {"ask", "askNew"} : Goto(q, t)
      BY <2>3 DEF Break, NotCached
    <3>2. thread[q].step \in {"ask", "askNew"} /\ UNCHANGED <<requestVars, swept, priced>>
      BY <2>3 DEF Break, NotCached, Unchanged
    <3>3. priced' \in SUBSET Requesters
      BY <3>2 DEF Inv, Domains
    <3> QED BY <3>1, <3>2, <3>3, InvAsking
  <2>4. CASE Cached(q)
    <3>1. \E t \in {"ask", "post"} : Goto(q, t)
      BY <2>4 DEF Cached
    <3> QED BY <2>4, <3>1, InvWriteStock DEF Cached
  <2>5. CASE Fetched(q)
    BY <2>5, InvWriteStock DEF Fetched
  <2> QED BY <1>4, <2>1, <2>2, <2>3, <2>4, <2>5 DEF QuoteStep
<1> QED BY <1>1, <1>2, <1>3, <1>4 DEF Next

LEMMA InvAlways == Spec => []Inv
PROOF
<1>1. Init => Inv
  BY InvInit
<1>2. Inv /\ [Next]_vars => Inv'
  BY InvNext
<1> QED BY <1>1, <1>2, PTL DEF Spec
-----------------------------------------------------------------------------
(* An element is in the queue once or with one quote thread, until that    *)
(* thread frees it: qenq's calloc, qdeq and free never make two owners,    *)
(* whoever reads it too late.                                              *)
THEOREM OneOwnerAlways == Spec => []OneOwner
PROOF
<1>1. Inv => OneOwner
  BY DEF Inv, Owned, QueuedOnce, HeldByOne, OneOwner
<1> QED BY <1>1, InvAlways, PTL

(* Until a requester comes too late to read its element, each who waits    *)
(* has one element or one permit under way, and nobody else has any.       *)
THEOREM OneAnswerAlways == Spec => []OneAnswer
PROOF
<1>1. Inv => OneAnswer
  <2> SUFFICES ASSUME Inv, ~swept, NEW r \in Requesters
               PROVE  LET asked == {b \in Blocks : memory[b].returned = r /\ ~Freed(b)
                                       /\ \A q \in QuoteThreads :
                                             thread[q] # [step |-> "free", block |-> b]}
                      IN  Cardinality(asked) + sem[r] =
                              (IF pc[r] \in {"enqueued", "waiting"} THEN 1 ELSE 0)
    BY DEF OneAnswer
  <2> DEFINE asked == {b \in Blocks : memory[b].returned = r /\ ~Freed(b)
                          /\ \A q \in QuoteThreads :
                                thread[q] # [step |-> "free", block |-> b]}
  <2>1. asked = {b \in Blocks : Open(b) /\ memory[b].returned = r}
    BY DEF Open
  <2>2. CASE HasOpen(r)
    <3>1. PICK b \in Blocks : Open(b) /\ memory[b].returned = r
      BY <2>2 DEF HasOpen
    <3>2. asked = {b}
      BY <2>1, <3>1 DEF Inv, InTime, OneElement
    <3>3. Cardinality(asked) = 1
      BY <3>2, FS_Singleton
    <3>4. sem[r] = 0 /\ Pending(r)
      BY <2>2 DEF Inv, InTime, OneUnderWay
    <3> QED BY <3>3, <3>4 DEF Pending
  <2>3. CASE ~HasOpen(r)
    <3>1. asked = {}
      BY <2>1, <2>3 DEF HasOpen
    <3>2. Cardinality(asked) = 0
      BY <3>1, FS_EmptySet
    <3>3. sem[r] = IF Pending(r) THEN 1 ELSE 0
      BY <2>3 DEF Inv, InTime, OneUnderWay
    <3> QED BY <3>2, <3>3 DEF Pending
  <2> QED BY <2>2, <2>3
<1> QED BY <1>1, InvAlways, PTL

(* Until then an answered requester has a price of its own stock, written  *)
(* after it asked: quote_handler writes the stock before sem_post.         *)
THEOREM AnswersHavePrices == Spec => []AnsweredHasPrice
PROOF
<1>1. Inv => AnsweredHasPrice
  BY DEF Inv, InTime, PricedFirst, AnsweredHasPrice
<1> QED BY <1>1, InvAlways, PTL
=============================================================================
