---------------------------- MODULE DbQueueProofs ----------------------------
(* Proofs about DbQueue: its type invariant, and the handshake between a   *)
(* requester and the writer that executes its statements.                  *)
EXTENDS DbQueue, FiniteSetTheorems, TLAPS

Pending(r) == stage[r] \in {"asked", "told"}
Busy(w) == at[w] \in {"exec", "answer", "wait"}

(* The inductive invariant, part by part.  A pending requester points to   *)
(* its own element.                                                        *)
PendingOwns == \A r \in Requesters : Pending(r) =>
    mine[r] \in 1 .. Len(cells) /\ cells[mine[r]].who = r /\ mine[r] \notin freed

(* A busy writer has an element that no other busy writer has.             *)
BusyHas == \A w \in Writers : Busy(w) => elem[w] \in 1 .. taken /\ elem[w] \notin freed
Distinct == \A w, v \in Writers : Busy(w) /\ Busy(v) /\ elem[w] = elem[v] => w = v

(* Until a writer has posted, the requester waits with its semaphore at 0. *)
Asks(r, i) == stage[r] = "asked" /\ mine[r] = i /\ dest[r] = 0
Untaken == \A i \in taken + 1 .. Len(cells) : Asks(cells[i].who, i)
Served == \A w \in Writers : at[w] \in {"exec", "answer"} => Asks(Owner(w), elem[w])

(* Once it has, the element names the writer, and the writer waits until   *)
(* the requester, told, has posted and gone on.                            *)
Holds(w) == \/ src[w] = 0 /\ Pending(Owner(w)) /\ mine[Owner(w)] = elem[w]
            \/ src[w] = 1 /\ ~(Pending(Owner(w)) /\ mine[Owner(w)] = elem[w])
Answered == \A w \in Writers : at[w] = "wait" => cells[elem[w]].src = w /\ Holds(w)
SrcZero == \A w \in Writers : at[w] # "wait" => src[w] = 0
DestPosted == \A r \in Requesters :
    /\ dest[r] \in {0, 1}
    /\ stage[r] = "told" => dest[r] = 0
    /\ dest[r] = 1 => stage[r] = "asked"
    /\ stage[r] = "told" \/ dest[r] = 1 => \E w \in Writers : at[w] = "wait" /\ elem[w] = mine[r]

(* What has been executed by then.                                         *)
Prepared == \A r \in Requesters : stage[r] # "work" => buf[r] > 0
RanBefore == \A r \in Requesters : \A n \in 1 .. MaxRequests :
    n < buf[r] \/ (n = buf[r] /\ (stage[r] \in {"work", "told"} \/ dest[r] = 1)) => ran[r][n] > 0
RanForAnswer == \A w \in Writers : at[w] = "answer" => ran[Owner(w)][buf[Owner(w)]] > 0

Handshake ==
    /\ PendingOwns
    /\ BusyHas
    /\ Distinct
    /\ Untaken
    /\ Served
    /\ Answered
    /\ SrcZero
    /\ DestPosted

Executions ==
    /\ Prepared
    /\ RanBefore
    /\ RanForAnswer

IndInv == TypeOK /\ Handshake /\ Executions

(* An element that is in the list.                                         *)
LEMMA InList ==
    ASSUME TypeOK, NEW i \in 1 .. Len(cells)
    PROVE  cells[i] \in Element /\ cells[i].who \in Requesters
<1>1. cells[i] \in Element
  BY DEF TypeOK
<1> QED
  BY <1>1 DEF Element

(* What a busy writer has in hand: the element of some requester.          *)
LEMMA InHand ==
    ASSUME TypeOK, BusyHas, NEW w \in Writers, Busy(w)
    PROVE  /\ elem[w] \in 1 .. Len(cells) /\ elem[w] \in Nat /\ Len(cells) \in Nat
           /\ cells[elem[w]] \in Element /\ Owner(w) \in Requesters
<1>1. elem[w] \in 1 .. taken /\ taken \in 0 .. Len(cells) /\ Len(cells) \in Nat
  BY DEF BusyHas, TypeOK
<1>2. elem[w] \in 1 .. Len(cells)
  BY <1>1
<1> QED
  BY <1>1, <1>2, InList DEF Owner

(* A buffer that has been filled holds one of the requests.                *)
LEMMA BufRange ==
    ASSUME TypeOK, Prepared, NEW r \in Requesters, stage[r] # "work"
    PROVE  buf[r] \in 1 .. MaxRequests
<1>1. buf[r] \in 0 .. MaxRequests
  BY DEF TypeOK
<1>2. buf[r] > 0
  BY DEF Prepared
<1> QED
  BY <1>1, <1>2, ConstantsAssumption

(* PQexec adds one execution of what the owner's buffer holds.             *)
LEMMA ExecutesEffect ==
    ASSUME IndInv, NEW w \in Writers, at[w] = "exec", Executes(w)
    PROVE  /\ ran' \in [Requesters -> [1 .. MaxRequests -> Nat]]
           /\ \A r \in Requesters : \A n \in 1 .. MaxRequests : ran'[r][n] \in Nat /\ ran'[r][n] >= ran[r][n]
           /\ ran'[Owner(w)][buf[Owner(w)]] > 0
           /\ Owner(w) \in Requesters /\ buf[Owner(w)] \in 1 .. MaxRequests
           /\ ran'[Owner(w)][buf[Owner(w)]] = ran[Owner(w)][buf[Owner(w)]] + 1
           /\ \A r \in Requesters : \A n \in 1 .. MaxRequests :
                 r # Owner(w) \/ n # buf[r] => ran'[r][n] = ran[r][n]
<1>0. TypeOK /\ Handshake /\ Executions
  BY DEF IndInv
<1>1. Owner(w) \in Requesters
  BY <1>0, InHand DEF Handshake, Busy
<1>2. stage[Owner(w)] = "asked"
  BY <1>0 DEF Handshake, Served, Asks
<1>3. buf[Owner(w)] \in 1 .. MaxRequests
  BY <1>0, <1>1, <1>2, BufRange DEF Executions
<1>4. ran \in [Requesters -> [1 .. MaxRequests -> Nat]]
  BY <1>0 DEF TypeOK
<1>5. ran' = [ran EXCEPT ![Owner(w)][buf[Owner(w)]] = @ + 1]
  BY DEF Executes
<1>6. \A r \in Requesters : r # Owner(w) => ran'[r] = ran[r]
  BY <1>4, <1>5
<1>7. ran'[Owner(w)] = [ran[Owner(w)] EXCEPT ![buf[Owner(w)]] = @ + 1]
  BY <1>1, <1>4, <1>5
<1>8. ran[Owner(w)] \in [1 .. MaxRequests -> Nat]
  BY <1>1, <1>4
<1>9. /\ ran'[Owner(w)] \in [1 .. MaxRequests -> Nat]
      /\ ran'[Owner(w)][buf[Owner(w)]] = ran[Owner(w)][buf[Owner(w)]] + 1
      /\ \A n \in 1 .. MaxRequests : n # buf[Owner(w)] => ran'[Owner(w)][n] = ran[Owner(w)][n]
  <2>1. ran[Owner(w)][buf[Owner(w)]] + 1 \in Nat
    <3>1. \A n \in 1 .. MaxRequests : ran[Owner(w)][n] \in Nat
      BY <1>8
    <3> QED
      BY <1>3, <3>1
  <2> DEFINE f == ran[Owner(w)]  g == ran'[Owner(w)]  b == buf[Owner(w)]  M == 1 .. MaxRequests
  <2>2. f \in [M -> Nat] /\ g = [f EXCEPT ![b] = @ + 1] /\ b \in M /\ f[b] + 1 \in Nat
    BY <1>3, <1>7, <1>8, <2>1
  <2> HIDE DEF f, g, b, M
  <2>3. g \in [M -> Nat] /\ g[b] = f[b] + 1 /\ \A n \in M : n # b => g[n] = f[n]
    BY <2>2
  <2> QED
    BY <2>3 DEF f, g, b, M
<1>10. ran' \in [Requesters -> [1 .. MaxRequests -> Nat]]
  BY <1>1, <1>4, <1>5, <1>7, <1>9
<1>11. \A n \in 1 .. MaxRequests : ran[Owner(w)][n] \in Nat
  BY <1>8
<1>12. \A n \in 1 .. MaxRequests : ran'[Owner(w)][n] \in Nat /\ ran'[Owner(w)][n] >= ran[Owner(w)][n]
  BY <1>9, <1>11
<1>13. \A r \in Requesters : r # Owner(w) =>
          \A n \in 1 .. MaxRequests : ran'[r][n] \in Nat /\ ran'[r][n] >= ran[r][n]
  <2>1. ASSUME NEW r \in Requesters, NEW n \in 1 .. MaxRequests PROVE ran[r][n] \in Nat
    <3>1. ran[r] \in [1 .. MaxRequests -> Nat]
      BY <1>4
    <3> QED
      BY <3>1
  <2> QED
    BY <1>6, <2>1
<1>14. ran'[Owner(w)][buf[Owner(w)]] > 0
  BY <1>3, <1>9, <1>11
<1> QED
  BY <1>1, <1>3, <1>6, <1>9, <1>10, <1>12, <1>13, <1>14

(* A requester fills its buffer only when it has no request under way.       *)
LEMMA PrepareStep ==
    ASSUME IndInv, NEW r \in Requesters, Prepare(r)
    PROVE  IndInv'
<1>0. TypeOK /\ Handshake /\ Executions
  BY DEF IndInv
<1>1. TypeOK'
  <2>1. buf' \in [Requesters -> 0 .. MaxRequests] /\ stage' \in [Requesters -> Stages]
    BY <1>0, ConstantsAssumption DEF TypeOK, Prepare, Moves, Stages
  <2> QED
    BY <1>0, <2>1 DEF TypeOK, Prepare
<1>2. PendingOwns'
  BY <1>0, <1>1 DEF TypeOK, Handshake, Prepare, Moves, PendingOwns, Pending
<1>3. BusyHas'
  BY <1>0, <1>1 DEF TypeOK, Handshake, Prepare, Moves, BusyHas, Busy
<1>4. Distinct'
  BY <1>0, <1>1 DEF TypeOK, Handshake, Prepare, Moves, Distinct, Busy
<1>5. Untaken'
  BY <1>0, <1>1 DEF TypeOK, Handshake, Prepare, Moves, Untaken, Asks
<1>6. Served'
  BY <1>0, <1>1 DEF TypeOK, Handshake, Prepare, Moves, Served, Asks, Owner
<1>7. Answered'
  BY <1>0, <1>1 DEF TypeOK, Handshake, Prepare, Moves, Answered, Holds, Pending, Owner
<1>8. SrcZero'
  BY <1>0, <1>1 DEF TypeOK, Handshake, Prepare, Moves, SrcZero
<1>9. DestPosted'
  BY <1>0, <1>1 DEF TypeOK, Handshake, Prepare, Moves, DestPosted
<1>10. Prepared'
  BY <1>0, <1>1 DEF TypeOK, Executions, Prepare, Moves, Prepared
<1>11. RanBefore'
  <2>1. \A s \in Requesters : s # r => buf'[s] = buf[s] /\ stage'[s] = stage[s]
    BY <1>0 DEF TypeOK, Prepare, Moves
  <2>2. buf[r] \in Nat /\ buf'[r] = buf[r] + 1 /\ stage[r] = "work" /\ stage'[r] = "ready" /\ dest[r] = 0
    BY <1>0, ConstantsAssumption DEF TypeOK, Prepare, Moves, Handshake, DestPosted
  <2>3. ran' = ran /\ dest' = dest
    BY DEF Prepare
  <2> QED
    BY <1>0, <2>1, <2>2, <2>3 DEF Executions, RanBefore
<1>12. RanForAnswer'
  <2>1. \A s \in Requesters : s # r => buf'[s] = buf[s]
    BY <1>0 DEF TypeOK, Prepare
  <2>2. \A v \in Writers : at[v] = "answer" => Owner(v) \in Requesters /\ Owner(v) # r
    BY <1>0, InHand DEF Handshake, Served, Asks, Busy, Prepare, Moves
  <2>3. UNCHANGED <<ran, at, cells, elem>>
    BY DEF Prepare
  <2> QED
    BY <1>0, <2>1, <2>2, <2>3 DEF Executions, RanForAnswer, Owner
<1> QED
  BY <1>1, <1>2, <1>3, <1>4, <1>5, <1>6, <1>7, <1>8, <1>9, <1>10, <1>11, <1>12 DEF IndInv,
     Handshake, Executions

(* A new element is at the end, untaken, and its owner waits.                *)
LEMMA DbenqStep ==
    ASSUME IndInv, NEW r \in Requesters, Dbenq(r)
    PROVE  IndInv'
<1>0. TypeOK /\ Handshake /\ Executions
  BY DEF IndInv
<1>f. /\ cells' = Append(cells, [who |-> r, src |-> NoWriter]) /\ Len(cells) \in Nat
      /\ [who |-> r, src |-> NoWriter] \in Element
      /\ Len(cells') = Len(cells) + 1 /\ cells' \in Seq(Element)
      /\ cells'[Len(cells) + 1].who = r
      /\ \A i \in 1 .. Len(cells) : cells'[i] = cells[i]
      /\ UNCHANGED <<taken, elem, at, src, buf, ran, dest>> /\ dest[r] = 0
      /\ \A s \in Requesters : s # r => stage'[s] = stage[s] /\ mine'[s] = mine[s]
      /\ stage[r] = "ready" /\ stage'[r] = "asked" /\ mine'[r] = Len(cells) + 1
  <2>1. cells \in Seq(Element) /\ [who |-> r, src |-> NoWriter] \in Element
    BY <1>0 DEF TypeOK, Element
  <2>2. cells' = Append(cells, [who |-> r, src |-> NoWriter])
    BY DEF Dbenq
  <2> QED
    BY <1>0, <2>1, <2>2 DEF Dbenq, Moves, TypeOK, Handshake, DestPosted
<1>o. \A v \in Writers : Busy(v) => Owner(v)' = Owner(v) /\ Owner(v) \in Requesters /\ cells'[elem[v]] = cells[elem[v]]
  BY <1>0, <1>f, InHand DEF Handshake, Owner
<1>1. TypeOK'
  <2>1. stage' \in [Requesters -> Stages] /\ mine' \in [Requesters -> Nat] /\ length' \in Nat
    BY <1>0, <1>f DEF TypeOK, Dbenq, Moves, Stages
  <2>2. taken' \in 0 .. Len(cells')
    BY <1>0, <1>f DEF TypeOK
  <2> QED
    BY <1>0, <1>f, <2>1, <2>2 DEF TypeOK, Dbenq
<1>2. PendingOwns'
  BY <1>0, <1>1 DEF TypeOK, Handshake, Dbenq, Moves, PendingOwns, Pending
<1>3. BusyHas'
  BY <1>0, <1>1 DEF TypeOK, Handshake, Dbenq, Moves, BusyHas, Busy
<1>4. Distinct'
  BY <1>0, <1>1 DEF TypeOK, Handshake, Dbenq, Moves, Distinct, Busy
<1>5. Untaken'
  <2>1. \A i \in taken + 1 .. Len(cells) : cells[i].who \in Requesters /\ cells[i].who # r /\ i \in 1 .. Len(cells)
    <3>1. \A i \in taken + 1 .. Len(cells) : i \in 1 .. Len(cells)
      BY <1>0, <1>f DEF TypeOK
    <3> QED
      BY <1>0, <1>f, <3>1, InList DEF Handshake, Untaken, Asks
  <2>2. ASSUME NEW i \in taken + 1 .. Len(cells)
        PROVE  stage'[cells'[i].who] = "asked" /\ mine'[cells'[i].who] = i /\ dest'[cells'[i].who] = 0
    BY <1>0, <1>f, <2>1, <2>2 DEF Handshake, Untaken, Asks
  <2>3. \A i \in taken' + 1 .. Len(cells') : i \in taken + 1 .. Len(cells) \/ i = Len(cells) + 1
    BY <1>0, <1>f DEF TypeOK
  <2>4. ASSUME NEW i \in taken' + 1 .. Len(cells')
        PROVE  stage'[cells'[i].who] = "asked" /\ mine'[cells'[i].who] = i /\ dest'[cells'[i].who] = 0
    <3>1. CASE i \in taken + 1 .. Len(cells)
      BY <2>2, <3>1
    <3>2. CASE i = Len(cells) + 1
      <4>1. cells'[i].who = r
        BY <1>f, <3>2
      <4> QED
        BY <1>f, <3>2, <4>1
    <3> QED
      BY <2>3, <3>1, <3>2
  <2> QED
    BY <2>4 DEF Untaken, Asks
<1>6. Served'
  BY <1>0, <1>f, <1>o DEF Handshake, Served, Asks, Busy
<1>7. Answered'
  <2>1. \A v \in Writers : Busy(v) => elem[v] # Len(cells) + 1
    BY <1>0, <1>f, InHand DEF Handshake
  <2> QED
    <3>1. ASSUME NEW v \in Writers, at[v] = "wait"
          PROVE  cells'[elem'[v]].src = v /\ Holds(v)'
      <4>1. Busy(v) /\ cells[elem[v]].src = v /\ Holds(v) /\ elem'[v] = elem[v] /\ src'[v] = src[v]
        BY <1>0, <1>f, <3>1 DEF Handshake, Answered, Busy
      <4>2. /\ Owner(v)' = Owner(v) /\ Owner(v) \in Requesters
            /\ cells'[elem[v]] = cells[elem[v]] /\ elem[v] # Len(cells) + 1
        BY <1>o, <2>1, <4>1
      <4>3. CASE Owner(v) = r
        BY <1>f, <4>1, <4>2, <4>3 DEF Holds, Pending
      <4>4. CASE Owner(v) # r
        BY <1>f, <4>1, <4>2, <4>4 DEF Holds, Pending
      <4> QED
        BY <4>1, <4>2, <4>3, <4>4
    <3> QED
      BY <1>f, <3>1 DEF Answered
<1>8. SrcZero'
  BY <1>0, <1>1 DEF TypeOK, Handshake, Dbenq, Moves, SrcZero
<1>9. DestPosted'
  BY <1>0, <1>1 DEF TypeOK, Handshake, Dbenq, Moves, DestPosted
<1>10. Prepared'
  BY <1>0, <1>1 DEF TypeOK, Executions, Dbenq, Moves, Prepared
<1>11. RanBefore'
  BY <1>0, <1>1 DEF TypeOK, Executions, Dbenq, Moves, RanBefore
<1>12. RanForAnswer'
  BY <1>0, <1>f, <1>o DEF Executions, RanForAnswer, Busy
<1> QED
  BY <1>1, <1>2, <1>3, <1>4, <1>5, <1>6, <1>7, <1>8, <1>9, <1>10, <1>11, <1>12 DEF IndInv,
     Handshake, Executions

(* The post that a requester consumes came from the writer with its element. *)
LEMMA ToldStep ==
    ASSUME IndInv, NEW r \in Requesters, Told(r)
    PROVE  IndInv'
<1>0. TypeOK /\ Handshake /\ Executions
  BY DEF IndInv
<1>1. TypeOK'
  <2>1. dest' \in [Requesters -> Nat] /\ stage' \in [Requesters -> Stages]
    BY <1>0 DEF TypeOK, Told, Moves, Stages
  <2> QED
    BY <1>0, <2>1 DEF TypeOK, Told
<1>2. PendingOwns'
  BY <1>0, <1>1 DEF TypeOK, Handshake, Told, Moves, PendingOwns, Pending
<1>3. BusyHas'
  BY <1>0, <1>1 DEF TypeOK, Handshake, Told, Moves, BusyHas, Busy
<1>4. Distinct'
  BY <1>0, <1>1 DEF TypeOK, Handshake, Told, Moves, Distinct, Busy
<1>5. Untaken'
  BY <1>0, <1>1 DEF TypeOK, Handshake, Told, Moves, Untaken, Asks
<1>6. Served'
  BY <1>0, <1>1 DEF TypeOK, Handshake, Told, Moves, Served, Asks, Owner
<1>7. Answered'
  BY <1>0, <1>1 DEF TypeOK, Handshake, Told, Moves, Answered, Holds, Pending, Owner
<1>8. SrcZero'
  BY <1>0, <1>1 DEF TypeOK, Handshake, Told, Moves, SrcZero
<1>9. DestPosted'
  BY <1>0, <1>1 DEF TypeOK, Handshake, Told, Moves, DestPosted
<1>10. Prepared'
  BY <1>0, <1>1 DEF TypeOK, Executions, Told, Moves, Prepared
<1>11. RanBefore'
  <2>1. \A s \in Requesters : s # r => dest'[s] = dest[s] /\ stage'[s] = stage[s]
    BY <1>0 DEF TypeOK, Told, Moves
  <2>2. dest[r] = 1 /\ ran' = ran /\ buf' = buf
    BY <1>0 DEF Told, Handshake, DestPosted
  <2> QED
    BY <1>0, <2>1, <2>2 DEF Executions, RanBefore
<1>12. RanForAnswer'
  BY <1>0, <1>1 DEF TypeOK, Executions, Told, Moves, RanForAnswer, Owner
<1> QED
  BY <1>1, <1>2, <1>3, <1>4, <1>5, <1>6, <1>7, <1>8, <1>9, <1>10, <1>11, <1>12 DEF IndInv,
     Handshake, Executions

(* The requester posts to the writer that its element names, which waits.    *)
LEMMA ReleaseStep ==
    ASSUME IndInv, NEW r \in Requesters, Release(r)
    PROVE  IndInv'
<1>0. TypeOK /\ Handshake /\ Executions
  BY DEF IndInv
<1>f. PICK w \in Writers : at[w] = "wait" /\ elem[w] = mine[r]
  BY <1>0 DEF Release, Moves, Handshake, DestPosted
<1>g. cells[mine[r]].src = w /\ src[w] = 0 /\ Owner(w) = r
  BY <1>0, <1>f DEF Release, Moves, Handshake, Answered, Holds, Owner, Pending, PendingOwns
<1>h. /\ src' = [src EXCEPT ![w] = 1]
      /\ UNCHANGED <<cells, taken, freed, length, mine, buf, dest, at, elem, up, ran, drops>>
      /\ stage[r] = "told" /\ stage' = [stage EXCEPT ![r] = "work"]
  BY <1>0, <1>g DEF Release, Moves, TypeOK
<1>s. /\ src'[w] = 1 /\ \A v \in Writers : v # w => src'[v] = src[v]
      /\ stage'[r] = "work" /\ \A s \in Requesters : s # r => stage'[s] = stage[s]
  BY <1>0, <1>h DEF TypeOK
<1>1. TypeOK'
  BY <1>0, <1>h DEF TypeOK, Stages
<1>2. PendingOwns'
  BY <1>0, <1>1 DEF TypeOK, Handshake, Release, Moves, PendingOwns, Pending
<1>3. BusyHas'
  BY <1>0, <1>1 DEF TypeOK, Handshake, Release, Moves, BusyHas, Busy
<1>4. Distinct'
  BY <1>0, <1>1 DEF TypeOK, Handshake, Release, Moves, Distinct, Busy
<1>5. Untaken'
  BY <1>0, <1>1 DEF TypeOK, Handshake, Release, Moves, Untaken, Asks
<1>6. Served'
  BY <1>0, <1>1 DEF TypeOK, Handshake, Release, Moves, Served, Asks, Owner
<1>7. Answered'
  <2>1. ASSUME NEW v \in Writers, at[v] = "wait" PROVE cells'[elem'[v]].src = v /\ Holds(v)'
    <3>1. Owner(v)' = Owner(v) /\ Owner(v) \in Requesters
      BY <1>0, <1>h, <2>1, InHand DEF Owner, Handshake, Busy
    <3>2. CASE v = w
      BY <1>g, <1>h, <1>s, <2>1, <3>1, <3>2, <1>0 DEF Holds, Pending, Handshake, Answered
    <3>3. CASE v # w
      <4>1. elem[v] # mine[r]
        BY <1>0, <1>f, <2>1, <3>3 DEF Handshake, Distinct, Busy
      <4>2. CASE Owner(v) = r
        BY <1>0, <1>h, <1>s, <2>1, <3>1, <3>3, <4>1, <4>2 DEF Holds, Pending, Handshake, Answered
      <4>3. CASE Owner(v) # r
        BY <1>0, <1>h, <1>s, <2>1, <3>1, <3>3, <4>3 DEF Holds, Pending, Handshake, Answered
      <4> QED
        BY <4>2, <4>3
    <3> QED
      BY <3>2, <3>3
  <2> QED
    BY <1>h, <2>1 DEF Answered
<1>8. SrcZero'
  BY <1>0, <1>f, <1>h, <1>s DEF Handshake, SrcZero
<1>9. DestPosted'
  BY <1>0, <1>1 DEF TypeOK, Handshake, Release, Moves, DestPosted
<1>10. Prepared'
  BY <1>0, <1>1 DEF TypeOK, Executions, Release, Moves, Prepared
<1>11. RanBefore'
  BY <1>0, <1>1 DEF TypeOK, Executions, Release, Moves, RanBefore
<1>12. RanForAnswer'
  BY <1>0, <1>1 DEF TypeOK, Executions, Release, Moves, RanForAnswer, Owner
<1> QED
  BY <1>1, <1>2, <1>3, <1>4, <1>5, <1>6, <1>7, <1>8, <1>9, <1>10, <1>11, <1>12 DEF IndInv,
     Handshake, Executions

(* A writer that is let in has nothing yet.                                  *)
LEMMA WaitLengthStep ==
    ASSUME IndInv, NEW w \in Writers, WaitLength(w)
    PROVE  IndInv'
<1>0. TypeOK /\ Handshake /\ Executions
  BY DEF IndInv
<1>1. TypeOK'
  <2>1. length' \in Nat /\ at' \in [Writers -> Places]
    BY <1>0 DEF TypeOK, WaitLength, Jump, Places
  <2> QED
    BY <1>0, <2>1 DEF TypeOK, WaitLength
<1>2. PendingOwns'
  BY <1>0, <1>1 DEF TypeOK, Handshake, WaitLength, Jump, PendingOwns, Pending
<1>3. BusyHas'
  BY <1>0, <1>1 DEF TypeOK, Handshake, WaitLength, Jump, BusyHas, Busy
<1>4. Distinct'
  BY <1>0, <1>1 DEF TypeOK, Handshake, WaitLength, Jump, Distinct, Busy
<1>5. Untaken'
  BY <1>0, <1>1 DEF TypeOK, Handshake, WaitLength, Jump, Untaken, Asks
<1>6. Served'
  BY <1>0, <1>1 DEF TypeOK, Handshake, WaitLength, Jump, Served, Asks, Owner
<1>7. Answered'
  BY <1>0, <1>1 DEF TypeOK, Handshake, WaitLength, Jump, Answered, Holds, Pending, Owner
<1>8. SrcZero'
  BY <1>0, <1>1 DEF TypeOK, Handshake, WaitLength, Jump, SrcZero
<1>9. DestPosted'
  BY <1>0, <1>1 DEF TypeOK, Handshake, WaitLength, Jump, DestPosted
<1>10. Prepared'
  BY <1>0, <1>1 DEF TypeOK, Executions, WaitLength, Jump, Prepared
<1>11. RanBefore'
  BY <1>0, <1>1 DEF TypeOK, Executions, WaitLength, Jump, RanBefore
<1>12. RanForAnswer'
  BY <1>0, <1>1 DEF TypeOK, Executions, WaitLength, Jump, RanForAnswer, Owner
<1> QED
  BY <1>1, <1>2, <1>3, <1>4, <1>5, <1>6, <1>7, <1>8, <1>9, <1>10, <1>11, <1>12 DEF IndInv,
     Handshake, Executions

(* The element taken was nobody else's, and its owner waits for it.          *)
LEMMA DbdeqStep ==
    ASSUME IndInv, NEW w \in Writers, Dbdeq(w)
    PROVE  IndInv'
<1>0. TypeOK /\ Handshake /\ Executions
  BY DEF IndInv
<1>f. /\ Len(cells) \in Nat /\ taken \in Nat /\ taken < Len(cells) /\ taken' = taken + 1
      /\ elem'[w] = taken + 1 /\ at[w] = "taking" /\ at'[w] = "exec"
      /\ \A v \in Writers : v # w => elem'[v] = elem[v] /\ at'[v] = at[v]
      /\ UNCHANGED <<cells, stage, mine, dest, freed>>
  BY <1>0 DEF Dbdeq, Jump, TypeOK
<1>1. TypeOK'
  <2>1. elem' \in [Writers -> Nat] /\ at' \in [Writers -> Places] /\ taken' \in 0 .. Len(cells)
    BY <1>0, <1>f DEF TypeOK, Dbdeq, Jump, Places
  <2>2. freed \subseteq 1 .. taken'
    BY <1>0, <1>f DEF TypeOK
  <2> QED
    BY <1>0, <2>1, <2>2 DEF TypeOK, Dbdeq
<1>2. PendingOwns'
  BY <1>0, <1>1 DEF TypeOK, Handshake, Dbdeq, Jump, PendingOwns, Pending
<1>3. BusyHas'
  BY <1>0, <1>1 DEF TypeOK, Handshake, Dbdeq, Jump, BusyHas, Busy
<1>4. Distinct'
  <2>1. \A v \in Writers : Busy(v) => elem[v] \in 1 .. taken
    BY <1>0 DEF Handshake, BusyHas
  <2> QED
    BY <1>0, <1>f, <2>1 DEF Handshake, Distinct, Busy
<1>5. Untaken'
  BY <1>0, <1>1 DEF TypeOK, Handshake, Dbdeq, Jump, Untaken, Asks
<1>6. Served'
  <2>1. Asks(cells[taken + 1].who, taken + 1)
    BY <1>0, <1>f DEF Handshake, Untaken
  <2>2. ASSUME NEW v \in Writers, at'[v] \in {"exec", "answer"}
        PROVE  stage'[Owner(v)'] = "asked" /\ mine'[Owner(v)'] = elem'[v] /\ dest'[Owner(v)'] = 0
    <3>1. CASE v = w
      BY <1>f, <2>1, <3>1 DEF Asks, Owner
    <3>2. CASE v # w
      BY <1>0, <1>f, <2>2, <3>2 DEF Handshake, Served, Asks, Owner
    <3> QED
      BY <3>1, <3>2
  <2> QED
    BY <2>2 DEF Served, Asks
<1>7. Answered'
  BY <1>0, <1>1 DEF TypeOK, Handshake, Dbdeq, Jump, Answered, Holds, Pending, Owner
<1>8. SrcZero'
  BY <1>0, <1>1 DEF TypeOK, Handshake, Dbdeq, Jump, SrcZero
<1>9. DestPosted'
  BY <1>0, <1>1 DEF TypeOK, Handshake, Dbdeq, Jump, DestPosted
<1>10. Prepared'
  BY <1>0, <1>1 DEF TypeOK, Executions, Dbdeq, Jump, Prepared
<1>11. RanBefore'
  BY <1>0, <1>1 DEF TypeOK, Executions, Dbdeq, Jump, RanBefore
<1>12. RanForAnswer'
  BY <1>0, <1>1 DEF TypeOK, Executions, Dbdeq, Jump, RanForAnswer, Owner
<1> QED
  BY <1>1, <1>2, <1>3, <1>4, <1>5, <1>6, <1>7, <1>8, <1>9, <1>10, <1>11, <1>12 DEF IndInv,
     Handshake, Executions

(* A connection that comes back changes nothing else.                        *)
LEMMA ReconnectStep ==
    ASSUME IndInv, NEW w \in Writers, Reconnect(w)
    PROVE  IndInv'
<1>0. TypeOK /\ Handshake /\ Executions
  BY DEF IndInv
<1>1. TypeOK'
  BY <1>0 DEF TypeOK, Reconnect
<1>2. PendingOwns'
  BY <1>0, <1>1 DEF TypeOK, Handshake, Reconnect, PendingOwns, Pending
<1>3. BusyHas'
  BY <1>0, <1>1 DEF TypeOK, Handshake, Reconnect, BusyHas, Busy
<1>4. Distinct'
  BY <1>0, <1>1 DEF TypeOK, Handshake, Reconnect, Distinct, Busy
<1>5. Untaken'
  BY <1>0, <1>1 DEF TypeOK, Handshake, Reconnect, Untaken, Asks
<1>6. Served'
  BY <1>0, <1>1 DEF TypeOK, Handshake, Reconnect, Served, Asks, Owner
<1>7. Answered'
  BY <1>0, <1>1 DEF TypeOK, Handshake, Reconnect, Answered, Holds, Pending, Owner
<1>8. SrcZero'
  BY <1>0, <1>1 DEF TypeOK, Handshake, Reconnect, SrcZero
<1>9. DestPosted'
  BY <1>0, <1>1 DEF TypeOK, Handshake, Reconnect, DestPosted
<1>10. Prepared'
  BY <1>0, <1>1 DEF TypeOK, Executions, Reconnect, Prepared
<1>11. RanBefore'
  BY <1>0, <1>1 DEF TypeOK, Executions, Reconnect, RanBefore
<1>12. RanForAnswer'
  BY <1>0, <1>1 DEF TypeOK, Executions, Reconnect, RanForAnswer, Owner
<1> QED
  BY <1>1, <1>2, <1>3, <1>4, <1>5, <1>6, <1>7, <1>8, <1>9, <1>10, <1>11, <1>12 DEF IndInv,
     Handshake, Executions

(* The statements executed are those of the owner's pending request.         *)
LEMMA ExecStep ==
    ASSUME IndInv, NEW w \in Writers, Exec(w)
    PROVE  IndInv'
<1>0. TypeOK /\ Handshake /\ Executions
  BY DEF IndInv
<1>f. /\ ran' \in [Requesters -> [1 .. MaxRequests -> Nat]]
      /\ \A r \in Requesters : \A n \in 1 .. MaxRequests : ran'[r][n] \in Nat /\ ran'[r][n] >= ran[r][n]
      /\ ran'[Owner(w)][buf[Owner(w)]] > 0
      /\ Owner(w) \in Requesters /\ buf[Owner(w)] \in 1 .. MaxRequests
  BY ExecutesEffect DEF Exec, Jump
<1>g. /\ \A r \in Requesters : \A n \in 1 .. MaxRequests : ran[r][n] \in Nat
      /\ \A r \in Requesters : buf[r] \in Int
  BY <1>0, ConstantsAssumption DEF TypeOK
<1>h. /\ UNCHANGED <<cells, stage, dest, buf, elem>>
      /\ \A v \in Writers : v # w => at'[v] = at[v]
  BY <1>0 DEF Exec, Jump, TypeOK
<1>1. TypeOK'
  <2>1. at' \in [Writers -> Places]
    BY <1>0 DEF TypeOK, Exec, Jump, Places
  <2> QED
    BY <1>0, <1>f, <2>1 DEF TypeOK, Exec
<1>2. PendingOwns'
  BY <1>0, <1>1 DEF TypeOK, Handshake, Exec, Jump, PendingOwns, Pending
<1>3. BusyHas'
  BY <1>0, <1>1 DEF TypeOK, Handshake, Exec, Jump, BusyHas, Busy
<1>4. Distinct'
  BY <1>0, <1>1 DEF TypeOK, Handshake, Exec, Jump, Distinct, Busy
<1>5. Untaken'
  BY <1>0, <1>1 DEF TypeOK, Handshake, Exec, Jump, Untaken, Asks
<1>6. Served'
  BY <1>0, <1>1 DEF TypeOK, Handshake, Exec, Jump, Served, Asks, Owner
<1>7. Answered'
  BY <1>0, <1>1 DEF TypeOK, Handshake, Exec, Jump, Answered, Holds, Pending, Owner
<1>8. SrcZero'
  BY <1>0, <1>1 DEF TypeOK, Handshake, Exec, Jump, SrcZero
<1>9. DestPosted'
  BY <1>0, <1>1 DEF TypeOK, Handshake, Exec, Jump, DestPosted
<1>10. Prepared'
  BY <1>0, <1>1 DEF TypeOK, Executions, Exec, Jump, Prepared
<1>11. RanBefore'
  <2> SUFFICES ASSUME NEW r \in Requesters, NEW n \in 1 .. MaxRequests,
                      n < buf[r] \/ (n = buf[r] /\ (stage[r] \in {"work", "told"} \/ dest[r] = 1))
               PROVE  ran'[r][n] > 0
    BY <1>h DEF RanBefore
  <2>1. ran[r][n] > 0
    BY <1>0 DEF Executions, RanBefore
  <2> QED
    BY <1>f, <1>g, <2>1
<1>12. RanForAnswer'
  <2>1. ASSUME NEW v \in Writers, v # w, at[v] = "answer" PROVE ran'[Owner(v)][buf[Owner(v)]] > 0
    <3>1. Owner(v) \in Requesters /\ stage[Owner(v)] = "asked" /\ ran[Owner(v)][buf[Owner(v)]] > 0
      BY <1>0, <2>1, InHand DEF Handshake, Busy, Served, Asks, Executions, RanForAnswer
    <3>2. buf[Owner(v)] \in 1 .. MaxRequests
      BY <1>0, <3>1, BufRange DEF Executions
    <3> QED
      BY <1>f, <1>g, <3>1, <3>2
  <2> QED
    BY <1>f, <1>h, <2>1 DEF RanForAnswer, Owner
<1> QED
  BY <1>1, <1>2, <1>3, <1>4, <1>5, <1>6, <1>7, <1>8, <1>9, <1>10, <1>11, <1>12 DEF IndInv,
     Handshake, Executions

(* A broken connection leaves the writer where it is.                        *)
LEMMA ExecBreaksStep ==
    ASSUME IndInv, NEW w \in Writers, ExecBreaks(w)
    PROVE  IndInv'
<1>0. TypeOK /\ Handshake /\ Executions
  BY DEF IndInv
<1>f. /\ ran' \in [Requesters -> [1 .. MaxRequests -> Nat]]
      /\ \A r \in Requesters : \A n \in 1 .. MaxRequests : ran'[r][n] \in Nat /\ ran'[r][n] >= ran[r][n]
  <2>1. CASE Executes(w)
    BY <2>1, ExecutesEffect DEF ExecBreaks
  <2>2. CASE ran' = ran
    <3>1. ASSUME NEW r \in Requesters, NEW n \in 1 .. MaxRequests PROVE ran[r][n] \in Nat
      <4>1. ran[r] \in [1 .. MaxRequests -> Nat]
        BY <1>0 DEF TypeOK
      <4> QED
        BY <4>1
    <3>2. \A r \in Requesters : \A n \in 1 .. MaxRequests : ran[r][n] \in Nat /\ ran[r][n] >= ran[r][n]
      BY <3>1
    <3> QED
      BY <1>0, <2>2, <3>2 DEF TypeOK
  <2> QED
    BY <2>1, <2>2 DEF ExecBreaks
<1>g. /\ \A r \in Requesters : \A n \in 1 .. MaxRequests : ran[r][n] \in Nat
      /\ \A r \in Requesters : buf[r] \in Int
  BY <1>0, ConstantsAssumption DEF TypeOK
<1>h. UNCHANGED <<cells, stage, dest, buf, elem, at>> /\ at[w] = "exec"
  BY <1>0 DEF ExecBreaks
<1>1. TypeOK'
  <2>1. drops' \in 0 .. MaxDrops /\ up' \in [Writers -> BOOLEAN]
    BY <1>0, ConstantsAssumption DEF TypeOK, ExecBreaks
  <2> QED
    BY <1>0, <1>f, <2>1 DEF TypeOK, ExecBreaks
<1>2. PendingOwns'
  BY <1>0, <1>1 DEF TypeOK, Handshake, ExecBreaks, PendingOwns, Pending
<1>3. BusyHas'
  BY <1>0, <1>1 DEF TypeOK, Handshake, ExecBreaks, BusyHas, Busy
<1>4. Distinct'
  BY <1>0, <1>1 DEF TypeOK, Handshake, ExecBreaks, Distinct, Busy
<1>5. Untaken'
  BY <1>0, <1>1 DEF TypeOK, Handshake, ExecBreaks, Untaken, Asks
<1>6. Served'
  BY <1>0, <1>1 DEF TypeOK, Handshake, ExecBreaks, Served, Asks, Owner
<1>7. Answered'
  BY <1>0, <1>1 DEF TypeOK, Handshake, ExecBreaks, Answered, Holds, Pending, Owner
<1>8. SrcZero'
  BY <1>0, <1>1 DEF TypeOK, Handshake, ExecBreaks, SrcZero
<1>9. DestPosted'
  BY <1>0, <1>1 DEF TypeOK, Handshake, ExecBreaks, DestPosted
<1>10. Prepared'
  BY <1>0, <1>1 DEF TypeOK, Executions, ExecBreaks, Prepared
<1>11. RanBefore'
  <2> SUFFICES ASSUME NEW r \in Requesters, NEW n \in 1 .. MaxRequests,
                      n < buf[r] \/ (n = buf[r] /\ (stage[r] \in {"work", "told"} \/ dest[r] = 1))
               PROVE  ran'[r][n] > 0
    BY <1>h DEF RanBefore
  <2>1. ran[r][n] > 0
    BY <1>0 DEF Executions, RanBefore
  <2> QED
    BY <1>f, <1>g, <2>1
<1>12. RanForAnswer'
  <2>1. ASSUME NEW v \in Writers, v # w, at[v] = "answer" PROVE ran'[Owner(v)][buf[Owner(v)]] > 0
    <3>1. Owner(v) \in Requesters /\ stage[Owner(v)] = "asked" /\ ran[Owner(v)][buf[Owner(v)]] > 0
      BY <1>0, <2>1, InHand DEF Handshake, Busy, Served, Asks, Executions, RanForAnswer
    <3>2. buf[Owner(v)] \in 1 .. MaxRequests
      BY <1>0, <3>1, BufRange DEF Executions
    <3> QED
      BY <1>f, <1>g, <3>1, <3>2
  <2> QED
    BY <1>h, <2>1 DEF RanForAnswer, Owner
<1> QED
  BY <1>1, <1>2, <1>3, <1>4, <1>5, <1>6, <1>7, <1>8, <1>9, <1>10, <1>11, <1>12 DEF IndInv,
     Handshake, Executions

(* The owner's semaphore was at 0 and is posted once.                        *)
LEMMA AnswerStep ==
    ASSUME IndInv, NEW w \in Writers, Answer(w)
    PROVE  IndInv'
<1>0. TypeOK /\ Handshake /\ Executions
  BY DEF IndInv
<1>f. /\ at[w] = "answer" /\ Busy(w) /\ elem[w] \in 1 .. Len(cells) /\ Owner(w) \in Requesters
      /\ stage[Owner(w)] = "asked" /\ mine[Owner(w)] = elem[w] /\ dest[Owner(w)] = 0 /\ src[w] = 0
  BY <1>0, InHand DEF Answer, Jump, Busy, Handshake, Served, Asks, SrcZero
<1>g. /\ cells' \in Seq(Element) /\ Len(cells') = Len(cells)
      /\ \A i \in 1 .. Len(cells) : cells'[i].who = cells[i].who
      /\ \A i \in 1 .. Len(cells) : i # elem[w] => cells'[i] = cells[i]
      /\ cells'[elem[w]].src = w
  <2>1. cells \in Seq(Element) /\ cells' = [cells EXCEPT ![elem[w]] = [@ EXCEPT !.src = w]]
    BY <1>0 DEF TypeOK, Answer
  <2>2. cells[elem[w]] \in Element /\ [cells[elem[w]] EXCEPT !.src = w] \in Element
        /\ [cells[elem[w]] EXCEPT !.src = w].who = cells[elem[w]].who
        /\ [cells[elem[w]] EXCEPT !.src = w].src = w
    BY <1>0, <1>f, InList DEF Element
  <2> QED
    BY <1>f, <2>1, <2>2
<1>h. /\ UNCHANGED <<taken, freed, stage, mine, buf, elem, src, ran>>
      /\ at'[w] = "wait" /\ \A v \in Writers : v # w => at'[v] = at[v]
      /\ dest'[Owner(w)] = 1 /\ \A r \in Requesters : r # Owner(w) => dest'[r] = dest[r]
  BY <1>0, <1>f DEF Answer, Jump, TypeOK
<1>o. \A v \in Writers : Busy(v) =>
        /\ Owner(v)' = Owner(v) /\ Owner(v) \in Requesters /\ elem[v] \in 1 .. Len(cells)
        /\ v # w => elem[v] # elem[w]
  BY <1>0, <1>f, <1>g, <1>h, InHand DEF Handshake, Owner, Distinct
<1>1. TypeOK'
  <2>1. at' \in [Writers -> Places] /\ dest' = [dest EXCEPT ![Owner(w)] = @ + 1]
    BY <1>0 DEF TypeOK, Answer, Jump, Places
  <2>2. dest' \in [Requesters -> Nat]
    BY <1>0, <1>f, <2>1 DEF TypeOK
  <2> QED
    BY <1>0, <1>g, <2>1, <2>2 DEF TypeOK, Answer
<1>2. PendingOwns'
  BY <1>0, <1>1 DEF TypeOK, Handshake, Answer, Jump, PendingOwns, Pending
<1>3. BusyHas'
  BY <1>0, <1>1 DEF TypeOK, Handshake, Answer, Jump, BusyHas, Busy
<1>4. Distinct'
  BY <1>0, <1>1 DEF TypeOK, Handshake, Answer, Jump, Distinct, Busy
<1>5. Untaken'
  <2>1. ASSUME NEW i \in taken + 1 .. Len(cells)
        PROVE  stage'[cells'[i].who] = "asked" /\ mine'[cells'[i].who] = i /\ dest'[cells'[i].who] = 0
    <3>1. Asks(cells[i].who, i)
      BY <1>0 DEF Handshake, Untaken
    <3>2. i \in 1 .. Len(cells) /\ i # elem[w]
      BY <1>0, <1>f DEF TypeOK, Handshake, BusyHas
    <3>3. cells[i].who # Owner(w) /\ cells[i].who \in Requesters
      BY <1>0, <1>f, <3>1, <3>2, InList DEF Asks
    <3> QED
      BY <1>g, <1>h, <3>1, <3>2, <3>3 DEF Asks
  <2> QED
    BY <1>g, <1>h, <2>1 DEF Untaken, Asks
<1>6. Served'
  <2>1. ASSUME NEW v \in Writers, v # w, at[v] \in {"exec", "answer"}
        PROVE  stage'[Owner(v)'] = "asked" /\ mine'[Owner(v)'] = elem'[v] /\ dest'[Owner(v)'] = 0
    <3>1. Busy(v) /\ Asks(Owner(v), elem[v])
      BY <1>0, <2>1 DEF Busy, Handshake, Served
    <3>2. Owner(v) # Owner(w)
      BY <1>f, <1>o, <2>1, <3>1 DEF Asks
    <3> QED
      BY <1>h, <1>o, <3>1, <3>2 DEF Asks
  <2> QED
    BY <1>h, <2>1 DEF Served, Asks
<1>7. Answered'
  <2>1. ASSUME NEW v \in Writers, at'[v] = "wait" PROVE cells'[elem'[v]].src = v /\ Holds(v)'
    <3>1. CASE v = w
      BY <1>f, <1>g, <1>h, <1>o, <3>1 DEF Holds, Pending
    <3>2. CASE v # w
      <4>1. Busy(v) /\ cells[elem[v]].src = v /\ Holds(v)
        BY <1>0, <1>h, <2>1, <3>2 DEF Busy, Handshake, Answered
      <4> QED
        BY <1>g, <1>h, <1>o, <3>2, <4>1 DEF Holds, Pending
    <3> QED
      BY <3>1, <3>2
  <2> QED
    BY <2>1 DEF Answered
<1>8. SrcZero'
  BY <1>0, <1>1 DEF TypeOK, Handshake, Answer, Jump, SrcZero
<1>9. DestPosted'
  <2>1. ASSUME NEW r \in Requesters
        PROVE  /\ dest'[r] \in {0, 1} /\ (stage'[r] = "told" => dest'[r] = 0) /\ (dest'[r] = 1 => stage'[r] = "asked")
               /\ stage'[r] = "told" \/ dest'[r] = 1 => \E v \in Writers : at'[v] = "wait" /\ elem'[v] = mine'[r]
    <3>1. CASE r = Owner(w)
      BY <1>f, <1>h, <3>1
    <3>2. CASE r # Owner(w)
      BY <1>0, <1>f, <1>h, <3>2 DEF Handshake, DestPosted
    <3> QED
      BY <3>1, <3>2
  <2> QED
    BY <2>1 DEF DestPosted
<1>10. Prepared'
  BY <1>0, <1>1 DEF TypeOK, Executions, Answer, Jump, Prepared
<1>11. RanBefore'
  <2>1. ran[Owner(w)][buf[Owner(w)]] > 0
    BY <1>0, <1>f DEF Executions, RanForAnswer
  <2> QED
    BY <1>0, <1>h, <2>1 DEF Executions, RanBefore
<1>12. RanForAnswer'
  BY <1>0, <1>1 DEF TypeOK, Executions, Answer, Jump, RanForAnswer, Owner
<1> QED
  BY <1>1, <1>2, <1>3, <1>4, <1>5, <1>6, <1>7, <1>8, <1>9, <1>10, <1>11, <1>12 DEF IndInv,
     Handshake, Executions

(* Nobody points to an element any more when it is freed.                    *)
LEMMA FreeStep ==
    ASSUME IndInv, NEW w \in Writers, Free(w)
    PROVE  IndInv'
<1>0. TypeOK /\ Handshake /\ Executions
  BY DEF IndInv
<1>f. /\ at[w] = "wait" /\ Busy(w) /\ Owner(w) \in Requesters /\ src[w] = 1 /\ src'[w] = 0
      /\ ~(Pending(Owner(w)) /\ mine[Owner(w)] = elem[w])
  BY <1>0, InHand DEF Free, Jump, Busy, Handshake, Answered, Holds, TypeOK
<1>g. /\ freed' = freed \cup {elem[w]} /\ at'[w] = "idle"
      /\ \A v \in Writers : v # w => at'[v] = at[v] /\ src'[v] = src[v]
      /\ UNCHANGED <<cells, taken, stage, mine, dest, elem>>
  BY <1>0 DEF Free, Jump, TypeOK
<1>1. TypeOK'
  <2>1. at' \in [Writers -> Places] /\ src' \in [Writers -> Nat]
    BY <1>0 DEF TypeOK, Free, Jump, Places
  <2>2. freed' \subseteq 1 .. taken
    BY <1>0, <1>f, <1>g DEF TypeOK, Handshake, BusyHas
  <2> QED
    BY <1>0, <2>1, <2>2 DEF TypeOK, Free
<1>2. PendingOwns'
  <2>1. \A r \in Requesters : Pending(r) => mine[r] # elem[w]
    BY <1>0, <1>f DEF Handshake, PendingOwns, Owner
  <2> QED
    BY <1>0, <1>g, <2>1 DEF Handshake, PendingOwns, Pending
<1>3. BusyHas'
  BY <1>0, <1>f, <1>g DEF Handshake, BusyHas, Distinct, Busy
<1>4. Distinct'
  BY <1>0, <1>1 DEF TypeOK, Handshake, Free, Jump, Distinct, Busy
<1>5. Untaken'
  BY <1>0, <1>1 DEF TypeOK, Handshake, Free, Jump, Untaken, Asks
<1>6. Served'
  BY <1>0, <1>1 DEF TypeOK, Handshake, Free, Jump, Served, Asks, Owner
<1>7. Answered'
  BY <1>0, <1>1 DEF TypeOK, Handshake, Free, Jump, Answered, Holds, Pending, Owner
<1>8. SrcZero'
  BY <1>0, <1>f, <1>g DEF Handshake, SrcZero
<1>9. DestPosted'
  <2>1. \A r \in Requesters : stage[r] = "told" \/ dest[r] = 1 => mine[r] # elem[w]
    BY <1>0, <1>f DEF Handshake, DestPosted, PendingOwns, Pending, Owner
  <2> QED
    BY <1>0, <1>g, <2>1 DEF Handshake, DestPosted
<1>10. Prepared'
  BY <1>0, <1>1 DEF TypeOK, Executions, Free, Jump, Prepared
<1>11. RanBefore'
  BY <1>0, <1>1 DEF TypeOK, Executions, Free, Jump, RanBefore
<1>12. RanForAnswer'
  BY <1>0, <1>1 DEF TypeOK, Executions, Free, Jump, RanForAnswer, Owner
<1> QED
  BY <1>1, <1>2, <1>3, <1>4, <1>5, <1>6, <1>7, <1>8, <1>9, <1>10, <1>11, <1>12 DEF IndInv,
     Handshake, Executions

(* The initial state is in the invariant.                                  *)
LEMMA IndInit == Init => IndInv
<1> SUFFICES ASSUME Init PROVE IndInv
  OBVIOUS
<1>1. TypeOK
  BY ConstantsAssumption DEF Init, TypeOK, Stages, Places
<1>2. Handshake
  BY DEF Init, Handshake, PendingOwns, BusyHas, Distinct, Untaken, Served, Answered, SrcZero,
         DestPosted,
         Pending, Busy
<1>3. Executions
  BY DEF Init, Executions, Prepared, RanBefore, RanForAnswer
<1> QED
  BY <1>1, <1>2, <1>3 DEF IndInv

(* Every step keeps the invariant.                                         *)
LEMMA IndStep == IndInv /\ [Next]_vars => IndInv'
<1> SUFFICES ASSUME IndInv, [Next]_vars PROVE IndInv'
  OBVIOUS
<1>1. ASSUME NEW r \in Requesters, Requester(r) PROVE IndInv'
  BY <1>1, PrepareStep, DbenqStep, ToldStep, ReleaseStep DEF Requester
<1>2. ASSUME NEW w \in Writers, Writer(w) PROVE IndInv'
  BY <1>2, WaitLengthStep, DbdeqStep, ReconnectStep, ExecStep, ExecBreaksStep, AnswerStep,
     FreeStep DEF Writer
<1>3. CASE UNCHANGED vars
  BY <1>3 DEF IndInv, TypeOK, Handshake, PendingOwns, BusyHas, Distinct, Untaken, Served, Answered,
              SrcZero,
              DestPosted, Executions, Prepared, RanBefore, RanForAnswer, Pending, Busy, Asks, Holds, Owner, vars
<1> QED
  BY <1>1, <1>2, <1>3 DEF Next

(* The queue of statements, the semaphores and the buffers keep their      *)
(* types, for any number of requesters and writers.                        *)
THEOREM TypeCorrect == Spec => []TypeOK
<1>1. IndInv => TypeOK
  BY DEF IndInv
<1> QED
  BY IndInit, IndStep, <1>1, PTL DEF Spec

(* Neither the requester, which still has to post to element->srcReturned, *)
(* nor a writer uses an element that has been freed.                       *)
THEOREM NeverUsedAfterFree == Spec => []NoUseAfterFree
<1>1. IndInv => NoUseAfterFree
  BY DEF IndInv, Handshake, PendingOwns, BusyHas, NoUseAfterFree, Pending, Busy
<1> QED
  BY IndInit, IndStep, <1>1, PTL DEF Spec

(* When sem_wait(dbResp->destReturned) lets a requester go on, the         *)
(* statements that it wrote into its buffer have been executed.            *)
THEOREM AnswerMeansRun == Spec => []AnsweredAfterRun
<1>1. IndInv => AnsweredAfterRun
  <2> SUFFICES ASSUME IndInv, NEW r \in Requesters
               PROVE  /\ stage[r] = "told" => ran[r][buf[r]] > 0
                      /\ \A n \in 1 .. MaxRequests : n < buf[r] => ran[r][n] > 0
    BY DEF AnsweredAfterRun
  <2>1. TypeOK /\ Prepared /\ RanBefore
    BY DEF IndInv, Executions
  <2>2. ASSUME stage[r] = "told" PROVE ran[r][buf[r]] > 0
    <3>1. buf[r] \in 1 .. MaxRequests
      BY <2>1, <2>2, BufRange
    <3> QED
      BY <2>1, <2>2, <3>1 DEF RanBefore
  <2> QED
    BY <2>1, <2>2 DEF RanBefore
<1> QED
  BY IndInit, IndStep, <1>1, PTL DEF Spec

-----------------------------------------------------------------------------
(* The semaphore counts the elements that no writer has been let in for.   *)
LEMMA TakingFinite == IsFiniteSet(Taking) /\ Cardinality(Taking) \in Nat
<1>1. Taking \subseteq Writers
  BY DEF Taking
<1> QED
  BY <1>1, ConstantsAssumption, FS_Subset, FS_CardinalityType

(* Every step keeps the count.                                             *)
LEMMA CountStep == IndInv /\ PermitsMatch /\ [Next]_vars => PermitsMatch'
<1> SUFFICES ASSUME IndInv, PermitsMatch, [Next]_vars PROVE PermitsMatch'
  OBVIOUS
<1>0. TypeOK /\ length \in Nat /\ taken \in Nat /\ Len(cells) \in Nat
  BY DEF IndInv, TypeOK
<1>1. length + Cardinality(Taking) = Len(cells) - taken
  BY DEF PermitsMatch
<1>2. CASE Taking' = Taking /\ Len(cells') - taken' - length' = Len(cells) - taken - length
           /\ length' \in Nat /\ taken' \in Nat /\ Len(cells') \in Nat
  <2>1. Cardinality(Taking) \in Nat /\ Cardinality(Taking') = Cardinality(Taking)
    BY <1>2, TakingFinite
  <2>2. length' + Cardinality(Taking) = Len(cells') - taken'
    <3> DEFINE n == Cardinality(Taking)  k == Len(cells)  k1 == Len(cells')
    <3>1. n \in Nat /\ k \in Nat /\ k1 \in Nat /\ length \in Nat /\ taken \in Nat
          /\ length' \in Nat /\ taken' \in Nat
      BY <1>0, <1>2, <2>1
    <3>2. length + n = k - taken /\ k1 - taken' - length' = k - taken - length
      BY <1>1, <1>2
    <3> HIDE DEF n, k, k1
    <3>3. n = k - taken - length
      BY <3>1, <3>2
    <3>4. n = k1 - taken' - length'
      BY <3>2, <3>3
    <3>5. length' + n = k1 - taken'
      BY <3>1, <3>4
    <3> QED
      BY <3>5 DEF n, k1
  <2> QED
    BY <2>1, <2>2 DEF PermitsMatch
<1>3. ASSUME NEW r \in Requesters, Dbenq(r) PROVE PermitsMatch'
  <2>1. Taking' = Taking /\ length' = length + 1 /\ taken' = taken
    BY <1>3 DEF Dbenq, Taking
  <2>2. Len(cells') = Len(cells) + 1
    BY <1>0, <1>3 DEF Dbenq, TypeOK
  <2> QED
    BY <1>0, <1>1, <2>1, <2>2, TakingFinite DEF PermitsMatch
<1>4. ASSUME NEW w \in Writers, WaitLength(w) PROVE PermitsMatch'
  <2>1. Taking' = Taking \cup {w} /\ w \notin Taking
    BY <1>0, <1>4 DEF WaitLength, Jump, Taking, TypeOK
  <2>2. Cardinality(Taking') = Cardinality(Taking) + 1
    BY <2>1, TakingFinite, FS_AddElement
  <2>3. length' = length - 1 /\ taken' = taken /\ cells' = cells
    BY <1>4 DEF WaitLength
  <2> QED
    BY <1>0, <1>1, <2>2, <2>3, TakingFinite DEF PermitsMatch
<1>5. ASSUME NEW w \in Writers, Dbdeq(w) PROVE PermitsMatch'
  <2>1. Taking' = Taking \ {w} /\ w \in Taking
    BY <1>0, <1>5 DEF Dbdeq, Jump, Taking, TypeOK
  <2>2. Cardinality(Taking') = Cardinality(Taking) - 1
    BY <2>1, TakingFinite, FS_RemoveElement
  <2>3. length' = length /\ taken' = taken + 1 /\ cells' = cells
    BY <1>5 DEF Dbdeq
  <2> QED
    BY <1>0, <1>1, <2>2, <2>3, TakingFinite DEF PermitsMatch
<1>6. ASSUME NEW r \in Requesters, Prepare(r) \/ Told(r) \/ Release(r) PROVE PermitsMatch'
  BY <1>0, <1>2, <1>6 DEF Prepare, Told, Release, Taking
<1>7. ASSUME NEW w \in Writers, Reconnect(w) \/ Exec(w) \/ ExecBreaks(w) \/ Free(w)
      PROVE  PermitsMatch'
  <2>1. UNCHANGED <<cells, taken, length>>
    BY <1>7 DEF Reconnect, Exec, ExecBreaks, Free
  <2>2. Taking' = Taking
    BY <1>0, <1>7 DEF Reconnect, Exec, ExecBreaks, Free, Jump, Taking, TypeOK
  <2> QED
    BY <1>0, <1>2, <2>1, <2>2
<1>8. ASSUME NEW w \in Writers, Answer(w) PROVE PermitsMatch'
  <2>1. taken' = taken /\ length' = length /\ Len(cells') = Len(cells)
    BY <1>0, <1>8 DEF Answer, TypeOK
  <2>2. Taking' = Taking
    BY <1>0, <1>8 DEF Answer, Jump, Taking, TypeOK
  <2> QED
    BY <1>0, <1>2, <2>1, <2>2
<1>9. CASE UNCHANGED vars
  BY <1>0, <1>2, <1>9 DEF vars, Taking
<1> QED
  BY <1>3, <1>4, <1>5, <1>6, <1>7, <1>8, <1>9 DEF Next, Requester, Writer

(* A writer that sem_wait(q->length) lets in finds an element: dbdeq never *)
(* returns the NULL that the handler would dereference.                    *)
THEOREM PermitsAlwaysMatch == Spec => []PermitsMatch
<1>1. Init => IndInv /\ PermitsMatch
  <2>1. Init => Taking = {}
    BY DEF Init, Taking
  <2>2. Cardinality({}) = 0
    BY FS_EmptySet
  <2>3. Init => length = 0 /\ taken = 0 /\ Len(cells) = 0
    BY DEF Init
  <2> QED
    BY <2>1, <2>2, <2>3, IndInit DEF PermitsMatch
<1>2. IndInv /\ PermitsMatch /\ [Next]_vars => (IndInv /\ PermitsMatch)'
  BY IndStep, CountStep
<1> QED
  BY <1>1, <1>2, PTL DEF Spec

-----------------------------------------------------------------------------
(* How often statements are executed.  From the post of the answer on, and *)
(* while a writer is about to post, the statements in the buffer have been *)
(* executed by a PQexec that returned: they will not be executed again.    *)
Executed(r) ==
    \/ stage[r] \in {"work", "told"}
    \/ dest[r] = 1
    \/ \E w \in Writers : at[w] = "answer" /\ Owner(w) = r

(* Until then every execution of them belongs to a connection that broke.  *)
BoundOf(r, n) ==
    /\ ran[r][n] <= 1 + drops
    /\ n > buf[r] => ran[r][n] = 0
    /\ n = buf[r] /\ ~Executed(r) => ran[r][n] <= drops
Bounded == \A r \in Requesters : \A n \in 1 .. MaxRequests : BoundOf(r, n)

(* The numbers in a bound.                                                 *)
LEMMA Counters ==
    ASSUME TypeOK, NEW r \in Requesters, NEW n \in 1 .. MaxRequests
    PROVE  ran[r][n] \in Nat /\ drops \in Nat /\ buf[r] \in Nat /\ n \in Nat
<1>1. ran[r] \in [1 .. MaxRequests -> Nat] /\ buf[r] \in 0 .. MaxRequests /\ drops \in 0 .. MaxDrops
  BY DEF TypeOK
<1> QED
  BY <1>1, ConstantsAssumption

(* A step that executes nothing, changes no buffer and takes nobody's      *)
(* answer back keeps the bound.                                            *)
LEMMA BoundKept ==
    ASSUME Bounded, UNCHANGED <<ran, buf, drops>>,
           \A r \in Requesters : Executed(r) => Executed(r)'
    PROVE  Bounded'
BY DEF Bounded, BoundOf

(* A writer keeps its element's owner.                                     *)
LEMMA OwnerKept ==
    ASSUME TypeOK, BusyHas, NEW w \in Writers, Busy(w), elem'[w] = elem[w],
           \A i \in 1 .. Len(cells) : cells'[i].who = cells[i].who
    PROVE  Owner(w)' = Owner(w)
BY InHand DEF Owner

LEMMA BoundRequester ==
    ASSUME IndInv, Bounded, NEW q \in Requesters, Requester(q)
    PROVE  Bounded'
<1>0. TypeOK /\ Handshake /\ Executions
  BY DEF IndInv
<1>1. CASE Prepare(q)
  <2>1. UNCHANGED <<cells, dest, at, elem, ran, drops>> /\ stage[q] = "work"
        /\ buf'[q] = buf[q] + 1 /\ \A r \in Requesters : r # q => buf'[r] = buf[r] /\ stage'[r] = stage[r]
    BY <1>0, <1>1 DEF Prepare, Moves, TypeOK
  <2> SUFFICES ASSUME NEW r \in Requesters, NEW n \in 1 .. MaxRequests PROVE BoundOf(r, n)'
    BY DEF Bounded
  <2>2. BoundOf(r, n) /\ ran[r][n] \in Nat /\ drops \in Nat /\ buf[r] \in Nat /\ n \in Nat
    BY <1>0, Counters DEF Bounded
  <2>3. CASE r = q
    BY <2>1, <2>2, <2>3 DEF BoundOf
  <2>4. CASE r # q
    <3>1. Executed(r)' <=> Executed(r)
      BY <2>1, <2>4 DEF Executed, Owner
    <3> QED
      BY <2>1, <2>2, <2>4, <3>1 DEF BoundOf
  <2> QED
    BY <2>3, <2>4
<1>2. CASE Dbenq(q)
  <2>1. UNCHANGED <<dest, at, elem, ran, buf, drops>> /\ stage[q] = "ready" /\ dest[q] # 1
        /\ \A r \in Requesters : r # q => stage'[r] = stage[r]
    BY <1>0, <1>2 DEF Dbenq, Moves, TypeOK, Handshake, DestPosted
  <2>2. \A i \in 1 .. Len(cells) : cells'[i].who = cells[i].who
    BY <1>0, <1>2 DEF Dbenq, TypeOK
  <2>3. \A w \in Writers : at[w] = "answer" => Owner(w)' = Owner(w) /\ stage[Owner(w)] = "asked"
    BY <1>0, <2>1, <2>2, OwnerKept DEF Busy, Handshake, Served, Asks
  <2>4. \A r \in Requesters : Executed(r) => Executed(r)'
    BY <2>1, <2>3 DEF Executed
  <2> QED
    BY <2>1, <2>4, BoundKept
<1>3. CASE Told(q)
  <2>1. UNCHANGED <<cells, at, elem, ran, buf, drops>> /\ stage'[q] = "told"
        /\ \A r \in Requesters : r # q => stage'[r] = stage[r] /\ dest'[r] = dest[r]
    BY <1>0, <1>3 DEF Told, Moves, TypeOK
  <2>2. \A r \in Requesters : Executed(r) => Executed(r)'
    BY <2>1 DEF Executed, Owner
  <2> QED
    BY <2>1, <2>2, BoundKept
<1>4. CASE Release(q)
  <2>1. UNCHANGED <<cells, dest, at, elem, ran, buf, drops>> /\ stage'[q] = "work"
        /\ \A r \in Requesters : r # q => stage'[r] = stage[r]
    BY <1>0, <1>4 DEF Release, Moves, TypeOK
  <2>2. \A r \in Requesters : Executed(r) => Executed(r)'
    BY <2>1 DEF Executed, Owner
  <2> QED
    BY <2>1, <2>2, BoundKept
<1> QED
  BY <1>1, <1>2, <1>3, <1>4 DEF Requester

(* The statements a writer executes are those of a requester that no       *)
(* writer is about to answer.                                              *)
LEMMA NotYetExecuted ==
    ASSUME IndInv, NEW w \in Writers, at[w] = "exec"
    PROVE  Owner(w) \in Requesters /\ ~Executed(Owner(w))
<1>0. TypeOK /\ Handshake
  BY DEF IndInv
<1>1. Owner(w) \in Requesters /\ Asks(Owner(w), elem[w])
  BY <1>0, InHand DEF Handshake, Served, Busy
<1>2. ASSUME NEW v \in Writers, at[v] = "answer", Owner(v) = Owner(w) PROVE FALSE
  <2>1. Asks(Owner(v), elem[v])
    BY <1>0, <1>2 DEF Handshake, Served
  <2>2. elem[v] = elem[w]
    BY <1>1, <1>2, <2>1 DEF Asks
  <2> QED
    BY <1>0, <1>2, <2>2 DEF Handshake, Distinct, Busy
<1> QED
  BY <1>1, <1>2 DEF Executed, Asks

LEMMA BoundExec ==
    ASSUME IndInv, Bounded, NEW w \in Writers, Exec(w) \/ ExecBreaks(w)
    PROVE  Bounded'
<1>0. TypeOK /\ Handshake /\ at[w] = "exec"
  BY DEF IndInv, Exec, ExecBreaks, Jump
<1>1. UNCHANGED <<cells, stage, dest, elem, buf>>
  BY DEF Exec, ExecBreaks
<1>2. Owner(w) \in Requesters /\ ~Executed(Owner(w))
  BY <1>0, NotYetExecuted
<1>3. \/ ran' = ran
      \/ /\ ran'[Owner(w)][buf[Owner(w)]] = ran[Owner(w)][buf[Owner(w)]] + 1
         /\ \A r \in Requesters : \A n \in 1 .. MaxRequests : r # Owner(w) \/ n # buf[r] => ran'[r][n] = ran[r][n]
  BY <1>0, ExecutesEffect DEF Exec, ExecBreaks
<1>4. \/ drops' = drops /\ Executed(Owner(w))'
      \/ drops' = drops + 1 /\ at' = at
  <2>1. Exec(w) => at'[w] = "answer"
    BY <1>0 DEF Exec, Jump, TypeOK
  <2> QED
    BY <1>1, <2>1 DEF Exec, ExecBreaks, Executed, Owner
<1>5. \A v \in Writers : at[v] = "answer" => at'[v] = "answer"
  BY <1>0 DEF Exec, ExecBreaks, Jump, TypeOK
<1>6. \A r \in Requesters : Executed(r) => Executed(r)'
  BY <1>1, <1>5 DEF Executed, Owner
<1> SUFFICES ASSUME NEW r \in Requesters, NEW n \in 1 .. MaxRequests PROVE BoundOf(r, n)'
  BY DEF Bounded
<1>7. BoundOf(r, n) /\ ran[r][n] \in Nat /\ drops \in Nat /\ buf[r] \in Nat /\ n \in Nat
  BY <1>0, Counters DEF Bounded
<1>8. CASE ran'[r][n] = ran[r][n]
  BY <1>1, <1>4, <1>6, <1>7, <1>8 DEF BoundOf
<1>9. CASE r = Owner(w) /\ n = buf[r] /\ ran'[r][n] = ran[r][n] + 1
  <2>1. ran[r][n] <= drops /\ buf' = buf
    BY <1>1, <1>2, <1>7, <1>9 DEF BoundOf
  <2>2. CASE drops' = drops /\ Executed(Owner(w))'
    <3>1. ran'[r][n] <= 1 + drops'
      BY <1>7, <1>9, <2>1, <2>2
    <3>2. Executed(r)'
      BY <1>1, <1>9, <2>2 DEF Executed, Owner
    <3>3. ~(n > buf'[r])
      BY <1>7, <1>9, <2>1
    <3> QED
      BY <3>1, <3>2, <3>3 DEF BoundOf
  <2>3. CASE drops' = drops + 1
    <3>1. ran'[r][n] <= 1 + drops' /\ ran'[r][n] <= drops'
      BY <1>7, <1>9, <2>1, <2>3
    <3>2. ~(n > buf'[r])
      BY <1>7, <1>9, <2>1
    <3> QED
      BY <3>1, <3>2 DEF BoundOf
  <2> QED
    BY <1>4, <2>2, <2>3
<1> QED
  BY <1>3, <1>8, <1>9

LEMMA BoundWriter ==
    ASSUME IndInv, Bounded, NEW w \in Writers, Writer(w)
    PROVE  Bounded'
<1>0. TypeOK /\ Handshake
  BY DEF IndInv
<1>1. CASE Answer(w)
  <2>1. UNCHANGED <<stage, elem, ran, buf, drops>> /\ at[w] = "answer"
        /\ \A v \in Writers : v # w => at'[v] = at[v]
    BY <1>0, <1>1 DEF Answer, Jump, TypeOK
  <2>2. Owner(w) \in Requesters /\ dest[Owner(w)] = 0 /\ elem[w] \in 1 .. Len(cells)
    BY <1>0, <2>1, InHand DEF Handshake, Served, Asks, Busy
  <2>3. dest'[Owner(w)] = 1 /\ \A r \in Requesters : r # Owner(w) => dest'[r] = dest[r]
    BY <1>0, <1>1, <2>2 DEF Answer, TypeOK
  <2>4. \A i \in 1 .. Len(cells) : cells'[i].who = cells[i].who
    <3>1. \A i \in 1 .. Len(cells) : cells[i] \in Element
      BY <1>0, InList
    <3>2. cells' = [cells EXCEPT ![elem[w]] = [@ EXCEPT !.src = w]] /\ cells \in Seq(Element)
      BY <1>0, <1>1 DEF Answer, TypeOK
    <3> QED
      BY <2>2, <3>1, <3>2 DEF Element
  <2>5. \A v \in Writers : at[v] = "answer" => Owner(v)' = Owner(v)
    BY <1>0, <2>1, <2>4, OwnerKept DEF Busy, Handshake
  <2>6. \A r \in Requesters : Executed(r) => Executed(r)'
    BY <2>1, <2>3, <2>5 DEF Executed
  <2> QED
    BY <2>1, <2>6, BoundKept
<1>2. CASE WaitLength(w) \/ Dbdeq(w) \/ Reconnect(w) \/ Free(w)
  <2>1. UNCHANGED <<cells, stage, dest, ran, buf, drops>>
    BY <1>2 DEF WaitLength, Dbdeq, Reconnect, Free
  <2>2. \A v \in Writers : at[v] = "answer" => at'[v] = "answer" /\ elem'[v] = elem[v]
    BY <1>0, <1>2 DEF WaitLength, Dbdeq, Reconnect, Free, Jump, TypeOK
  <2>3. \A r \in Requesters : Executed(r) => Executed(r)'
    BY <2>1, <2>2 DEF Executed, Owner
  <2> QED
    BY <2>1, <2>3, BoundKept
<1> QED
  BY <1>1, <1>2, BoundExec DEF Writer

(* PQexec is repeated only for a connection that broke: one execution for  *)
(* each break, and one more, whatever writers and requesters there are.    *)
THEOREM RepeatsOnlyAfterDrop == Spec => []TwiceOnlyAfterDrop
<1>1. Init => IndInv /\ Bounded
  BY IndInit, ConstantsAssumption DEF Init, Bounded, BoundOf, Executed
<1>2. IndInv /\ Bounded /\ [Next]_vars => (IndInv /\ Bounded)'
  <2> SUFFICES ASSUME IndInv, Bounded, [Next]_vars PROVE IndInv' /\ Bounded'
    OBVIOUS
  <2>1. CASE UNCHANGED vars
    <3>1. UNCHANGED <<ran, buf, drops, cells, stage, dest, at, elem>>
      BY <2>1 DEF vars
    <3>2. \A r \in Requesters : Executed(r) => Executed(r)'
      BY <3>1 DEF Executed, Owner
    <3> QED
      BY <3>1, <3>2, IndStep, BoundKept
  <2> QED
    BY <2>1, IndStep, BoundRequester, BoundWriter DEF Next
<1>3. Bounded => TwiceOnlyAfterDrop
  BY DEF Bounded, BoundOf, TwiceOnlyAfterDrop
<1> QED
  BY <1>1, <1>2, <1>3, PTL DEF Spec
=============================================================================
