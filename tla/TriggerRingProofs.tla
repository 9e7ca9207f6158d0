-------------------------- MODULE TriggerRingProofs --------------------------
(***************************************************************************)
(* Proofs about TriggerRing, for any number of users and triggers: until   *)
(* the trigger thread misses a user's lock the ring is one circle of the   *)
(* triggers in the users' trees, and the trigger that is executed is one   *)
(* of them.                                                                *)
(*                                                                         *)
(* The inductive invariant says who holds the locks where, that a trigger  *)
(* knows the place in the tree that leads to it, and that the ring is      *)
(* whole.  It speaks of the time before a miss only, like what it proves;  *)
(* the types, at the end, hold after a miss too.                           *)
(***************************************************************************)
EXTENDS TriggerRing, TLAPS

(* A ring with the nodes "nodes", entered at c.                            *)
IsRing(nodes, c, n, p) ==
    /\ IF nodes = {} THEN c = Null ELSE c \in nodes
    /\ \A t \in nodes : n[t] \in nodes /\ p[n[t]] = t /\ p[t] \in nodes /\ n[p[t]] = t
    /\ \A part \in SUBSET nodes : part # {} /\ (\A t \in part : n[t] \in part) => part = nodes

(* LinkAsLast: a node put between the one before c and c leaves a ring.    *)
LEMMA Inserted ==
    ASSUME NEW nodes \in SUBSET Triggers, NEW c \in nodes,
           NEW n \in [Triggers -> Pointers], NEW p \in [Triggers -> Pointers],
           NEW t \in Triggers \ nodes,
           IsRing(nodes, c, n, p)
    PROVE  IsRing(nodes \cup {t}, c, [n EXCEPT ![t] = c, ![p[c]] = t],
                                     [p EXCEPT ![t] = p[c], ![c] = t])
PROOF
<1> DEFINE n2 == [n EXCEPT ![t] = c, ![p[c]] = t]
           p2 == [p EXCEPT ![t] = p[c], ![c] = t]
           more == nodes \cup {t}
<1>1. /\ \A x \in nodes : n[x] \in nodes /\ p[n[x]] = x /\ p[x] \in nodes /\ n[p[x]] = x
      /\ \A part \in SUBSET nodes : part # {} /\ (\A x \in part : n[x] \in part) => part = nodes
  BY DEF IsRing
<1>2. /\ p[c] \in nodes /\ n[p[c]] = c /\ p[c] # t /\ c # t
      /\ n2[t] = c /\ n2[p[c]] = t
      /\ p2[t] = p[c] /\ p2[c] = t
      /\ \A x \in nodes \ {p[c]} : n2[x] = n[x]
      /\ \A x \in nodes \ {c} : p2[x] = p[x]
  BY <1>1
<1> HIDE DEF n2, p2
<1>3. ASSUME NEW x \in more
      PROVE  n2[x] \in more /\ p2[n2[x]] = x /\ p2[x] \in more /\ n2[p2[x]] = x
  <2>1. CASE x = t
    BY <2>1, <1>2
  <2>2. CASE x # t
    <3>1. x \in nodes
      BY <2>2
    <3>2. n2[x] \in more /\ p2[n2[x]] = x
      <4>1. CASE x = p[c]
        BY <4>1, <1>2
      <4>2. CASE x # p[c]
        <5>1. n2[x] = n[x] /\ n[x] \in nodes /\ n[x] # c
          BY <4>2, <3>1, <1>1, <1>2
        <5> QED BY <5>1, <3>1, <1>1, <1>2
      <4> QED BY <4>1, <4>2
    <3>3. p2[x] \in more /\ n2[p2[x]] = x
      <4>1. CASE x = c
        BY <4>1, <1>2
      <4>2. CASE x # c
        <5>1. p2[x] = p[x] /\ p[x] \in nodes /\ p[x] # p[c]
          BY <4>2, <3>1, <1>1, <1>2
        <5> QED BY <5>1, <3>1, <1>1, <1>2
      <4> QED BY <4>1, <4>2
    <3> QED BY <3>2, <3>3
  <2> QED BY <2>1, <2>2
<1>4. ASSUME NEW part \in SUBSET more, part # {}, \A x \in part : n2[x] \in part
      PROVE  part = more
  <2>1. CASE t \in part
    <3>1. c \in part \ {t} /\ part \ {t} \in SUBSET nodes
      BY <2>1, <1>4, <1>2
    <3>2. ASSUME NEW x \in part \ {t} PROVE n[x] \in part \ {t}
      <4>1. CASE x = p[c]
        BY <4>1, <3>1, <1>2
      <4>2. CASE x # p[c]
        BY <4>2, <3>1, <1>4, <1>1, <1>2
      <4> QED BY <4>1, <4>2
    <3>3. part \ {t} = nodes
      BY <3>1, <3>2, <1>1
    <3> QED BY <3>3, <2>1
  <2>2. CASE t \notin part
    <3>1. part \in SUBSET nodes /\ p[c] \notin part
      BY <2>2, <1>4, <1>2
    <3>2. \A x \in part : n[x] \in part
      BY <3>1, <1>4, <1>2
    <3>3. part = nodes
      BY <3>1, <3>2, <1>4, <1>1
    <3> QED BY <3>3, <3>1, <1>2
  <2> QED BY <2>1, <2>2
<1> QED BY <1>3, <1>4 DEF IsRing, n2, p2

(* UnlinkTrigger, of one among several: the others are a ring.             *)
LEMMA Removed ==
    ASSUME NEW nodes \in SUBSET Triggers, NEW c \in nodes,
           NEW n \in [Triggers -> Pointers], NEW p \in [Triggers -> Pointers],
           NEW t \in nodes, n[t] # t,
           IsRing(nodes, c, n, p)
    PROVE  IsRing(nodes \ {t}, IF c = t THEN n[t] ELSE c,
                  [n EXCEPT ![p[t]] = n[t]], [p EXCEPT ![n[t]] = p[t]])
PROOF
<1> DEFINE n2 == [n EXCEPT ![p[t]] = n[t]]
           p2 == [p EXCEPT ![n[t]] = p[t]]
           less == nodes \ {t}
<1>1. /\ \A x \in nodes : n[x] \in nodes /\ p[n[x]] = x /\ p[x] \in nodes /\ n[p[x]] = x
      /\ \A part \in SUBSET nodes : part # {} /\ (\A x \in part : n[x] \in part) => part = nodes
  BY DEF IsRing
<1>2. /\ p[t] \in less /\ n[t] \in less
      /\ n2[p[t]] = n[t] /\ p2[n[t]] = p[t]
      /\ \A x \in nodes \ {p[t]} : n2[x] = n[x]
      /\ \A x \in nodes \ {n[t]} : p2[x] = p[x]
  BY <1>1
<1> HIDE DEF n2, p2
<1>3. ASSUME NEW x \in less
      PROVE  n2[x] \in less /\ p2[n2[x]] = x /\ p2[x] \in less /\ n2[p2[x]] = x
  <2>1. n2[x] \in less /\ p2[n2[x]] = x
    <3>1. CASE x = p[t]
      BY <3>1, <1>2
    <3>2. CASE x # p[t]
      <4>1. n2[x] = n[x] /\ n[x] \in less /\ n[x] # n[t]
        BY <3>2, <1>1, <1>2
      <4> QED BY <4>1, <1>1, <1>2
    <3> QED BY <3>1, <3>2
  <2>2. p2[x] \in less /\ n2[p2[x]] = x
    <3>1. CASE x = n[t]
      BY <3>1, <1>2
    <3>2. CASE x # n[t]
      <4>1. p2[x] = p[x] /\ p[x] \in less /\ p[x] # p[t]
        BY <3>2, <1>1, <1>2
      <4> QED BY <4>1, <1>1, <1>2
    <3> QED BY <3>1, <3>2
  <2> QED BY <2>1, <2>2
<1>4. ASSUME NEW part \in SUBSET less, part # {}, \A x \in part : n2[x] \in part
      PROVE  part = less
  <2>1. CASE p[t] \in part
    <3>1. ASSUME NEW x \in part \cup {t} PROVE n[x] \in part \cup {t}
      <4>1. CASE x = t
        BY <4>1, <2>1, <1>4, <1>2
      <4>2. CASE x = p[t]
        BY <4>2, <1>1
      <4>3. CASE x # t /\ x # p[t]
        BY <4>3, <1>4, <1>2
      <4> QED BY <4>1, <4>2, <4>3
    <3>2. part \cup {t} \in SUBSET nodes /\ part \cup {t} # {}
      BY <1>4
    <3>3. part \cup {t} = nodes
      <4> DEFINE whole == part \cup {t}
      <4>1. whole \in SUBSET nodes /\ whole # {} /\ \A x \in whole : n[x] \in whole
        BY <3>1, <3>2
      <4> HIDE DEF whole
      <4>2. whole = nodes
        BY <4>1, <1>1
      <4> QED BY <4>2 DEF whole
    <3> QED BY <3>3, <1>4
  <2>2. CASE p[t] \notin part
    <3>1. \A x \in part : n[x] \in part
      BY <2>2, <1>4, <1>2
    <3>2. part = nodes
      BY <3>1, <1>4, <1>1
    <3> QED BY <3>2, <1>4
  <2> QED BY <2>1, <2>2
<1>5. (IF c = t THEN n[t] ELSE c) \in less /\ less # {}
  BY <1>2
<1> QED BY <1>3, <1>4, <1>5 DEF IsRing, n2, p2
-----------------------------------------------------------------------------
(* The inductive invariant.                                                *)

Domains ==
    /\ curr \in Pointers /\ cTrigger \in Pointers
    /\ next \in [Triggers -> Pointers] /\ prev \in [Triggers -> Pointers]
    /\ home \in [Triggers -> Homes \cup {Null}]
    /\ slot \in [Users -> [Types -> Pointers]]
    /\ userBusy \in [Users -> Users \cup {Nobody, Handler}]
    /\ at \in [Users -> CommandPlaces]
    /\ type \in [Users -> Types]

(* The stock's lock: a command thread's that is in the ring, the trigger   *)
(* thread's where it walks.                                                *)
StockLocked ==
    /\ \A u \in Users : at[u] = "in" => stockBusy = u
    /\ pc \in {"price", "look", "step", "try", "test", "leave"} => stockBusy = Handler

(* A user's lock: the command's, or that of the trigger's execution.       *)
OwnerLocked ==
    /\ \A u \in Users : at[u] # "idle" => userBusy[u] = u
    /\ pc \in {"act", "remove"} => userBusy[Owner(cTrigger)] = Handler

AtLive == pc \in {"step", "try", "act", "remove"} => cTrigger \in Live

HomeIsPlace ==
    \A u \in Users, k \in Types : slot[u][k] # Null => home[slot[u][k]] = <<u, k>>

Orderly ==
    /\ Domains /\ StockLocked /\ OwnerLocked /\ AtLive /\ HomeIsPlace
    /\ IsRing(Live, curr, next, prev)

Inv == ~missed => Orderly

(* What the constants are, without the sizes.                              *)
LEMMA Distinct == /\ Null \notin Triggers
                  /\ Nobody \notin Users /\ Handler \notin Users /\ Handler # Nobody
                  /\ Users # {} /\ Types # {}
PROOF BY ConstantsAssumption DEF ConstantsAssumption

(* A live trigger is in the place its home names, a place's trigger lives. *)
LEMMA LivePlace ==
    ASSUME Domains, HomeIsPlace
    PROVE  /\ Live \in SUBSET Triggers
           /\ \A u \in Users, k \in Types : slot[u][k] # Null => slot[u][k] \in Live
           /\ \A t \in Live : \E u \in Users, k \in Types : home[t] = <<u, k>> /\ slot[u][k] = t
PROOF
<1>1. \A u \in Users, k \in Types : slot[u][k] \in Pointers
  BY DEF Domains
<1>2. \A u \in Users, k \in Types : <<u, k>> \in Homes
  BY DEF Homes
<1>3. ASSUME NEW t \in Live
      PROVE  /\ t \in Triggers
             /\ \E u \in Users, k \in Types : home[t] = <<u, k>> /\ slot[u][k] = t
  <2>1. t # Null
    BY DEF Live
  <2>2. PICK h \in Homes : t = slot[h[1]][h[2]]
    BY DEF Live
  <2>3. PICK u \in Users, k \in Types : h = <<u, k>>
    BY DEF Homes
  <2>4. slot[u][k] = t
    BY <2>2, <2>3
  <2>5. home[t] = <<u, k>>
    BY <2>1, <2>4 DEF HomeIsPlace
  <2> QED BY <2>1, <2>4, <2>5, <1>1 DEF Pointers
<1>4. ASSUME NEW u \in Users, NEW k \in Types, slot[u][k] # Null
      PROVE  slot[u][k] \in Live
  <2>1. <<u, k>> \in Homes /\ <<u, k>>[1] = u /\ <<u, k>>[2] = k
    BY <1>2
  <2> QED BY <2>1, <1>4 DEF Live
<1> QED BY <1>3, <1>4

(* addTrigger leaves a ring with one trigger more.                         *)
LEMMA AddedInRing ==
    ASSUME Domains, HomeIsPlace, IsRing(Live, curr, next, prev),
           NEW t \in Triggers \ Live, NEW u \in Users, NEW k \in Types,
           slot[u][k] = Null, PutIn(t, u, k), cTrigger' = cTrigger,
           userBusy' \in [Users -> Users \cup {Nobody, Handler}],
           at' \in [Users -> CommandPlaces], type' = type
    PROVE  /\ Domains' /\ HomeIsPlace' /\ IsRing(Live, curr, next, prev)'
           /\ Live' = Live \cup {t}
           /\ \A x \in Live : home'[x] = home[x]
PROOF
<1> USE Distinct
<1>1. t # Null /\ t \in Pointers /\ <<u, k>> \in Homes
  BY DEF Pointers, Homes
<1>2. Domains'
  <2>1. home' \in [Triggers -> Homes \cup {Null}]
    BY <1>1 DEF PutIn, Domains
  <2>2. slot' \in [Users -> [Types -> Pointers]]
    BY <1>1 DEF PutIn, Domains
  <2>3. /\ curr' \in Pointers
        /\ next' \in [Triggers -> Pointers] /\ prev' \in [Triggers -> Pointers]
    <3>1. CASE curr = Null
      <4>1. curr' = t /\ next' = [next EXCEPT ![t] = t] /\ prev' = [prev EXCEPT ![t] = t]
        BY <3>1 DEF PutIn, LinkAsLast
      <4>2. next \in [Triggers -> Pointers] /\ prev \in [Triggers -> Pointers]
        BY DEF Domains
      <4> QED BY <4>1, <4>2, <1>1
    <3>2. CASE curr # Null
      <4>1. /\ curr \in Pointers /\ prev[curr] \in Pointers
            /\ next \in [Triggers -> Pointers] /\ prev \in [Triggers -> Pointers]
        BY <3>2 DEF Domains, Pointers
      <4>2. /\ curr' = curr
            /\ next' = [next EXCEPT ![t] = curr, ![prev[curr]] = t]
            /\ prev' = [prev EXCEPT ![t] = prev[curr], ![curr] = t]
        BY <3>2 DEF PutIn, LinkAsLast
      <4> QED BY <4>1, <4>2, <1>1
    <3> QED BY <3>1, <3>2
  <2> QED BY <2>1, <2>2, <2>3 DEF Domains
<1>3. \A v \in Users, j \in Types :
        slot'[v][j] = IF v = u /\ j = k THEN t ELSE slot[v][j]
  BY DEF PutIn, Domains
<1>4. \A x \in Triggers : home'[x] = IF x = t THEN <<u, k>> ELSE home[x]
  BY DEF PutIn, Domains
<1>5. HomeIsPlace'
  <2>1. ASSUME NEW v \in Users, NEW j \in Types, slot'[v][j] # Null
        PROVE  home'[slot'[v][j]] = <<v, j>>
    <3>1. CASE v = u /\ j = k
      BY <3>1, <1>3, <1>4
    <3>2. CASE ~(v = u /\ j = k)
      <4>1. slot'[v][j] = slot[v][j] /\ slot[v][j] \in Live /\ slot[v][j] \in Triggers
        BY <3>2, <1>3, <2>1, LivePlace
      <4> QED BY <4>1, <1>4 DEF HomeIsPlace
    <3> QED BY <3>1, <3>2
  <2> QED BY <2>1 DEF HomeIsPlace
<1>6. Live' = Live \cup {t}
  <2>1. ASSUME NEW x \in Live \cup {t} PROVE x \in Live'
    <3>1. PICK v \in Users, j \in Types : slot'[v][j] = x
      <4>1. CASE x = t
        BY <4>1, <1>3
      <4>2. CASE x \in Live
        BY <4>2, <1>3, LivePlace
      <4> QED BY <4>1, <4>2
    <3>2. <<v, j>> \in Homes /\ <<v, j>>[1] = v /\ <<v, j>>[2] = j
      BY DEF Homes
    <3>3. x # Null
      BY LivePlace
    <3> QED BY <3>1, <3>2, <3>3 DEF Live
  <2>2. ASSUME NEW x \in Live' PROVE x \in Live \cup {t}
    <3>1. PICK h \in Homes : x = slot'[h[1]][h[2]] /\ x # Null
      BY DEF Live
    <3>2. PICK v \in Users, j \in Types : h = <<v, j>>
      BY DEF Homes
    <3>3. x = slot'[v][j]
      BY <3>1, <3>2
    <3> QED BY <3>1, <3>3, <1>3, LivePlace
  <2> QED BY <2>1, <2>2
<1>7. IsRing(Live, curr, next, prev)'
  <2>1. CASE curr = Null
    <3>1. Live = {}
      BY <2>1, LivePlace DEF IsRing
    <3>2. Live' = {t} /\ curr' = t /\ next'[t] = t /\ prev'[t] = t
      BY <3>1, <1>6, <2>1 DEF PutIn, LinkAsLast, Domains
    <3>3. \A part \in SUBSET {t} : part # {} => part = {t}
      OBVIOUS
    <3> QED BY <3>2, <3>3 DEF IsRing
  <2>2. CASE curr # Null
    <3>1. curr \in Live
      BY <2>2 DEF IsRing
    <3>2. /\ curr' = curr
          /\ next' = [next EXCEPT ![t] = curr, ![prev[curr]] = t]
          /\ prev' = [prev EXCEPT ![t] = prev[curr], ![curr] = t]
      BY <2>2 DEF PutIn, LinkAsLast
    <3>3. /\ Live \in SUBSET Triggers
          /\ next \in [Triggers -> Pointers] /\ prev \in [Triggers -> Pointers]
      BY LivePlace DEF Domains
    <3>4. IsRing(Live \cup {t}, curr, [next EXCEPT ![t] = curr, ![prev[curr]] = t],
                 [prev EXCEPT ![t] = prev[curr], ![curr] = t])
      BY <3>1, <3>3, Inserted
    <3> QED BY <3>4, <3>2, <1>6
  <2> QED BY <2>1, <2>2
<1>8. \A x \in Live : home'[x] = home[x]
  BY <1>4, LivePlace
<1> QED BY <1>2, <1>5, <1>6, <1>7, <1>8

(* removeTrigger leaves a ring with one trigger less.                      *)
LEMMA TakenFromRing ==
    ASSUME Domains, HomeIsPlace, IsRing(Live, curr, next, prev),
           NEW t \in Live, TakeOut(t), cTrigger' = cTrigger,
           userBusy' \in [Users -> Users \cup {Nobody, Handler}],
           at' \in [Users -> CommandPlaces], type' = type
    PROVE  /\ Domains' /\ HomeIsPlace' /\ IsRing(Live, curr, next, prev)'
           /\ Live' = Live \ {t}
           /\ home' = home
PROOF
<1> USE Distinct
<1>1. PICK u \in Users, k \in Types : home[t] = <<u, k>> /\ slot[u][k] = t
  BY LivePlace
<1>2. t \in Triggers /\ t # Null /\ next[t] \in Live /\ prev[t] \in Live /\ Live \in SUBSET Triggers
  BY LivePlace DEF IsRing
<1>3. slot' = [slot EXCEPT ![u][k] = Null] /\ home' = home
  BY <1>1 DEF TakeOut
<1>4. \A v \in Users, j \in Types :
        slot'[v][j] = IF v = u /\ j = k THEN Null ELSE slot[v][j]
  BY <1>3 DEF Domains
<1>5. Domains'
  <2>1. slot' \in [Users -> [Types -> Pointers]]
    BY <1>3 DEF Domains, Pointers
  <2>2. next[t] \in Triggers /\ prev[t] \in Triggers
    BY <1>2
  <2>3. /\ curr' \in Pointers
        /\ next' \in [Triggers -> Pointers] /\ prev' \in [Triggers -> Pointers]
    BY <2>2, <1>2 DEF TakeOut, UnlinkTrigger, Domains, Pointers
  <2> QED BY <2>1, <2>3, <1>3 DEF Domains
<1>6. HomeIsPlace'
  <2>1. ASSUME NEW v \in Users, NEW j \in Types, slot'[v][j] # Null
        PROVE  home'[slot'[v][j]] = <<v, j>>
    <3>1. slot'[v][j] = slot[v][j]
      BY <2>1, <1>4
    <3> QED BY <3>1, <2>1, <1>3 DEF HomeIsPlace
  <2> QED BY <2>1 DEF HomeIsPlace
<1>7. Live' = Live \ {t}
  <2>1. ASSUME NEW x \in Live, x # t PROVE x \in Live'
    <3>1. PICK v \in Users, j \in Types : slot[v][j] = x
      BY LivePlace
    <3>2. slot'[v][j] = x /\ x # Null
      BY <3>1, <2>1, <1>1, <1>4, LivePlace
    <3>3. <<v, j>> \in Homes /\ <<v, j>>[1] = v /\ <<v, j>>[2] = j
      BY DEF Homes
    <3> QED BY <3>2, <3>3 DEF Live
  <2>2. ASSUME NEW x \in Live' PROVE x \in Live /\ x # t
    <3>1. PICK h \in Homes : x = slot'[h[1]][h[2]] /\ x # Null
      BY DEF Live
    <3>2. PICK v \in Users, j \in Types : h = <<v, j>>
      BY DEF Homes
    <3>3. x = slot'[v][j] /\ ~(v = u /\ j = k) /\ slot[v][j] = x
      BY <3>1, <3>2, <1>4
    <3>4. x \in Live /\ home[x] = <<v, j>>
      BY <3>3, <3>1, LivePlace DEF HomeIsPlace
    <3> QED BY <3>3, <3>4, <1>1
  <2> QED BY <2>1, <2>2
<1>8. IsRing(Live, curr, next, prev)'
  <2>1. CASE next[t] = t
    <3>1. {t} \in SUBSET Live /\ {t} # {} /\ \A x \in {t} : next[x] \in {t}
      BY <2>1
    <3>2. {t} = Live
      BY <3>1 DEF IsRing
    <3>3. Live' = {} /\ curr' = Null
      BY <3>2, <1>7, <2>1 DEF TakeOut, UnlinkTrigger
    <3> QED BY <3>3 DEF IsRing
  <2>2. CASE next[t] # t
    <3>1. /\ curr' = IF curr = t THEN next[t] ELSE curr
          /\ next' = [next EXCEPT ![prev[t]] = next[t]]
          /\ prev' = [prev EXCEPT ![next[t]] = prev[t]]
      BY <2>2 DEF TakeOut, UnlinkTrigger
    <3>2. /\ curr \in Live
          /\ next \in [Triggers -> Pointers] /\ prev \in [Triggers -> Pointers]
      BY DEF IsRing, Domains
    <3>3. IsRing(Live \ {t}, IF curr = t THEN next[t] ELSE curr,
                 [next EXCEPT ![prev[t]] = next[t]], [prev EXCEPT ![next[t]] = prev[t]])
      BY <3>2, <1>2, <2>2, Removed
    <3> QED BY <3>3, <3>1, <1>7
  <2> QED BY <2>1, <2>2
<1> QED BY <1>3, <1>5, <1>6, <1>7, <1>8
-----------------------------------------------------------------------------
(* The invariant holds at first, and every step keeps it.                  *)

(* Nothing but curr can differ, and that is in the ring: a ring still.     *)
LEMMA RingStays ==
    ASSUME HomeIsPlace, IsRing(Live, curr, next, prev),
           UNCHANGED <<next, prev, home, slot>>,
           curr' = curr \/ curr' \in Live
    PROVE  /\ HomeIsPlace' /\ IsRing(Live, curr, next, prev)'
           /\ Live' = Live /\ home' = home
PROOF
<1>1. Live' = Live /\ home' = home
  BY DEF Live
<1>2. HomeIsPlace'
  BY DEF HomeIsPlace
<1>3. IsRing(Live, curr, next, prev)'
  BY <1>1 DEF IsRing
<1> QED BY <1>1, <1>2, <1>3

LEMMA InvInit == Init => Inv
PROOF
<1> SUFFICES ASSUME Init PROVE Orderly
  BY DEF Inv
<1> USE Distinct DEF Init
<1>1. (CHOOSE k \in Types : TRUE) \in Types
  OBVIOUS
<1>2. Domains
  BY <1>1 DEF Domains, Pointers, CommandPlaces
<1>3. \A u \in Users, k \in Types : slot[u][k] = Null
  OBVIOUS
<1>4. Live = {}
  BY <1>3 DEF Live, Homes
<1>5. IsRing(Live, curr, next, prev)
  BY <1>4 DEF IsRing
<1>6. StockLocked /\ OwnerLocked /\ AtLive /\ HomeIsPlace
  BY <1>3 DEF StockLocked, OwnerLocked, AtLive, HomeIsPlace
<1> QED BY <1>2, <1>5, <1>6 DEF Orderly

(* The steps of command threads.                                           *)
LEMMA BeginKeeps ==
    ASSUME Orderly, NEW u \in Users, (\E k \in Types : Begin(u, k)) \/ BeginOther(u)
    PROVE  Orderly'
PROOF
<1> USE Distinct DEF Orderly
<1>1. /\ userBusy[u] = Nobody /\ userBusy' = [userBusy EXCEPT ![u] = u]
      /\ at[u] = "idle"
      /\ at' \in [Users -> CommandPlaces]
      /\ at' = [at EXCEPT ![u] = "stock"] \/ at' = [at EXCEPT ![u] = "out"]
      /\ type' \in [Users -> Types]
      /\ UNCHANGED <<ringVars, stockBusy, handlerVars>>
  <2>1. /\ userBusy[u] = Nobody /\ userBusy' = [userBusy EXCEPT ![u] = u]
        /\ at[u] = "idle"
        /\ at' = [at EXCEPT ![u] = "stock"] \/ at' = [at EXCEPT ![u] = "out"]
        /\ type' = type \/ \E k \in Types : type' = [type EXCEPT ![u] = k]
        /\ UNCHANGED <<ringVars, stockBusy, handlerVars>>
    BY DEF Begin, BeginOther, Goes, TakeUser
  <2>2. at' \in [Users -> CommandPlaces]
    BY <2>1 DEF Domains, CommandPlaces
  <2>3. type' \in [Users -> Types]
    BY <2>1 DEF Domains
  <2> QED BY <2>1, <2>2, <2>3
<1>2. HomeIsPlace' /\ IsRing(Live, curr, next, prev)' /\ Live' = Live /\ home' = home
  BY <1>1, RingStays DEF ringVars
<1>3. Domains'
  BY <1>1 DEF Domains, ringVars, handlerVars
<1>4. \A v \in Users : at'[v] = "in" => at[v] = "in"
  BY <1>1 DEF Domains
<1>5. StockLocked'
  BY <1>1, <1>4 DEF StockLocked, handlerVars
<1>6. \A v \in Users : userBusy'[v] = IF v = u THEN u ELSE userBusy[v]
  BY <1>1 DEF Domains
<1>7. \A v \in Users : v # u => at'[v] = at[v]
  BY <1>1 DEF Domains
<1>8. OwnerLocked'
  <2>1. ASSUME NEW v \in Users, at'[v] # "idle" PROVE userBusy'[v] = v
    BY <2>1, <1>6, <1>7 DEF OwnerLocked
  <2>2. ASSUME pc' \in {"act", "remove"} PROVE userBusy'[Owner(cTrigger)'] = Handler
    <3>1. pc = pc' /\ cTrigger' = cTrigger /\ Owner(cTrigger)' = Owner(cTrigger)
      BY <1>1 DEF handlerVars, ringVars, Owner
    <3>2. cTrigger \in Live /\ userBusy[Owner(cTrigger)] = Handler
      BY <3>1, <2>2 DEF AtLive, OwnerLocked
    <3>3. Owner(cTrigger) \in Users
      BY <3>2, LivePlace DEF Owner
    <3> QED BY <3>1, <3>2, <3>3, <1>1, <1>6
  <2> QED BY <2>1, <2>2 DEF OwnerLocked
<1>9. AtLive'
  BY <1>1, <1>2 DEF AtLive, handlerVars
<1> QED BY <1>2, <1>3, <1>5, <1>8, <1>9

LEMMA LockStockKeeps ==
    ASSUME Orderly, NEW u \in Users, LockStock(u)
    PROVE  Orderly'
PROOF
<1> USE Distinct DEF Orderly
<1>1. /\ at[u] = "stock" /\ at' = [at EXCEPT ![u] = "in"]
      /\ stockBusy = Nobody /\ stockBusy' = u
      /\ UNCHANGED <<ringVars, userBusy, type, handlerVars>>
  BY DEF LockStock, Goes
<1>2. HomeIsPlace' /\ IsRing(Live, curr, next, prev)' /\ Live' = Live /\ home' = home
  BY <1>1, RingStays DEF ringVars
<1>3. Domains'
  BY <1>1 DEF Domains, ringVars, handlerVars, CommandPlaces
<1>4. \A v \in Users : at'[v] = IF v = u THEN "in" ELSE at[v]
  BY <1>1 DEF Domains
<1>5. StockLocked'
  BY <1>1, <1>4 DEF StockLocked, handlerVars
<1>6. OwnerLocked'
  BY <1>1, <1>4 DEF OwnerLocked, Owner, handlerVars, ringVars
<1>7. AtLive'
  BY <1>1, <1>2 DEF AtLive, handlerVars
<1> QED BY <1>2, <1>3, <1>5, <1>6, <1>7

(* A command thread in the ring has the stock's lock, so that the trigger  *)
(* thread is executing, and what it executes is another user's.            *)
LEMMA InTheRing ==
    ASSUME Orderly, NEW u \in Users, at[u] = "in"
    PROVE  /\ stockBusy = u
           /\ pc \notin {"price", "look", "step", "try", "test", "leave"}
           /\ pc \in {"act", "remove"} => cTrigger \in Live /\ Owner(cTrigger) # u
PROOF BY Distinct DEF Orderly, StockLocked, OwnerLocked, AtLive

LEMMA AddKeeps ==
    ASSUME Orderly, NEW u \in Users, Add(u)
    PROVE  Orderly'
PROOF
<1> USE Distinct DEF Orderly
<1>1. /\ at[u] = "in" /\ at' = [at EXCEPT ![u] = "out"]
      /\ stockBusy' = Nobody
      /\ UNCHANGED <<userBusy, type, handlerVars>>
  BY DEF Add, Goes
<1>2. PICK t \in Triggers \ Live : PutIn(t, u, type[u])
  BY DEF Add
<1>3. type[u] \in Types /\ slot[u][type[u]] = Null
      /\ at' \in [Users -> CommandPlaces] /\ cTrigger' = cTrigger
      /\ userBusy' \in [Users -> Users \cup {Nobody, Handler}] /\ type' = type
  BY <1>1 DEF Add, Domains, CommandPlaces, handlerVars
<1>4. /\ Domains' /\ HomeIsPlace' /\ IsRing(Live, curr, next, prev)'
      /\ Live' = Live \cup {t}
      /\ \A x \in Live : home'[x] = home[x]
  BY <1>2, <1>3, AddedInRing
<1>5. \A v \in Users : at'[v] = IF v = u THEN "out" ELSE at[v]
  BY <1>1 DEF Domains
<1>6. \A v \in Users : at[v] = "in" => v = u
  BY <1>1 DEF StockLocked
<1>7. pc' = pc /\ pc \notin {"price", "look", "step", "try", "test", "leave"}
      /\ (pc \in {"act", "remove"} => cTrigger \in Live)
  BY <1>1, InTheRing DEF handlerVars
<1>8. StockLocked'
  BY <1>5, <1>6, <1>7 DEF StockLocked
<1>9. OwnerLocked'
  <2>1. \A v \in Users : at'[v] # "idle" => userBusy'[v] = v
    BY <1>1, <1>5 DEF OwnerLocked
  <2>2. pc' \in {"act", "remove"} => userBusy'[Owner(cTrigger)'] = Handler
    BY <1>1, <1>3, <1>4, <1>7 DEF OwnerLocked, Owner
  <2> QED BY <2>1, <2>2 DEF OwnerLocked
<1>10. AtLive'
  BY <1>3, <1>4, <1>7 DEF AtLive
<1> QED BY <1>4, <1>8, <1>9, <1>10

LEMMA CancelKeeps ==
    ASSUME Orderly, NEW u \in Users, Cancel(u)
    PROVE  Orderly'
PROOF
<1> USE Distinct DEF Orderly
<1>1. /\ at[u] = "in" /\ at' = [at EXCEPT ![u] = "out"]
      /\ stockBusy' = Nobody
      /\ UNCHANGED <<userBusy, type, handlerVars>>
  BY DEF Cancel, Goes
<1> DEFINE t == slot[u][type[u]]
<1>2. t \in Live /\ TakeOut(t) /\ type[u] \in Types /\ Owner(t) = u
  BY LivePlace DEF Cancel, Domains, HomeIsPlace, Owner
<1> HIDE DEF t
<1>3. /\ at' \in [Users -> CommandPlaces] /\ cTrigger' = cTrigger
      /\ userBusy' \in [Users -> Users \cup {Nobody, Handler}] /\ type' = type
  BY <1>1 DEF Domains, CommandPlaces, handlerVars
<1>4. /\ Domains' /\ HomeIsPlace' /\ IsRing(Live, curr, next, prev)'
      /\ Live' = Live \ {t} /\ home' = home
  BY <1>2, <1>3, TakenFromRing
<1>5. \A v \in Users : at'[v] = IF v = u THEN "out" ELSE at[v]
  BY <1>1 DEF Domains
<1>6. \A v \in Users : at[v] = "in" => v = u
  BY <1>1 DEF StockLocked
<1>7. pc' = pc /\ pc \notin {"price", "look", "step", "try", "test", "leave"}
      /\ (pc \in {"act", "remove"} => cTrigger \in Live /\ cTrigger # t)
  BY <1>1, <1>2, InTheRing DEF handlerVars
<1>8. StockLocked'
  BY <1>5, <1>6, <1>7 DEF StockLocked
<1>9. OwnerLocked'
  <2>1. \A v \in Users : at'[v] # "idle" => userBusy'[v] = v
    BY <1>1, <1>5 DEF OwnerLocked
  <2>2. pc' \in {"act", "remove"} => userBusy'[Owner(cTrigger)'] = Handler
    BY <1>1, <1>3, <1>4, <1>7 DEF OwnerLocked, Owner
  <2> QED BY <2>1, <2>2 DEF OwnerLocked
<1>10. AtLive'
  BY <1>3, <1>4, <1>7 DEF AtLive
<1> QED BY <1>4, <1>8, <1>9, <1>10

LEMMA EndKeeps ==
    ASSUME Orderly, NEW u \in Users, End(u)
    PROVE  Orderly'
PROOF
<1> USE Distinct DEF Orderly
<1>1. /\ at[u] = "out" /\ at' = [at EXCEPT ![u] = "idle"]
      /\ userBusy' = [userBusy EXCEPT ![u] = Nobody]
      /\ UNCHANGED <<ringVars, stockBusy, type, handlerVars>>
  BY DEF End, Goes
<1>2. HomeIsPlace' /\ IsRing(Live, curr, next, prev)' /\ Live' = Live /\ home' = home
  BY <1>1, RingStays DEF ringVars
<1>3. Domains'
  BY <1>1 DEF Domains, ringVars, handlerVars, CommandPlaces
<1>4. \A v \in Users : at'[v] = IF v = u THEN "idle" ELSE at[v]
  BY <1>1 DEF Domains
<1>5. \A v \in Users : v # u => userBusy'[v] = userBusy[v]
  BY <1>1 DEF Domains
<1>6. StockLocked'
  BY <1>1, <1>4 DEF StockLocked, handlerVars
<1>7. OwnerLocked'
  <2>1. \A v \in Users : at'[v] # "idle" => userBusy'[v] = v
    BY <1>4, <1>5 DEF OwnerLocked
  <2>2. ASSUME pc' \in {"act", "remove"} PROVE userBusy'[Owner(cTrigger)'] = Handler
    <3>1. pc = pc' /\ cTrigger' = cTrigger /\ Owner(cTrigger)' = Owner(cTrigger)
      BY <1>1 DEF handlerVars, ringVars, Owner
    <3>2. cTrigger \in Live /\ userBusy[Owner(cTrigger)] = Handler
      BY <3>1, <2>2 DEF AtLive, OwnerLocked
    <3>3. Owner(cTrigger) \in Users /\ Owner(cTrigger) # u
      BY <3>2, <1>1, LivePlace DEF Owner, OwnerLocked
    <3> QED BY <3>1, <3>2, <3>3, <1>5
  <2> QED BY <2>1, <2>2 DEF OwnerLocked
<1>8. AtLive'
  BY <1>1, <1>2 DEF AtLive, handlerVars
<1> QED BY <1>2, <1>3, <1>6, <1>7, <1>8

(* The steps of the trigger thread.                                        *)

(* Steps that change none but the stock's lock and the thread's place.     *)
LEMMA QuietKeeps ==
    ASSUME Orderly, Start \/ Priced \/ NotPriced \/ Test \/ Leave
    PROVE  Orderly'
PROOF
<1> USE Distinct DEF Orderly
<1>1. UNCHANGED <<ringVars, userBusy, commandVars, cTrigger>>
  BY DEF Start, Priced, NotPriced, Test, Leave
<1>2. HomeIsPlace' /\ IsRing(Live, curr, next, prev)' /\ Live' = Live /\ home' = home
  BY <1>1, RingStays DEF ringVars
<1>3. Domains'
  BY <1>1 DEF Domains, ringVars, commandVars
<1>4. pc' \notin {"step", "try", "act", "remove"}
  BY DEF Start, Priced, NotPriced, Test, Leave, Moves
<1>5. StockLocked'
  <2>1. CASE Start
    BY <2>1, <1>1 DEF Start, StockLocked, commandVars, Moves
  <2>2. CASE Priced \/ Test
    BY <2>2, <1>1 DEF Priced, Test, StockLocked, commandVars, Moves
  <2>3. CASE NotPriced \/ Leave
    BY <2>3, <1>1 DEF NotPriced, Leave, StockLocked, commandVars, Moves
  <2> QED BY <2>1, <2>2, <2>3
<1>6. OwnerLocked'
  BY <1>1, <1>4 DEF OwnerLocked, commandVars
<1>7. AtLive'
  BY <1>4 DEF AtLive
<1> QED BY <1>2, <1>3, <1>5, <1>6, <1>7

LEMMA LookKeeps ==
    ASSUME Orderly, Look
    PROVE  Orderly'
PROOF
<1> USE Distinct DEF Orderly
<1>1. /\ UNCHANGED <<ringVars, stockBusy, userBusy, commandVars>>
      /\ pc = "look" /\ pc' = (IF curr = Null THEN "dead" ELSE "step")
      /\ cTrigger' = curr
  BY DEF Look
<1>2. HomeIsPlace' /\ IsRing(Live, curr, next, prev)' /\ Live' = Live /\ home' = home
  BY <1>1, RingStays DEF ringVars
<1>3. Domains'
  BY <1>1 DEF Domains, ringVars, commandVars
<1>4. curr # Null => curr \in Live
  BY DEF IsRing
<1>5. StockLocked' /\ OwnerLocked'
  BY <1>1 DEF StockLocked, OwnerLocked, commandVars
<1>6. AtLive'
  BY <1>1, <1>2, <1>4 DEF AtLive
<1> QED BY <1>2, <1>3, <1>5, <1>6

LEMMA StepKeeps ==
    ASSUME Orderly, Step
    PROVE  Orderly'
PROOF
<1> USE Distinct DEF Orderly
<1>1. /\ UNCHANGED <<next, prev, home, slot, stockBusy, userBusy, commandVars, cTrigger>>
      /\ pc = "step" /\ pc' = "try" /\ curr' = next[cTrigger]
  BY DEF Step, Moves
<1>2. cTrigger \in Live
  BY <1>1 DEF AtLive
<1>3. curr' \in Live /\ curr' \in Pointers
  BY <1>1, <1>2, LivePlace DEF IsRing, Pointers
<1>4. HomeIsPlace' /\ IsRing(Live, curr, next, prev)' /\ Live' = Live /\ home' = home
  BY <1>1, <1>3, RingStays
<1>5. Domains'
  BY <1>1, <1>3 DEF Domains, commandVars
<1>6. StockLocked' /\ OwnerLocked' /\ AtLive'
  BY <1>1, <1>2, <1>4 DEF StockLocked, OwnerLocked, AtLive, commandVars
<1> QED BY <1>4, <1>5, <1>6

LEMMA TryKeeps ==
    ASSUME Orderly, Try
    PROVE  Orderly'
PROOF
<1> USE Distinct DEF Orderly
<1>1. /\ UNCHANGED <<ringVars, commandVars, cTrigger>>
      /\ pc = "try" /\ pc' = "act" /\ stockBusy' = Nobody
      /\ userBusy[Owner(cTrigger)] = Nobody
      /\ userBusy' = [userBusy EXCEPT ![Owner(cTrigger)] = Handler]
  BY DEF Try, Moves, TakeUser
<1>2. cTrigger \in Live /\ stockBusy = Handler
  BY <1>1 DEF AtLive, StockLocked
<1>3. Owner(cTrigger) \in Users /\ Owner(cTrigger)' = Owner(cTrigger)
  BY <1>1, <1>2, LivePlace DEF Owner, ringVars
<1>4. HomeIsPlace' /\ IsRing(Live, curr, next, prev)' /\ Live' = Live /\ home' = home
  BY <1>1, RingStays DEF ringVars
<1>5. Domains'
  BY <1>1, <1>3 DEF Domains, ringVars, commandVars
<1>6. StockLocked'
  BY <1>1, <1>2 DEF StockLocked, commandVars
<1>7. \A v \in Users : userBusy'[v] = IF v = Owner(cTrigger) THEN Handler ELSE userBusy[v]
  BY <1>1 DEF Domains
<1>8. OwnerLocked'
  <2>1. ASSUME NEW v \in Users, at'[v] # "idle" PROVE userBusy'[v] = v
    BY <2>1, <1>1, <1>7 DEF OwnerLocked, commandVars
  <2>2. userBusy'[Owner(cTrigger)'] = Handler
    BY <1>3, <1>7
  <2> QED BY <2>1, <2>2 DEF OwnerLocked
<1>9. AtLive'
  BY <1>1, <1>2, <1>4 DEF AtLive
<1> QED BY <1>4, <1>5, <1>6, <1>8, <1>9

LEMMA RelockKeeps ==
    ASSUME Orderly, NEW from, Relock(from)
    PROVE  Orderly'
PROOF
<1> USE Distinct DEF Orderly
<1>1. PICK u \in Users : /\ userBusy[u] = Handler
                         /\ userBusy' = [userBusy EXCEPT ![u] = Nobody]
  BY DEF Relock
<1>2. /\ UNCHANGED <<ringVars, commandVars, cTrigger>>
      /\ pc' = "test" /\ stockBusy = Nobody /\ stockBusy' = Handler
  BY DEF Relock, Moves
<1>3. HomeIsPlace' /\ IsRing(Live, curr, next, prev)' /\ Live' = Live /\ home' = home
  BY <1>2, RingStays DEF ringVars
<1>4. Domains'
  BY <1>1, <1>2 DEF Domains, ringVars, commandVars
<1>5. StockLocked'
  BY <1>2 DEF StockLocked, commandVars
<1>6. OwnerLocked'
  <2>1. ASSUME NEW v \in Users, at'[v] # "idle" PROVE userBusy'[v] = v
    <3>1. userBusy[v] = v /\ v # u
      BY <2>1, <1>1, <1>2 DEF OwnerLocked, commandVars
    <3> QED BY <3>1, <1>1 DEF Domains
  <2> QED BY <2>1, <1>2 DEF OwnerLocked
<1>7. AtLive'
  BY <1>2 DEF AtLive
<1> QED BY <1>3, <1>4, <1>5, <1>6, <1>7

LEMMA FireKeeps ==
    ASSUME Orderly, Fire
    PROVE  Orderly'
PROOF
<1> USE Distinct DEF Orderly
<1>1. /\ UNCHANGED <<ringVars, stockBusy, userBusy, commandVars, cTrigger>>
      /\ pc = "act" /\ pc' = "remove"
  BY DEF Fire, Moves
<1>2. HomeIsPlace' /\ IsRing(Live, curr, next, prev)' /\ Live' = Live /\ home' = home
  BY <1>1, RingStays DEF ringVars
<1>3. Domains'
  BY <1>1 DEF Domains, ringVars, commandVars
<1>4. StockLocked' /\ AtLive'
  BY <1>1, <1>2 DEF StockLocked, AtLive, commandVars
<1>5. OwnerLocked'
  BY <1>1 DEF OwnerLocked, Owner, ringVars, commandVars
<1> QED BY <1>2, <1>3, <1>4, <1>5

LEMMA RemoveKeeps ==
    ASSUME Orderly, Remove
    PROVE  Orderly'
PROOF
<1> USE Distinct DEF Orderly
<1>1. /\ pc = "remove" /\ pc' = "wait" /\ TakeOut(cTrigger)
      /\ UNCHANGED <<stockBusy, userBusy, commandVars, cTrigger>>
  BY DEF Remove, Moves
<1>2. cTrigger \in Live
  BY <1>1 DEF AtLive
<1>3. /\ at' \in [Users -> CommandPlaces] /\ type' = type
      /\ userBusy' \in [Users -> Users \cup {Nobody, Handler}] /\ cTrigger' = cTrigger
  BY <1>1 DEF Domains, commandVars
<1>4. Domains' /\ HomeIsPlace' /\ IsRing(Live, curr, next, prev)'
  BY <1>1, <1>2, <1>3, TakenFromRing
<1>5. StockLocked' /\ OwnerLocked' /\ AtLive'
  BY <1>1 DEF StockLocked, OwnerLocked, AtLive, commandVars
<1> QED BY <1>4, <1>5

LEMMA StutterKeeps ==
    ASSUME Orderly, UNCHANGED vars
    PROVE  Orderly'
PROOF
<1> USE DEF Orderly, vars, ringVars, commandVars, handlerVars
<1>1. HomeIsPlace' /\ IsRing(Live, curr, next, prev)' /\ Live' = Live /\ home' = home
  BY RingStays
<1>2. Domains'
  BY DEF Domains
<1>3. StockLocked' /\ AtLive'
  BY <1>1 DEF StockLocked, AtLive
<1>4. OwnerLocked'
  BY <1>1 DEF OwnerLocked, Owner
<1> QED BY <1>1, <1>2, <1>3, <1>4

(* A thread that misses a lock has missed one for good.                    *)
LEMMA InvNext == Inv /\ [Next]_vars => Inv'
PROOF
<1> SUFFICES ASSUME Inv, [Next]_vars, ~missed' PROVE Orderly'
  BY DEF Inv
<1>1. CASE UNCHANGED vars
  <2>1. Orderly
    BY <1>1 DEF Inv, vars, handlerVars
  <2> QED BY <2>1, <1>1, StutterKeeps
<1>2. ASSUME NEW u \in Users,
             (\E k \in Types : Begin(u, k)) \/ BeginOther(u) \/ CommandStep(u)
      PROVE  Orderly'
  <2>1. Orderly
    BY <1>2 DEF Inv, handlerVars, Begin, BeginOther, CommandStep, LockStock, Add, Cancel, End
  <2> QED BY <2>1, <1>2, BeginKeeps, LockStockKeeps, AddKeeps, CancelKeeps, EndKeeps
          DEF CommandStep
<1>3. ASSUME Start \/ HandlerStep PROVE Orderly'
  <2>1. ~Miss
    BY DEF Miss
  <2>2. Orderly
    BY <1>3, <2>1 DEF Inv, HandlerStep, Start, Priced, NotPriced, Look, Step, Try, Pass,
                      Fire, Remove, DbDone, Relock, Test, Leave
  <2>3. Relock("act") \/ Relock("wait") => Orderly'
    BY <2>2, RelockKeeps
  <2> QED BY <2>1, <2>2, <2>3, <1>3, QuietKeeps, LookKeeps, StepKeeps, TryKeeps, FireKeeps,
             RemoveKeeps DEF HandlerStep, Pass, DbDone
<1> QED BY <1>1, <1>2, <1>3 DEF Next
-----------------------------------------------------------------------------
(* The theorems.                                                           *)

(* Until the trigger thread misses a lock, addTrigger, removeTrigger and   *)
(* the walk keep the ring one circle of the triggers in the users' trees.  *)
THEOREM RingStaysWhole == Spec => []RingIsWhole
PROOF
<1>1. Inv => RingIsWhole
  BY DEF Inv, Orderly, IsRing, RingIsWhole, Whole, Linked, OneCircle
<1> QED BY <1>1, InvInit, InvNext, PTL DEF Spec

(* Until then, what is executed with the stock unlocked is in its owner's  *)
(* tree: the owner's lock keeps removeTrigger away from it.                *)
THEOREM ExecutedLives == Spec => []ExecutesLive
PROOF
<1>1. Inv => ExecutesLive
  BY DEF Inv, Orderly, AtLive, ExecutesLive
<1> QED BY <1>1, InvInit, InvNext, PTL DEF Spec
-----------------------------------------------------------------------------
(* After a miss, too, every pointer leads to a trigger or nowhere, and the *)
(* trigger thread reads no trigger through a null pointer, except at the   *)
(* beginning of the loop (line 1737).                                      *)

Typed == TypeOK /\ userBusy \in [Users -> Users \cup {Nobody, Handler}]

(* addTrigger and removeTrigger write pointers only, wherever they write.  *)
LEMMA LinksAreTyped ==
    ASSUME Typed, NEW t \in Triggers,
           \/ \E u \in Users, k \in Types : PutIn(t, u, k)
           \/ TakeOut(t)
    PROVE  /\ curr' \in Pointers
           /\ next' \in [Triggers -> Pointers] /\ prev' \in [Triggers -> Pointers]
           /\ home' \in [Triggers -> Homes \cup {Null}]
           /\ slot' \in [Users -> [Types -> Pointers]]
PROOF
<1>1. /\ curr \in Pointers /\ t \in Pointers /\ Null \in Pointers
      /\ next \in [Triggers -> Pointers] /\ prev \in [Triggers -> Pointers]
      /\ home \in [Triggers -> Homes \cup {Null}]
      /\ slot \in [Users -> [Types -> Pointers]]
  BY DEF Typed, TypeOK, Pointers
<1>2. ASSUME NEW u \in Users, NEW k \in Types, PutIn(t, u, k)
      PROVE  /\ curr' \in Pointers
             /\ next' \in [Triggers -> Pointers] /\ prev' \in [Triggers -> Pointers]
             /\ home' \in [Triggers -> Homes \cup {Null}]
             /\ slot' \in [Users -> [Types -> Pointers]]
  <2>1. <<u, k>> \in Homes
    BY DEF Homes
  <2>2. home' \in [Triggers -> Homes \cup {Null}] /\ slot' \in [Users -> [Types -> Pointers]]
    BY <1>1, <1>2, <2>1 DEF PutIn
  <2>3. /\ curr' \in Pointers
        /\ next' \in [Triggers -> Pointers] /\ prev' \in [Triggers -> Pointers]
    <3>1. CASE curr = Null
      BY <3>1, <1>1, <1>2 DEF PutIn, LinkAsLast
    <3>2. CASE curr # Null
      <4>1. curr \in Triggers
        BY <3>2, <1>1 DEF Pointers
      <4>2. prev[curr] \in Pointers
        BY <4>1, <1>1
      <4> QED BY <4>1, <4>2, <3>2, <1>1, <1>2 DEF PutIn, LinkAsLast
    <3> QED BY <3>1, <3>2
  <2> QED BY <2>2, <2>3
<1>3. ASSUME TakeOut(t)
      PROVE  /\ curr' \in Pointers
             /\ next' \in [Triggers -> Pointers] /\ prev' \in [Triggers -> Pointers]
             /\ home' \in [Triggers -> Homes \cup {Null}]
             /\ slot' \in [Users -> [Types -> Pointers]]
  <2>1. next[t] \in Pointers /\ prev[t] \in Pointers
    BY <1>1
  <2>2. curr' \in Pointers /\ next' \in [Triggers -> Pointers] /\ prev' \in [Triggers -> Pointers]
    BY <2>1, <1>1, <1>3 DEF TakeOut, UnlinkTrigger
  <2>3. slot' \in [Users -> [Types -> Pointers]]
    <3> DEFINE u == home[t][1]
               k == home[t][2]
    <3>1. slot' = [slot EXCEPT ![u][k] = Null]
      BY <1>3 DEF TakeOut
    <3> HIDE DEF u, k
    <3> QED BY <3>1, <1>1
  <2> QED BY <2>2, <2>3, <1>1, <1>3 DEF TakeOut
<1> QED BY <1>2, <1>3

LEMMA TypedCommand ==
    ASSUME Typed, NEW u \in Users,
           (\E k \in Types : Begin(u, k)) \/ BeginOther(u) \/ CommandStep(u)
    PROVE  Typed'
PROOF
<1> USE DEF Typed, ringVars, commandVars, handlerVars, Goes, TakeUser
<1>1. CASE (\E k \in Types : Begin(u, k)) \/ BeginOther(u)
  <2>1. /\ at' \in [Users -> CommandPlaces]
        /\ type' \in [Users -> Types]
    <3>1. at' = [at EXCEPT ![u] = "stock"] \/ at' = [at EXCEPT ![u] = "out"]
      BY <1>1 DEF Begin, BeginOther
    <3>2. type' = type \/ \E k \in Types : type' = [type EXCEPT ![u] = k]
      BY <1>1 DEF Begin, BeginOther
    <3>3. at' \in [Users -> CommandPlaces]
      BY <3>1 DEF TypeOK, CommandPlaces
    <3>4. type' \in [Users -> Types]
      BY <3>2 DEF TypeOK
    <3> QED BY <3>3, <3>4
  <2>2. /\ userBusy' \in [Users -> Users \cup {Nobody, Handler}]
        /\ \A v \in Users : userBusy'[v] \in {Nobody, Handler, v}
    BY <1>1 DEF Begin, BeginOther, TypeOK
  <2>3. UNCHANGED <<ringVars, stockBusy, handlerVars>>
    BY <1>1 DEF Begin, BeginOther
  <2> QED BY <2>1, <2>2, <2>3 DEF TypeOK
<1>2. CASE LockStock(u) \/ End(u)
  BY <1>2 DEF LockStock, End, TypeOK, CommandPlaces
<1>3. CASE Add(u) \/ Cancel(u)
  <2>1. type[u] \in Types /\ slot[u][type[u]] \in Pointers
    BY DEF TypeOK
  <2>2. \E t \in Triggers : (\E k \in Types : PutIn(t, u, k)) \/ TakeOut(t)
    <3>1. CASE Add(u)
      BY <3>1, <2>1 DEF Add
    <3>2. CASE Cancel(u)
      BY <3>2, <2>1 DEF Cancel, Pointers
    <3> QED BY <3>1, <3>2, <1>3
  <2>3. /\ curr' \in Pointers
        /\ next' \in [Triggers -> Pointers] /\ prev' \in [Triggers -> Pointers]
        /\ home' \in [Triggers -> Homes \cup {Null}]
        /\ slot' \in [Users -> [Types -> Pointers]]
    BY <2>2, LinksAreTyped
  <2>4. /\ at' \in [Users -> CommandPlaces] /\ stockBusy' = Nobody
        /\ UNCHANGED <<userBusy, type, handlerVars>>
    BY <1>3 DEF Add, Cancel, TypeOK, CommandPlaces
  <2> QED BY <2>3, <2>4 DEF TypeOK
<1> QED BY <1>1, <1>2, <1>3 DEF CommandStep

LEMMA TypedHandler ==
    ASSUME Typed, Start \/ HandlerStep
    PROVE  Typed'
PROOF
<1> USE DEF Typed, ringVars, commandVars, handlerVars, Moves, TakeUser, HandlerPlaces
<1>1. CASE Start \/ Priced \/ NotPriced \/ Test \/ Leave \/ Miss
  BY <1>1 DEF Start, Priced, NotPriced, Test, Leave, Miss, TypeOK
<1>2. CASE Look
  BY <1>2 DEF Look, TypeOK
<1>3. CASE Step
  <2>1. cTrigger \in Triggers
    BY <1>3 DEF Step, TypeOK, Pointers
  <2> QED BY <2>1, <1>3 DEF Step, TypeOK
<1>4. CASE Try
  <2>1. PICK o : userBusy' = [userBusy EXCEPT ![o] = Handler]
    BY <1>4 DEF Try
  <2>2. /\ userBusy' \in [Users -> Users \cup {Nobody, Handler}]
        /\ \A u \in Users : userBusy'[u] \in {Nobody, Handler, u}
    BY <2>1 DEF TypeOK
  <2>3. /\ pc = "try" /\ pc' = "act" /\ stockBusy' = Nobody
        /\ UNCHANGED <<ringVars, commandVars, cTrigger, sTrigger, sTrigMod, missed>>
    BY <1>4 DEF Try
  <2> QED BY <2>2, <2>3 DEF TypeOK
<1>5. CASE Relock("act") \/ Relock("wait")
  BY <1>5 DEF Relock, TypeOK
<1>6. CASE Fire
  <2>1. cTrigger \in Triggers
    BY <1>6 DEF Fire, TypeOK, Pointers
  <2>2. next[cTrigger] \in Pointers
    BY <2>1 DEF TypeOK
  <2> QED BY <2>2, <1>6 DEF Fire, TypeOK
<1>7. CASE Remove
  <2>1. cTrigger \in Triggers
    BY <1>7 DEF Remove, TypeOK, Pointers
  <2>2. /\ curr' \in Pointers
        /\ next' \in [Triggers -> Pointers] /\ prev' \in [Triggers -> Pointers]
        /\ home' \in [Triggers -> Homes \cup {Null}]
        /\ slot' \in [Users -> [Types -> Pointers]]
    BY <2>1, <1>7, LinksAreTyped DEF Remove
  <2> QED BY <2>2, <1>7 DEF Remove, TypeOK
<1> QED BY <1>1, <1>2, <1>3, <1>4, <1>5, <1>6, <1>7 DEF HandlerStep, Pass, DbDone

(* The types hold before and after a miss; in particular the trigger that  *)
(* the thread steps from, tries, executes and removes is a block of memory *)
(* (lines 1736-1851).                                                      *)
THEOREM TypeCorrect == Spec => []TypeOK
PROOF
<1>1. Init => Typed
  <2> SUFFICES ASSUME Init PROVE Typed
    OBVIOUS
  <2>1. Null \in Pointers
    BY DEF Pointers
  <2>2. type \in [Users -> Types]
    BY Distinct DEF Init
  <2>3. slot \in [Users -> [Types -> Pointers]]
    BY <2>1 DEF Init
  <2> QED BY <2>1, <2>2, <2>3 DEF Init, Typed, TypeOK, CommandPlaces, HandlerPlaces
<1>2. Typed /\ [Next]_vars => Typed'
  <2> SUFFICES ASSUME Typed, [Next]_vars PROVE Typed'
    OBVIOUS
  <2>1. CASE UNCHANGED vars
    BY <2>1 DEF vars, ringVars, commandVars, handlerVars, Typed, TypeOK
  <2> QED BY <2>1, TypedCommand, TypedHandler DEF Next
<1>3. Typed => TypeOK
  BY DEF Typed
<1> QED BY <1>1, <1>2, <1>3, PTL DEF Spec
=============================================================================
