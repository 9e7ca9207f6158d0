------------------------- MODULE CommandQueueProofs -------------------------
(* Proofs about CommandQueue: its type invariant, its locks and counters,  *)
(* and that it implements SerialCommands; and about the two programs made  *)
(* of it, the web server with its pool of sockets (WebPool) and the server *)
(* with the generator that drives it (Workload).                           *)
EXTENDS WebPool, Workload, FiniteSetTheorems, TLAPS

(* What holds in every state, part by part.  A permit exists only once     *)
(* there is a user, so uList->curr is not NULL when a thread starts.       *)
Sending == {"add", "load", "insert", "cenq"}
Adding == {"load", "insert", "cenq", "post"}
RingStarted == avail > 0 \/ (\E c \in Conns : conn[c].pc \in Adding) => ring # <<>>
LoaderLocks == \A c \in Conns :
    conn[c].pc = "load" => conn[c].user \in InRing /\ lock[conn[c].user] = c
SentFirst == \A c \in Conns : conn[c].pc \in Sending => sent[c] > 0
LastQueued == [c \in Conns |-> Queued(c)]
QueuedOnce ==
    \A u \in Users : \A i \in DOMAIN cells[u] : cells[u][i].n <= LastQueued[cells[u][i].conn]

IndInv ==
    /\ TypeOK
    /\ RingStarted
    /\ LoaderLocks
    /\ SentFirst
    /\ OneAtATime
    /\ LengthIsBacklog
    /\ QueuedOnce
    /\ InOrder

(* What a connection that is not idle serves.                              *)
LEMMA Served ==
    ASSUME TypeOK, NEW c \in Conns, conn[c].pc # "recv"
    PROVE  conn[c] \in Serving /\ conn[c].user \in Users
  BY DEF TypeOK, Idle, Serving

(* Where a connection goes is one of its places.                           *)
LEMMA GoesOn ==
    ASSUME TypeOK, NEW c \in Conns, NEW u \in Users,
           NEW pc \in {"add", "load", "insert", "cenq", "post"}, GoTo(c, pc, u)
    PROVE  conn' \in [Conns -> {Idle} \cup Serving]
  BY DEF TypeOK, GoTo, Serving

(* A queued command is one that some connection has sent.                  *)
LEMMA CellsAreCommands ==
    ASSUME TypeOK, BoundAssumption, NEW u \in Users, NEW i \in DOMAIN cells[u]
    PROVE  cells[u][i] \in Command /\ cells[u][i].conn \in Conns /\ cells[u][i].n \in Int
<1>1. cells[u] \in Seq(Command)
  BY DEF TypeOK
<1>2. cells[u][i] \in Command
  BY <1>1
<1> QED
  BY <1>2, BoundAssumption DEF Command

(* A position of the ring that a user leaves is followed by another.       *)
LEMMA FollowingInRing ==
    ASSUME NEW S, NEW r \in Seq(S), r # <<>>, NEW i \in Nat
    PROVE  (i % Len(r)) + 1 \in DOMAIN r
<1>1. Len(r) \in Nat \ {0} /\ DOMAIN r = 1 .. Len(r)
  OBVIOUS
<1>2. i % Len(r) \in 0 .. Len(r) - 1
  BY <1>1
<1> QED
  BY <1>1, <1>2

(* The initial state is in the invariant: nothing is queued, and no thread *)
(* has a user yet.                                                         *)
LEMMA IndInit == Init => IndInv
<1> SUFFICES ASSUME Init PROVE IndInv
  OBVIOUS
<1>1. TypeOK
  BY BoundAssumption DEF Init, TypeOK, Places
<1>2. RingStarted /\ LoaderLocks /\ SentFirst
  BY DEF Init, RingStarted, LoaderLocks, SentFirst, Adding, Sending, Idle
<1>3. OneAtATime /\ LengthIsBacklog /\ QueuedOnce /\ InOrder
  BY DEF Init, OneAtATime, LengthIsBacklog, QueuedOnce, InOrder
<1> QED
  BY <1>1, <1>2, <1>3 DEF IndInv

(* Every step keeps the types.                                             *)
LEMMA TypeStep == IndInv /\ [Next]_vars => TypeOK'
<1> SUFFICES ASSUME IndInv, [Next]_vars PROVE TypeOK'
  OBVIOUS
<1>0. TypeOK /\ RingStarted
  BY DEF IndInv
<1> USE <1>0
<1>1. ASSUME NEW c \in Conns, Connection(c) PROVE TypeOK'
  <2>1. ASSUME NEW u \in Users, Receive(c, u) PROVE TypeOK'
    <3>1. conn' \in [Conns -> {Idle} \cup Serving]
      BY <2>1, GoesOn DEF Receive
    <3>2. sent' \in [Conns -> 0 .. MaxSent]
      BY <2>1, BoundAssumption DEF Receive, TypeOK
    <3> QED
      BY <2>1, <3>1, <3>2 DEF TypeOK, Receive
  <2>2. CASE AddUser(c)
    <3>1. conn[c].user \in Users
      BY <2>2, Served DEF AddUser
    <3>2. CASE conn[c].user \in InRing
      <4>1. conn' \in [Conns -> {Idle} \cup Serving]
        BY <2>2, <3>1, <3>2, GoesOn DEF AddUser
      <4> QED
        BY <2>2, <3>2, <4>1 DEF AddUser, TypeOK
    <3>3. CASE conn[c].user \notin InRing
      <4>1. ring' = Append(ring, conn[c].user) /\ conn' \in [Conns -> {Idle} \cup Serving]
        BY <2>2, <3>1, <3>3, GoesOn DEF AddUser
      <4>2. ring' \in Seq(Users) /\ DOMAIN ring \subseteq DOMAIN ring'
        BY <3>1, <4>1 DEF TypeOK
      <4>3. lock' \in [Users -> Threads \cup Conns \cup {Trigger, Nobody}]
        BY <2>2, <3>1, <3>3 DEF AddUser, TypeOK
      <4> QED
        BY <2>2, <4>1, <4>2, <4>3 DEF AddUser, TypeOK
    <3> QED
      BY <3>2, <3>3
  <2>3. CASE Loaded(c)
    <3>1. conn[c].user \in Users
      BY <2>3, Served DEF Loaded
    <3>2. conn' \in [Conns -> {Idle} \cup Serving]
      BY <2>3, <3>1, GoesOn DEF Loaded
    <3> QED
      BY <2>3, <3>1, <3>2 DEF TypeOK, Loaded
  <2>4. CASE Inserted(c)
    <3>1. conn' \in [Conns -> {Idle} \cup Serving]
      BY <2>4, Served, GoesOn DEF Inserted
    <3> QED
      BY <2>4, <3>1 DEF TypeOK, Inserted
  <2>5. CASE Cenq(c)
    <3>1. conn[c].user \in Users
      BY <2>5, Served DEF Cenq
    <3>2. sent[c] \in 1 .. MaxSent
      BY <2>5, BoundAssumption DEF IndInv, SentFirst, Sending, Cenq, TypeOK
    <3>3. [conn |-> c, n |-> sent[c]] \in Command
      BY <3>2 DEF Command
    <3>4. cells' \in [Users -> Seq(Command)] /\ length' \in [Users -> Nat]
      BY <2>5, <3>1, <3>3 DEF Cenq, TypeOK
    <3>5. conn' \in [Conns -> {Idle} \cup Serving]
      BY <2>5, <3>1, GoesOn DEF Cenq
    <3> QED
      BY <2>5, <3>4, <3>5 DEF TypeOK, Cenq
  <2>6. CASE CenqPost(c)
    BY <2>6 DEF TypeOK, CenqPost
  <2> QED
    BY <1>1, <2>1, <2>2, <2>3, <2>4, <2>5, <2>6 DEF Connection
<1>2. ASSUME NEW t \in Threads, at[t] # "start"
      PROVE  ring # <<>> /\ Following(cur[t]) \in DOMAIN ring /\ Here(t) \in Users
  <2>1. cur[t] \in DOMAIN ring
    BY <1>2 DEF TypeOK
  <2>2. ring # <<>>
    BY <2>1 DEF TypeOK
  <2>3. ring \in Seq(Users) /\ cur[t] \in Nat
    BY DEF TypeOK
  <2>4. Following(cur[t]) \in DOMAIN ring
    BY <2>2, <2>3, FollowingInRing DEF Following
  <2> QED
    BY <2>1, <2>2, <2>3, <2>4 DEF Here
<1>3. ASSUME NEW t \in Threads, at[t] # "start", Step(t)
      PROVE  /\ cur' \in [Threads -> Nat]
             /\ \A s \in Threads : at[s] # "start" => cur'[s] \in DOMAIN ring
  <2>1. Following(cur[t]) \in DOMAIN ring
    BY <1>3, <1>2
  <2>2. Len(ring) \in Nat /\ DOMAIN ring = 1 .. Len(ring)
    BY DEF TypeOK
  <2>3. Following(cur[t]) \in Nat
    BY <2>1, <2>2
  <2> QED
    BY <1>3, <2>1, <2>3 DEF Step, TypeOK
<1>7. ASSUME NEW t \in Threads, NEW from \in {"first", "scan"}, NEW to \in {"repost", "peek"},
             at[t] = from, TryLock(t, from, to)
      PROVE TypeOK'
  <2>1. at[t] # "start"
    BY <1>7
  <2>2. CASE lock' = [lock EXCEPT ![Here(t)] = t] /\ Jump(t, from, to)
             /\ UNCHANGED <<ring, cells, start, length, avail, cur, conn, sent, visits>>
    BY <2>1, <2>2, <1>2 DEF TypeOK, Jump, Places
  <2>3. CASE Step(t) /\ UNCHANGED <<ring, lock, cells, start, length, avail, at, conn, sent, visits>>
    BY <2>1, <2>3, <1>3 DEF TypeOK
  <2> QED
    BY <1>7, <2>2, <2>3 DEF TryLock
<1>4. ASSUME NEW t \in Threads, Thread(t) PROVE TypeOK'
  <2>1. CASE Start(t)
    <3>1. 1 \in DOMAIN ring
      BY <2>1 DEF Start, RingStarted, TypeOK
    <3> QED
      BY <2>1, <3>1 DEF TypeOK, Start, Jump, Places
  <2>2. CASE First(t)
    BY <2>2, <1>7 DEF First
  <2>3. CASE Repost(t)
    BY <2>3 DEF TypeOK, Repost, Jump, Places
  <2>4. CASE Leave(t)
    BY <2>4, <1>2, <1>3 DEF TypeOK, Leave, Jump, Places, Unlocked
  <2>5. CASE Take(t)
    BY <2>5 DEF TypeOK, Take, Jump, Places
  <2>6. CASE Scan(t)
    BY <2>6, <1>7 DEF Scan
  <2>7. CASE Miss(t)
    BY <2>7, <1>2, <1>3 DEF TypeOK, Miss, Jump, Places, Unlocked
  <2>8. CASE Cdeq(t)
    <3>1. Here(t) \in Users
      BY <2>8, <1>2 DEF Cdeq, Jump
    <3>2. start' \in [Users -> Nat] /\ length' \in [Users -> Nat]
      BY <2>8, <3>1 DEF Cdeq, TypeOK
    <3> QED
      BY <2>8, <3>2 DEF TypeOK, Cdeq, Jump, Places
  <2>9. CASE Executed(t)
    BY <2>9 DEF TypeOK, Executed, Jump, Places
  <2> QED
    BY <1>4, <2>1, <2>2, <2>3, <2>4, <2>5, <2>6, <2>7, <2>8, <2>9 DEF Thread
<1>5. ASSUME NEW u \in Users, TriggerVisit(u) \/ TriggerDone(u) PROVE TypeOK'
  <2>1. visits' \in 0 .. MaxVisits
    BY <1>5, BoundAssumption DEF TypeOK, TriggerVisit, TriggerDone
  <2>2. lock' \in [Users -> Threads \cup Conns \cup {Trigger, Nobody}]
    BY <1>5 DEF TypeOK, TriggerVisit, TriggerDone
  <2>3. UNCHANGED <<ring, cells, start, length, avail, at, cur, conn, sent>>
    BY <1>5 DEF TriggerVisit, TriggerDone
  <2> QED
    BY <2>1, <2>2, <2>3 DEF TypeOK
<1>6. CASE UNCHANGED vars
  BY <1>6 DEF TypeOK, vars
<1> QED
  BY <1>1, <1>4, <1>5, <1>6 DEF Next, TriggerThread

(* Only what changes a queue is to be looked at for the queues' parts.     *)
LEMMA QueueSteps ==
    ASSUME [Next]_vars
    PROVE  \/ \E c \in Conns : Cenq(c)
           \/ \E t \in Threads : Cdeq(t)
           \/ UNCHANGED <<cells, start, length>>
<1>1. ASSUME NEW c \in Conns, Connection(c) PROVE Cenq(c) \/ UNCHANGED <<cells, start, length>>
  BY <1>1 DEF Connection, Receive, AddUser, Loaded, Inserted, CenqPost
<1>2. ASSUME NEW t \in Threads, Thread(t) PROVE Cdeq(t) \/ UNCHANGED <<cells, start, length>>
  BY <1>2 DEF Thread, Start, First, Repost, Leave, Take, Scan, Miss, Executed, TryLock
<1> QED
  BY <1>1, <1>2 DEF Next, TriggerThread, TriggerVisit, TriggerDone, vars

(* A permit is posted by those who have a user already.                    *)
LEMMA RingStartedStep == IndInv /\ [Next]_vars => RingStarted'
<1> SUFFICES ASSUME IndInv, [Next]_vars PROVE RingStarted'
  OBVIOUS
<1>0. TypeOK /\ RingStarted
  BY DEF IndInv
<1>1. ring # <<>> => ring' # <<>>
  <2>1. ring' = ring \/ \E u \in Users : ring' = Append(ring, u)
    BY <1>0, Served DEF Next, Connection, Thread, TriggerThread, vars, Receive, AddUser, Loaded,
                        Inserted, Cenq, CenqPost, Start, First, Repost, Leave, Take, Scan, Miss,
                        Cdeq, Executed, TryLock, TriggerVisit, TriggerDone
  <2> QED
    BY <1>0, <2>1 DEF TypeOK
<1>2. ASSUME NEW c \in Conns, Connection(c) PROVE RingStarted'
  <2>1. CASE AddUser(c)
    <3>1. CASE conn[c].user \in InRing
      BY <1>0, <1>1, <3>1 DEF TypeOK, InRing, RingStarted
    <3>2. CASE conn[c].user \notin InRing
      BY <1>0, <2>1, <3>2, Served DEF AddUser, RingStarted, TypeOK
    <3> QED
      BY <3>1, <3>2
  <2>2. CASE \E u \in Users : Receive(c, u)
    <3>1. PICK u \in Users : Receive(c, u)
      BY <2>2
    <3>2. u \in InRing => ring # <<>>
      BY <1>0 DEF InRing, TypeOK
    <3>3. u \notin InRing => conn' = [conn EXCEPT ![c] = [pc |-> "add", user |-> u]]
      BY <3>1 DEF Receive, GoTo
    <3>4. avail' = avail
      BY <3>1 DEF Receive
    <3>5. u \notin InRing => \A d \in Conns : conn'[d].pc \in Adding => conn[d].pc \in Adding
      <4>1. u \notin InRing => conn'[c].pc = "add" /\ \A d \in Conns : d # c => conn'[d] = conn[d]
        BY <1>0, <3>3 DEF TypeOK
      <4> QED
        BY <4>1 DEF Adding
    <3> QED
      BY <1>0, <1>1, <3>2, <3>4, <3>5 DEF RingStarted
  <2>3. CASE Loaded(c) \/ Inserted(c) \/ Cenq(c) \/ CenqPost(c)
    BY <1>0, <1>1, <2>3 DEF Loaded, Inserted, Cenq, CenqPost, GoTo, RingStarted, Adding, TypeOK
  <2> QED
    BY <1>2, <2>1, <2>2, <2>3 DEF Connection
<1>3. ASSUME NEW t \in Threads, Thread(t) PROVE RingStarted'
  <2>1. CASE Repost(t)
    <3>1. at[t] # "start"
      BY <2>1 DEF Repost, Jump
    <3>2. ring # <<>>
      BY <1>0, <3>1 DEF TypeOK
    <3> QED
      BY <1>1, <3>2 DEF RingStarted
  <2>2. CASE ~Repost(t)
    BY <1>0, <1>1, <1>3, <2>2 DEF Thread, Start, First, Leave, Take, Scan, Miss, Cdeq, Executed,
                                  TryLock, RingStarted, TypeOK
  <2> QED
    BY <2>1, <2>2
<1>4. CASE TriggerThread \/ UNCHANGED vars
  BY <1>0, <1>4 DEF TriggerThread, TriggerVisit, TriggerDone, vars, RingStarted
<1> QED
  BY <1>2, <1>3, <1>4 DEF Next

(* Whoever has locked a user keeps the lock until it unlocks the user.     *)
LEMMA LocksStep == IndInv /\ [Next]_vars => LoaderLocks' /\ OneAtATime'
<1> SUFFICES ASSUME IndInv, [Next]_vars PROVE LoaderLocks' /\ OneAtATime'
  OBVIOUS
<1>0. TypeOK /\ LoaderLocks /\ OneAtATime
  BY DEF IndInv
<1>1. ASSUME NEW c \in Conns, Connection(c) PROVE LoaderLocks' /\ OneAtATime'
  <2>1. CASE AddUser(c) /\ conn[c].user \notin InRing
    <3> DEFINE u == conn[c].user
    <3>1. /\ u \in Users
          /\ ring' = Append(ring, u) /\ lock' = [lock EXCEPT ![u] = c]
          /\ conn' = [conn EXCEPT ![c] = [pc |-> "load", user |-> u]]
          /\ UNCHANGED <<at, cur>>
      BY <1>0, <2>1, Served DEF AddUser, GoTo
    <3>2. InRing' = InRing \cup {u} /\ \A i \in DOMAIN ring : ring'[i] = ring[i]
      <4>1. /\ DOMAIN ring' = DOMAIN ring \cup {Len(ring) + 1} /\ ring'[Len(ring) + 1] = u
            /\ \A i \in DOMAIN ring : ring'[i] = ring[i]
        <5>1. ring \in Seq(Users)
          BY <1>0 DEF TypeOK
        <5> QED
          BY <3>1, <5>1
      <4> QED
        BY <4>1 DEF InRing
    <3>3. ASSUME NEW t \in Threads, at'[t] \in {"repost", "peek", "run", "leave"}
          PROVE  lock'[Here(t)'] = t
      <4>1. Here(t)' = Here(t) /\ Here(t) \in InRing
        BY <1>0, <3>1, <3>2, <3>3 DEF Here, InRing, TypeOK
      <4> QED
        BY <1>0, <2>1, <3>1, <3>3, <4>1 DEF OneAtATime, TypeOK
    <3>4. ASSUME NEW d \in Conns, conn'[d].pc = "load"
          PROVE  conn'[d].user \in InRing' /\ lock'[conn'[d].user] = d
      <4>1. CASE d = c
        BY <1>0, <3>1, <3>2, <4>1 DEF TypeOK
      <4>2. CASE d # c
        BY <1>0, <2>1, <3>1, <3>2, <3>4, <4>2, Served DEF LoaderLocks, TypeOK
      <4> QED
        BY <4>1, <4>2
    <3> QED
      BY <3>3, <3>4 DEF LoaderLocks, OneAtATime
  <2>2. CASE Loaded(c)
    <3> DEFINE u == conn[c].user
    <3>1. /\ u \in Users /\ lock[u] = c
          /\ lock' = [lock EXCEPT ![u] = Nobody]
          /\ conn' = [conn EXCEPT ![c] = [pc |-> "insert", user |-> u]]
          /\ UNCHANGED <<ring, at, cur>>
      BY <1>0, <2>2, Served DEF Loaded, GoTo, LoaderLocks
    <3>2. \A v \in Users : v # u => lock'[v] = lock[v]
      BY <1>0, <3>1 DEF TypeOK
    <3>3. ASSUME NEW d \in Conns, conn'[d].pc = "load"
          PROVE  conn[d].pc = "load" /\ conn'[d] = conn[d]
      BY <1>0, <3>1, <3>3 DEF TypeOK
    <3>4. ASSUME NEW d \in Conns, conn'[d].pc = "load"
          PROVE  conn'[d].user \in InRing' /\ lock'[conn'[d].user] = d
      <4>1. conn[d].pc = "load" /\ conn'[d] = conn[d] /\ conn[d].user \in Users
        BY <1>0, <3>3, <3>4, Served
      <4>2. conn[d].user \in InRing /\ lock[conn[d].user] = d
        BY <1>0, <4>1 DEF LoaderLocks
      <4>3. d # c /\ InRing' = InRing
        BY <1>0, <3>1, <3>4 DEF InRing, TypeOK
      <4>4. conn[d].user # u
        BY <3>1, <4>2, <4>3
      <4> QED
        BY <3>2, <4>1, <4>2, <4>3, <4>4
    <3>5. ASSUME NEW t \in Threads, at'[t] \in {"repost", "peek", "run", "leave"}
          PROVE  lock'[Here(t)'] = t
      <4>1. Here(t)' = Here(t) /\ Here(t) \in Users /\ at[t] = at'[t]
        BY <1>0, <3>1, <3>5 DEF Here, TypeOK
      <4>2. lock[Here(t)] = t
        BY <1>0, <3>5, <4>1 DEF OneAtATime
      <4>3. Here(t) # u
        BY <3>1, <4>2, NamesAssumption
      <4> QED
        BY <3>2, <4>1, <4>2, <4>3
    <3> QED
      BY <3>4, <3>5 DEF LoaderLocks, OneAtATime
  <2>3. CASE ~Loaded(c) /\ ~(AddUser(c) /\ conn[c].user \notin InRing)
    <3>1. UNCHANGED <<ring, lock, at, cur>>
      BY <1>1, <2>3 DEF Connection, Receive, AddUser, Inserted, Cenq, CenqPost
    <3>2. \A d \in Conns : conn'[d].pc = "load" => conn'[d] = conn[d]
      <4>1. conn \in [Conns -> {Idle} \cup Serving]
        BY <1>0 DEF TypeOK
      <4>2. ASSUME NEW d \in Conns, d # c PROVE conn'[d] = conn[d]
        BY <1>1, <2>3, <4>1, <4>2 DEF Connection, Receive, AddUser, Inserted, Cenq, CenqPost, GoTo
      <4>3. conn'[c].pc # "load"
        BY <1>1, <2>3, <4>1 DEF Connection, Receive, AddUser, Inserted, Cenq, CenqPost, GoTo, Idle
      <4> QED
        BY <4>2, <4>3
    <3> QED
      BY <1>0, <3>1, <3>2 DEF LoaderLocks, OneAtATime, Here, InRing
  <2> QED
    BY <2>1, <2>2, <2>3
<1>2. ASSUME NEW t \in Threads, Thread(t) PROVE LoaderLocks' /\ OneAtATime'
  <2>1. UNCHANGED <<ring, conn>>
    BY <1>2 DEF Thread, Start, First, Repost, Leave, Take, Scan, Miss, Cdeq, Executed, TryLock
  <2>2. \A s \in Threads : s # t => at'[s] = at[s] /\ cur'[s] = cur[s]
    BY <1>0, <1>2 DEF Thread, Start, First, Repost, Leave, Take, Scan, Miss, Cdeq, Executed,
                      TryLock, Jump, Step, TypeOK
  <2> DEFINE Held == {"repost", "peek", "run", "leave"}
  <2>3. CASE /\ at[t] \in {"first", "scan"} /\ lock[Here(t)] = Nobody /\ at'[t] \in Held
             /\ lock' = [lock EXCEPT ![Here(t)] = t] /\ cur' = cur
    <3>1. Here(t) \in Users
      BY <1>0, <2>3 DEF TypeOK, Here
    <3>2. \A v \in Users : lock[v] # Nobody => lock'[v] = lock[v]
      BY <1>0, <2>3, <3>1 DEF TypeOK
    <3>3. ASSUME NEW s \in Threads, at'[s] \in Held PROVE lock'[Here(s)'] = s
      <4>1. CASE s = t
        BY <1>0, <2>1, <2>3, <3>1, <4>1 DEF Here, TypeOK
      <4>2. CASE s # t
        <5>1. at[s] \in Held /\ Here(s)' = Here(s)
          BY <2>1, <2>2, <3>3, <4>2 DEF Here
        <5>2. Here(s) \in Users /\ lock[Here(s)] = s
          BY <1>0, <5>1 DEF OneAtATime, Here, TypeOK
        <5> QED
          BY <3>2, <5>1, <5>2, NamesAssumption
      <4> QED
        BY <4>1, <4>2
    <3> QED
      BY <1>0, <2>1, <3>2, <3>3, Served, NamesAssumption DEF LoaderLocks, OneAtATime, InRing
  <2>4. CASE /\ at[t] \in Held /\ at'[t] \notin Held
             /\ lock' = [lock EXCEPT ![Here(t)] = Nobody]
    <3>1. Here(t) \in Users /\ lock[Here(t)] = t
      BY <1>0, <2>4 DEF TypeOK, Here, OneAtATime
    <3>2. \A v \in Users : lock[v] # t => lock'[v] = lock[v]
      BY <1>0, <2>4, <3>1 DEF TypeOK
    <3>3. ASSUME NEW s \in Threads, at'[s] \in Held PROVE lock'[Here(s)'] = s
      <4>1. s # t
        BY <2>4, <3>3
      <4>2. at[s] \in Held /\ Here(s)' = Here(s)
        BY <2>1, <2>2, <3>3, <4>1 DEF Here
      <4>3. Here(s) \in Users /\ lock[Here(s)] = s
        BY <1>0, <4>2 DEF OneAtATime, Here, TypeOK
      <4> QED
        BY <3>2, <4>1, <4>2, <4>3
    <3> QED
      BY <1>0, <2>1, <3>2, <3>3, Served, NamesAssumption DEF LoaderLocks, OneAtATime, InRing
  <2>5. CASE lock' = lock /\ (at'[t] \in Held => at[t] \in Held /\ cur' = cur)
    BY <1>0, <2>1, <2>2, <2>5 DEF LoaderLocks, OneAtATime, Here, InRing
  <2>6. ASSUME First(t) \/ Scan(t)
        PROVE  \/ /\ at[t] \in {"first", "scan"} /\ lock[Here(t)] = Nobody /\ at'[t] \in Held
                  /\ lock' = [lock EXCEPT ![Here(t)] = t] /\ cur' = cur
               \/ lock' = lock /\ at'[t] \notin Held
    <3>1. CASE First(t)
      BY <1>0, <3>1 DEF First, TryLock, Jump, TypeOK
    <3>2. CASE Scan(t)
      BY <1>0, <3>2 DEF Scan, TryLock, Jump, TypeOK
    <3> QED
      BY <2>6, <3>1, <3>2
  <2>7. Leave(t) \/ Miss(t) => /\ at[t] \in Held /\ at'[t] \notin Held
                               /\ lock' = [lock EXCEPT ![Here(t)] = Nobody]
    BY <1>0 DEF Leave, Miss, Jump, Unlocked, TypeOK
  <2>8. Start(t) \/ Repost(t) \/ Take(t) \/ Cdeq(t) \/ Executed(t)
          => lock' = lock /\ (at'[t] \in Held => at[t] \in Held /\ cur' = cur)
    BY <1>0 DEF Start, Repost, Take, Cdeq, Executed, Jump, TypeOK
  <2> QED
    BY <1>2, <2>3, <2>4, <2>5, <2>6, <2>7, <2>8 DEF Thread
<1>3. ASSUME NEW u \in Users, TriggerVisit(u) \/ TriggerDone(u) PROVE LoaderLocks' /\ OneAtATime'
  <2>1. UNCHANGED <<ring, at, cur, conn>>
    BY <1>3 DEF TriggerVisit, TriggerDone
  <2>2. \A v \in Users : lock[v] \notin {Nobody, Trigger} => lock'[v] = lock[v]
    BY <1>0, <1>3 DEF TriggerVisit, TriggerDone, TypeOK
  <2>3. \A t \in Threads : at[t] \in {"repost", "peek", "run", "leave"} => Here(t) \in Users
    BY <1>0 DEF Here, TypeOK
  <2> QED
    BY <1>0, <2>1, <2>2, <2>3, Served, NamesAssumption DEF LoaderLocks, OneAtATime, Here, InRing
<1>4. CASE UNCHANGED vars
  BY <1>0, <1>4 DEF vars, LoaderLocks, OneAtATime, Here, InRing
<1> QED
  BY <1>1, <1>2, <1>3, <1>4 DEF Next, TriggerThread

(* A message has a number before it is queued.                             *)
LEMMA SentFirstStep == IndInv /\ [Next]_vars => SentFirst'
<1> SUFFICES ASSUME IndInv, [Next]_vars PROVE SentFirst'
  OBVIOUS
<1>0. TypeOK /\ SentFirst
  BY DEF IndInv
<1>1. ASSUME NEW c \in Conns, Connection(c) PROVE SentFirst'
  <2>1. CASE \E u \in Users : Receive(c, u)
    BY <1>0, <2>1 DEF Receive, GoTo, SentFirst, Sending, TypeOK
  <2>2. CASE AddUser(c) \/ Loaded(c) \/ Inserted(c)
    <3>1. sent' = sent /\ sent[c] > 0
      BY <1>0, <2>2 DEF AddUser, Loaded, Inserted, SentFirst, Sending
    <3>2. \A d \in Conns : d # c => conn'[d] = conn[d]
      BY <1>0, <2>2 DEF AddUser, Loaded, Inserted, GoTo, TypeOK
    <3> QED
      BY <1>0, <3>1, <3>2 DEF SentFirst
  <2>3. CASE Cenq(c) \/ CenqPost(c)
    <3>1. sent' = sent /\ conn'[c].pc \in {"recv", "post"}
      BY <1>0, <2>3 DEF Cenq, CenqPost, GoTo, Idle, TypeOK
    <3>2. \A d \in Conns : d # c => conn'[d] = conn[d]
      BY <1>0, <2>3 DEF Cenq, CenqPost, GoTo, TypeOK
    <3> QED
      BY <1>0, <3>1, <3>2 DEF SentFirst, Sending
  <2> QED
    BY <1>1, <2>1, <2>2, <2>3 DEF Connection
<1>2. CASE (\E t \in Threads : Thread(t)) \/ TriggerThread \/ UNCHANGED vars
  BY <1>0, <1>2 DEF Thread, Start, First, Repost, Leave, Take, Scan, Miss, Cdeq, Executed, TryLock,
                    TriggerThread, TriggerVisit, TriggerDone, vars, SentFirst
<1> QED
  BY <1>1, <1>2 DEF Next

(* The counter of a queue follows its list.                                *)
LEMMA LengthStep == IndInv /\ [Next]_vars => LengthIsBacklog'
<1> SUFFICES ASSUME IndInv, [Next]_vars PROVE LengthIsBacklog'
  OBVIOUS
<1>0. TypeOK /\ LengthIsBacklog
  BY DEF IndInv
<1>1. ASSUME NEW c \in Conns, Cenq(c) PROVE LengthIsBacklog'
  BY <1>0, <1>1 DEF Cenq, LengthIsBacklog, TypeOK
<1>2. ASSUME NEW t \in Threads, Cdeq(t) PROVE LengthIsBacklog'
  BY <1>0, <1>2 DEF Cdeq, LengthIsBacklog, TypeOK
<1>3. CASE UNCHANGED <<cells, start, length>>
  BY <1>0, <1>3 DEF LengthIsBacklog
<1> QED
  BY <1>1, <1>2, <1>3, QueueSteps

(* A connection queues its messages in the order of their numbers, each    *)
(* of them once.                                                           *)
LEMMA OrderStep == IndInv /\ [Next]_vars => QueuedOnce' /\ InOrder'
<1> SUFFICES ASSUME IndInv, [Next]_vars PROVE QueuedOnce' /\ InOrder'
  OBVIOUS
<1>0. TypeOK /\ QueuedOnce /\ InOrder /\ SentFirst
  BY DEF IndInv
<1>1. \A c \in Conns : LastQueued'[c] \in Int /\ LastQueued[c] \in Int /\ LastQueued'[c] >= LastQueued[c]
  <2>1. ASSUME NEW c \in Conns PROVE Queued(c)' \in Int /\ Queued(c) \in Int
    <3>1. sent[c] \in Nat /\ sent'[c] \in Nat
      BY <1>0, TypeStep, BoundAssumption DEF TypeOK
    <3> QED
      BY <3>1 DEF Queued
  <2>2. ASSUME NEW c \in Conns, NEW d \in Conns, Connection(d) PROVE Queued(c)' >= Queued(c)
    <3>1. CASE c # d
      BY <1>0, <2>2, <3>1, <2>1 DEF Connection, Receive, AddUser, Loaded, Inserted, Cenq, CenqPost,
                                    GoTo, TypeOK, Queued
    <3>2. CASE c = d /\ \E u \in Users : Receive(d, u)
      <4>1. sent[c] \in Nat /\ sent'[c] = sent[c] + 1 /\ conn[c].pc = "recv"
        BY <1>0, <3>2, BoundAssumption DEF Receive, TypeOK, Idle
      <4> QED
        BY <4>1 DEF Queued
    <3>3. CASE c = d /\ ~(\E u \in Users : Receive(d, u))
      <4>1. sent'[c] = sent[c] /\ sent[c] \in Nat
        BY <1>0, <2>2, <3>3, BoundAssumption DEF Connection, AddUser, Loaded, Inserted, Cenq,
                                                 CenqPost, TypeOK
      <4>2. conn[c].pc \in {"recv", "post"} => conn'[c].pc \in {"recv", "post"}
        BY <1>0, <2>2, <3>3 DEF Connection, AddUser, Loaded, Inserted, Cenq, CenqPost, TypeOK, Idle
      <4> QED
        BY <4>1, <4>2 DEF Queued
    <3> QED
      BY <3>1, <3>2, <3>3
  <2>3. CASE UNCHANGED <<conn, sent>>
    BY <2>1, <2>3 DEF Queued, LastQueued
  <2>4. (\E t \in Threads : Thread(t)) \/ TriggerThread \/ UNCHANGED vars => UNCHANGED <<conn, sent>>
    BY DEF Thread, Start, First, Repost, Leave, Take, Scan, Miss, Cdeq, Executed, TryLock,
           TriggerThread, TriggerVisit, TriggerDone, vars
  <2> QED
    BY <2>1, <2>2, <2>3, <2>4 DEF Next, LastQueued
<1>2. ASSUME NEW c \in Conns, Cenq(c) PROVE QueuedOnce' /\ InOrder'
  <2> DEFINE u == conn[c].user
             cmd == [conn |-> c, n |-> sent[c]]
  <2>1. u \in Users /\ cells' = [cells EXCEPT ![u] = Append(@, cmd)]
    BY <1>0, <1>2, Served DEF Cenq
  <2>2. LastQueued[c] = sent[c] - 1 /\ LastQueued'[c] = sent[c] /\ sent[c] \in Nat
    BY <1>0, <1>2, BoundAssumption DEF Cenq, GoTo, LastQueued, Queued, TypeOK
  <2>3. \A v \in Users : v # u => cells'[v] = cells[v]
    BY <1>0, <2>1 DEF TypeOK
  <2>4. /\ DOMAIN cells'[u] = 1 .. Len(cells[u]) + 1 /\ DOMAIN cells[u] = 1 .. Len(cells[u])
        /\ Len(cells[u]) \in Nat
        /\ \A i \in DOMAIN cells[u] : cells'[u][i] = cells[u][i] /\ cells[u][i] \in Command
        /\ cells'[u][Len(cells[u]) + 1] = cmd
    <3>1. cells[u] \in Seq(Command) /\ cells'[u] = Append(cells[u], cmd)
      BY <1>0, <2>1 DEF TypeOK
    <3> QED
      BY <3>1
  <2>5. \A v \in Users : \A i \in DOMAIN cells[v] : cells[v][i].conn \in Conns /\ cells[v][i].n \in Int
    BY <1>0, CellsAreCommands, BoundAssumption
  <2>6. QueuedOnce'
    <3>1. \A v \in Users : \A i \in DOMAIN cells[v] : cells[v][i].n <= LastQueued'[cells[v][i].conn]
      <4>1. SUFFICES ASSUME NEW v \in Users, NEW i \in DOMAIN cells[v]
                     PROVE  cells[v][i].n <= LastQueued'[cells[v][i].conn]
        OBVIOUS
      <4>2. cells[v][i].conn \in Conns /\ cells[v][i].n \in Int
        BY <2>5
      <4> QED
        BY <1>0, <1>1, <4>2 DEF QueuedOnce
    <3>2. \A i \in DOMAIN cells'[u] : cells'[u][i].n <= LastQueued'[cells'[u][i].conn]
      BY <2>1, <2>2, <2>4, <3>1
    <3>3. \A v \in Users : \A i \in DOMAIN cells'[v] : cells'[v][i].n <= LastQueued'[cells'[v][i].conn]
      BY <2>3, <3>1, <3>2
    <3> QED
      BY <3>3 DEF QueuedOnce
  <2>7. InOrder'
    <3>1. ASSUME NEW i \in DOMAIN cells'[u], NEW j \in DOMAIN cells'[u], i < j,
                 cells'[u][i].conn = cells'[u][j].conn
          PROVE  cells'[u][i].n < cells'[u][j].n
      <4>1. CASE j = Len(cells[u]) + 1
        <5>1. i \in DOMAIN cells[u] /\ cells[u][i].conn = c
          BY <2>4, <3>1, <4>1
        <5>2. cells[u][i].n <= sent[c] - 1
          BY <1>0, <2>1, <2>2, <5>1 DEF QueuedOnce
        <5> QED
          BY <2>1, <2>2, <2>4, <2>5, <4>1, <5>1, <5>2
      <4>2. CASE j # Len(cells[u]) + 1
        <5>1. i \in DOMAIN cells[u] /\ j \in DOMAIN cells[u]
          BY <2>4, <3>1, <4>2
        <5>2. cells'[u][i] = cells[u][i] /\ cells'[u][j] = cells[u][j]
          BY <2>4, <5>1
        <5> QED
          BY <1>0, <2>1, <3>1, <5>1, <5>2 DEF InOrder
      <4> QED
        BY <4>1, <4>2
    <3> QED
      BY <1>0, <2>3, <3>1 DEF InOrder
  <2> QED
    BY <2>6, <2>7
<1>3. CASE UNCHANGED cells
  <2>1. \A v \in Users : \A i \in DOMAIN cells[v] : cells[v][i].conn \in Conns /\ cells[v][i].n \in Int
    BY <1>0, CellsAreCommands, BoundAssumption
  <2>2. \A v \in Users : \A i \in DOMAIN cells[v] : cells[v][i].n <= LastQueued'[cells[v][i].conn]
    <3>1. SUFFICES ASSUME NEW v \in Users, NEW i \in DOMAIN cells[v]
                   PROVE  cells[v][i].n <= LastQueued'[cells[v][i].conn]
      OBVIOUS
    <3>2. cells[v][i].conn \in Conns /\ cells[v][i].n \in Int
      BY <2>1
    <3> QED
      BY <1>0, <1>1, <3>2 DEF QueuedOnce
  <2> QED
    BY <1>0, <1>3, <2>2 DEF QueuedOnce, InOrder
<1> QED
  BY <1>2, <1>3, QueueSteps DEF Cdeq

(* The invariant is inductive.                                             *)
LEMMA IndStep == IndInv /\ [Next]_vars => IndInv'
  BY TypeStep, RingStartedStep, LocksStep, SentFirstStep, LengthStep, OrderStep DEF IndInv

(* The types hold in every state: no thread has a NULL or unknown cUser.   *)
THEOREM TypeCorrect == Spec => []TypeOK
<1>1. IndInv => TypeOK
  BY DEF IndInv
<1> QED
  BY <1>1, IndInit, IndStep, PTL DEF Spec

(* The counter the scan reads without the mutex is the length of the list, *)
(* so cdeq never returns the NULL that command_handler would dereference.  *)
THEOREM NeverNull == Spec => []LengthIsBacklog
<1>1. IndInv => LengthIsBacklog
  BY DEF IndInv
<1> QED
  BY <1>1, IndInit, IndStep, PTL DEF Spec

(* No user is worked on by two threads.                                    *)
THEOREM OneThreadPerUser == Spec => []OneAtATime
<1>1. IndInv => OneAtATime
  BY DEF IndInv
<1> QED
  BY <1>1, IndInit, IndStep, PTL DEF Spec

(* Every connection's commands are queued in the order it sent them.       *)
THEOREM QueuedInOrder == Spec => []InOrder
<1>1. IndInv => InOrder
  BY DEF IndInv
<1> QED
  BY <1>1, IndInit, IndStep, PTL DEF Spec

-----------------------------------------------------------------------------
(* Permits and commands are counted as sets that gain or lose one element. *)

Counted == PermitsMatch /\ IsFiniteSet(Backlog)

(* The sets of threads and connections that are counted are finite.        *)
LEMMA CountedFinite ==
    /\ IsFiniteSet(Holders) /\ Cardinality(Holders) \in Nat
    /\ IsFiniteSet(Posting) /\ Cardinality(Posting) \in Nat
<1>1. Holders \subseteq Threads /\ Posting \subseteq Conns
  BY DEF Holders, Posting
<1> QED
  BY <1>1, FiniteAssumption, FS_Subset, FS_CardinalityType

(* One more element, one more to count.                                    *)
LEMMA OneMore ==
    ASSUME NEW S, IsFiniteSet(S), NEW x, x \notin S
    PROVE  /\ IsFiniteSet(S \cup {x})
           /\ Cardinality(S \cup {x}) = Cardinality(S) + 1
           /\ Cardinality(S) \in Nat
  BY FS_AddElement, FS_CardinalityType

(* One element less, one less to count.                                    *)
LEMMA OneLess ==
    ASSUME NEW S, IsFiniteSet(S), NEW x \in S
    PROVE  /\ IsFiniteSet(S \ {x})
           /\ Cardinality(S \ {x}) = Cardinality(S) - 1
           /\ Cardinality(S) \in Nat
  BY FS_RemoveElement, FS_CardinalityType

(* What it takes to be in the backlog.                                     *)
LEMMA InBacklog ==
    ASSUME NEW p
    PROVE  p \in Backlog <=> \E u \in Users : \E i \in start[u] + 1 .. Len(cells[u]) : p = <<u, i>>
  BY DEF Backlog

(* Nothing waits at first, and there is no permit.                         *)
LEMMA CountedInit == Init => Counted
<1> SUFFICES ASSUME Init PROVE Counted
  OBVIOUS
<1>1. Holders = {} /\ Posting = {} /\ avail = 0
  BY DEF Init, Holders, Posting, Idle
<1>2. Backlog = {}
  BY InBacklog DEF Init
<1> QED
  BY <1>1, <1>2, FS_EmptySet DEF Counted, PermitsMatch

(* cenq adds a command and owes a permit for it; cdeq takes a command with *)
(* the permit the thread has waited for; everything else leaves the        *)
(* backlog alone and moves permits about.                                  *)
LEMMA CountedStep == IndInv /\ Counted /\ [Next]_vars => Counted'
<1> SUFFICES ASSUME IndInv, Counted, [Next]_vars PROVE Counted'
  OBVIOUS
<1>0. TypeOK /\ LengthIsBacklog
  BY DEF IndInv
<1>1. avail \in Nat
  BY <1>0 DEF TypeOK
<1>2. ASSUME NEW c \in Conns, Cenq(c) PROVE Counted'
  <2> DEFINE u == conn[c].user
             p == <<u, Len(cells[u]) + 1>>
  <2>1. u \in Users /\ UNCHANGED <<start, avail, at>>
    BY <1>0, <1>2, Served DEF Cenq
  <2>2. Posting' = Posting \cup {c} /\ c \notin Posting
    BY <1>0, <1>2 DEF Cenq, GoTo, Posting, TypeOK
  <2>3. /\ Len(cells[u]) \in Nat /\ start[u] \in Nat /\ start[u] <= Len(cells[u])
        /\ Len(cells'[u]) = Len(cells[u]) + 1
        /\ \A v \in Users : v # u => cells'[v] = cells[v]
    BY <1>0, <1>2, <2>1 DEF Cenq, TypeOK, LengthIsBacklog
  <2>4. Backlog' = Backlog \cup {p} /\ p \notin Backlog
    <3>1. p \notin Backlog
      BY <2>1, <2>3, InBacklog
    <3>2. start[u] + 1 .. Len(cells'[u]) = (start[u] + 1 .. Len(cells[u])) \cup {Len(cells[u]) + 1}
      BY <2>3
    <3>3. Backlog' = UNION {{v} \X (start[v] + 1 .. Len(cells'[v])) : v \in Users}
      BY <2>1 DEF Backlog
    <3>4. Backlog' = Backlog \cup {p}
      BY <2>1, <2>3, <3>2, <3>3 DEF Backlog
    <3> QED
      BY <3>1, <3>4
  <2>5. Holders' = Holders
    BY <2>1 DEF Holders
  <2> QED
    <3>1. IsFiniteSet(Backlog') /\ Cardinality(Backlog') = Cardinality(Backlog) + 1 /\ Cardinality(Backlog) \in Nat
      BY <2>4, OneMore DEF Counted
    <3>2. Cardinality(Posting') = Cardinality(Posting) + 1
      BY <2>2, OneMore, CountedFinite
    <3> QED
      BY <1>1, <2>1, <2>5, <3>1, <3>2, CountedFinite DEF Counted, PermitsMatch
<1>3. ASSUME NEW t \in Threads, Cdeq(t) PROVE Counted'
  <2> DEFINE u == Here(t)
             p == <<u, start[u] + 1>>
  <2>1. u \in Users /\ UNCHANGED <<cells, avail, conn>>
    BY <1>0, <1>3 DEF Cdeq, Jump, Here, TypeOK
  <2>2. Holders' = Holders \ {t} /\ t \in Holders
    BY <1>0, <1>3 DEF Cdeq, Jump, Holders, TypeOK
  <2>3. /\ Len(cells[u]) \in Nat /\ start[u] \in Nat /\ start[u] + 1 <= Len(cells[u])
        /\ start'[u] = start[u] + 1
        /\ \A v \in Users : v # u => start'[v] = start[v]
    BY <1>0, <1>3, <2>1 DEF Cdeq, TypeOK, LengthIsBacklog
  <2>4. Backlog' = Backlog \ {p} /\ p \in Backlog
    <3>1. p \in Backlog
      BY <2>1, <2>3, InBacklog
    <3>2. start'[u] + 1 .. Len(cells[u]) = (start[u] + 1 .. Len(cells[u])) \ {start[u] + 1}
      BY <2>3
    <3>3. Backlog' = UNION {{v} \X (start'[v] + 1 .. Len(cells[v])) : v \in Users}
      BY <2>1 DEF Backlog
    <3>4. Backlog' = Backlog \ {p}
      BY <2>1, <2>3, <3>2, <3>3 DEF Backlog
    <3> QED
      BY <3>1, <3>4
  <2>5. Posting' = Posting
    BY <2>1 DEF Posting
  <2> QED
    <3>1. IsFiniteSet(Backlog') /\ Cardinality(Backlog') = Cardinality(Backlog) - 1 /\ Cardinality(Backlog) \in Nat
      BY <2>4, OneLess DEF Counted
    <3>2. Cardinality(Holders') = Cardinality(Holders) - 1
      BY <2>2, OneLess, CountedFinite
    <3> QED
      BY <1>1, <2>1, <2>5, <3>1, <3>2, CountedFinite DEF Counted, PermitsMatch
<1>4. CASE UNCHANGED <<cells, start>>
  <2>1. Backlog' = Backlog
    BY <1>4 DEF Backlog
  <2>2. ASSUME NEW c \in Conns, CenqPost(c) PROVE Counted'
    <3>1. Posting' = Posting \ {c} /\ c \in Posting /\ Holders' = Holders /\ avail' = avail + 1
      BY <1>0, <2>2 DEF CenqPost, Posting, Holders, TypeOK, Idle
    <3>2. Cardinality(Posting') = Cardinality(Posting) - 1
      BY <3>1, OneLess, CountedFinite
    <3> QED
      BY <1>1, <2>1, <3>1, <3>2, CountedFinite DEF Counted, PermitsMatch
  <2>3. ASSUME NEW t \in Threads, Start(t) \/ Take(t) PROVE Counted'
    <3>1. Holders' = Holders \cup {t} /\ t \notin Holders /\ Posting' = Posting /\ avail' = avail - 1
      BY <1>0, <2>3 DEF Start, Take, Jump, Posting, Holders, TypeOK
    <3>2. Cardinality(Holders') = Cardinality(Holders) + 1
      BY <3>1, OneMore, CountedFinite
    <3> QED
      BY <1>1, <2>1, <3>1, <3>2, CountedFinite DEF Counted, PermitsMatch
  <2>4. ASSUME NEW t \in Threads, Repost(t) PROVE Counted'
    <3>1. Holders' = Holders \ {t} /\ t \in Holders /\ Posting' = Posting /\ avail' = avail + 1
      BY <1>0, <2>4 DEF Repost, Jump, Posting, Holders, TypeOK
    <3>2. Cardinality(Holders') = Cardinality(Holders) - 1
      BY <3>1, OneLess, CountedFinite
    <3> QED
      BY <1>1, <2>1, <3>1, <3>2, CountedFinite DEF Counted, PermitsMatch
  <2>5. CASE Holders' = Holders /\ Posting' = Posting /\ avail' = avail
    BY <2>1, <2>5 DEF Counted, PermitsMatch
  <2>6. ASSUME NEW c \in Conns, Connection(c), ~Cenq(c), ~CenqPost(c)
        PROVE  Holders' = Holders /\ Posting' = Posting /\ avail' = avail
    <3>1. UNCHANGED <<at, avail>> /\ conn[c].pc # "post"
      BY <1>0, <2>6 DEF Connection, Receive, AddUser, Loaded, Inserted, Idle
    <3>2. conn'[c].pc # "post" /\ \A d \in Conns : d # c => conn'[d] = conn[d]
      BY <1>0, <2>6 DEF Connection, Receive, AddUser, Loaded, Inserted, GoTo, TypeOK
    <3> QED
      BY <3>1, <3>2 DEF Holders, Posting
  <2>7. ASSUME NEW t \in Threads, First(t) \/ Leave(t) \/ Scan(t) \/ Miss(t) \/ Executed(t)
        PROVE  Holders' = Holders /\ Posting' = Posting /\ avail' = avail
    BY <1>0, <2>7 DEF First, Leave, Scan, Miss, Executed, TryLock, Jump, Holders, Posting, TypeOK
  <2>8. CASE TriggerThread \/ UNCHANGED vars
    BY <2>5, <2>8 DEF TriggerThread, TriggerVisit, TriggerDone, vars, Holders, Posting
  <2> QED
    BY <1>2, <1>3, <2>2, <2>3, <2>4, <2>5, <2>6, <2>7, <2>8 DEF Next, Connection, Thread
<1> QED
  BY <1>2, <1>3, <1>4, QueueSteps

(* The permits always match the commands: for any number of users, command *)
(* threads and connections no thread walks the ring in vain, and no queued *)
(* command is left without a permit that will make a thread look for it.   *)
THEOREM PermitsAlwaysMatch == Spec => []PermitsMatch
<1>1. Init => IndInv /\ Counted
  BY IndInit, CountedInit
<1>2. IndInv /\ Counted /\ [Next]_vars => (IndInv /\ Counted)'
  BY IndStep, CountedStep
<1>3. IndInv /\ Counted => PermitsMatch
  BY DEF Counted
<1> QED
  BY <1>1, <1>2, <1>3, PTL DEF Spec

-----------------------------------------------------------------------------
(* CommandQueue implements SerialCommands.                                 *)

(* A thread that executes a command has taken one from the user's queue.   *)
RunsOne == \A t \in Threads : at[t] = "run" => start[Here(t)] > 0
RefInv == IndInv /\ RunsOne

RunsAt(t, u) == at[t] = "run" /\ Here(t) = u

(* What a thread that runs has: a user of its own, and a command.          *)
LEMMA Runner ==
    ASSUME RefInv, NEW t \in Threads, NEW u \in Users, RunsAt(t, u)
    PROVE  /\ lock[u] = t /\ start[u] \in DOMAIN cells[u]
           /\ Executing(u) = cells[u][start[u]]
           /\ Executing(u) \in Command /\ Executing(u) # Nobody
<1>0. TypeOK /\ OneAtATime /\ LengthIsBacklog /\ RunsOne
  BY DEF RefInv, IndInv
<1>1. start[u] \in DOMAIN cells[u]
  BY <1>0 DEF RunsAt, RunsOne, LengthIsBacklog, TypeOK
<1>2. lock[u] = t
  BY <1>0 DEF OneAtATime, RunsAt
<1>3. Executing(u) = cells[u][start[u]]
  BY DEF Executing, RunsAt
<1> QED
  BY <1>0, <1>1, <1>2, <1>3, CellsAreCommands, BoundAssumption, NamesAssumption

(* Nothing is executed for a user whom no thread runs for.                 *)
LEMMA NoRunner ==
    ASSUME NEW u \in Users, \A t \in Threads : ~RunsAt(t, u)
    PROVE  Executing(u) = Nobody
  BY DEF Executing, RunsAt

(* A step that leaves the runners and the taken commands alone.            *)
LEMMA SameExecuting ==
    ASSUME RefInv, NEW u \in Users,
           \A t \in Threads : RunsAt(t, u)' <=> RunsAt(t, u),
           start'[u] = start[u],
           \A i \in DOMAIN cells[u] : cells'[u][i] = cells[u][i]
    PROVE  Executing(u)' = Executing(u)
<1>1. CASE \E t \in Threads : RunsAt(t, u)
  <2>1. Executing(u)' = cells'[u][start'[u]]
    BY <1>1 DEF Executing, RunsAt
  <2> QED
    BY <1>1, <2>1, Runner
<1>2. CASE ~\E t \in Threads : RunsAt(t, u)
  BY <1>2 DEF Executing, RunsAt
<1> QED
  BY <1>1, <1>2

(* The ring only grows at its end.                                         *)
LEMMA RingKept ==
    ASSUME RefInv, [Next]_vars
    PROVE  \A i \in DOMAIN ring : ring'[i] = ring[i]
<1>0. TypeOK
  BY DEF RefInv, IndInv
<1>1. ASSUME NEW c \in Conns, AddUser(c), conn[c].user \notin InRing
      PROVE  \A i \in DOMAIN ring : ring'[i] = ring[i]
  <2>1. conn[c].user \in Users /\ ring' = Append(ring, conn[c].user)
    BY <1>0, <1>1, Served DEF AddUser
  <2>2. ring \in Seq(Users)
    BY <1>0 DEF TypeOK
  <2> QED
    BY <2>1, <2>2
<1>2. ASSUME NEW c \in Conns, Connection(c), ~(AddUser(c) /\ conn[c].user \notin InRing)
      PROVE  ring' = ring
  BY <1>2 DEF Connection, Receive, AddUser, Loaded, Inserted, Cenq, CenqPost
<1>3. ASSUME NEW t \in Threads, Thread(t) PROVE ring' = ring
  BY <1>3 DEF Thread, Start, First, Repost, Leave, Take, Scan, Miss, Cdeq, Executed, TryLock
<1>4. CASE TriggerThread \/ UNCHANGED vars
  BY <1>4 DEF TriggerThread, TriggerVisit, TriggerDone, vars
<1> QED
  BY <1>1, <1>2, <1>3, <1>4 DEF Next

(* Only Cdeq makes a thread run, and only Executed ends it; a running      *)
(* thread stays where it is.                                               *)
LEMMA RunnersStep ==
    ASSUME RefInv, [Next]_vars, NEW t \in Threads, NEW u \in Users, ~Cdeq(t), ~Executed(t)
    PROVE  RunsAt(t, u)' <=> RunsAt(t, u)
<1>0. TypeOK
  BY DEF RefInv, IndInv
<1>1. (at'[t] = "run" <=> at[t] = "run") /\ (at[t] = "run" => cur'[t] = cur[t])
  <2>1. ASSUME NEW s \in Threads, Thread(s)
        PROVE  (at'[t] = "run" <=> at[t] = "run") /\ (at[t] = "run" => cur'[t] = cur[t])
    <3>1. CASE s = t
      BY <1>0, <2>1, <3>1 DEF Thread, Start, First, Repost, Leave, Take, Scan, Miss, TryLock, Jump,
                              Step, TypeOK
    <3>2. CASE s # t
      BY <1>0, <2>1, <3>2 DEF Thread, Start, First, Repost, Leave, Take, Scan, Miss, Cdeq, Executed,
                              TryLock, Jump, Step, TypeOK
    <3> QED
      BY <3>1, <3>2
  <2>2. (\E c \in Conns : Connection(c)) \/ TriggerThread \/ UNCHANGED vars => UNCHANGED <<at, cur>>
    BY DEF Connection, Receive, AddUser, Loaded, Inserted, Cenq, CenqPost, TriggerThread,
           TriggerVisit, TriggerDone, vars
  <2> QED
    BY <2>1, <2>2 DEF Next
<1>2. at[t] = "run" => cur[t] \in DOMAIN ring
  BY <1>0 DEF TypeOK
<1> QED
  BY <1>1, <1>2, RingKept DEF RunsAt, Here

(* The invariant with RunsOne is inductive.                                *)
LEMMA RefStep == RefInv /\ [Next]_vars => RefInv'
<1> SUFFICES ASSUME RefInv, [Next]_vars PROVE RunsOne'
  BY IndStep DEF RefInv
<1>0. TypeOK /\ RunsOne
  BY DEF RefInv, IndInv
<1>1. \A u \in Users : start[u] \in Nat /\ start'[u] \in Nat /\ start'[u] >= start[u]
  <2>1. \A u \in Users : start[u] \in Nat
    BY <1>0 DEF TypeOK
  <2>2. start' = start \/ \E t \in Threads : Cdeq(t)
    BY QueueSteps DEF Cenq
  <2>3. ASSUME NEW t \in Threads, Cdeq(t)
        PROVE  \A u \in Users : start'[u] \in Nat /\ start'[u] >= start[u]
    BY <1>0, <2>3 DEF Cdeq, TypeOK
  <2> QED
    BY <2>1, <2>2, <2>3
<1>2. ASSUME NEW t \in Threads, at'[t] = "run" PROVE start'[Here(t)'] > 0
  <2>1. CASE Cdeq(t)
    <3>1. Here(t)' = Here(t) /\ Here(t) \in Users
      BY <1>0, <2>1 DEF Cdeq, Jump, Here, TypeOK
    <3> QED
      BY <1>0, <2>1, <3>1 DEF Cdeq, TypeOK
  <2>2. CASE Executed(t)
    BY <1>0, <1>2, <2>2 DEF Executed, Jump, TypeOK
  <2>3. CASE ~Cdeq(t) /\ ~Executed(t)
    <3>1. Here(t)' \in Users
      BY <1>2, TypeStep DEF RefInv, Here, TypeOK
    <3> DEFINE u == Here(t)'
    <3>2. at[t] = "run" /\ Here(t) = Here(t)'
      BY <1>2, <2>3, <3>1, RunnersStep DEF RunsAt, RefInv
    <3> QED
      BY <1>0, <1>1, <3>1, <3>2 DEF RunsOne
  <2> QED
    BY <2>1, <2>2, <2>3
<1> QED
  BY <1>2 DEF RunsOne

(* The number of a connection's last queued command changes in cenq alone. *)
LEMMA QueuedStep ==
    ASSUME RefInv, [Next]_vars, NEW c \in Conns, ~Cenq(c)
    PROVE  Queued(c)' = Queued(c)
<1>0. TypeOK
  BY DEF RefInv, IndInv
<1>1. ASSUME NEW d \in Conns, Connection(d) PROVE Queued(c)' = Queued(c)
  <2>1. CASE c # d
    BY <1>0, <1>1, <2>1 DEF Connection, Receive, AddUser, Loaded, Inserted, Cenq, CenqPost, GoTo,
                            TypeOK, Queued
  <2>2. CASE c = d /\ \E u \in Users : Receive(d, u)
    <3>1. PICK u \in Users : Receive(c, u)
      BY <2>2
    <3>2. sent[c] \in Nat /\ sent'[c] = sent[c] + 1 /\ conn[c].pc = "recv"
      BY <1>0, <3>1, BoundAssumption DEF Receive, TypeOK, Idle
    <3>3. conn'[c].pc \in {"add", "cenq"}
      BY <1>0, <3>1 DEF Receive, GoTo, TypeOK
    <3> QED
      BY <3>2, <3>3 DEF Queued
  <2>3. CASE c = d /\ ~(\E u \in Users : Receive(d, u))
    <3>1. sent' = sent
      BY <1>1, <2>3 DEF Connection, AddUser, Loaded, Inserted, Cenq, CenqPost
    <3>2. (conn'[c].pc \in {"recv", "post"}) <=> (conn[c].pc \in {"recv", "post"})
      BY <1>0, <1>1, <2>3 DEF Connection, AddUser, Loaded, Inserted, CenqPost, GoTo, TypeOK, Idle
    <3> QED
      BY <3>1, <3>2 DEF Queued
  <2> QED
    BY <2>1, <2>2, <2>3
<1>2. (\E t \in Threads : Thread(t)) \/ TriggerThread \/ UNCHANGED vars => UNCHANGED <<conn, sent>>
  BY DEF Thread, Start, First, Repost, Leave, Take, Scan, Miss, Cdeq, Executed, TryLock,
         TriggerThread, TriggerVisit, TriggerDone, vars
<1> QED
  BY <1>1, <1>2 DEF Next, Queued

(* cenq is Submit.                                                         *)
LEMMA CenqSubmits ==
    ASSUME RefInv, [Next]_vars, NEW c \in Conns, Cenq(c),
           NEW u \in Users, u = conn[c].user,
           NEW cmd, cmd = [conn |-> c, n |-> sent[c]]
    PROVE  Serial!Next
<1>0. TypeOK /\ SentFirst /\ LengthIsBacklog
  BY DEF RefInv, IndInv
<1>1. cells' = [cells EXCEPT ![u] = Append(@, cmd)] /\ UNCHANGED <<start, at, cur, ring>>
  BY DEF Cenq
<1>2. Queued(c) = sent[c] - 1 /\ Queued(c)' = sent[c] /\ sent[c] \in 1 .. MaxSent
  BY <1>0, BoundAssumption DEF Cenq, GoTo, Queued, TypeOK, SentFirst, Sending
<1>3. ASSUME NEW d \in Conns, d # c PROVE Queued(d)' = Queued(d)
  BY <1>0, <1>3 DEF Cenq, GoTo, Queued, TypeOK
<1>4. \A v \in Users : v # u => cells'[v] = cells[v]
  BY <1>0, <1>1 DEF TypeOK
<1>5. /\ Len(cells[u]) \in Nat /\ start[u] \in Nat /\ start[u] <= Len(cells[u])
      /\ Len(cells'[u]) = Len(cells[u]) + 1 /\ DOMAIN cells[u] = 1 .. Len(cells[u])
      /\ \A i \in DOMAIN cells[u] : cells'[u][i] = cells[u][i]
      /\ cells'[u][Len(cells[u]) + 1] = cmd
  <2>1. cells[u] \in Seq(Command) /\ cells'[u] = Append(cells[u], cmd) /\ start[u] \in Nat
    BY <1>0, <1>1 DEF TypeOK
  <2>2. start[u] <= Len(cells[u])
    BY <1>0, <1>1, <2>1 DEF LengthIsBacklog, TypeOK
  <2> QED
    BY <2>1, <2>2
<1>6. Waiting(u)' = Waiting(u) \cup {cmd}
  <2>1. start[u] + 1 .. Len(cells'[u]) = (start[u] + 1 .. Len(cells[u])) \cup {Len(cells[u]) + 1}
    <3>1. \A s, n \in Nat : s <= n => s + 1 .. n + 1 = (s + 1 .. n) \cup {n + 1}
      OBVIOUS
    <3> QED
      BY <1>5, <3>1
  <2>2. \A i \in start[u] + 1 .. Len(cells[u]) : cells'[u][i] = cells[u][i]
    BY <1>5
  <2>3. Waiting(u)' = {cells'[u][i] : i \in start[u] + 1 .. Len(cells'[u])}
    BY <1>1 DEF Waiting
  <2> QED
    <3> DEFINE old == start[u] + 1 .. Len(cells[u])
               new == Len(cells[u]) + 1
    <3>1. start[u] + 1 .. Len(cells'[u]) = old \cup {new}
      BY <2>1
    <3> HIDE DEF old, new
    <3>2. {cells'[u][i] : i \in old \cup {new}} = {cells'[u][i] : i \in old} \cup {cells'[u][new]}
      OBVIOUS
    <3>3. {cells'[u][i] : i \in old} = {cells[u][i] : i \in old}
      BY <2>2 DEF old
    <3> QED
      BY <1>5, <2>3, <3>1, <3>2, <3>3 DEF Waiting, old, new
<1>7. ASSUME NEW v \in Users, v # u PROVE Waiting(v)' = Waiting(v)
  BY <1>1, <1>4, <1>7 DEF Waiting
<1>8. ASSUME NEW v \in Users PROVE Executing(v)' = Executing(v)
  <2>1. \A t \in Threads : RunsAt(t, v)' <=> RunsAt(t, v)
    BY <1>1 DEF RunsAt, Here
  <2>2. \A i \in DOMAIN cells[v] : cells'[v][i] = cells[v][i]
    BY <1>4, <1>5
  <2> QED
    BY <1>1, <2>1, <2>2, SameExecuting
<1>9. Serial!Submit(c, u)
  <2>1. [d \in Conns |-> Queued(d)]' = [[d \in Conns |-> Queued(d)] EXCEPT ![c] = @ + 1]
    <3>1. Queued(c)' = Queued(c) + 1
      BY <1>2, BoundAssumption
    <3> QED
      BY <1>3, <3>1
  <2>2. [v \in Users |-> Waiting(v)]' = [[v \in Users |-> Waiting(v)] EXCEPT ![u] = @ \cup {cmd}]
    BY <1>1, <1>6, <1>7
  <2>3. [v \in Users |-> Executing(v)]' = [v \in Users |-> Executing(v)]
    BY <1>8
  <2>4. Queued(c) < MaxSent /\ Queued(c) + 1 = sent[c]
    BY <1>2, BoundAssumption
  <2> QED
    BY <1>1, <2>1, <2>2, <2>3, <2>4 DEF Serial!Submit
<1> QED
  BY <1>1, <1>9 DEF Serial!Next

(* cdeq is Begin: the first element is the oldest of its connection.       *)
LEMMA CdeqBegins ==
    ASSUME RefInv, [Next]_vars, NEW t \in Threads, Cdeq(t),
           NEW u \in Users, u = Here(t), NEW k, k = start[u] + 1,
           NEW cmd, cmd = cells[u][k]
    PROVE  Serial!Next
<1>0. TypeOK /\ OneAtATime /\ LengthIsBacklog /\ InOrder
  BY DEF RefInv, IndInv
<1>1. UNCHANGED <<cells, ring, cur, conn, sent>>
  BY <1>0 DEF Cdeq, Jump, Here, TypeOK
<1>2. start' = [start EXCEPT ![u] = k] /\ start[u] \in Nat /\ Len(cells[u]) \in Nat
      /\ k <= Len(cells[u]) /\ DOMAIN cells[u] = 1 .. Len(cells[u])
  BY <1>0, <1>1 DEF Cdeq, TypeOK, LengthIsBacklog
<1>3. \A i \in k + 1 .. Len(cells[u]) : cells[u][i].conn = cmd.conn => cmd.n < cells[u][i].n
  BY <1>0, <1>1, <1>2 DEF InOrder
<1>4. cmd \in Command /\ cmd.conn \in Conns /\ cmd.n \in Int
  BY <1>0, <1>1, <1>2, CellsAreCommands, BoundAssumption
<1>5. start[u] + 1 .. Len(cells[u]) = {k} \cup (k + 1 .. Len(cells[u]))
  BY <1>2
<1>6. Waiting(u)' = Waiting(u) \ {cmd} /\ cmd \in Waiting(u)
  <2>1. Waiting(u)' = {cells[u][i] : i \in k + 1 .. Len(cells[u])}
    BY <1>0, <1>1, <1>2 DEF Waiting, Here, TypeOK
  <2>2. Waiting(u) = {cells[u][i] : i \in k + 1 .. Len(cells[u])} \cup {cmd}
    BY <1>5 DEF Waiting
  <2>3. \A i \in k + 1 .. Len(cells[u]) : cells[u][i] # cmd
    BY <1>3, <1>4
  <2> QED
    BY <2>1, <2>2, <2>3
<1>7. Serial!IsNext(cmd, Waiting(u))
  <2>1. \A i \in start[u] + 1 .. Len(cells[u]) : cells[u][i].conn = cmd.conn => cmd.n <= cells[u][i].n
    <3>1. \A i \in k + 1 .. Len(cells[u]) : cells[u][i].n \in Int
      BY <1>0, <1>1, <1>2, CellsAreCommands, BoundAssumption
    <3>2. \A i \in start[u] + 1 .. Len(cells[u]) : i = k \/ i \in k + 1 .. Len(cells[u])
      BY <1>3, <1>5
    <3>3. \A i \in k + 1 .. Len(cells[u]) : cells[u][i].conn = cmd.conn => cmd.n <= cells[u][i].n
      BY <1>3, <1>4, <1>5, <3>1
    <3>4. cells[u][k].conn = cmd.conn => cmd.n <= cells[u][k].n
      BY <1>4
    <3> QED
      BY <3>2, <3>3, <3>4
  <2> QED
    BY <2>1 DEF Serial!IsNext, Waiting
<1>8. ASSUME NEW s \in Threads, RunsAt(s, u) PROVE FALSE
  <2>1. lock[u] = s /\ lock[u] = t
    BY <1>0, <1>8, Runner DEF Cdeq, Jump, OneAtATime
  <2> QED
    BY <1>8, <2>1 DEF Cdeq, Jump, RunsAt
<1>9. Executing(u) = Nobody /\ Executing(u)' = cmd
  <2>1. Executing(u) = Nobody
    BY <1>1, <1>8, NoRunner
  <2>2. at'[t] = "run" /\ Here(t)' = u /\ start'[u] = k
    BY <1>0, <1>1, <1>2 DEF Cdeq, Jump, Here, TypeOK
  <2> QED
    BY <1>1, <2>1, <2>2 DEF Executing
<1>10. ASSUME NEW v \in Users, v # u
       PROVE  Waiting(v)' = Waiting(v) /\ Executing(v)' = Executing(v)
  <2>1. start'[v] = start[v]
    BY <1>0, <1>2, <1>10 DEF TypeOK
  <2>2. \A s \in Threads : RunsAt(s, v)' <=> RunsAt(s, v)
    <3>1. SUFFICES ASSUME NEW s \in Threads PROVE RunsAt(s, v)' <=> RunsAt(s, v)
      OBVIOUS
    <3>2. Here(s)' = Here(s)
      BY <1>1 DEF Here
    <3>3. CASE s = t
      BY <1>10, <3>2, <3>3 DEF RunsAt
    <3>4. CASE s # t
      BY <1>0, <3>2, <3>4 DEF Cdeq, Jump, RunsAt, TypeOK
    <3> QED
      BY <3>3, <3>4
  <2> QED
    BY <1>1, <2>1, <2>2, SameExecuting DEF Waiting
<1>11. Serial!Begin(u, cmd)
  <2>1. [v \in Users |-> Waiting(v)]' = [[v \in Users |-> Waiting(v)] EXCEPT ![u] = @ \ {cmd}]
    BY <1>6, <1>10
  <2>2. [v \in Users |-> Executing(v)]' = [[v \in Users |-> Executing(v)] EXCEPT ![u] = cmd]
    BY <1>9, <1>10
  <2>3. [d \in Conns |-> Queued(d)]' = [d \in Conns |-> Queued(d)]
    BY <1>1 DEF Queued
  <2> QED
    BY <1>7, <1>9, <2>1, <2>2, <2>3 DEF Serial!Begin
<1> QED
  BY <1>6, <1>11 DEF Serial!Next

(* The end of a command is End.                                            *)
LEMMA ExecutedEnds ==
    ASSUME RefInv, [Next]_vars, NEW t \in Threads, Executed(t),
           NEW u \in Users, u = Here(t)
    PROVE  Serial!Next
<1>0. TypeOK
  BY DEF RefInv, IndInv
<1>1. UNCHANGED <<cells, start, ring, cur, conn, sent>> /\ at[t] = "run" /\ at'[t] = "leave"
      /\ \A s \in Threads : s # t => at'[s] = at[s]
  BY <1>0 DEF Executed, Jump, TypeOK
<1>2. \A s \in Threads : Here(s)' = Here(s)
  BY <1>1 DEF Here
<1>3. Executing(u) # Nobody
  BY <1>1, Runner DEF RunsAt
<1>4. Executing(u)' = Nobody
  <2>1. \A s \in Threads : RunsAt(s, u) => s = t
    BY <1>1, Runner DEF RunsAt
  <2>2. \A s \in Threads : ~(at'[s] = "run" /\ Here(s)' = u)
    BY <1>1, <1>2, <2>1 DEF RunsAt
  <2> QED
    BY <2>2 DEF Executing
<1>5. ASSUME NEW v \in Users, v # u PROVE Executing(v)' = Executing(v)
  <2>1. \A s \in Threads : RunsAt(s, v)' <=> RunsAt(s, v)
    <3>1. SUFFICES ASSUME NEW s \in Threads PROVE RunsAt(s, v)' <=> RunsAt(s, v)
      OBVIOUS
    <3> QED
      BY <1>1, <1>2, <1>5 DEF RunsAt
  <2> QED
    BY <1>1, <2>1, SameExecuting
<1>6. Serial!End(u)
  <2>1. [v \in Users |-> Executing(v)]' = [[v \in Users |-> Executing(v)] EXCEPT ![u] = Nobody]
    BY <1>4, <1>5
  <2>2. [d \in Conns |-> Queued(d)]' = [d \in Conns |-> Queued(d)]
    BY <1>1 DEF Queued
  <2>3. [v \in Users |-> Waiting(v)]' = [v \in Users |-> Waiting(v)]
    BY <1>1 DEF Waiting
  <2> QED
    BY <1>3, <2>1, <2>2, <2>3 DEF Serial!End
<1> QED
  BY <1>6 DEF Serial!Next

(* Every other step is invisible.                                          *)
LEMMA OthersStutter ==
    ASSUME RefInv, [Next]_vars, \A c \in Conns : ~Cenq(c),
           \A t \in Threads : ~Cdeq(t) /\ ~Executed(t)
    PROVE  UNCHANGED Serial!vars
<1>0. TypeOK
  BY DEF RefInv, IndInv
<1>1. UNCHANGED <<cells, start>>
  BY QueueSteps
<1>2. \A c \in Conns : Queued(c)' = Queued(c)
  BY QueuedStep
<1>3. \A u \in Users : Waiting(u)' = Waiting(u)
  BY <1>1 DEF Waiting
<1>4. ASSUME NEW u \in Users PROVE Executing(u)' = Executing(u)
  <2>1. \A t \in Threads : RunsAt(t, u)' <=> RunsAt(t, u)
    BY RunnersStep
  <2> QED
    BY <1>1, <2>1, SameExecuting
<1> QED
  BY <1>2, <1>3, <1>4 DEF Serial!vars

(* The queues, the locks and the walk of the command threads implement     *)
(* SerialCommands: for any number of users, threads and connections every  *)
(* command is executed at most once, one at a time for each user, and in   *)
(* the order its connection sent it.                                       *)
THEOREM Refinement == Spec => Serialised
<1>1. Init => Serial!Init
  BY DEF Init, Serial!Init, Queued, Waiting, Executing, Idle
<1>2. Init => RefInv
  BY IndInit DEF Init, RefInv, RunsOne
<1>3. RefInv /\ [Next]_vars => [Serial!Next]_(Serial!vars)
  <2> SUFFICES ASSUME RefInv, [Next]_vars PROVE Serial!Next \/ UNCHANGED Serial!vars
    OBVIOUS
  <2>0. TypeOK
    BY DEF RefInv, IndInv
  <2>1. ASSUME NEW c \in Conns, Cenq(c) PROVE Serial!Next
    <3>1. conn[c].user \in Users
      BY <2>0, <2>1, Served DEF Cenq
    <3> QED
      BY <2>1, <3>1, CenqSubmits
  <2>2. ASSUME NEW t \in Threads, Cdeq(t) \/ Executed(t) PROVE Serial!Next
    <3>1. Here(t) \in Users
      BY <2>0, <2>2 DEF Cdeq, Executed, Jump, Here, TypeOK
    <3> QED
      BY <2>2, <3>1, CdeqBegins, ExecutedEnds
  <2> QED
    BY <2>1, <2>2, OthersStutter
<1> QED
  BY <1>1, <1>2, <1>3, RefStep, PTL DEF Spec, Serialised, Serial!Spec
-----------------------------------------------------------------------------
(* The pool of sockets.  Every command is in one queue, at one place.      *)

QueuedForOne ==
    \A u, v \in Users : \A i \in DOMAIN cells[u], j \in DOMAIN cells[v] :
        cells[u][i] = cells[v][j] => u = v /\ i = j

(* cenq, as a change of one queue by a command that is in none.            *)
Takes(u, cmd, k) ==
    /\ u \in Users /\ cmd \in Command /\ k \in Nat
    /\ DOMAIN cells[u] = 1 .. k - 1 /\ DOMAIN cells'[u] = 1 .. k
    /\ cells'[u][k] = cmd
    /\ \A i \in 1 .. k - 1 : cells'[u][i] = cells[u][i]
    /\ \A v \in Users \ {u} : cells'[v] = cells[v]
    /\ \A v \in Users : \A i \in DOMAIN cells[v] : cells[v][i] # cmd

LEMMA CenqAdds ==
    ASSUME IndInv, NEW c \in Conns, Cenq(c),
           NEW u, u = conn[c].user, NEW cmd, cmd = [conn |-> c, n |-> sent[c]],
           NEW k, k = Len(cells[u]) + 1
    PROVE  Takes(u, cmd, k)
<1>0. TypeOK /\ QueuedOnce /\ SentFirst
  BY DEF IndInv
<1>1. u \in Users /\ cells' = [cells EXCEPT ![u] = Append(@, cmd)]
  BY <1>0, Served DEF Cenq
<1>2. LastQueued[c] = sent[c] - 1 /\ sent[c] \in 1 .. MaxSent
  BY <1>0, BoundAssumption DEF Cenq, LastQueued, Queued, TypeOK, SentFirst, Sending
<1>3. cmd \in Command
  BY <1>2 DEF Command
<1>4. cells[u] \in Seq(Command) /\ cells'[u] = Append(cells[u], cmd)
  BY <1>0, <1>1 DEF TypeOK
<1>5. /\ k \in Nat /\ DOMAIN cells[u] = 1 .. k - 1 /\ DOMAIN cells'[u] = 1 .. k
      /\ cells'[u][k] = cmd
      /\ \A i \in 1 .. k - 1 : cells'[u][i] = cells[u][i]
  BY <1>3, <1>4
<1>6. \A v \in Users \ {u} : cells'[v] = cells[v]
  BY <1>0, <1>1 DEF TypeOK
<1>7. ASSUME NEW v \in Users, NEW i \in DOMAIN cells[v], cells[v][i] = cmd PROVE FALSE
  <2>1. cells[v][i].n <= LastQueued[cells[v][i].conn]
    BY <1>0 DEF QueuedOnce
  <2>2. sent[c] <= sent[c] - 1
    BY <2>1, <1>2, <1>7
  <2> QED
    BY <2>2, <1>2
<1> QED
  BY <1>1, <1>3, <1>5, <1>6, <1>7 DEF Takes

LEMMA ForOneStep == IndInv /\ QueuedForOne /\ [Next]_vars => QueuedForOne'
<1> SUFFICES ASSUME IndInv, QueuedForOne, [Next]_vars PROVE QueuedForOne'
  OBVIOUS
<1>1. ASSUME NEW c \in Conns, Cenq(c) PROVE QueuedForOne'
  <2>1. PICK u, cmd, k : /\ u = conn[c].user /\ cmd = [conn |-> c, n |-> sent[c]]
                         /\ k = Len(cells[u]) + 1
    OBVIOUS
  <2>0. Takes(u, cmd, k)
    BY <2>1, <1>1, CenqAdds
  <2>2. /\ u \in Users /\ k \in Nat
        /\ DOMAIN cells[u] = 1 .. k - 1 /\ DOMAIN cells'[u] = 1 .. k
        /\ cells'[u][k] = cmd
        /\ \A i \in 1 .. k - 1 : cells'[u][i] = cells[u][i]
        /\ \A v \in Users \ {u} : cells'[v] = cells[v]
        /\ \A v \in Users : \A i \in DOMAIN cells[v] : cells[v][i] # cmd
    BY <2>0 DEF Takes
  <2>3. ASSUME NEW v \in Users, NEW i \in DOMAIN cells'[v]
        PROVE  \/ v = u /\ i = k /\ cells'[v][i] = cmd
               \/ i \in DOMAIN cells[v] /\ cells'[v][i] = cells[v][i] /\ cells'[v][i] # cmd
    <3>1. CASE v = u
      <4>1. i = k \/ i \in 1 .. k - 1
        BY <3>1, <2>2
      <4> QED
        BY <4>1, <3>1, <2>2
    <3>2. CASE v # u
      BY <3>2, <2>2
    <3> QED
      BY <3>1, <3>2
  <2>4. ASSUME NEW v \in Users, NEW w \in Users, NEW i \in DOMAIN cells'[v],
               NEW j \in DOMAIN cells'[w],
               cells'[v][i] = cells'[w][j]
        PROVE  v = w /\ i = j
    <3>1. CASE cells'[v][i] = cmd
      BY <3>1, <2>3, <2>4
    <3>2. CASE cells'[v][i] # cmd
      BY <3>2, <2>3, <2>4 DEF QueuedForOne
    <3> QED
      BY <3>1, <3>2
  <2> QED
    BY <2>4 DEF QueuedForOne
<1>2. CASE UNCHANGED cells
  BY <1>2 DEF QueuedForOne
<1> QED
  BY <1>1, <1>2, QueueSteps DEF Cdeq

(* The server under the pool is the server of CommandQueue.                *)
LEMMA PoolStepIsStep == [PoolNext]_webVars => [Next]_vars
<1>1. ServerSteps => Next
  BY DEF ServerSteps, OtherSteps, InsertAcct, UpdateBal, Next, Connection, Thread
<1>2. ASSUME NEW c \in Conns, NEW u \in Users, Recv(c, u) PROVE Next
  BY <1>2 DEF Recv, Next, Connection
<1>3. Accept \/ AcceptFails \/ (\E c \in Conns : Wdeq(c) \/ RecvNothing(c) \/ RecvOther(c)) => UNCHANGED vars
  BY DEF Accept, AcceptFails, Wdeq, RecvNothing, RecvOther, newVars
<1>4. UNCHANGED webVars => UNCHANGED vars
  BY DEF webVars, newVars
<1> QED
  BY <1>1, <1>2, <1>3, <1>4 DEF PoolNext

(* Who may have a socket: webSockList, a thread of the pool, a command that*)
(* a connection has received.  They have open ones, and no two the same.   *)
PoolTyped ==
    /\ accepted \in Nat /\ open \subseteq 1 .. accepted
    /\ waiting \in Seq(Int) /\ serving \in [Conns -> Int] /\ sender \in [Conns -> Seq(Int)]
    /\ \A c \in Conns : Len(sender[c]) = sent[c]
HeldOpen ==
    /\ \A i \in DOMAIN waiting : waiting[i] \in open \cup {Failed}
    /\ \A c \in Conns : serving[c] \in open \cup {Failed, None}
    /\ \A c \in Conns : \A n \in 1 .. sent[c] : sender[c][n] \in open
HeldOnce ==
    /\ \A i, j \in DOMAIN waiting : i # j /\ waiting[i] = waiting[j] => waiting[i] = Failed
    /\ \A c, d \in Conns : c # d /\ serving[c] = serving[d] => serving[c] \in {Failed, None}
    /\ \A i \in DOMAIN waiting, c \in Conns : waiting[i] = serving[c] => waiting[i] = Failed
    /\ \A c, d \in Conns : \A n \in 1 .. sent[c] :
          /\ sender[c][n] # serving[d]
          /\ \A i \in DOMAIN waiting : sender[c][n] # waiting[i]
          /\ \A m \in 1 .. sent[d] : sender[c][n] = sender[d][m] => c = d /\ n = m
PoolInv == IndInv /\ QueuedForOne /\ PoolTyped /\ HeldOpen /\ HeldOnce

LEMMA OpenSockets ==
    ASSUME PoolTyped
    PROVE  /\ Failed \notin open /\ None \notin open /\ accepted + 1 \notin open
           /\ accepted + 1 \in Int /\ accepted + 1 # Failed /\ accepted + 1 # None
           /\ Failed \in Int /\ None \in Int /\ Failed # None
  BY DEF PoolTyped, Failed, None

(* main queues a socket that nobody has: a new one, or -1.                 *)
LEMMA WenqKeeps ==
    ASSUME PoolTyped, HeldOpen, HeldOnce, UNCHANGED <<serving, sender, sent>>,
           NEW s \in Int, s \notin open, s # None, Wenq(s),
           accepted' \in Nat, open' \subseteq 1 .. accepted',
           open \subseteq open', s = Failed \/ s \in open'
    PROVE  PoolTyped' /\ HeldOpen' /\ HeldOnce'
<1>1. PICK k \in Nat : k = Len(waiting) + 1
  BY DEF PoolTyped
<1>2. /\ waiting' \in Seq(Int) /\ DOMAIN waiting = 1 .. k - 1 /\ DOMAIN waiting' = 1 .. k
      /\ waiting'[k] = s
      /\ \A i \in 1 .. k - 1 : waiting'[i] = waiting[i]
  BY <1>1 DEF PoolTyped, Wenq
<1>3. \A i \in DOMAIN waiting' : (i = k /\ waiting'[i] = s) \/ (i \in DOMAIN waiting /\ waiting'[i] = waiting[i])
  BY <1>1, <1>2
<1>4. PoolTyped'
  BY <1>2 DEF PoolTyped
<1>5. HeldOpen'
  BY <1>3 DEF HeldOpen
<1>6. \A i \in DOMAIN waiting : waiting[i] = s => s = Failed
  BY DEF HeldOpen
<1>7. \A c \in Conns : serving[c] = s => s = Failed
  BY DEF HeldOpen
<1>8. \A c \in Conns : \A n \in 1 .. sent[c] : sender[c][n] # s
  BY DEF HeldOpen
<1>9. HeldOnce'
  <2>1. ASSUME NEW i \in DOMAIN waiting', NEW j \in DOMAIN waiting', i # j,
               waiting'[i] = waiting'[j]
        PROVE  waiting'[i] = Failed
    BY <2>1, <1>3, <1>6 DEF HeldOnce
  <2>2. ASSUME NEW i \in DOMAIN waiting', NEW c \in Conns, waiting'[i] = serving[c]
        PROVE  waiting'[i] = Failed
    BY <2>2, <1>3, <1>7 DEF HeldOnce
  <2>3. ASSUME NEW i \in DOMAIN waiting', NEW c \in Conns, NEW n \in 1 .. sent[c]
        PROVE  sender[c][n] # waiting'[i]
    BY <2>3, <1>3, <1>8 DEF HeldOnce
  <2> QED
    BY <2>1, <2>2, <2>3 DEF HeldOnce
<1> QED
  BY <1>4, <1>5, <1>9

(* A thread of the pool takes the oldest socket.                           *)
LEMMA WdeqKeeps ==
    ASSUME PoolTyped, HeldOpen, HeldOnce, NEW c \in Conns, Wdeq(c), UNCHANGED sent
    PROVE  PoolTyped' /\ HeldOpen' /\ HeldOnce'
<1>1. /\ serving[c] = None /\ waiting # <<>>
      /\ serving' = [serving EXCEPT ![c] = Head(waiting)] /\ waiting' = Tail(waiting)
      /\ UNCHANGED <<accepted, open, sender>>
  BY DEF Wdeq
<1>2. PICK k \in Nat : Len(waiting) = k + 1
  <2>1. Len(waiting) \in Nat /\ Len(waiting) # 0
    BY <1>1 DEF PoolTyped
  <2>2. Len(waiting) - 1 \in Nat /\ Len(waiting) = (Len(waiting) - 1) + 1
    BY <2>1
  <2> QED
    BY <2>2
<1>3. /\ waiting' \in Seq(Int) /\ DOMAIN waiting = 1 .. k + 1 /\ DOMAIN waiting' = 1 .. k
      /\ \A i \in 1 .. k : waiting'[i] = waiting[i + 1]
      /\ Head(waiting) = waiting[1] /\ waiting[1] \in Int
  BY <1>1, <1>2 DEF PoolTyped
<1>4. /\ serving'[c] = waiting[1] /\ \A d \in Conns \ {c} : serving'[d] = serving[d]
  BY <1>1, <1>3 DEF PoolTyped
<1>5. /\ 1 \in DOMAIN waiting
      /\ \A i \in DOMAIN waiting' : i + 1 \in DOMAIN waiting /\ i + 1 # 1 /\ waiting'[i] = waiting[i + 1]
  BY <1>2, <1>3
<1>6. \A i, j \in DOMAIN waiting' : i # j => i + 1 # j + 1
  BY <1>3
<1>7. PoolTyped'
  BY <1>1, <1>3 DEF PoolTyped
<1>8. HeldOpen'
  BY <1>1, <1>4, <1>5 DEF HeldOpen
<1>9. HeldOnce'
  <2>1. ASSUME NEW i \in DOMAIN waiting', NEW j \in DOMAIN waiting', i # j,
               waiting'[i] = waiting'[j]
        PROVE  waiting'[i] = Failed
    BY <2>1, <1>5, <1>6 DEF HeldOnce
  <2>2. ASSUME NEW d \in Conns, NEW e \in Conns, d # e, serving'[d] = serving'[e]
        PROVE  serving'[d] \in {Failed, None}
    BY <2>2, <1>4, <1>5 DEF HeldOnce
  <2>3. ASSUME NEW i \in DOMAIN waiting', NEW d \in Conns, waiting'[i] = serving'[d]
        PROVE  waiting'[i] = Failed
    BY <2>3, <1>4, <1>5 DEF HeldOnce
  <2>4. ASSUME NEW d \in Conns, NEW e \in Conns, NEW n \in 1 .. sent[d]
        PROVE  sender[d][n] # serving'[e] /\ \A i \in DOMAIN waiting' : sender[d][n] # waiting'[i]
    BY <2>4, <1>4, <1>5 DEF HeldOnce
  <2> QED
    BY <1>1, <2>1, <2>2, <2>3, <2>4 DEF HeldOnce
<1> QED
  BY <1>7, <1>8, <1>9

(* It closes the socket, or leaves it open for a client that has had its   *)
(* answer.                                                                 *)
LEMMA DoneKeeps ==
    ASSUME PoolTyped, HeldOpen, HeldOnce, NEW c \in Conns, Done(c),
           UNCHANGED <<accepted, waiting, sender, sent>>,
           open' = open \/ open' = open \ {serving[c]}
    PROVE  PoolTyped' /\ HeldOpen' /\ HeldOnce'
<1>1. /\ serving[c] # None /\ serving' = [serving EXCEPT ![c] = None]
  BY DEF Done
<1>2. /\ serving'[c] = None /\ \A d \in Conns \ {c} : serving'[d] = serving[d]
  BY <1>1 DEF PoolTyped
<1>3. PoolTyped'
  BY <1>1, OpenSockets DEF PoolTyped
<1>4. HeldOpen'
  <2>1. \A i \in DOMAIN waiting : waiting[i] = serving[c] => waiting[i] = Failed
    BY DEF HeldOnce
  <2>2. \A d \in Conns \ {c} : serving[d] = serving[c] => serving[d] \in {Failed, None}
    BY DEF HeldOnce
  <2>3. \A d \in Conns : \A n \in 1 .. sent[d] : sender[d][n] # serving[c]
    BY DEF HeldOnce
  <2> QED
    BY <1>2, <2>1, <2>2, <2>3 DEF HeldOpen
<1>5. HeldOnce'
  <2>1. ASSUME NEW d \in Conns, NEW e \in Conns, d # e, serving'[d] = serving'[e]
        PROVE  serving'[d] \in {Failed, None}
    BY <2>1, <1>2 DEF HeldOnce
  <2>2. ASSUME NEW i \in DOMAIN waiting, NEW d \in Conns, waiting[i] = serving'[d]
        PROVE  waiting[i] = Failed
    BY <2>2, <1>2, OpenSockets DEF HeldOnce, HeldOpen
  <2>3. ASSUME NEW d \in Conns, NEW e \in Conns, NEW n \in 1 .. sent[d]
        PROVE  sender[d][n] # serving'[e]
    BY <2>3, <1>2, OpenSockets DEF HeldOnce, HeldOpen
  <2> QED
    BY <2>1, <2>2, <2>3 DEF HeldOnce
<1> QED
  BY <1>3, <1>4, <1>5

(* Or a command takes the socket with it.                                  *)
LEMMA RecvKeeps ==
    ASSUME TypeOK, PoolTyped, HeldOpen, HeldOnce, NEW c \in Conns, NEW u \in Users, Recv(c, u)
    PROVE  PoolTyped' /\ HeldOpen' /\ HeldOnce'
<1>1. /\ serving[c] # None /\ serving[c] # Failed /\ serving' = [serving EXCEPT ![c] = None]
      /\ sender' = [sender EXCEPT ![c] = Append(@, serving[c])]
      /\ sent' = [sent EXCEPT ![c] = @ + 1]
      /\ UNCHANGED <<accepted, open, waiting>>
  BY DEF Recv, Done, Receive
<1>2. /\ serving'[c] = None /\ \A d \in Conns \ {c} : serving'[d] = serving[d]
      /\ serving[c] \in Int /\ serving[c] \in open
  BY <1>1 DEF PoolTyped, HeldOpen
<1>3. PICK k \in Nat : k = sent[c] + 1 /\ Len(sender[c]) = k - 1
  <2>1. sent[c] \in Nat /\ Len(sender[c]) = sent[c]
    BY BoundAssumption DEF PoolTyped, TypeOK
  <2>2. sent[c] + 1 \in Nat /\ Len(sender[c]) = (sent[c] + 1) - 1
    BY <2>1
  <2> QED
    BY <2>2
<1>4. /\ sent'[c] = k /\ sent[c] = k - 1 /\ \A d \in Conns \ {c} : sent'[d] = sent[d] /\ sender'[d] = sender[d]
  BY <1>1, <1>3 DEF PoolTyped, TypeOK
<1>5. /\ sender'[c] \in Seq(Int) /\ Len(sender'[c]) = k /\ sender'[c][k] = serving[c]
      /\ \A n \in 1 .. k - 1 : sender'[c][n] = sender[c][n]
  <2>1. sender[c] \in Seq(Int) /\ sender'[c] = Append(sender[c], serving[c])
    BY <1>1 DEF PoolTyped
  <2> QED
    BY <2>1, <1>2, <1>3
<1>6. ASSUME NEW d \in Conns, NEW n \in 1 .. sent'[d]
      PROVE  \/ d = c /\ n = k /\ sender'[d][n] = serving[c]
             \/ n \in 1 .. sent[d] /\ sender'[d][n] = sender[d][n]
  <2>1. CASE d = c
    <3>1. n = k \/ n \in 1 .. k - 1
      BY <2>1, <1>3, <1>4, <1>6
    <3> QED
      BY <3>1, <2>1, <1>4, <1>5
  <2>2. CASE d # c
    BY <2>2, <1>4, <1>6
  <2> QED
    BY <2>1, <2>2
<1>7. PoolTyped'
  <2>1. serving' \in [Conns -> Int] /\ sender' \in [Conns -> Seq(Int)]
    BY <1>1, <1>5, OpenSockets DEF PoolTyped
  <2>2. \A d \in Conns : Len(sender'[d]) = sent'[d]
    BY <1>4, <1>5 DEF PoolTyped
  <2> QED
    BY <2>1, <2>2, <1>1 DEF PoolTyped
<1>8. \A d \in Conns : \A n \in 1 .. sent'[d] : sender'[d][n] \in open
  BY <1>2, <1>6 DEF HeldOpen
<1>9. HeldOpen'
  BY <1>1, <1>2, <1>8 DEF HeldOpen
<1>10. HeldOnce'
  <2>1. ASSUME NEW d \in Conns, NEW e \in Conns, d # e, serving'[d] = serving'[e]
        PROVE  serving'[d] \in {Failed, None}
    BY <2>1, <1>2 DEF HeldOnce
  <2>2. ASSUME NEW i \in DOMAIN waiting, NEW d \in Conns, waiting[i] = serving'[d]
        PROVE  waiting[i] = Failed
    BY <2>2, <1>2, OpenSockets DEF HeldOnce, HeldOpen
  <2>3. ASSUME NEW d \in Conns, NEW e \in Conns, NEW n \in 1 .. sent'[d]
        PROVE  sender'[d][n] # serving'[e]
    <3>1. sender'[d][n] # None
      BY <1>8, OpenSockets
    <3>2. CASE e # c
      <4>1. serving[c] # serving[e]
        BY <3>2, <1>1 DEF HeldOnce
      <4> QED
        BY <4>1, <3>2, <1>2, <1>6 DEF HeldOnce
    <3> QED
      BY <3>1, <3>2, <1>2
  <2>4. ASSUME NEW d \in Conns, NEW n \in 1 .. sent'[d], NEW i \in DOMAIN waiting
        PROVE  sender'[d][n] # waiting[i]
    <3>1. serving[c] # waiting[i]
      BY <1>1 DEF HeldOnce
    <3> QED
      BY <3>1, <1>6 DEF HeldOnce
  <2>5. ASSUME NEW d \in Conns, NEW e \in Conns, NEW n \in 1 .. sent'[d], NEW m \in 1 .. sent'[e],
               sender'[d][n] = sender'[e][m]
        PROVE  d = e /\ n = m
    <3>1. \A f \in Conns : \A l \in 1 .. sent[f] : sender[f][l] # serving[c]
      BY DEF HeldOnce
    <3>2. CASE n \in 1 .. sent[d] /\ sender'[d][n] = sender[d][n] /\ m \in 1 .. sent[e] /\ sender'[e][m] = sender[e][m]
      <4>1. \A f \in Conns, g \in Conns : \A l \in 1 .. sent[f], o \in 1 .. sent[g] :
                sender[f][l] = sender[g][o] => f = g /\ l = o
        BY DEF HeldOnce
      <4>2. sender[d][n] = sender[e][m]
        BY <3>2, <2>5
      <4> QED
        BY <3>2, <4>1, <4>2
    <3>3. (d = c /\ n = k /\ sender'[d][n] = serving[c]) \/ (n \in 1 .. sent[d] /\ sender'[d][n] = sender[d][n])
      BY <1>6
    <3>4. (e = c /\ m = k /\ sender'[e][m] = serving[c]) \/ (m \in 1 .. sent[e] /\ sender'[e][m] = sender[e][m])
      BY <1>6
    <3> QED
      BY <3>1, <3>2, <3>3, <3>4, <2>5
  <2>6. waiting' = waiting /\ \A i, j \in DOMAIN waiting : i # j /\ waiting[i] = waiting[j] => waiting[i] = Failed
    BY <1>1 DEF HeldOnce
  <2> QED
    BY <2>1, <2>2, <2>3, <2>4, <2>5, <2>6 DEF HeldOnce
<1> QED
  BY <1>7, <1>9, <1>10

LEMMA PoolBegins == PoolInit => PoolInv
<1> SUFFICES ASSUME PoolInit PROVE PoolInv
  OBVIOUS
<1>1. IndInv
  BY IndInit DEF PoolInit, NewInit
<1>2. /\ waiting = <<>> /\ \A c \in Conns : serving[c] = None /\ sender[c] = <<>> /\ sent[c] = 0
      /\ \A u \in Users : cells[u] = <<>>
  <2>1. waiting = <<>> /\ \A c \in Conns : serving[c] = None /\ sender[c] = <<>>
    BY DEF PoolInit
  <2>2. (\A c \in Conns : sent[c] = 0) /\ \A u \in Users : cells[u] = <<>>
    BY DEF PoolInit, NewInit, Init
  <2> QED
    BY <2>1, <2>2
<1>3. waiting \in Seq(Int) /\ \A c \in Conns : sender[c] \in Seq(Int) /\ Len(sender[c]) = 0
  <2>1. <<>> \in Seq(Int) /\ Len(<<>>) = 0
    OBVIOUS
  <2> QED
    BY <1>2, <2>1
<1>4. PoolTyped
  BY <1>2, <1>3 DEF PoolTyped, PoolInit, NewInit, None
<1>5. QueuedForOne /\ HeldOpen /\ HeldOnce
  BY <1>2 DEF QueuedForOne, HeldOpen, HeldOnce
<1> QED
  BY <1>1, <1>4, <1>5 DEF PoolInv

LEMMA PoolStep == PoolInv /\ [PoolNext]_webVars => PoolInv'
<1> SUFFICES ASSUME PoolInv, [PoolNext]_webVars PROVE PoolInv'
  OBVIOUS
<1>0. IndInv /\ TypeOK /\ PoolTyped /\ HeldOpen /\ HeldOnce
  BY DEF PoolInv, IndInv
<1>1. IndInv' /\ QueuedForOne'
  BY PoolStepIsStep, IndStep, ForOneStep DEF PoolInv
<1>2. CASE Accept
  <2>1. /\ accepted' = accepted + 1 /\ open' = open \cup {accepted + 1} /\ Wenq(accepted + 1)
        /\ UNCHANGED <<serving, sender, sent>>
    BY <1>2 DEF Accept, newVars, vars, Wenq
  <2>2. accepted' \in Nat /\ open' \subseteq 1 .. accepted'
    BY <1>0, <2>1 DEF PoolTyped
  <2>3. PoolTyped' /\ HeldOpen' /\ HeldOnce'
    BY <1>0, <2>1, <2>2, OpenSockets, WenqKeeps
  <2> QED
    BY <1>1, <2>3 DEF PoolInv
<1>3. CASE AcceptFails
  <2>1. Wenq(Failed) /\ UNCHANGED <<accepted, open, serving, sender, sent>>
    BY <1>3 DEF AcceptFails, newVars, vars
  <2>2. accepted' \in Nat /\ open' \subseteq 1 .. accepted'
    BY <1>0, <2>1 DEF PoolTyped
  <2>3. PoolTyped' /\ HeldOpen' /\ HeldOnce'
    BY <1>0, <2>1, <2>2, OpenSockets, WenqKeeps
  <2> QED
    BY <1>1, <2>3 DEF PoolInv
<1>4. ASSUME NEW c \in Conns, Wdeq(c) PROVE PoolInv'
  <2>1. UNCHANGED sent
    BY <1>4 DEF Wdeq, newVars, vars
  <2>2. PoolTyped' /\ HeldOpen' /\ HeldOnce'
    BY <1>0, <1>4, <2>1, WdeqKeeps
  <2> QED
    BY <1>1, <2>2 DEF PoolInv
<1>5. ASSUME NEW c \in Conns, RecvNothing(c) \/ RecvOther(c) PROVE PoolInv'
  <2>1. /\ Done(c) /\ UNCHANGED <<accepted, waiting, sender, sent>>
        /\ open' = open \/ open' = open \ {serving[c]}
    BY <1>5 DEF RecvNothing, RecvOther, newVars, vars
  <2>2. PoolTyped' /\ HeldOpen' /\ HeldOnce'
    BY <1>0, <2>1, DoneKeeps
  <2> QED
    BY <1>1, <2>2 DEF PoolInv
<1>6. ASSUME NEW c \in Conns, NEW u \in Users, Recv(c, u) PROVE PoolInv'
  BY <1>0, <1>1, <1>6, RecvKeeps DEF PoolInv
<1>7. CASE (ServerSteps /\ UNCHANGED poolVars) \/ UNCHANGED webVars
  <2>1. UNCHANGED sent
    BY <1>7 DEF ServerSteps, OtherSteps, InsertAcct, UpdateBal, Inserted, Executed, AddUser, Loaded,
                Cenq,
                CenqPost, Start, First, TryLock, Repost, Leave, Take, Scan, Miss, Cdeq,
                TriggerThread, TriggerVisit, TriggerDone, webVars, newVars, vars
  <2>2. UNCHANGED <<accepted, open, waiting, serving, sender>>
    BY <1>7 DEF webVars, poolVars
  <2>3. PoolTyped' /\ HeldOpen' /\ HeldOnce'
    BY <1>0, <2>1, <2>2 DEF PoolTyped, HeldOpen, HeldOnce
  <2> QED
    BY <1>1, <2>3 DEF PoolInv
<1> QED
  BY <1>2, <1>3, <1>4, <1>5, <1>6, <1>7 DEF PoolNext

(* The web server is the other server with a pool of threads for the       *)
(* connections: what is proved of CommandQueue holds for it.               *)
THEOREM PoolIsServer == PoolSpec => Spec
<1>1. PoolInit => Init
  BY DEF PoolInit, NewInit
<1> QED
  BY <1>1, PoolStepIsStep, PTL DEF PoolSpec, Spec

(* A socket belongs to webSockList, to one thread of the pool or to one    *)
(* command, and stays open while it does.                                  *)
THEOREM OneHolderAlways == PoolSpec => []OneHolder
<1>1. PoolInv => OneHolder
  <2> SUFFICES ASSUME PoolInv PROVE OneHolder
    OBVIOUS
  <2>0. TypeOK /\ QueuedOnce /\ QueuedForOne /\ PoolTyped /\ HeldOpen /\ HeldOnce
    BY DEF PoolInv, IndInv
  <2>1. ASSUME NEW x \in Commands
        PROVE  \E u \in Users : \E i \in DOMAIN cells[u] : \E c \in Conns : \E n \in 1 .. sent[c] :
                  /\ x = <<u, i>> /\ cells[u][i] = [conn |-> c, n |-> n]
                  /\ SocketOf(cells[x[1]][x[2]]) = sender[c][n]
    <3>0. PICK u \in Users : x \in {u} \X DOMAIN cells[u]
      BY <2>1 DEF Commands
    <3>1. PICK i \in DOMAIN cells[u] : x = <<u, i>>
      BY <3>0
    <3>2. cells[u][i] \in Command
      BY <2>0, CellsAreCommands, BoundAssumption
    <3>3. PICK c \in Conns, n \in 1 .. MaxSent : cells[u][i] = [conn |-> c, n |-> n]
      <4>1. /\ cells[u][i].conn \in Conns /\ cells[u][i].n \in 1 .. MaxSent
            /\ cells[u][i] = [conn |-> cells[u][i].conn, n |-> cells[u][i].n]
        BY <3>2 DEF Command
      <4> QED
        BY <4>1
    <3>4. n <= Queued(c)
      <4>1. cells[u][i].n <= LastQueued[cells[u][i].conn]
        BY <2>0 DEF QueuedOnce
      <4>2. cells[u][i].n = n /\ cells[u][i].conn = c /\ LastQueued[c] = Queued(c)
        BY <3>3 DEF LastQueued
      <4> QED
        BY <4>1, <4>2
    <3>5. n \in 1 .. sent[c]
      BY <2>0, <3>4, BoundAssumption DEF Queued, TypeOK
    <3>6. SocketOf(cells[x[1]][x[2]]) = sender[c][n]
      BY <3>1, <3>3 DEF SocketOf
    <3> QED
      BY <3>1, <3>3, <3>5, <3>6
  <2>2. ASSUME NEW x \in Commands, NEW y \in Commands,
               SocketOf(cells[x[1]][x[2]]) = SocketOf(cells[y[1]][y[2]])
        PROVE  x = y
    <3>1. PICK u \in Users : \E i \in DOMAIN cells[u] : \E c \in Conns : \E n \in 1 .. sent[c] :
                  /\ x = <<u, i>> /\ cells[u][i] = [conn |-> c, n |-> n]
                  /\ SocketOf(cells[x[1]][x[2]]) = sender[c][n]
      BY <2>1
    <3>2. PICK i \in DOMAIN cells[u], c \in Conns : \E n \in 1 .. sent[c] :
                  /\ x = <<u, i>> /\ cells[u][i] = [conn |-> c, n |-> n]
                  /\ SocketOf(cells[x[1]][x[2]]) = sender[c][n]
      BY <3>1
    <3>3. PICK n \in 1 .. sent[c] :
                  /\ x = <<u, i>> /\ cells[u][i] = [conn |-> c, n |-> n]
                  /\ SocketOf(cells[x[1]][x[2]]) = sender[c][n]
      BY <3>2
    <3>4. PICK v \in Users : \E j \in DOMAIN cells[v] : \E d \in Conns : \E m \in 1 .. sent[d] :
                  /\ y = <<v, j>> /\ cells[v][j] = [conn |-> d, n |-> m]
                  /\ SocketOf(cells[y[1]][y[2]]) = sender[d][m]
      BY <2>1
    <3>5. PICK j \in DOMAIN cells[v], d \in Conns : \E m \in 1 .. sent[d] :
                  /\ y = <<v, j>> /\ cells[v][j] = [conn |-> d, n |-> m]
                  /\ SocketOf(cells[y[1]][y[2]]) = sender[d][m]
      BY <3>4
    <3>6. PICK m \in 1 .. sent[d] :
                  /\ y = <<v, j>> /\ cells[v][j] = [conn |-> d, n |-> m]
                  /\ SocketOf(cells[y[1]][y[2]]) = sender[d][m]
      BY <3>5
    <3>7. sender[c][n] = sender[d][m]
      BY <2>2, <3>3, <3>6
    <3>8. c = d /\ n = m
      BY <2>0, <3>7 DEF HeldOnce
    <3> QED
      BY <2>0, <3>3, <3>6, <3>8 DEF QueuedForOne
  <2>3. ASSUME NEW x \in Commands
        PROVE  /\ SocketOf(cells[x[1]][x[2]]) \in open
               /\ \A c \in Conns : serving[c] # SocketOf(cells[x[1]][x[2]])
    <3>1. PICK c \in Conns : \E n \in 1 .. sent[c] : SocketOf(cells[x[1]][x[2]]) = sender[c][n]
      BY <2>1
    <3>2. PICK n \in 1 .. sent[c] : SocketOf(cells[x[1]][x[2]]) = sender[c][n]
      BY <3>1
    <3>3. sender[c][n] \in open /\ \A d \in Conns : sender[c][n] # serving[d]
      BY <2>0 DEF HeldOpen, HeldOnce
    <3> QED
      BY <3>2, <3>3
  <2>4. /\ \A i, j \in DOMAIN waiting : i # j /\ waiting[i] = waiting[j] => waiting[i] = Failed
        /\ \A c, d \in Conns : c # d /\ serving[c] = serving[d] => serving[c] \in {Failed, None}
        /\ \A i \in DOMAIN waiting, c \in Conns : waiting[i] = serving[c] => waiting[i] = Failed
    BY <2>0 DEF HeldOnce
  <2>5. /\ \A i \in DOMAIN waiting : waiting[i] \in open \cup {Failed}
        /\ \A c \in Conns : serving[c] \in open \cup {Failed, None}
    BY <2>0 DEF HeldOpen
  <2> QED
    BY <2>2, <2>3, <2>4, <2>5 DEF OneHolder
<1> QED
  BY <1>1, PoolBegins, PoolStep, PTL DEF PoolSpec
-----------------------------------------------------------------------------
(* The workload generator.  A line of the script goes from main to the     *)
(* queue of its thread, over the thread's connection and to the server,    *)
(* which has those of a connection as far as they have arrived.            *)

LinesIn(s) == {s[i] : i \in DOMAIN s}
Increasing(s) == \A i, j \in DOMAIN s : i < j /\ s[j] # TheEnd => s[i] < s[j]
Arrived(c) == LinesIn(received[c]) \cup {d \in dumped : ThreadOf(d) = c}

LinesTyped ==
    /\ script \in [1 .. Lines -> Users \cup {DumpLog}] /\ read \in 0 .. Lines
    /\ todo \in [Conns -> Seq(0 .. Lines)]
    /\ inbox \in [Conns -> Seq(1 .. Lines)] /\ received \in [Conns -> Seq(1 .. Lines)]
    /\ reply \in [Conns -> BOOLEAN] /\ broken \in [Conns -> BOOLEAN]
    /\ state \in [Conns -> {"cdeq", "recv", "ended", "dead"}]
    /\ \A c \in Conns : Len(received[c]) = sent[c]
DumpsTyped == \A d \in dumped : d \in 1 .. read /\ script[d] = DumpLog

(* What is where belongs there.                                            *)
RightThread(c) ==
    /\ \A line \in LinesIn(todo[c]) \ {TheEnd} : line \in 1 .. read /\ ThreadOf(line) = c
    /\ \A line \in LinesIn(inbox[c]) : line \in 1 .. read /\ ThreadOf(line) = c
    /\ \A line \in LinesIn(received[c]) :
          line \in 1 .. read /\ ThreadOf(line) = c /\ script[line] \in Users

(* A thread sends a line when the one before has arrived, ...              *)
OneSent(c) ==
    /\ inbox[c] # <<>> => \E line \in 1 .. Lines : inbox[c] = <<line>>
    /\ ~broken[c] /\ state[c] = "cdeq" => inbox[c] = <<>> /\ ~reply[c]
    /\ ~broken[c] /\ reply[c] => inbox[c] = <<>>

(* ... none of its lines is lost while it works and its connection does,   *)
NoneLost(c) ==
    ~broken[c] /\ state[c] \in {"cdeq", "recv"} =>
        \A line \in 1 .. read : ThreadOf(line) = c =>
            line \in Arrived(c) \cup LinesIn(inbox[c]) \cup LinesIn(todo[c])

(* they come one after the other, ...                                      *)
Sequential(c) ==
    /\ Increasing(received[c]) /\ Increasing(todo[c])
    /\ \A line \in LinesIn(inbox[c]) : \A a \in Arrived(c) : a < line
    /\ \A line \in LinesIn(todo[c]) \ {TheEnd} :
          \A a \in Arrived(c) \cup LinesIn(inbox[c]) : a < line

(* ... and none is left out.                                               *)
NoGap(c) ==
    \A line \in Arrived(c) \cup LinesIn(inbox[c]) :
        \A before \in 1 .. line - 1 : ThreadOf(before) = c => before \in Arrived(c)

Flows(c) == RightThread(c) /\ OneSent(c) /\ NoneLost(c) /\ Sequential(c) /\ NoGap(c)
LinesInv == LinesTyped /\ DumpsTyped /\ \A c \in Conns : Flows(c)

(* What has arrived is a command in a queue, or that of the connection.    *)
ServesLine == \A c \in Conns : conn[c].pc # "recv" => conn[c].user = script[received[c][sent[c]]]
InItsQueue ==
    \A c \in Conns : \A n \in 1 .. Queued(c) :
        \E i \in DOMAIN cells[script[received[c][n]]] :
            cells[script[received[c][n]]][i] = [conn |-> c, n |-> n]
OfItsUser == \A u \in Users : \A i \in DOMAIN cells[u] : script[LineOf(cells[u][i])] = u
DumpedAfter ==
    \A d \in dumped : \A n \in 1 .. sent[ThreadOf(d)] :
        received[ThreadOf(d)][n] < d => n <= Queued(ThreadOf(d))

ScriptInv == RefInv /\ LinesInv /\ ServesLine /\ InItsQueue /\ OfItsUser /\ DumpedAfter

(* The row is there before a command is in the queue, and is the balance   *)
(* unless a command is being executed.                                     *)
Inserting(u) == \E c \in Conns : conn[c].user = u /\ conn[c].pc \in {"load", "insert"}
RowFirst ==
    /\ row \in [Users -> Int]
    /\ \A u \in InRing : row[u] # NoRow \/ Inserting(u)
    /\ \A c \in Conns : conn[c].pc \in {"cenq", "post"} => row[conn[c].user] # NoRow
    /\ \A u \in Users : cells[u] # <<>> => row[u] # NoRow
RowFollows ==
    \A u \in Users : row[u] # NoRow =>
        row[u] = start[u] \/ \E t \in Threads : RunsAt(t, u)

(* Sequences of lines, as sets of lines in order.                          *)
LEMMA AppendLine ==
    ASSUME NEW S, NEW s \in Seq(S), NEW x \in S
    PROVE  LinesIn(Append(s, x)) = LinesIn(s) \cup {x}
<1>1. PICK k \in Nat : Len(s) = k
  OBVIOUS
<1>2. /\ DOMAIN s = 1 .. k /\ DOMAIN Append(s, x) = 1 .. k + 1
      /\ Append(s, x)[k + 1] = x /\ \A i \in 1 .. k : Append(s, x)[i] = s[i]
  BY <1>1
<1>3. 1 .. k + 1 = 1 .. k \cup {k + 1}
  BY <1>1
<1> QED
  BY <1>2, <1>3 DEF LinesIn

LEMMA AppendHigher ==
    ASSUME NEW S \in SUBSET Int, NEW s \in Seq(S), NEW x \in S, Increasing(s), \A a \in LinesIn(s) : a < x
    PROVE  Increasing(Append(s, x))
<1>1. PICK k \in Nat : Len(s) = k
  OBVIOUS
<1>2. /\ DOMAIN s = 1 .. k /\ DOMAIN Append(s, x) = 1 .. k + 1
      /\ Append(s, x)[k + 1] = x /\ \A i \in 1 .. k : Append(s, x)[i] = s[i]
  BY <1>1
<1>3. ASSUME NEW i \in 1 .. k + 1, NEW j \in 1 .. k + 1, i < j, Append(s, x)[j] # TheEnd
      PROVE  Append(s, x)[i] < Append(s, x)[j]
  <2>1. i \in 1 .. k
    BY <1>3
  <2>2. CASE j = k + 1
    <3>1. s[i] \in LinesIn(s)
      BY <2>1, <1>2 DEF LinesIn
    <3> QED
      BY <2>1, <2>2, <3>1, <1>2
  <2>3. CASE j \in 1 .. k
    BY <1>2, <1>3, <2>1, <2>3 DEF Increasing
  <2> QED
    BY <1>1, <1>3, <2>2, <2>3
<1> QED
  BY <1>2, <1>3 DEF Increasing

(* A NULL at the end is no line.                                           *)
LEMMA AppendEnd ==
    ASSUME NEW S \in SUBSET Int, NEW s \in Seq(S), TheEnd \in S, Increasing(s)
    PROVE  Increasing(Append(s, TheEnd))
<1>1. PICK k \in Nat : Len(s) = k
  OBVIOUS
<1>2. /\ DOMAIN s = 1 .. k /\ DOMAIN Append(s, TheEnd) = 1 .. k + 1
      /\ Append(s, TheEnd)[k + 1] = TheEnd
      /\ \A i \in 1 .. k : Append(s, TheEnd)[i] = s[i]
  BY <1>1 DEF TheEnd
<1>3. ASSUME NEW i \in 1 .. k + 1, NEW j \in 1 .. k + 1, i < j, Append(s, TheEnd)[j] # TheEnd
      PROVE  Append(s, TheEnd)[i] < Append(s, TheEnd)[j]
  <2>1. j \in 1 .. k /\ i \in 1 .. k
    BY <1>2, <1>3
  <2> QED
    BY <1>2, <1>3, <2>1 DEF Increasing
<1> QED
  BY <1>2, <1>3 DEF Increasing

LEMMA TailLines ==
    ASSUME NEW S, NEW s \in Seq(S), s # <<>>
    PROVE  /\ Tail(s) \in Seq(S) /\ Head(s) \in S /\ Head(s) \in LinesIn(s)
           /\ LinesIn(s) = {Head(s)} \cup LinesIn(Tail(s))
<1>1. PICK k \in Nat : Len(s) = k + 1
  <2>1. Len(s) - 1 \in Nat /\ Len(s) = (Len(s) - 1) + 1
    OBVIOUS
  <2> QED
    BY <2>1
<1>2. /\ DOMAIN s = 1 .. k + 1 /\ DOMAIN Tail(s) = 1 .. k /\ Head(s) = s[1]
      /\ \A i \in 1 .. k : Tail(s)[i] = s[i + 1]
      /\ Tail(s) \in Seq(S) /\ Head(s) \in S
  BY <1>1
<1>3. \A i \in 1 .. k + 1 : i = 1 \/ (i - 1 \in 1 .. k /\ (i - 1) + 1 = i)
  BY <1>1
<1>4. ASSUME NEW i \in DOMAIN s PROVE s[i] \in {Head(s)} \cup LinesIn(Tail(s))
  <2>1. CASE i = 1
    BY <2>1, <1>2
  <2>2. CASE i - 1 \in 1 .. k /\ (i - 1) + 1 = i
    <3>1. s[i] = Tail(s)[i - 1] /\ i - 1 \in DOMAIN Tail(s)
      BY <2>2, <1>2
    <3> QED
      BY <3>1 DEF LinesIn
  <2> QED
    BY <1>2, <1>3, <2>1, <2>2
<1>5. 1 \in 1 .. k + 1 /\ \A i \in 1 .. k : i + 1 \in 1 .. k + 1
  BY <1>1
<1>6. {Head(s)} \cup LinesIn(Tail(s)) \subseteq LinesIn(s)
  BY <1>2, <1>5 DEF LinesIn
<1>7. Head(s) \in LinesIn(s)
  BY <1>6
<1>8. LinesIn(s) \subseteq {Head(s)} \cup LinesIn(Tail(s))
  BY <1>4 DEF LinesIn
<1> QED
  BY <1>2, <1>6, <1>7, <1>8

LEMMA TailHigher ==
    ASSUME NEW S \in SUBSET Int, NEW s \in Seq(S), s # <<>>, Increasing(s)
    PROVE  /\ Increasing(Tail(s))
           /\ \A line \in LinesIn(Tail(s)) \ {TheEnd} : Head(s) < line
<1>1. PICK k \in Nat : Len(s) = k + 1
  <2>1. Len(s) - 1 \in Nat /\ Len(s) = (Len(s) - 1) + 1
    OBVIOUS
  <2> QED
    BY <2>1
<1>2. /\ DOMAIN s = 1 .. k + 1 /\ DOMAIN Tail(s) = 1 .. k /\ Head(s) = s[1]
      /\ \A i \in 1 .. k : Tail(s)[i] = s[i + 1]
  BY <1>1
<1>3. ASSUME NEW i \in 1 .. k, NEW j \in 1 .. k, i < j, Tail(s)[j] # TheEnd
      PROVE  Tail(s)[i] < Tail(s)[j]
  <2>1. i + 1 \in DOMAIN s /\ j + 1 \in DOMAIN s /\ i + 1 < j + 1
    BY <1>2, <1>3
  <2> QED
    BY <1>2, <1>3, <2>1 DEF Increasing
<1>4. ASSUME NEW i \in 1 .. k, Tail(s)[i] # TheEnd
      PROVE  Head(s) < Tail(s)[i]
  <2>1. 1 \in DOMAIN s /\ i + 1 \in DOMAIN s /\ 1 < i + 1
    BY <1>2, <1>4
  <2> QED
    BY <1>2, <1>4, <2>1 DEF Increasing
<1> QED
  BY <1>2, <1>3, <1>4 DEF Increasing, LinesIn

LEMMA NoLines == LinesIn(<<>>) = {} /\ Increasing(<<>>)
  BY DEF LinesIn, Increasing
LEMMA OneLine == ASSUME NEW x PROVE LinesIn(<<x>>) = {x}
  BY DEF LinesIn

(* userSort returns one of the threads.                                    *)
LEMMA ThreadOfLine ==
    ASSUME WorkloadAssumption, FiniteAssumption, LinesTyped, NEW line \in 1 .. Lines
    PROVE  ThreadOf(line) \in Conns
<1>1. NUM_THREADS \in Nat \ {0}
  BY FS_EmptySet, FS_CardinalityType DEF WorkloadAssumption, FiniteAssumption, NUM_THREADS
<1>2. \A n \in Nat : n % NUM_THREADS \in 0 .. NUM_THREADS - 1
  BY <1>1
<1>3. script[line] = DumpLog \/ Sum[script[line]] \in Nat
  BY DEF WorkloadAssumption, LinesTyped
<1>4. Conns = 0 .. NUM_THREADS - 1
  BY DEF WorkloadAssumption
<1>5. CASE script[line] = DumpLog
  BY <1>1, <1>4, <1>5 DEF ThreadOf, UserSort
<1>6. CASE script[line] # DumpLog
  <2>1. ThreadOf(line) = Sum[script[line]] % NUM_THREADS
    BY <1>6 DEF ThreadOf, UserSort
  <2>2. Sum[script[line]] % NUM_THREADS \in 0 .. NUM_THREADS - 1
    BY <1>2, <1>3, <1>6
  <2> QED
    BY <1>4, <2>1, <2>2
<1> QED
  BY <1>5, <1>6

(* The server under the generator is the server of CommandQueue.           *)
LEMMA LoadStepIsStep ==
    ASSUME LinesTyped, [WorkloadNext]_loadVars
    PROVE  [Next]_vars
<1>1. Main \/ (\E c \in Conns : CommHandler(c) \/ Break(c) \/ ServeDump(c)) => UNCHANGED vars
  BY DEF Main, ReadLine, Close, CommHandler, Send, SendFails, RecvReply, RecvFails, Finish, Break,
         ServeDump, newVars
<1>2. ASSUME NEW c \in Conns, ServeCommand(c) PROVE Next
  <2>1. inbox[c] \in Seq(1 .. Lines) /\ inbox[c] # <<>>
    BY <1>2 DEF LinesTyped, ServeCommand, TakesAll
  <2>2. Head(inbox[c]) \in 1 .. Lines
    BY <2>1, TailLines
  <2>3. script[Head(inbox[c])] \in Users
    BY <1>2, <2>2 DEF LinesTyped, ServeCommand
  <2> QED
    BY <1>2, <2>3 DEF ServeCommand, Next, Connection
<1>3. ASSUME NEW c \in Conns, InsertAcct(c) \/ AddUser(c) \/ Loaded(c) \/ Cenq(c) \/ CenqPost(c)
      PROVE  Next
  BY <1>3 DEF InsertAcct, Next, Connection
<1>4. ASSUME NEW t \in Threads, CommandHandler(t) PROVE Next
  BY <1>4 DEF CommandHandler, UpdateBal, Next, Thread
<1>5. TriggerThread => Next
  BY DEF Next
<1>6. UNCHANGED loadVars => UNCHANGED vars
  BY DEF loadVars, newVars
<1> QED
  BY <1>1, <1>2, <1>3, <1>4, <1>5, <1>6 DEF WorkloadNext, ConnectionHandler

(* Which steps concern the lines.                                          *)
LineStep ==
    \/ ReadLine \/ Close
    \/ \E c \in Conns : \/ Send(c) \/ SendFails(c) \/ RecvReply(c) \/ RecvFails(c) \/ Finish(c)
                        \/ Break(c) \/ ServeCommand(c) \/ ServeDump(c)
LEMMA LineSteps ==
    ASSUME [WorkloadNext]_loadVars
    PROVE  LineStep \/ UNCHANGED <<clientVars, lineVars, serverVars, sent>>
<1>1. ASSUME NEW c \in Conns, InsertAcct(c) \/ AddUser(c) \/ Loaded(c) \/ Cenq(c) \/ CenqPost(c)
      PROVE  UNCHANGED sent
  BY <1>1 DEF InsertAcct, Inserted, AddUser, Loaded, Cenq, CenqPost
<1>2. ASSUME NEW t \in Threads, CommandHandler(t)
      PROVE  UNCHANGED <<clientVars, lineVars, serverVars, sent>>
  BY <1>2 DEF CommandHandler, UpdateBal, Executed, Thread, Start, First, TryLock, Repost, Leave,
              Take,
              Scan, Miss, Cdeq
<1>3. TriggerThread => UNCHANGED sent
  BY DEF TriggerThread, TriggerVisit, TriggerDone
<1>4. UNCHANGED loadVars => UNCHANGED <<clientVars, lineVars, serverVars, sent>>
  BY DEF loadVars, newVars, vars
<1> QED
  BY <1>1, <1>2, <1>3, <1>4 DEF WorkloadNext, ConnectionHandler, Main, CommHandler, LineStep

(* A thread's lines where they were, while another has one more.           *)
LEMMA FlowsOn ==
    ASSUME LinesTyped, NEW c \in Conns, Flows(c), script' = script,
           read' = read \/ (read' = read + 1 /\ ThreadOf(read + 1) # c),
           todo'[c] = todo[c], inbox'[c] = inbox[c], received'[c] = received[c],
           state'[c] = state[c], broken'[c] = broken[c], reply'[c] = reply[c],
           {d \in dumped' : ThreadOf(d) = c} = {d \in dumped : ThreadOf(d) = c}
    PROVE  Flows(c)'
<1>1. \A line : ThreadOf(line)' = ThreadOf(line)
  BY DEF ThreadOf
<1>2. Arrived(c)' = Arrived(c)
  BY <1>1 DEF Arrived
<1>3. \A line \in 1 .. read' : line \in 1 .. read \/ ThreadOf(line) # c
  BY DEF LinesTyped
<1>4. \A line \in 1 .. read : line \in 1 .. read'
  BY DEF LinesTyped
<1>5. RightThread(c)'
  BY <1>1, <1>4 DEF Flows, RightThread
<1>6. OneSent(c)'
  BY DEF Flows, OneSent
<1>7. NoneLost(c)'
  BY <1>1, <1>2, <1>3 DEF Flows, NoneLost
<1>8. Sequential(c)' /\ NoGap(c)'
  BY <1>1, <1>2 DEF Flows, Sequential, NoGap
<1> QED
  BY <1>5, <1>6, <1>7, <1>8 DEF Flows

(* main queues a line.                                                     *)
LEMMA ReadLineKeeps ==
    ASSUME WorkloadAssumption, FiniteAssumption, LinesInv, ReadLine, sent' = sent
    PROVE  LinesInv'
<1>0. LinesTyped /\ DumpsTyped /\ (\A c \in Conns : Flows(c)) /\ Lines \in Nat
  BY DEF LinesInv, WorkloadAssumption
<1>1. /\ read' = read + 1 /\ read' \in 0 .. Lines /\ read + 1 \in 1 .. Lines
      /\ UNCHANGED <<script, state, inbox, reply, broken, received, dumped>>
  BY <1>0 DEF ReadLine, LinesTyped, lineVars, serverVars
<1>2. \A line : ThreadOf(line)' = ThreadOf(line)
  BY <1>1 DEF ThreadOf
<1>3. PICK c \in Conns : c = ThreadOf(read + 1)
  BY <1>0, <1>1, ThreadOfLine
<1>4. todo' = [todo EXCEPT ![c] = Append(@, read + 1)]
  BY <1>1, <1>3 DEF ReadLine, Queue
<1>5. /\ todo'[c] = Append(todo[c], read + 1) /\ todo[c] \in Seq(0 .. Lines)
      /\ \A d \in Conns \ {c} : todo'[d] = todo[d]
  BY <1>0, <1>4 DEF LinesTyped
<1>6. LinesIn(todo'[c]) = LinesIn(todo[c]) \cup {read + 1}
  <2>1. read + 1 \in 0 .. Lines
    BY <1>1
  <2>2. LinesIn(Append(todo[c], read + 1)) = LinesIn(todo[c]) \cup {read + 1}
    BY <1>5, <2>1, AppendLine
  <2> QED
    BY <1>5, <2>2
<1>7. LinesTyped'
  <2>1. read + 1 \in 0 .. Lines /\ todo \in [Conns -> Seq(0 .. Lines)]
    BY <1>0, <1>1 DEF LinesTyped
  <2>2. Append(todo[c], read + 1) \in Seq(0 .. Lines)
    BY <1>5, <2>1
  <2>3. todo' \in [Conns -> Seq(0 .. Lines)]
    BY <1>4, <2>1, <2>2
  <2> QED
    BY <1>0, <1>1, <2>3 DEF LinesTyped
<1>8. DumpsTyped'
  BY <1>0, <1>1 DEF DumpsTyped, LinesTyped
<1>9. Flows(c)'
  <2>0. RightThread(c) /\ OneSent(c) /\ NoneLost(c) /\ Sequential(c) /\ NoGap(c) /\ read \in Nat
    BY <1>0 DEF Flows, LinesTyped
  <2>1. Arrived(c)' = Arrived(c)
    BY <1>1, <1>2 DEF Arrived
  <2>2. \A line : line \in 1 .. read + 1 <=> line \in 1 .. read \/ line = read + 1
    BY <2>0
  <2>3. RightThread(c)'
    BY <1>1, <1>2, <1>3, <1>6, <2>0, <2>2 DEF RightThread
  <2>4. OneSent(c)' /\ NoGap(c)'
    BY <1>1, <1>2, <2>0, <2>1 DEF OneSent, NoGap
  <2>5. NoneLost(c)'
    BY <1>1, <1>2, <1>6, <2>0, <2>1, <2>2 DEF NoneLost
  <2>6. \A line \in Arrived(c) \cup LinesIn(inbox[c]) : line \in 1 .. read
    BY <1>0, <2>0 DEF Arrived, RightThread, DumpsTyped
  <2>7. \A a \in LinesIn(todo[c]) : a < read + 1
    <3>1. \A a \in LinesIn(todo[c]) : a \in 1 .. read \/ a = 0
      BY <2>0 DEF RightThread, TheEnd
    <3> QED
      BY <2>0, <3>1
  <2>8. Increasing(todo'[c])
    <3>1. 0 .. Lines \in SUBSET Int /\ read + 1 \in 0 .. Lines
      BY <1>1
    <3> QED
      BY <1>5, <2>0, <2>7, <3>1, AppendHigher DEF Sequential
  <2>9. Sequential(c)'
    BY <1>1, <1>2, <1>6, <2>0, <2>1, <2>6, <2>8 DEF Sequential
  <2> QED
    BY <2>3, <2>4, <2>5, <2>9 DEF Flows
<1>10. ASSUME NEW d \in Conns \ {c} PROVE Flows(d)'
  BY <1>0, <1>1, <1>3, <1>5, FlowsOn
<1> QED
  BY <1>7, <1>8, <1>9, <1>10 DEF LinesInv

(* main queues a NULL.                                                     *)
LEMMA CloseKeeps ==
    ASSUME WorkloadAssumption, LinesInv, Close, sent' = sent
    PROVE  LinesInv'
<1>0. LinesTyped /\ DumpsTyped /\ (\A c \in Conns : Flows(c)) /\ Lines \in Nat
  BY DEF LinesInv, WorkloadAssumption
<1>1. /\ UNCHANGED <<script, read, state, inbox, reply, broken, received, dumped>>
      /\ todo' = [todo EXCEPT ![closed] = Append(@, TheEnd)]
  BY DEF Close, Queue, lineVars, serverVars
<1>2. \A line : ThreadOf(line)' = ThreadOf(line)
  BY <1>1 DEF ThreadOf
<1>3. LinesTyped'
  <2>1. TheEnd \in 0 .. Lines
    BY <1>0 DEF TheEnd
  <2>2. ASSUME NEW d \in Conns PROVE Append(todo[d], TheEnd) \in Seq(0 .. Lines)
    <3>1. todo[d] \in Seq(0 .. Lines)
      BY <1>0 DEF LinesTyped
    <3> QED
      BY <2>1, <3>1
  <2>3. todo' \in [Conns -> Seq(0 .. Lines)]
    BY <1>0, <1>1, <2>2 DEF LinesTyped
  <2> QED
    BY <1>0, <1>1, <2>3 DEF LinesTyped
<1>4. DumpsTyped'
  BY <1>0, <1>1 DEF DumpsTyped
<1>5. ASSUME NEW d \in Conns, d = closed PROVE Flows(d)'
  <2>0. RightThread(d) /\ OneSent(d) /\ NoneLost(d) /\ Sequential(d) /\ NoGap(d)
    BY <1>0 DEF Flows
  <2>1. Arrived(d)' = Arrived(d)
    BY <1>1, <1>2 DEF Arrived
  <2>2. todo'[d] = Append(todo[d], TheEnd) /\ todo[d] \in Seq(0 .. Lines)
    BY <1>0, <1>1, <1>5 DEF LinesTyped
  <2>3. LinesIn(todo'[d]) = LinesIn(todo[d]) \cup {TheEnd} /\ Increasing(todo'[d])
    <3>1. TheEnd \in 0 .. Lines
      BY <1>0 DEF TheEnd
    <3>2. 0 .. Lines \in SUBSET Int
      OBVIOUS
    <3> QED
      BY <2>0, <2>2, <3>1, <3>2, AppendLine, AppendEnd DEF Sequential
  <2>4. RightThread(d)' /\ OneSent(d)' /\ NoGap(d)'
    BY <1>1, <1>2, <2>0, <2>1, <2>3 DEF RightThread, OneSent, NoGap
  <2>5. NoneLost(d)'
    BY <1>1, <1>2, <2>0, <2>1, <2>3 DEF NoneLost
  <2>6. Sequential(d)'
    BY <1>1, <1>2, <2>0, <2>1, <2>3 DEF Sequential
  <2> QED
    BY <2>4, <2>5, <2>6 DEF Flows
<1>6. ASSUME NEW d \in Conns, d # closed PROVE Flows(d)'
  <2>1. todo'[d] = todo[d]
    BY <1>0, <1>1, <1>6 DEF LinesTyped
  <2> QED
    BY <1>0, <1>1, <2>1, FlowsOn
<1> QED
  BY <1>3, <1>4, <1>5, <1>6 DEF LinesInv

(* What a connection or its thread does leaves the others alone.           *)
LEMMA OthersFlow ==
    ASSUME LinesInv, NEW c \in Conns, script' = script, read' = read, LinesTyped', DumpsTyped', Flows(c)',
           \A d \in Conns \ {c} :
              /\ todo'[d] = todo[d] /\ inbox'[d] = inbox[d] /\ received'[d] = received[d]
              /\ state'[d] = state[d] /\ broken'[d] = broken[d] /\ reply'[d] = reply[d],
           \A d \in dumped' \cup dumped : d \in dumped' \cap dumped \/ ThreadOf(d) = c
    PROVE  LinesInv'
<1>1. ASSUME NEW d \in Conns \ {c} PROVE Flows(d)'
  <2>1. {e \in dumped' : ThreadOf(e) = d} = {e \in dumped : ThreadOf(e) = d}
    OBVIOUS
  <2>2. LinesTyped /\ Flows(d)
    BY DEF LinesInv
  <2> QED
    BY <2>1, <2>2, FlowsOn
<1> QED
  BY <1>1 DEF LinesInv

(* The thread takes a line: the lowest it has not sent.                    *)
LEMMA HeadLine ==
    ASSUME WorkloadAssumption, LinesInv, NEW c \in Conns, todo[c] # <<>>, Head(todo[c]) # TheEnd
    PROVE  /\ Head(todo[c]) \in 1 .. read /\ Head(todo[c]) \in 1 .. Lines /\ ThreadOf(Head(todo[c])) = c
           /\ Head(todo[c]) \in LinesIn(todo[c]) \ {TheEnd}
<1>1. LinesTyped /\ RightThread(c) /\ todo[c] \in Seq(0 .. Lines)
  BY DEF LinesInv, Flows, LinesTyped
<1>2. Head(todo[c]) \in LinesIn(todo[c]) \ {TheEnd}
  BY <1>1, TailLines
<1> QED
  BY <1>1, <1>2 DEF RightThread, LinesTyped, WorkloadAssumption

LEMMA TailOfQueue ==
    ASSUME WorkloadAssumption, LinesInv, NEW c \in Conns, todo[c] # <<>>
    PROVE  /\ Tail(todo[c]) \in Seq(0 .. Lines)
           /\ LinesIn(todo[c]) = {Head(todo[c])} \cup LinesIn(Tail(todo[c]))
           /\ Increasing(Tail(todo[c]))
           /\ \A line \in LinesIn(Tail(todo[c])) \ {TheEnd} : Head(todo[c]) < line
<1>1. todo[c] \in Seq(0 .. Lines) /\ Increasing(todo[c])
  BY DEF LinesInv, LinesTyped, Flows, Sequential
<1>2. 0 .. Lines \in SUBSET Int
  OBVIOUS
<1> QED
  BY <1>1, <1>2, TailLines, TailHigher

LEMMA SendKeeps ==
    ASSUME WorkloadAssumption, LinesInv, NEW c \in Conns, Send(c), sent' = sent
    PROVE  LinesInv'
<1>0. LinesTyped /\ DumpsTyped /\ Flows(c)
  BY DEF LinesInv
<1>1. /\ UNCHANGED <<script, read, reply, broken, received, dumped>>
      /\ todo[c] # <<>> /\ todo' = [todo EXCEPT ![c] = Tail(@)]
      /\ state[c] = "cdeq" /\ state' = [state EXCEPT ![c] = "recv"]
      /\ Head(todo[c]) # TheEnd /\ ~broken[c]
      /\ inbox' = [inbox EXCEPT ![c] = Append(@, Head(todo[c]))]
  BY DEF Send, Dequeue, Becomes, serverVars
<1>2. PICK line \in 1 .. Lines : line = Head(todo[c])
  BY <1>1, HeadLine
<1>3. line \in 1 .. read /\ ThreadOf(line) = c /\ line \in LinesIn(todo[c]) \ {TheEnd}
  BY <1>1, <1>2, HeadLine
<1>4. /\ Tail(todo[c]) \in Seq(0 .. Lines) /\ todo'[c] = Tail(todo[c])
      /\ LinesIn(todo[c]) = {line} \cup LinesIn(todo'[c])
      /\ Increasing(todo'[c]) /\ \A l \in LinesIn(todo'[c]) \ {TheEnd} : line < l
  BY <1>0, <1>1, <1>2, TailOfQueue DEF LinesTyped
<1>5. inbox[c] = <<>> /\ ~reply[c]
  BY <1>0, <1>1 DEF Flows, OneSent
<1>6. inbox'[c] = <<line>> /\ inbox' = [inbox EXCEPT ![c] = <<line>>] /\ LinesIn(inbox'[c]) = {line}
  <2>1. inbox'[c] = Append(<<>>, line) /\ inbox' = [inbox EXCEPT ![c] = Append(<<>>, line)]
    BY <1>0, <1>1, <1>2, <1>5 DEF LinesTyped
  <2>2. Append(<<>>, line) = <<line>>
    OBVIOUS
  <2> QED
    BY <2>1, <2>2, OneLine
<1>7. \A l : ThreadOf(l)' = ThreadOf(l)
  BY <1>1 DEF ThreadOf
<1>8. LinesTyped'
  <2>1. todo' \in [Conns -> Seq(0 .. Lines)]
    BY <1>0, <1>1, <1>4 DEF LinesTyped
  <2>2. <<line>> \in Seq(1 .. Lines)
    OBVIOUS
  <2>3. inbox' \in [Conns -> Seq(1 .. Lines)]
    BY <1>0, <1>6, <2>2 DEF LinesTyped
  <2> QED
    BY <1>0, <1>1, <2>1, <2>3 DEF LinesTyped
<1>9. DumpsTyped'
  BY <1>0, <1>1 DEF DumpsTyped
<1>10. Flows(c)'
  <2>0. RightThread(c) /\ NoneLost(c) /\ Sequential(c) /\ NoGap(c) /\ LinesIn(inbox[c]) = {}
    BY <1>0, <1>5, NoLines DEF Flows
  <2>1. Arrived(c)' = Arrived(c)
    BY <1>1, <1>7 DEF Arrived
  <2>2. RightThread(c)'
    BY <1>1, <1>3, <1>4, <1>6, <1>7, <2>0 DEF RightThread
  <2>3. OneSent(c)'
    BY <1>0, <1>1, <1>5, <1>6 DEF OneSent, LinesTyped
  <2>4. NoneLost(c)'
    BY <1>1, <1>4, <1>6, <1>7, <2>0, <2>1 DEF NoneLost
  <2>5. Sequential(c)'
    <3>1. \A a \in Arrived(c) : a < line
      BY <1>3, <2>0 DEF Sequential
    <3>2. \A l \in LinesIn(todo'[c]) \ {TheEnd} : \A a \in Arrived(c) : a < l
      BY <1>4, <2>0 DEF Sequential
    <3>3. Increasing(received[c]) /\ Increasing(todo'[c])
      BY <1>4, <2>0 DEF Sequential
    <3>4. \A l \in LinesIn(todo'[c]) \ {TheEnd} : \A a \in Arrived(c) \cup {line} : a < l
      BY <1>4, <3>2
    <3>5. /\ \A l \in LinesIn(inbox'[c]) : \A a \in Arrived(c)' : a < l
          /\ \A l \in LinesIn(todo'[c]) \ {TheEnd} : \A a \in Arrived(c)' \cup LinesIn(inbox'[c]) : a < l
      BY <1>6, <2>1, <3>1, <3>4
    <3> QED
      BY <1>1, <3>3, <3>5 DEF Sequential
  <2>6. ASSUME NEW before \in 1 .. line - 1, ThreadOf(before) = c PROVE before \in Arrived(c)
    <3>1. before \in 1 .. read
      BY <1>0, <1>3 DEF LinesTyped, WorkloadAssumption
    <3>2. before \in Arrived(c) \cup LinesIn(todo[c])
      BY <1>1, <2>0, <2>6, <3>1 DEF NoneLost
    <3>3. before \notin LinesIn(todo[c])
      BY <1>4 DEF TheEnd
    <3> QED
      BY <3>2, <3>3
  <2>7. NoGap(c)'
    BY <1>6, <1>7, <2>0, <2>1, <2>6 DEF NoGap
  <2> QED
    BY <2>2, <2>3, <2>4, <2>5, <2>7 DEF Flows
<1>11. \A d \in Conns \ {c} : todo'[d] = todo[d] /\ inbox'[d] = inbox[d] /\ state'[d] = state[d]
  BY <1>0, <1>1 DEF LinesTyped
<1> QED
  BY <1>1, <1>8, <1>9, <1>10, <1>11, OthersFlow

(* The thread stops, with a line taken and not sent or with a NULL.        *)
LEMMA StopKeeps ==
    ASSUME WorkloadAssumption, LinesInv, NEW c \in Conns, SendFails(c) \/ Finish(c), sent' = sent
    PROVE  LinesInv'
<1>0. LinesTyped /\ DumpsTyped /\ Flows(c)
  BY DEF LinesInv
<1>1. PICK end \in {"ended", "dead"} :
         /\ UNCHANGED <<script, read, inbox, reply, broken, received, dumped>>
         /\ todo[c] # <<>> /\ todo' = [todo EXCEPT ![c] = Tail(@)]
         /\ state[c] = "cdeq" /\ state' = [state EXCEPT ![c] = end]
  BY DEF SendFails, Finish, Dequeue, Becomes, lineVars, serverVars
<1>2. /\ Tail(todo[c]) \in Seq(0 .. Lines) /\ todo'[c] = Tail(todo[c])
      /\ LinesIn(todo'[c]) \subseteq LinesIn(todo[c]) /\ Increasing(todo'[c])
  BY <1>0, <1>1, TailOfQueue DEF LinesTyped
<1>3. \A l : ThreadOf(l)' = ThreadOf(l)
  BY <1>1 DEF ThreadOf
<1>4. LinesTyped' /\ DumpsTyped'
  BY <1>0, <1>1, <1>2 DEF LinesTyped, DumpsTyped
<1>5. Flows(c)'
  <2>0. RightThread(c) /\ OneSent(c) /\ Sequential(c) /\ NoGap(c) /\ state'[c] = end
    BY <1>0, <1>1 DEF Flows, LinesTyped
  <2>1. Arrived(c)' = Arrived(c)
    BY <1>1, <1>3 DEF Arrived
  <2>2. RightThread(c)' /\ OneSent(c)'
    BY <1>1, <1>2, <1>3, <2>0 DEF RightThread, OneSent
  <2>3. NoneLost(c)'
    BY <2>0 DEF NoneLost
  <2>4. Sequential(c)'
    BY <1>1, <1>2, <1>3, <2>0, <2>1 DEF Sequential
  <2>5. NoGap(c)'
    BY <1>1, <1>3, <2>0, <2>1 DEF NoGap
  <2> QED
    BY <2>2, <2>3, <2>4, <2>5 DEF Flows
<1>6. \A d \in Conns \ {c} : todo'[d] = todo[d] /\ state'[d] = state[d]
  BY <1>0, <1>1 DEF LinesTyped
<1> QED
  BY <1>1, <1>4, <1>5, <1>6, OthersFlow

(* It has the answer, or its connection has broken.                        *)
LEMMA AnswerKeeps ==
    ASSUME LinesInv, NEW c \in Conns, RecvReply(c) \/ RecvFails(c), sent' = sent
    PROVE  LinesInv'
<1>0. LinesTyped /\ DumpsTyped /\ Flows(c)
  BY DEF LinesInv
<1>1. /\ UNCHANGED <<script, read, todo, inbox, broken, received, dumped>>
      /\ state[c] = "recv"
      /\ \/ /\ reply[c] /\ state' = [state EXCEPT ![c] = "cdeq"]
            /\ reply' = [reply EXCEPT ![c] = FALSE]
         \/ /\ broken[c] /\ state' = [state EXCEPT ![c] = "dead"] /\ reply' = reply
  BY DEF RecvReply, RecvFails, Becomes, lineVars, serverVars
<1>2. \/ reply[c] /\ state'[c] = "cdeq" /\ ~reply'[c]
      \/ broken[c] /\ state'[c] = "dead"
  BY <1>0, <1>1 DEF LinesTyped
<1>3. \A l : ThreadOf(l)' = ThreadOf(l)
  BY <1>1 DEF ThreadOf
<1>4. LinesTyped' /\ DumpsTyped'
  BY <1>0, <1>1 DEF LinesTyped, DumpsTyped
<1>5. Flows(c)'
  <2>0. RightThread(c) /\ OneSent(c) /\ NoneLost(c) /\ Sequential(c) /\ NoGap(c)
    BY <1>0 DEF Flows
  <2>1. Arrived(c)' = Arrived(c)
    BY <1>1, <1>3 DEF Arrived
  <2>2. RightThread(c)'
    BY <1>1, <1>3, <2>0 DEF RightThread
  <2>3. OneSent(c)'
    BY <1>1, <1>2, <2>0 DEF OneSent
  <2>4. NoneLost(c)'
    BY <1>1, <1>2, <1>3, <2>0, <2>1 DEF NoneLost
  <2>5. Sequential(c)' /\ NoGap(c)'
    BY <1>1, <1>3, <2>0, <2>1 DEF Sequential, NoGap
  <2> QED
    BY <2>2, <2>3, <2>4, <2>5 DEF Flows
<1>6. \A d \in Conns \ {c} : state'[d] = state[d] /\ reply'[d] = reply[d]
  BY <1>0, <1>1 DEF LinesTyped
<1> QED
  BY <1>1, <1>4, <1>5, <1>6, OthersFlow

LEMMA BreakKeeps ==
    ASSUME LinesInv, NEW c \in Conns, Break(c), sent' = sent
    PROVE  LinesInv'
<1>0. LinesTyped /\ DumpsTyped /\ Flows(c)
  BY DEF LinesInv
<1>1. /\ UNCHANGED <<script, read, todo, state, received, dumped>>
      /\ broken' = [broken EXCEPT ![c] = TRUE]
      /\ inbox' = inbox \/ inbox' = [inbox EXCEPT ![c] = <<>>]
      /\ \E arrives \in BOOLEAN : reply' = [reply EXCEPT ![c] = @ /\ arrives]
  BY DEF Break, clientVars, serverVars
<1>2. broken'[c] /\ (inbox'[c] = inbox[c] \/ (inbox'[c] = <<>> /\ LinesIn(inbox'[c]) = {}))
  BY <1>0, <1>1, NoLines DEF LinesTyped
<1>3. \A l : ThreadOf(l)' = ThreadOf(l)
  BY <1>1 DEF ThreadOf
<1>4. LinesTyped' /\ DumpsTyped'
  <2>1. broken' \in [Conns -> BOOLEAN] /\ reply' \in [Conns -> BOOLEAN]
    BY <1>0, <1>1 DEF LinesTyped
  <2>2. inbox' \in [Conns -> Seq(1 .. Lines)]
    <3>1. <<>> \in Seq(1 .. Lines)
      OBVIOUS
    <3> QED
      BY <1>0, <1>1, <3>1 DEF LinesTyped
  <2> QED
    BY <1>0, <1>1, <2>1, <2>2 DEF LinesTyped, DumpsTyped
<1>5. Flows(c)'
  <2>0. RightThread(c) /\ OneSent(c) /\ Sequential(c) /\ NoGap(c)
    BY <1>0 DEF Flows
  <2>1. Arrived(c)' = Arrived(c)
    BY <1>1, <1>3 DEF Arrived
  <2>2. RightThread(c)' /\ OneSent(c)' /\ NoneLost(c)'
    BY <1>1, <1>2, <1>3, <2>0 DEF RightThread, OneSent, NoneLost
  <2>3. Sequential(c)' /\ NoGap(c)'
    BY <1>1, <1>2, <1>3, <2>0, <2>1 DEF Sequential, NoGap
  <2> QED
    BY <2>2, <2>3 DEF Flows
<1>6. \A d \in Conns \ {c} : broken'[d] = broken[d] /\ inbox'[d] = inbox[d] /\ reply'[d] = reply[d]
  BY <1>0, <1>1 DEF LinesTyped
<1> QED
  BY <1>1, <1>4, <1>5, <1>6, OthersFlow

(* The server receives the line, for a queue or for its log.               *)
LEMMA ServeKeeps ==
    ASSUME WorkloadAssumption, TypeOK, LinesInv, NEW c \in Conns, ServeCommand(c) \/ ServeDump(c)
    PROVE  LinesInv'
<1>0. LinesTyped /\ DumpsTyped /\ Flows(c)
  BY DEF LinesInv
<1>1. /\ UNCHANGED <<script, read, todo, state, broken>>
      /\ inbox[c] # <<>> /\ inbox' = [inbox EXCEPT ![c] = <<>>]
      /\ reply' = [reply EXCEPT ![c] = ~broken[c]]
  BY DEF ServeCommand, ServeDump, TakesAll, clientVars
<1>2. PICK h \in 1 .. Lines : inbox[c] = <<h>>
  BY <1>0, <1>1 DEF Flows, OneSent
<1>3. Head(inbox[c]) = h /\ LinesIn(inbox[c]) = {h} /\ inbox'[c] = <<>> /\ LinesIn(inbox'[c]) = {}
  <2>1. inbox'[c] = <<>>
    BY <1>0, <1>1 DEF LinesTyped
  <2> QED
    BY <1>2, <2>1, OneLine, NoLines
<1>4. h \in 1 .. read /\ ThreadOf(h) = c
  BY <1>0, <1>3 DEF Flows, RightThread
<1>5. \A l : ThreadOf(l)' = ThreadOf(l)
  BY <1>1 DEF ThreadOf
<1>6. \/ /\ script[h] \in Users /\ received' = [received EXCEPT ![c] = Append(@, h)]
         /\ sent' = [sent EXCEPT ![c] = @ + 1] /\ dumped' = dumped
      \/ /\ script[h] = DumpLog /\ dumped' = dumped \cup {h}
         /\ received' = received /\ sent' = sent
  <2>1. CASE ServeCommand(c)
    <3>1. script[h] # DumpLog
      BY <2>1, <1>3 DEF ServeCommand
    <3> QED
      BY <1>0, <2>1, <3>1, <1>3 DEF ServeCommand, Receive, LinesTyped
  <2>2. CASE ServeDump(c)
    BY <2>2, <1>3 DEF ServeDump, newVars, vars
  <2> QED
    BY <2>1, <2>2
<1>7. /\ received'[c] \in Seq(1 .. Lines) /\ Len(received'[c]) = sent'[c]
      /\ LinesIn(received'[c]) = LinesIn(received[c]) \/ (LinesIn(received'[c]) = LinesIn(received[c]) \cup {h} /\ script[h] \in Users)
      /\ Increasing(received'[c])
      /\ Arrived(c)' = Arrived(c) \cup {h}
  <2>0. /\ received[c] \in Seq(1 .. Lines) /\ Increasing(received[c]) /\ Len(received[c]) = sent[c]
        /\ \A a \in LinesIn(received[c]) : a < h
    BY <1>0, <1>3 DEF LinesTyped, Flows, Sequential, Arrived
  <2>1. CASE received' = [received EXCEPT ![c] = Append(@, h)]
    <3>1. received'[c] = Append(received[c], h)
      BY <1>0, <2>1 DEF LinesTyped
    <3>2. received'[c] \in Seq(1 .. Lines) /\ Len(received'[c]) = Len(received[c]) + 1
      BY <2>0, <3>1
    <3>3. LinesIn(received'[c]) = LinesIn(received[c]) \cup {h}
      BY <2>0, <3>1, AppendLine
    <3>4. 1 .. Lines \in SUBSET Int
      OBVIOUS
    <3>5. Increasing(received'[c])
      BY <2>0, <3>1, <3>4, AppendHigher
    <3>6. CASE dumped' = dumped /\ sent' = [sent EXCEPT ![c] = @ + 1] /\ script[h] \in Users
      <4>1. Arrived(c)' = Arrived(c) \cup {h}
        BY <3>3, <3>6, <1>5 DEF Arrived
      <4> QED
        BY <2>0, <3>2, <3>3, <3>5, <3>6, <4>1 DEF TypeOK
    <3>7. CASE received' = received
      <4>1. Len(received[c]) = Len(received[c]) + 1 /\ Len(received[c]) \in Nat
        BY <2>0, <3>2, <3>7
      <4> QED
        BY <4>1
    <3> QED
      BY <1>6, <3>6, <3>7
  <2>2. CASE received' = received /\ dumped' = dumped \cup {h} /\ sent' = sent
    <3>1. Arrived(c)' = Arrived(c) \cup {h}
      BY <1>4, <1>5, <2>2 DEF Arrived
    <3> QED
      BY <2>0, <2>2, <3>1
  <2> QED
    BY <1>6, <2>1, <2>2
<1>8. \A d \in Conns \ {c} :
         /\ received'[d] = received[d] /\ sent'[d] = sent[d] /\ inbox'[d] = inbox[d] /\ reply'[d] = reply[d]
  BY <1>0, <1>1, <1>6 DEF LinesTyped, TypeOK
<1>9. LinesTyped'
  <2>1. inbox' \in [Conns -> Seq(1 .. Lines)]
    <3>1. <<>> \in Seq(1 .. Lines)
      OBVIOUS
    <3> QED
      BY <1>0, <1>1, <3>1 DEF LinesTyped
  <2>2. received' \in [Conns -> Seq(1 .. Lines)]
    BY <1>0, <1>6, <1>7, <1>8 DEF LinesTyped
  <2>3. reply' \in [Conns -> BOOLEAN]
    BY <1>0, <1>1 DEF LinesTyped
  <2>4. \A d \in Conns : Len(received'[d]) = sent'[d]
    BY <1>0, <1>7, <1>8 DEF LinesTyped
  <2> QED
    BY <1>0, <1>1, <2>1, <2>2, <2>3, <2>4 DEF LinesTyped
<1>10. DumpsTyped'
  BY <1>0, <1>1, <1>4, <1>6 DEF DumpsTyped
<1>11. Flows(c)'
  <2>0. RightThread(c) /\ OneSent(c) /\ NoneLost(c) /\ Sequential(c) /\ NoGap(c)
    BY <1>0 DEF Flows
  <2>1. RightThread(c)'
    BY <1>1, <1>3, <1>4, <1>5, <1>7, <2>0 DEF RightThread
  <2>2. OneSent(c)'
    <3>1. reply'[c] <=> ~broken[c]
      BY <1>0, <1>1 DEF LinesTyped
    <3> QED
      BY <1>1, <1>3, <2>0 DEF OneSent
  <2>3. NoneLost(c)'
    BY <1>1, <1>3, <1>5, <1>7, <2>0 DEF NoneLost
  <2>4. Sequential(c)'
    <3>1. \A line \in LinesIn(todo[c]) \ {TheEnd} : \A a \in Arrived(c) \cup {h} : a < line
      BY <1>3, <2>0 DEF Sequential
    <3> QED
      BY <1>1, <1>3, <1>7, <2>0, <3>1 DEF Sequential
  <2>5. NoGap(c)'
    <3>1. \A line \in Arrived(c) \cup {h} : \A before \in 1 .. line - 1 :
              ThreadOf(before) = c => before \in Arrived(c) \cup {h}
      BY <1>3, <2>0 DEF NoGap
    <3> QED
      BY <1>3, <1>5, <1>7, <3>1 DEF NoGap
  <2> QED
    BY <2>1, <2>2, <2>3, <2>4, <2>5 DEF Flows
<1>12. \A d \in dumped' \cup dumped : d \in dumped' \cap dumped \/ ThreadOf(d) = c
  BY <1>4, <1>6
<1> QED
  BY <1>1, <1>8, <1>9, <1>10, <1>11, <1>12, OthersFlow

LEMMA LinesStep ==
    ASSUME WorkloadAssumption, FiniteAssumption, TypeOK, LinesInv, [WorkloadNext]_loadVars
    PROVE  LinesInv'
<1>1. CASE UNCHANGED <<clientVars, lineVars, serverVars, sent>>
  <2>1. UNCHANGED <<script, read, todo, state, inbox, reply, broken, received, dumped, sent>>
    BY <1>1 DEF clientVars, lineVars, serverVars
  <2>2. \A l : ThreadOf(l)' = ThreadOf(l)
    BY <2>1 DEF ThreadOf
  <2>3. LinesTyped' /\ DumpsTyped'
    BY <2>1 DEF LinesInv, LinesTyped, DumpsTyped
  <2>4. ASSUME NEW c \in Conns PROVE Flows(c)'
    <3>1. LinesTyped /\ Flows(c)
      BY DEF LinesInv
    <3> QED
      BY <2>1, <3>1, FlowsOn
  <2> QED
    BY <2>3, <2>4 DEF LinesInv
<1>2. CASE ReadLine \/ Close
  <2>1. sent' = sent
    BY <1>2 DEF ReadLine, Close, newVars, vars
  <2> QED
    BY <1>2, <2>1, ReadLineKeeps, CloseKeeps
<1>3. ASSUME NEW c \in Conns,
             Send(c) \/ SendFails(c) \/ RecvReply(c) \/ RecvFails(c) \/ Finish(c) \/ Break(c)
      PROVE  LinesInv'
  <2>1. sent' = sent
    BY <1>3 DEF Send, SendFails, RecvReply, RecvFails, Finish, Break, newVars, vars
  <2> QED
    BY <1>3, <2>1, SendKeeps, StopKeeps, AnswerKeeps, BreakKeeps
<1>4. ASSUME NEW c \in Conns, ServeCommand(c) \/ ServeDump(c) PROVE LinesInv'
  BY <1>4, ServeKeeps
<1> QED
  BY <1>1, <1>2, <1>3, <1>4, LineSteps DEF LineStep

LEMMA LinesBegin ==
    ASSUME WorkloadAssumption, WorkloadInit
    PROVE  LinesInv
<1>1. /\ script \in [1 .. Lines -> Users \cup {DumpLog}] /\ read = 0 /\ dumped = {}
      /\ todo = [c \in Conns |-> <<>>] /\ state = [c \in Conns |-> "cdeq"]
      /\ inbox = [c \in Conns |-> <<>>] /\ reply = [c \in Conns |-> FALSE]
      /\ broken = [c \in Conns |-> FALSE] /\ received = [c \in Conns |-> <<>>]
      /\ sent = [c \in Conns |-> 0] /\ Lines \in Nat
  BY DEF WorkloadInit, WorkloadAssumption, NewInit, Init
<1>2. \A S : <<>> \in Seq(S) /\ Len(<<>>) = 0
  OBVIOUS
<1>3. todo \in [Conns -> Seq(0 .. Lines)] /\ inbox \in [Conns -> Seq(1 .. Lines)] /\ received \in [Conns -> Seq(1 .. Lines)]
  BY <1>1, <1>2
<1>4. LinesTyped
  BY <1>1, <1>2, <1>3 DEF LinesTyped
<1>5. DumpsTyped
  BY <1>1 DEF DumpsTyped
<1>6. ASSUME NEW c \in Conns PROVE Flows(c)
  <2>1. /\ todo[c] = <<>> /\ inbox[c] = <<>> /\ received[c] = <<>> /\ ~reply[c]
        /\ LinesIn(<<>>) = {} /\ Increasing(<<>>)
    BY <1>1, NoLines
  <2>2. Arrived(c) = {}
    BY <1>1, <2>1 DEF Arrived
  <2> QED
    BY <1>1, <2>1, <2>2 DEF Flows, RightThread, OneSent, NoneLost, Sequential, NoGap
<1> QED
  BY <1>4, <1>5, <1>6 DEF LinesInv

(* Between the lines a connection goes on with the user it serves.         *)
LEMMA ServesOn ==
    ASSUME TypeOK, LinesTyped, [WorkloadNext]_loadVars, NEW c \in Conns, ~ServeCommand(c)
    PROVE  /\ received'[c] = received[c] /\ sent'[c] = sent[c]
           /\ conn'[c].pc # "recv" => conn[c].pc # "recv" /\ conn'[c].user = conn[c].user
<1>1. CASE UNCHANGED <<conn, sent, received>>
  BY <1>1
<1>2. ASSUME NEW d \in Conns, AddUser(d) \/ Loaded(d) \/ InsertAcct(d) \/ Cenq(d) \/ CenqPost(d),
             UNCHANGED received
      PROVE  /\ received'[c] = received[c] /\ sent'[c] = sent[c]
             /\ conn'[c].pc # "recv" => conn[c].pc # "recv" /\ conn'[c].user = conn[c].user
  <2>1. sent' = sent
    BY <1>2 DEF AddUser, Loaded, InsertAcct, Inserted, Cenq, CenqPost
  <2>2. /\ conn[d].pc # "recv"
        /\ \/ conn' = [conn EXCEPT ![d] = Idle]
           \/ \E pc \in {"load", "insert", "cenq", "post"} :
                 conn' = [conn EXCEPT ![d] = [pc |-> pc, user |-> conn[d].user]]
    BY <1>2 DEF AddUser, Loaded, InsertAcct, Inserted, Cenq, CenqPost, GoTo
  <2>3. conn'[c] = conn[c] \/ (c = d /\ (conn'[c] = Idle \/ conn'[c].user = conn[c].user))
    BY <2>2 DEF TypeOK
  <2> QED
    BY <1>2, <2>1, <2>2, <2>3 DEF Idle
<1>3. ASSUME NEW d \in Conns, ServeCommand(d)
      PROVE  UNCHANGED <<conn[c], sent[c], received[c]>>
  <2>1. c # d
    BY <1>3
  <2> QED
    BY <1>3, <2>1 DEF ServeCommand, Receive, GoTo, TypeOK, LinesTyped
<1>4. ASSUME NEW d \in Conns, ServeDump(d) \/ Break(d) \/ CommHandler(d)
      PROVE  UNCHANGED <<conn, sent, received>>
  BY <1>4 DEF ServeDump, Break, CommHandler, Send, SendFails, RecvReply, RecvFails, Finish, newVars,
              vars, serverVars
<1>5. Main \/ UNCHANGED loadVars => UNCHANGED <<conn, sent, received>>
  BY DEF Main, ReadLine, Close, loadVars, newVars, vars, serverVars
<1>6. ASSUME NEW t \in Threads, CommandHandler(t) PROVE UNCHANGED <<conn, sent, received>>
  BY <1>6 DEF CommandHandler, UpdateBal, Executed, Thread, Start, First, TryLock, Repost, Leave,
              Take,
              Scan, Miss, Cdeq, serverVars
<1>7. TriggerThread /\ UNCHANGED serverVars => UNCHANGED <<conn, sent, received>>
  BY DEF TriggerThread, TriggerVisit, TriggerDone, serverVars
<1>8. ASSUME NEW d \in Conns, ConnectionHandler(d)
      PROVE  /\ received'[c] = received[c] /\ sent'[c] = sent[c]
             /\ conn'[c].pc # "recv" => conn[c].pc # "recv" /\ conn'[c].user = conn[c].user
  <2>1. ServeCommand(d) \/ ServeDump(d)
        \/ ((AddUser(d) \/ Loaded(d) \/ InsertAcct(d) \/ Cenq(d) \/ CenqPost(d)) /\ UNCHANGED received)
    BY <1>8 DEF ConnectionHandler, serverVars
  <2> QED
    BY <2>1, <1>1, <1>2, <1>3, <1>4
<1> QED
  BY <1>1, <1>4, <1>5, <1>6, <1>7, <1>8 DEF WorkloadNext

(* A command that comes, with its line.                                    *)
LEMMA ServesNew ==
    ASSUME TypeOK, LinesInv, NEW c \in Conns, ServeCommand(c)
    PROVE  \E h \in 1 .. Lines :
              /\ conn[c] = Idle /\ conn'[c].user = script[h] /\ conn'[c].pc \in {"add", "cenq"}
              /\ sent'[c] = sent[c] + 1 /\ sent[c] \in Nat /\ Len(received[c]) = sent[c]
              /\ received'[c][sent[c] + 1] = h
              /\ \A n \in 1 .. sent[c] : received'[c][n] = received[c][n]
              /\ h \in LinesIn(inbox[c]) /\ script[h] \in Users
              /\ conn'[c].pc = "cenq" => script[h] \in InRing
              /\ UNCHANGED <<script, dumped, ring, cells, start, row>>
<1>0. LinesTyped /\ Flows(c)
  BY DEF LinesInv
<1>1. PICK h \in 1 .. Lines : inbox[c] = <<h>>
  BY <1>0 DEF ServeCommand, TakesAll, Flows, OneSent
<1>2. Head(inbox[c]) = h /\ LinesIn(inbox[c]) = {h}
  BY <1>1, OneLine
<1>3. /\ conn[c] = Idle /\ conn'[c].user = script[h] /\ conn'[c].pc \in {"add", "cenq"}
      /\ conn'[c].pc = "cenq" => script[h] \in InRing
      /\ sent'[c] = sent[c] + 1 /\ script[h] \in Users
      /\ received'[c] = Append(received[c], h)
      /\ UNCHANGED <<script, dumped, ring, cells, start, row>>
  <2>1. conn' = [conn EXCEPT ![c] = [pc |-> IF script[h] \in InRing THEN "cenq" ELSE "add", user |-> script[h]]]
    BY <1>2 DEF ServeCommand, Receive, GoTo
  <2>2. conn'[c] = [pc |-> IF script[h] \in InRing THEN "cenq" ELSE "add", user |-> script[h]]
    BY <2>1 DEF TypeOK
  <2>3. /\ conn[c] = Idle /\ sent'[c] = sent[c] + 1 /\ script[h] \in Users
        /\ received'[c] = Append(received[c], h)
        /\ UNCHANGED <<script, dumped, ring, cells, start, row>>
    BY <1>0, <1>2 DEF ServeCommand, Receive, TypeOK, LinesTyped, clientVars
  <2> QED
    BY <2>2, <2>3
<1>4. received[c] \in Seq(1 .. Lines) /\ Len(received[c]) = sent[c]
  BY <1>0 DEF LinesTyped
<1>5. /\ sent[c] \in Nat /\ received'[c][sent[c] + 1] = h
      /\ \A n \in 1 .. sent[c] : received'[c][n] = received[c][n]
  BY <1>3, <1>4
<1> QED
  BY <1>2, <1>3, <1>4, <1>5

(* Queues only grow, at their end.                                         *)
LEMMA CellsKept ==
    ASSUME IndInv, [Next]_vars, NEW u \in Users, NEW i \in DOMAIN cells[u]
    PROVE  i \in DOMAIN cells'[u] /\ cells'[u][i] = cells[u][i]
<1>1. ASSUME NEW c \in Conns, Cenq(c) PROVE i \in DOMAIN cells'[u] /\ cells'[u][i] = cells[u][i]
  <2>1. PICK v, cmd, k : /\ v = conn[c].user /\ cmd = [conn |-> c, n |-> sent[c]]
                         /\ k = Len(cells[v]) + 1
    OBVIOUS
  <2>0. Takes(v, cmd, k)
    BY <2>1, <1>1, CenqAdds
  <2>2. /\ k \in Nat
        /\ DOMAIN cells[v] = 1 .. k - 1 /\ DOMAIN cells'[v] = 1 .. k
        /\ \A j \in 1 .. k - 1 : cells'[v][j] = cells[v][j]
        /\ \A w \in Users \ {v} : cells'[w] = cells[w]
    BY <2>0 DEF Takes
  <2> QED
    BY <2>2
<1>2. CASE UNCHANGED cells
  BY <1>2
<1> QED
  BY <1>1, <1>2, QueueSteps DEF Cdeq

(* cenq queues the command that its connection serves.                     *)
LEMMA CenqQueues ==
    ASSUME IndInv, NEW c \in Conns, Cenq(c), NEW u \in Users, NEW i \in DOMAIN cells'[u]
    PROVE  \/ i \in DOMAIN cells[u] /\ cells'[u][i] = cells[u][i]
           \/ u = conn[c].user /\ cells'[u][i] = [conn |-> c, n |-> sent[c]]
<1>1. PICK v, cmd, k : /\ v = conn[c].user /\ cmd = [conn |-> c, n |-> sent[c]]
                       /\ k = Len(cells[v]) + 1
  OBVIOUS
<1>0. Takes(v, cmd, k)
  BY <1>1, CenqAdds
<1>2. /\ v \in Users /\ cmd \in Command /\ k \in Nat
      /\ DOMAIN cells[v] = 1 .. k - 1 /\ DOMAIN cells'[v] = 1 .. k
      /\ cells'[v][k] = cmd
      /\ \A j \in 1 .. k - 1 : cells'[v][j] = cells[v][j]
      /\ \A w \in Users \ {v} : cells'[w] = cells[w]
      /\ \A w \in Users : \A j \in DOMAIN cells[w] : cells[w][j] # cmd
  BY <1>0 DEF Takes
<1>3. CASE u = v
  <2>1. i = k \/ i \in 1 .. k - 1
    BY <1>2, <1>3
  <2> QED
    BY <1>1, <1>2, <1>3, <2>1
<1>4. CASE u # v
  BY <1>2, <1>4
<1> QED
  BY <1>3, <1>4

LEMMA CenqCounts ==
    ASSUME TypeOK, NEW c \in Conns, Cenq(c)
    PROVE  /\ Queued(c) = sent[c] - 1 /\ Queued(c)' = sent[c] /\ sent' = sent
           /\ conn[c].pc = "cenq"
  BY DEF Cenq, Queued, GoTo, TypeOK

LEMMA QueuedType ==
    ASSUME TypeOK, NEW c \in Conns
    PROVE  sent[c] \in Nat /\ Queued(c) \in Int /\ Queued(c) <= sent[c]
<1>1. sent[c] \in Nat
  BY BoundAssumption DEF TypeOK
<1> QED
  BY <1>1 DEF Queued

(* What the server has received stays; a connection's commands are queued  *)
(* one after the other.                                                    *)
LEMMA ReceivedOn ==
    ASSUME BoundAssumption, RefInv, LinesInv, [WorkloadNext]_loadVars, NEW c \in Conns
    PROVE  /\ script' = script /\ sent[c] \in Nat /\ Len(received[c]) = sent[c]
           /\ \A n \in 1 .. sent[c] : received'[c][n] = received[c][n]
           /\ ServeCommand(c) \/ sent'[c] = sent[c]
           /\ Queued(c) \in Int /\ Queued(c) <= sent[c]
           /\ Queued(c)' = Queued(c) \/ (Cenq(c) /\ Queued(c)' = Queued(c) + 1)
<1>0. TypeOK /\ LinesTyped /\ [Next]_vars
  BY LoadStepIsStep DEF RefInv, IndInv, LinesInv
<1>1. sent[c] \in Nat /\ Len(received[c]) = sent[c] /\ Queued(c) \in Int /\ Queued(c) <= sent[c]
  BY <1>0, BoundAssumption DEF TypeOK, LinesTyped, Queued
<1>2. script' = script
  BY LineSteps DEF LineStep, ReadLine, Close, Send, SendFails, RecvReply, RecvFails, Finish, Break,
                   ServeCommand, ServeDump, clientVars
<1>3. ServeCommand(c) \/ (sent'[c] = sent[c] /\ received'[c] = received[c])
  BY <1>0, ServesOn
<1>4. \A n \in 1 .. sent[c] : received'[c][n] = received[c][n]
  BY <1>0, <1>3, ServesNew
<1>5. Queued(c)' = Queued(c) \/ (Cenq(c) /\ Queued(c)' = Queued(c) + 1)
  <2>1. CASE Cenq(c)
    BY <1>0, <1>1, <2>1, CenqCounts
  <2>2. CASE ~Cenq(c)
    BY <1>0, <2>2, QueuedStep
  <2> QED
    BY <2>1, <2>2
<1> QED
  BY <1>1, <1>2, <1>3, <1>4, <1>5

LEMMA ServesLineStep ==
    ASSUME RefInv, LinesInv, ServesLine, [WorkloadNext]_loadVars
    PROVE  ServesLine'
<1>0. TypeOK /\ LinesTyped
  BY DEF RefInv, IndInv, LinesInv
<1>1. ASSUME NEW c \in Conns, conn'[c].pc # "recv"
      PROVE  conn'[c].user = script'[received'[c][sent'[c]]]
  <2>1. script' = script
    BY BoundAssumption, ReceivedOn
  <2>2. CASE ServeCommand(c)
    BY <1>0, <2>1, <2>2, ServesNew
  <2>3. CASE ~ServeCommand(c)
    BY <1>0, <1>1, <2>1, <2>3, ServesOn DEF ServesLine
  <2> QED
    BY <2>2, <2>3
<1> QED
  BY <1>1 DEF ServesLine

(* A line the server has received is one of the user it names.             *)
LEMMA ReceivedLine ==
    ASSUME WorkloadAssumption, LinesInv, NEW c \in Conns, NEW n \in Nat, n \in 1 .. sent[c]
    PROVE  /\ received[c][n] \in LinesIn(received[c]) /\ received[c][n] \in 1 .. read
           /\ received[c][n] \in 1 .. Lines /\ ThreadOf(received[c][n]) = c
           /\ script[received[c][n]] \in Users
<1>1. received[c] \in Seq(1 .. Lines) /\ Len(received[c]) = sent[c] /\ RightThread(c)
  BY DEF LinesInv, LinesTyped, Flows
<1>2. n \in DOMAIN received[c] /\ received[c][n] \in 1 .. Lines
  BY <1>1
<1>3. received[c][n] \in LinesIn(received[c])
  BY <1>2 DEF LinesIn
<1> QED
  BY <1>1, <1>2, <1>3 DEF RightThread

LEMMA InItsQueueStep ==
    ASSUME WorkloadAssumption, BoundAssumption, RefInv, LinesInv, ServesLine, InItsQueue,
           [WorkloadNext]_loadVars
    PROVE  InItsQueue'
<1>0. TypeOK /\ IndInv /\ [Next]_vars
  BY LoadStepIsStep DEF RefInv, IndInv, LinesInv
<1>1. ASSUME NEW c \in Conns, NEW n \in 1 .. Queued(c)', NEW u, u = script'[received'[c][n]]
      PROVE  \E i \in DOMAIN cells'[u] : cells'[u][i] = [conn |-> c, n |-> n]
  <2>1. /\ script' = script /\ sent[c] \in Nat
        /\ \A m \in 1 .. sent[c] : received'[c][m] = received[c][m]
        /\ Queued(c) \in Int /\ Queued(c) <= sent[c]
        /\ Queued(c)' = Queued(c) \/ (Cenq(c) /\ Queued(c)' = Queued(c) + 1)
    BY <1>1, ReceivedOn
  <2>2. CASE n \in 1 .. Queued(c)
    <3>1. n \in Nat /\ n \in 1 .. sent[c]
      BY <2>1, <2>2
    <3>2. u = script[received[c][n]] /\ u \in Users
      BY <1>1, <2>1, <3>1, ReceivedLine
    <3>3. PICK i \in DOMAIN cells[u] : cells[u][i] = [conn |-> c, n |-> n]
      BY <2>2, <3>2 DEF InItsQueue
    <3> QED
      BY <1>0, <3>2, <3>3, CellsKept
  <2>3. CASE n \notin 1 .. Queued(c)
    <3>1. Cenq(c) /\ n = Queued(c) + 1
      BY <2>1, <2>3, <1>1
    <3>2. n = sent[c] /\ conn[c].pc = "cenq" /\ n \in 1 .. sent[c] /\ n \in Nat
      BY <1>0, <1>1, <2>1, <3>1, CenqCounts
    <3>3. u = conn[c].user
      BY <1>1, <2>1, <3>2 DEF ServesLine
    <3>4. PICK k : k = Len(cells[u]) + 1
      OBVIOUS
    <3>5. PICK cmd : cmd = [conn |-> c, n |-> sent[c]]
      OBVIOUS
    <3>6. k \in Nat /\ DOMAIN cells'[u] = 1 .. k /\ cells'[u][k] = cmd /\ DOMAIN cells[u] = 1 .. k - 1
      <4>1. Takes(u, cmd, k)
        BY <1>0, <3>1, <3>3, <3>4, <3>5, CenqAdds
      <4> QED
        BY <4>1 DEF Takes
    <3>7. k \in 1 .. k
      <4>1. Len(cells[u]) \in Nat
        BY <1>0, <3>2, <3>3, Served DEF TypeOK
      <4> QED
        BY <3>4, <4>1
    <3> QED
      BY <3>2, <3>5, <3>6, <3>7
  <2> QED
    BY <2>2, <2>3
<1> QED
  BY <1>1 DEF InItsQueue

LEMMA OfItsUserStep ==
    ASSUME WorkloadAssumption, BoundAssumption, RefInv, LinesInv, ServesLine, OfItsUser,
           [WorkloadNext]_loadVars
    PROVE  OfItsUser'
<1>0. TypeOK /\ IndInv /\ QueuedOnce /\ [Next]_vars
  BY LoadStepIsStep DEF RefInv, IndInv, LinesInv
<1>1. ASSUME NEW u \in Users, NEW i \in DOMAIN cells'[u]
      PROVE  script'[received'[cells'[u][i].conn][cells'[u][i].n]] = u
  <2>1. CASE i \in DOMAIN cells[u] /\ cells'[u][i] = cells[u][i]
    <3>1. PICK c \in Conns, n \in 1 .. MaxSent : cells[u][i] = [conn |-> c, n |-> n]
      <4>1. cells[u][i] \in Command
        BY <1>0, <2>1, CellsAreCommands
      <4>2. /\ cells[u][i].conn \in Conns /\ cells[u][i].n \in 1 .. MaxSent
            /\ cells[u][i] = [conn |-> cells[u][i].conn, n |-> cells[u][i].n]
        BY <4>1 DEF Command
      <4> QED
        BY <4>2
    <3>2. cells[u][i].conn = c /\ cells[u][i].n = n
      BY <3>1
    <3>3. n <= Queued(c)
      BY <1>0, <2>1, <3>2 DEF QueuedOnce, LastQueued
    <3>4. /\ script' = script /\ n \in 1 .. sent[c]
          /\ \A m \in 1 .. sent[c] : received'[c][m] = received[c][m]
      <4>1. /\ script' = script /\ sent[c] \in Nat
            /\ \A m \in 1 .. sent[c] : received'[c][m] = received[c][m]
            /\ Queued(c) \in Int /\ Queued(c) <= sent[c]
        BY ReceivedOn
      <4> QED
        BY <3>3, <4>1, BoundAssumption
    <3>5. script[received[c][n]] = u
      BY <2>1, <3>2 DEF OfItsUser, LineOf
    <3> QED
      BY <2>1, <3>2, <3>4, <3>5
  <2>2. ASSUME NEW c \in Conns, Cenq(c), u = conn[c].user, cells'[u][i] = [conn |-> c,
               n |-> sent[c]]
        PROVE  script'[received'[cells'[u][i].conn][cells'[u][i].n]] = u
    <3>1. /\ script' = script /\ sent[c] \in Nat
          /\ \A m \in 1 .. sent[c] : received'[c][m] = received[c][m]
      BY ReceivedOn
    <3>2. sent[c] \in 1 .. sent[c] /\ conn[c].pc = "cenq"
      BY <1>0, <2>2, <3>1, CenqCounts DEF IndInv, SentFirst, Sending
    <3>3. script[received[c][sent[c]]] = u
      BY <2>2, <3>2 DEF ServesLine
    <3>4. cells'[u][i].conn = c /\ cells'[u][i].n = sent[c]
      BY <2>2
    <3> QED
      BY <3>1, <3>2, <3>3, <3>4
  <2>3. CASE UNCHANGED cells
    <3>1. i \in DOMAIN cells[u] /\ cells'[u][i] = cells[u][i]
      BY <1>1, <2>3
    <3> QED
      BY <2>1, <3>1
  <2>4. ASSUME NEW c \in Conns, Cenq(c)
        PROVE  script'[received'[cells'[u][i].conn][cells'[u][i].n]] = u
    <3>1. \/ i \in DOMAIN cells[u] /\ cells'[u][i] = cells[u][i]
          \/ u = conn[c].user /\ cells'[u][i] = [conn |-> c, n |-> sent[c]]
      BY <1>0, <1>1, <2>4, CenqQueues
    <3> QED
      BY <2>1, <2>2, <2>4, <3>1
  <2> QED
    BY <1>0, <2>3, <2>4, QueueSteps DEF Cdeq
<1> QED
  BY <1>1 DEF OfItsUser, LineOf

LEMMA DumpedAfterStep ==
    ASSUME WorkloadAssumption, BoundAssumption, RefInv, LinesInv, DumpedAfter, [WorkloadNext]_loadVars
    PROVE  DumpedAfter'
<1>0. TypeOK /\ LinesTyped /\ DumpsTyped
  BY DEF RefInv, IndInv, LinesInv
<1>1. script' = script /\ \A l : ThreadOf(l)' = ThreadOf(l)
  <2>1. script' = script
    BY LineSteps DEF LineStep, ReadLine, Close, Send, SendFails, RecvReply, RecvFails, Finish,
                     Break,
                     ServeCommand, ServeDump, clientVars
  <2> QED
    BY <2>1 DEF ThreadOf
<1>2. \A d \in dumped' : d \in dumped \/ (\E c \in Conns : ServeDump(c) /\ d = Head(inbox[c]))
  BY LineSteps DEF LineStep, ReadLine, Close, Send, SendFails, RecvReply, RecvFails, Finish, Break,
                   ServeCommand, ServeDump, serverVars
<1>3. ASSUME NEW d \in dumped', NEW c, c = ThreadOf(d), NEW n \in 1 .. sent'[c], received'[c][n] < d
      PROVE  n <= Queued(c)'
  <2>1. c \in Conns
    <3>1. CASE d \in dumped
      <4>1. d \in 1 .. Lines
        BY <1>0, <3>1 DEF DumpsTyped, LinesTyped, WorkloadAssumption
      <4> QED
        BY <1>0, <1>3, <4>1, ThreadOfLine, FiniteAssumption
    <3>2. ASSUME NEW e \in Conns, ServeDump(e), d = Head(inbox[e]) PROVE c \in Conns
      <4>1. inbox[e] \in Seq(1 .. Lines) /\ inbox[e] # <<>>
        BY <1>0, <3>2 DEF LinesTyped, ServeDump, TakesAll
      <4>2. d \in 1 .. Lines
        BY <3>2, <4>1, TailLines
      <4> QED
        BY <1>0, <1>3, <4>2, ThreadOfLine, FiniteAssumption
    <3> QED
      BY <1>2, <3>1, <3>2
  <2>2. /\ sent[c] \in Nat
        /\ \A m \in 1 .. sent[c] : received'[c][m] = received[c][m]
        /\ ServeCommand(c) \/ sent'[c] = sent[c]
        /\ Queued(c) \in Int /\ Queued(c) <= sent[c]
        /\ Queued(c)' = Queued(c) \/ Queued(c)' = Queued(c) + 1
    BY <2>1, ReceivedOn
  <2>3. CASE d \in dumped /\ n \in 1 .. sent[c]
    <3>1. n <= Queued(c)
      BY <1>3, <2>2, <2>3 DEF DumpedAfter
    <3> QED
      BY <2>2, <3>1
  <2>4. CASE d \in dumped /\ n \notin 1 .. sent[c]
    <3>1. ServeCommand(c)
      BY <1>3, <2>2, <2>4
    <3>2. PICK h \in 1 .. Lines :
             /\ sent'[c] = sent[c] + 1 /\ received'[c][sent[c] + 1] = h /\ h \in LinesIn(inbox[c])
      BY <1>0, <2>1, <3>1, ServesNew
    <3>3. n = sent[c] + 1
      BY <1>3, <2>2, <2>4, <3>2
    <3>4. d \in Arrived(c)
      BY <1>3, <2>4 DEF Arrived
    <3>5. d < h
      BY <2>1, <3>2, <3>4 DEF LinesInv, Flows, Sequential
    <3>6. d \in Int
      BY <2>4, <1>0 DEF DumpsTyped
    <3> QED
      BY <1>3, <3>2, <3>3, <3>5, <3>6
  <2>5. ASSUME NEW e \in Conns, ServeDump(e), d = Head(inbox[e]) PROVE n <= Queued(c)'
    <3>1. /\ inbox[e] \in Seq(1 .. Lines) /\ inbox[e] # <<>> /\ conn[e] = Idle
          /\ conn' = conn /\ sent' = sent
      BY <1>0, <2>5 DEF LinesTyped, ServeDump, TakesAll, newVars, vars
    <3>2. d \in LinesIn(inbox[e])
      BY <2>5, <3>1, TailLines
    <3>3. c = e
      BY <1>3, <3>2 DEF LinesInv, Flows, RightThread
    <3>4. Queued(c)' = sent[c]
      BY <3>1, <3>3 DEF Queued, Idle
    <3> QED
      BY <1>3, <2>2, <3>1, <3>4
  <2> QED
    BY <1>2, <2>3, <2>4, <2>5
<1> QED
  BY <1>1, <1>3 DEF DumpedAfter, Queued

LEMMA ScriptBegins ==
    ASSUME WorkloadAssumption, WorkloadInit
    PROVE  ScriptInv
<1>1. Init
  BY DEF WorkloadInit, NewInit
<1>2. RefInv
  BY <1>1, IndInit DEF RefInv, RunsOne, Init
<1>3. LinesInv
  BY LinesBegin
<1>4. /\ \A c \in Conns : conn[c].pc = "recv" /\ sent[c] = 0
      /\ \A u \in Users : cells[u] = <<>>
      /\ dumped = {}
  BY <1>1 DEF WorkloadInit, Init, Idle
<1>5. ServesLine /\ InItsQueue /\ OfItsUser /\ DumpedAfter
  BY <1>4 DEF ServesLine, InItsQueue, OfItsUser, DumpedAfter, Queued
<1> QED
  BY <1>2, <1>3, <1>5 DEF ScriptInv

LEMMA ScriptStep ==
    ASSUME WorkloadAssumption, BoundAssumption, FiniteAssumption, ScriptInv, [WorkloadNext]_loadVars
    PROVE  ScriptInv'
<1>1. RefInv /\ TypeOK /\ LinesInv /\ LinesTyped /\ ServesLine /\ InItsQueue /\ OfItsUser /\ DumpedAfter
  BY DEF ScriptInv, RefInv, IndInv, LinesInv
<1>2. RefInv'
  BY <1>1, LoadStepIsStep, RefStep
<1>3. LinesInv'
  BY <1>1, LinesStep
<1>4. ServesLine' /\ InItsQueue' /\ OfItsUser' /\ DumpedAfter'
  BY <1>1, ServesLineStep, InItsQueueStep, OfItsUserStep, DumpedAfterStep
<1> QED
  BY <1>2, <1>3, <1>4 DEF ScriptInv

(* A line before one that has arrived has arrived, over the same thread's  *)
(* connection, and is in its queue if the other is or has been dumped.     *)
LEMMA InOneOfTheQueues ==
    ASSUME ScriptInv, WorkloadAssumption, NEW c \in Conns, NEW line, line \in Arrived(c),
           script[line] # DumpLog
    PROVE  \E n \in 1 .. sent[c] : received[c][n] = line
<1>0. LinesTyped /\ DumpsTyped
  BY DEF ScriptInv, LinesInv
<1>1. line \notin dumped
  BY <1>0 DEF DumpsTyped
<1>2. PICK n \in DOMAIN received[c] : received[c][n] = line
  BY <1>1 DEF Arrived, LinesIn
<1>3. received[c] \in Seq(1 .. Lines) /\ Len(received[c]) = sent[c]
  BY <1>0 DEF LinesTyped
<1> QED
  BY <1>2, <1>3

LEMMA ScriptKept ==
    ASSUME ScriptInv, WorkloadAssumption, BoundAssumption, FiniteAssumption
    PROVE  KeepsScript
<1>0. /\ TypeOK /\ QueuedOnce /\ InOrder /\ LinesInv /\ LinesTyped /\ DumpsTyped
      /\ InItsQueue /\ OfItsUser /\ DumpedAfter
  BY DEF ScriptInv, RefInv, IndInv, LinesInv
<1>1. ASSUME NEW c \in Conns, NEW n \in 1 .. Queued(c)
      PROVE  n \in Nat /\ n \in 1 .. sent[c]
  <2>1. sent[c] \in Nat /\ Queued(c) \in Int /\ Queued(c) <= sent[c]
    BY <1>0, <1>1, QueuedType
  <2> QED
    BY <2>1, <1>1
<1>2. ASSUME NEW u \in Users, NEW i \in DOMAIN cells[u],
             NEW line \in 1 .. QueuedLines(u)[i] - 1, script[line] = u
      PROVE  \E j \in 1 .. i - 1 : QueuedLines(u)[j] = line
  <2>1. PICK c \in Conns, n \in 1 .. MaxSent : cells[u][i] = [conn |-> c, n |-> n]
    <3>1. cells[u][i] \in Command
      BY <1>0, CellsAreCommands, BoundAssumption
    <3>2. /\ cells[u][i].conn \in Conns /\ cells[u][i].n \in 1 .. MaxSent
          /\ cells[u][i] = [conn |-> cells[u][i].conn, n |-> cells[u][i].n]
      BY <3>1 DEF Command
    <3> QED
      BY <3>2
  <2>2. cells[u][i].conn = c /\ cells[u][i].n = n
    BY <2>1
  <2>3. n \in 1 .. Queued(c) /\ Queued(c) \in Int
    <3>1. n <= Queued(c)
      BY <1>0, <2>2 DEF QueuedOnce, LastQueued
    <3>2. Queued(c) \in Int
      BY <1>0, <2>1, QueuedType
    <3> QED
      BY <3>1, <3>2, BoundAssumption
  <2>4. n \in Nat /\ n \in 1 .. sent[c] /\ sent[c] \in Nat
    <3>1. n \in Nat /\ n \in 1 .. sent[c]
      BY <1>1, <2>3
    <3>2. sent[c] \in Nat
      BY <1>0 DEF TypeOK
    <3> QED
      BY <3>1, <3>2
  <2>5. QueuedLines(u)[i] = received[c][n]
    BY <2>2 DEF QueuedLines, LineOf
  <2>6. /\ received[c][n] \in LinesIn(received[c]) /\ received[c][n] \in 1 .. Lines
        /\ ThreadOf(received[c][n]) = c
    BY <1>0, <2>4, ReceivedLine
  <2>7. script[received[c][n]] = u
    BY <1>0, <2>2 DEF OfItsUser, LineOf
  <2>8. ThreadOf(line) = c
    BY <1>2, <2>6, <2>7 DEF ThreadOf
  <2>9. line \in Arrived(c)
    BY <1>0, <1>2, <2>5, <2>6, <2>8 DEF LinesInv, Flows, NoGap, Arrived
  <2>10. PICK m \in 1 .. sent[c] : received[c][m] = line
    <3>1. script[line] # DumpLog
      BY <1>2 DEF WorkloadAssumption
    <3> QED
      BY <2>9, <3>1, InOneOfTheQueues
  <2>11. m < n
    <3>1. received[c] \in Seq(1 .. Lines) /\ Len(received[c]) = sent[c] /\ Increasing(received[c])
      BY <1>0 DEF LinesTyped, LinesInv, Flows, Sequential
    <3>2. received[c][m] < received[c][n]
      BY <1>2, <2>5, <2>6, <2>10
    <3>3. CASE n < m
      <4>1. received[c][m] # TheEnd /\ m \in DOMAIN received[c] /\ n \in DOMAIN received[c]
        BY <2>4, <2>10, <3>1 DEF TheEnd
      <4>2. received[c][n] < received[c][m]
        BY <3>1, <3>3, <4>1 DEF Increasing
      <4> QED
        BY <2>6, <2>10, <3>2, <4>2
    <3>4. CASE m = n
      BY <2>6, <3>2, <3>4
    <3> QED
      BY <2>4, <2>10, <3>3, <3>4
  <2>12. m \in 1 .. Queued(c)
    BY <2>3, <2>4, <2>10, <2>11
  <2>13. PICK j \in DOMAIN cells[u] : cells[u][j] = [conn |-> c, n |-> m]
    BY <1>0, <1>2, <2>10, <2>12 DEF InItsQueue
  <2>14. cells[u][j].conn = c /\ cells[u][j].n = m
    BY <2>13
  <2>15. QueuedLines(u)[j] = line
    BY <2>10, <2>14 DEF QueuedLines, LineOf
  <2>16. cells[u] \in Seq(Command)
    BY <1>0 DEF TypeOK
  <2>17. j < i
    <3>1. j # i
      BY <2>2, <2>11, <2>14, <2>4, <2>10
    <3>2. ~(i < j)
      <4>1. i < j => n < m
        BY <1>0, <2>2, <2>14 DEF InOrder
      <4> QED
        BY <4>1, <2>4, <2>10, <2>11
    <3> QED
      BY <2>16, <3>1, <3>2
  <2> QED
    BY <2>15, <2>16, <2>17
<1>3. ASSUME NEW d \in dumped, NEW line \in 1 .. d - 1, ThreadOf(line) = ThreadOf(d),
             script[line] # DumpLog
      PROVE  \E i \in DOMAIN cells[script[line]] : QueuedLines(script[line])[i] = line
  <2>1. d \in 1 .. Lines
    BY <1>0 DEF DumpsTyped, LinesTyped, WorkloadAssumption
  <2>2. PICK c \in Conns : c = ThreadOf(d)
    BY <1>0, <2>1, ThreadOfLine
  <2>3. line \in Arrived(c)
    BY <1>0, <1>3, <2>2 DEF LinesInv, Flows, NoGap, Arrived
  <2>4. PICK n \in 1 .. sent[c] : received[c][n] = line
    BY <1>3, <2>3, InOneOfTheQueues
  <2>5. n <= Queued(c) /\ sent[c] \in Nat /\ Queued(c) \in Int
    <3>1. received[c][n] < d
      BY <1>3, <2>1, <2>4
    <3> QED
      BY <1>0, <2>2, <2>4, <3>1, BoundAssumption DEF DumpedAfter, TypeOK, Queued, BoundAssumption
  <2>6. n \in 1 .. Queued(c)
    BY <2>4, <2>5
  <2>7. PICK i \in DOMAIN cells[script[line]] : cells[script[line]][i] = [conn |-> c, n |-> n]
    BY <1>0, <2>4, <2>6 DEF InItsQueue
  <2>8. QueuedLines(script[line])[i] = received[c][n]
    BY <2>7 DEF QueuedLines, LineOf
  <2> QED
    BY <2>4, <2>7, <2>8
<1>4. ASSUME NEW u \in Users, NEW i \in DOMAIN cells[u] PROVE script[QueuedLines(u)[i]] = u
  BY <1>0, <1>4 DEF OfItsUser, QueuedLines
<1> QED
  BY <1>2, <1>3, <1>4 DEF KeepsScript

(* Whatever breaks, the server has a user's commands in the order of the   *)
(* script with none left out between two, and the commands that a thread   *)
(* had before a DUMPLOG are in their queues when the server comes to it.   *)
THEOREM ScriptAlwaysKept == WorkloadSpec => []KeepsScript
<1>1. ScriptInv => KeepsScript
  BY ScriptKept, WorkloadAssumption, BoundAssumption, FiniteAssumption
<1>2. WorkloadInit => ScriptInv
  BY ScriptBegins, WorkloadAssumption
<1>3. ScriptInv /\ [WorkloadNext]_loadVars => ScriptInv'
  BY ScriptStep, WorkloadAssumption, BoundAssumption, FiniteAssumption
<1> QED
  BY <1>1, <1>2, <1>3, PTL DEF WorkloadSpec

(* No two connections serve one user: its lines come over one.             *)
LEMMA OneServes ==
    ASSUME WorkloadAssumption, RefInv, LinesInv, ServesLine, NEW c \in Conns,
           conn[c].pc \in {"load", "insert"}
    PROVE  UserSort(conn[c].user) = c
<1>1. TypeOK /\ SentFirst
  BY DEF RefInv, IndInv
<1>2. sent[c] \in Nat /\ sent[c] \in 1 .. sent[c]
  BY <1>1, QueuedType DEF SentFirst, Sending
<1>3. ThreadOf(received[c][sent[c]]) = c
  BY <1>2, ReceivedLine
<1> QED
  BY <1>3 DEF ServesLine, ThreadOf

(* A user in the ring has a row or a connection that will insert one.      *)
LEMMA RingHasRows ==
    ASSUME RowFirst, NEW c \in Conns, \A d \in Conns \ {c} : conn'[d] = conn[d],
           \A u \in InRing : row'[u] = NoRow => row[u] = NoRow,
           \A u \in InRing' : u \in InRing \/ (conn'[c].pc = "load" /\ conn'[c].user = u),
           conn[c].pc \in {"load", "insert"} =>
               \/ row'[conn[c].user] # NoRow
               \/ conn'[c].pc \in {"load", "insert"} /\ conn'[c].user = conn[c].user
    PROVE  \A u \in InRing' : row'[u] # NoRow \/ Inserting(u)'
<1> SUFFICES ASSUME NEW u \in InRing', row'[u] = NoRow
             PROVE  Inserting(u)'
  OBVIOUS
<1>1. CASE conn'[c].pc = "load" /\ conn'[c].user = u
  BY <1>1 DEF Inserting
<1>2. CASE u \in InRing
  <2>1. PICK d \in Conns : conn[d].user = u /\ conn[d].pc \in {"load", "insert"}
    BY <1>2 DEF RowFirst, Inserting
  <2> QED
    BY <2>1 DEF Inserting
<1> QED
  BY <1>1, <1>2

LEMMA RowFirstStep ==
    ASSUME WorkloadAssumption, RefInv, LinesInv, ServesLine, RowFirst, [WorkloadNext]_loadVars
    PROVE  RowFirst'
<1>0. IndInv /\ TypeOK /\ LengthIsBacklog /\ LinesTyped /\ [Next]_vars
  BY LoadStepIsStep DEF RefInv, IndInv, LinesInv
<1>1. ASSUME UNCHANGED <<ring, conn, cells>>, row' \in [Users -> Int],
             \A u \in Users : row'[u] = NoRow => row[u] = NoRow
      PROVE  RowFirst'
  <2>1. \A u \in InRing' : u \in InRing /\ u \in Users
    BY <1>0, <1>1 DEF InRing, TypeOK
  <2>2. \A c \in Conns : conn[c].pc \in {"cenq", "post"} => conn[c].user \in Users
    BY <1>0, Served
  <2> QED
    BY <1>1, <2>1, <2>2 DEF RowFirst, Inserting
<1>2. ASSUME NEW c \in Conns, ServeCommand(c) PROVE RowFirst'
  <2>1. PICK h \in 1 .. Lines :
           /\ conn[c] = Idle /\ conn'[c].user = script[h] /\ conn'[c].pc \in {"add", "cenq"}
           /\ h \in LinesIn(inbox[c])
           /\ conn'[c].pc = "cenq" => script[h] \in InRing
           /\ UNCHANGED <<ring, cells, row>>
    BY <1>0, <1>2, ServesNew
  <2>2. \A d \in Conns \ {c} : conn'[d] = conn[d]
    BY <1>0, <1>2 DEF ServeCommand, Receive, GoTo, TypeOK
  <2>3. ThreadOf(h) = c
    BY <2>1 DEF LinesInv, Flows, RightThread
  <2>4. \A d \in Conns : conn[d].pc \in {"load", "insert"} => d # c
    BY <2>1 DEF Idle
  <2>5. ASSUME script[h] \in InRing PROVE row[script[h]] # NoRow
    <3>1. ASSUME NEW d \in Conns, conn[d].user = script[h], conn[d].pc \in {"load", "insert"}
          PROVE  FALSE
      <4>1. UserSort(script[h]) = d
        BY <3>1, OneServes
      <4> QED
        BY <2>3, <2>4, <3>1, <4>1 DEF ThreadOf
    <3> QED
      BY <2>5, <3>1 DEF RowFirst, Inserting
  <2>6. \A u \in InRing' : row'[u] # NoRow \/ Inserting(u)'
    BY <1>2, <2>1, <2>2, <2>4, RingHasRows DEF InRing
  <2>7. \A d \in Conns : conn'[d].pc \in {"cenq", "post"} => row'[conn'[d].user] # NoRow
    BY <2>1, <2>2, <2>5 DEF RowFirst
  <2> QED
    BY <2>1, <2>6, <2>7 DEF RowFirst
<1>3. ASSUME NEW c \in Conns, AddUser(c), UNCHANGED row PROVE RowFirst'
  <2>1. PICK pc \in {"load", "insert"} :
           /\ conn[c].pc = "add" /\ cells' = cells
           /\ conn' = [conn EXCEPT ![c] = [pc |-> pc, user |-> conn[c].user]]
           /\ ring' = ring \/ (pc = "load" /\ ring' = Append(ring, conn[c].user))
    BY <1>3 DEF AddUser, GoTo
  <2>2. /\ conn'[c].pc = pc /\ conn'[c].user = conn[c].user
        /\ \A d \in Conns \ {c} : conn'[d] = conn[d]
    BY <1>0, <1>3, <2>1 DEF TypeOK
  <2>3. \A u \in InRing' : u \in InRing \/ (pc = "load" /\ u = conn[c].user)
    <3>1. ring \in Seq(Users) /\ conn[c].user \in Users
      BY <1>0, <1>3, <2>1, Served DEF TypeOK
    <3>2. LinesIn(Append(ring, conn[c].user)) = LinesIn(ring) \cup {conn[c].user}
      BY <3>1, AppendLine
    <3>3. InRing = LinesIn(ring) /\ InRing' = LinesIn(ring')
      BY DEF InRing, LinesIn
    <3> QED
      BY <2>1, <3>2, <3>3
  <2>4. \A u \in InRing' : row'[u] # NoRow \/ Inserting(u)'
    BY <1>3, <2>1, <2>2, <2>3, RingHasRows
  <2>5. \A d \in Conns : conn'[d].pc \in {"cenq", "post"} => row'[conn'[d].user] # NoRow
    BY <1>3, <2>2 DEF RowFirst
  <2> QED
    BY <1>3, <2>1, <2>4, <2>5 DEF RowFirst
<1>4. ASSUME NEW c \in Conns, Loaded(c), UNCHANGED row PROVE RowFirst'
  <2>1. /\ conn[c].pc = "load" /\ UNCHANGED <<ring, cells>>
        /\ conn' = [conn EXCEPT ![c] = [pc |-> "insert", user |-> conn[c].user]]
    BY <1>4 DEF Loaded, GoTo
  <2>2. /\ conn'[c].pc = "insert" /\ conn'[c].user = conn[c].user
        /\ \A d \in Conns \ {c} : conn'[d] = conn[d]
    BY <1>0, <1>4, <2>1 DEF TypeOK
  <2>3. \A u \in InRing' : row'[u] # NoRow \/ Inserting(u)'
    BY <1>4, <2>1, <2>2, RingHasRows DEF InRing
  <2>4. \A d \in Conns : conn'[d].pc \in {"cenq", "post"} => row'[conn'[d].user] # NoRow
    BY <1>4, <2>2 DEF RowFirst
  <2> QED
    BY <1>4, <2>1, <2>3, <2>4 DEF RowFirst
<1>5. ASSUME NEW c \in Conns, InsertAcct(c) PROVE RowFirst'
  <2>1. /\ conn[c].pc = "insert" /\ UNCHANGED <<ring, cells>>
        /\ conn' = [conn EXCEPT ![c] = [pc |-> "cenq", user |-> conn[c].user]]
        /\ row' = [row EXCEPT ![conn[c].user] = IF @ = NoRow THEN 0 ELSE @]
    BY <1>5 DEF InsertAcct, Inserted, GoTo
  <2>2. /\ conn'[c].pc = "cenq" /\ conn'[c].user = conn[c].user /\ conn[c].user \in Users
        /\ \A d \in Conns \ {c} : conn'[d] = conn[d]
    BY <1>0, <1>5, <2>1, Served DEF TypeOK
  <2>3. /\ row' \in [Users -> Int] /\ row'[conn[c].user] # NoRow
        /\ \A u \in Users \ {conn[c].user} : row'[u] = row[u]
    BY <1>5, <2>1, <2>2 DEF RowFirst, NoRow
  <2>4. InRing' = InRing /\ \A u \in InRing : u \in Users
    BY <1>0, <1>5, <2>1 DEF InRing, TypeOK
  <2>5. \A u \in InRing' : row'[u] # NoRow \/ Inserting(u)'
    BY <1>5, <2>2, <2>3, <2>4, RingHasRows
  <2>6. \A d \in Conns : conn[d].pc \in {"cenq", "post"} => conn[d].user \in Users
    BY <1>0, <1>5, Served
  <2>7. \A d \in Conns : conn'[d].pc \in {"cenq", "post"} => row'[conn'[d].user] # NoRow
    BY <1>5, <2>2, <2>3, <2>6 DEF RowFirst
  <2> QED
    BY <1>5, <2>1, <2>3, <2>5, <2>7 DEF RowFirst
<1>6. ASSUME NEW c \in Conns, Cenq(c) \/ CenqPost(c), UNCHANGED row PROVE RowFirst'
  <2>1. PICK next \in {Idle, [pc |-> "post", user |-> conn[c].user]} :
           /\ conn[c].pc \in {"cenq", "post"} /\ ring' = ring
           /\ conn' = [conn EXCEPT ![c] = next]
    BY <1>6 DEF Cenq, CenqPost, GoTo
  <2>2. /\ conn'[c] = next /\ next.pc \in {"recv", "post"}
        /\ next.pc = "post" => next.user = conn[c].user
        /\ \A d \in Conns \ {c} : conn'[d] = conn[d]
    BY <1>0, <1>6, <2>1 DEF TypeOK, Idle
  <2>3. \A u \in Users : cells'[u] = cells[u] \/ u = conn[c].user
    BY <1>0, <1>6 DEF Cenq, CenqPost, TypeOK
  <2>4. \A u \in InRing' : row'[u] # NoRow \/ Inserting(u)'
    <3>1. InRing' = InRing /\ conn[c].pc \notin {"load", "insert"}
      BY <2>1 DEF InRing
    <3> QED
      BY <1>6, <2>2, <3>1, RingHasRows
  <2>5. \A d \in Conns : conn'[d].pc \in {"cenq", "post"} => row'[conn'[d].user] # NoRow
    BY <1>6, <2>1, <2>2 DEF RowFirst
  <2>6. \A u \in Users : cells'[u] # <<>> => row'[u] # NoRow
    <3>1. row[conn[c].user] # NoRow
      BY <1>6, <2>1 DEF RowFirst
    <3> QED
      BY <1>6, <2>3, <3>1 DEF RowFirst
  <2> QED
    BY <1>6, <2>4, <2>5, <2>6 DEF RowFirst
<1>7. ASSUME NEW t \in Threads, UpdateBal(t) PROVE RowFirst'
  <2>1. /\ UNCHANGED <<ring, conn, cells>>
        /\ row' = [row EXCEPT ![Here(t)] = IF @ = NoRow THEN NoRow ELSE start[Here(t)]]
        /\ at[t] = "run"
    BY <1>7 DEF UpdateBal, Executed, Jump
  <2>2. Here(t) \in Users
    BY <1>0, <1>7, <2>1 DEF TypeOK, Here
  <2>3. start[Here(t)] \in Nat
    BY <1>0, <1>7, <2>2 DEF TypeOK
  <2>4. row' \in [Users -> Int] /\ \A u \in Users : row'[u] = NoRow => row[u] = NoRow
    BY <1>7, <2>1, <2>2, <2>3 DEF RowFirst, NoRow
  <2> QED
    BY <1>1, <1>7, <2>1, <2>4
<1>8. ASSUME UNCHANGED <<ring, conn, cells, row>> PROVE RowFirst'
  BY <1>1, <1>8 DEF RowFirst
<1>9. ASSUME NEW t \in Threads, Thread(t), UNCHANGED row PROVE UNCHANGED <<ring, conn, cells, row>>
  BY <1>9 DEF Thread, Executed, Start, First, TryLock, Repost, Leave, Take, Scan, Miss, Cdeq
<1>10. ASSUME NEW c \in Conns, CommHandler(c) \/ Break(c) \/ ServeDump(c)
       PROVE  UNCHANGED <<ring, conn, cells, row>>
  BY <1>10 DEF ServeDump, Break, CommHandler, Send, SendFails, RecvReply, RecvFails, Finish,
               newVars, vars
<1>11. Main \/ UNCHANGED loadVars => UNCHANGED <<ring, conn, cells, row>>
  BY DEF Main, ReadLine, Close, loadVars, newVars, vars
<1>12. TriggerThread /\ UNCHANGED row => UNCHANGED <<ring, conn, cells, row>>
  BY DEF TriggerThread, TriggerVisit, TriggerDone
<1>13. ASSUME NEW c \in Conns, ConnectionHandler(c) PROVE RowFirst'
  BY <1>2, <1>3, <1>4, <1>5, <1>6, <1>8, <1>10, <1>13 DEF ConnectionHandler
<1>14. ASSUME NEW t \in Threads, CommandHandler(t) PROVE RowFirst'
  BY <1>7, <1>8, <1>9, <1>14 DEF CommandHandler
<1> QED
  BY <1>8, <1>10, <1>11, <1>12, <1>13, <1>14 DEF WorkloadNext

(* A thread that executes a command goes on until it has updated the row.  *)
LEMMA RunsOn ==
    ASSUME RefInv, LinesTyped, [WorkloadNext]_loadVars, NEW t \in Threads, NEW u \in Users,
           RunsAt(t, u), ~UpdateBal(t)
    PROVE  RunsAt(t, u)'
<1>0. TypeOK /\ [Next]_vars
  BY LoadStepIsStep DEF RefInv, IndInv
<1>1. cur[t] \in DOMAIN ring
  BY <1>0 DEF TypeOK, RunsAt
<1>2. ring'[cur[t]] = ring[cur[t]]
  BY <1>0, <1>1, RingKept
<1>3. ASSUME at'[t] = at[t], cur'[t] = cur[t] PROVE RunsAt(t, u)'
  BY <1>2, <1>3 DEF RunsAt, Here
<1>4. ASSUME NEW s \in Threads, Thread(s), ~Executed(s) PROVE at'[t] = at[t] /\ cur'[t] = cur[t]
  BY <1>0, <1>4 DEF TypeOK, RunsAt, Thread, Jump, Step, Start, First, TryLock, Repost, Leave, Take,
                    Scan, Miss, Cdeq
<1>5. ASSUME NEW s \in Threads, UpdateBal(s) PROVE at'[t] = at[t] /\ cur'[t] = cur[t]
  <2>1. s # t
    BY <1>5
  <2> QED
    BY <1>0, <1>5, <2>1 DEF TypeOK, UpdateBal, Executed, Jump
<1>6. ASSUME NEW s \in Threads, CommandHandler(s) PROVE at'[t] = at[t] /\ cur'[t] = cur[t]
  BY <1>4, <1>5, <1>6 DEF CommandHandler
<1>7. Main \/ TriggerThread \/ UNCHANGED loadVars => UNCHANGED <<at, cur>>
  BY DEF Main, ReadLine, Close, TriggerThread, TriggerVisit, TriggerDone, loadVars, newVars, vars
<1>8. ASSUME NEW c \in Conns, CommHandler(c) \/ Break(c) \/ ConnectionHandler(c)
      PROVE  UNCHANGED <<at, cur>>
  BY <1>8 DEF ConnectionHandler, ServeCommand, Receive, InsertAcct, Inserted, AddUser, Loaded, Cenq,
              CenqPost,
              ServeDump, Break, CommHandler, Send, SendFails, RecvReply, RecvFails, Finish, newVars, vars
<1> QED
  BY <1>3, <1>6, <1>7, <1>8 DEF WorkloadNext

LEMMA RowFollowsStep ==
    ASSUME WorkloadAssumption, RefInv, LinesInv, RowFirst, RowFollows, [WorkloadNext]_loadVars
    PROVE  RowFollows'
<1>0. IndInv /\ TypeOK /\ LengthIsBacklog /\ LinesTyped /\ [Next]_vars
  BY LoadStepIsStep DEF RefInv, IndInv, LinesInv
<1>1. ASSUME UNCHANGED <<row, start>>, \A t \in Threads : ~UpdateBal(t) PROVE RowFollows'
  <2>1. \A t \in Threads, u \in Users : RunsAt(t, u) => RunsAt(t, u)'
    BY <1>0, <1>1, RunsOn
  <2> QED
    BY <1>1, <2>1 DEF RowFollows
<1>2. ASSUME NEW t \in Threads, UpdateBal(t) PROVE RowFollows'
  <2>1. /\ row' = [row EXCEPT ![Here(t)] = IF @ = NoRow THEN NoRow ELSE start[Here(t)]]
        /\ start' = start /\ at[t] = "run"
    BY <1>2 DEF UpdateBal, Executed, Jump
  <2>2. Here(t) \in Users /\ start[Here(t)] \in Nat
    BY <1>0, <1>2, <2>1 DEF TypeOK, Here
  <2>3. ASSUME NEW u \in Users, row'[u] # NoRow
        PROVE  row'[u] = start'[u] \/ \E s \in Threads : RunsAt(s, u)'
    <3>1. CASE u = Here(t)
      BY <2>1, <2>2, <2>3, <3>1 DEF RowFirst
    <3>2. CASE u # Here(t)
      <4>1. row'[u] = row[u]
        BY <2>1, <2>3, <3>2 DEF RowFirst
      <4>2. CASE row[u] = start[u]
        BY <2>1, <4>1, <4>2
      <4>3. ASSUME NEW s \in Threads, RunsAt(s, u) PROVE RunsAt(s, u)'
        <5>1. s # t /\ at'[s] = at[s]
          BY <1>0, <1>2, <3>2, <4>3 DEF RunsAt, UpdateBal, Executed, Jump, TypeOK
        <5>2. ~UpdateBal(s)
          BY <1>0, <4>3, <5>1 DEF RunsAt, UpdateBal, Executed, Jump, TypeOK
        <5> QED
          BY <1>0, <2>3, <4>3, <5>2, RunsOn
      <4> QED
        BY <2>3, <4>1, <4>2, <4>3 DEF RowFollows
    <3> QED
      BY <3>1, <3>2
  <2> QED
    BY <2>3 DEF RowFollows
<1>3. ASSUME NEW c \in Conns, InsertAcct(c) PROVE RowFollows'
  <2>1. /\ row' = [row EXCEPT ![conn[c].user] = IF @ = NoRow THEN 0 ELSE @]
        /\ UNCHANGED <<start, at>>
    BY <1>3 DEF InsertAcct, Inserted
  <2>2. \A t \in Threads, u \in Users : RunsAt(t, u) => RunsAt(t, u)'
    <3>1. ASSUME NEW t \in Threads, NEW u \in Users, RunsAt(t, u) PROVE ~UpdateBal(t)
      BY <1>0, <2>1, <3>1 DEF RunsAt, UpdateBal, Executed, Jump, TypeOK
    <3> QED
      BY <1>0, <3>1, RunsOn
  <2>3. ASSUME NEW u \in Users, row'[u] # NoRow, row'[u] # row[u]
        PROVE  row'[u] = start'[u]
    <3>1. row[u] = NoRow /\ row'[u] = 0
      BY <2>1, <2>3 DEF RowFirst
    <3>2. cells[u] = <<>>
      BY <2>3, <3>1 DEF RowFirst
    <3>3. start[u] + length[u] = 0 /\ start[u] \in Nat /\ length[u] \in Nat
      BY <1>0, <2>3, <3>2 DEF LengthIsBacklog, TypeOK
    <3> QED
      BY <2>1, <3>1, <3>3
  <2>4. ASSUME NEW u \in Users, row'[u] # NoRow
        PROVE  row'[u] = start'[u] \/ \E t \in Threads : RunsAt(t, u)'
    BY <2>1, <2>2, <2>3, <2>4 DEF RowFollows
  <2> QED
    BY <2>4 DEF RowFollows
<1>4. ASSUME NEW t \in Threads, Cdeq(t), UNCHANGED row PROVE RowFollows'
  <2>1. /\ start' = [start EXCEPT ![Here(t)] = @ + 1] /\ at' = [at EXCEPT ![t] = "run"]
        /\ UNCHANGED <<ring, cur>>
    BY <1>4 DEF Cdeq, Jump
  <2>2. \A u \in Users : u = Here(t) => RunsAt(t, u)'
    BY <1>0, <1>4, <2>1 DEF RunsAt, Here, TypeOK
  <2>3. \A s \in Threads, u \in Users : RunsAt(s, u) => RunsAt(s, u)'
    BY <1>0, <1>4, <2>1 DEF RunsAt, Here, TypeOK
  <2>4. \A u \in Users : u # Here(t) => start'[u] = start[u]
    BY <1>0, <2>1 DEF TypeOK
  <2>5. ASSUME NEW u \in Users, row'[u] # NoRow
        PROVE  row'[u] = start'[u] \/ \E s \in Threads : RunsAt(s, u)'
    <3>1. CASE u = Here(t)
      BY <1>4, <2>2, <3>1
    <3>2. CASE u # Here(t)
      BY <1>4, <2>3, <2>4, <2>5, <3>2 DEF RowFollows
    <3> QED
      BY <3>1, <3>2
  <2> QED
    BY <2>5 DEF RowFollows
<1>5. ASSUME NEW c \in Conns, ConnectionHandler(c) PROVE InsertAcct(c) \/ UNCHANGED <<row, start>>
  BY <1>5 DEF ConnectionHandler, ServeCommand, Receive, AddUser, Loaded, Cenq, CenqPost, ServeDump,
              newVars, vars
<1>6. ASSUME NEW c \in Conns, CommHandler(c) \/ Break(c) PROVE UNCHANGED <<row, start>>
  BY <1>6 DEF CommHandler, Send, SendFails, RecvReply, RecvFails, Finish, Break, newVars, vars
<1>7. ASSUME NEW t \in Threads, CommandHandler(t)
      PROVE  UpdateBal(t) \/ (Cdeq(t) /\ UNCHANGED row) \/ UNCHANGED <<row, start>>
  BY <1>7 DEF CommandHandler, Thread, Executed, Start, First, TryLock, Repost, Leave, Take, Scan,
              Miss
<1>8. (TriggerThread /\ UNCHANGED row) \/ Main \/ UNCHANGED loadVars => UNCHANGED <<row, start>>
  BY DEF Main, ReadLine, Close, TriggerThread, TriggerVisit, TriggerDone, loadVars, newVars, vars
<1> QED
  BY <1>1, <1>2, <1>3, <1>4, <1>5, <1>6, <1>7, <1>8 DEF WorkloadNext

(* ... so when nobody works on a user, the row holds the balance.          *)
LEMMA RowRight == RefInv /\ RowFirst /\ RowFollows => RowsAreRight
<1> SUFFICES ASSUME RefInv, RowFirst, RowFollows, NEW u \in Users, Quiet(u), start[u] > 0
             PROVE  row[u] = start[u]
  BY DEF RowsAreRight, RowIsRight
<1>0. TypeOK /\ LengthIsBacklog /\ OneAtATime
  BY DEF RefInv, IndInv
<1>1. cells[u] # <<>>
  <2>1. start[u] \in Nat /\ length[u] \in Nat /\ start[u] + length[u] = Len(cells[u])
    BY <1>0 DEF TypeOK, LengthIsBacklog
  <2> QED
    BY <2>1
<1>2. ASSUME NEW t \in Threads, RunsAt(t, u) PROVE FALSE
  <2>1. lock[u] = t
    BY <1>0, <1>2 DEF OneAtATime, RunsAt
  <2> QED
    BY <2>1, NamesAssumption DEF Quiet
<1> QED
  BY <1>1, <1>2 DEF RowFirst, RowFollows

(* The balance of a user is in the user's row whenever nobody works on the *)
(* user, although another connection might find a new user before its row  *)
(* has been inserted: the generator gives one user's lines to one thread.  *)
THEOREM RowsAlwaysRight == WorkloadSpec => []RowsAreRight
<1> DEFINE RowsInv == ScriptInv /\ RowFirst /\ RowFollows
<1>1. RowsInv => RowsAreRight
  BY RowRight DEF ScriptInv
<1>2. WorkloadInit => RowsInv
  <2> SUFFICES ASSUME WorkloadInit PROVE RowFirst /\ RowFollows
    BY ScriptBegins, WorkloadAssumption
  <2>1. /\ row = [u \in Users |-> NoRow] /\ ring = <<>>
        /\ \A c \in Conns : conn[c].pc = "recv"
        /\ \A u \in Users : cells[u] = <<>>
    BY DEF WorkloadInit, NewInit, Init, Idle
  <2>2. InRing = {}
    BY <2>1 DEF InRing
  <2> QED
    BY <2>1, <2>2 DEF RowFirst, RowFollows, NoRow
<1>3. RowsInv /\ [WorkloadNext]_loadVars => RowsInv'
  <2> SUFFICES ASSUME RowsInv, [WorkloadNext]_loadVars PROVE RowsInv'
    OBVIOUS
  <2>1. ScriptInv'
    BY ScriptStep, WorkloadAssumption, BoundAssumption, FiniteAssumption
  <2>2. RowFirst' /\ RowFollows'
    BY RowFirstStep, RowFollowsStep, WorkloadAssumption DEF ScriptInv
  <2> QED
    BY <2>1, <2>2
<1> QED
  BY <1>1, <1>2, <1>3, PTL DEF WorkloadSpec
=============================================================================
