-------------------------- MODULE QuoteFanoutProofs --------------------------
(***************************************************************************)
(* Proofs about QuoteFanout, for any number of workers and requests:       *)
(* nothing of a request outlives it, and the handler and its workers       *)
(* implement QuoteRound.                                                   *)
(*                                                                         *)
(* The inductive invariant goes through a round: who has the workers'      *)
(* mutexes and where the workers are in each part of it.  Two counts carry *)
(* it from one part to the next: a post of quoteStart for each worker that *)
(* has still to start, and a worker out of work for each post of quoteFin. *)
(***************************************************************************)
EXTENDS QuoteFanout, FiniteSetTheorems, TLAPS

Before == {"idle", "open", "post", "settle", "seen"}
After == {"wait", "pick", "parse", "rest", "answer", "collect", "dead"}
Working == {"top", "spin", "send", "recv", "report", "post", "release"}

(* What a buffer can hold when r requests have been made: no text, or a    *)
(* reply to one of them.                                                   *)
UpTo(r) == [of : 1 .. r, says : Texts]
AnyReply == [of : Nat, says : Nat]

Domains ==
    /\ req \in Nat /\ empty \in Nat
    /\ main \in Before \cup After
    /\ i \in Workers /\ id \in Workers /\ returnedID \in Workers
    /\ {price, key} \subseteq AnyReply
    /\ busy \in [Workers -> {Handler, Nobody} \cup Workers]
    /\ quoteStart \in Nat /\ quoteFin \in Nat
    /\ go \in BOOLEAN
    /\ returned \in {Nobody} \cup Workers
    /\ at \in [Workers -> {"start", "lock"} \cup Working]
    /\ asked \in [Workers -> Nat]
    /\ text \in [Workers -> AnyReply]

(* A loop of the handler begins with its first worker.                     *)
FromFirst == main \in {"idle", "settle", "wait", "pick", "parse", "rest", "answer"} => i = 1

(* Between two requests the handler has the mutexes; it opens them.        *)
Resting ==
    main \in {"idle", "open"} =>
        /\ quoteStart = 0
        /\ \A w \in Workers : /\ at[w] = "start"
                              /\ busy[w] = IF main = "open" /\ w < i THEN Nobody ELSE Handler

(* Workers start, one for each post, and lock their mutexes.               *)
Started == {w \in Workers : at[w] \in {"lock", "spin"}}
Starts == IF main = "post" THEN i - 1 ELSE N
Starting ==
    main \in {"post", "settle", "seen"} =>
        /\ quoteStart + Cardinality(Started) = Starts
        /\ \A w \in Workers : \/ at[w] \in {"start", "lock"} /\ busy[w] = Nobody
                              \/ at[w] = "spin" /\ busy[w] = w
        /\ main = "seen" => \A w \in Workers : w < i => at[w] = "spin"
NotYet == main \in Before => ~go /\ quoteFin = 0

(* They ask and post, at most once each before they stop for good.         *)
Back == {w \in Workers : at[w] \in {"release", "top", "start"}}
Running ==
    main \in After =>
        /\ quoteStart = 0
        /\ quoteFin <= Cardinality(Back)
        /\ \A w \in Workers : IF main = "collect" /\ w < i
                              THEN at[w] = "start" /\ busy[w] = Handler
                              ELSE \/ at[w] = "start" /\ busy[w] = Nobody
                                   \/ at[w] \in Working /\ busy[w] = w

Reporting ==
    /\ returned # Nobody => at[returned] \in {"post", "release"}
    /\ \A w \in Workers : at[w] \in {"post", "release"} => returned = w
Asks == \A w \in Workers : at[w] = "recv" => asked[w] = req

(* What the buffers hold: replies to this request, or to earlier ones.  A  *)
(* buffer that is being read changes to a reply to this one only.          *)
Buffers ==
    /\ main # "idle" => req > 0
    /\ \A w \in Workers : text[w] = Empty \/ text[w] \in UpTo(req)
    /\ main = "rest" => /\ price \in UpTo(req)
                        /\ text[id] = price \/ text[id].of = req
Current ==
    empty = 0 =>
        /\ \A w \in Workers : at[w] \in {"report", "post"} => text[w].of = req
        /\ (main = "wait" /\ quoteFin > 0) \/ main = "pick" => text[returnedID].of = req
        /\ main = "parse" => text[id].of = req
        /\ main = "rest" => price.of = req

Inv ==
    /\ Domains /\ FromFirst
    /\ Resting /\ Starting /\ NotYet /\ Running
    /\ Reporting /\ Asks
    /\ Buffers /\ Current
-----------------------------------------------------------------------------
LEMMA Constants ==
    /\ N \in Nat /\ N >= 1 /\ 1 \in Workers /\ N \in Workers /\ Workers \subseteq Nat
    /\ Handler \notin Workers /\ Nobody \notin Workers /\ Nobody # Handler
  BY ConstantsAssumption DEF Workers, Handler

LEMMA Counts ==
    ASSUME NEW S \in SUBSET Workers
    PROVE  /\ IsFiniteSet(S) /\ Cardinality(S) \in Nat /\ Cardinality(S) <= N
           /\ S = Workers => Cardinality(S) = N
PROOF
<1>1. IsFiniteSet(Workers) /\ Cardinality(Workers) = N
  BY FS_Interval, Constants DEF Workers
<1>2. IsFiniteSet(S) /\ Cardinality(S) <= N
  BY <1>1, FS_Subset
<1> QED BY <1>1, <1>2, FS_CardinalityType

(* A step of the handler's loop.                                           *)
LEMMA NextWorker ==
    ASSUME Domains, NEW from, NEW to, Loop(from, to)
    PROVE  /\ i' \in Workers
           /\ \/ i < N /\ i' = i + 1 /\ main' = from
              \/ i = N /\ i' = 1 /\ main' = to
  BY Constants DEF Domains, Loop, Workers

(* The replies a buffer can hold.                                          *)
LEMMA ReplyFacts ==
    /\ Empty \in AnyReply /\ Empty.of = 0
    /\ \A r \in Nat : UpTo(r) \subseteq AnyReply /\ UpTo(r) \subseteq UpTo(r + 1)
    /\ \A r \in Nat : \A x \in UpTo(r) : x # Empty /\ x.of \in 1 .. r /\ x \in Round!RepliesTo(x.of)
    /\ \A r \in Nat \ {0} : \A t \in Texts : [of |-> r, says |-> t] \in UpTo(r)
PROOF
<1>1. Texts \subseteq Nat
  BY ConstantsAssumption DEF Texts
<1>2. Empty \in AnyReply /\ Empty.of = 0
  BY DEF Empty, AnyReply
<1>3. ASSUME NEW r \in Nat
      PROVE  UpTo(r) \subseteq AnyReply /\ UpTo(r) \subseteq UpTo(r + 1)
  <2>1. 1 .. r \subseteq Nat /\ 1 .. r \subseteq 1 .. r + 1
    OBVIOUS
  <2> QED BY <1>1, <2>1 DEF UpTo, AnyReply
<1>4. ASSUME NEW r \in Nat, NEW x \in UpTo(r)
      PROVE  x # Empty /\ x.of \in 1 .. r /\ x \in Round!RepliesTo(x.of)
  <2>1. x = [of |-> x.of, says |-> x.says] /\ x.of \in 1 .. r /\ x.says \in Texts
    BY <1>4 DEF UpTo
  <2>2. x.of # 0
    BY <2>1
  <2> QED BY <1>2, <2>1, <2>2 DEF Round!RepliesTo
<1>5. ASSUME NEW r \in Nat \ {0}, NEW t \in Texts
      PROVE  [of |-> r, says |-> t] \in UpTo(r)
  BY DEF UpTo
<1> QED BY <1>2, <1>3, <1>4, <1>5

LEMMA InvInit == Init => Inv
PROOF
<1> SUFFICES ASSUME Init PROVE Inv
  OBVIOUS
<1>1. Domains
  BY Constants, ReplyFacts DEF Init, Domains, Before
<1>2. FromFirst /\ Resting /\ Starting /\ NotYet /\ Running /\ Reporting /\ Asks
  BY Constants DEF Init, FromFirst, Resting, Starting, NotYet, Running, Reporting, Asks, After
<1>3. Buffers /\ Current
  BY DEF Init, Buffers, Current
<1> QED BY <1>1, <1>2, <1>3 DEF Inv
-----------------------------------------------------------------------------
(* The steps of the handler.                                               *)

LEMMA InvDequeue == ASSUME Inv, Dequeue PROVE Inv'
PROOF
<1>0. Domains /\ FromFirst /\ Resting /\ NotYet /\ Reporting /\ Buffers
  BY DEF Inv
<1>1. /\ main = "idle" /\ main' = "open" /\ req' = req + 1
      /\ UNCHANGED <<empty, i, id, price, key, at, asked, text,
                     busy, quoteStart, quoteFin, go, returned, returnedID>>
  BY DEF Dequeue, Jump, workVars, syncVars
<1>2. Domains' /\ FromFirst'
  BY <1>0, <1>1 DEF Domains, FromFirst, Before
<1>3. i = 1 /\ \A w \in Workers : at[w] = "start" /\ busy[w] = Handler /\ ~(w < i)
  BY <1>0, <1>1, Constants DEF FromFirst, Resting, Workers
<1>4. Resting'
  BY <1>0, <1>1, <1>3 DEF Resting
<1>5. Starting' /\ NotYet' /\ Running'
  BY <1>0, <1>1 DEF Starting, NotYet, Running, After, Before
<1>6. Reporting' /\ Asks'
  BY <1>0, <1>1, <1>3 DEF Reporting, Asks
<1>7. Buffers' /\ Current'
  <2>1. req \in Nat /\ UpTo(req) \subseteq UpTo(req')
    BY <1>0, <1>1, ReplyFacts DEF Domains
  <2> QED BY <1>0, <1>1, <1>3, <2>1 DEF Buffers, Current
<1> QED BY <1>2, <1>4, <1>5, <1>6, <1>7 DEF Inv

LEMMA InvOpen == ASSUME Inv, Open PROVE Inv'
PROOF
<1>0. Domains /\ Resting /\ NotYet /\ Reporting /\ Asks /\ Buffers /\ Current
  BY DEF Inv
<1>1. /\ main = "open" /\ busy' = [busy EXCEPT ![i] = Nobody]
      /\ UNCHANGED <<empty, req, id, price, key, at, asked, text,
                     quoteStart, quoteFin, go, returned, returnedID>>
  BY DEF Open, Loop, workVars
<1>2. /\ i' \in Workers /\ i \in Workers
      /\ \/ i < N /\ i' = i + 1 /\ main' = "open"
         \/ i = N /\ i' = 1 /\ main' = "post"
  BY <1>0, NextWorker DEF Open, Domains
<1>3. Domains' /\ FromFirst'
  BY <1>0, <1>1, <1>2 DEF Domains, FromFirst, Before
<1>4. /\ busy'[i] = Nobody
      /\ \A w \in Workers \ {i} : busy'[w] = IF w < i THEN Nobody ELSE Handler
      /\ \A w \in Workers : at[w] = "start"
      /\ quoteStart = 0
  BY <1>0, <1>1, <1>2 DEF Domains, Resting
<1>5. Resting'
  BY <1>0, <1>1, <1>2, <1>4 DEF Resting, Workers
<1>6. Starting'
  <2> SUFFICES ASSUME main' = "post" PROVE Starting'
    BY <1>2 DEF Starting
  <2>1. i = N /\ i' = 1
    BY <1>2
  <2>2. \A w \in Workers : w = i \/ w < i
    BY <2>1, Constants DEF Workers
  <2>3. \A w \in Workers : busy'[w] = Nobody
    BY <2>2, <1>4
  <2>4. Started' = {}
    BY <1>1, <1>4 DEF Started
  <2>5. Cardinality(Started') = 0
    BY <2>4, FS_EmptySet
  <2>6. quoteStart' + Cardinality(Started') = Starts'
    BY <1>1, <1>4, <2>1, <2>5, Constants DEF Starts
  <2> QED BY <1>1, <1>4, <2>3, <2>6 DEF Starting
<1>7. NotYet' /\ Running' /\ Reporting' /\ Asks'
  BY <1>0, <1>1, <1>2 DEF NotYet, Running, Reporting, Asks, Before, After
<1>8. Buffers' /\ Current'
  BY <1>0, <1>1, <1>2 DEF Buffers, Current
<1> QED BY <1>3, <1>5, <1>6, <1>7, <1>8 DEF Inv

LEMMA InvPostStart == ASSUME Inv, PostStart PROVE Inv'
PROOF
<1>0. Domains /\ Starting /\ NotYet /\ Reporting /\ Asks /\ Buffers /\ Current
  BY DEF Inv
<1>1. /\ main = "post" /\ quoteStart' = quoteStart + 1
      /\ UNCHANGED <<empty, req, id, price, key, at, asked, text,
                     busy, quoteFin, go, returned, returnedID>>
  BY DEF PostStart, Loop, workVars
<1>2. /\ i' \in Workers /\ i \in Workers
      /\ \/ i < N /\ i' = i + 1 /\ main' = "post"
         \/ i = N /\ i' = 1 /\ main' = "settle"
  BY <1>0, NextWorker DEF PostStart, Domains
<1>3. Domains' /\ FromFirst'
  BY <1>0, <1>1, <1>2 DEF Domains, FromFirst, Before
<1>4. Started' = Started /\ Started \in SUBSET Workers
  BY <1>1 DEF Started
<1>5. quoteStart' + Cardinality(Started') = Starts'
  <2>1. Cardinality(Started) \in Nat
    BY <1>4, Counts
  <2>2. quoteStart + Cardinality(Started) = i - 1
    BY <1>0, <1>1 DEF Starting, Starts
  <2>3. Starts' = i
    <3>1. Starts' = IF main' = "post" THEN i' - 1 ELSE N
      BY DEF Starts
    <3>2. i \in Nat
      BY <1>2, Constants
    <3>3. CASE main' = "post"
      <4>1. i' = i + 1
        BY <1>2, <3>3
      <4> QED BY <3>1, <3>2, <3>3, <4>1
    <3>4. CASE main' = "settle"
      BY <1>2, <3>1, <3>4
    <3> QED BY <1>2, <3>3, <3>4
  <2> QED BY <1>0, <1>1, <1>2, <1>4, <2>1, <2>2, <2>3, Constants DEF Domains
<1>6. Starting'
  BY <1>0, <1>1, <1>2, <1>5 DEF Starting
<1>7. Resting' /\ NotYet' /\ Running' /\ Reporting' /\ Asks'
  BY <1>0, <1>1, <1>2 DEF Resting, NotYet, Running, Reporting, Asks, Before, After
<1>8. Buffers' /\ Current'
  BY <1>0, <1>1, <1>2 DEF Buffers, Current
<1> QED BY <1>3, <1>6, <1>7, <1>8 DEF Inv

LEMMA InvSettle == ASSUME Inv, Settle PROVE Inv'
PROOF
<1>0. Domains /\ FromFirst /\ Starting /\ NotYet /\ Reporting /\ Asks /\ Buffers /\ Current
  BY DEF Inv
<1>1. /\ main = "settle" /\ main' = "seen"
      /\ UNCHANGED <<empty, req, i, id, price, key, at, asked, text,
                     busy, quoteStart, quoteFin, go, returned, returnedID>>
  BY DEF Settle, Jump, workVars, syncVars
<1>2. Domains' /\ FromFirst'
  BY <1>0, <1>1 DEF Domains, FromFirst, Before
<1>3. i = 1 /\ Started' = Started /\ Starts' = Starts /\ \A w \in Workers : ~(w < i)
  BY <1>0, <1>1, Constants DEF FromFirst, Started, Starts, Workers
<1>4. Starting'
  BY <1>0, <1>1, <1>3 DEF Starting
<1>5. Resting' /\ NotYet' /\ Running' /\ Reporting' /\ Asks'
  BY <1>0, <1>1 DEF Resting, NotYet, Running, Reporting, Asks, Before, After
<1>6. Buffers' /\ Current'
  BY <1>0, <1>1 DEF Buffers, Current
<1> QED BY <1>2, <1>4, <1>5, <1>6 DEF Inv

(* When the last worker has been seen with its mutex, all have started.    *)
LEMMA InvSeeLocked == ASSUME Inv, SeeLocked PROVE Inv'
PROOF
<1>0. Domains /\ Starting /\ NotYet /\ Reporting /\ Asks /\ Buffers /\ Current
  BY DEF Inv
<1>1. /\ main = "seen" /\ busy[i] # Nobody /\ go' = (go \/ i = N)
      /\ UNCHANGED <<empty, req, id, price, key, at, asked, text,
                     busy, quoteStart, quoteFin, returned, returnedID>>
  BY DEF SeeLocked, Loop, workVars
<1>2. /\ i' \in Workers /\ i \in Workers
      /\ \/ i < N /\ i' = i + 1 /\ main' = "seen"
         \/ i = N /\ i' = 1 /\ main' = "wait"
  BY <1>0, NextWorker DEF SeeLocked, Domains
<1>3. Domains' /\ FromFirst'
  BY <1>0, <1>1, <1>2 DEF Domains, FromFirst, Before, After
<1>4. /\ \A w \in Workers : w < i => at[w] = "spin"
      /\ quoteStart + Cardinality(Started) = N
      /\ \A w \in Workers : \/ at[w] \in {"start", "lock"} /\ busy[w] = Nobody
                            \/ at[w] = "spin" /\ busy[w] = w
      /\ at[i] = "spin"
  <2>1. /\ \A w \in Workers : w < i => at[w] = "spin"
        /\ quoteStart + Cardinality(Started) = N
        /\ \A w \in Workers : \/ at[w] \in {"start", "lock"} /\ busy[w] = Nobody
                              \/ at[w] = "spin" /\ busy[w] = w
    BY <1>0, <1>1 DEF Starting, Starts
  <2> QED BY <2>1, <1>1, <1>2
<1>5. Started' = Started /\ Started \in SUBSET Workers
  BY <1>1 DEF Started
<1>6. Starting'
  <2> SUFFICES ASSUME main' = "seen" PROVE Starting'
    BY <1>2 DEF Starting
  <2>1. i' = i + 1 /\ \A w \in Workers : w < i' => w < i \/ w = i
    BY <1>2 DEF Workers
  <2> QED BY <1>1, <1>4, <1>5, <2>1 DEF Starting, Starts
<1>7. Running'
  <2> SUFFICES ASSUME main' = "wait" PROVE Running'
    BY <1>2 DEF Running, After
  <2>1. \A w \in Workers : at[w] = "spin" /\ busy[w] = w
    BY <1>2, <1>4, Constants DEF Workers
  <2>2. Started = Workers
    BY <2>1 DEF Started
  <2>3. quoteStart = 0
    BY <1>0, <1>4, <2>2, Counts, Constants DEF Domains
  <2>4. quoteFin = 0 /\ Cardinality(Back') \in Nat
    BY <1>0, <1>1, Counts DEF NotYet, Back, Before
  <2> QED BY <1>1, <2>1, <2>3, <2>4 DEF Running, Working
<1>8. Resting' /\ NotYet' /\ Reporting' /\ Asks'
  <2>1. Resting' /\ Reporting' /\ Asks'
    BY <1>0, <1>1, <1>2 DEF Resting, Reporting, Asks
  <2>2. main' \in Before => i # N
    BY <1>2, Constants DEF Before, Workers
  <2>3. NotYet'
    BY <1>0, <1>1, <2>2 DEF NotYet, Before
  <2> QED BY <2>1, <2>3
<1>9. Buffers' /\ Current'
  BY <1>0, <1>1, <1>2 DEF Buffers, Current, NotYet, Before
<1> QED BY <1>3, <1>6, <1>7, <1>8, <1>9 DEF Inv

LEMMA InvWaitFin == ASSUME Inv, WaitFin PROVE Inv'
PROOF
<1>0. Domains /\ FromFirst /\ Running /\ Reporting /\ Asks /\ Buffers /\ Current
  BY DEF Inv
<1>1. /\ main = "wait" /\ main' = "pick" /\ quoteFin > 0 /\ quoteFin' = quoteFin - 1
      /\ UNCHANGED <<empty, req, i, id, price, key, at, asked, text,
                     busy, quoteStart, go, returned, returnedID>>
  BY DEF WaitFin, Jump, workVars
<1>2. Domains' /\ FromFirst'
  BY <1>0, <1>1 DEF Domains, FromFirst, After
<1>3. Back' = Back /\ Cardinality(Back) \in Nat
  BY <1>1, Counts DEF Back
<1>4. quoteFin <= Cardinality(Back)
  BY <1>0, <1>1 DEF Running, After
<1>5. quoteFin' <= Cardinality(Back')
  BY <1>0, <1>1, <1>3, <1>4 DEF Domains
<1>6. Running'
  BY <1>0, <1>1, <1>5 DEF Running, After
<1>7. Resting' /\ Starting' /\ NotYet' /\ Reporting' /\ Asks'
  BY <1>0, <1>1 DEF Resting, Starting, NotYet, Reporting, Asks, Before
<1>8. Buffers' /\ Current'
  BY <1>0, <1>1 DEF Buffers, Current
<1> QED BY <1>2, <1>6, <1>7, <1>8 DEF Inv

(* The workers are as they were in the part of a round between the first   *)
(* post of quoteFin and the loop that collects the mutexes.                *)
LEMMA StillRunning ==
    ASSUME Inv, main \in After \ {"collect"}, main' \in After,
           main' = "collect" => i = 1,
           UNCHANGED <<i, at, asked, req, busy, quoteStart, quoteFin, go, returned>>
    PROVE  Resting' /\ Starting' /\ NotYet' /\ Running' /\ Reporting' /\ Asks'
PROOF
<1>0. Running /\ Reporting /\ Asks
  BY DEF Inv
<1>1. Back' = Back
  BY DEF Back
<1>2. Resting' /\ Starting' /\ NotYet'
  BY DEF Resting, Starting, NotYet, Before, After
<1>3. main' = "collect" => \A w \in Workers : ~(w < i)
  BY Constants DEF Workers
<1>4. Running'
  BY <1>0, <1>1, <1>3 DEF Running
<1> QED BY <1>0, <1>2, <1>4 DEF Reporting, Asks

LEMMA InvPick == ASSUME Inv, Pick PROVE Inv'
PROOF
<1>0. Domains /\ FromFirst /\ Buffers /\ Current
  BY DEF Inv
<1>1. /\ main = "pick" /\ main' = "parse" /\ id' = returnedID
      /\ UNCHANGED <<empty, req, i, price, key, at, asked, text,
                     busy, quoteStart, quoteFin, go, returned, returnedID>>
  BY DEF Pick, Jump, workVars, syncVars
<1>2. Domains' /\ FromFirst'
  BY <1>0, <1>1 DEF Domains, FromFirst, After
<1>3. Resting' /\ Starting' /\ NotYet' /\ Running' /\ Reporting' /\ Asks'
  BY <1>1, StillRunning DEF After
<1>4. Buffers' /\ Current'
  BY <1>0, <1>1 DEF Buffers, Current
<1> QED BY <1>2, <1>3, <1>4 DEF Inv

LEMMA InvParse == ASSUME Inv, Parse PROVE Inv'
PROOF
<1>0. Domains /\ FromFirst /\ Buffers /\ Current
  BY DEF Inv
<1>1. /\ main = "parse" /\ price' = text[id]
      /\ main' = IF text[id] = Empty THEN "dead" ELSE "rest"
      /\ UNCHANGED <<empty, req, i, id, key, at, asked, text,
                     busy, quoteStart, quoteFin, go, returned, returnedID>>
  BY DEF Parse, workVars, syncVars
<1>2. Domains' /\ FromFirst'
  BY <1>0, <1>1 DEF Domains, FromFirst, After
<1>3. Resting' /\ Starting' /\ NotYet' /\ Running' /\ Reporting' /\ Asks'
  BY <1>1, StillRunning DEF After
<1>4. text[id] \in AnyReply /\ (text[id] = Empty \/ text[id] \in UpTo(req))
  BY <1>0 DEF Domains, Buffers
<1>5. Buffers' /\ Current'
  BY <1>0, <1>1, <1>4 DEF Buffers, Current
<1> QED BY <1>2, <1>3, <1>5 DEF Inv

LEMMA InvParseRest == ASSUME Inv, ParseRest PROVE Inv'
PROOF
<1>0. Domains /\ FromFirst /\ Buffers /\ Current
  BY DEF Inv
<1>1. /\ main = "rest" /\ main' = "answer" /\ key' = text[id]
      /\ UNCHANGED <<empty, req, i, id, price, at, asked, text,
                     busy, quoteStart, quoteFin, go, returned, returnedID>>
  BY DEF ParseRest, Jump, workVars, syncVars
<1>2. Domains' /\ FromFirst'
  BY <1>0, <1>1 DEF Domains, FromFirst, After
<1>3. Resting' /\ Starting' /\ NotYet' /\ Running' /\ Reporting' /\ Asks'
  BY <1>1, StillRunning DEF After
<1>4. Buffers' /\ Current'
  BY <1>0, <1>1 DEF Buffers, Current
<1> QED BY <1>2, <1>3, <1>4 DEF Inv

LEMMA InvAnswer == ASSUME Inv, Answer PROVE Inv'
PROOF
<1>0. Domains /\ FromFirst /\ Buffers /\ Current
  BY DEF Inv
<1>1. /\ main = "answer" /\ main' = "collect"
      /\ price' = Empty /\ key' = Empty
      /\ UNCHANGED <<empty, req, i, id, at, asked, text,
                     busy, quoteStart, quoteFin, go, returned, returnedID>>
  BY DEF Answer, Jump, workVars, syncVars
<1>2. Domains' /\ FromFirst' /\ i = 1
  BY <1>0, <1>1, ReplyFacts DEF Domains, FromFirst, After
<1>3. Resting' /\ Starting' /\ NotYet' /\ Running' /\ Reporting' /\ Asks'
  BY <1>1, <1>2, StillRunning DEF After
<1>4. Buffers' /\ Current'
  BY <1>0, <1>1 DEF Buffers, Current
<1> QED BY <1>2, <1>3, <1>4 DEF Inv

(* When the last mutex is back, every worker has stopped: no more posts    *)
(* are left than there are workers, and taking those leaves none.          *)
LEMMA InvCollect == ASSUME Inv, Collect PROVE Inv'
PROOF
<1>0. Domains /\ FromFirst /\ Running /\ Reporting /\ Asks /\ Buffers /\ Current
  BY DEF Inv
<1>1. /\ main = "collect" /\ busy[i] = Nobody /\ busy' = [busy EXCEPT ![i] = Handler]
      /\ i = N => quoteFin' = (IF quoteFin > N THEN quoteFin - N ELSE 0) /\ go' = FALSE
      /\ i # N => quoteFin' = quoteFin /\ go' = go
      /\ UNCHANGED <<empty, req, id, price, key, at, asked, text,
                     quoteStart, returned, returnedID>>
  BY DEF Collect, Loop, workVars
<1>2. /\ i' \in Workers /\ i \in Workers
      /\ \/ i < N /\ i' = i + 1 /\ main' = "collect"
         \/ i = N /\ i' = 1 /\ main' = "idle"
  BY <1>0, NextWorker DEF Collect, Domains
<1>3. i < N => i # N
  BY Constants, <1>2
<1>4. Back' = Back /\ Cardinality(Back) \in Nat /\ Cardinality(Back) <= N
  BY <1>1, Counts DEF Back
<1>5. /\ quoteStart = 0 /\ quoteFin <= Cardinality(Back)
      /\ \A w \in Workers : IF w < i
                            THEN at[w] = "start" /\ busy[w] = Handler
                            ELSE \/ at[w] = "start" /\ busy[w] = Nobody
                                 \/ at[w] \in Working /\ busy[w] = w
  BY <1>0, <1>1 DEF Running, After
<1>6. quoteFin \in Nat /\ quoteFin <= N
  BY <1>0, <1>4, <1>5, Constants DEF Domains
<1>7. quoteFin' = IF i = N THEN 0 ELSE quoteFin
  BY <1>1, <1>6, Constants
<1>8. Domains'
  <2>1. busy' \in [Workers -> {Handler, Nobody} \cup Workers]
    BY <1>0, <1>1 DEF Domains
  <2> QED BY <1>0, <1>1, <1>2, <1>3, <1>6, <1>7, <2>1 DEF Domains, Before, After
<1>9. at[i] = "start" /\ busy'[i] = Handler /\ \A w \in Workers \ {i} : busy'[w] = busy[w]
  <2>1. ~(i < i) /\ i # Nobody
    BY <1>2, Constants DEF Workers
  <2> QED BY <1>0, <1>1, <1>2, <1>5, <2>1 DEF Domains
<1>10. CASE i < N
  <2>1. i' = i + 1 /\ main' = "collect" /\ quoteFin' = quoteFin /\ go' = go
    BY <1>1, <1>2, <1>3, <1>10
  <2>2. \A w \in Workers : w < i' <=> w < i \/ w = i
    BY <1>2, <2>1 DEF Workers
  <2>3. Running'
    BY <1>1, <1>4, <1>5, <1>9, <2>1, <2>2 DEF Running
  <2>4. FromFirst' /\ Resting' /\ Starting' /\ NotYet' /\ Reporting' /\ Asks'
    BY <1>0, <1>1, <2>1 DEF FromFirst, Resting, Starting, NotYet, Reporting, Asks, Before
  <2>5. Buffers' /\ Current'
    BY <1>0, <1>1, <2>1 DEF Buffers, Current
  <2> QED BY <1>8, <2>3, <2>4, <2>5 DEF Inv
<1>11. CASE i = N
  <2>1. i' = 1 /\ main' = "idle" /\ quoteFin' = 0 /\ ~go'
    BY <1>1, <1>2, <1>3, <1>7, <1>11
  <2>2. \A w \in Workers : w = i \/ w < i
    BY <1>11, Constants DEF Workers
  <2>3. \A w \in Workers : at[w] = "start" /\ busy'[w] = Handler
    BY <1>5, <1>9, <2>2
  <2>4. FromFirst' /\ Resting' /\ Starting' /\ NotYet' /\ Running' /\ Reporting' /\ Asks'
    BY <1>0, <1>1, <1>5, <2>1, <2>3
    DEF FromFirst, Resting, Starting, NotYet, Running, Reporting, Asks, Before, After
  <2>5. Buffers' /\ Current'
    BY <1>0, <1>1, <2>1 DEF Buffers, Current
  <2> QED BY <1>8, <2>4, <2>5 DEF Inv
<1> QED BY <1>2, <1>10, <1>11
-----------------------------------------------------------------------------
(* The steps of the workers.  First where a worker may start or lock.      *)

LEMMA InvWaitStart == ASSUME Inv, NEW w \in Workers, WaitStart(w) PROVE Inv'
PROOF
<1>0. Domains /\ FromFirst /\ Resting /\ Starting /\ NotYet /\ Running
      /\ Reporting /\ Asks /\ Buffers /\ Current
  BY DEF Inv
<1>1. /\ quoteStart > 0 /\ quoteStart' = quoteStart - 1
      /\ at[w] = "start" /\ at' = [at EXCEPT ![w] = "lock"]
      /\ UNCHANGED <<empty, req, main, i, id, price, key, asked, text,
                     busy, quoteFin, go, returned, returnedID>>
  BY DEF WaitStart, Goes, mainVars
<1>2. at'[w] = "lock" /\ \A v \in Workers \ {w} : at'[v] = at[v]
  BY <1>0, <1>1 DEF Domains
<1>3. Domains' /\ FromFirst'
  BY <1>0, <1>1 DEF Domains, FromFirst
<1>4. main \in {"post", "settle", "seen"}
  BY <1>0, <1>1 DEF Domains, Resting, Running, Before, After
<1>5. /\ quoteStart + Cardinality(Started) = Starts
      /\ \A v \in Workers : \/ at[v] \in {"start", "lock"} /\ busy[v] = Nobody
                            \/ at[v] = "spin" /\ busy[v] = v
      /\ main = "seen" => \A v \in Workers : v < i => at[v] = "spin"
  BY <1>0, <1>4 DEF Starting
<1>6. quoteStart' + Cardinality(Started') = Starts'
  <2>1. Started' = Started \cup {w} /\ w \notin Started /\ Started \in SUBSET Workers
    BY <1>1, <1>2 DEF Started
  <2>2. IsFiniteSet(Started) /\ Cardinality(Started) \in Nat
    BY <2>1, Counts
  <2>3. Cardinality(Started') = Cardinality(Started) + 1
    BY <2>1, <2>2, FS_AddElement
  <2>4. Starts' = Starts
    BY <1>1 DEF Starts
  <2> QED BY <1>0, <1>1, <1>5, <2>2, <2>3, <2>4 DEF Domains
<1>7. Starting'
  BY <1>1, <1>2, <1>5, <1>6 DEF Starting
<1>8. Resting' /\ NotYet' /\ Running' /\ Reporting' /\ Asks'
  BY <1>0, <1>1, <1>2, <1>4 DEF Resting, NotYet, Running, Reporting, Asks, After
<1>9. Buffers' /\ Current'
  BY <1>0, <1>1, <1>2 DEF Buffers, Current
<1> QED BY <1>3, <1>7, <1>8, <1>9 DEF Inv

LEMMA InvLock == ASSUME Inv, NEW w \in Workers, Lock(w) PROVE Inv'
PROOF
<1>0. Domains /\ FromFirst /\ Resting /\ Starting /\ NotYet /\ Running
      /\ Reporting /\ Asks /\ Buffers /\ Current
  BY DEF Inv
<1>1. /\ at[w] = "lock" /\ at' = [at EXCEPT ![w] = "spin"]
      /\ busy' = [busy EXCEPT ![w] = w]
      /\ UNCHANGED <<empty, req, main, i, id, price, key, asked, text,
                     quoteStart, quoteFin, go, returned, returnedID>>
  BY DEF Lock, Goes, mainVars
<1>2. /\ at'[w] = "spin" /\ busy'[w] = w
      /\ \A v \in Workers \ {w} : at'[v] = at[v] /\ busy'[v] = busy[v]
  BY <1>0, <1>1 DEF Domains
<1>3. Domains' /\ FromFirst'
  BY <1>0, <1>1 DEF Domains, FromFirst, Working
<1>4. main \in {"post", "settle", "seen"}
  <2>1. main \notin {"idle", "open"}
    BY <1>0, <1>1 DEF Resting
  <2>2. main \notin After
    BY <1>0, <1>1 DEF Running, Working
  <2> QED BY <1>0, <2>1, <2>2 DEF Domains, Before
<1>5. /\ quoteStart + Cardinality(Started) = Starts
      /\ \A v \in Workers : \/ at[v] \in {"start", "lock"} /\ busy[v] = Nobody
                            \/ at[v] = "spin" /\ busy[v] = v
      /\ main = "seen" => \A v \in Workers : v < i => at[v] = "spin"
  BY <1>0, <1>4 DEF Starting
<1>6. Started' = Started /\ Starts' = Starts
  BY <1>1, <1>2 DEF Started, Starts
<1>7. Starting'
  BY <1>1, <1>2, <1>5, <1>6 DEF Starting
<1>8. Resting' /\ NotYet' /\ Running' /\ Reporting' /\ Asks'
  BY <1>0, <1>1, <1>2, <1>4 DEF Resting, NotYet, Running, Reporting, Asks, After
<1>9. Buffers' /\ Current'
  BY <1>0, <1>1, <1>2 DEF Buffers, Current
<1> QED BY <1>3, <1>7, <1>8, <1>9 DEF Inv

(* A worker that is past its start works for the request under way.        *)
LEMMA AtWork ==
    ASSUME Inv, NEW w \in Workers, at[w] \in Working, at[w] = "spin" => go
    PROVE  /\ main \in After /\ quoteStart = 0 /\ busy[w] = w
           /\ ~(main = "collect" /\ w < i)
PROOF
<1>0. Domains /\ Resting /\ Starting /\ NotYet /\ Running
  BY DEF Inv
<1>1. at[w] \notin {"start", "lock"}
  BY DEF Working
<1>2. main \notin {"idle", "open"}
  BY <1>0, <1>1 DEF Resting
<1>3. main \notin {"post", "settle", "seen"}
  BY <1>0, <1>1 DEF Starting, NotYet, Before
<1>4. main \in After
  BY <1>0, <1>2, <1>3 DEF Domains, Before
<1> QED BY <1>0, <1>1, <1>4 DEF Running

(* How many workers are back, when one of them moves.                      *)
LEMMA BackCount ==
    ASSUME Domains, NEW w \in Workers, NEW from, NEW to, Goes(w, from, to)
    PROVE  /\ Cardinality(Back) \in Nat /\ Cardinality(Back') \in Nat
           /\ from \notin {"release", "top", "start"} \/ to \in {"release", "top", "start"}
                 => Cardinality(Back) <= Cardinality(Back')
           /\ from \notin {"release", "top", "start"} /\ to \in {"release", "top", "start"}
                 => Cardinality(Back') = Cardinality(Back) + 1
PROOF
<1>1. at[w] = from /\ at'[w] = to /\ \A v \in Workers \ {w} : at'[v] = at[v]
  BY DEF Goes, Domains
<1>2. Back \in SUBSET Workers /\ Back' \in SUBSET Workers
  BY DEF Back
<1>3. /\ IsFiniteSet(Back) /\ IsFiniteSet(Back')
      /\ Cardinality(Back) \in Nat /\ Cardinality(Back') \in Nat
  BY <1>2, Counts
<1>4. ASSUME from \notin {"release", "top", "start"} \/ to \in {"release", "top", "start"}
      PROVE  Cardinality(Back) <= Cardinality(Back')
  <2>1. Back \subseteq Back'
    BY <1>1, <1>4 DEF Back
  <2> QED BY <2>1, <1>3, FS_Subset
<1>5. ASSUME from \notin {"release", "top", "start"}, to \in {"release", "top", "start"}
      PROVE  Cardinality(Back') = Cardinality(Back) + 1
  <2>1. Back' = Back \cup {w} /\ w \notin Back
    BY <1>1, <1>5 DEF Back
  <2> QED BY <2>1, <1>3, FS_AddElement
<1> QED BY <1>3, <1>4, <1>5

LEMMA StillBounded ==
    ASSUME Inv, NEW w \in Workers, NEW from \in Working, NEW to, Goes(w, from, to),
           from = "spin" => go, from \notin {"release", "top"} \/ to \in {"release", "top", "start"},
           UNCHANGED quoteFin
    PROVE  quoteFin' <= Cardinality(Back')
PROOF
<1>0. Domains /\ Running
  BY DEF Inv
<1>1. quoteFin <= Cardinality(Back)
  BY <1>0, AtWork DEF Running, Goes
<1>2. /\ Cardinality(Back) \in Nat /\ Cardinality(Back') \in Nat
      /\ Cardinality(Back) <= Cardinality(Back')
  BY <1>0, BackCount DEF Working
<1> QED BY <1>0, <1>1, <1>2 DEF Domains

(* What a step of a worker past its start keeps.                           *)
LEMMA Works ==
    ASSUME Inv, NEW w \in Workers, NEW from \in Working, NEW to \in Working \cup {"start"},
           Goes(w, from, to), from = "spin" => go, to # "spin",
           busy' = IF to = "start" THEN [busy EXCEPT ![w] = Nobody] ELSE busy,
           UNCHANGED <<main, i, quoteStart, go>>,
           quoteFin' <= Cardinality(Back')
    PROVE  /\ FromFirst' /\ Resting' /\ Starting' /\ NotYet' /\ Running'
           /\ at' \in [Workers -> {"start", "lock"} \cup Working]
           /\ busy' \in [Workers -> {Handler, Nobody} \cup Workers]
           /\ at[w] = from /\ at'[w] = to /\ \A v \in Workers \ {w} : at'[v] = at[v]
PROOF
<1>0. Domains /\ FromFirst /\ Running
  BY DEF Inv
<1>1. /\ at[w] = from /\ at'[w] = to /\ \A v \in Workers \ {w} : at'[v] = at[v]
      /\ at' \in [Workers -> {"start", "lock"} \cup Working]
  BY <1>0 DEF Goes, Domains
<1>2. /\ busy' \in [Workers -> {Handler, Nobody} \cup Workers]
      /\ busy'[w] = (IF to = "start" THEN Nobody ELSE busy[w])
      /\ \A v \in Workers \ {w} : busy'[v] = busy[v]
  BY <1>0 DEF Domains
<1>3. main \in After /\ quoteStart = 0 /\ busy[w] = w /\ ~(main = "collect" /\ w < i)
  BY <1>1, AtWork
<1>4. Running'
  <2>1. \A v \in Workers : IF main = "collect" /\ v < i
                            THEN at[v] = "start" /\ busy[v] = Handler
                            ELSE \/ at[v] = "start" /\ busy[v] = Nobody
                                 \/ at[v] \in Working /\ busy[v] = v
    BY <1>0, <1>3 DEF Running
  <2>2. \A v \in Workers : IF main = "collect" /\ v < i
                            THEN at'[v] = "start" /\ busy'[v] = Handler
                            ELSE \/ at'[v] = "start" /\ busy'[v] = Nobody
                                 \/ at'[v] \in Working /\ busy'[v] = v
    <3> SUFFICES ASSUME NEW v \in Workers
                 PROVE  IF main = "collect" /\ v < i
                        THEN at'[v] = "start" /\ busy'[v] = Handler
                        ELSE \/ at'[v] = "start" /\ busy'[v] = Nobody
                             \/ at'[v] \in Working /\ busy'[v] = v
      OBVIOUS
    <3>1. CASE v = w
      BY <1>1, <1>2, <1>3, <3>1
    <3>2. CASE v # w
      BY <1>1, <1>2, <2>1, <3>2
    <3> QED BY <3>1, <3>2
  <2> QED BY <1>3, <2>2 DEF Running
<1>5. FromFirst' /\ Resting' /\ Starting' /\ NotYet'
  BY <1>0, <1>3 DEF FromFirst, Resting, Starting, NotYet, Before, After
<1> QED BY <1>1, <1>2, <1>4, <1>5

LEMMA InvStop == ASSUME Inv, NEW w \in Workers, Stop(w) PROVE Inv'
PROOF
<1>0. Domains /\ Reporting /\ Asks /\ Buffers /\ Current
  BY DEF Inv
<1>1. /\ at[w] = "top" /\ at' = [at EXCEPT ![w] = "start"]
      /\ busy' = [busy EXCEPT ![w] = Nobody]
      /\ UNCHANGED <<empty, req, main, i, id, price, key, asked,
                     text, quoteStart, quoteFin, go, returned, returnedID>>
  BY DEF Stop, Goes, mainVars, syncVars
<1>2. quoteFin' <= Cardinality(Back')
  BY <1>1, StillBounded DEF Working, Goes
<1>3. FromFirst' /\ Resting' /\ Starting' /\ NotYet' /\ Running'
      /\ at' \in [Workers -> {"start", "lock"} \cup Working]
      /\ busy' \in [Workers -> {Handler, Nobody} \cup Workers]
      /\ at'[w] = "start" /\ \A v \in Workers \ {w} : at'[v] = at[v]
  BY <1>1, <1>2, Works DEF Working, Goes
<1>4. Domains'
  BY <1>0, <1>1, <1>3 DEF Domains
<1>5. Reporting' /\ Asks'
  BY <1>0, <1>1, <1>3 DEF Reporting, Asks
<1>6. Buffers' /\ Current'
  BY <1>0, <1>1, <1>3 DEF Buffers, Current
<1> QED BY <1>3, <1>4, <1>5, <1>6 DEF Inv

LEMMA InvAgain == ASSUME Inv, NEW w \in Workers, Again(w) PROVE Inv'
PROOF
<1>0. Domains /\ Reporting /\ Asks /\ Buffers /\ Current
  BY DEF Inv
<1>1. /\ at[w] = "top" /\ at' = [at EXCEPT ![w] = "send"]
      /\ quoteFin = 0
      /\ UNCHANGED <<empty, req, main, i, id, price, key, asked, text, busy, quoteStart, quoteFin, go, returned, returnedID>>
  BY DEF Again, Goes, mainVars, syncVars
<1>2. quoteFin' <= Cardinality(Back')
  <2>1. Cardinality(Back') \in Nat
    BY <1>0, <1>1, BackCount DEF Goes
  <2> QED BY <1>1, <2>1
<1>3. FromFirst' /\ Resting' /\ Starting' /\ NotYet' /\ Running'
      /\ at' \in [Workers -> {"start", "lock"} \cup Working]
      /\ busy' \in [Workers -> {Handler, Nobody} \cup Workers]
      /\ at'[w] = "send" /\ \A v \in Workers \ {w} : at'[v] = at[v]
  BY <1>1, <1>2, Works DEF Working, Goes
<1>4. Domains'
  BY <1>0, <1>1, <1>3 DEF Domains
<1>5. Reporting' /\ Asks'
  BY <1>0, <1>1, <1>3 DEF Reporting, Asks
<1>6. Buffers' /\ Current'
  BY <1>0, <1>1, <1>3 DEF Buffers, Current
<1> QED BY <1>3, <1>4, <1>5, <1>6 DEF Inv

LEMMA InvSpin == ASSUME Inv, NEW w \in Workers, Spin(w) PROVE Inv'
PROOF
<1>0. Domains /\ Reporting /\ Asks /\ Buffers /\ Current
  BY DEF Inv
<1>1. /\ at[w] = "spin" /\ at' = [at EXCEPT ![w] = "send"]
      /\ go
      /\ UNCHANGED <<empty, req, main, i, id, price, key, asked, text, busy, quoteStart, quoteFin, go, returned, returnedID>>
  BY DEF Spin, Goes, mainVars, syncVars
<1>2. quoteFin' <= Cardinality(Back')
  BY <1>1, StillBounded DEF Working, Goes
<1>3. FromFirst' /\ Resting' /\ Starting' /\ NotYet' /\ Running'
      /\ at' \in [Workers -> {"start", "lock"} \cup Working]
      /\ busy' \in [Workers -> {Handler, Nobody} \cup Workers]
      /\ at'[w] = "send" /\ \A v \in Workers \ {w} : at'[v] = at[v]
  BY <1>1, <1>2, Works DEF Working, Goes
<1>4. Domains'
  BY <1>0, <1>1, <1>3 DEF Domains
<1>5. Reporting' /\ Asks'
  BY <1>0, <1>1, <1>3 DEF Reporting, Asks
<1>6. Buffers' /\ Current'
  BY <1>0, <1>1, <1>3 DEF Buffers, Current
<1> QED BY <1>3, <1>4, <1>5, <1>6 DEF Inv

LEMMA InvSend == ASSUME Inv, NEW w \in Workers, Send(w) PROVE Inv'
PROOF
<1>0. Domains /\ Reporting /\ Asks /\ Buffers /\ Current
  BY DEF Inv
<1>1. /\ at[w] = "send" /\ at' = [at EXCEPT ![w] = "recv"]
      /\ asked' = [asked EXCEPT ![w] = req]
      /\ UNCHANGED <<empty, req, main, i, id, price, key, text, busy, quoteStart, quoteFin, go, returned, returnedID>>
  BY DEF Send, Goes, mainVars, syncVars
<1>2. quoteFin' <= Cardinality(Back')
  BY <1>1, StillBounded DEF Working, Goes
<1>3. FromFirst' /\ Resting' /\ Starting' /\ NotYet' /\ Running'
      /\ at' \in [Workers -> {"start", "lock"} \cup Working]
      /\ busy' \in [Workers -> {Handler, Nobody} \cup Workers]
      /\ at'[w] = "recv" /\ \A v \in Workers \ {w} : at'[v] = at[v]
  BY <1>1, <1>2, Works DEF Working, Goes
<1>4. Domains'
  BY <1>0, <1>1, <1>3 DEF Domains
<1>5. Reporting' /\ Asks'
  BY <1>0, <1>1, <1>3 DEF Reporting, Asks, Domains
<1>6. Buffers' /\ Current'
  BY <1>0, <1>1, <1>3 DEF Buffers, Current
<1> QED BY <1>3, <1>4, <1>5, <1>6 DEF Inv

LEMMA InvReceive == ASSUME Inv, NEW w \in Workers, Receive(w) PROVE Inv'
PROOF
<1>0. Domains /\ Reporting /\ Asks /\ Buffers /\ Current
  BY DEF Inv
<1>1. /\ at[w] = "recv" /\ at' = [at EXCEPT ![w] = "report"]
      /\ asked' = [asked EXCEPT ![w] = 0]
      /\ asked[w] = req
      /\ UNCHANGED <<empty, req, main, i, id, price, key,
                     busy, quoteStart, quoteFin, go, returned, returnedID>>
  BY <1>0 DEF Receive, Closes, Goes, mainVars, syncVars, Asks
<1>2. quoteFin' <= Cardinality(Back')
  BY <1>1, StillBounded DEF Working, Goes
<1>3. FromFirst' /\ Resting' /\ Starting' /\ NotYet' /\ Running'
      /\ at' \in [Workers -> {"start", "lock"} \cup Working]
      /\ busy' \in [Workers -> {Handler, Nobody} \cup Workers]
      /\ at'[w] = "report" /\ \A v \in Workers \ {w} : at'[v] = at[v]
  BY <1>1, <1>2, Works DEF Working, Goes
<1>4. req \in Nat /\ req > 0
  <2>1. main # "idle"
    BY <1>1, AtWork DEF Working, After
  <2> QED BY <1>0, <2>1 DEF Domains, Buffers
<1>5. PICK t \in Texts : text' = [text EXCEPT ![w] = [of |-> req, says |-> t]]
  BY <1>1 DEF Receive
<1>6. /\ text'[w] \in UpTo(req) /\ text'[w] \in AnyReply /\ text'[w].of = req
      /\ \A v \in Workers \ {w} : text'[v] = text[v]
  BY <1>0, <1>4, <1>5, ReplyFacts DEF Domains
<1>7. Domains'
  <2>1. text' \in [Workers -> AnyReply]
    BY <1>0, <1>5, <1>6 DEF Domains
  <2> QED BY <1>0, <1>1, <1>3, <2>1 DEF Domains
<1>8. Reporting' /\ Asks'
  BY <1>0, <1>1, <1>3 DEF Reporting, Asks, Domains
<1>9. Buffers'
  <2>1. main = "rest" => text'[id] = price \/ text'[id].of = req
    BY <1>0, <1>6 DEF Buffers, Domains
  <2>2. \A v \in Workers : text'[v] = Empty \/ text'[v] \in UpTo(req)
    BY <1>0, <1>6 DEF Buffers
  <2>3. main = "rest" => price \in UpTo(req)
    BY <1>0 DEF Buffers
  <2> QED BY <1>1, <1>4, <2>1, <2>2, <2>3 DEF Buffers
<1>10. Current'
  BY <1>0, <1>1, <1>3, <1>6 DEF Current, Domains
<1> QED BY <1>3, <1>7, <1>8, <1>9, <1>10 DEF Inv

LEMMA InvReceiveNothing == ASSUME Inv, NEW w \in Workers, ReceiveNothing(w) PROVE Inv'
PROOF
<1>0. Domains /\ Reporting /\ Asks /\ Buffers /\ Current
  BY DEF Inv
<1>1. /\ at[w] = "recv" /\ at' = [at EXCEPT ![w] = "report"]
      /\ empty' = empty + 1 /\ asked' = [asked EXCEPT ![w] = 0]
      /\ UNCHANGED <<req, main, i, id, price, key, text, busy, quoteStart, quoteFin, go, returned, returnedID>>
  BY DEF ReceiveNothing, Closes, Goes, mainVars, syncVars
<1>2. quoteFin' <= Cardinality(Back')
  BY <1>1, StillBounded DEF Working, Goes
<1>3. FromFirst' /\ Resting' /\ Starting' /\ NotYet' /\ Running'
      /\ at' \in [Workers -> {"start", "lock"} \cup Working]
      /\ busy' \in [Workers -> {Handler, Nobody} \cup Workers]
      /\ at'[w] = "report" /\ \A v \in Workers \ {w} : at'[v] = at[v]
  BY <1>1, <1>2, Works DEF Working, Goes
<1>4. Domains'
  BY <1>0, <1>1, <1>3 DEF Domains
<1>5. Reporting' /\ Asks'
  BY <1>0, <1>1, <1>3 DEF Reporting, Asks, Domains
<1>6. Buffers' /\ Current'
  BY <1>0, <1>1, <1>3 DEF Buffers, Current, Domains
<1> QED BY <1>3, <1>4, <1>5, <1>6 DEF Inv

LEMMA InvReport == ASSUME Inv, NEW w \in Workers, Report(w) PROVE Inv'
PROOF
<1>0. Domains /\ Reporting /\ Asks /\ Buffers /\ Current
  BY DEF Inv
<1>1. /\ at[w] = "report" /\ at' = [at EXCEPT ![w] = "post"]
      /\ returned = Nobody /\ returned' = w
      /\ UNCHANGED <<empty, req, main, i, id, price, key, asked,
                     text, busy, quoteStart, quoteFin, go, returnedID>>
  BY DEF Report, Goes, mainVars, syncVars
<1>2. quoteFin' <= Cardinality(Back')
  BY <1>1, StillBounded DEF Working, Goes
<1>3. FromFirst' /\ Resting' /\ Starting' /\ NotYet' /\ Running'
      /\ at' \in [Workers -> {"start", "lock"} \cup Working]
      /\ busy' \in [Workers -> {Handler, Nobody} \cup Workers]
      /\ at'[w] = "post" /\ \A v \in Workers \ {w} : at'[v] = at[v]
  BY <1>1, <1>2, Works DEF Working, Goes
<1>4. Domains'
  BY <1>0, <1>1, <1>3 DEF Domains
<1>5. Reporting' /\ Asks'
  BY <1>0, <1>1, <1>3, Constants DEF Reporting, Asks
<1>6. Buffers' /\ Current'
  BY <1>0, <1>1, <1>3 DEF Buffers, Current
<1> QED BY <1>3, <1>4, <1>5, <1>6 DEF Inv

LEMMA InvSkipReport == ASSUME Inv, NEW w \in Workers, SkipReport(w) PROVE Inv'
PROOF
<1>0. Domains /\ Reporting /\ Asks /\ Buffers /\ Current
  BY DEF Inv
<1>1. /\ at[w] = "report" /\ at' = [at EXCEPT ![w] = "top"]
      /\ UNCHANGED <<empty, req, main, i, id, price, key, asked, text, busy, quoteStart, quoteFin, go, returned, returnedID>>
  BY DEF SkipReport, Goes, mainVars, syncVars
<1>2. quoteFin' <= Cardinality(Back')
  BY <1>1, StillBounded DEF Working, Goes
<1>3. FromFirst' /\ Resting' /\ Starting' /\ NotYet' /\ Running'
      /\ at' \in [Workers -> {"start", "lock"} \cup Working]
      /\ busy' \in [Workers -> {Handler, Nobody} \cup Workers]
      /\ at'[w] = "top" /\ \A v \in Workers \ {w} : at'[v] = at[v]
  BY <1>1, <1>2, Works DEF Working, Goes
<1>4. Domains'
  BY <1>0, <1>1, <1>3 DEF Domains
<1>5. Reporting' /\ Asks'
  BY <1>0, <1>1, <1>3 DEF Reporting, Asks
<1>6. Buffers' /\ Current'
  BY <1>0, <1>1, <1>3 DEF Buffers, Current
<1> QED BY <1>3, <1>4, <1>5, <1>6 DEF Inv

LEMMA InvPostFin == ASSUME Inv, NEW w \in Workers, PostFin(w) PROVE Inv'
PROOF
<1>0. Domains /\ Reporting /\ Asks /\ Buffers /\ Current
  BY DEF Inv
<1>1. /\ at[w] = "post" /\ at' = [at EXCEPT ![w] = "release"]
      /\ returnedID' = w /\ quoteFin' = quoteFin + 1
      /\ UNCHANGED <<empty, req, main, i, id, price, key, asked,
                     text, busy, quoteStart, go, returned>>
  BY DEF PostFin, Goes, mainVars, syncVars
<1>2. quoteFin' <= Cardinality(Back')
  <2>1. quoteFin <= Cardinality(Back)
    BY <1>0, <1>1, AtWork DEF Running, Working, Inv
  <2>2. Cardinality(Back') = Cardinality(Back) + 1 /\ Cardinality(Back) \in Nat
    BY <1>0, <1>1, BackCount DEF Goes
  <2> QED BY <1>0, <1>1, <2>1, <2>2 DEF Domains
<1>3. FromFirst' /\ Resting' /\ Starting' /\ NotYet' /\ Running'
      /\ at' \in [Workers -> {"start", "lock"} \cup Working]
      /\ busy' \in [Workers -> {Handler, Nobody} \cup Workers]
      /\ at'[w] = "release" /\ \A v \in Workers \ {w} : at'[v] = at[v]
  BY <1>1, <1>2, Works DEF Working, Goes
<1>4. Domains'
  BY <1>0, <1>1, <1>3 DEF Domains
<1>5. Reporting' /\ Asks'
  BY <1>0, <1>1, <1>3 DEF Reporting, Asks
<1>6. Buffers' /\ Current'
  BY <1>0, <1>1, <1>3 DEF Buffers, Current
<1> QED BY <1>3, <1>4, <1>5, <1>6 DEF Inv

LEMMA InvRelease == ASSUME Inv, NEW w \in Workers, Release(w) PROVE Inv'
PROOF
<1>0. Domains /\ Reporting /\ Asks /\ Buffers /\ Current
  BY DEF Inv
<1>1. /\ at[w] = "release" /\ at' = [at EXCEPT ![w] = "top"]
      /\ returned' = Nobody
      /\ UNCHANGED <<empty, req, main, i, id, price, key, asked,
                     text, busy, quoteStart, quoteFin, go, returnedID>>
  BY DEF Release, Goes, mainVars, syncVars
<1>2. quoteFin' <= Cardinality(Back')
  BY <1>1, StillBounded DEF Working, Goes
<1>3. FromFirst' /\ Resting' /\ Starting' /\ NotYet' /\ Running'
      /\ at' \in [Workers -> {"start", "lock"} \cup Working]
      /\ busy' \in [Workers -> {Handler, Nobody} \cup Workers]
      /\ at'[w] = "top" /\ \A v \in Workers \ {w} : at'[v] = at[v]
  BY <1>1, <1>2, Works DEF Working, Goes
<1>4. Domains'
  BY <1>0, <1>1, <1>3 DEF Domains
<1>5. Reporting' /\ Asks'
  BY <1>0, <1>1, <1>3 DEF Reporting, Asks
<1>6. Buffers' /\ Current'
  BY <1>0, <1>1, <1>3 DEF Buffers, Current
<1> QED BY <1>3, <1>4, <1>5, <1>6 DEF Inv

LEMMA InvNotSent == ASSUME Inv, NEW w \in Workers, TimeOut(w) \/ Fail(w) PROVE Inv'
PROOF
<1>0. Domains /\ Reporting /\ Asks /\ Buffers /\ Current
  BY DEF Inv
<1>1. /\ at[w] = "send" /\ at' = [at EXCEPT ![w] = "top"]
      /\ UNCHANGED <<empty, req, main, i, id, price, key, asked, text,
                     busy, quoteStart, quoteFin, go, returned, returnedID>>
  BY DEF TimeOut, Fail, Goes, mainVars, syncVars
<1>2. quoteFin' <= Cardinality(Back')
  BY <1>1, StillBounded DEF Working, Goes
<1>3. FromFirst' /\ Resting' /\ Starting' /\ NotYet' /\ Running'
      /\ at' \in [Workers -> {"start", "lock"} \cup Working]
      /\ busy' \in [Workers -> {Handler, Nobody} \cup Workers]
      /\ at'[w] = "top" /\ \A v \in Workers \ {w} : at'[v] = at[v]
  BY <1>1, <1>2, Works DEF Working, Goes
<1>4. Domains'
  BY <1>0, <1>1, <1>3 DEF Domains
<1>5. Reporting' /\ Asks'
  BY <1>0, <1>1, <1>3 DEF Reporting, Asks
<1>6. Buffers' /\ Current'
  BY <1>0, <1>1, <1>3 DEF Buffers, Current
<1> QED BY <1>3, <1>4, <1>5, <1>6 DEF Inv

LEMMA InvGiveUp == ASSUME Inv, NEW w \in Workers, GiveUp(w) PROVE Inv'
PROOF
<1>0. Domains /\ Reporting /\ Asks /\ Buffers /\ Current
  BY DEF Inv
<1>1. /\ at[w] = "recv" /\ at' = [at EXCEPT ![w] = "top"]
      /\ asked' = [asked EXCEPT ![w] = 0]
      /\ UNCHANGED <<empty, req, main, i, id, price, key, text,
                     busy, quoteStart, quoteFin, go, returned, returnedID>>
  BY DEF GiveUp, Closes, Goes, mainVars, syncVars
<1>2. quoteFin' <= Cardinality(Back')
  BY <1>1, StillBounded DEF Working, Goes
<1>3. FromFirst' /\ Resting' /\ Starting' /\ NotYet' /\ Running'
      /\ at' \in [Workers -> {"start", "lock"} \cup Working]
      /\ busy' \in [Workers -> {Handler, Nobody} \cup Workers]
      /\ at'[w] = "top" /\ \A v \in Workers \ {w} : at'[v] = at[v]
  BY <1>1, <1>2, Works DEF Working, Goes
<1>4. Domains'
  BY <1>0, <1>1, <1>3 DEF Domains
<1>5. Reporting' /\ Asks'
  BY <1>0, <1>1, <1>3 DEF Reporting, Asks, Domains
<1>6. Buffers' /\ Current'
  BY <1>0, <1>1, <1>3 DEF Buffers, Current
<1> QED BY <1>3, <1>4, <1>5, <1>6 DEF Inv
-----------------------------------------------------------------------------
LEMMA InvUnchanged == ASSUME Inv, UNCHANGED vars PROVE Inv'
PROOF
<1>1. UNCHANGED <<req, main, i, id, price, key, at, asked, text,
                  busy, quoteStart, quoteFin, go, returned, returnedID, empty>>
  BY DEF vars, mainVars, workVars, syncVars
<1>2. Started' = Started /\ Starts' = Starts /\ Back' = Back
  BY <1>1 DEF Started, Starts, Back
<1>3. Domains' /\ FromFirst' /\ Resting' /\ Starting' /\ NotYet' /\ Running'
  BY <1>1, <1>2 DEF Inv, Domains, FromFirst, Resting, Starting, NotYet, Running
<1>4. Reporting' /\ Asks' /\ Buffers' /\ Current'
  BY <1>1 DEF Inv, Reporting, Asks, Buffers, Current
<1> QED BY <1>3, <1>4 DEF Inv

LEMMA InvStep == Inv /\ [Next]_vars => Inv'
PROOF
<1> SUFFICES ASSUME Inv, [Next]_vars PROVE Inv'
  OBVIOUS
<1>1. CASE Dequeue
  BY <1>1, InvDequeue
<1>2. CASE HandlerStep
  BY <1>2, InvOpen, InvPostStart, InvSettle, InvSeeLocked, InvWaitFin, InvPick,
     InvParse, InvParseRest, InvAnswer, InvCollect DEF HandlerStep
<1>3. ASSUME NEW w \in Workers, WorkerStep(w) PROVE Inv'
  BY <1>3, InvStop, InvAgain, InvWaitStart, InvLock, InvSpin, InvSend, InvNotSent, InvGiveUp, InvReceive,
     InvReceiveNothing, InvReport, InvSkipReport, InvPostFin, InvRelease DEF WorkerStep
<1>4. CASE UNCHANGED vars
  BY <1>4, InvUnchanged
<1> QED BY <1>1, <1>2, <1>3, <1>4 DEF Next

LEMMA InvAlways == Spec => []Inv
PROOF
<1> QED BY InvInit, InvStep, PTL DEF Spec

(* Between two requests nothing of the last one is left: no post of a      *)
(* semaphore, no flag, no mutex in a worker's hands, no worker on its way; *)
(* and a worker that waits for the quote server has asked it about the     *)
(* request under way.                                                      *)
THEOREM RoundsEnd == Spec => []RoundIsOver
PROOF
<1>1. Inv => RoundIsOver
  <2> SUFFICES ASSUME Inv PROVE RoundIsOver
    OBVIOUS
  <2>0. Domains /\ FromFirst /\ Resting /\ NotYet /\ Reporting /\ Asks
    BY DEF Inv
  <2>1. ASSUME main = "idle"
        PROVE  /\ quoteStart = 0 /\ quoteFin = 0 /\ ~go
               /\ returned = Nobody
               /\ \A w \in Workers : busy[w] = Handler /\ at[w] = "start"
    BY <2>0, <2>1 DEF Domains, Resting, NotYet, Reporting, Before
  <2>2. ASSUME NEW w \in Workers, at[w] = "recv"
        PROVE  asked[w] = req /\ main \notin {"idle", "open", "post"}
    BY <2>0, <2>2, AtWork DEF Asks, Working, After
  <2> QED BY <2>1, <2>2 DEF RoundIsOver
<1> QED BY <1>1, InvAlways, PTL
-----------------------------------------------------------------------------
(* The refinement.  The stage and the quote that QuoteRound sees change    *)
(* with the handler's place only.                                          *)

LEMMA RoundStutter ==
    ASSUME UNCHANGED <<req, main, price, key, empty>> PROVE UNCHANGED Round!roundVars
PROOF
<1> QED BY DEF Round!roundVars

LEMMA HandlerRounds == ASSUME Inv, HandlerStep PROVE Round!Next \/ UNCHANGED Round!roundVars
PROOF
<1>0. Domains /\ Buffers /\ Current
  BY DEF Inv
<1>1. CASE Open \/ PostStart \/ Settle \/ SeeLocked \/ WaitFin \/ Pick
  <2>1. /\ main \in {"open", "post", "settle", "seen", "wait", "pick"}
        /\ main' \in {"open", "post", "settle", "seen", "wait", "pick", "parse"}
        /\ UNCHANGED <<req, empty>>
    BY <1>1 DEF Open, PostStart, Settle, SeeLocked, WaitFin, Pick, Loop, Jump
  <2> QED BY <2>1 DEF Round!roundVars
<1>2. CASE Parse
  <2>1. main = "parse" /\ UNCHANGED <<req, empty>>
    BY <1>2 DEF Parse
  <2>2. CASE text[id] = Empty
    <3>1. main' = "dead" /\ empty > 0
      BY <1>0, <1>2, <2>1, <2>2, ReplyFacts DEF Parse, Domains, Buffers, Current
    <3> QED BY <2>1, <3>1 DEF Round!Next, Round!GiveUp
  <2>3. CASE text[id] # Empty
    <3>1. main' = "rest"
      BY <1>2, <2>3 DEF Parse
    <3> QED BY <2>1, <3>1 DEF Round!roundVars
  <2> QED BY <2>2, <2>3
<1>3. CASE ParseRest
  <2>1. /\ main = "rest" /\ main' = "answer" /\ key' = text[id] /\ UNCHANGED <<req, empty, price>>
    BY <1>3 DEF ParseRest, Jump
  <2>2. /\ req \in Nat /\ req > 0 /\ empty \in Nat
        /\ price \in UpTo(req) /\ (key' = price \/ key'.of = req)
        /\ key' = Empty \/ key' \in UpTo(req)
        /\ empty = 0 => price.of = req
    BY <1>0, <2>1 DEF Domains, Buffers, Current
  <2>3. price.of \in 1 .. req /\ price \in Round!RepliesTo(price.of)
    BY <2>2, ReplyFacts
  <2>4. key' = price \/ key' \in Round!RepliesTo(req)
    BY <2>2, ReplyFacts
  <2>5. CASE price.of = req
    BY <2>1, <2>3, <2>4, <2>5 DEF Round!Next, Round!Fetch
  <2>6. CASE price.of # req
    <3>1. price.of \in 1 .. req - 1 /\ empty > 0
      BY <2>2, <2>3, <2>6
    <3>2. Round!FetchOld
      BY <2>1, <2>3, <2>4, <3>1 DEF Round!FetchOld
    <3> QED BY <3>2 DEF Round!Next
  <2> QED BY <2>5, <2>6
<1>4. CASE Answer
  <2>1. main = "answer" /\ main' = "collect" /\ UNCHANGED <<req, empty>>
    BY <1>4 DEF Answer, Jump
  <2> QED BY <2>1 DEF Round!Next, Round!Store, Round!NoQuote, Round!NoReply, Empty
<1>5. CASE Collect
  <2>1. main = "collect" /\ main' \in {"collect", "idle"} /\ UNCHANGED <<req, empty>>
    BY <1>5 DEF Collect, Loop
  <2>2. CASE main' = "idle"
    BY <2>1, <2>2 DEF Round!Next, Round!Collect
  <2>3. CASE main' = "collect"
    BY <2>1, <2>3 DEF Round!roundVars
  <2> QED BY <2>1, <2>2, <2>3
<1> QED BY <1>1, <1>2, <1>3, <1>4, <1>5 DEF HandlerStep

LEMMA WorkersStutter ==
    ASSUME Inv, NEW w \in Workers, WorkerStep(w) PROVE Round!Next \/ UNCHANGED Round!roundVars
PROOF
<1>1. CASE ReceiveNothing(w)
  <2>1. at[w] = "recv" /\ empty' = empty + 1 /\ UNCHANGED <<req, main, price, key>>
    BY <1>1 DEF ReceiveNothing, Goes, mainVars
  <2>2. main # "idle"
    BY <2>1, AtWork DEF Working, After
  <2> QED BY <2>1, <2>2 DEF Round!Next, Round!Close
<1>2. CASE ~ReceiveNothing(w)
  <2>1. UNCHANGED <<req, main, price, key, empty>>
    BY <1>2 DEF WorkerStep, Stop, Again, WaitStart, Lock, Spin, Send, TimeOut, Fail, GiveUp, Receive,
                Report, SkipReport, PostFin, Release, mainVars
  <2> QED BY <2>1, RoundStutter
<1> QED BY <1>1, <1>2

(* The handler and its workers keep the promise of QuoteRound: whatever    *)
(* the number of workers, price and key that they store for a request are  *)
(* each from a reply of the server to that request (delimSep may have read *)
(* them from two), unless the server has closed a connection without one.  *)
THEOREM RoundsAreKept == Spec => Rounds
PROOF
<1>1. Init => Round!Init
  BY DEF Init, Round!Init, Round!NoQuote, Round!NoReply, Empty
<1>2. Inv /\ [Next]_vars => [Round!Next]_(Round!roundVars)
  <2> SUFFICES ASSUME Inv, [Next]_vars PROVE Round!Next \/ UNCHANGED Round!roundVars
    OBVIOUS
  <2>1. CASE Dequeue
    <3>1. main = "idle" /\ main' = "open" /\ req' = req + 1 /\ UNCHANGED empty
      BY <2>1 DEF Dequeue, Jump
    <3> QED BY <3>1 DEF Round!Next, Round!Take
  <2>2. CASE UNCHANGED vars
    <3>1. UNCHANGED <<req, main, price, key, empty>>
      BY <2>2 DEF vars, mainVars
    <3> QED BY <3>1, RoundStutter
  <2> QED BY <2>1, <2>2, HandlerRounds, WorkersStutter DEF Next
<1> QED BY <1>1, <1>2, InvAlways, PTL DEF Spec, Rounds, Round!Spec
=============================================================================
