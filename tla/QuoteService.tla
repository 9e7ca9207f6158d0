---------------------------- MODULE QuoteService ----------------------------
(***************************************************************************)
(* What the load balancer promises to the transaction servers, whatever    *)
(* handlers, queue and locks there are between a request and its answer: a *)
(* request is answered once, with a quote that was not stale when the      *)
(* request was made; only a QCR may be turned down, and only while there   *)
(* is no fresh quote; a quote is fetched only while somebody waits for it. *)
(***************************************************************************)
EXTENDS Integers

CONSTANTS Conns, Stocks, QuoteTo

VARIABLES
    now,
    since,   \* stock -> the time of its latest quote
    asks     \* connection -> its request, or Nothing

serviceVars == <<now, since, asks>>
Nothing == [kind |-> "none"]

Init ==
    /\ now = QuoteTo
    /\ since = [s \in Stocks |-> 0]
    /\ asks = [c \in Conns |-> Nothing]

Ask(c, kind, s) ==
    /\ asks[c] = Nothing
    /\ asks' = [asks EXCEPT ![c] = [kind |-> kind, stock |-> s, asked |-> now]]
    /\ UNCHANGED <<now, since>>

Answer(c) ==
    /\ asks[c] # Nothing
    /\ since[asks[c].stock] > asks[c].asked - QuoteTo
    /\ asks' = [asks EXCEPT ![c] = Nothing]
    /\ UNCHANGED <<now, since>>

Decline(c) ==
    /\ asks[c] # Nothing /\ asks[c].kind = "QCR"
    /\ since[asks[c].stock] <= now - QuoteTo
    /\ asks' = [asks EXCEPT ![c] = Nothing]
    /\ UNCHANGED <<now, since>>

Refresh(s) ==
    /\ \E c \in Conns : asks[c] # Nothing /\ asks[c].kind = "QNR" /\ asks[c].stock = s
    /\ since' = [since EXCEPT ![s] = now]
    /\ UNCHANGED <<now, asks>>

Tick ==
    /\ now' = now + 1
    /\ UNCHANGED <<since, asks>>

Next ==
    \/ \E c \in Conns : \/ \E kind \in {"QCR", "QNR"}, s \in Stocks : Ask(c, kind, s)
                        \/ Answer(c)
                        \/ Decline(c)
    \/ \E s \in Stocks : Refresh(s)
    \/ Tick

Spec == Init /\ [][Next]_serviceVars
=============================================================================
