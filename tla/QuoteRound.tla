----------------------------- MODULE QuoteRound -----------------------------
(***************************************************************************)
(* What one round of a quote_handler of the load balancer gives: the       *)
(* handler takes a request, obtains a quote for it, stores it, and is      *)
(* ready for the next.  QuoteFanout implements it with the workers, and    *)
(* LoadBalancer relies on it.                                              *)
(*                                                                         *)
(* A quote is put together of what one or two replies of the quote server  *)
(* say.  Both are replies to the request under way; that they are the same *)
(* one is not promised.  When the server has closed a connection without a *)
(* reply, the quote may begin with, or be, a reply to an earlier request,  *)
(* or the handler ends.                                                    *)
(***************************************************************************)
EXTENDS Naturals

CONSTANT Texts    \* what the server may say

VARIABLES
    req,     \* the number of the request under way, or of the last one
    stage,   \* where the handler is
    got,     \* newQuote, from when it is complete until it is in the cache:
             \* the replies its price and its key are from
    empty    \* how often the server has closed a connection without a reply

roundVars == <<req, stage, got, empty>>
NoReply == [of |-> 0, says |-> 0]
NoQuote == [price |-> NoReply, key |-> NoReply]
RepliesTo(request) == [of : {request}, says : Texts]

Init ==
    /\ req = 0
    /\ stage = "idle"
    /\ got = NoQuote
    /\ empty = 0

Take ==
    /\ stage = "idle" /\ stage' = "fetch"
    /\ req' = req + 1
    /\ UNCHANGED <<got, empty>>

Fetch ==
    /\ stage = "fetch" /\ stage' = "store"
    /\ \E p, k \in RepliesTo(req) : got' = [price |-> p, key |-> k]
    /\ UNCHANGED <<req, empty>>

FetchOld ==
    /\ empty > 0
    /\ stage = "fetch" /\ stage' = "store"
    /\ \E old \in 1 .. req - 1 : \E p \in RepliesTo(old) :
          \E k \in {p} \cup RepliesTo(req) : got' = [price |-> p, key |-> k]
    /\ UNCHANGED <<req, empty>>

GiveUp ==
    /\ empty > 0
    /\ stage = "fetch" /\ stage' = "dead"
    /\ UNCHANGED <<req, got, empty>>

Store ==
    /\ stage = "store" /\ stage' = "collect"
    /\ got' = NoQuote
    /\ UNCHANGED <<req, empty>>

Collect ==
    /\ stage = "collect" /\ stage' = "idle"
    /\ UNCHANGED <<req, got, empty>>

Close ==
    /\ stage # "idle"
    /\ empty' = empty + 1
    /\ UNCHANGED <<req, stage, got>>

Next == Take \/ Fetch \/ FetchOld \/ GiveUp \/ Store \/ Collect \/ Close
Spec == Init /\ [][Next]_roundVars
=============================================================================
