----------------------------- MODULE TriggerRing -----------------------------
(***************************************************************************)
(* The ring of triggers of one stock (src/src/transServer.c: addTrigger,   *)
(* removeTrigger, trigger_handler).                                        *)
(*                                                                         *)
(* Command threads put a user's trigger into the ring and take it out, with*)
(* that user's lock and then the stock's.  The trigger thread walks the    *)
(* ring with the stock's lock, tries the owner's, gives the stock's back   *)
(* while it looks at the trigger, and takes it again.                      *)
(*                                                                         *)
(* When it misses the owner's lock it goes on without the stock's lock     *)
(* (line 1743), and what it unlocks from then on may be another thread's:  *)
(* a mutex of this kind has no owner, unlocking it makes it free.  A block *)
(* that has been freed keeps the words the thread reads, until it is       *)
(* allocated again.                                                        *)
(*                                                                         *)
(* Whether a trigger fires is a matter of data, and open here.  Each       *)
(* critical section of a command thread is one step between taking the     *)
(* stock's lock and giving it back.                                        *)
(***************************************************************************)
EXTENDS Naturals, FiniteSets

CONSTANTS
    Users,
    Types,     \* of triggers, 'b' and 's'
    Triggers,  \* blocks of memory for a "struct trigger", enough for all
    Null,      \* no trigger
    Nobody,    \* an unlocked mutex
    Handler    \* the trigger thread

ASSUME ConstantsAssumption ==
    /\ Users # {} /\ Types # {}
    /\ IsFiniteSet(Users) /\ IsFiniteSet(Types) /\ IsFiniteSet(Triggers)
    /\ Cardinality(Triggers) >= Cardinality(Users) * Cardinality(Types)
    /\ Null \notin Triggers
    /\ Nobody \notin Users
    /\ Handler \notin Users \cup {Nobody}

VARIABLES
    curr,       \* cStock->curr
    next, prev, \* of each trigger
    home,       \* of each trigger: the user, and the type that leads to its
                \* place in the user's tree
    slot,       \* user -> type -> the trigger in the user's tree
    stockBusy,  \* who holds cStock->busy
    userBusy,   \* user -> who holds the user's lock
    at,         \* user -> where the command thread is that works on the user
    type,       \* user -> the type of trigger its command is about
    pc,         \* where the trigger thread is
    cTrigger, sTrigger, sTrigMod,
    missed      \* whether the trigger thread has failed to lock a user

ringVars == <<curr, next, prev, home, slot>>
commandVars == <<at, type>>
handlerVars == <<pc, cTrigger, sTrigger, sTrigMod, missed>>
vars == <<ringVars, stockBusy, userBusy, commandVars, handlerVars>>

Pointers == Triggers \cup {Null}
Homes == Users \X Types
CommandPlaces == {"idle", "stock", "in", "out"}
HandlerPlaces == {"top", "price", "look", "step", "try", "act", "remove", "wait",
                  "test", "leave", "dead"}

(* The triggers in the users' trees, all others are free blocks.           *)
Live == {slot[h[1]][h[2]] : h \in Homes} \ {Null}

TypeOK ==
    /\ curr \in Pointers
    /\ next \in [Triggers -> Pointers] /\ prev \in [Triggers -> Pointers]
    /\ home \in [Triggers -> Homes \cup {Null}]
    /\ slot \in [Users -> [Types -> Pointers]]
    /\ stockBusy \in Users \cup {Nobody, Handler}
    /\ \A u \in Users : userBusy[u] \in {Nobody, Handler, u}
    /\ at \in [Users -> CommandPlaces]
    /\ type \in [Users -> Types]
    /\ pc \in HandlerPlaces
    /\ cTrigger \in Pointers /\ sTrigger \in Pointers
    /\ sTrigMod \in BOOLEAN
    /\ missed \in BOOLEAN
    /\ pc \in {"step", "try", "act", "remove"} => cTrigger # Null

Init ==
    /\ curr = Null
    /\ next = [t \in Triggers |-> Null] /\ prev = [t \in Triggers |-> Null]
    /\ home = [t \in Triggers |-> Null]
    /\ slot = [u \in Users |-> [k \in Types |-> Null]]
    /\ stockBusy = Nobody
    /\ userBusy = [u \in Users |-> Nobody]
    /\ at = [u \in Users |-> "idle"]
    /\ type = [u \in Users |-> CHOOSE k \in Types : TRUE]
    /\ pc = "top"
    /\ cTrigger = Null /\ sTrigger = Null /\ sTrigMod = FALSE
    /\ missed = FALSE

-----------------------------------------------------------------------------
(* addTrigger, removeTrigger.                                              *)

(* A new trigger is the last one before curr.                              *)
LinkAsLast(t) ==
    IF curr = Null
    THEN /\ curr' = t
         /\ next' = [next EXCEPT ![t] = t]
         /\ prev' = [prev EXCEPT ![t] = t]
    ELSE /\ curr' = curr
         /\ next' = [next EXCEPT ![t] = curr, ![prev[curr]] = t]
         /\ prev' = [prev EXCEPT ![t] = prev[curr], ![curr] = t]

UnlinkKeepsCurr(t) ==
    IF next[t] = t
    THEN curr' = Null /\ UNCHANGED <<next, prev>>
    ELSE /\ curr' = curr
         /\ prev' = [prev EXCEPT ![next[t]] = prev[t]]
         /\ next' = [next EXCEPT ![prev[t]] = next[t]]
UnlinkTrigger(t) ==
    IF next[t] = t
    THEN curr' = Null /\ UNCHANGED <<next, prev>>
    ELSE /\ curr' = IF curr = t THEN next[t] ELSE curr
         /\ prev' = [prev EXCEPT ![next[t]] = prev[t]]
         /\ next' = [next EXCEPT ![prev[t]] = next[t]]

PutIn(t, u, k) ==
    /\ LinkAsLast(t)
    /\ home' = [home EXCEPT ![t] = <<u, k>>]
    /\ slot' = [slot EXCEPT ![u][k] = t]

TakeOut(t) ==
    /\ UnlinkTrigger(t)
    /\ slot' = [slot EXCEPT ![home[t][1]][home[t][2]] = Null]
    /\ UNCHANGED home
-----------------------------------------------------------------------------
(* A command thread that works on user u.                                  *)

Goes(u, from, to) == at[u] = from /\ at' = [at EXCEPT ![u] = to]
TakeUser(u, who) == userBusy[u] = Nobody /\ userBusy' = [userBusy EXCEPT ![u] = who]

(* SET_..._AMOUNT when there is no trigger of the type, CANCEL_SET_... when*)
(* there is one, and any other command.                                    *)
Begin(u, k) ==
    /\ Goes(u, "idle", "stock")
    /\ TakeUser(u, u)
    /\ type' = [type EXCEPT ![u] = k]
    /\ UNCHANGED <<ringVars, stockBusy, handlerVars>>
BeginOther(u) ==
    /\ Goes(u, "idle", "out")
    /\ TakeUser(u, u)
    /\ UNCHANGED <<ringVars, stockBusy, type, handlerVars>>

LockStock(u) ==
    /\ Goes(u, "stock", "in")
    /\ stockBusy = Nobody /\ stockBusy' = u
    /\ UNCHANGED <<ringVars, userBusy, type, handlerVars>>

Add(u) ==
    /\ Goes(u, "in", "out")
    /\ slot[u][type[u]] = Null
    /\ \E t \in Triggers \ Live : PutIn(t, u, type[u])
    /\ stockBusy' = Nobody
    /\ UNCHANGED <<userBusy, type, handlerVars>>

Cancel(u) ==
    /\ Goes(u, "in", "out")
    /\ slot[u][type[u]] # Null
    /\ TakeOut(slot[u][type[u]])
    /\ stockBusy' = Nobody
    /\ UNCHANGED <<userBusy, type, handlerVars>>

(* The database has answered: the command is successful.                   *)
End(u) ==
    /\ Goes(u, "out", "idle")
    /\ userBusy' = [userBusy EXCEPT ![u] = Nobody]
    /\ UNCHANGED <<ringVars, stockBusy, type, handlerVars>>
-----------------------------------------------------------------------------
(* The trigger thread.                                                     *)

Moves(from, to) == pc = from /\ pc' = to

Start ==
    /\ Moves("top", "price")
    /\ curr # Null
    /\ stockBusy = Nobody /\ stockBusy' = Handler
    /\ sTrigger' = curr
    /\ UNCHANGED <<ringVars, userBusy, commandVars, cTrigger, sTrigMod, missed>>

(* The quote, fetched with the stock locked, is a price or is not.         *)
Priced ==
    /\ Moves("price", "look")
    /\ UNCHANGED <<ringVars, stockBusy, userBusy, commandVars, cTrigger, sTrigger, sTrigMod, missed>>
NotPriced ==
    /\ Moves("price", "top")
    /\ stockBusy' = Nobody
    /\ UNCHANGED <<ringVars, userBusy, commandVars, cTrigger, sTrigger, sTrigMod, missed>>

(* cTrigger = cStock->curr, and its "next", which a null pointer has not.  *)
LookKeepsMod ==
    /\ pc = "look"
    /\ pc' = IF curr = Null THEN "dead" ELSE "step"
    /\ cTrigger' = curr
    /\ UNCHANGED <<ringVars, stockBusy, userBusy, commandVars, sTrigger, sTrigMod, missed>>
LookAnyway ==
    /\ Moves("look", "step")
    /\ cTrigger' = curr
    /\ sTrigMod' = FALSE
    /\ UNCHANGED <<ringVars, stockBusy, userBusy, commandVars, sTrigger, missed>>
Look ==
    /\ pc = "look"
    /\ pc' = IF curr = Null THEN "dead" ELSE "step"
    /\ cTrigger' = curr
    /\ sTrigMod' = FALSE
    /\ UNCHANGED <<ringVars, stockBusy, userBusy, commandVars, sTrigger, missed>>

Step ==
    /\ Moves("step", "try")
    /\ curr' = next[cTrigger]
    /\ UNCHANGED <<next, prev, home, slot, stockBusy, userBusy, commandVars,
                   cTrigger, sTrigger, sTrigMod, missed>>

Owner(t) == home[t][1]

TryUnlocked ==
    /\ Moves("try", "act")
    /\ stockBusy' = Nobody
    /\ UNCHANGED <<ringVars, userBusy, commandVars, cTrigger, sTrigger, sTrigMod, missed>>
Try ==
    /\ Moves("try", "act")
    /\ TakeUser(Owner(cTrigger), Handler)
    /\ stockBusy' = Nobody
    /\ UNCHANGED <<ringVars, commandVars, cTrigger, sTrigger, sTrigMod, missed>>

(* The lock is somebody else's: on with the loop.                          *)
MissWaits ==
    /\ pc = "try" /\ userBusy[Owner(cTrigger)] # Nobody
    /\ UNCHANGED vars
Miss ==
    /\ Moves("try", "test")
    /\ userBusy[Owner(cTrigger)] # Nobody
    /\ stockBusy' = Nobody
    /\ missed' = TRUE
    /\ UNCHANGED <<ringVars, userBusy, commandVars, cTrigger, sTrigger, sTrigMod>>

(* Taking the stock's lock and giving back the user's.                     *)
Relock(from) ==
    /\ Moves(from, "test")
    /\ stockBusy = Nobody /\ stockBusy' = Handler
    /\ \E u \in Users :
          /\ userBusy[u] = Handler
          /\ userBusy' = [userBusy EXCEPT ![u] = Nobody]
    /\ UNCHANGED <<ringVars, commandVars, cTrigger, sTrigger, sTrigMod, missed>>

Pass == Relock("act")

(* The trigger fires: if the walk began with it, it now begins with the    *)
(* next one.                                                               *)
Fire ==
    /\ Moves("act", "remove")
    /\ stockBusy = Nobody
    /\ sTrigMod' = (sTrigger = cTrigger)
    /\ sTrigger' = IF sTrigger = cTrigger THEN next[cTrigger] ELSE sTrigger
    /\ UNCHANGED <<ringVars, stockBusy, userBusy, commandVars, cTrigger, missed>>

Remove ==
    /\ Moves("remove", "wait")
    /\ stockBusy = Nobody
    /\ TakeOut(cTrigger)
    /\ UNCHANGED <<stockBusy, userBusy, commandVars, cTrigger, sTrigger, sTrigMod, missed>>

DbDone == Relock("wait")

(* The condition of the loop.                                              *)
Test ==
    /\ pc = "test"
    /\ pc' = IF curr # Null /\ (sTrigger # curr \/ sTrigMod) THEN "look" ELSE "leave"
    /\ UNCHANGED <<ringVars, stockBusy, userBusy, commandVars, cTrigger, sTrigger, sTrigMod, missed>>

Leave ==
    /\ Moves("leave", "top")
    /\ stockBusy' = Nobody
    /\ UNCHANGED <<ringVars, userBusy, commandVars, cTrigger, sTrigger, sTrigMod, missed>>

CommandStep(u) == LockStock(u) \/ Add(u) \/ Cancel(u) \/ End(u)

HandlerStep ==
    \/ Priced \/ NotPriced \/ Look \/ Step \/ Try \/ Miss \/ Pass
    \/ Fire \/ Remove \/ DbDone \/ Test \/ Leave

(* A null pointer's "next" ends the process.                               *)
Next ==
    /\ pc # "dead"
    /\ \/ \E u \in Users : (\E k \in Types : Begin(u, k)) \/ BeginOther(u) \/ CommandStep(u)
       \/ Start \/ HandlerStep

Spec == Init /\ [][Next]_vars

(* Threads run, and get a mutex that is free again and again.              *)
FairSpec ==
    /\ Spec
    /\ SF_vars(pc # "dead" /\ HandlerStep)
    /\ \A u \in Users : SF_vars(pc # "dead" /\ CommandStep(u))
-----------------------------------------------------------------------------
(* Properties.                                                             *)

(* The ring is one circle of exactly the triggers in the users' trees: from*)
(* each of them "next" leads to all.                                       *)
Linked(t) ==
    /\ next[t] \in Live /\ prev[next[t]] = t
    /\ prev[t] \in Live /\ next[prev[t]] = t
OneCircle ==
    \A part \in SUBSET Live : part # {} /\ (\A t \in part : next[t] \in part) => part = Live
Whole ==
    /\ IF Live = {} THEN curr = Null ELSE curr \in Live
    /\ \A t \in Live : Linked(t)
    /\ OneCircle

(* So it is until the trigger thread misses a user's lock, whatever is     *)
(* added, removed and fired between two visits.                            *)
RingIsWhole == ~missed => Whole

(* Until then, the trigger that is being executed, with the stock unlocked,*)
(* stays in its owner's tree.                                              *)
ExecutesLive == ~missed /\ pc \in {"act", "remove"} => cTrigger \in Live

(* "Cancel Set Buy Successful." (line 1380): what has been cancelled is not*)
(* executed any more.                                                      *)
CancelledIsGone == pc \in {"act", "remove"} => cTrigger \in Live

(* Locks are taken in opposite orders, the stock's before the user's here, *)
(* the user's before the stock's in a command; still every command ends.   *)
EveryCommandEnds == \A u \in Users : at[u] # "idle" ~> at[u] = "idle" \/ pc = "dead"

(* When users set no more triggers, the walk comes round and the thread    *)
(* goes on to the other stocks, whatever users it misses on the way.  Two  *)
(* things keep it walking, both for good: that a miss has led it to damage *)
(* the ring or to leave it, and that the trigger it began with has been    *)
(* taken out while others remain: by its owner, or by the thread, when it  *)
(* was alone as the new beginning was read (line 1793) and another has     *)
(* been added before it was removed.  When the last trigger is taken out   *)
(* of a whole ring the walk ends all the same.                             *)
BeginningGone == Live # {} /\ sTrigger \notin Live
PassEnds ==
    <>[][\A u \in Users : ~Add(u)]_vars =>
        (pc # "top" ~> pc \in {"top", "dead"} \/ [](~Whole \/ BeginningGone))
=============================================================================
