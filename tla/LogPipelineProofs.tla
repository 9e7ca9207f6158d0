------------------------- MODULE LogPipelineProofs -------------------------
(* Theorems about LogPipeline: what the log server has of the lines that   *)
(* the servers have logged, for any servers, limits and breaks.            *)
EXTENDS LogPipeline, FiniteSetTheorems, TLAPS

(* How often an element occurs in a sequence.                              *)
Occurs(sq, e) == {i \in DOMAIN sq : sq[i] = e}
Times(sq, e) == Cardinality(Occurs(sq, e))
Once(x, e) == IF x = e THEN 1 ELSE 0

LEMMA TimesNat ==
    ASSUME NEW S, NEW sq \in Seq(S), NEW e
    PROVE  IsFiniteSet(Occurs(sq, e)) /\ Times(sq, e) \in Nat
<1>1. Occurs(sq, e) \subseteq 1 .. Len(sq)
    BY DEF Occurs
<1>2. IsFiniteSet(1 .. Len(sq))
    BY FS_Interval
<1> QED BY <1>1, <1>2, FS_Subset, FS_CardinalityType DEF Times

(* Moving a set of positions along does not change how many there are.     *)
LEMMA Shifted ==
    ASSUME NEW A \in SUBSET Nat, IsFiniteSet(A), NEW k \in Nat
    PROVE  IsFiniteSet({i + k : i \in A}) /\ Cardinality({i + k : i \in A}) = Cardinality(A)
<1> DEFINE B == {i + k : i \in A}
           f == [i \in A |-> i + k]
<1>1. f \in Bijection(A, B)
    <2>1. f \in [A -> B]
        OBVIOUS
    <2>2. \A a, b \in A : f[a] = f[b] => a = b
        OBVIOUS
    <2>3. \A b \in B : \E a \in A : f[a] = b
        OBVIOUS
    <2> HIDE DEF f, B
    <2> QED BY <2>1, <2>2, <2>3 DEF Bijection, Injection, Surjection, IsInjective
<1>2. ExistsBijection(A, B)
    BY <1>1 DEF ExistsBijection
<1> HIDE DEF B
<1>3. IsFiniteSet(B) /\ Cardinality(B) = Cardinality(A)
    BY <1>2, FS_Bijection
<1> QED BY <1>3 DEF B

LEMMA TimesEmpty == \A e : Times(<<>>, e) = 0
BY FS_EmptySet DEF Times, Occurs

LEMMA TimesAppend ==
    ASSUME NEW S, NEW sq \in Seq(S), NEW x \in S, NEW e
    PROVE  Times(Append(sq, x), e) = Times(sq, e) + Once(x, e)
<1> DEFINE k == Len(sq) + 1
<1>1. /\ DOMAIN Append(sq, x) = 1 .. k /\ Append(sq, x)[k] = x
      /\ \A i \in DOMAIN sq : Append(sq, x)[i] = sq[i]
      /\ DOMAIN sq = 1 .. Len(sq) /\ Len(sq) \in Nat
    OBVIOUS
<1>2. k \notin Occurs(sq, e)
    BY <1>1 DEF Occurs
<1>3. CASE x = e
    <2>1. Occurs(Append(sq, x), e) = Occurs(sq, e) \cup {k}
        BY <1>1, <1>3 DEF Occurs
    <2>2. Cardinality(Occurs(sq, e) \cup {k}) = Cardinality(Occurs(sq, e)) + 1
        BY <1>2, TimesNat, FS_AddElement
    <2> QED BY <1>3, <2>1, <2>2 DEF Times, Once
<1>4. CASE x # e
    <2>1. Occurs(Append(sq, x), e) = Occurs(sq, e)
        BY <1>1, <1>4 DEF Occurs
    <2> QED BY <1>4, <2>1, TimesNat DEF Times, Once
<1> QED BY <1>3, <1>4

LEMMA TimesConcat ==
    ASSUME NEW S, NEW s \in Seq(S), NEW t \in Seq(S), NEW e
    PROVE  Times(s \o t, e) = Times(s, e) + Times(t, e)
<1> DEFINE k == Len(s)
           A == Occurs(s, e)
           B == {i + k : i \in Occurs(t, e)}
<1>1. /\ k \in Nat /\ Len(t) \in Nat /\ DOMAIN s = 1 .. k /\ DOMAIN t = 1 .. Len(t)
      /\ DOMAIN (s \o t) = 1 .. k + Len(t)
      /\ \A i \in 1 .. k : (s \o t)[i] = s[i]
      /\ \A i \in 1 .. Len(t) : (s \o t)[i + k] = t[i]
    OBVIOUS
<1>2. Occurs(s \o t, e) = A \cup B
    <2>1. ASSUME NEW i \in Occurs(s \o t, e) PROVE i \in A \cup B
        <3>1. i \in 1 .. k + Len(t) /\ (s \o t)[i] = e
            BY <1>1, <2>1 DEF Occurs
        <3>2. CASE i <= k
            BY <1>1, <3>1, <3>2 DEF Occurs
        <3>3. CASE i > k
            <4>1. i - k \in 1 .. Len(t) /\ i = (i - k) + k
                BY <1>1, <3>1, <3>3
            <4>2. i - k \in Occurs(t, e)
                BY <1>1, <3>1, <4>1 DEF Occurs
            <4> QED BY <4>1, <4>2
        <3> QED BY <1>1, <3>1, <3>2, <3>3
    <2>2. A \subseteq Occurs(s \o t, e)
        BY <1>1 DEF Occurs
    <2>3. ASSUME NEW i \in Occurs(t, e) PROVE i + k \in Occurs(s \o t, e)
        BY <1>1, <2>3 DEF Occurs
    <2> QED BY <2>1, <2>2, <2>3
<1>3. A \cap B = {}
    BY <1>1 DEF Occurs
<1>4. IsFiniteSet(A) /\ Cardinality(A) \in Nat /\ IsFiniteSet(Occurs(t, e)) /\ Cardinality(Occurs(t, e)) \in Nat
    BY TimesNat DEF Times
<1>5. Occurs(t, e) \in SUBSET Nat
    BY <1>1 DEF Occurs
<1>6. IsFiniteSet(B) /\ Cardinality(B) = Cardinality(Occurs(t, e))
    BY <1>1, <1>4, <1>5, Shifted
<1> HIDE DEF A, B
<1>7. Cardinality(A \cup B) = Cardinality(A) + Cardinality(B) - Cardinality(A \cap B)
    BY <1>4, <1>6, FS_Union
<1>8. Cardinality(A \cap B) = 0
    BY <1>3, FS_EmptySet
<1>9. Cardinality(A \cup B) = Cardinality(A) + Cardinality(B)
    BY <1>4, <1>6, <1>7, <1>8 DEF A
<1> QED BY <1>2, <1>4, <1>6, <1>9 DEF Times, A

LEMMA TimesTail ==
    ASSUME NEW S, NEW sq \in Seq(S), sq # <<>>, NEW e
    PROVE  Times(sq, e) = Once(Head(sq), e) + Times(Tail(sq), e)
<1>1. <<Head(sq)>> \in Seq(S) /\ Tail(sq) \in Seq(S) /\ sq = <<Head(sq)>> \o Tail(sq)
    OBVIOUS
<1>2. Times(sq, e) = Times(<<Head(sq)>>, e) + Times(Tail(sq), e)
    <2> DEFINE h == <<Head(sq)>>  t == Tail(sq)
    <2> HIDE DEF h, t
    <2>1. Times(h \o t, e) = Times(h, e) + Times(t, e)
        BY <1>1, TimesConcat DEF h, t
    <2> QED BY <1>1, <2>1 DEF h, t
<1>3. <<Head(sq)>> = Append(<<>>, Head(sq)) /\ <<>> \in Seq(S) /\ Head(sq) \in S
    OBVIOUS
<1>4. Times(Append(<<>>, Head(sq)), e) = Times(<<>>, e) + Once(Head(sq), e)
    BY <1>3, TimesAppend
<1>5. Times(<<Head(sq)>>, e) = Once(Head(sq), e)
    BY <1>3, <1>4, TimesEmpty DEF Once
<1> QED BY <1>2, <1>5

LEMMA TimesPrefix ==
    ASSUME NEW S, NEW sq \in Seq(S), NEW k \in 0 .. Len(sq), NEW e
    PROVE  SubSeq(sq, 1, k) \in Seq(S) /\ Times(SubSeq(sq, 1, k), e) <= Times(sq, e)
<1>1. /\ SubSeq(sq, 1, k) \in Seq(S) /\ DOMAIN SubSeq(sq, 1, k) = 1 .. k /\ DOMAIN sq = 1 .. Len(sq)
      /\ \A i \in 1 .. k : SubSeq(sq, 1, k)[i] = sq[i]
      /\ Len(sq) \in Nat /\ k \in Nat /\ k <= Len(sq)
    OBVIOUS
<1>2. Occurs(SubSeq(sq, 1, k), e) \subseteq Occurs(sq, e)
    BY <1>1 DEF Occurs
<1> QED BY <1>1, <1>2, TimesNat, FS_Subset DEF Times

LEMMA TimesPositive ==
    ASSUME NEW S, NEW sq \in Seq(S), NEW e \in ToSet(sq)
    PROVE  Times(sq, e) > 0
<1>1. Occurs(sq, e) # {}
    BY DEF Occurs, ToSet
<1>2. IsFiniteSet(Occurs(sq, e)) /\ Times(sq, e) \in Nat
    BY TimesNat
<1> QED BY <1>1, <1>2, FS_EmptySet DEF Times

(* The elements of a sequence, as a set.                                   *)
LEMMA SetAppend ==
    ASSUME NEW S, NEW sq \in Seq(S), NEW x \in S
    PROVE  ToSet(Append(sq, x)) = ToSet(sq) \cup {x}
<1>1. /\ DOMAIN Append(sq, x) = 1 .. Len(sq) + 1 /\ Append(sq, x)[Len(sq) + 1] = x
      /\ \A i \in DOMAIN sq : Append(sq, x)[i] = sq[i]
      /\ DOMAIN sq = 1 .. Len(sq) /\ Len(sq) \in Nat
    OBVIOUS
<1> QED BY <1>1 DEF ToSet

LEMMA SetConcat ==
    ASSUME NEW S, NEW s \in Seq(S), NEW t \in Seq(S)
    PROVE  ToSet(s \o t) = ToSet(s) \cup ToSet(t)
<1>1. /\ Len(s) \in Nat /\ Len(t) \in Nat /\ DOMAIN s = 1 .. Len(s) /\ DOMAIN t = 1 .. Len(t)
      /\ DOMAIN (s \o t) = 1 .. Len(s) + Len(t)
      /\ \A i \in 1 .. Len(s) : (s \o t)[i] = s[i]
      /\ \A i \in 1 .. Len(t) : (s \o t)[i + Len(s)] = t[i]
      /\ \A i \in 1 .. Len(s) + Len(t) : i > Len(s) => i - Len(s) \in 1 .. Len(t) /\ (s \o t)[i] = t[i - Len(s)]
    OBVIOUS
<1>2. ToSet(s \o t) \subseteq ToSet(s) \cup ToSet(t)
    BY <1>1 DEF ToSet
<1>3. ToSet(s) \subseteq ToSet(s \o t)
    BY <1>1 DEF ToSet
<1>4. ASSUME NEW i \in 1 .. Len(t) PROVE t[i] \in ToSet(s \o t)
    <2>1. i + Len(s) \in DOMAIN (s \o t)
        BY <1>1
    <2> QED BY <1>1, <2>1 DEF ToSet
<1>5. ToSet(t) \subseteq ToSet(s \o t)
    BY <1>1, <1>4 DEF ToSet
<1> QED BY <1>2, <1>3, <1>5

LEMMA SetTail ==
    ASSUME NEW S, NEW sq \in Seq(S), sq # <<>>
    PROVE  /\ Head(sq) \in S /\ Tail(sq) \in Seq(S) /\ Len(Tail(sq)) = Len(sq) - 1
           /\ DOMAIN Tail(sq) = 1 .. Len(sq) - 1 /\ Len(sq) \in Nat \ {0} /\ DOMAIN sq = 1 .. Len(sq)
           /\ sq[1] = Head(sq) /\ \A i \in DOMAIN Tail(sq) : i + 1 \in DOMAIN sq /\ Tail(sq)[i] = sq[i + 1]
           /\ ToSet(sq) = {Head(sq)} \cup ToSet(Tail(sq))
<1>1. /\ Head(sq) \in S /\ Tail(sq) \in Seq(S) /\ Len(Tail(sq)) = Len(sq) - 1
      /\ Len(sq) \in Nat \ {0} /\ DOMAIN sq = 1 .. Len(sq) /\ sq[1] = Head(sq)
    OBVIOUS
<1>2. DOMAIN Tail(sq) = 1 .. Len(sq) - 1 /\ \A i \in 1 .. Len(sq) - 1 : Tail(sq)[i] = sq[i + 1]
    OBVIOUS
<1>3. \A i \in 1 .. Len(sq) : i = 1 \/ (i - 1 \in 1 .. Len(sq) - 1 /\ Tail(sq)[i - 1] = sq[i])
    BY <1>1, <1>2
<1>4. \A i \in DOMAIN Tail(sq) : i + 1 \in DOMAIN sq /\ Tail(sq)[i] = sq[i + 1]
    BY <1>1, <1>2
<1>5. ASSUME NEW i \in 1 .. Len(sq) PROVE sq[i] \in {Head(sq)} \cup ToSet(Tail(sq))
    <2>1. CASE i = 1
        BY <1>1, <2>1
    <2>2. CASE i - 1 \in 1 .. Len(sq) - 1 /\ Tail(sq)[i - 1] = sq[i]
        BY <1>2, <2>2 DEF ToSet
    <2> QED BY <1>3, <2>1, <2>2
<1>6. ToSet(sq) \subseteq {Head(sq)} \cup ToSet(Tail(sq))
    BY <1>1, <1>5 DEF ToSet
<1>7. ToSet(Tail(sq)) \subseteq ToSet(sq) /\ Head(sq) \in ToSet(sq)
    BY <1>1, <1>4 DEF ToSet
<1> QED BY <1>1, <1>2, <1>4, <1>6, <1>7

LEMMA SetSplit ==
    ASSUME NEW S, NEW sq \in Seq(S), NEW k \in 0 .. Len(sq)
    PROVE  /\ SubSeq(sq, 1, k) \in Seq(S) /\ SubSeq(sq, k + 1, Len(sq)) \in Seq(S)
           /\ ToSet(sq) = ToSet(SubSeq(sq, 1, k)) \cup ToSet(SubSeq(sq, k + 1, Len(sq)))
<1> DEFINE s == SubSeq(sq, 1, k)
           t == SubSeq(sq, k + 1, Len(sq))
<1>1. /\ s \in Seq(S) /\ t \in Seq(S) /\ Len(sq) \in Nat /\ k \in 0 .. Len(sq)
      /\ DOMAIN sq = 1 .. Len(sq) /\ DOMAIN s = 1 .. k /\ DOMAIN t = 1 .. Len(sq) - k
      /\ \A i \in 1 .. k : s[i] = sq[i]
      /\ \A i \in 1 .. Len(sq) - k : t[i] = sq[k + i]
    OBVIOUS
<1> HIDE DEF s, t
<1>2. ASSUME NEW i \in 1 .. Len(sq) PROVE sq[i] \in ToSet(s) \cup ToSet(t)
    <2>1. CASE i <= k
        <3>1. i \in 1 .. k
            BY <1>1, <2>1
        <3> QED BY <1>1, <3>1 DEF ToSet
    <2>2. CASE i > k
        <3>1. i - k \in 1 .. Len(sq) - k /\ k + (i - k) = i
            BY <1>1, <2>2
        <3>2. t[i - k] = sq[i]
            BY <1>1, <3>1
        <3> QED BY <1>1, <3>1, <3>2 DEF ToSet
    <2> QED BY <1>1, <2>1, <2>2
<1>3. ToSet(s) \subseteq ToSet(sq)
    BY <1>1 DEF ToSet
<1>4. ASSUME NEW i \in 1 .. Len(sq) - k PROVE t[i] \in ToSet(sq)
    <2>1. k + i \in 1 .. Len(sq)
        BY <1>1
    <2> QED BY <1>1, <2>1 DEF ToSet
<1>5. ToSet(t) \subseteq ToSet(sq)
    BY <1>1, <1>4 DEF ToSet
<1>6. ToSet(sq) \subseteq ToSet(s) \cup ToSet(t)
    BY <1>1, <1>2 DEF ToSet
<1> QED BY <1>1, <1>3, <1>5, <1>6 DEF s, t

-----------------------------------------------------------------------------
(* The inductive invariant.  What the log server holds was taken by the    *)
(* log thread of its server; of the lines it holds, those in the tree, in  *)
(* the file or cut off are users' commands and events, never DUMPLOGs, and *)
(* the DUMPLOGs that are done are never lines.                             *)
Logged == ToSet(tree) \cup ToSet(file) \cup cut
Done == dumped \cup skipped
There == ToSet(queue) \cup Logged \cup Done
Underway == There \cup {stray[1] : stray \in strays}

MadeOK ==
    /\ made \in [Servers -> Seq(Kinds)] /\ taken \in [Servers -> Nat]
    /\ \A s \in Servers : taken[s] <= Len(made[s]) /\ Len(made[s]) <= MaxLines
ThreadsOK ==
    /\ holds \in [Servers -> BOOLEAN] /\ up \in [Servers -> BOOLEAN]
    /\ wire \in [Servers -> {"none", "line", "REC"}]
    /\ \A s \in Servers : (wire[s] # "none" => up[s] /\ holds[s]) /\ (holds[s] => taken[s] > 0)
StoresOK ==
    /\ strays \subseteq Lines \X (1 .. MaxBreaks)
    /\ breaks \in 0 .. MaxBreaks
    /\ \A stray \in strays : stray[2] <= breaks
    /\ queue \in Seq(Lines) /\ tree \in Seq(Lines) /\ file \in Seq(Lines)
    /\ recent \in BOOLEAN
    /\ count \in Nat /\ Len(tree) <= count
    /\ dumped \subseteq Lines /\ skipped \subseteq Lines /\ cut \subseteq Lines
AllTaken == \A l \in Underway : l[2] <= taken[l[1]]
KindsOK ==
    /\ \A l \in Logged : Kind(l) = "line"
    /\ \A l \in Done : Kind(l) # "line"
Types == MadeOK /\ ThreadsOK /\ StoresOK /\ AllTaken /\ KindsOK

(* What a log thread has been told is received is at the log server.       *)
Received(s) == Sent(s) \cup (IF wire[s] = "REC" THEN {taken[s]} ELSE {})
AllThere == \A s \in Servers : \A n \in Received(s) : <<s, n>> \in There

(* Whatever is in the queue, the lines its server has logged before it are *)
(* recorded or ahead of it; and so is what a dump has written.             *)
Ahead(i) == Logged \cup {queue[j] : j \in 1 .. i - 1}
Follows(kinds, l, set) == \A n \in 1 .. l[2] - 1 : kinds[l[1]][n] = "line" => <<l[1], n>> \in set
QueueFollows == \A i \in DOMAIN queue : Follows(made, queue[i], Ahead(i))
DumpsFollow == \A d \in dumped : Follows(made, d, ToSet(file) \cup cut)

(* How often a line is at the log server or on its way there: once, and    *)
(* once more for each break; one less while its thread has yet to send it. *)
Astray(l) == {b \in 1 .. MaxBreaks : <<l, b>> \in strays}
OnWire(l) == IF wire[l[1]] = "line" /\ Held(l[1]) = l THEN 1 ELSE 0
All(l) == Times(queue, l) + Times(tree, l) + Times(file, l) + Cardinality(Astray(l)) + OnWire(l)
Unsent(l) == holds[l[1]] /\ wire[l[1]] = "none" /\ Held(l[1]) = l
Allowed(l) == IF l[2] > taken[l[1]] THEN 0 ELSE IF Unsent(l) THEN breaks ELSE 1 + breaks
Counted == \A l \in Lines : All(l) <= Allowed(l)

(* As long as no connection breaks: the lines are in their order, in the   *)
(* file, then in the tree, then in the queue, and the one that a thread    *)
(* still has to hand over comes after them all.                            *)
Less(k, l) == k[1] = l[1] => k[2] < l[2]
Rising(sq) == \A i, j \in DOMAIN sq : i < j => Less(sq[i], sq[j])
Below(set, upper) == \A k \in set, l \in upper : Less(k, l)
QueuedLines == {l \in ToSet(queue) : Kind(l) = "line"}
RisingQueue == \A i, j \in DOMAIN queue :
                   i < j /\ Kind(queue[i]) = "line" /\ Kind(queue[j]) = "line" => Less(queue[i], queue[j])
ToHandOver(s) == holds[s] /\ wire[s] # "REC"
HandedOver == \A l \in ToSet(queue) \cup ToSet(file) \cup ToSet(tree) : ToHandOver(l[1]) => l[2] < taken[l[1]]
Ordered == /\ strays = {}
           /\ Rising(file) /\ Rising(tree) /\ Below(ToSet(file), ToSet(tree))
           /\ RisingQueue /\ Below(ToSet(file) \cup ToSet(tree), QueuedLines)
           /\ HandedOver
InOrderSoFar == breaks = 0 => Ordered

IInv == Types /\ AllThere /\ QueueFollows /\ DumpsFollow /\ Counted /\ InOrderSoFar

-----------------------------------------------------------------------------
(* Sequences that rise.                                                    *)
LEMMA RisingAppend ==
    ASSUME NEW S, NEW sq \in Seq(S), NEW x \in S, Rising(sq), Below(ToSet(sq), {x})
    PROVE  Rising(Append(sq, x))
<1>1. /\ DOMAIN Append(sq, x) = 1 .. Len(sq) + 1 /\ Append(sq, x)[Len(sq) + 1] = x
      /\ \A i \in DOMAIN sq : Append(sq, x)[i] = sq[i]
      /\ DOMAIN sq = 1 .. Len(sq) /\ Len(sq) \in Nat
    OBVIOUS
<1>2. \A i \in DOMAIN sq : Less(sq[i], x)
    BY DEF Below, ToSet
<1> SUFFICES ASSUME NEW i \in 1 .. Len(sq) + 1, NEW j \in 1 .. Len(sq) + 1, i < j
             PROVE  Less(Append(sq, x)[i], Append(sq, x)[j])
    BY <1>1 DEF Rising
<1>3. i \in DOMAIN sq
    BY <1>1
<1>4. CASE j = Len(sq) + 1
    BY <1>1, <1>2, <1>3, <1>4
<1>5. CASE j # Len(sq) + 1
    <2>1. j \in DOMAIN sq
        BY <1>1, <1>5
    <2>2. Append(sq, x)[i] = sq[i] /\ Append(sq, x)[j] = sq[j] /\ Less(sq[i], sq[j])
        BY <1>1, <1>3, <2>1 DEF Rising
    <2> QED BY <2>2
<1> QED BY <1>4, <1>5

LEMMA RisingConcat ==
    ASSUME NEW S, NEW s \in Seq(S), NEW t \in Seq(S), Rising(s), Rising(t), Below(ToSet(s), ToSet(t))
    PROVE  Rising(s \o t)
<1>1. /\ Len(s) \in Nat /\ Len(t) \in Nat /\ DOMAIN s = 1 .. Len(s) /\ DOMAIN t = 1 .. Len(t)
      /\ DOMAIN (s \o t) = 1 .. Len(s) + Len(t)
      /\ \A i \in 1 .. Len(s) : (s \o t)[i] = s[i]
      /\ \A i \in 1 .. Len(s) + Len(t) : i > Len(s) => i - Len(s) \in 1 .. Len(t) /\ (s \o t)[i] = t[i - Len(s)]
    OBVIOUS
<1> SUFFICES ASSUME NEW i \in 1 .. Len(s) + Len(t), NEW j \in 1 .. Len(s) + Len(t), i < j
             PROVE  Less((s \o t)[i], (s \o t)[j])
    BY <1>1 DEF Rising
<1>2. CASE j <= Len(s)
    <2>1. i \in DOMAIN s /\ j \in DOMAIN s
        BY <1>1, <1>2
    <2>2. (s \o t)[i] = s[i] /\ (s \o t)[j] = s[j] /\ Less(s[i], s[j])
        BY <1>1, <2>1 DEF Rising
    <2> QED BY <2>2
<1>3. CASE i <= Len(s) /\ j > Len(s)
    <2>1. i \in DOMAIN s /\ j - Len(s) \in DOMAIN t
        BY <1>1, <1>3
    <2>2. (s \o t)[i] = s[i] /\ (s \o t)[j] = t[j - Len(s)] /\ Less(s[i], t[j - Len(s)])
        BY <1>1, <1>3, <2>1 DEF Below, ToSet
    <2> QED BY <2>2
<1>4. CASE i > Len(s)
    <2>1. j > Len(s)
        BY <1>1, <1>4
    <2>2. i - Len(s) \in DOMAIN t /\ j - Len(s) \in DOMAIN t /\ i - Len(s) < j - Len(s)
        BY <1>1, <1>4, <2>1
    <2>3. Less(t[i - Len(s)], t[j - Len(s)])
        BY <2>2 DEF Rising
    <2> QED BY <1>1, <1>4, <2>1, <2>3
<1> QED BY <1>1, <1>2, <1>3, <1>4

LEMMA RisingPrefix ==
    ASSUME NEW S, NEW sq \in Seq(S), NEW k \in 0 .. Len(sq), Rising(sq)
    PROVE  Rising(SubSeq(sq, 1, k))
<1>1. /\ DOMAIN SubSeq(sq, 1, k) = 1 .. k /\ DOMAIN sq = 1 .. Len(sq) /\ 1 .. k \subseteq 1 .. Len(sq)
      /\ \A i \in 1 .. k : SubSeq(sq, 1, k)[i] = sq[i]
    OBVIOUS
<1> QED BY <1>1 DEF Rising

-----------------------------------------------------------------------------
(* What Flush and Settle have in common: of lines, all stay in the tree,   *)
(* or the first go to the file and the others are cut off.                 *)
Moves(lines) ==
    \/ \E fits \in 0 .. Len(lines) :
          /\ tree' = <<>> /\ file' = file \o SubSeq(lines, 1, fits)
          /\ cut' = cut \cup ToSet(SubSeq(lines, fits + 1, Len(lines)))
    \/ tree' = lines /\ file' = file /\ cut' = cut

(* What Record, Dump and DumpElsewhere have in common.                     *)
Takes(lines) ==
    /\ queue # <<>> /\ queue' = Tail(queue)
    /\ Moves(lines)
    /\ UNCHANGED sendVars
    /\ \/ /\ Kind(Head(queue)) = "line" /\ lines = Append(tree, Head(queue))
          /\ UNCHANGED <<dumped, skipped>>
       \/ /\ Kind(Head(queue)) # "line" /\ lines = tree
          /\ dumped' = dumped \cup {Head(queue)} /\ skipped' = skipped /\ tree' = <<>>
       \/ /\ Kind(Head(queue)) # "line" /\ lines = tree
          /\ skipped' = skipped \cup {Head(queue)} /\ dumped' = dumped

LEMMA FlushMoves ==
    ASSUME NEW lines \in Seq(Lines), Flush(lines)
    PROVE  Moves(lines) /\ tree' = <<>> /\ count' = 0
<1>1. {Len(lines)} \cup Room .. Len(lines) \subseteq 0 .. Len(lines)
    BY ConstantsAssumption
<1> QED BY <1>1 DEF Flush, Moves

LEMMA SettleMoves ==
    ASSUME NEW lines \in Seq(Lines), Settle(lines), count \in Nat, Len(lines) <= count + 1
    PROVE  Moves(lines) /\ count' \in Nat /\ Len(tree') <= count'
<1>1. CASE count + 1 > Limit /\ Flush(lines)
    <2>1. Moves(lines) /\ tree' = <<>> /\ count' = 0
        BY <1>1, FlushMoves
    <2> QED BY <2>1
<1>2. CASE tree' = lines /\ count' = count + 1 /\ UNCHANGED <<file, cut>>
    BY <1>2 DEF Moves
<1> QED BY <1>1, <1>2 DEF Settle

LEMMA LogStepTakes ==
    ASSUME StoresOK, LogStep, ~Postpone
    PROVE  \E lines \in Seq(Lines) : Takes(lines) /\ count' \in Nat /\ Len(tree') <= count'
<1>1. /\ queue \in Seq(Lines) /\ tree \in Seq(Lines) /\ count \in Nat /\ Len(tree) <= count
      /\ Len(tree) \in Nat
    BY DEF StoresOK
<1>2. CASE Record
    <2> DEFINE lines == Append(tree, Head(queue))
    <2>1. queue # <<>> /\ Kind(Head(queue)) = "line" /\ queue' = Tail(queue) /\ Settle(lines)
          /\ UNCHANGED sendVars /\ UNCHANGED <<dumped, skipped>>
        BY <1>2 DEF Record, Take
    <2>2. Head(queue) \in Lines
        BY <1>1, <2>1
    <2>3. lines \in Seq(Lines) /\ Len(lines) = Len(tree) + 1
        BY <1>1, <2>2
    <2>4. lines = Append(tree, Head(queue))
        OBVIOUS
    <2> HIDE DEF lines
    <2>5. Len(lines) <= count + 1
        BY <1>1, <2>3
    <2>6. Moves(lines) /\ count' \in Nat /\ Len(tree') <= count'
        BY <1>1, <2>1, <2>3, <2>5, SettleMoves
    <2> QED BY <2>1, <2>3, <2>4, <2>6 DEF Takes
<1>3. CASE Dump
    <2>1. Moves(tree) /\ tree' = <<>> /\ count' = 0
        BY <1>1, <1>3, FlushMoves DEF Dump
    <2>2. queue # <<>> /\ Kind(Head(queue)) = "dump"
        BY <1>3 DEF Dump, Take
    <2>3. Takes(tree)
        BY <1>3, <2>1, <2>2 DEF Dump, Takes
    <2> QED BY <1>1, <2>1, <2>3
<1>4. CASE DumpElsewhere
    <2>1. Len(tree) <= count + 1
        BY <1>1
    <2>2. Moves(tree) /\ count' \in Nat /\ Len(tree') <= count'
        BY <1>1, <1>4, <2>1, SettleMoves DEF DumpElsewhere
    <2>3. queue # <<>> /\ Kind(Head(queue)) \in {"dump", "user"}
        BY <1>4 DEF DumpElsewhere, Take
    <2>4. Takes(tree)
        BY <1>4, <2>2, <2>3 DEF DumpElsewhere, Takes
    <2> QED BY <1>1, <2>2, <2>4
<1> QED BY <1>2, <1>3, <1>4 DEF LogStep

(* Nothing that moves gets lost or out of order.                           *)
LEMMA MovesKeep ==
    ASSUME NEW lines \in Seq(Lines), file \in Seq(Lines), Moves(lines)
    PROVE  /\ tree' \in Seq(Lines) /\ file' \in Seq(Lines)
           /\ ToSet(tree') \cup ToSet(file') \cup cut' = ToSet(lines) \cup ToSet(file) \cup cut
           /\ ToSet(file) \cup cut \subseteq ToSet(file') \cup cut'
           /\ ToSet(tree') \cup ToSet(file') \subseteq ToSet(lines) \cup ToSet(file)
           /\ \A e : Times(tree', e) + Times(file', e) <= Times(lines, e) + Times(file, e)
           /\ Rising(file) /\ Rising(lines) /\ Below(ToSet(file), ToSet(lines)) =>
                 Rising(file') /\ Rising(tree') /\ Below(ToSet(file'), ToSet(tree'))
<1>1. CASE tree' = lines /\ file' = file /\ cut' = cut
    <2>1. \A e : Times(lines, e) \in Nat /\ Times(file, e) \in Nat
        BY TimesNat
    <2> QED BY <1>1, <2>1
<1>2. ASSUME NEW fits \in 0 .. Len(lines), tree' = <<>>, file' = file \o SubSeq(lines, 1, fits),
             cut' = cut \cup ToSet(SubSeq(lines, fits + 1, Len(lines)))
      PROVE  /\ tree' \in Seq(Lines) /\ file' \in Seq(Lines)
             /\ ToSet(tree') \cup ToSet(file') \cup cut' = ToSet(lines) \cup ToSet(file) \cup cut
             /\ ToSet(file) \cup cut \subseteq ToSet(file') \cup cut'
             /\ ToSet(tree') \cup ToSet(file') \subseteq ToSet(lines) \cup ToSet(file)
             /\ \A e : Times(tree', e) + Times(file', e) <= Times(lines, e) + Times(file, e)
             /\ Rising(file) /\ Rising(lines) /\ Below(ToSet(file), ToSet(lines)) =>
                   Rising(file') /\ Rising(tree') /\ Below(ToSet(file'), ToSet(tree'))
    <2> DEFINE s == SubSeq(lines, 1, fits)
               t == SubSeq(lines, fits + 1, Len(lines))
    <2>1. s \in Seq(Lines) /\ ToSet(lines) = ToSet(s) \cup ToSet(t)
        BY SetSplit
    <2>2. \A e : Times(s, e) <= Times(lines, e)
        BY TimesPrefix
    <2>3. Rising(lines) => Rising(s)
        BY RisingPrefix
    <2>4. file' = file \o s /\ cut' = cut \cup ToSet(t)
        BY <1>2
    <2> HIDE DEF s, t
    <2>5. ToSet(file \o s) = ToSet(file) \cup ToSet(s)
        BY <2>1, SetConcat
    <2>6. \A e : Times(file \o s, e) = Times(file, e) + Times(s, e)
        BY <2>1, TimesConcat
    <2>7. ASSUME Rising(file), Rising(lines), Below(ToSet(file), ToSet(lines))
          PROVE  Rising(file \o s)
        <3>1. Below(ToSet(file), ToSet(s))
            BY <2>1, <2>7 DEF Below
        <3> QED BY <2>1, <2>3, <2>7, <3>1, RisingConcat
    <2>8. ToSet(tree') = {} /\ tree' \in Seq(Lines) /\ Rising(tree')
        BY <1>2 DEF ToSet, Rising
    <2>9. \A e : Times(tree', e) = 0 /\ Times(s, e) \in Nat /\ Times(file, e) \in Nat /\ Times(lines, e) \in Nat
        BY <1>2, <2>1, TimesEmpty, TimesNat
    <2>10. file' \in Seq(Lines)
        BY <2>1, <2>4
    <2>11. \A e : Times(tree', e) + Times(file', e) <= Times(lines, e) + Times(file, e)
        BY <2>2, <2>4, <2>6, <2>9
    <2>12. /\ ToSet(tree') \cup ToSet(file') \cup cut' = ToSet(lines) \cup ToSet(file) \cup cut
           /\ ToSet(file) \cup cut \subseteq ToSet(file') \cup cut'
           /\ ToSet(tree') \cup ToSet(file') \subseteq ToSet(lines) \cup ToSet(file)
        BY <2>1, <2>4, <2>5, <2>8
    <2>13. Below(ToSet(file'), ToSet(tree'))
        BY <2>8 DEF Below
    <2> QED BY <2>4, <2>7, <2>8, <2>10, <2>11, <2>12, <2>13
<1> QED BY <1>1, <1>2 DEF Moves

-----------------------------------------------------------------------------
(* The types.                                                              *)
LEMMA InitIInv == Init => IInv
<1> SUFFICES ASSUME Init PROVE IInv
    OBVIOUS
<1> USE DEF Init
<1>1. ToSet(<<>>) = {} /\ <<>> \in Seq(Lines)
    BY DEF ToSet
<1>2. MadeOK /\ ThreadsOK
    BY ConstantsAssumption DEF MadeOK, ThreadsOK
<1>3. StoresOK
    BY <1>1, ConstantsAssumption DEF StoresOK
<1>4. There = {} /\ Underway = {} /\ Logged = {} /\ Done = {}
    BY <1>1 DEF Underway, There, Logged, Done
<1>5. AllTaken /\ KindsOK
    BY <1>4 DEF AllTaken, KindsOK
<1>6. AllThere /\ QueueFollows /\ DumpsFollow
    BY DEF AllThere, Received, Sent, QueueFollows, DumpsFollow
<1>7. ASSUME NEW l \in Lines PROVE All(l) <= Allowed(l)
    <2>1. Times(queue, l) = 0 /\ Times(tree, l) = 0 /\ Times(file, l) = 0
        BY TimesEmpty
    <2>2. Astray(l) = {} /\ Cardinality({}) = 0
        BY FS_EmptySet DEF Astray
    <2>3. OnWire(l) = 0
        BY DEF OnWire, Lines
    <2>4. All(l) = 0
        BY <2>1, <2>2, <2>3 DEF All
    <2>5. l[2] \in Nat /\ l[1] \in Servers /\ l[2] > 0
        BY ConstantsAssumption DEF Lines
    <2> QED BY <2>4, <2>5 DEF Allowed
<1>8. Ordered
    BY <1>1 DEF Ordered, Rising, RisingQueue, Below, QueuedLines, HandedOver
<1> QED BY <1>2, <1>3, <1>5, <1>6, <1>7, <1>8 DEF IInv, Types, Counted, InOrderSoFar

(* The lines that a thread has taken stay what they are.                   *)
LEMMA Grows ==
    ASSUME MadeOK, Next
    PROVE  /\ MadeOK'
           /\ \A s \in Servers : taken[s] <= taken'[s] /\ taken'[s] \in Nat
           /\ \A s \in Servers : \A n \in 1 .. taken[s] : made'[s][n] = made[s][n]
<1> USE DEF MadeOK
<1>1. ASSUME NEW s \in Servers, Lenq(s)
      PROVE  /\ MadeOK' /\ taken' = taken
             /\ \A v \in Servers : \A n \in 1 .. taken[v] : made'[v][n] = made[v][n]
    <2>1. PICK kind \in Kinds : made' = [made EXCEPT ![s] = Append(@, kind)]
        BY <1>1 DEF Lenq
    <2> DEFINE sq == Append(made[s], kind)
    <2>2. taken' = taken /\ Len(made[s]) < MaxLines /\ made[s] \in Seq(Kinds)
        BY <1>1 DEF Lenq
    <2>3. sq \in Seq(Kinds) /\ Len(sq) = Len(made[s]) + 1 /\ \A n \in 1 .. Len(made[s]) : sq[n] = made[s][n]
        BY <2>2
    <2>4. made' = [made EXCEPT ![s] = sq]
        BY <2>1
    <2> HIDE DEF sq
    <2>5. made'[s] = sq /\ \A v \in Servers : v # s => made'[v] = made[v]
        BY <2>4
    <2>6. made' \in [Servers -> Seq(Kinds)]
        BY <2>3, <2>4
    <2>7. Len(made[s]) \in Nat /\ MaxLines \in Nat
        BY <2>2, ConstantsAssumption
    <2>8. ASSUME NEW v \in Servers PROVE taken'[v] <= Len(made'[v]) /\ Len(made'[v]) <= MaxLines
        <3>1. Len(made[v]) \in Nat /\ taken[v] \in Nat /\ taken[v] <= Len(made[v]) /\ Len(made[v]) <= MaxLines
            OBVIOUS
        <3>2. CASE v = s
            <4>1. taken'[v] = taken[s] /\ Len(made'[v]) = Len(made[s]) + 1
                BY <2>2, <2>3, <2>5, <3>2
            <4> QED BY <2>2, <2>7, <3>1, <3>2, <4>1
        <3>3. CASE v # s
            BY <2>2, <2>5, <3>1, <3>3
        <3> QED BY <3>2, <3>3
    <2>9. ASSUME NEW v \in Servers, NEW n \in 1 .. taken[v] PROVE made'[v][n] = made[v][n]
        <3>1. n \in 1 .. Len(made[v])
            <4>1. Len(made[v]) \in Nat /\ taken[v] \in Nat /\ taken[v] <= Len(made[v])
                OBVIOUS
            <4> QED BY <4>1
        <3> QED BY <2>3, <2>5, <3>1
    <2> QED BY <2>2, <2>6, <2>8, <2>9
<1>2. ASSUME NEW s \in Servers, Ldeq(s)
      PROVE  MadeOK' /\ made' = made /\ \A v \in Servers : taken[v] <= taken'[v]
    <2>1. \A v \in Servers : Len(made[v]) \in Nat /\ taken[v] \in Nat
        OBVIOUS
    <2>2. made' = made /\ taken[s] < Len(made[s]) /\ taken'[s] = taken[s] + 1
          /\ taken' \in [Servers -> Nat] /\ \A v \in Servers : v # s => taken'[v] = taken[v]
        BY <1>2, <2>1 DEF Ldeq
    <2> QED BY <2>1, <2>2
<1>3. CASE UNCHANGED <<made, taken>>
    BY <1>3
<1>4. CASE \E s \in Servers : Connect(s) \/ Send(s) \/ Recv(s) \/ Break(s) \/ Receive(s)
    BY <1>3, <1>4 DEF Connect, Send, Recv, Break, Receive
<1>5. CASE ReceiveStray \/ Quiet
    BY <1>3, <1>5 DEF ReceiveStray, Quiet, sendVars
<1>6. CASE LogStep
    BY <1>3, <1>6 DEF LogStep, Record, Postpone, Dump, DumpElsewhere, sendVars
<1>7. CASE \E s \in Servers : Lenq(s) \/ Ldeq(s)
    BY <1>1, <1>2, <1>7
<1> QED BY <1>4, <1>5, <1>6, <1>7 DEF Next

LEMMA ThreadsKept ==
    ASSUME MadeOK, ThreadsOK, Next
    PROVE  ThreadsOK'
<1> USE DEF ThreadsOK
<1>1. \A s \in Servers : taken[s] \in Nat
    BY DEF MadeOK
<1>2. ASSUME NEW s \in Servers, Lenq(s) PROVE ThreadsOK'
    BY <1>2 DEF Lenq
<1>3. ASSUME NEW s \in Servers, Ldeq(s) PROVE ThreadsOK'
    <2>1. /\ taken'[s] > 0 /\ \A v \in Servers : v # s => taken'[v] = taken[v] /\ holds'[v] = holds[v]
          /\ UNCHANGED <<up, wire>> /\ holds' \in [Servers -> BOOLEAN] /\ holds'[s]
        BY <1>1, <1>3 DEF Ldeq, MadeOK
    <2> QED BY <2>1
<1>4. ASSUME NEW s \in Servers, Connect(s) PROVE ThreadsOK'
    BY <1>4 DEF Connect
<1>5. ASSUME NEW s \in Servers, Send(s) PROVE ThreadsOK'
    BY <1>5 DEF Send
<1>6. ASSUME NEW s \in Servers, Recv(s) PROVE ThreadsOK'
    BY <1>6 DEF Recv
<1>7. ASSUME NEW s \in Servers, Break(s) PROVE ThreadsOK'
    BY <1>7 DEF Break
<1>8. ASSUME NEW s \in Servers, Receive(s) PROVE ThreadsOK'
    BY <1>8 DEF Receive
<1>9. CASE ReceiveStray \/ Quiet
    BY <1>9 DEF ReceiveStray, Quiet, sendVars
<1>10. CASE LogStep
    BY <1>10 DEF LogStep, Record, Postpone, Dump, DumpElsewhere, sendVars
<1> QED BY <1>2, <1>3, <1>4, <1>5, <1>6, <1>7, <1>8, <1>9, <1>10 DEF Next

(* The steps that leave the log server alone, and those that bring it a    *)
(* line.                                                                   *)
Elsewhere == UNCHANGED <<queue, tree, count, file, cut, dumped, skipped>>
Arrives(l) == /\ queue' = Append(queue, l)
              /\ UNCHANGED <<made, taken, holds, breaks>> /\ UNCHANGED logVars
Away(s) == Lenq(s) \/ Ldeq(s) \/ Connect(s) \/ Send(s) \/ Recv(s) \/ Break(s)

LEMMA AwayElsewhere ==
    ASSUME NEW s, Away(s)
    PROVE  Elsewhere /\ recent' = recent
BY DEF Away, Lenq, Ldeq, Connect, Send, Recv, Break, Elsewhere, logVars

LEMMA QuietElsewhere == Quiet => Elsewhere /\ UNCHANGED sendVars /\ recent' \in BOOLEAN
BY DEF Quiet, Elsewhere

LEMMA HeldLine ==
    ASSUME MadeOK, ThreadsOK, NEW s \in Servers, holds[s]
    PROVE  /\ Held(s) \in Lines /\ Held(s)[1] = s /\ Held(s)[2] = taken[s]
           /\ taken[s] \in Nat \ {0} /\ taken[s] <= MaxLines
<1>1. taken[s] \in Nat /\ Len(made[s]) \in Nat /\ taken[s] > 0 /\ taken[s] <= Len(made[s]) /\ Len(made[s]) <= MaxLines
    BY DEF MadeOK, ThreadsOK
<1>2. taken[s] \in 1 .. MaxLines
    BY <1>1, ConstantsAssumption
<1> QED BY <1>1, <1>2 DEF Held, Lines

LEMMA ReceiveArrives ==
    ASSUME MadeOK, ThreadsOK, NEW s \in Servers, Receive(s)
    PROVE  /\ Held(s) \in Lines /\ holds[s] /\ Arrives(Held(s)) /\ strays' = strays
           /\ wire[s] = "line" /\ wire' = [wire EXCEPT ![s] = "REC"] /\ up' = up
<1>1. wire[s] = "line" /\ holds[s]
    BY DEF Receive, ThreadsOK
<1> QED BY <1>1, HeldLine DEF Receive, Arrives

LEMMA StrayArrives ==
    ASSUME StoresOK, ReceiveStray
    PROVE  \E l \in Lines, b \in 1 .. MaxBreaks :
               /\ <<l, b>> \in strays /\ Arrives(l) /\ strays' = strays \ {<<l, b>>}
               /\ UNCHANGED <<wire, up>>
<1>1. PICK stray \in strays :
          /\ strays' = strays \ {stray} /\ queue' = Append(queue, stray[1])
          /\ UNCHANGED <<made, taken, holds, up, wire, breaks, logVars>>
    BY DEF ReceiveStray
<1>2. stray \in Lines \X (1 .. MaxBreaks)
    BY DEF StoresOK
<1>3. stray = <<stray[1], stray[2]>> /\ stray[1] \in Lines /\ stray[2] \in 1 .. MaxBreaks
    BY <1>2
<1> QED BY <1>1, <1>3 DEF Arrives

(* What a step does to There, the lines at the log server: nothing leaves  *)
(* it.                                                                     *)
LEMMA TakesParts ==
    ASSUME StoresOK, NEW lines \in Seq(Lines), Takes(lines)
    PROVE  /\ Head(queue) \in Lines /\ Tail(queue) \in Seq(Lines)
           /\ ToSet(queue) = {Head(queue)} \cup ToSet(queue')
           /\ tree' \in Seq(Lines) /\ file' \in Seq(Lines)
           /\ Logged' = ToSet(lines) \cup ToSet(file) \cup cut
           /\ ToSet(file) \cup cut \subseteq ToSet(file') \cup cut'
           /\ \/ /\ Kind(Head(queue)) = "line" /\ ToSet(lines) = ToSet(tree) \cup {Head(queue)}
                 /\ Logged' = Logged \cup {Head(queue)} /\ Done' = Done
              \/ /\ Kind(Head(queue)) # "line" /\ lines = tree
                 /\ Logged' = Logged /\ Done' = Done \cup {Head(queue)}
           /\ There' = There
<1>1. queue \in Seq(Lines) /\ tree \in Seq(Lines) /\ file \in Seq(Lines) /\ queue # <<>> /\ queue' = Tail(queue)
    BY DEF StoresOK, Takes
<1>2. Head(queue) \in Lines /\ Tail(queue) \in Seq(Lines) /\ ToSet(queue) = {Head(queue)} \cup ToSet(Tail(queue))
    BY <1>1, SetTail
<1>3. /\ tree' \in Seq(Lines) /\ file' \in Seq(Lines)
      /\ ToSet(tree') \cup ToSet(file') \cup cut' = ToSet(lines) \cup ToSet(file) \cup cut
      /\ ToSet(file) \cup cut \subseteq ToSet(file') \cup cut'
    BY <1>1, MovesKeep DEF Takes
<1>4. Logged' = ToSet(lines) \cup ToSet(file) \cup cut
    BY <1>3 DEF Logged
<1>5. CASE Kind(Head(queue)) = "line" /\ lines = Append(tree, Head(queue)) /\ UNCHANGED <<dumped, skipped>>
    <2>1. ToSet(lines) = ToSet(tree) \cup {Head(queue)}
        <3> DEFINE h == Head(queue)
        <3>1. h \in Lines /\ lines = Append(tree, h)
            BY <1>2, <1>5
        <3> HIDE DEF h
        <3>2. ToSet(lines) = ToSet(tree) \cup {h}
            BY <1>1, <3>1, SetAppend
        <3> QED BY <3>2 DEF h
    <2>2. Logged' = Logged \cup {Head(queue)} /\ Done' = Done
        BY <1>4, <1>5, <2>1 DEF Logged, Done
    <2>3. There' = ToSet(queue') \cup Logged' \cup Done'
        BY DEF There
    <2>4. There' = There
        BY <1>1, <1>2, <2>2, <2>3 DEF There
    <2> QED BY <1>1, <1>2, <1>3, <1>4, <1>5, <2>1, <2>2, <2>4
<1>6. CASE /\ Kind(Head(queue)) # "line" /\ lines = tree
           /\ Done' = Done \cup {Head(queue)}
    <2>1. Logged' = Logged
        BY <1>4, <1>6 DEF Logged
    <2>2. There' = ToSet(queue') \cup Logged' \cup Done'
        BY DEF There
    <2>3. There' = There
        BY <1>1, <1>2, <1>6, <2>1, <2>2 DEF There
    <2> QED BY <1>1, <1>2, <1>3, <1>4, <1>6, <2>1, <2>3
<1> QED BY <1>5, <1>6 DEF Takes, Done

LEMMA PostponeParts ==
    ASSUME StoresOK, Postpone
    PROVE  /\ Head(queue) \in Lines /\ Tail(queue) \in Seq(Lines) /\ queue \in Seq(Lines) /\ queue # <<>>
           /\ Kind(Head(queue)) # "line"
           /\ queue' = Append(Tail(queue), Head(queue)) /\ queue' \in Seq(Lines)
           /\ ToSet(queue') = ToSet(queue)
           /\ UNCHANGED sendVars /\ UNCHANGED logVars
           /\ Logged' = Logged /\ Done' = Done /\ There' = There
<1>1. queue \in Seq(Lines) /\ queue # <<>> /\ Kind(Head(queue)) # "line"
      /\ queue' = Append(Tail(queue), Head(queue)) /\ UNCHANGED sendVars /\ UNCHANGED logVars
    BY DEF StoresOK, Postpone, Take
<1>2. Head(queue) \in Lines /\ Tail(queue) \in Seq(Lines) /\ ToSet(queue) = {Head(queue)} \cup ToSet(Tail(queue))
    BY <1>1, SetTail
<1> DEFINE h == Head(queue)
           t == Tail(queue)
<1>3. h \in Lines /\ t \in Seq(Lines) /\ queue' = Append(t, h)
    BY <1>1, <1>2
<1> HIDE DEF h, t
<1>4. ToSet(queue') = ToSet(t) \cup {h} /\ queue' \in Seq(Lines)
    BY <1>3, SetAppend
<1>5. ToSet(queue') = ToSet(queue)
    BY <1>2, <1>4 DEF h, t
<1>6. Logged' = Logged /\ Done' = Done
    BY <1>1 DEF Logged, Done, logVars
<1>7. There' = ToSet(queue') \cup Logged' \cup Done'
    BY DEF There
<1> QED BY <1>1, <1>2, <1>4, <1>5, <1>6, <1>7 DEF There

LEMMA ArriveParts ==
    ASSUME StoresOK, NEW l \in Lines, Arrives(l)
    PROVE  /\ queue' \in Seq(Lines) /\ ToSet(queue') = ToSet(queue) \cup {l}
           /\ Logged' = Logged /\ Done' = Done /\ There' = There \cup {l}
<1>1. queue \in Seq(Lines) /\ queue' = Append(queue, l)
    BY DEF StoresOK, Arrives
<1>2. ToSet(queue') = ToSet(queue) \cup {l} /\ queue' \in Seq(Lines)
    BY <1>1, SetAppend
<1>3. Logged' = Logged /\ Done' = Done
    BY DEF Logged, Done, Arrives, logVars
<1>4. There' = ToSet(queue') \cup Logged' \cup Done'
    BY DEF There
<1> QED BY <1>2, <1>3, <1>4 DEF There

LEMMA ElsewhereParts ==
    ASSUME Elsewhere
    PROVE  Logged' = Logged /\ Done' = Done /\ There' = There
BY DEF Elsewhere, Logged, Done, There

LEMMA StoresKept ==
    ASSUME Types, Next
    PROVE  StoresOK'
<1> USE DEF StoresOK
<1>0. MadeOK /\ ThreadsOK /\ StoresOK
    BY DEF Types
<1>1. ASSUME Elsewhere, recent' \in BOOLEAN, UNCHANGED <<strays, breaks>> PROVE StoresOK'
    BY <1>0, <1>1 DEF Elsewhere
<1>2. ASSUME NEW s \in Servers, Lenq(s) \/ Ldeq(s) \/ Connect(s) \/ Send(s) \/ Recv(s)
      PROVE  StoresOK'
    <2>1. Elsewhere /\ recent' = recent
        BY <1>2, AwayElsewhere DEF Away
    <2>2. UNCHANGED <<strays, breaks>>
        BY <1>2 DEF Lenq, Ldeq, Connect, Send, Recv
    <2> QED BY <1>0, <1>1, <2>1, <2>2
<1>3. ASSUME NEW s \in Servers, Break(s) PROVE StoresOK'
    <2>1. Elsewhere /\ recent' = recent
        BY <1>3, AwayElsewhere DEF Away
    <2>2. breaks' = breaks + 1 /\ breaks < MaxBreaks /\ breaks \in Nat /\ MaxBreaks \in Nat
        BY <1>0, <1>3, ConstantsAssumption DEF Break
    <2>3. breaks' \in 0 .. MaxBreaks /\ breaks' \in 1 .. MaxBreaks
        BY <2>2
    <2>4. strays' = strays \/ (wire[s] = "line" /\ strays' = strays \cup {<<Held(s), breaks + 1>>})
        BY <1>3 DEF Break
    <2>5. wire[s] = "line" => Held(s) \in Lines
        BY <1>0, HeldLine DEF ThreadsOK
    <2>6. strays' \subseteq Lines \X (1 .. MaxBreaks)
        BY <1>0, <2>2, <2>3, <2>4, <2>5
    <2>7. \A stray \in strays : stray[2] <= breaks /\ stray[2] \in Nat
        BY <1>0
    <2>8. \A stray \in strays' : stray[2] <= breaks'
        BY <2>2, <2>4, <2>7
    <2> QED BY <1>0, <2>1, <2>3, <2>6, <2>8 DEF Elsewhere
<1>4. ASSUME NEW l \in Lines, Arrives(l), strays' \subseteq strays PROVE StoresOK'
    <2>1. queue' \in Seq(Lines)
        BY <1>0, <1>4, ArriveParts
    <2> QED BY <1>0, <1>4, <2>1 DEF Arrives, logVars
<1>5. ASSUME NEW s \in Servers, Receive(s) PROVE StoresOK'
    BY <1>0, <1>4, <1>5, ReceiveArrives
<1>6. CASE ReceiveStray
    BY <1>0, <1>4, <1>6, StrayArrives
<1>7. CASE Quiet
    BY <1>0, <1>1, <1>7, QuietElsewhere DEF sendVars
<1>8. CASE LogStep /\ ~Postpone
    <2>1. PICK lines \in Seq(Lines) : Takes(lines) /\ count' \in Nat /\ Len(tree') <= count'
        BY <1>0, <1>8, LogStepTakes
    <2>2. /\ Head(queue) \in Lines /\ Tail(queue) \in Seq(Lines) /\ tree' \in Seq(Lines) /\ file' \in Seq(Lines)
        BY <1>0, <2>1, TakesParts
    <2>3. queue' \in Seq(Lines) /\ UNCHANGED sendVars
        BY <2>1, <2>2 DEF Takes
    <2>4. dumped' \subseteq Lines /\ skipped' \subseteq Lines
        BY <1>0, <2>1, <2>2 DEF Takes
    <2>5. cut' \subseteq Lines
        <3>1. cut' \subseteq ToSet(lines) \cup ToSet(file) \cup cut
            BY <1>0, <2>1, MovesKeep DEF Takes
        <3>2. ToSet(lines) \subseteq Lines /\ ToSet(file) \subseteq Lines
            BY <1>0, <2>1 DEF ToSet
        <3> QED BY <1>0, <3>1, <3>2
    <2>6. recent' \in BOOLEAN
        BY <1>0, <1>8 DEF LogStep, Record, Dump, DumpElsewhere
    <2> QED BY <1>0, <2>1, <2>2, <2>3, <2>4, <2>5, <2>6 DEF sendVars
<1>9. CASE Postpone
    BY <1>0, <1>9, PostponeParts DEF sendVars, logVars
<1> QED BY <1>2, <1>3, <1>5, <1>6, <1>7, <1>8, <1>9 DEF Next

LEMMA LinesUnderway ==
    ASSUME StoresOK
    PROVE  Underway \subseteq Lines /\ There \subseteq Underway
<1>1. ToSet(queue) \subseteq Lines /\ ToSet(tree) \subseteq Lines /\ ToSet(file) \subseteq Lines
    BY DEF StoresOK, ToSet
<1>2. \A stray \in strays : stray[1] \in Lines
    BY DEF StoresOK
<1> QED BY <1>1, <1>2 DEF Underway, There, Logged, Done, StoresOK

LEMMA NowUnderway ==
    ASSUME Types, Next, NEW l \in Underway'
    PROVE  l \in Lines /\ l[2] <= taken[l[1]]
<1>1. MadeOK /\ ThreadsOK /\ StoresOK /\ AllTaken
    BY DEF Types
<1>2. Underway' = There' \cup {stray[1] : stray \in strays'}
    BY DEF Underway
<1>3. ASSUME There' = There, strays' \subseteq strays PROVE l \in Underway
    BY <1>2, <1>3 DEF Underway
<1>4. l \in Underway => l \in Lines /\ l[2] <= taken[l[1]]
    BY <1>1, LinesUnderway DEF AllTaken
<1>5. ASSUME NEW s \in Servers, Away(s), ~Break(s) PROVE l \in Underway
    <2>1. There' = There
        BY <1>5, AwayElsewhere, ElsewhereParts
    <2>2. strays' = strays
        BY <1>5 DEF Away, Lenq, Ldeq, Connect, Send, Recv
    <2> QED BY <1>3, <2>1, <2>2
<1>6. ASSUME NEW s \in Servers, Break(s) PROVE l \in Underway \/ (holds[s] /\ l = Held(s))
    <2>1. There' = There
        BY <1>6, AwayElsewhere, ElsewhereParts DEF Away
    <2>2. strays' = strays \/ (wire[s] = "line" /\ strays' = strays \cup {<<Held(s), breaks + 1>>})
        BY <1>6 DEF Break
    <2>3. CASE strays' = strays
        BY <1>3, <2>1, <2>3
    <2>4. CASE wire[s] = "line" /\ strays' = strays \cup {<<Held(s), breaks + 1>>}
        <3>1. holds[s]
            BY <1>1, <2>4 DEF ThreadsOK
        <3>2. l \in There' \/ \E stray \in strays' : l = stray[1]
            BY <1>2
        <3> QED BY <2>1, <2>4, <3>1, <3>2 DEF Underway
    <2> QED BY <2>2, <2>3, <2>4
<1>7. ASSUME NEW s \in Servers, Receive(s) PROVE l \in Underway \/ (holds[s] /\ l = Held(s))
    <2>1. Held(s) \in Lines /\ holds[s] /\ Arrives(Held(s)) /\ strays' = strays
        BY <1>1, <1>7, ReceiveArrives
    <2>2. There' = There \cup {Held(s)}
        BY <1>1, <2>1, ArriveParts
    <2> QED BY <1>2, <2>1, <2>2 DEF Underway
<1>8. ASSUME NEW s \in Servers, holds[s], l = Held(s) PROVE l \in Lines /\ l[2] <= taken[l[1]]
    BY <1>1, <1>8, HeldLine
<1>9. CASE ReceiveStray
    <2>1. PICK k \in Lines, b \in 1 .. MaxBreaks :
              <<k, b>> \in strays /\ Arrives(k) /\ strays' = strays \ {<<k, b>>}
        BY <1>1, <1>9, StrayArrives
    <2>2. There' = There \cup {k}
        BY <1>1, <2>1, ArriveParts
    <2>3. k \in {stray[1] : stray \in strays}
        BY <2>1
    <2>4. l \in Underway
        BY <1>2, <2>1, <2>2, <2>3 DEF Underway
    <2> QED BY <1>4, <2>4
<1>10. CASE Quiet
    <2>1. There' = There /\ strays' = strays
        BY <1>10, QuietElsewhere, ElsewhereParts DEF sendVars
    <2> QED BY <1>3, <1>4, <2>1
<1>11. CASE LogStep
    <2>1. There' = There
        <3>1. CASE Postpone
            BY <1>1, <3>1, PostponeParts
        <3>2. CASE ~Postpone
            BY <1>1, <1>11, <3>2, LogStepTakes, TakesParts
        <3> QED BY <3>1, <3>2
    <2>2. strays' = strays
        BY <1>11 DEF LogStep, Record, Postpone, Dump, DumpElsewhere, sendVars
    <2> QED BY <1>3, <1>4, <2>1, <2>2
<1> QED BY <1>4, <1>5, <1>6, <1>7, <1>8, <1>9, <1>10, <1>11 DEF Next, Away

LEMMA KindKept ==
    ASSUME MadeOK, Next, NEW l \in Lines, l[2] <= taken[l[1]]
    PROVE  made'[l[1]][l[2]] = made[l[1]][l[2]]
<1>1. l[1] \in Servers /\ l[2] \in 1 .. MaxLines /\ MaxLines \in Nat
    BY ConstantsAssumption DEF Lines
<1>2. taken[l[1]] \in Nat
    BY <1>1 DEF MadeOK
<1>3. l[2] \in 1 .. taken[l[1]]
    BY <1>1, <1>2
<1> QED BY <1>1, <1>3, Grows

LEMMA TypesKept ==
    ASSUME Types, Next
    PROVE  Types'
<1>1. MadeOK /\ ThreadsOK /\ StoresOK /\ AllTaken /\ KindsOK
    BY DEF Types
<1>2. MadeOK' /\ ThreadsOK' /\ StoresOK'
    BY <1>1, Grows, ThreadsKept, StoresKept
<1>3. AllTaken'
    <2>1. ASSUME NEW l \in Underway' PROVE l[2] <= taken'[l[1]]
        <3>1. l \in Lines /\ l[2] <= taken[l[1]]
            BY NowUnderway
        <3>2. l[1] \in Servers /\ l[2] \in Nat
            BY <3>1 DEF Lines
        <3>3. taken[l[1]] <= taken'[l[1]] /\ taken[l[1]] \in Nat /\ taken'[l[1]] \in Nat
            BY <1>1, <3>2, Grows DEF MadeOK
        <3> QED BY <3>1, <3>2, <3>3
    <2> QED BY <2>1 DEF AllTaken
<1>4. ASSUME NEW l \in Logged \cup Done PROVE made'[l[1]][l[2]] = Kind(l)
    <2>1. l \in Underway
        BY DEF Underway, There
    <2>2. l \in Lines /\ l[2] <= taken[l[1]]
        BY <1>1, <2>1, LinesUnderway DEF AllTaken
    <2> QED BY <1>1, <2>2, KindKept DEF Kind
<1>5. ASSUME Logged' = Logged, Done' = Done PROVE KindsOK'
    BY <1>1, <1>4, <1>5 DEF KindsOK, Kind
<1>6. ASSUME \E s \in Servers : Away(s) PROVE KindsOK'
    BY <1>5, <1>6, AwayElsewhere, ElsewhereParts
<1>7. ASSUME \E s \in Servers : Receive(s) PROVE KindsOK'
    BY <1>1, <1>5, <1>7, ReceiveArrives, ArriveParts
<1>8. ASSUME ReceiveStray PROVE KindsOK'
    BY <1>1, <1>5, <1>8, StrayArrives, ArriveParts
<1>9. ASSUME Quiet PROVE KindsOK'
    BY <1>5, <1>9, QuietElsewhere, ElsewhereParts
<1>10. ASSUME Postpone PROVE KindsOK'
    BY <1>1, <1>5, <1>10, PostponeParts
<1>11. ASSUME LogStep /\ ~Postpone PROVE KindsOK'
    <2>1. PICK lines \in Seq(Lines) : Takes(lines)
        BY <1>1, <1>11, LogStepTakes
    <2> DEFINE h == Head(queue)
    <2>2. /\ h \in Lines /\ ToSet(queue) = {h} \cup ToSet(queue')
          /\ \/ Kind(h) = "line" /\ Logged' = Logged \cup {h} /\ Done' = Done
             \/ Kind(h) # "line" /\ Logged' = Logged /\ Done' = Done \cup {h}
        BY <1>1, <2>1, TakesParts
    <2> HIDE DEF h
    <2>3. h \in Underway
        BY <2>2 DEF Underway, There
    <2>4. h[2] <= taken[h[1]]
        BY <1>1, <2>3 DEF AllTaken
    <2>5. made'[h[1]][h[2]] = Kind(h)
        BY <1>1, <2>2, <2>4, KindKept DEF Kind
    <2> QED BY <1>1, <1>4, <2>2, <2>5 DEF KindsOK, Kind
<1>12. KindsOK'
    BY <1>6, <1>7, <1>8, <1>9, <1>10, <1>11 DEF Next, LogStep, Away
<1> QED BY <1>2, <1>3, <1>12 DEF Types

-----------------------------------------------------------------------------
(* Nothing is lost.                                                        *)
LEMMA ThereKept ==
    ASSUME Types, Next
    PROVE  There \subseteq There'
<1>1. MadeOK /\ ThreadsOK /\ StoresOK
    BY DEF Types
<1>2. ASSUME NEW s \in Servers, Away(s) PROVE There' = There
    BY <1>2, AwayElsewhere, ElsewhereParts
<1>3. ASSUME NEW s \in Servers, Receive(s) PROVE There \subseteq There'
    BY <1>1, <1>3, ReceiveArrives, ArriveParts
<1>4. ASSUME ReceiveStray PROVE There \subseteq There'
    BY <1>1, <1>4, StrayArrives, ArriveParts
<1>5. ASSUME Quiet PROVE There' = There
    BY <1>5, QuietElsewhere, ElsewhereParts
<1>6. ASSUME Postpone PROVE There' = There
    BY <1>1, <1>6, PostponeParts
<1>7. ASSUME LogStep, ~Postpone PROVE There' = There
    BY <1>1, <1>7, LogStepTakes, TakesParts
<1> QED BY <1>2, <1>3, <1>4, <1>5, <1>6, <1>7 DEF Next, Away

LEMMA AllThereKept ==
    ASSUME Types, AllThere, Next
    PROVE  AllThere'
<1>1. MadeOK /\ ThreadsOK /\ StoresOK /\ There \subseteq There'
    BY ThereKept DEF Types
<1>2. \A s \in Servers : taken[s] \in Nat /\ taken'[s] \in Nat
    BY <1>1, Grows DEF MadeOK
<1>3. SUFFICES ASSUME NEW v \in Servers, NEW n \in Received(v)'
               PROVE  n \in Received(v) \/ <<v, n>> \in There'
    BY <1>1 DEF AllThere
<1>4. /\ n \in 1 .. taken'[v]
      /\ ~(n = taken'[v] /\ holds'[v]) \/ (wire'[v] = "REC" /\ n = taken'[v])
    BY <1>1, <1>2, ThreadsKept DEF Received, Sent, ThreadsOK
<1> USE DEF Received, Sent
<1>5. ASSUME UNCHANGED <<taken, holds>>, wire'[v] = "REC" => wire[v] = "REC" PROVE n \in Received(v)
    BY <1>2, <1>4, <1>5
<1>6. ASSUME NEW s \in Servers, Lenq(s) PROVE n \in Received(v)
    BY <1>5, <1>6 DEF Lenq
<1>7. ASSUME NEW s \in Servers, Ldeq(s) PROVE n \in Received(v)
    <2>1. CASE v = s
        <3>1. ~holds[v] /\ holds'[v] /\ taken'[v] = taken[v] + 1 /\ wire'[v] = "none"
            BY <1>1, <1>7, <2>1 DEF Ldeq, MadeOK, ThreadsOK
        <3>2. n \in 1 .. taken[v]
            BY <1>2, <1>4, <3>1
        <3> QED BY <3>1, <3>2
    <2>2. CASE v # s
        <3>1. holds'[v] = holds[v] /\ taken'[v] = taken[v] /\ wire'[v] = wire[v]
            BY <1>1, <1>7, <2>2 DEF Ldeq, MadeOK, ThreadsOK
        <3> QED BY <1>2, <1>4, <3>1
    <2> QED BY <2>1, <2>2
<1>8. ASSUME NEW s \in Servers, Connect(s) \/ Send(s) PROVE n \in Received(v)
    BY <1>1, <1>5, <1>8 DEF Connect, Send, ThreadsOK
<1>9. ASSUME NEW s \in Servers, Recv(s) PROVE n \in Received(v)
    <2>1. taken' = taken
        BY <1>9 DEF Recv
    <2>2. CASE v = s
        BY <1>2, <1>4, <1>9, <2>1, <2>2 DEF Recv
    <2>3. CASE v # s
        <3>1. holds'[v] = holds[v] /\ wire'[v] = wire[v]
            BY <1>1, <1>9, <2>3 DEF Recv, ThreadsOK
        <3> QED BY <1>2, <1>4, <2>1, <3>1
    <2> QED BY <2>2, <2>3
<1>10. ASSUME NEW s \in Servers, Break(s) PROVE n \in Received(v)
    BY <1>1, <1>5, <1>10 DEF Break, ThreadsOK
<1>11. ASSUME NEW s \in Servers, Receive(s) PROVE n \in Received(v) \/ <<v, n>> \in There'
    <2>1. Held(s) \in Lines /\ Arrives(Held(s)) /\ wire' = [wire EXCEPT ![s] = "REC"]
        BY <1>1, <1>11, ReceiveArrives
    <2>2. Held(s) \in There'
        BY <1>1, <2>1, ArriveParts
    <2>3. CASE v = s /\ n = taken[v]
        BY <2>2, <2>3 DEF Held
    <2>4. CASE v = s /\ n # taken[v]
        <3>1. UNCHANGED <<taken, holds>>
            BY <2>1 DEF Arrives
        <3> QED BY <1>2, <1>4, <2>4, <3>1
    <2>5. CASE v # s
        <3>1. UNCHANGED <<taken, holds>> /\ wire'[v] = wire[v]
            BY <1>1, <2>1, <2>5 DEF Arrives, ThreadsOK
        <3> QED BY <1>5, <3>1
    <2> QED BY <2>3, <2>4, <2>5
<1>12. ASSUME ReceiveStray PROVE n \in Received(v)
    BY <1>5, <1>12 DEF ReceiveStray
<1>13. ASSUME Quiet \/ LogStep PROVE n \in Received(v)
    BY <1>5, <1>13 DEF Quiet, LogStep, Record, Postpone, Dump, DumpElsewhere, sendVars
<1> QED BY <1>6, <1>7, <1>8, <1>9, <1>10, <1>11, <1>12, <1>13 DEF Next

-----------------------------------------------------------------------------
(* Every dump is complete.                                                 *)
LEMMA FollowsKept ==
    ASSUME MadeOK, Next, NEW l \in Lines, l[2] <= taken[l[1]],
           NEW S, NEW T, Follows(made, l, S),
           \A n \in 1 .. l[2] - 1 : made[l[1]][n] = "line" /\ <<l[1], n>> \in S => <<l[1], n>> \in T
    PROVE  Follows(made', l, T)
<1>1. l[1] \in Servers /\ l[2] \in 1 .. MaxLines /\ MaxLines \in Nat
    BY ConstantsAssumption DEF Lines
<1>2. taken[l[1]] \in Nat
    BY <1>1 DEF MadeOK
<1> SUFFICES ASSUME NEW n \in 1 .. l[2] - 1, made'[l[1]][n] = "line"
             PROVE  <<l[1], n>> \in T
    BY DEF Follows
<1>3. n \in 1 .. taken[l[1]]
    BY <1>1, <1>2
<1>4. made[l[1]][n] = "line"
    BY <1>1, <1>3, Grows
<1> QED BY <1>4 DEF Follows

(* All that a server has logged before a line that is underway is there.   *)
LEMMA BeforeIsThere ==
    ASSUME Types, AllThere, NEW l \in Lines, l[2] <= taken[l[1]]
    PROVE  Follows(made, l, Logged \cup ToSet(queue))
<1>1. l[1] \in Servers /\ l[2] \in 1 .. MaxLines /\ MaxLines \in Nat
    BY ConstantsAssumption DEF Lines
<1>2. taken[l[1]] \in Nat
    BY <1>1 DEF Types, MadeOK
<1> SUFFICES ASSUME NEW n \in 1 .. l[2] - 1, made[l[1]][n] = "line"
             PROVE  <<l[1], n>> \in Logged \cup ToSet(queue)
    BY DEF Follows
<1>3. n \in 1 .. taken[l[1]] /\ n # taken[l[1]]
    BY <1>1, <1>2
<1>4. <<l[1], n>> \in There
    BY <1>1, <1>3 DEF AllThere, Received, Sent
<1>5. <<l[1], n>> \notin Done
    BY DEF Types, KindsOK, Kind
<1> QED BY <1>4, <1>5 DEF There

LEMMA QueueKinds ==
    ASSUME Types, NEW i \in DOMAIN queue
    PROVE  queue[i] \in Lines /\ queue[i][2] <= taken[queue[i][1]]
<1>1. queue[i] \in ToSet(queue) /\ queue[i] \in Lines
    BY DEF ToSet, Types, StoresOK
<1> QED BY <1>1 DEF Types, AllTaken, Underway, There

LEMMA ArrivesFollows ==
    ASSUME Types, AllThere, QueueFollows, Next, NEW l \in Lines, Arrives(l), l[2] <= taken[l[1]]
    PROVE  QueueFollows'
<1>1. queue \in Seq(Lines) /\ MadeOK
    BY DEF Types, StoresOK
<1>2. PICK k \in Nat : k = Len(queue) + 1
    BY <1>1
<1>3. /\ DOMAIN queue' = 1 .. k /\ queue'[k] = l
      /\ \A i \in DOMAIN queue : queue'[i] = queue[i]
      /\ DOMAIN queue = 1 .. k - 1
    BY <1>1, <1>2 DEF Arrives
<1>4. Logged' = Logged
    BY ArriveParts DEF Types
<1>5. ASSUME NEW i \in 1 .. k - 1 PROVE Follows(made', queue'[i], Ahead(i)')
    <2>1. \A j \in 1 .. i - 1 : queue'[j] = queue[j]
        BY <1>3
    <2>2. Ahead(i)' = Ahead(i)
        BY <1>4, <2>1 DEF Ahead
    <2>3. queue'[i] = queue[i] /\ i \in DOMAIN queue /\ Follows(made, queue[i], Ahead(i))
        BY <1>3 DEF QueueFollows
    <2>4. Follows(made', queue[i], Ahead(i))
        BY <1>1, <2>3, QueueKinds, FollowsKept
    <2> QED BY <2>2, <2>3, <2>4
<1>6. Follows(made', queue'[k], Ahead(k)')
    <2>1. ToSet(queue) \subseteq {queue'[j] : j \in 1 .. k - 1}
        BY <1>3 DEF ToSet
    <2>2. Logged \cup ToSet(queue) \subseteq Ahead(k)'
        BY <1>4, <2>1 DEF Ahead
    <2>3. Follows(made, l, Logged \cup ToSet(queue))
        BY BeforeIsThere
    <2>4. Follows(made', l, Ahead(k)')
        <3> DEFINE S == Logged \cup ToSet(queue)  T == Ahead(k)'
        <3>1. Follows(made, l, S) /\ S \subseteq T
            BY <2>2, <2>3
        <3> HIDE DEF S, T
        <3>2. Follows(made', l, T)
            BY <1>1, <3>1, FollowsKept
        <3> QED BY <3>2 DEF T
    <2> QED BY <1>3, <2>4
<1>7. \A i \in 1 .. k : i \in 1 .. k - 1 \/ i = k
    BY <1>2
<1> QED BY <1>3, <1>5, <1>6, <1>7 DEF QueueFollows

(* The lines behind the one that is taken from the queue.                  *)
LEMMA BehindFollows ==
    ASSUME Types, QueueFollows, Next, queue # <<>>, NEW i \in 1 .. Len(queue) - 1,
           NEW T, Logged \subseteq T, \A j \in 1 .. i - 1 : queue[j + 1] \in T,
           Kind(Head(queue)) = "line" => Head(queue) \in T
    PROVE  Follows(made', queue[i + 1], T)
<1>1. queue \in Seq(Lines) /\ MadeOK
    BY DEF Types, StoresOK
<1>2. Len(queue) \in Nat /\ DOMAIN queue = 1 .. Len(queue) /\ queue[1] = Head(queue) /\ i \in Nat
      /\ i + 1 \in DOMAIN queue
    BY <1>1
<1>3. PICK k \in DOMAIN queue : k = i + 1
    BY <1>2
<1>4. Follows(made, queue[k], Ahead(k)) /\ queue[k] \in Lines /\ queue[k][2] <= taken[queue[k][1]]
    BY QueueKinds DEF QueueFollows
<1>5. ASSUME NEW n \in 1 .. queue[k][2] - 1, made[queue[k][1]][n] = "line", <<queue[k][1],
             n>> \in Ahead(k)
      PROVE  <<queue[k][1], n>> \in T
    <2>1. CASE <<queue[k][1], n>> \in Logged
        BY <2>1
    <2>2. ASSUME NEW j \in 1 .. k - 1, <<queue[k][1], n>> = queue[j]
          PROVE  <<queue[k][1], n>> \in T
        <3>1. CASE j = 1
            BY <1>2, <1>5, <2>2, <3>1 DEF Kind
        <3>2. CASE j # 1
            <4>1. j - 1 \in 1 .. i - 1 /\ (j - 1) + 1 = j
                BY <1>2, <1>3, <3>2
            <4> QED BY <2>2, <4>1
        <3> QED BY <3>1, <3>2
    <2> QED BY <1>5, <2>1, <2>2 DEF Ahead
<1>6. Follows(made', queue[k], T)
    <2> DEFINE l == queue[k]  S == Ahead(k)
    <2>1. l \in Lines /\ l[2] <= taken[l[1]] /\ Follows(made, l, S)
          /\ \A n \in 1 .. l[2] - 1 : made[l[1]][n] = "line" /\ <<l[1], n>> \in S => <<l[1], n>> \in T
        BY <1>4, <1>5
    <2> HIDE DEF l, S
    <2>2. Follows(made', l, T)
        BY <1>1, <2>1, FollowsKept
    <2> QED BY <2>2 DEF l
<1> QED BY <1>3, <1>6

LEMMA TakesFollows ==
    ASSUME Types, QueueFollows, Next, NEW lines \in Seq(Lines), Takes(lines)
    PROVE  QueueFollows'
<1>1. queue \in Seq(Lines) /\ queue # <<>> /\ queue' = Tail(queue) /\ StoresOK
    BY DEF Types, StoresOK, Takes
<1>2. /\ DOMAIN queue' = 1 .. Len(queue) - 1 /\ \A i \in DOMAIN queue' : queue'[i] = queue[i + 1]
      /\ Len(queue) \in Nat
    BY <1>1, SetTail
<1>3. Logged \subseteq Logged' /\ (Kind(Head(queue)) = "line" => Head(queue) \in Logged')
    BY <1>1, TakesParts
<1>4. ASSUME NEW i \in 1 .. Len(queue) - 1 PROVE Follows(made', queue'[i], Ahead(i)')
    <2> DEFINE T == Ahead(i)'
    <2>1. \A j \in 1 .. i - 1 : queue[j + 1] = queue'[j]
        BY <1>2
    <2>2. Logged \subseteq T /\ (\A j \in 1 .. i - 1 : queue[j + 1] \in T)
          /\ (Kind(Head(queue)) = "line" => Head(queue) \in T)
        BY <1>3, <2>1 DEF Ahead
    <2> HIDE DEF T
    <2>3. Follows(made', queue[i + 1], T)
        BY <1>1, <2>2, BehindFollows
    <2> QED BY <1>2, <2>3 DEF T
<1> QED BY <1>2, <1>4 DEF QueueFollows

LEMMA PostponeFollows ==
    ASSUME Types, QueueFollows, Next, Postpone
    PROVE  QueueFollows'
<1>1. queue \in Seq(Lines) /\ queue # <<>> /\ StoresOK /\ MadeOK
    BY DEF Types, StoresOK, Postpone, Take
<1>2. /\ queue' = Append(Tail(queue), Head(queue)) /\ Kind(Head(queue)) # "line" /\ Logged' = Logged
    BY <1>1, PostponeParts
<1>3. PICK k \in Nat : k = Len(queue)
    BY <1>1
<1>4. /\ DOMAIN queue' = 1 .. k /\ queue'[k] = Head(queue) /\ k > 0
      /\ \A i \in 1 .. k - 1 : queue'[i] = queue[i + 1]
      /\ Head(queue) = queue[1] /\ 1 \in DOMAIN queue
    BY <1>1, <1>2, <1>3
<1>5. ASSUME NEW i \in 1 .. k - 1 PROVE Follows(made', queue'[i], Ahead(i)')
    <2> DEFINE T == Ahead(i)'
    <2>1. \A j \in 1 .. i - 1 : queue[j + 1] = queue'[j]
        BY <1>3, <1>4
    <2>2. Logged \subseteq T /\ (\A j \in 1 .. i - 1 : queue[j + 1] \in T)
        BY <1>2, <2>1 DEF Ahead
    <2> HIDE DEF T
    <2>3. Follows(made', queue[i + 1], T)
        BY <1>1, <1>2, <1>3, <2>2, BehindFollows
    <2> QED BY <1>4, <2>3 DEF T
<1>6. Follows(made', queue'[k], Ahead(k)')
    <2> DEFINE l == queue[1]  S == Ahead(1)  T == Ahead(k)'
    <2>1. l \in Lines /\ l[2] <= taken[l[1]] /\ Follows(made, l, S)
        BY <1>4, QueueKinds DEF QueueFollows
    <2>2. S \subseteq T
        BY <1>2 DEF Ahead
    <2> HIDE DEF l, S, T
    <2>3. Follows(made', l, T)
        BY <1>1, <2>1, <2>2, FollowsKept
    <2> QED BY <1>4, <2>3 DEF l, T
<1>7. \A i \in 1 .. k : i \in 1 .. k - 1 \/ i = k
    BY <1>3
<1> QED BY <1>4, <1>5, <1>6, <1>7 DEF QueueFollows

LEMMA ElsewhereFollows ==
    ASSUME Types, QueueFollows, Next, Elsewhere
    PROVE  QueueFollows'
<1>1. MadeOK /\ queue' = queue /\ Logged' = Logged
    BY ElsewhereParts DEF Types, Elsewhere
<1>2. ASSUME NEW i \in DOMAIN queue PROVE Follows(made', queue[i], Ahead(i)')
    <2>1. Ahead(i)' = Ahead(i)
        BY <1>1 DEF Ahead
    <2>2. Follows(made', queue[i], Ahead(i))
        BY <1>1, QueueKinds, FollowsKept DEF QueueFollows
    <2> QED BY <2>1, <2>2
<1> QED BY <1>1, <1>2 DEF QueueFollows

LEMMA QueueFollowsKept ==
    ASSUME Types, AllThere, QueueFollows, Next
    PROVE  QueueFollows'
<1>1. MadeOK /\ ThreadsOK /\ StoresOK
    BY DEF Types
<1>2. ASSUME NEW s \in Servers, Away(s) PROVE QueueFollows'
    BY <1>2, AwayElsewhere, ElsewhereFollows
<1>3. ASSUME NEW s \in Servers, Receive(s) PROVE QueueFollows'
    <2>1. Held(s) \in Lines /\ Arrives(Held(s)) /\ Held(s)[2] <= taken[Held(s)[1]]
        BY <1>1, <1>3, ReceiveArrives, HeldLine
    <2> DEFINE l == Held(s)
    <2>2. l \in Lines /\ Arrives(l) /\ l[2] <= taken[l[1]]
        BY <2>1
    <2> HIDE DEF l
    <2> QED BY <2>2, ArrivesFollows
<1>4. ASSUME ReceiveStray PROVE QueueFollows'
    <2>1. PICK l \in Lines, b \in 1 .. MaxBreaks : <<l, b>> \in strays /\ Arrives(l)
        BY <1>1, <1>4, StrayArrives
    <2>2. l[2] <= taken[l[1]]
        BY <2>1 DEF Types, AllTaken, Underway
    <2> QED BY <2>1, <2>2, ArrivesFollows
<1>5. ASSUME Quiet PROVE QueueFollows'
    BY <1>5, QuietElsewhere, ElsewhereFollows
<1>6. ASSUME Postpone PROVE QueueFollows'
    BY <1>6, PostponeFollows
<1>7. ASSUME LogStep, ~Postpone PROVE QueueFollows'
    BY <1>1, <1>7, LogStepTakes, TakesFollows
<1> QED BY <1>2, <1>3, <1>4, <1>5, <1>6, <1>7 DEF Next, Away

LEMMA DumpKept ==
    ASSUME Types, Next, NEW d \in dumped, DumpsFollow,
           ToSet(file) \cup cut \subseteq ToSet(file') \cup cut'
    PROVE  Follows(made', d, ToSet(file') \cup cut')
<1>1. MadeOK /\ d \in Lines /\ d[2] <= taken[d[1]]
    BY DEF Types, StoresOK, AllTaken, Underway, There, Done
<1> DEFINE S == ToSet(file) \cup cut  T == ToSet(file') \cup cut'
<1>2. Follows(made, d, S) /\ S \subseteq T
    BY DEF DumpsFollow
<1> HIDE DEF S, T
<1>3. Follows(made', d, T)
    BY <1>1, <1>2, FollowsKept
<1> QED BY <1>3 DEF T

LEMMA DumpsFollowKept ==
    ASSUME Types, QueueFollows, DumpsFollow, Next
    PROVE  DumpsFollow'
<1>1. MadeOK /\ ThreadsOK /\ StoresOK
    BY DEF Types
<1>2. ASSUME UNCHANGED <<dumped, file, cut>> PROVE DumpsFollow'
    BY <1>2, DumpKept DEF DumpsFollow
<1>3. ASSUME NEW s \in Servers, Away(s) PROVE DumpsFollow'
    BY <1>2, <1>3, AwayElsewhere DEF Elsewhere
<1>4. ASSUME NEW s \in Servers, Receive(s) PROVE DumpsFollow'
    BY <1>1, <1>2, <1>4, ReceiveArrives DEF Arrives, logVars
<1>5. ASSUME ReceiveStray PROVE DumpsFollow'
    BY <1>2, <1>5 DEF ReceiveStray, logVars
<1>6. ASSUME Quiet PROVE DumpsFollow'
    BY <1>2, <1>6, QuietElsewhere DEF Elsewhere
<1>7. ASSUME Postpone PROVE DumpsFollow'
    BY <1>1, <1>2, <1>7, PostponeParts DEF logVars
<1>8. ASSUME LogStep, ~Postpone PROVE DumpsFollow'
    <2>1. PICK lines \in Seq(Lines) : Takes(lines)
        BY <1>1, <1>8, LogStepTakes
    <2>2. ToSet(file) \cup cut \subseteq ToSet(file') \cup cut' /\ Head(queue) \in Lines
        BY <1>1, <2>1, TakesParts
    <2>3. ASSUME dumped' = dumped \cup {Head(queue)}, tree' = <<>>, Logged' = Logged
          PROVE  Follows(made', Head(queue), ToSet(file') \cup cut')
        <3>1. queue # <<>> /\ 1 \in DOMAIN queue /\ queue[1] = Head(queue)
            BY <1>1, <2>1 DEF StoresOK, Takes
        <3> DEFINE l == queue[1]  S == Ahead(1)  T == ToSet(file') \cup cut'
        <3>2. l \in Lines /\ l[2] <= taken[l[1]] /\ Follows(made, l, S)
            BY <3>1, QueueKinds DEF QueueFollows
        <3>3. S \subseteq T
            <4>1. ToSet(tree') = {} /\ S = Logged
                BY <2>3 DEF ToSet, Ahead
            <4> QED BY <2>3, <4>1 DEF Logged
        <3> HIDE DEF l, S, T
        <3>4. Follows(made', l, T)
            BY <1>1, <3>2, <3>3, FollowsKept
        <3> QED BY <3>1, <3>4 DEF l, T
    <2>4. \/ dumped' = dumped
          \/ dumped' = dumped \cup {Head(queue)} /\ tree' = <<>> /\ Logged' = Logged
        <3>1. Kind(Head(queue)) # "line" => Logged' = Logged
            BY <1>1, <2>1, TakesParts
        <3> QED BY <2>1, <3>1 DEF Takes
    <2> QED BY <2>2, <2>3, <2>4, DumpKept DEF DumpsFollow
<1> QED BY <1>3, <1>4, <1>5, <1>6, <1>7, <1>8 DEF Next, Away

-----------------------------------------------------------------------------
(* No line is there more often than it was sent.                           *)
LEMMA Numbers ==
    ASSUME Types, NEW l \in Lines
    PROVE  /\ Times(queue, l) \in Nat /\ Times(tree, l) \in Nat /\ Times(file, l) \in Nat
           /\ IsFiniteSet(Astray(l)) /\ Cardinality(Astray(l)) \in Nat
           /\ l[1] \in Servers /\ l[2] \in Nat \ {0} /\ taken[l[1]] \in Nat /\ breaks \in Nat
<1>1. Times(queue, l) \in Nat /\ Times(tree, l) \in Nat /\ Times(file, l) \in Nat
    BY TimesNat DEF Types, StoresOK
<1>2. IsFiniteSet(1 .. MaxBreaks) /\ Astray(l) \subseteq 1 .. MaxBreaks
    BY FS_Interval, ConstantsAssumption DEF Astray
<1>3. IsFiniteSet(Astray(l)) /\ Cardinality(Astray(l)) \in Nat
    BY <1>2, FS_Subset, FS_CardinalityType
<1>4. l[1] \in Servers /\ l[2] \in Nat \ {0}
    BY ConstantsAssumption DEF Lines
<1>5. breaks \in Nat /\ taken[l[1]] \in Nat
    BY <1>4, ConstantsAssumption DEF Types, StoresOK, MadeOK
<1> QED BY <1>1, <1>3, <1>4, <1>5

LEMMA AllIs ==
    ASSUME Types, Types', NEW l \in Lines
    PROVE  /\ All(l) = Times(queue, l) + (Times(tree, l) + Times(file, l)) + Cardinality(Astray(l)) + OnWire(l)
           /\ All(l)' = Times(queue', l) + (Times(tree', l) + Times(file', l)) + Cardinality(Astray(l)') + OnWire(l)'
           /\ Times(queue', l) \in Nat /\ Times(tree', l) \in Nat /\ Times(file', l) \in Nat
           /\ Cardinality(Astray(l)') \in Nat
           /\ OnWire(l) \in {0, 1} /\ OnWire(l)' \in {0, 1}
           /\ Allowed(l) \in Nat /\ Allowed(l)' \in Nat
<1>1. OnWire(l) \in {0, 1} /\ OnWire(l)' \in {0, 1}
    BY DEF OnWire
<1>2. /\ Times(queue, l) \in Nat /\ Times(tree, l) \in Nat /\ Times(file, l) \in Nat
      /\ Cardinality(Astray(l)) \in Nat
    BY Numbers
<1>4. /\ Times(queue', l) \in Nat /\ Times(tree', l) \in Nat /\ Times(file', l) \in Nat
      /\ Cardinality(Astray(l)') \in Nat
    <2>1. queue' \in Seq(Lines) /\ tree' \in Seq(Lines) /\ file' \in Seq(Lines)
        BY DEF Types, StoresOK
    <2>2. Times(queue', l) \in Nat /\ Times(tree', l) \in Nat /\ Times(file', l) \in Nat
        BY <2>1, TimesNat
    <2>3. IsFiniteSet(1 .. MaxBreaks) /\ Astray(l)' \subseteq 1 .. MaxBreaks
        BY FS_Interval, ConstantsAssumption DEF Astray
    <2>4. Cardinality(Astray(l)') \in Nat
        BY <2>3, FS_Subset, FS_CardinalityType
    <2> QED BY <2>2, <2>4
<1>5. breaks \in Nat /\ breaks' \in Nat
    BY ConstantsAssumption DEF Types, StoresOK
<1>6. Allowed(l) \in Nat /\ Allowed(l)' \in Nat
    <2>1. Allowed(l) \in {0, breaks, 1 + breaks} /\ Allowed(l)' \in {0, breaks', 1 + breaks'}
        BY DEF Allowed, Unsent, Held
    <2> QED BY <1>5, <2>1
<1>7. All(l) = Times(queue, l) + (Times(tree, l) + Times(file, l)) + Cardinality(Astray(l)) + OnWire(l)
    BY <1>1, <1>2 DEF All
<1>8. All(l)' = Times(queue', l) + (Times(tree', l) + Times(file', l)) + Cardinality(Astray(l)') + OnWire(l)'
    <2>1. All(l)' = Times(queue', l) + Times(tree', l) + Times(file', l) + Cardinality(Astray(l)') + OnWire(l)'
        BY DEF All
    <2> QED BY <1>1, <1>4, <2>1
<1> QED BY <1>1, <1>4, <1>6, <1>7, <1>8

LEMMA SameStores ==
    ASSUME Types, Types', NEW l \in Lines, UNCHANGED <<queue, tree, file>>,
           Cardinality(Astray(l)') + OnWire(l)' <= Cardinality(Astray(l)) + OnWire(l) + Allowed(l)' - Allowed(l),
           All(l) <= Allowed(l)
    PROVE  All(l)' <= Allowed(l)'
BY AllIs, Numbers

LEMMA AllowedSame ==
    ASSUME NEW l, UNCHANGED <<taken, breaks>>, Unsent(l)' <=> Unsent(l)
    PROVE  Allowed(l)' = Allowed(l)
BY DEF Allowed

(* The steps of a server and its log thread.                               *)
LEMMA CountedLenq ==
    ASSUME Types, Types', NEW s \in Servers, NEW l \in Lines, Lenq(s) \/ Connect(s), All(l) <= Allowed(l)
    PROVE  All(l)' <= Allowed(l)'
<1>1. UNCHANGED <<taken, holds, wire, strays, breaks, queue, tree, file>>
    BY DEF Lenq, Connect, logVars
<1>2. Astray(l)' = Astray(l) /\ OnWire(l)' = OnWire(l) /\ (Unsent(l)' <=> Unsent(l))
    BY <1>1 DEF Astray, OnWire, Unsent, Held
<1>3. Allowed(l)' = Allowed(l)
    BY <1>1, <1>2, AllowedSame
<1> QED BY <1>1, <1>2, <1>3, AllIs

LEMMA CountedLdeq ==
    ASSUME Types, Types', NEW s \in Servers, NEW l \in Lines, Ldeq(s), All(l) <= Allowed(l)
    PROVE  All(l)' <= Allowed(l)'
<1>1. /\ UNCHANGED <<wire, strays, breaks, queue, tree, file>> /\ ~holds[s] /\ wire[s] = "none"
      /\ taken'[s] = taken[s] + 1 /\ \A v \in Servers : v # s => taken'[v] = taken[v] /\ holds'[v] = holds[v]
    BY DEF Ldeq, logVars, Types, ThreadsOK, MadeOK
<1>2. l[1] \in Servers /\ l[2] \in Nat /\ taken[l[1]] \in Nat /\ breaks \in Nat
    BY Numbers
<1>3. Astray(l)' = Astray(l)
    BY <1>1 DEF Astray
<1>4. OnWire(l)' = OnWire(l)
    BY <1>1, <1>2 DEF OnWire, Held
<1>5. All(l)' = All(l) /\ All(l) \in Nat
    BY <1>1, <1>3, <1>4, AllIs, Numbers
<1>6. CASE l[1] # s
    <2>1. taken'[l[1]] = taken[l[1]] /\ holds'[l[1]] = holds[l[1]] /\ wire'[l[1]] = wire[l[1]] /\ breaks' = breaks
        BY <1>1, <1>2, <1>6
    <2>2. Allowed(l)' = Allowed(l)
        BY <2>1 DEF Allowed, Unsent, Held
    <2> QED BY <1>5, <2>2
<1>7. CASE l[1] = s /\ l[2] > taken[s]
    <2>1. All(l)' = 0
        BY <1>2, <1>5, <1>7 DEF Allowed
    <2> QED BY <2>1, AllIs
<1>8. CASE l[1] = s /\ l[2] <= taken[s]
    <2>1. ~Unsent(l) /\ l[2] <= taken'[s] /\ l[2] # taken'[s]
        BY <1>1, <1>2, <1>8 DEF Unsent
    <2>2. ~Unsent(l)' /\ ~(l[2] > taken'[s]) /\ ~(l[2] > taken[s])
        BY <1>1, <1>2, <1>8, <2>1 DEF Unsent, Held
    <2>3. Allowed(l)' = Allowed(l)
        BY <1>1, <1>8, <2>1, <2>2 DEF Allowed
    <2> QED BY <1>5, <2>3
<1> QED BY <1>2, <1>6, <1>7, <1>8

LEMMA CountedSend ==
    ASSUME Types, Types', NEW s \in Servers, NEW l \in Lines, Send(s), All(l) <= Allowed(l)
    PROVE  All(l)' <= Allowed(l)'
<1>1. /\ UNCHANGED <<taken, holds, strays, breaks, queue, tree, file>> /\ holds[s] /\ wire[s] = "none"
      /\ wire'[s] = "line" /\ \A v \in Servers : v # s => wire'[v] = wire[v]
    BY DEF Send, logVars, Types, ThreadsOK
<1>2. l[1] \in Servers /\ taken[l[1]] \in Nat /\ breaks \in Nat
    BY Numbers
<1>3. Astray(l)' = Astray(l)
    BY <1>1 DEF Astray
<1>4. CASE l = Held(s)
    <2>1. l[1] = s /\ l[2] = taken[s]
        BY <1>4 DEF Held
    <2>2. OnWire(l)' = 1 /\ OnWire(l) = 0
        BY <1>1, <1>4, <2>1 DEF OnWire, Held
    <2>3. Allowed(l) = breaks /\ Allowed(l)' = 1 + breaks
        BY <1>1, <1>2, <1>4, <2>1 DEF Allowed, Unsent, Held
    <2> QED BY <1>1, <1>2, <1>3, <2>2, <2>3, AllIs, Numbers
<1>5. CASE l # Held(s)
    <2>1. OnWire(l)' = OnWire(l) /\ (Unsent(l)' <=> Unsent(l))
        BY <1>1, <1>2, <1>5 DEF OnWire, Unsent, Held
    <2>2. Allowed(l)' = Allowed(l)
        BY <1>1, <2>1, AllowedSame
    <2> QED BY <1>1, <1>3, <2>1, <2>2, AllIs
<1> QED BY <1>4, <1>5

LEMMA CountedRecv ==
    ASSUME Types, Types', NEW s \in Servers, NEW l \in Lines, Recv(s), All(l) <= Allowed(l)
    PROVE  All(l)' <= Allowed(l)'
<1>1. /\ UNCHANGED <<taken, strays, breaks, queue, tree, file>> /\ wire[s] = "REC"
      /\ wire'[s] = "none" /\ ~holds'[s]
      /\ \A v \in Servers : v # s => wire'[v] = wire[v] /\ holds'[v] = holds[v]
    BY DEF Recv, logVars, Types, ThreadsOK
<1>2. l[1] \in Servers
    BY Numbers
<1>3. Astray(l)' = Astray(l) /\ OnWire(l)' = OnWire(l) /\ (Unsent(l)' <=> Unsent(l))
    BY <1>1, <1>2 DEF Astray, OnWire, Unsent, Held
<1>4. Allowed(l)' = Allowed(l)
    BY <1>1, <1>3, AllowedSame
<1> QED BY <1>1, <1>3, <1>4, AllIs

LEMMA CountedBreak ==
    ASSUME Types, Types', NEW s \in Servers, NEW l \in Lines, Break(s), All(l) <= Allowed(l)
    PROVE  All(l)' <= Allowed(l)'
<1>1. /\ UNCHANGED <<taken, holds, queue, tree, file>> /\ breaks' = breaks + 1
      /\ wire'[s] = "none" /\ \A v \in Servers : v # s => wire'[v] = wire[v]
    BY DEF Break, logVars, Types, ThreadsOK
<1>2. /\ l[1] \in Servers /\ taken[l[1]] \in Nat /\ breaks \in Nat /\ l[2] \in Nat
      /\ IsFiniteSet(Astray(l)) /\ Cardinality(Astray(l)) \in Nat
    BY Numbers
<1>3. Allowed(l) <= Allowed(l)'
    <2>1. Allowed(l) \in {0, breaks, breaks + 1} /\ (l[2] > taken[l[1]] => Allowed(l) = 0)
        BY <1>2 DEF Allowed, Unsent
    <2>2. Allowed(l)' \in {0, breaks + 1, breaks + 2} /\ (Allowed(l)' = 0 => l[2] > taken[l[1]])
        BY <1>1, <1>2 DEF Allowed, Unsent
    <2> QED BY <1>2, <2>1, <2>2
<1>4. Cardinality(Astray(l)') + OnWire(l)' <= Cardinality(Astray(l)) + OnWire(l)
    <2>1. OnWire(l)' <= OnWire(l) /\ (wire[s] = "line" /\ l = Held(s) => OnWire(l)' = 0 /\ OnWire(l) = 1)
        BY <1>1, <1>2 DEF OnWire, Held
    <2>2. OnWire(l)' \in {0, 1} /\ OnWire(l) \in {0, 1}
        BY DEF OnWire
    <2>3. CASE strays' = strays
        <3>1. Astray(l)' = Astray(l)
            BY <2>3 DEF Astray
        <3> QED BY <1>2, <2>1, <2>2, <3>1
    <2>4. CASE wire[s] = "line" /\ strays' = strays \cup {<<Held(s), breaks + 1>>} /\ l # Held(s)
        <3>1. Astray(l)' = Astray(l)
            BY <2>4 DEF Astray
        <3> QED BY <1>2, <2>1, <2>2, <3>1
    <2>5. CASE wire[s] = "line" /\ strays' = strays \cup {<<Held(s), breaks + 1>>} /\ l = Held(s)
        <3> DEFINE b == breaks + 1  A == Astray(l)
        <3>1. Astray(l)' \subseteq A \cup {b}
            BY <2>5 DEF Astray
        <3>2. IsFiniteSet(A) /\ Cardinality(A) \in Nat
            BY <1>2
        <3> HIDE DEF b, A
        <3>3. IsFiniteSet(A \cup {b}) /\ Cardinality(A \cup {b}) <= Cardinality(A) + 1
            <4>1. Cardinality(A \cup {b}) = IF b \in A THEN Cardinality(A) ELSE Cardinality(A) + 1
                BY <3>2, FS_AddElement
            <4> QED BY <3>2, <4>1, FS_AddElement
        <3>4. Cardinality(Astray(l)') <= Cardinality(A \cup {b}) /\ Cardinality(A \cup {b}) \in Nat
              /\ Cardinality(Astray(l)') \in Nat
            BY <3>1, <3>3, FS_Subset, FS_CardinalityType
        <3>5. Cardinality(Astray(l)') <= Cardinality(A) + 1
            BY <3>2, <3>3, <3>4
        <3> QED BY <1>2, <2>1, <2>5, <3>4, <3>5 DEF A
    <2> QED BY <2>3, <2>4, <2>5 DEF Break
<1> QED BY <1>1, <1>2, <1>3, <1>4, AllIs, Numbers

(* The steps of the log server.                                            *)
LEMMA CountedReceive ==
    ASSUME Types, Types', NEW s \in Servers, NEW l \in Lines, Receive(s), All(l) <= Allowed(l)
    PROVE  All(l)' <= Allowed(l)'
<1>1. /\ Held(s) \in Lines /\ holds[s] /\ Arrives(Held(s)) /\ strays' = strays /\ wire[s] = "line"
      /\ wire' = [wire EXCEPT ![s] = "REC"]
    BY ReceiveArrives DEF Types
<1>2. /\ UNCHANGED <<taken, holds, strays, breaks, tree, file>> /\ queue' = Append(queue, Held(s))
      /\ wire'[s] = "REC" /\ \A v \in Servers : v # s => wire'[v] = wire[v]
    BY <1>1 DEF Arrives, logVars, Types, ThreadsOK
<1>3. l[1] \in Servers /\ queue \in Seq(Lines)
    BY Numbers DEF Types, StoresOK
<1>4. Astray(l)' = Astray(l) /\ (Unsent(l)' <=> Unsent(l))
    BY <1>1, <1>2, <1>3 DEF Astray, Unsent, Held
<1>5. Allowed(l)' = Allowed(l)
    BY <1>2, <1>4, AllowedSame
<1>6. Times(queue', l) = Times(queue, l) + Once(Held(s), l)
    <2> DEFINE h == Held(s)
    <2>1. h \in Lines /\ queue' = Append(queue, h)
        BY <1>1, <1>2
    <2> HIDE DEF h
    <2>2. Times(Append(queue, h), l) = Times(queue, l) + Once(h, l)
        BY <1>3, <2>1, TimesAppend
    <2> QED BY <2>1, <2>2 DEF h
<1>7. OnWire(l)' = OnWire(l) - Once(Held(s), l)
    <2>1. CASE l = Held(s)
        <3>1. l[1] = s
            BY <2>1 DEF Held
        <3> QED BY <1>1, <1>2, <2>1, <3>1 DEF OnWire, Once
    <2>2. CASE l # Held(s)
        <3>1. OnWire(l)' = OnWire(l) /\ Once(Held(s), l) = 0 /\ OnWire(l) \in {0, 1}
            BY <1>2, <1>3, <2>2 DEF OnWire, Once, Held
        <3> QED BY <3>1
    <2> QED BY <2>1, <2>2
<1>8. Once(Held(s), l) \in {0, 1}
    BY DEF Once
<1>9. All(l)' = All(l)
    <2> DEFINE q == Times(queue, l)  r == Times(tree, l) + Times(file, l)  k == Cardinality(Astray(l))
               o == Once(Held(s), l)
    <2>1. q \in Nat /\ r \in Nat /\ k \in Nat /\ o \in {0, 1} /\ OnWire(l) \in {0, 1}
        BY <1>8, AllIs, Numbers
    <2>2. All(l) = q + r + k + OnWire(l) /\ All(l)' = q + o + r + k + (OnWire(l) - o)
        BY <1>2, <1>4, <1>6, <1>7, AllIs
    <2> HIDE DEF q, r, k, o
    <2> QED BY <2>1, <2>2
<1> QED BY <1>5, <1>9

LEMMA CountedStray ==
    ASSUME Types, Types', NEW l \in Lines, ReceiveStray, All(l) <= Allowed(l)
    PROVE  All(l)' <= Allowed(l)'
<1>1. PICK k \in Lines, b \in 1 .. MaxBreaks :
          <<k, b>> \in strays /\ Arrives(k) /\ strays' = strays \ {<<k, b>>} /\ UNCHANGED <<wire, up>>
    BY StrayArrives DEF Types
<1>2. /\ UNCHANGED <<taken, holds, wire, breaks, tree, file>> /\ queue' = Append(queue, k)
      /\ queue \in Seq(Lines)
    BY <1>1 DEF Arrives, logVars, Types, StoresOK
<1>3. OnWire(l)' = OnWire(l) /\ (Unsent(l)' <=> Unsent(l))
    BY <1>2 DEF OnWire, Unsent, Held
<1>4. Allowed(l)' = Allowed(l)
    BY <1>2, <1>3, AllowedSame
<1>5. Times(queue', l) = Times(queue, l) + Once(k, l)
    BY <1>1, <1>2, TimesAppend
<1>6. Cardinality(Astray(l)') = Cardinality(Astray(l)) - Once(k, l)
    <2>1. CASE k = l
        <3> DEFINE A == Astray(l)
        <3>1. Astray(l)' = A \ {b} /\ b \in A /\ IsFiniteSet(A) /\ Cardinality(A) \in Nat
            BY <1>1, <2>1, Numbers DEF Astray
        <3> HIDE DEF A
        <3>2. Cardinality(A \ {b}) = Cardinality(A) - 1
            BY <3>1, FS_RemoveElement
        <3> QED BY <2>1, <3>1, <3>2 DEF A, Once
    <2>2. CASE k # l
        <3>1. Astray(l)' = Astray(l)
            BY <1>1, <2>2 DEF Astray
        <3> QED BY <2>2, <3>1, Numbers DEF Once
    <2> QED BY <2>1, <2>2
<1>7. Once(k, l) \in {0, 1}
    BY DEF Once
<1>8. /\ Times(queue, l) \in Nat /\ Times(tree, l) \in Nat /\ Times(file, l) \in Nat
      /\ Cardinality(Astray(l)) \in Nat /\ OnWire(l) \in {0, 1} /\ Allowed(l) \in Nat
    BY Numbers, AllIs
<1>9. /\ All(l) = Times(queue, l) + (Times(tree, l) + Times(file, l)) + Cardinality(Astray(l)) + OnWire(l)
      /\ All(l)' = Times(queue', l) + (Times(tree, l) + Times(file, l)) + Cardinality(Astray(l)') + OnWire(l)
    BY <1>2, <1>3, AllIs
<1>10. All(l)' = All(l)
    BY <1>5, <1>6, <1>7, <1>8, <1>9
<1> QED BY <1>4, <1>10

LEMMA CountedPostpone ==
    ASSUME Types, Types', NEW l \in Lines, Postpone, All(l) <= Allowed(l)
    PROVE  All(l)' <= Allowed(l)'
<1>1. /\ Head(queue) \in Lines /\ Tail(queue) \in Seq(Lines) /\ queue \in Seq(Lines) /\ queue # <<>>
      /\ queue' = Append(Tail(queue), Head(queue)) /\ UNCHANGED sendVars /\ UNCHANGED logVars
    BY PostponeParts DEF Types
<1>2. Astray(l)' = Astray(l) /\ OnWire(l)' = OnWire(l) /\ (Unsent(l)' <=> Unsent(l))
    BY <1>1 DEF Astray, OnWire, Unsent, Held, sendVars
<1>3. Allowed(l)' = Allowed(l)
    BY <1>1, <1>2, AllowedSame DEF sendVars
<1>4. Times(queue', l) = Times(queue, l)
    <2> DEFINE h == Head(queue)  t == Tail(queue)
    <2>1. Times(queue, l) = Once(h, l) + Times(t, l)
        BY <1>1, TimesTail
    <2>2. h \in Lines /\ t \in Seq(Lines) /\ queue' = Append(t, h)
        BY <1>1
    <2> HIDE DEF h, t
    <2>3. Times(Append(t, h), l) = Times(t, l) + Once(h, l) /\ Times(t, l) \in Nat
        BY <2>2, TimesAppend, TimesNat
    <2>4. Once(h, l) \in {0, 1}
        BY DEF Once
    <2> QED BY <2>1, <2>2, <2>3, <2>4
<1> QED BY <1>1, <1>2, <1>3, <1>4, AllIs DEF logVars

LEMMA CountedTakes ==
    ASSUME Types, Types', NEW l \in Lines, NEW lines \in Seq(Lines), Takes(lines), All(l) <= Allowed(l)
    PROVE  All(l)' <= Allowed(l)'
<1>1. /\ queue \in Seq(Lines) /\ queue # <<>> /\ queue' = Tail(queue) /\ tree \in Seq(Lines) /\ file \in Seq(Lines)
      /\ UNCHANGED sendVars /\ Moves(lines)
    BY DEF Types, StoresOK, Takes
<1>2. Astray(l)' = Astray(l) /\ OnWire(l)' = OnWire(l) /\ (Unsent(l)' <=> Unsent(l))
    BY <1>1 DEF Astray, OnWire, Unsent, Held, sendVars
<1>3. Allowed(l)' = Allowed(l)
    BY <1>1, <1>2, AllowedSame DEF sendVars
<1> DEFINE h == Head(queue)
<1>4. h \in Lines /\ Times(queue, l) = Once(h, l) + Times(queue', l)
    BY <1>1, TimesTail, SetTail
<1>5. lines = tree \/ lines = Append(tree, h)
    BY DEF Takes
<1>6. Times(tree', l) + Times(file', l) <= Times(lines, l) + Times(file, l)
    BY <1>1, MovesKeep
<1> HIDE DEF h
<1>7. Times(tree, l) \in Nat /\ Times(file, l) \in Nat /\ Times(queue, l) \in Nat /\ Once(h, l) \in {0, 1}
    BY Numbers DEF Once
<1>8. Times(Append(tree, h), l) = Times(tree, l) + Once(h, l)
    BY <1>1, <1>4, TimesAppend
<1>9. Times(lines, l) <= Times(tree, l) + Once(h, l) /\ Times(lines, l) \in Nat
    <2>1. Times(lines, l) = Times(tree, l) \/ Times(lines, l) = Times(tree, l) + Once(h, l)
        BY <1>5, <1>8
    <2> QED BY <1>7, <2>1
<1>10. /\ Times(queue', l) \in Nat /\ Times(tree', l) \in Nat /\ Times(file', l) \in Nat
       /\ Cardinality(Astray(l)) \in Nat /\ OnWire(l) \in {0, 1} /\ Allowed(l) \in Nat
    BY Numbers, AllIs
<1>11. Times(queue', l) + (Times(tree', l) + Times(file', l)) <= Times(queue, l) + (Times(tree, l) + Times(file, l))
    <2> DEFINE q == Times(queue, l)  t == Times(tree, l)  f == Times(file, l)  o == Once(h, l)
               q1 == Times(queue', l)  t1 == Times(tree', l)  f1 == Times(file', l)  n == Times(lines, l)
    <2>1. /\ q \in Nat /\ t \in Nat /\ f \in Nat /\ o \in Nat /\ q1 \in Nat /\ t1 \in Nat /\ f1 \in Nat
          /\ n \in Nat /\ q = o + q1 /\ t1 + f1 <= n + f /\ n <= t + o
        BY <1>4, <1>6, <1>7, <1>9, <1>10
    <2> HIDE DEF q, t, f, o, q1, t1, f1, n
    <2>2. q1 + (t1 + f1) <= q + (t + f)
        BY <2>1
    <2> QED BY <2>2 DEF q, t, f, q1, t1, f1
<1>12. /\ All(l) = Times(queue, l) + (Times(tree, l) + Times(file, l)) + Cardinality(Astray(l)) + OnWire(l)
       /\ All(l)' = Times(queue', l) + (Times(tree', l) + Times(file', l)) + Cardinality(Astray(l)) + OnWire(l)
    BY <1>2, AllIs
<1>13. All(l)' <= All(l) /\ All(l) \in Nat /\ All(l)' \in Nat
    <2> DEFINE a == Times(queue, l) + (Times(tree, l) + Times(file, l))
               b == Times(queue', l) + (Times(tree', l) + Times(file', l))
    <2>1. a \in Nat /\ b \in Nat /\ b <= a
        BY <1>7, <1>10, <1>11
    <2>2. All(l) = a + Cardinality(Astray(l)) + OnWire(l) /\ All(l)' = b + Cardinality(Astray(l)) + OnWire(l)
        BY <1>12
    <2> HIDE DEF a, b
    <2> QED BY <1>10, <2>1, <2>2
<1> QED BY <1>3, <1>10, <1>13

LEMMA CountedKept ==
    ASSUME Types, Counted, Next
    PROVE  Counted'
<1>1. Types' /\ StoresOK
    BY TypesKept DEF Types
<1> SUFFICES ASSUME NEW l \in Lines PROVE All(l)' <= Allowed(l)'
    BY DEF Counted
<1>2. All(l) <= Allowed(l)
    BY DEF Counted
<1>3. ASSUME NEW s \in Servers, Away(s) PROVE All(l)' <= Allowed(l)'
    BY <1>1, <1>2, <1>3, CountedLenq, CountedLdeq, CountedSend, CountedRecv, CountedBreak DEF Away
<1>4. ASSUME NEW s \in Servers, Receive(s) PROVE All(l)' <= Allowed(l)'
    BY <1>1, <1>2, <1>4, CountedReceive
<1>5. ASSUME ReceiveStray PROVE All(l)' <= Allowed(l)'
    BY <1>1, <1>2, <1>5, CountedStray
<1>6. ASSUME Quiet PROVE All(l)' <= Allowed(l)'
    <2>1. Elsewhere /\ UNCHANGED sendVars
        BY <1>6, QuietElsewhere
    <2>2. Astray(l)' = Astray(l) /\ OnWire(l)' = OnWire(l) /\ (Unsent(l)' <=> Unsent(l))
        BY <2>1 DEF Astray, OnWire, Unsent, Held, sendVars
    <2>3. Allowed(l)' = Allowed(l)
        BY <2>1, <2>2, AllowedSame DEF sendVars
    <2> QED BY <1>1, <1>2, <2>1, <2>2, <2>3, AllIs DEF Elsewhere
<1>7. ASSUME Postpone PROVE All(l)' <= Allowed(l)'
    BY <1>1, <1>2, <1>7, CountedPostpone
<1>8. ASSUME LogStep, ~Postpone PROVE All(l)' <= Allowed(l)'
    BY <1>1, <1>2, <1>8, LogStepTakes, CountedTakes
<1> QED BY <1>3, <1>4, <1>5, <1>6, <1>7, <1>8 DEF Next, Away

-----------------------------------------------------------------------------
(* Everything is in order until a connection breaks.                       *)
LEMMA QueueKindKept ==
    ASSUME Types, Next, NEW l \in ToSet(queue)
    PROVE  l \in Lines /\ made'[l[1]][l[2]] = made[l[1]][l[2]]
<1>1. l \in Underway
    BY DEF Underway, There
<1>2. l \in Lines /\ l[2] <= taken[l[1]] /\ MadeOK
    BY <1>1, LinesUnderway DEF Types, AllTaken
<1> QED BY <1>2, KindKept

LEMMA ElsewhereOrdered ==
    ASSUME Types, Ordered, Next, Elsewhere, strays' = strays, HandedOver'
    PROVE  Ordered'
<1>1. UNCHANGED <<queue, file, tree>>
    BY DEF Elsewhere
<1>2. QueuedLines' = QueuedLines
    BY <1>1, QueueKindKept DEF QueuedLines, Kind
<1>3. \A i \in DOMAIN queue : queue[i] \in ToSet(queue)
    BY DEF ToSet
<1>4. RisingQueue'
    BY <1>1, <1>3, QueueKindKept DEF Ordered, RisingQueue, Kind
<1> QED BY <1>1, <1>2, <1>4 DEF Ordered

LEMMA AwayHandedOver ==
    ASSUME Types, HandedOver, NEW s \in Servers, Away(s), ~Break(s)
    PROVE  HandedOver'
<1>1. UNCHANGED <<queue, file, tree>>
    BY AwayElsewhere DEF Elsewhere
<1> SUFFICES ASSUME NEW l \in ToSet(queue) \cup ToSet(file) \cup ToSet(tree), ToHandOver(l[1])'
             PROVE  l[2] < taken'[l[1]]
    BY <1>1 DEF HandedOver
<1>2. l \in Underway /\ l \in Lines
    <2>1. l \in Underway
        BY DEF Underway, There, Logged
    <2> QED BY <2>1, LinesUnderway DEF Types
<1>3. l[1] \in Servers /\ l[2] \in Nat /\ taken[l[1]] \in Nat /\ l[2] <= taken[l[1]]
    BY <1>2, Numbers DEF Types, AllTaken
<1>4. ToHandOver(l[1]) => l[2] < taken[l[1]]
    BY DEF HandedOver
<1>5. CASE Lenq(s) \/ Connect(s)
    BY <1>4, <1>5 DEF Lenq, Connect, ToHandOver
<1>6. CASE Ldeq(s)
    <2>1. taken'[s] = taken[s] + 1 /\ \A v \in Servers : v # s => taken'[v] = taken[v] /\ holds'[v] = holds[v]
        BY <1>6 DEF Ldeq, Types, MadeOK, ThreadsOK
    <2>2. wire' = wire
        BY <1>6 DEF Ldeq
    <2> QED BY <1>3, <1>4, <2>1, <2>2 DEF ToHandOver
<1>7. CASE Send(s)
    <2>1. UNCHANGED <<taken, holds>> /\ wire[s] = "none" /\ \A v \in Servers : v # s => wire'[v] = wire[v]
        BY <1>7 DEF Send, Types, ThreadsOK
    <2> QED BY <1>3, <1>4, <2>1 DEF ToHandOver
<1>8. CASE Recv(s)
    <2>1. /\ taken' = taken /\ ~holds'[s]
          /\ \A v \in Servers : v # s => wire'[v] = wire[v] /\ holds'[v] = holds[v]
        BY <1>8 DEF Recv, Types, ThreadsOK
    <2> QED BY <1>3, <1>4, <2>1 DEF ToHandOver
<1> QED BY <1>5, <1>6, <1>7, <1>8 DEF Away

LEMMA ReceiveOrdered ==
    ASSUME Types, Ordered, Next, NEW s \in Servers, Receive(s)
    PROVE  Ordered'
<1>1. /\ Held(s) \in Lines /\ holds[s] /\ Arrives(Held(s)) /\ strays' = strays /\ wire[s] = "line"
      /\ wire' = [wire EXCEPT ![s] = "REC"]
    BY ReceiveArrives DEF Types
<1>2. PICK h \in Lines : h = Held(s) /\ h[1] = s /\ h[2] = taken[s]
    BY <1>1, HeldLine DEF Types
<1>3. /\ UNCHANGED <<made, taken, holds, tree, file>> /\ queue' = Append(queue, h) /\ queue \in Seq(Lines)
      /\ wire'[s] = "REC" /\ \A v \in Servers : v # s => wire'[v] = wire[v]
    BY <1>1, <1>2 DEF Arrives, logVars, Types, ThreadsOK, StoresOK
<1>4. ToSet(queue') = ToSet(queue) \cup {h}
    BY <1>1, <1>2, ArriveParts DEF Types
<1>5. ToHandOver(s) /\ ~ToHandOver(s)'
    BY <1>1, <1>3 DEF ToHandOver
<1>6. \A l \in ToSet(queue) \cup ToSet(file) \cup ToSet(tree) : Less(l, h)
    BY <1>2, <1>5 DEF Ordered, HandedOver, Less
<1>7. QueuedLines' \subseteq QueuedLines \cup {h}
    BY <1>3, <1>4 DEF QueuedLines, Kind
<1>8. Below(ToSet(file') \cup ToSet(tree'), QueuedLines')
    BY <1>3, <1>6, <1>7 DEF Ordered, Below
<1>9. RisingQueue'
    <2>1. PICK k \in Nat : k = Len(queue) + 1
        BY <1>3
    <2>2. /\ DOMAIN queue' = 1 .. k /\ queue'[k] = h /\ DOMAIN queue = 1 .. k - 1
          /\ \A i \in 1 .. k - 1 : queue'[i] = queue[i]
        BY <1>3, <2>1
    <2>3. SUFFICES ASSUME NEW i \in 1 .. k, NEW j \in 1 .. k, i < j,
                          made'[queue'[i][1]][queue'[i][2]] = "line", made'[queue'[j][1]][queue'[j][2]] = "line"
                   PROVE  Less(queue'[i], queue'[j])
        BY <2>2 DEF RisingQueue, Kind
    <2>4. i \in 1 .. k - 1
        BY <2>1, <2>3
    <2>5. CASE j = k
        BY <1>6, <2>2, <2>4, <2>5 DEF ToSet
    <2>6. CASE j # k
        <3>1. j \in 1 .. k - 1
            BY <2>1, <2>6
        <3>2. queue'[i] = queue[i] /\ queue'[j] = queue[j] /\ i \in DOMAIN queue /\ j \in DOMAIN queue
            BY <2>2, <2>4, <3>1
        <3>3. Kind(queue[i]) = "line" /\ Kind(queue[j]) = "line"
            BY <1>3, <2>3, <3>2 DEF Kind
        <3> QED BY <2>3, <3>2, <3>3 DEF Ordered, RisingQueue
    <2> QED BY <2>5, <2>6
<1>10. HandedOver'
    <2>1. SUFFICES ASSUME NEW l \in ToSet(queue) \cup ToSet(file) \cup ToSet(tree) \cup {h}, ToHandOver(l[1])'
                   PROVE  l[2] < taken'[l[1]]
        BY <1>3, <1>4 DEF HandedOver
    <2>2. l[1] # s
        BY <1>5, <2>1
    <2>3. l \in ToSet(queue) \cup ToSet(file) \cup ToSet(tree)
        BY <1>2, <2>2
    <2>4. l \in Lines
        BY <2>3, LinesUnderway DEF Types, Underway, There, Logged
    <2>5. ToHandOver(l[1])
        BY <1>3, <2>1, <2>2, <2>4, Numbers DEF ToHandOver
    <2> QED BY <1>3, <2>3, <2>5 DEF Ordered, HandedOver
<1>11. strays' = {} /\ Rising(file') /\ Rising(tree') /\ Below(ToSet(file'), ToSet(tree'))
    BY <1>1, <1>3 DEF Ordered
<1> QED BY <1>8, <1>9, <1>10, <1>11 DEF Ordered

LEMMA PostponeOrdered ==
    ASSUME Types, Ordered, Next, Postpone
    PROVE  Ordered'
<1>1. /\ queue \in Seq(Lines) /\ queue # <<>> /\ Kind(Head(queue)) # "line"
      /\ queue' = Append(Tail(queue), Head(queue)) /\ ToSet(queue') = ToSet(queue)
      /\ UNCHANGED sendVars /\ UNCHANGED logVars
    BY PostponeParts DEF Types
<1>2. UNCHANGED <<made, taken, holds, wire, strays, file, tree>>
    BY <1>1 DEF sendVars, logVars
<1>3. QueuedLines' = QueuedLines
    BY <1>1, <1>2 DEF QueuedLines, Kind
<1>4. RisingQueue'
    <2>1. PICK k \in Nat : k = Len(queue)
        BY <1>1
    <2>2. /\ DOMAIN queue' = 1 .. k /\ queue'[k] = Head(queue) /\ DOMAIN queue = 1 .. k
          /\ \A i \in 1 .. k - 1 : queue'[i] = queue[i + 1]
        BY <1>1, <2>1
    <2>3. SUFFICES ASSUME NEW i \in 1 .. k, NEW j \in 1 .. k, i < j,
                          made'[queue'[i][1]][queue'[i][2]] = "line", made'[queue'[j][1]][queue'[j][2]] = "line"
                   PROVE  Less(queue'[i], queue'[j])
        BY <2>2 DEF RisingQueue, Kind
    <2>4. j # k
        BY <1>1, <1>2, <2>2, <2>3 DEF Kind
    <2>5. i \in 1 .. k - 1 /\ j \in 1 .. k - 1 /\ i + 1 \in DOMAIN queue /\ j + 1 \in DOMAIN queue /\ i + 1 < j + 1
        BY <2>1, <2>2, <2>3, <2>4
    <2>6. queue'[i] = queue[i + 1] /\ queue'[j] = queue[j + 1]
        BY <2>2, <2>5
    <2>7. Kind(queue[i + 1]) = "line" /\ Kind(queue[j + 1]) = "line"
        BY <1>2, <2>3, <2>6 DEF Kind
    <2> QED BY <2>5, <2>6, <2>7 DEF Ordered, RisingQueue
<1>5. HandedOver'
    BY <1>1, <1>2 DEF Ordered, HandedOver, ToHandOver
<1> QED BY <1>2, <1>3, <1>4, <1>5 DEF Ordered

LEMMA TakesOrdered ==
    ASSUME Types, Ordered, Next, NEW lines \in Seq(Lines), Takes(lines)
    PROVE  Ordered'
<1>1. /\ queue \in Seq(Lines) /\ queue # <<>> /\ queue' = Tail(queue) /\ tree \in Seq(Lines) /\ file \in Seq(Lines)
      /\ UNCHANGED sendVars /\ Moves(lines) /\ StoresOK
    BY DEF Types, StoresOK, Takes
<1>2. UNCHANGED <<made, taken, holds, wire, strays>>
    BY <1>1 DEF sendVars
<1>3. PICK h \in Lines : h = Head(queue)
    BY <1>1, TakesParts
<1>4. /\ ToSet(queue) = {h} \cup ToSet(queue')
      /\ DOMAIN queue' = 1 .. Len(queue) - 1 /\ DOMAIN queue = 1 .. Len(queue) /\ Len(queue) \in Nat
      /\ queue[1] = h /\ 1 \in DOMAIN queue
      /\ \A i \in DOMAIN queue' : i + 1 \in DOMAIN queue /\ queue'[i] = queue[i + 1]
    BY <1>1, <1>3, SetTail
<1>5. QueuedLines' \subseteq QueuedLines
    BY <1>2, <1>4 DEF QueuedLines, Kind
<1>6. Kind(h) = "line" => h \in QueuedLines /\ \A l \in QueuedLines' : Less(h, l)
    <2>1. SUFFICES ASSUME Kind(h) = "line", NEW i \in DOMAIN queue', made'[queue'[i][1]][queue'[i][2]] = "line"
                   PROVE  h \in QueuedLines /\ Less(h, queue'[i])
        BY <1>4 DEF QueuedLines, Kind, ToSet
    <2>2. h \in QueuedLines
        BY <1>4, <2>1 DEF QueuedLines
    <2>3. i + 1 \in DOMAIN queue /\ 1 < i + 1 /\ queue'[i] = queue[i + 1]
        BY <1>4
    <2>4. Kind(queue[i + 1]) = "line"
        BY <1>2, <2>1, <2>3 DEF Kind
    <2> QED BY <1>4, <2>1, <2>2, <2>3, <2>4 DEF Ordered, RisingQueue
<1>7. /\ Rising(lines) /\ Below(ToSet(file), ToSet(lines))
      /\ Below(ToSet(lines) \cup ToSet(file), QueuedLines')
      /\ ToSet(lines) \subseteq ToSet(tree) \cup {h}
    <2>1. CASE Kind(h) = "line" /\ lines = Append(tree, h)
        <3>1. ToSet(lines) = ToSet(tree) \cup {h}
            BY <1>1, <2>1, SetAppend
        <3>2. Below(ToSet(file) \cup ToSet(tree), {h})
            BY <1>6, <2>1 DEF Ordered, Below
        <3>3. Below(ToSet(tree), {h})
            BY <3>2 DEF Below
        <3>4. Rising(lines)
            BY <1>1, <2>1, <3>3, RisingAppend DEF Ordered
        <3>5. Below(ToSet(file), ToSet(lines))
            BY <3>1, <3>2 DEF Ordered, Below
        <3>6. Below(ToSet(lines) \cup ToSet(file), QueuedLines')
            BY <1>5, <1>6, <2>1, <3>1 DEF Ordered, Below
        <3> QED BY <3>1, <3>4, <3>5, <3>6
    <2>2. CASE lines = tree
        BY <1>5, <2>2 DEF Ordered, Below
    <2> QED BY <1>3, <2>1, <2>2 DEF Takes
<1>8. /\ ToSet(tree') \cup ToSet(file') \subseteq ToSet(lines) \cup ToSet(file)
      /\ Rising(file') /\ Rising(tree') /\ Below(ToSet(file'), ToSet(tree'))
    BY <1>1, <1>7, MovesKeep DEF Ordered
<1>9. Below(ToSet(file') \cup ToSet(tree'), QueuedLines')
    BY <1>7, <1>8 DEF Below
<1>10. RisingQueue'
    <2>1. SUFFICES ASSUME NEW i \in DOMAIN queue', NEW j \in DOMAIN queue', i < j,
                          made'[queue'[i][1]][queue'[i][2]] = "line", made'[queue'[j][1]][queue'[j][2]] = "line"
                   PROVE  Less(queue'[i], queue'[j])
        BY DEF RisingQueue, Kind
    <2>2. /\ i + 1 \in DOMAIN queue /\ j + 1 \in DOMAIN queue /\ i + 1 < j + 1
          /\ queue'[i] = queue[i + 1] /\ queue'[j] = queue[j + 1]
        BY <1>4, <2>1
    <2>3. Kind(queue[i + 1]) = "line" /\ Kind(queue[j + 1]) = "line"
        BY <1>2, <2>1, <2>2 DEF Kind
    <2> QED BY <2>2, <2>3 DEF Ordered, RisingQueue
<1>11. ToSet(queue') \cup ToSet(file') \cup ToSet(tree') \subseteq ToSet(queue) \cup ToSet(file) \cup ToSet(tree)
    BY <1>4, <1>7, <1>8
<1>12. HandedOver'
    BY <1>2, <1>11 DEF Ordered, HandedOver, ToHandOver
<1>13. strays' = {}
    BY <1>2 DEF Ordered
<1> QED BY <1>8, <1>9, <1>10, <1>12, <1>13 DEF Ordered

LEMMA InOrderKept ==
    ASSUME Types, InOrderSoFar, Next
    PROVE  InOrderSoFar'
<1>1. SUFFICES ASSUME breaks' = 0 PROVE Ordered'
    BY DEF InOrderSoFar
<1>2. breaks \in Nat /\ StoresOK
    BY ConstantsAssumption DEF Types, StoresOK
<1>3. \A s \in Servers : ~Break(s)
    BY <1>1, <1>2 DEF Break
<1>4. breaks = 0
    BY <1>1, <1>3 DEF Next, Lenq, Ldeq, Connect, Send, Recv, Receive, ReceiveStray, Quiet, LogStep,
                      Record, Postpone, Dump, DumpElsewhere, sendVars
<1>5. Ordered
    BY <1>4 DEF InOrderSoFar
<1>6. ASSUME NEW s \in Servers, Away(s) PROVE Ordered'
    <2>1. Elsewhere /\ strays' = strays
        BY <1>3, <1>6, AwayElsewhere DEF Away, Lenq, Ldeq, Connect, Send, Recv
    <2>2. HandedOver'
        BY <1>3, <1>5, <1>6, AwayHandedOver DEF Ordered
    <2> QED BY <1>5, <2>1, <2>2, ElsewhereOrdered
<1>7. ASSUME NEW s \in Servers, Receive(s) PROVE Ordered'
    BY <1>5, <1>7, ReceiveOrdered
<1>8. ~ReceiveStray
    BY <1>5 DEF Ordered, ReceiveStray
<1>9. ASSUME Quiet PROVE Ordered'
    <2>1. Elsewhere /\ UNCHANGED <<strays, taken, holds, wire>>
        BY <1>9, QuietElsewhere DEF sendVars
    <2>2. HandedOver'
        BY <1>5, <2>1 DEF Ordered, HandedOver, ToHandOver, Elsewhere
    <2> QED BY <1>5, <2>1, <2>2, ElsewhereOrdered
<1>10. ASSUME Postpone PROVE Ordered'
    BY <1>5, <1>10, PostponeOrdered
<1>11. ASSUME LogStep, ~Postpone PROVE Ordered'
    BY <1>2, <1>5, <1>11, LogStepTakes, TakesOrdered
<1> QED BY <1>6, <1>7, <1>8, <1>9, <1>10, <1>11 DEF Next, Away

-----------------------------------------------------------------------------
(* The theorems.                                                           *)
LEMMA StutterKeeps == IInv /\ UNCHANGED vars => IInv'
<1> SUFFICES ASSUME IInv, UNCHANGED vars PROVE IInv'
    OBVIOUS
<1>1. UNCHANGED <<made, taken, holds, up, wire, strays, breaks, queue, recent, tree, count, file, cut, dumped, skipped>>
    BY DEF vars, sendVars, logVars
<1>2. Types'
    BY <1>1 DEF IInv, Types, MadeOK, ThreadsOK, StoresOK, AllTaken, KindsOK, Underway, There,
                Logged, Done, Kind
<1>3. AllThere'
    BY <1>1 DEF IInv, AllThere, Received, Sent, There, Logged, Done
<1>4. QueueFollows' /\ DumpsFollow'
    BY <1>1 DEF IInv, QueueFollows, DumpsFollow, Ahead, Logged
<1>5. Counted'
    BY <1>1 DEF IInv, Counted, All, Allowed, Astray, OnWire, Unsent, Held
<1>6. InOrderSoFar'
    BY <1>1 DEF IInv, InOrderSoFar, Ordered, RisingQueue, QueuedLines, HandedOver, ToHandOver, Kind
<1> QED BY <1>2, <1>3, <1>4, <1>5, <1>6 DEF IInv

LEMMA InvariantHolds == Spec => []IInv
<1>1. IInv /\ [Next]_vars => IInv'
    <2> SUFFICES ASSUME IInv, [Next]_vars PROVE IInv'
        OBVIOUS
    <2>1. CASE Next
        BY <2>1, TypesKept, AllThereKept, QueueFollowsKept, DumpsFollowKept, CountedKept,
           InOrderKept DEF IInv
    <2>2. CASE UNCHANGED vars
        BY <2>2, StutterKeeps
    <2> QED BY <2>1, <2>2
<1> QED BY InitIInv, <1>1, PTL DEF Spec

LEMMA CopiesAre ==
    ASSUME Types, NEW l
    PROVE  Copies(l) = Times(queue, l) + Times(tree, l) + Times(file, l)
<1>1. queue \in Seq(Lines) /\ tree \in Seq(Lines) /\ file \in Seq(Lines)
    BY DEF Types, StoresOK
<1> DEFINE qt == queue \o tree
<1>2. qt \in Seq(Lines)
    BY <1>1
<1>3. Times(qt, l) = Times(queue, l) + Times(tree, l)
    BY <1>1, TimesConcat
<1>4. Kept = qt \o file
    BY DEF Kept
<1> HIDE DEF qt
<1>5. Times(qt \o file, l) = Times(qt, l) + Times(file, l)
    BY <1>1, <1>2, TimesConcat
<1> QED BY <1>3, <1>4, <1>5 DEF Copies, Times, Occurs

(* A line that the log thread of a server has freed is at the log server,  *)
(* whatever connections have broken: in the queue, in the tree, in the     *)
(* file, done as a DUMPLOG, or cut off where outStr was too small.         *)
THEOREM NothingIsLost == Spec => []NothingLost
<1>1. IInv => NothingLost
    <2> SUFFICES ASSUME IInv, NEW s \in Servers, NEW n \in Sent(s)
                 PROVE  Copies(<<s, n>>) > 0 \/ <<s, n>> \in dumped \cup skipped \cup cut
        BY DEF NothingLost
    <2>1. <<s, n>> \in There
        BY DEF IInv, AllThere, Received
    <2>2. queue \in Seq(Lines) /\ tree \in Seq(Lines) /\ file \in Seq(Lines) /\ Types
        BY DEF IInv, Types, StoresOK
    <2> DEFINE l == <<s, n>>
    <2>3. Times(queue, l) \in Nat /\ Times(tree, l) \in Nat /\ Times(file, l) \in Nat
        BY <2>2, TimesNat
    <2>4. l \in ToSet(queue) \cup ToSet(tree) \cup ToSet(file) \/ l \in dumped \cup skipped \cup cut
        BY <2>1 DEF There, Logged, Done
    <2>5. Copies(l) = Times(queue, l) + Times(tree, l) + Times(file, l)
        BY <2>2, CopiesAre
    <2> HIDE DEF l
    <2>6. /\ l \in ToSet(queue) => Times(queue, l) > 0
          /\ l \in ToSet(tree) => Times(tree, l) > 0
          /\ l \in ToSet(file) => Times(file, l) > 0
        BY <2>2, TimesPositive
    <2>7. Copies(l) > 0 \/ l \in dumped \cup skipped \cup cut
        BY <2>3, <2>4, <2>5, <2>6
    <2> QED BY <2>7 DEF l
<1> QED BY <1>1, InvariantHolds, PTL

(* The log server has a line at most once for each time it may have been   *)
(* sent, that is once and once more for each connection that has broken;   *)
(* and before a connection has broken the lines of a server are in the     *)
(* tree and the file in the order in which it has logged them.             *)
THEOREM RecordedInOrder == Spec => []InOrder
<1>1. IInv => InOrder
    <2> SUFFICES ASSUME IInv PROVE InOrder
        OBVIOUS
    <2>1. ASSUME NEW l \in Lines PROVE Copies(l) <= 1 + breaks
        <3>1. Copies(l) = Times(queue, l) + Times(tree, l) + Times(file, l)
            BY CopiesAre DEF IInv
        <3>2. /\ Times(queue, l) \in Nat /\ Times(tree, l) \in Nat /\ Times(file, l) \in Nat
              /\ Cardinality(Astray(l)) \in Nat /\ breaks \in Nat
            BY Numbers DEF IInv
        <3>3. OnWire(l) \in {0, 1} /\ Allowed(l) \in {0, breaks, 1 + breaks}
            BY DEF OnWire, Allowed
        <3>4. Times(queue, l) + Times(tree, l) + Times(file, l) + Cardinality(Astray(l)) + OnWire(l) <= Allowed(l)
            BY DEF IInv, Counted, All
        <3> QED BY <3>1, <3>2, <3>3, <3>4
    <2>2. ASSUME breaks = 0 PROVE Rising(file \o tree)
        <3>1. file \in Seq(Lines) /\ tree \in Seq(Lines) /\ Ordered
            BY <2>2 DEF IInv, Types, StoresOK, InOrderSoFar
        <3> QED BY <3>1, RisingConcat DEF Ordered
    <2> QED BY <2>1, <2>2 DEF InOrder, Rising, Less
<1> QED BY <1>1, InvariantHolds, PTL

(* Whatever a server has logged before a DUMPLOG that is done is in the    *)
(* file, but for what outStr was too small for.                            *)
THEOREM DumpsAreComplete == Spec => []DumpIsComplete
<1>1. IInv => DumpIsComplete
    BY DEF IInv, DumpsFollow, Follows, DumpIsComplete
<1> QED BY <1>1, InvariantHolds, PTL
=============================================================================
