------------------------------ MODULE ListFacts ------------------------------
(***************************************************************************)
(* Facts about the lists and queues of the models that several proofs      *)
(* need: what a list holds after an element was added at one end or taken  *)
(* at the other (linked_list.c: linked_list_add, linked_list_remove).      *)
(***************************************************************************)
EXTENDS Sequences, Naturals, FiniteSets, SequenceTheorems, FiniteSetTheorems,
        FunctionTheorems, TLAPS

(* Where an element of a sequence is: linked_list_add and                  *)
(* linked_list_remove seen as operations on a set.                         *)
Holds(s, m) == \E i \in DOMAIN s : s[i] = m

(* No element is linked twice.                                             *)
Distinct(s) == \A i, j \in 1 .. Len(s) : s[i] = s[j] => i = j

(* linked_list_add adds one element and keeps the others.                  *)
LEMMA AppendHolds ==
    ASSUME NEW S, NEW s \in Seq(S), NEW e \in S
    PROVE  \A m : Holds(Append(s, e), m) <=> Holds(s, m) \/ m = e
<1>1. /\ Len(s) \in Nat /\ DOMAIN s = 1 .. Len(s)
      /\ DOMAIN Append(s, e) = 1 .. Len(s) + 1
      /\ \A i \in 1 .. Len(s) : Append(s, e)[i] = s[i]
      /\ Append(s, e)[Len(s) + 1] = e
  BY LenProperties, AppendProperties
<1>2. ASSUME NEW m PROVE Holds(s, m) => Holds(Append(s, e), m)
  BY <1>1 DEF Holds
<1>3. Holds(Append(s, e), e)
  BY <1>1 DEF Holds
<1>4. ASSUME NEW m, Holds(Append(s, e), m) PROVE Holds(s, m) \/ m = e
  <2>1. PICK i \in 1 .. Len(s) + 1 : Append(s, e)[i] = m
    BY <1>1, <1>4 DEF Holds
  <2>2. i \in 1 .. Len(s) \/ i = Len(s) + 1
    BY <1>1
  <2> QED
    BY <1>1, <2>1, <2>2 DEF Holds
<1> QED
  BY <1>2, <1>3, <1>4

(* linked_list_remove of the oldest element removes that element and, if   *)
(* no element is linked twice, every occurrence of it.                     *)
LEMMA TailHolds ==
    ASSUME NEW S, NEW s \in Seq(S), s # <<>>,
           Distinct(s)
    PROVE  \A m : Holds(Tail(s), m) <=> Holds(s, m) /\ m # Head(s)
<1>1. /\ Len(s) \in Nat /\ Len(s) >= 1 /\ DOMAIN s = 1 .. Len(s)
      /\ DOMAIN Tail(s) = 1 .. Len(s) - 1
      /\ \A i \in 1 .. Len(s) - 1 : Tail(s)[i] = s[i + 1]
      /\ Head(s) = s[1]
  <2>1. Len(s) \in Nat /\ Len(s) >= 1 /\ DOMAIN s = 1 .. Len(s)
    BY LenProperties, EmptySeq
  <2> QED
    BY <2>1, HeadTailProperties
<1>2. ASSUME NEW m, Holds(Tail(s), m) PROVE Holds(s, m) /\ m # Head(s)
  <2>1. PICK i \in 1 .. Len(s) - 1 : Tail(s)[i] = m
    BY <1>1, <1>2 DEF Holds
  <2>2. i + 1 \in 1 .. Len(s) /\ i + 1 # 1 /\ 1 \in 1 .. Len(s)
    BY <1>1
  <2> QED
    BY <1>1, <2>1, <2>2 DEF Holds, Distinct
<1>3. ASSUME NEW m, Holds(s, m), m # Head(s) PROVE Holds(Tail(s), m)
  <2>1. PICK i \in 1 .. Len(s) : s[i] = m
    BY <1>1, <1>3 DEF Holds
  <2>2. i - 1 \in 1 .. Len(s) - 1 /\ (i - 1) + 1 = i
    BY <1>1, <1>3, <2>1
  <2> QED
    BY <1>1, <2>1, <2>2 DEF Holds
<1> QED
  BY <1>2, <1>3

(* A list stays free of repetitions when a new element is added.           *)
LEMMA AppendDistinct ==
    ASSUME NEW S, NEW s \in Seq(S), NEW e \in S, Distinct(s), ~Holds(s, e)
    PROVE  Distinct(Append(s, e))
<1>1. /\ Len(s) \in Nat /\ DOMAIN s = 1 .. Len(s)
      /\ Len(Append(s, e)) = Len(s) + 1
      /\ \A i \in 1 .. Len(s) : Append(s, e)[i] = s[i]
      /\ Append(s, e)[Len(s) + 1] = e
  BY LenProperties, AppendProperties
<1> SUFFICES ASSUME NEW i \in 1 .. Len(s) + 1, NEW j \in 1 .. Len(s) + 1,
                    Append(s, e)[i] = Append(s, e)[j]
             PROVE  i = j
  BY <1>1 DEF Distinct
<1>2. /\ i \in 1 .. Len(s) \/ i = Len(s) + 1
      /\ j \in 1 .. Len(s) \/ j = Len(s) + 1
  BY <1>1
<1>3. \A k \in 1 .. Len(s) : s[k] # e
  BY <1>1 DEF Holds
<1> QED
  BY <1>1, <1>2, <1>3 DEF Distinct

(* ... and when the oldest is taken out.                                   *)
LEMMA TailDistinct ==
    ASSUME NEW S, NEW s \in Seq(S), s # <<>>, Distinct(s)
    PROVE  Distinct(Tail(s))
<1>1. /\ Len(s) \in Nat /\ Len(s) >= 1
      /\ Len(Tail(s)) = Len(s) - 1
      /\ \A i \in 1 .. Len(s) - 1 : Tail(s)[i] = s[i + 1]
  <2>1. Len(s) \in Nat /\ Len(s) >= 1
    BY LenProperties, EmptySeq
  <2> QED
    BY <2>1, HeadTailProperties
<1> SUFFICES ASSUME NEW i \in 1 .. Len(s) - 1, NEW j \in 1 .. Len(s) - 1,
                    Tail(s)[i] = Tail(s)[j]
             PROVE  i = j
  BY <1>1 DEF Distinct
<1>2. i + 1 \in 1 .. Len(s) /\ j + 1 \in 1 .. Len(s) /\ s[i + 1] = s[j + 1]
  BY <1>1
<1>3. i + 1 = j + 1
  BY <1>2 DEF Distinct
<1> QED
  BY <1>3

(* The element a take returns was in the list.                             *)
LEMMA HeadHolds ==
    ASSUME NEW S, NEW s \in Seq(S), s # <<>>
    PROVE  Holds(s, Head(s)) /\ Head(s) \in S
<1>1. 1 \in DOMAIN s /\ Head(s) = s[1] /\ Head(s) \in S
  BY HeadTailProperties, LenProperties, EmptySeq
<1> QED
  BY <1>1 DEF Holds

(* A list that holds nothing is empty.                                     *)
LEMMA EmptyHolds ==
    /\ \A m : ~Holds(<<>>, m)
    /\ Distinct(<<>>)
BY EmptySeq DEF Holds, Distinct

-----------------------------------------------------------------------------
(* Queues of messages of several kinds; a kind is a set of messages.       *)

(* A message of kind P is queued.                                          *)
Has(q, P) == \E i \in DOMAIN q : q[i] \in P

(* ... and not two of them.                                                *)
AtMostOne(q, P) == \A i, j \in DOMAIN q : q[i] \in P /\ q[j] \in P => i = j

(* Every message of kind P is in front of every message of kind Q.         *)
InOrder(q, P, Q) == \A i, j \in DOMAIN q : q[i] \in P /\ q[j] \in Q => i < j

(* The empty sequence has nothing.                                         *)
LEMMA EmptyHas ==
    \A P, Q : ~Has(<<>>, P) /\ AtMostOne(<<>>, P) /\ InOrder(<<>>, P, Q)
BY EmptySeq DEF Has, AtMostOne, InOrder

(* What posting a message does to the kinds in the queue.                  *)
LEMMA AppendHas ==
    ASSUME NEW S, NEW q \in Seq(S), NEW e \in S
    PROVE  /\ \A P : Has(Append(q, e), P) <=> Has(q, P) \/ e \in P
           /\ \A P : AtMostOne(q, P) /\ (e \in P => ~Has(q, P))
                        => AtMostOne(Append(q, e), P)
           /\ \A P, Q : /\ InOrder(q, P, Q) /\ (e \in P => ~Has(q, Q))
                        /\ ~(e \in P /\ e \in Q)
                        => InOrder(Append(q, e), P, Q)
<1>1. /\ Len(q) \in Nat /\ DOMAIN q = 1 .. Len(q)
      /\ DOMAIN Append(q, e) = 1 .. Len(q) + 1
      /\ \A i \in 1 .. Len(q) : Append(q, e)[i] = q[i]
      /\ Append(q, e)[Len(q) + 1] = e
  BY LenProperties, AppendProperties
<1>2. \A i \in 1 .. Len(q) + 1 : i \in 1 .. Len(q) \/ i = Len(q) + 1
  BY <1>1
<1>3. ASSUME NEW P PROVE Has(Append(q, e), P) <=> Has(q, P) \/ e \in P
  <2>1. ASSUME Has(Append(q, e), P) PROVE Has(q, P) \/ e \in P
    <3>1. PICK i \in 1 .. Len(q) + 1 : Append(q, e)[i] \in P
      BY <1>1, <2>1 DEF Has
    <3> QED
      BY <1>1, <1>2, <3>1 DEF Has
  <2>2. ASSUME Has(q, P) \/ e \in P PROVE Has(Append(q, e), P)
    <3>1. /\ Len(q) + 1 \in 1 .. Len(q) + 1
          /\ \A i \in 1 .. Len(q) : i \in 1 .. Len(q) + 1
      BY <1>1
    <3> QED
      BY <1>1, <2>2, <3>1 DEF Has
  <2> QED
    BY <2>1, <2>2
<1>4. ASSUME NEW P, AtMostOne(q, P), e \in P => ~Has(q, P)
      PROVE  AtMostOne(Append(q, e), P)
  <2> SUFFICES ASSUME NEW i \in 1 .. Len(q) + 1, NEW j \in 1 .. Len(q) + 1,
                      Append(q, e)[i] \in P, Append(q, e)[j] \in P
               PROVE  i = j
    BY <1>1 DEF AtMostOne
  <2> QED
    BY <1>1, <1>2, <1>4 DEF AtMostOne, Has
<1>5. ASSUME NEW P, NEW Q, InOrder(q, P, Q), e \in P => ~Has(q, Q),
             ~(e \in P /\ e \in Q)
      PROVE  InOrder(Append(q, e), P, Q)
  <2> SUFFICES ASSUME NEW i \in 1 .. Len(q) + 1, NEW j \in 1 .. Len(q) + 1,
                      Append(q, e)[i] \in P, Append(q, e)[j] \in Q
               PROVE  i < j
    BY <1>1 DEF InOrder
  <2>1. CASE i \in 1 .. Len(q) /\ j \in 1 .. Len(q)
    BY <1>1, <1>5, <2>1 DEF InOrder
  <2>2. CASE i \in 1 .. Len(q) /\ j = Len(q) + 1
    BY <1>1, <2>2
  <2>3. CASE i = Len(q) + 1
    BY <1>1, <1>2, <1>5, <2>3 DEF Has
  <2> QED
    BY <1>2, <2>1, <2>2, <2>3
<1> QED
  BY <1>3, <1>4, <1>5

(* What taking the oldest message does to the kinds in the queue.          *)
LEMMA TailHas ==
    ASSUME NEW S, NEW q \in Seq(S), q # <<>>
    PROVE  /\ \A P : Has(Tail(q), P) => Has(q, P)
           /\ \A P : Head(q) \in P => Has(q, P)
           /\ \A P : Head(q) \notin P /\ Has(q, P) => Has(Tail(q), P)
           /\ \A P : Head(q) \in P /\ AtMostOne(q, P) => ~Has(Tail(q), P)
           /\ \A P : AtMostOne(q, P) => AtMostOne(Tail(q), P)
           /\ \A P, Q : InOrder(q, P, Q) => InOrder(Tail(q), P, Q)
           /\ \A P, Q : InOrder(q, P, Q) /\ Head(q) \in Q => ~Has(q, P)
<1>1. /\ Len(q) \in Nat /\ Len(q) >= 1 /\ DOMAIN q = 1 .. Len(q)
      /\ DOMAIN Tail(q) = 1 .. Len(q) - 1
      /\ \A i \in 1 .. Len(q) - 1 : Tail(q)[i] = q[i + 1]
      /\ Head(q) = q[1]
  <2>1. Len(q) \in Nat /\ Len(q) >= 1 /\ DOMAIN q = 1 .. Len(q)
    BY LenProperties, EmptySeq
  <2> QED
    BY <2>1, HeadTailProperties
<1>2. \A i \in 1 .. Len(q) - 1 : i + 1 \in 1 .. Len(q)
  BY <1>1
<1>3. \A P : Has(Tail(q), P) => Has(q, P)
  BY <1>1, <1>2 DEF Has
<1>4. \A P : Head(q) \in P => Has(q, P)
  <2>1. 1 \in 1 .. Len(q)
    BY <1>1
  <2> QED
    BY <1>1, <2>1 DEF Has
<1>5. ASSUME NEW P, Head(q) \notin P, Has(q, P) PROVE Has(Tail(q), P)
  <2>1. PICK i \in 1 .. Len(q) : q[i] \in P
    BY <1>1, <1>5 DEF Has
  <2>2. i - 1 \in 1 .. Len(q) - 1 /\ (i - 1) + 1 = i
    BY <1>1, <1>5, <2>1
  <2> QED
    BY <1>1, <2>1, <2>2 DEF Has
<1>6. ASSUME NEW P, Head(q) \in P, AtMostOne(q, P), Has(Tail(q), P) PROVE FALSE
  <2>1. PICK i \in 1 .. Len(q) - 1 : Tail(q)[i] \in P
    BY <1>1, <1>6 DEF Has
  <2>2. i + 1 \in 1 .. Len(q) /\ 1 \in 1 .. Len(q) /\ i + 1 # 1
    BY <1>1
  <2> QED
    BY <1>1, <1>6, <2>1, <2>2 DEF AtMostOne
<1>7. ASSUME NEW P, AtMostOne(q, P) PROVE AtMostOne(Tail(q), P)
  <2> SUFFICES ASSUME NEW i \in 1 .. Len(q) - 1, NEW j \in 1 .. Len(q) - 1,
                      q[i + 1] \in P, q[j + 1] \in P
               PROVE  i = j
    BY <1>1 DEF AtMostOne
  <2>1. i + 1 = j + 1
    BY <1>1, <1>2, <1>7 DEF AtMostOne
  <2> QED
    BY <2>1
<1>8. ASSUME NEW P, NEW Q, InOrder(q, P, Q) PROVE InOrder(Tail(q), P, Q)
  <2> SUFFICES ASSUME NEW i \in 1 .. Len(q) - 1, NEW j \in 1 .. Len(q) - 1,
                      q[i + 1] \in P, q[j + 1] \in Q
               PROVE  i < j
    BY <1>1 DEF InOrder
  <2>1. i + 1 < j + 1
    BY <1>1, <1>2, <1>8 DEF InOrder
  <2> QED
    BY <2>1
<1>9. ASSUME NEW P, NEW Q, InOrder(q, P, Q), Head(q) \in Q, Has(q, P) PROVE FALSE
  <2>1. PICK i \in 1 .. Len(q) : q[i] \in P
    BY <1>1, <1>9 DEF Has
  <2>2. 1 \in 1 .. Len(q)
    BY <1>1
  <2>3. i < 1
    BY <1>1, <1>9, <2>1, <2>2 DEF InOrder
  <2> QED
    BY <1>1, <2>3
<1> QED
  BY <1>3, <1>4, <1>5, <1>6, <1>7, <1>8, <1>9

-----------------------------------------------------------------------------
(* How many messages of kind P are queued.                                 *)
Places(q, P) == {i \in DOMAIN q : q[i] \in P}
Count(q, P) == Cardinality(Places(q, P))

(* A count is a natural number, and zero when there is nothing to count.   *)
LEMMA CountFinite ==
    ASSUME NEW S, NEW q \in Seq(S), NEW P
    PROVE  /\ IsFiniteSet(Places(q, P)) /\ Count(q, P) \in Nat
           /\ Count(q, P) = 0 <=> ~Has(q, P)
<1>1. DOMAIN q = 1 .. Len(q) /\ Len(q) \in Nat
  BY LenProperties
<1>2. IsFiniteSet(1 .. Len(q))
  BY <1>1, FS_Interval
<1>3. IsFiniteSet(Places(q, P))
  BY <1>1, <1>2, FS_Subset DEF Places
<1>4. Count(q, P) \in Nat
  BY <1>3, FS_CardinalityType DEF Count
<1>5. Count(q, P) = 0 <=> Places(q, P) = {}
  BY <1>3, FS_EmptySet DEF Count
<1>6. Places(q, P) = {} <=> ~Has(q, P)
  BY DEF Places, Has
<1> QED
  BY <1>3, <1>4, <1>5, <1>6

(* The empty sequence counts zero.                                         *)
LEMMA CountEmpty == \A P : Count(<<>>, P) = 0
<1> TAKE P
<1>1. Places(<<>>, P) = {}
  BY EmptySeq DEF Places
<1> QED
  BY <1>1, FS_EmptySet DEF Count

(* Appending one queue to another adds the numbers.                        *)
LEMMA CountConcat ==
    ASSUME NEW S, NEW q \in Seq(S), NEW r \in Seq(S), NEW P
    PROVE  Count(q \o r, P) = Count(q, P) + Count(r, P)
<1> DEFINE n == Len(q)
           m == Len(r)
           a == Places(q, P)
           b == Places(r, P)
           c == {i \in n + 1 .. n + m : r[i - n] \in P}
<1>1. /\ n \in Nat /\ m \in Nat /\ DOMAIN q = 1 .. n /\ DOMAIN r = 1 .. m
      /\ q \o r \in Seq(S) /\ Len(q \o r) = n + m /\ DOMAIN (q \o r) = 1 .. n + m
      /\ \A i \in 1 .. n + m : (q \o r)[i] = IF i <= n THEN q[i] ELSE r[i - n]
  BY LenProperties, ConcatProperties
<1>2. Places(q \o r, P) = a \cup c
  <2>1. ASSUME NEW i \in Places(q \o r, P) PROVE i \in a \cup c
    <3>1. i \in 1 .. n + m /\ (q \o r)[i] \in P
      BY <1>1 DEF Places
    <3>2. CASE i <= n
      BY <1>1, <3>1, <3>2 DEF Places
    <3>3. CASE i > n
      BY <1>1, <3>1, <3>3
    <3> QED
      BY <1>1, <3>1, <3>2, <3>3
  <2>2. ASSUME NEW i \in a PROVE i \in Places(q \o r, P)
    BY <1>1 DEF Places
  <2>3. ASSUME NEW i \in c PROVE i \in Places(q \o r, P)
    BY <1>1 DEF Places
  <2> QED
    BY <2>1, <2>2, <2>3
<1>3. a \cap c = {}
  BY <1>1 DEF Places
<1>4. IsFiniteSet(b) /\ IsFiniteSet(a) /\ Count(r, P) \in Nat /\ Count(q, P) \in Nat
  BY CountFinite
<1>5. ExistsBijection(b, c)
  <2> DEFINE f == [i \in b |-> i + n]
  <2>0. b \subseteq 1 .. m /\ \A i \in b : r[i] \in P
    BY <1>1 DEF Places
  <2>1. f \in [b -> c]
    BY <1>1, <2>0
  <2>2. \A i, j \in b : f[i] = f[j] => i = j
    BY <1>1, <2>0
  <2>3. \A k \in c : \E i \in b : f[i] = k
    <3> TAKE k \in c
    <3>1. k - n \in 1 .. m /\ r[k - n] \in P
      BY <1>1
    <3>2. k - n \in b
      BY <1>1, <3>1 DEF Places
    <3>3. f[k - n] = k
      BY <1>1, <3>2
    <3> QED
      BY <3>2, <3>3
  <2> HIDE DEF f
  <2>4. f \in Bijection(b, c)
    BY <2>1, <2>2, <2>3 DEF Bijection, Injection, Surjection, IsInjective
  <2> QED
    BY <2>4 DEF ExistsBijection
<1> HIDE DEF c
<1>6. IsFiniteSet(c) /\ Cardinality(c) = Cardinality(b)
  BY <1>4, <1>5, FS_Bijection
<1>7. Cardinality(a \cup c) = Cardinality(a) + Cardinality(c)
  <2>1. Cardinality(a \cup c) = Cardinality(a) + Cardinality(c) - Cardinality(a \cap c)
    BY <1>4, <1>6, FS_Union
  <2>2. Cardinality(a \cap c) = 0
    BY <1>3, FS_EmptySet
  <2> QED
    BY <1>4, <1>6, <2>1, <2>2 DEF Count
<1> QED
  BY <1>2, <1>6, <1>7 DEF Count

(* A sequence of one element counts one or zero.                           *)
LEMMA CountOne ==
    ASSUME NEW S, NEW e \in S, NEW P
    PROVE  Count(<<e>>, P) = IF e \in P THEN 1 ELSE 0
<1>1. DOMAIN <<e>> = {1} /\ <<e>>[1] = e
  OBVIOUS
<1>2. CASE e \in P
  <2>1. Places(<<e>>, P) = {1}
    BY <1>1, <1>2 DEF Places
  <2> QED
    BY <1>2, <2>1, FS_Singleton DEF Count
<1>3. CASE e \notin P
  <2>1. Places(<<e>>, P) = {}
    BY <1>1, <1>3 DEF Places
  <2> QED
    BY <1>3, <2>1, FS_EmptySet DEF Count
<1> QED
  BY <1>2, <1>3

(* Posting a message, and taking the oldest one.                           *)
LEMMA CountAppend ==
    ASSUME NEW S, NEW q \in Seq(S), NEW e \in S, NEW P
    PROVE  Count(Append(q, e), P) = Count(q, P) + (IF e \in P THEN 1 ELSE 0)
<1>1. Append(q, e) = q \o <<e>>
  BY AppendIsConcat
<1>2. <<e>> \in Seq(S)
  OBVIOUS
<1>3. Count(q \o <<e>>, P) = Count(q, P) + Count(<<e>>, P)
  BY <1>2, CountConcat
<1>4. Count(<<e>>, P) = IF e \in P THEN 1 ELSE 0
  BY CountOne
<1> QED
  BY <1>1, <1>3, <1>4

(* Removing the head takes its count away.                                 *)
LEMMA CountTail ==
    ASSUME NEW S, NEW q \in Seq(S), q # <<>>, NEW P
    PROVE  Count(q, P) = Count(Tail(q), P) + (IF Head(q) \in P THEN 1 ELSE 0)
<1>0. Head(q) \in S /\ Tail(q) \in Seq(S)
  BY HeadTailProperties
<1>2. <<Head(q)>> \in Seq(S)
  BY <1>0
<1>1. Head(q) \in S /\ Tail(q) \in Seq(S) /\ q = <<Head(q)>> \o Tail(q)
  <2> DEFINE t == <<Head(q)>> \o Tail(q)
  <2>1. /\ Len(q) \in Nat /\ Len(q) >= 1 /\ Len(Tail(q)) = Len(q) - 1
        /\ \A i \in 1 .. Len(q) - 1 : Tail(q)[i] = q[i + 1]
        /\ Head(q) = q[1]
    BY LenProperties, EmptySeq, HeadTailProperties
  <2>2. Len(<<Head(q)>>) = 1 /\ <<Head(q)>>[1] = Head(q)
    OBVIOUS
  <2>3. /\ t \in Seq(S) /\ Len(t) = 1 + (Len(q) - 1)
        /\ \A i \in 1 .. 1 + (Len(q) - 1) :
              t[i] = IF i <= 1 THEN <<Head(q)>>[i] ELSE Tail(q)[i - 1]
    BY <1>0, <1>2, <2>1, <2>2, ConcatProperties
  <2> HIDE DEF t
  <2>4. ASSUME NEW i \in 1 .. Len(q) PROVE q[i] = t[i]
    <3>1. CASE i = 1
      BY <2>1, <2>2, <2>3, <3>1
    <3>2. CASE i # 1
      <4>1. i - 1 \in 1 .. Len(q) - 1 /\ (i - 1) + 1 = i
        BY <2>1, <3>2
      <4> QED
        BY <2>1, <2>3, <3>2, <4>1
    <3> QED
      BY <3>1, <3>2
  <2>5. q = t
    BY <2>1, <2>3, <2>4, SeqEqual
  <2> QED
    BY <1>0, <2>5 DEF t
<1>3. Count(Tail(q), P) \in Nat
  BY <1>1, CountFinite
<1>4. Count(<<Head(q)>> \o Tail(q), P) = Count(<<Head(q)>>, P) + Count(Tail(q), P)
  BY <1>1, <1>2, CountConcat
<1>5. Count(<<Head(q)>>, P) = IF Head(q) \in P THEN 1 ELSE 0
  BY <1>1, CountOne
<1> DEFINE h == Count(<<Head(q)>>, P)
           t == Count(Tail(q), P)
<1>6. Count(q, P) = h + t
  BY <1>1, <1>4, Zenon
<1>7. h \in Nat /\ t \in Nat
  BY <1>3, <1>5
<1> HIDE DEF h, t
<1>8. h + t = t + h
  BY <1>7
<1> QED
  BY <1>5, <1>6, <1>8 DEF h, t

(* What posting several messages does to the kinds in the queue.           *)
LEMMA ConcatHas ==
    ASSUME NEW S, NEW q \in Seq(S), NEW r \in Seq(S), NEW P
    PROVE  Has(q \o r, P) <=> Has(q, P) \/ Has(r, P)
<1>1. q \o r \in Seq(S)
  BY ConcatProperties
<1>2. /\ Count(q, P) \in Nat /\ Count(r, P) \in Nat
      /\ Count(q \o r, P) = Count(q, P) + Count(r, P)
  BY CountFinite, CountConcat
<1>3. /\ Count(q, P) = 0 <=> ~Has(q, P)
      /\ Count(r, P) = 0 <=> ~Has(r, P)
      /\ Count(q \o r, P) = 0 <=> ~Has(q \o r, P)
  BY <1>1, CountFinite
<1>4. Count(q \o r, P) = 0 <=> Count(q, P) = 0 /\ Count(r, P) = 0
  BY <1>2
<1> QED
  BY <1>3, <1>4

-----------------------------------------------------------------------------
(* The last message of kind P is of kind Q; now, if there is none.         *)
Finally(q, P, Q, now) ==
    \/ \E i \in DOMAIN q : q[i] \in Q /\ \A j \in DOMAIN q : j > i => q[j] \notin P
    \/ ~Has(q, P) /\ now

(* With nothing queued it is now that counts.                              *)
LEMMA FinallyEmpty == \A P, Q : \A now \in BOOLEAN : Finally(<<>>, P, Q, now) <=> now
BY EmptySeq DEF Finally, Has

(* With one message queued it is that message, if it is of kind P.         *)
LEMMA FinallyOne ==
    ASSUME NEW S, NEW e \in S, NEW P, NEW Q \in SUBSET P, NEW now \in BOOLEAN
    PROVE  /\ e \in P => (Finally(<<e>>, P, Q, now) <=> e \in Q)
           /\ e \notin P => (Finally(<<e>>, P, Q, now) <=> now)
<1>1. DOMAIN <<e>> = {1} /\ <<e>>[1] = e
  OBVIOUS
<1>2. Has(<<e>>, P) <=> e \in P
  BY <1>1 DEF Has
<1>3. (\E i \in DOMAIN <<e>> : <<e>>[i] \in Q
         /\ \A j \in DOMAIN <<e>> : j > i => <<e>>[j] \notin P) <=> e \in Q
  BY <1>1
<1> QED
  BY <1>2, <1>3 DEF Finally

(* What comes last in a queue that another one was appended to.            *)
LEMMA FinallyConcat ==
    ASSUME NEW S, NEW q \in Seq(S), NEW r \in Seq(S), NEW P, NEW Q \in SUBSET P,
           NEW now \in BOOLEAN
    PROVE  Finally(q \o r, P, Q, now) <=> Finally(r, P, Q, Finally(q, P, Q, now))
<1> DEFINE n == Len(q)
           m == Len(r)
<1>1. /\ n \in Nat /\ m \in Nat /\ DOMAIN q = 1 .. n /\ DOMAIN r = 1 .. m
      /\ DOMAIN (q \o r) = 1 .. n + m
      /\ \A i \in 1 .. n : (q \o r)[i] = q[i]
      /\ \A i \in 1 .. m : (q \o r)[n + i] = r[i]
  <2>1. /\ n \in Nat /\ m \in Nat /\ DOMAIN q = 1 .. n /\ DOMAIN r = 1 .. m
        /\ DOMAIN (q \o r) = 1 .. n + m
        /\ \A i \in 1 .. n + m : (q \o r)[i] = IF i <= n THEN q[i] ELSE r[i - n]
    BY LenProperties, ConcatProperties
  <2>2. ASSUME NEW i \in 1 .. m PROVE n + i \in 1 .. n + m /\ ~(n + i <= n) /\ n + i - n = i
    BY <2>1
  <2> QED
    BY <2>1, <2>2
<1> HIDE DEF n, m
<1>2. \A i \in 1 .. n + m : i \in 1 .. n \/ \E k \in 1 .. m : i = n + k
  <2> TAKE i \in 1 .. n + m
  <2>1. i \in Int /\ 1 <= i /\ i <= n + m
    BY <1>1
  <2>2. CASE i <= n
    BY <1>1, <2>1, <2>2
  <2>3. CASE ~(i <= n)
    <3>1. i - n \in 1 .. m /\ i = n + (i - n)
      BY <1>1, <2>1, <2>3
    <3> QED
      BY <3>1
  <2> QED
    BY <2>2, <2>3
<1>3. Has(q \o r, P) <=> Has(q, P) \/ Has(r, P)
  BY ConcatHas
<1> DEFINE Ends(z) == \E i \in DOMAIN z : z[i] \in Q /\ \A j \in DOMAIN z : j > i => z[j] \notin P
<1>4. ASSUME Ends(q \o r) PROVE Ends(r) \/ (~Has(r, P) /\ Ends(q))
  <2>1. PICK i \in 1 .. n + m : /\ (q \o r)[i] \in Q
                                /\ \A j \in 1 .. n + m : j > i => (q \o r)[j] \notin P
    BY <1>1, <1>4
  <2>2. CASE i \in 1 .. n
    <3>1. ASSUME NEW k \in 1 .. m PROVE r[k] \notin P
      <4>1. n + k \in 1 .. n + m /\ n + k > i
        BY <1>1, <2>2
      <4> QED
        BY <1>1, <2>1, <4>1
    <3>2. \A j \in 1 .. n : j \in 1 .. n + m
      BY <1>1
    <3>3. q[i] \in Q /\ \A j \in 1 .. n : j > i => q[j] \notin P
      BY <1>1, <2>1, <2>2, <3>2
    <3> QED
      BY <1>1, <2>2, <3>1, <3>3 DEF Has
  <2>3. ASSUME NEW k \in 1 .. m, i = n + k PROVE Ends(r)
    <3>1. ASSUME NEW j \in 1 .. m, j > k PROVE r[j] \notin P
      <4>1. n + j \in 1 .. n + m /\ n + j > i
        BY <1>1, <2>3, <3>1
      <4> QED
        BY <1>1, <2>1, <4>1
    <3> QED
      BY <1>1, <2>1, <2>3, <3>1
  <2> QED
    BY <1>2, <2>1, <2>2, <2>3
<1>5. ASSUME Ends(r) PROVE Ends(q \o r)
  <2>1. PICK k \in 1 .. m : r[k] \in Q /\ \A j \in 1 .. m : j > k => r[j] \notin P
    BY <1>1, <1>5
  <2>2. n + k \in 1 .. n + m /\ (q \o r)[n + k] \in Q
    BY <1>1, <2>1
  <2>3. ASSUME NEW i \in 1 .. n + m, i > n + k PROVE (q \o r)[i] \notin P
    <3>1. i \notin 1 .. n
      BY <1>1, <2>3
    <3>2. PICK j \in 1 .. m : i = n + j
      BY <1>2, <3>1
    <3>3. j > k
      BY <1>1, <2>3, <3>2
    <3> QED
      BY <1>1, <2>1, <3>2, <3>3
  <2> QED
    BY <1>1, <2>2, <2>3
<1>6. ASSUME Ends(q), ~Has(r, P) PROVE Ends(q \o r)
  <2>1. PICK i \in 1 .. n : q[i] \in Q /\ \A j \in 1 .. n : j > i => q[j] \notin P
    BY <1>1, <1>6
  <2>2. i \in 1 .. n + m /\ (q \o r)[i] \in Q
    BY <1>1, <2>1
  <2>3. ASSUME NEW j \in 1 .. n + m, j > i PROVE (q \o r)[j] \notin P
    BY <1>1, <1>2, <1>6, <2>1, <2>3 DEF Has
  <2> QED
    BY <1>1, <2>2, <2>3
<1>7. ASSUME NEW z, NEW v PROVE Finally(z, P, Q, v) <=> Ends(z) \/ (~Has(z, P) /\ v)
  BY DEF Finally
<1> HIDE DEF Ends
<1>8. /\ Finally(q \o r, P, Q, now) <=> Ends(q \o r) \/ (~Has(q \o r, P) /\ now)
      /\ Finally(q, P, Q, now) <=> Ends(q) \/ (~Has(q, P) /\ now)
      /\ Finally(r, P, Q, Finally(q, P, Q, now))
           <=> Ends(r) \/ (~Has(r, P) /\ Finally(q, P, Q, now))
  BY <1>7
<1> QED
  BY <1>3, <1>4, <1>5, <1>6, <1>8

(* What posting a message changes.                                         *)
LEMMA FinallyAppend ==
    ASSUME NEW S, NEW q \in Seq(S), NEW e \in S, NEW P, NEW Q \in SUBSET P,
           NEW now \in BOOLEAN
    PROVE  /\ e \in P => (Finally(Append(q, e), P, Q, now) <=> e \in Q)
           /\ e \notin P => (Finally(Append(q, e), P, Q, now) <=> Finally(q, P, Q, now))
<1>1. Append(q, e) = q \o <<e>> /\ <<e>> \in Seq(S)
  BY AppendIsConcat
<1>2. Finally(q, P, Q, now) \in BOOLEAN
  BY DEF Finally
<1>3. Finally(q \o <<e>>, P, Q, now) <=> Finally(<<e>>, P, Q, Finally(q, P, Q, now))
  BY <1>1, FinallyConcat
<1> DEFINE before == Finally(q, P, Q, now)
<1>4. before \in BOOLEAN /\ (Finally(Append(q, e), P, Q, now) <=> Finally(<<e>>, P, Q, before))
  BY <1>1, <1>2, <1>3
<1> HIDE DEF before
<1>5. /\ e \in P => (Finally(<<e>>, P, Q, before) <=> e \in Q)
      /\ e \notin P => (Finally(<<e>>, P, Q, before) <=> before)
  BY <1>4, FinallyOne
<1> QED
  BY <1>4, <1>5 DEF before

(* What taking the oldest message changes: nothing, if now follows it.     *)
LEMMA FinallyTail ==
    ASSUME NEW S, NEW q \in Seq(S), q # <<>>, NEW P, NEW Q \in SUBSET P,
           NEW now \in BOOLEAN, NEW then \in BOOLEAN,
           Head(q) \in P => (then <=> Head(q) \in Q),
           Head(q) \notin P => (then <=> now)
    PROVE  Finally(Tail(q), P, Q, then) <=> Finally(q, P, Q, now)
<1>1. /\ Head(q) \in S /\ Tail(q) \in Seq(S) /\ <<Head(q)>> \in Seq(S)
      /\ q = <<Head(q)>> \o Tail(q)
  BY HeadTailProperties, TailIsSubSeq
<1>2. Finally(<<Head(q)>>, P, Q, now) \in BOOLEAN
  BY DEF Finally
<1>3. Finally(<<Head(q)>> \o Tail(q), P, Q, now)
        <=> Finally(Tail(q), P, Q, Finally(<<Head(q)>>, P, Q, now))
  BY <1>1, FinallyConcat
<1>4. Finally(<<Head(q)>>, P, Q, now) = then
  BY <1>1, <1>2, FinallyOne
<1> QED
  BY <1>1, <1>3, <1>4

(* If it is not so now, it will be because a message of kind Q is queued.  *)
LEMMA FinallyImplies ==
    ASSUME NEW q, NEW P, NEW Q
    PROVE  /\ Finally(q, P, Q, FALSE) => Has(q, Q) /\ Finally(q, P, Q, TRUE)
           /\ \A now : ~Has(q, P) /\ now => Finally(q, P, Q, now)
BY DEF Finally, Has
-----------------------------------------------------------------------------
(* What held in front of place i: the last message of kind P there is of   *)
(* kind Q; now, if there is none.                                          *)
Before(q, P, Q, now, i) ==
    \/ \E j \in DOMAIN q : /\ j < i /\ q[j] \in Q
                           /\ \A k \in DOMAIN q : j < k /\ k < i => q[k] \notin P
    \/ now /\ \A k \in DOMAIN q : k < i => q[k] \notin P

(* Messages of kind P switch something, on if they are of kind Q; it is    *)
(* now on or off.  None switches on what is on, and a message of kind U    *)
(* always finds it on.                                                     *)
Alternates(q, P, Q, U, now) ==
    \A i \in DOMAIN q : /\ q[i] \in Q => ~Before(q, P, Q, now, i)
                        /\ q[i] \in U => Before(q, P, Q, now, i)

(* Nothing queued that matters.                                            *)
LEMMA AlternatesNone ==
    ASSUME NEW q, NEW P, NEW Q, NEW U, ~Has(q, Q), ~Has(q, U)
    PROVE  \A now : Alternates(q, P, Q, U, now)
BY DEF Alternates, Has

(* What a message may be posted.                                           *)
LEMMA AlternatesAppend ==
    ASSUME NEW S, NEW q \in Seq(S), NEW e \in S, NEW P, NEW Q \in SUBSET P, NEW U,
           NEW now \in BOOLEAN, Alternates(q, P, Q, U, now),
           e \in Q => ~Finally(q, P, Q, now),
           e \in U => Finally(q, P, Q, now)
    PROVE  Alternates(Append(q, e), P, Q, U, now)
<1> DEFINE n == Len(q)
           r == Append(q, e)
<1>1. /\ n \in Nat /\ DOMAIN q = 1 .. n /\ DOMAIN r = 1 .. n + 1
      /\ \A i \in 1 .. n : r[i] = q[i]
      /\ r[n + 1] = e
  BY LenProperties, AppendProperties
<1> HIDE DEF n, r
<1>2. \A i \in 1 .. n + 1 : i \in 1 .. n \/ i = n + 1
  BY <1>1
<1>3. \A i \in 1 .. n : i \in 1 .. n + 1
  BY <1>1
<1>4. ASSUME NEW i \in 1 .. n PROVE Before(r, P, Q, now, i) <=> Before(q, P, Q, now, i)
  <2>1. \A k \in 1 .. n + 1 : k < i => k \in 1 .. n
    BY <1>1
  <2>2. (\A k \in 1 .. n + 1 : k < i => r[k] \notin P)
        <=> (\A k \in 1 .. n : k < i => q[k] \notin P)
    BY <1>1, <1>3, <2>1
  <2>3. \A j \in 1 .. n : (\A k \in 1 .. n + 1 : j < k /\ k < i => r[k] \notin P)
                            <=> (\A k \in 1 .. n : j < k /\ k < i => q[k] \notin P)
    BY <1>1, <1>3, <2>1
  <2> QED
    BY <1>1, <1>3, <2>1, <2>2, <2>3 DEF Before
<1>5. Before(r, P, Q, now, n + 1) <=> Finally(q, P, Q, now)
  <2>1. \A k \in 1 .. n + 1 : k < n + 1 <=> k \in 1 .. n
    BY <1>1
  <2>2. (\A k \in 1 .. n + 1 : k < n + 1 => r[k] \notin P) <=> ~Has(q, P)
    BY <1>1, <1>3, <2>1 DEF Has
  <2>3. ASSUME NEW j \in 1 .. n
        PROVE  (\A k \in 1 .. n + 1 : j < k /\ k < n + 1 => r[k] \notin P)
                            <=> (\A k \in 1 .. n : k > j => q[k] \notin P)
    BY <1>1, <1>3, <2>1
  <2> QED
    BY <1>1, <1>3, <2>1, <2>2, <2>3 DEF Before, Finally
<1>6. \A i \in 1 .. n : /\ q[i] \in Q => ~Before(q, P, Q, now, i)
                        /\ q[i] \in U => Before(q, P, Q, now, i)
  BY <1>1 DEF Alternates
<1>7. Alternates(r, P, Q, U, now)
  <2> SUFFICES ASSUME NEW i \in 1 .. n + 1
               PROVE  /\ r[i] \in Q => ~Before(r, P, Q, now, i)
                      /\ r[i] \in U => Before(r, P, Q, now, i)
    BY <1>1 DEF Alternates
  <2>1. CASE i \in 1 .. n
    BY <1>1, <1>4, <1>6, <2>1
  <2>2. CASE i = n + 1
    BY <1>1, <1>5, <2>2
  <2> QED
    BY <1>2, <2>1, <2>2
<1> QED
  BY <1>7 DEF r

(* The oldest message finds what is now, and what is then follows it.      *)
LEMMA AlternatesTail ==
    ASSUME NEW S, NEW q \in Seq(S), q # <<>>, NEW P, NEW Q \in SUBSET P, NEW U,
           NEW now \in BOOLEAN, NEW then \in BOOLEAN, Alternates(q, P, Q, U, now),
           Head(q) \in P => (then <=> Head(q) \in Q),
           Head(q) \notin P => (then <=> now)
    PROVE  /\ Alternates(Tail(q), P, Q, U, then)
           /\ Head(q) \in Q => ~now
           /\ Head(q) \in U => now
<1> DEFINE n == Len(q)
           r == Tail(q)
<1>1. /\ n \in Nat /\ n >= 1 /\ DOMAIN q = 1 .. n
      /\ DOMAIN r = 1 .. n - 1
      /\ \A i \in 1 .. n - 1 : r[i] = q[i + 1]
      /\ Head(q) = q[1]
  <2>1. Len(q) \in Nat /\ Len(q) >= 1 /\ DOMAIN q = 1 .. Len(q)
    BY LenProperties, EmptySeq
  <2> QED
    BY <2>1, HeadTailProperties
<1>a. (q[1] \in P => (then <=> q[1] \in Q)) /\ (q[1] \notin P => (then <=> now))
  BY <1>1
<1> HIDE DEF n, r
<1>2. Before(q, P, Q, now, 1) <=> now
  <2>1. \A k \in 1 .. n : ~(k < 1)
    BY <1>1
  <2> QED
    BY <1>1, <2>1 DEF Before
<1>3. ASSUME NEW i \in 1 .. n - 1 PROVE Before(r, P, Q, then, i) <=> Before(q, P, Q, now, i + 1)
  <2>1. \A k \in 1 .. n - 1 : k + 1 \in 1 .. n /\ (k < i <=> k + 1 < i + 1)
    BY <1>1
  <2>2. \A k \in 1 .. n : k = 1 \/ \E l \in 1 .. n - 1 : k = l + 1
    <3> TAKE k \in 1 .. n
    <3>1. k # 1 => k - 1 \in 1 .. n - 1 /\ k = (k - 1) + 1
      BY <1>1
    <3> QED
      BY <3>1
  <2>3. 1 \in 1 .. n /\ 1 < i + 1
    BY <1>1
  <2>4. (\A k \in 1 .. n : k < i + 1 => q[k] \notin P)
          <=> q[1] \notin P /\ (\A k \in 1 .. n - 1 : k < i => r[k] \notin P)
    BY <1>1, <2>1, <2>2, <2>3
  <2>5. (\A k \in 1 .. n : 1 < k /\ k < i + 1 => q[k] \notin P)
          <=> (\A k \in 1 .. n - 1 : k < i => r[k] \notin P)
    <3>1. \A k \in 1 .. n - 1 : 1 < k + 1
      BY <1>1
    <3>2. ASSUME \A k \in 1 .. n : 1 < k /\ k < i + 1 => q[k] \notin P,
                 NEW l \in 1 .. n - 1, l < i
          PROVE  r[l] \notin P
      BY <1>1, <2>1, <3>1, <3>2
    <3>3. ASSUME \A k \in 1 .. n - 1 : k < i => r[k] \notin P,
                 NEW k \in 1 .. n, 1 < k, k < i + 1
          PROVE  q[k] \notin P
      <4>1. PICK l \in 1 .. n - 1 : k = l + 1
        BY <2>2, <3>3
      <4> QED
        BY <1>1, <2>1, <3>3, <4>1
    <3> QED
      BY <3>2, <3>3
  <2>6. ASSUME NEW j \in 1 .. n - 1
        PROVE  (\A k \in 1 .. n : j + 1 < k /\ k < i + 1 => q[k] \notin P)
                 <=> (\A k \in 1 .. n - 1 : j < k /\ k < i => r[k] \notin P)
    <3>1. \A k \in 1 .. n - 1 : j < k <=> j + 1 < k + 1
      BY <1>1
    <3>2. ~(j + 1 < 1)
      BY <1>1
    <3>3. ASSUME \A k \in 1 .. n : j + 1 < k /\ k < i + 1 => q[k] \notin P,
                 NEW l \in 1 .. n - 1, j < l, l < i
          PROVE  r[l] \notin P
      BY <1>1, <2>1, <3>1, <3>3
    <3>4. ASSUME \A k \in 1 .. n - 1 : j < k /\ k < i => r[k] \notin P,
                 NEW k \in 1 .. n, j + 1 < k, k < i + 1
          PROVE  q[k] \notin P
      <4>1. PICK l \in 1 .. n - 1 : k = l + 1
        BY <2>2, <3>2, <3>4
      <4> QED
        BY <1>1, <2>1, <3>1, <3>4, <4>1
    <3> QED
      BY <3>3, <3>4
  <2> DEFINE A(j) == j < i + 1 /\ q[j] \in Q /\ \A k \in 1 .. n : j < k /\ k < i + 1
             => q[k] \notin P
             B(j) == j < i /\ r[j] \in Q /\ \A k \in 1 .. n - 1 : j < k /\ k < i => r[k] \notin P
             Clear == \A k \in 1 .. n - 1 : k < i => r[k] \notin P
  <2>7. \A j \in 1 .. n - 1 : A(j + 1) <=> B(j)
    BY <1>1, <2>1, <2>6
  <2>8. A(1) <=> q[1] \in Q /\ Clear
    BY <2>3, <2>5
  <2>9. Before(q, P, Q, now, i + 1) <=> (\E j \in 1 .. n : A(j)) \/ (now /\ q[1] \notin P /\ Clear)
    BY <1>1, <2>4 DEF Before
  <2>10. Before(r, P, Q, then, i) <=> (\E j \in 1 .. n - 1 : B(j)) \/ (then /\ Clear)
    BY <1>1 DEF Before
  <2> HIDE DEF A, B, Clear
  <2>11. (\E j \in 1 .. n : A(j)) <=> A(1) \/ \E j \in 1 .. n - 1 : B(j)
    BY <2>1, <2>2, <2>3, <2>7
  <2>12. then <=> (q[1] \in Q \/ (now /\ q[1] \notin P))
    BY <1>a
  <2> QED
    BY <2>8, <2>9, <2>10, <2>11, <2>12
<1>4. 1 \in 1 .. n /\ \A i \in 1 .. n - 1 : i + 1 \in 1 .. n
  BY <1>1
<1>5. Alternates(r, P, Q, U, then)
  BY <1>1, <1>3, <1>4 DEF Alternates
<1>6. (q[1] \in Q => ~now) /\ (q[1] \in U => now)
  BY <1>1, <1>2, <1>4 DEF Alternates
<1> QED
  BY <1>1, <1>5, <1>6 DEF r
=============================================================================
