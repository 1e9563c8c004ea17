------------------------ MODULE ResultHandOffProofs ------------------------
(***************************************************************************)
(* TypeOK, OneCopy and NotAnsweredAgain of ResultHandOff, for every finite *)
(* set of requests and every number of results.  The steps change the list *)
(* and the queue of blocked requests in a few ways; the lemmas say of each *)
(* what it contains afterwards, and the rest of the proof speaks of        *)
(* contents only.                                                          *)
(***************************************************************************)
EXTENDS ResultHandOff, TLAPS

\* The sequences of the model: distinct elements of S.
Distinct(s, S) == s \in Seq(S) /\ IsInjective(s)

LEMMA LenOfSubSeq ==
    ASSUME NEW s, NEW n \in Nat
    PROVE  Len(SubSeq(s, 1, n)) = n
OBVIOUS

\* A request in the queue that is given up, wherever it stands.
LEMMA RemoveFirstOfInjective ==
    ASSUME NEW S, NEW s \in Seq(S), IsInjective(s), NEW e
    PROVE  /\ RemoveFirst(s, e) \in Seq(S)
           /\ IsInjective(RemoveFirst(s, e))
           /\ \A x : Contains(RemoveFirst(s, e), x) <=> x # e /\ Contains(s, x)
<1>1. CASE ~ \E i \in 1 .. Len(s) : s[i] = e
  BY <1>1 DEF RemoveFirst, Contains
<1>2. CASE \E i \in 1 .. Len(s) : s[i] = e
  <2>1. PICK p \in 1 .. Len(s) : s[p] = e
    BY <1>2
  <2>2. {i \in 1 .. Len(s) : s[i] = e} = {p}
    BY <2>1 DEF IsInjective
  <2>3. Min({p}) = p
    BY <2>1 DEF Min
  <2>4. SelectInSeq(s, LAMBDA v : v = e) = p
    BY <2>2, <2>3 DEF SelectInSeq
  <2>5. RemoveFirst(s, e) = SubSeq(s, 1, p - 1) \o SubSeq(s, p + 1, Len(s))
    BY <1>2, <2>4 DEF RemoveFirst, RemoveAt
  <2> DEFINE front == SubSeq(s, 1, p - 1)
             back == SubSeq(s, p + 1, Len(s))
  <2>6. /\ front \in Seq(S) /\ Len(front) = p - 1
        /\ \A i \in 1 .. p - 1 : front[i] = s[i]
    BY <2>1
  <2>7. /\ back \in Seq(S) /\ Len(back) = Len(s) - p
        /\ \A i \in 1 .. Len(s) - p : back[i] = s[i + p]
    BY <2>1
  <2> HIDE DEF front, back
  <2>8. front \o back \in Seq(S) /\ Len(front \o back) = Len(s) - 1
    <3>1. front \o back \in Seq(S) /\ Len(front \o back) = Len(front) + Len(back)
      <4>1. front \in Seq(S) /\ back \in Seq(S)
        BY <2>6, <2>7
      <4> QED  BY <4>1
    <3>2. Len(s) \in Nat
      OBVIOUS
    <3> QED  BY <2>1, <2>6, <2>7, <3>1, <3>2
  <2>9. ASSUME NEW i \in 1 .. Len(s) - 1
        PROVE  (front \o back)[i] = IF i < p THEN s[i] ELSE s[i + 1]
    <3>1. CASE i < p
      BY <2>1, <2>6, <2>7, <3>1
    <3>2. CASE i >= p
      <4>1. i - (p - 1) \in 1 .. Len(s) - p /\ (i - (p - 1)) + p = i + 1
        BY <2>1, <3>2
      <4>2. (front \o back)[i] = back[i - (p - 1)]
        BY <2>1, <2>6, <2>7, <3>2
      <4> QED  BY <2>7, <3>2, <4>1, <4>2
    <3>3. i < p \/ i >= p
      BY <2>1
    <3> QED  BY <2>1, <3>1, <3>2, <3>3
  <2>10. PICK t : /\ RemoveFirst(s, e) = t
                  /\ t \in Seq(S) /\ Len(t) = Len(s) - 1
                  /\ \A i \in 1 .. Len(s) - 1 : t[i] = IF i < p THEN s[i] ELSE s[i + 1]
    BY <2>5, <2>8, <2>9 DEF front, back
  <2> DEFINE at(x) == IF x < p THEN x ELSE x + 1
  <2>13. \A x \in 1 .. Len(s) - 1 : at(x) \in 1 .. Len(s) /\ at(x) # p /\ t[x] = s[at(x)]
    BY <2>1, <2>10
  <2>14. \A x, y \in Nat : at(x) = at(y) => x = y
    BY <2>1
  <2> HIDE DEF at
  <2>15. \A i, j \in 1 .. Len(s) : s[i] = s[j] => i = j
    BY DEF IsInjective
  <2>11. IsInjective(t)
    <3>1. DOMAIN t = 1 .. Len(s) - 1
      BY <2>10
    <3>2. ASSUME NEW i \in 1 .. Len(s) - 1, NEW j \in 1 .. Len(s) - 1, t[i] = t[j]
          PROVE  i = j
      <4>1. s[at(i)] = s[at(j)] /\ at(i) \in 1 .. Len(s) /\ at(j) \in 1 .. Len(s)
        BY <2>13, <3>2
      <4>2. at(i) = at(j)
        BY <2>15, <4>1
      <4> QED  BY <2>14, <4>2
    <3> QED  BY <3>1, <3>2 DEF IsInjective
  <2>12. \A x : Contains(t, x) <=> x # e /\ Contains(s, x)
    <3> TAKE x
    <3>1. ASSUME Contains(t, x) PROVE x # e /\ Contains(s, x)
      <4>1. PICK i \in 1 .. Len(s) - 1 : t[i] = x
        BY <2>10, <3>1 DEF Contains
      <4>2. at(i) \in 1 .. Len(s) /\ at(i) # p /\ s[at(i)] = x
        BY <2>13, <4>1
      <4> QED  BY <2>1, <2>15, <4>2 DEF Contains
    <3>2. ASSUME x # e, Contains(s, x) PROVE Contains(t, x)
      <4>1. PICK i \in 1 .. Len(s) : s[i] = x
        BY <3>2 DEF Contains
      <4>2. i # p
        BY <2>1, <3>2, <4>1
      <4>3. CASE i < p
        BY <2>1, <2>10, <4>1, <4>3 DEF Contains
      <4>4. CASE i > p
        <5>1. i - 1 \in 1 .. Len(t) /\ t[i - 1] = x
          BY <2>1, <2>10, <4>1, <4>4
        <5> QED  BY <5>1 DEF Contains
      <4> QED  BY <2>1, <4>1, <4>2, <4>3, <4>4
    <3> QED  BY <3>1, <3>2
  <2> QED  BY <2>10, <2>11, <2>12
<1> QED  BY <1>1, <1>2

LEMMA EmptyIsDistinct ==
    ASSUME NEW S
    PROVE  Distinct(<<>>, S) /\ \A x : ~ Contains(<<>>, x)
BY DEF Distinct, IsInjective, Contains

\* LPUSH to the list.
LEMMA PushFront ==
    ASSUME NEW S, NEW s, Distinct(s, S), NEW v \in S, ~ Contains(s, v)
    PROVE  /\ Distinct(<<v>> \o s, S)
           /\ \A x : Contains(<<v>> \o s, x) <=> x = v \/ Contains(s, x)
<1> DEFINE t == <<v>> \o s
<1>1. s \in Seq(S) /\ <<v>> \in Seq(S) /\ Len(<<v>>) = 1 /\ <<v>>[1] = v
  BY DEF Distinct
<1>2. t \in Seq(S) /\ Len(t) = Len(s) + 1
  <2>1. t \in Seq(S) /\ Len(t) = Len(<<v>>) + Len(s)
    BY <1>1
  <2> QED  BY <1>1, <2>1
<1>3. t[1] = v /\ \A i \in 1 .. Len(s) : t[i + 1] = s[i]
  BY <1>1
<1> HIDE DEF t
<1>4. \A i \in 1 .. Len(t) : i = 1 \/ (i - 1 \in 1 .. Len(s) /\ t[i] = s[i - 1])
  <2> TAKE i \in 1 .. Len(t)
  <2>1. ASSUME i # 1 PROVE i - 1 \in 1 .. Len(s) /\ (i - 1) + 1 = i
    BY <1>1, <1>2, <2>1
  <2> QED  BY <1>3, <2>1
<1>5. \A i \in 1 .. Len(s) : s[i] # v
  BY DEF Contains
<1>6. \A i, j \in 1 .. Len(s) : s[i] = s[j] => i = j
  BY <1>1 DEF Distinct, IsInjective
<1>7. IsInjective(t)
  <2>1. ASSUME NEW i \in 1 .. Len(t), NEW j \in 1 .. Len(t), t[i] = t[j]
        PROVE  i = j
    <3>1. CASE i = 1 \/ j = 1
      BY <1>3, <1>4, <1>5, <2>1, <3>1
    <3>2. CASE i # 1 /\ j # 1
      <4>1. i - 1 \in 1 .. Len(s) /\ j - 1 \in 1 .. Len(s) /\ s[i - 1] = s[j - 1]
        BY <1>4, <2>1, <3>2
      <4>2. i - 1 = j - 1
        BY <1>6, <4>1
      <4> QED  BY <4>2
    <3> QED  BY <3>1, <3>2
  <2> QED  BY <1>2, <2>1 DEF IsInjective
<1>8. \A x : Contains(t, x) <=> x = v \/ Contains(s, x)
  <2> TAKE x
  <2>1. Contains(t, x) => x = v \/ Contains(s, x)
    BY <1>3, <1>4 DEF Contains
  <2>2. Contains(s, x) => Contains(t, x)
    <3> HAVE Contains(s, x)
    <3>1. PICK i \in 1 .. Len(s) : s[i] = x
      BY DEF Contains
    <3>2. i + 1 \in 1 .. Len(t) /\ t[i + 1] = x
      BY <1>1, <1>2, <1>3, <3>1
    <3> QED  BY <3>2 DEF Contains
  <2>3. Contains(t, v)
    BY <1>1, <1>2, <1>3 DEF Contains
  <2> QED  BY <2>1, <2>2, <2>3
<1> QED  BY <1>2, <1>7, <1>8 DEF Distinct, t

\* A request that begins to wait.
LEMMA AppendLast ==
    ASSUME NEW S, NEW s, Distinct(s, S), NEW v \in S, ~ Contains(s, v)
    PROVE  /\ Distinct(Append(s, v), S)
           /\ \A x : Contains(Append(s, v), x) <=> x = v \/ Contains(s, x)
<1> DEFINE t == Append(s, v)
<1>1. s \in Seq(S)
  BY DEF Distinct
<1>2. t \in Seq(S) /\ Len(t) = Len(s) + 1
  BY <1>1
<1>3. t[Len(s) + 1] = v /\ \A i \in 1 .. Len(s) : t[i] = s[i]
  BY <1>1
<1> HIDE DEF t
<1>4. \A i \in 1 .. Len(t) : i = Len(s) + 1 \/ i \in 1 .. Len(s)
  BY <1>1, <1>2
<1>5. \A i \in 1 .. Len(s) : s[i] # v
  BY DEF Contains
<1>6. \A i, j \in 1 .. Len(s) : s[i] = s[j] => i = j
  BY <1>1 DEF Distinct, IsInjective
<1>7. IsInjective(t)
  <2>1. ASSUME NEW i \in 1 .. Len(t), NEW j \in 1 .. Len(t), t[i] = t[j]
        PROVE  i = j
    BY <1>3, <1>4, <1>5, <1>6, <2>1
  <2> QED  BY <1>2, <2>1 DEF IsInjective
<1>8. \A x : Contains(t, x) <=> x = v \/ Contains(s, x)
  <2> TAKE x
  <2>1. Contains(t, x) => x = v \/ Contains(s, x)
    BY <1>3, <1>4 DEF Contains
  <2>2. Contains(s, x) => Contains(t, x)
    BY <1>1, <1>2, <1>3 DEF Contains
  <2>3. Contains(t, v)
    BY <1>1, <1>2, <1>3 DEF Contains
  <2> QED  BY <2>1, <2>2, <2>3
<1> QED  BY <1>2, <1>7, <1>8 DEF Distinct, t

\* RPOP and BRPOP.
LEMMA PopLast ==
    ASSUME NEW S, NEW s, Distinct(s, S), s # <<>>
    PROVE  /\ Distinct(Front(s), S)
           /\ Last(s) \in S /\ Contains(s, Last(s))
           /\ \A x : Contains(Front(s), x) <=> x # Last(s) /\ Contains(s, x)
<1> DEFINE t == SubSeq(s, 1, Len(s) - 1)
<1>1. s \in Seq(S) /\ Len(s) \in Nat \ {0}
  <2>1. s \in Seq(S)
    BY DEF Distinct
  <2> QED  BY <2>1
<1>2. t \in Seq(S) /\ Len(t) = Len(s) - 1
  <2>1. \A i \in 1 .. Len(s) - 1 : s[i] \in S
    BY <1>1
  <2>2. Len(s) - 1 \in Nat
    BY <1>1
  <2>3. t \in Seq(S)
    BY <1>1, <2>1, <2>2
  <2>4. Len(t) = Len(s) - 1
    BY <2>2, LenOfSubSeq
  <2> QED  BY <2>3, <2>4
<1>3. \A i \in 1 .. Len(s) - 1 : t[i] = s[i]
  BY <1>1
<1>4. Front(s) = t /\ Last(s) = s[Len(s)] /\ Last(s) \in S /\ Contains(s, Last(s))
  BY <1>1 DEF Front, Last, Contains
<1> HIDE DEF t
<1>5. \A i, j \in 1 .. Len(s) : s[i] = s[j] => i = j
  BY <1>1 DEF Distinct, IsInjective
<1>6. IsInjective(t)
  <2>1. ASSUME NEW i \in 1 .. Len(t), NEW j \in 1 .. Len(t), t[i] = t[j]
        PROVE  i = j
    BY <1>1, <1>2, <1>3, <1>5, <2>1
  <2> QED  BY <1>2, <2>1 DEF IsInjective
<1>7. \A x : Contains(t, x) <=> x # s[Len(s)] /\ Contains(s, x)
  BY <1>1, <1>2, <1>3, <1>5 DEF Contains
<1> QED  BY <1>2, <1>4, <1>6, <1>7 DEF Distinct

\* The request that has been blocked longest is served.
LEMMA ServeFirst ==
    ASSUME NEW S, NEW s, Distinct(s, S), s # <<>>
    PROVE  /\ Distinct(Tail(s), S)
           /\ Head(s) \in S /\ Contains(s, Head(s))
           /\ \A x : Contains(Tail(s), x) <=> x # Head(s) /\ Contains(s, x)
<1> DEFINE t == Tail(s)
<1>1. s \in Seq(S) /\ Len(s) \in Nat \ {0}
  <2>1. s \in Seq(S)
    BY DEF Distinct
  <2> QED  BY <2>1
<1>2. t \in Seq(S) /\ Len(t) = Len(s) - 1
  <2>1. \A i \in 1 .. Len(s) - 1 : s[i] \in S
    BY <1>1
  <2>2. Len(s) - 1 \in Nat
    BY <1>1
  <2>3. t \in Seq(S)
    BY <1>1, <2>1, <2>2
  <2>4. Len(t) = Len(s) - 1
    BY <2>2, LenOfSubSeq
  <2> QED  BY <2>3, <2>4
<1>3. \A i \in 1 .. Len(t) : t[i] = s[i + 1]
  BY <1>1
<1>4. Head(s) = s[1] /\ Head(s) \in S /\ Contains(s, Head(s))
  BY <1>1 DEF Contains
<1> HIDE DEF t
<1>5. \A i, j \in 1 .. Len(s) : s[i] = s[j] => i = j
  BY <1>1 DEF Distinct, IsInjective
<1>6. IsInjective(t)
  <2>1. ASSUME NEW i \in 1 .. Len(t), NEW j \in 1 .. Len(t), t[i] = t[j]
        PROVE  i = j
    <3>1. i + 1 \in 1 .. Len(s) /\ j + 1 \in 1 .. Len(s) /\ s[i + 1] = s[j + 1]
      BY <1>1, <1>2, <1>3, <2>1
    <3>2. i + 1 = j + 1
      BY <1>5, <3>1
    <3> QED  BY <3>2
  <2> QED  BY <1>2, <2>1 DEF IsInjective
<1>7. \A x : Contains(t, x) <=> x # s[1] /\ Contains(s, x)
  <2> TAKE x
  <2>1. ASSUME Contains(t, x) PROVE x # s[1] /\ Contains(s, x)
    <3>1. PICK i \in 1 .. Len(t) : t[i] = x
      BY <2>1 DEF Contains
    <3>2. i + 1 \in 1 .. Len(s) /\ i + 1 # 1 /\ s[i + 1] = x /\ 1 \in 1 .. Len(s)
      BY <1>1, <1>2, <1>3, <3>1
    <3> QED  BY <1>5, <3>2 DEF Contains
  <2>2. ASSUME x # s[1], Contains(s, x) PROVE Contains(t, x)
    <3>1. PICK i \in 1 .. Len(s) : s[i] = x
      BY <2>2 DEF Contains
    <3>2. i - 1 \in 1 .. Len(t) /\ (i - 1) + 1 = i
      BY <1>1, <1>2, <2>2, <3>1
    <3>3. t[i - 1] = x
      BY <1>3, <3>1, <3>2
    <3> QED  BY <3>2, <3>3 DEF Contains
  <2> QED  BY <2>1, <2>2
<1> QED  BY <1>2, <1>4, <1>6, <1>7 DEF Distinct, t

-----------------------------------------------------------------------------
\* A result that is somewhere has been set.
NoneIsNewer ==
    /\ \A x \in Results : Contains(list, x) => x <= set
    /\ \A c \in Clients : got[c] <= set

\* A request that is about to hand back a result has one.
HandsAreFull == \A c \in InHands : got[c] \in Results

\* With the local driver nothing is handed back.  A resolved promise that nobody
\* has taken has one value, newer than all that was answered, and nobody waits.
OnePromise ==
    /\ \A c \in Clients :
          /\ pc[c] \notin {"checked", "handing", "handed"}
          /\ answeredBefore[c] <= answered
    /\ answered <= set
    /\ \A x \in Results : Contains(list, x) => answered < x /\ blocked = <<>>
    /\ \A x, y \in Results : Contains(list, x) /\ Contains(list, y) => x = y

HandOffInv ==
    /\ TypeOK /\ OneCopy /\ NotAnsweredAgain
    /\ NoneIsNewer /\ HandsAreFull
    /\ driver = "local" => OnePromise

LEMMA InitHandOffInv == Init => HandOffInv
<1> SUFFICES ASSUME Init PROVE HandOffInv
  OBVIOUS
<1>1. /\ Distinct(<<>>, Results) /\ Distinct(<<>>, Clients)
      /\ \A x : ~ Contains(<<>>, x)
  BY EmptyIsDistinct
<1>2. 0 \in 0 .. MaxResults
  BY ResultsAssumption
<1>3. TypeOK
  <2>1. /\ list \in Seq(Results) /\ blocked \in Seq(Clients) /\ IsInjective(blocked)
    BY <1>1 DEF Init, Distinct
  <2>2. \A c \in Clients : pc[c] = "blocked" <=> Contains(blocked, c)
    BY <1>1 DEF Init
  <2> QED  BY <1>2, <2>1, <2>2 DEF Init, TypeOK, Pcs
<1>4. OneCopy
  BY <1>1 DEF Init, OneCopy, InHands, Distinct
<1>5. NotAnsweredAgain /\ NoneIsNewer /\ HandsAreFull /\ OnePromise
  BY <1>1 DEF Init, NotAnsweredAgain, NoneIsNewer, HandsAreFull, InHands, OnePromise
<1> QED  BY <1>3, <1>4, <1>5 DEF HandOffInv

LEMMA NewestOfTwo ==
    ASSUME TypeOK, NEW x \in 0 .. MaxResults
    PROVE  /\ Newest({x}) \in 0 .. MaxResults
           /\ driver = "local" => Newest({x}) = IF x >= answered THEN x ELSE answered
<1>1. MaxResults \in Nat /\ answered \in 0 .. MaxResults
  BY ResultsAssumption DEF TypeOK
<1>2. {x} \cup {answered} = {x, answered}
  OBVIOUS
<1>3. Max({x, answered}) = IF x >= answered THEN x ELSE answered
  BY <1>1 DEF Max
<1> QED  BY <1>1, <1>2, <1>3 DEF Newest

LEMMA HandOffParts ==
    ASSUME HandOffInv
    PROVE  /\ MaxResults \in Nat
           /\ Distinct(list, Results) /\ Distinct(blocked, Clients)
           /\ \A S : Distinct(<<>>, S)
           /\ \A x : ~ Contains(<<>>, x)
BY ResultsAssumption, EmptyIsDistinct DEF HandOffInv, TypeOK, OneCopy, Distinct

\* A request takes a result from the list, or finds none.
LEMMA PopKeepsInv ==
    ASSUME HandOffInv, NEW c \in Clients, NEW found, NEW missing,
           Pop(c, found, missing),
           found = "answered" \/ (found = "handing" /\ driver = "redis"),
           missing \in {"missed", "waitError"} \/ list # <<>>,
           pc[c] \notin {"blocked", "handing"},
           \/ answeredBefore' = answeredBefore
           \/ answeredBefore' = [answeredBefore EXCEPT ![c] = answered],
           UNCHANGED <<driver, disturbed>>
    PROVE  HandOffInv'
<1>1. /\ MaxResults \in Nat
      /\ Distinct(list, Results) /\ Distinct(blocked, Clients)
  BY HandOffParts
<1>2. CASE list = <<>>
  <2>1. /\ UNCHANGED <<queued, blocked, set, owed, driver, disturbed, list, promise, got, answered>>
        /\ pc' = [pc EXCEPT ![c] = missing]
        /\ missing \in {"missed", "waitError"}
    BY <1>2 DEF Pop
  <2>2. TypeOK'
    BY <2>1 DEF HandOffInv, TypeOK, Pcs
  <2>3. OneCopy' /\ HandsAreFull'
    BY <2>1 DEF HandOffInv, TypeOK, OneCopy, HandsAreFull, InHands
  <2>4. NotAnsweredAgain'
    BY <2>1 DEF HandOffInv, TypeOK, NotAnsweredAgain
  <2>5. NoneIsNewer'
    BY <2>1 DEF HandOffInv, NoneIsNewer
  <2>6. (driver = "local" => OnePromise)'
    BY <1>1, <2>1 DEF HandOffInv, TypeOK, OnePromise
  <2> QED  BY <2>2, <2>3, <2>4, <2>5, <2>6 DEF HandOffInv
<1>3. CASE list # <<>>
  <2> DEFINE v == Last(list)
  <2>1. /\ UNCHANGED <<queued, blocked, set, owed, driver, disturbed>>
        /\ pc' = [pc EXCEPT ![c] = found]
        /\ got' = [got EXCEPT ![c] = v]
        /\ answered' = IF found = "answered" THEN Newest({v}) ELSE answered
        /\ list' = Front(list)
        /\ promise' = FALSE
    BY <1>3 DEF Pop
  <2>2. /\ Distinct(list', Results)
        /\ v \in Results /\ Contains(list, v)
        /\ \A x : Contains(list', x) <=> x # v /\ Contains(list, x)
    BY <1>1, <1>3, <2>1, PopLast
  <2>3. v \in 1 .. MaxResults /\ v \in 0 .. MaxResults
    BY <1>1, <2>2 DEF Results
  <2>4. /\ Newest({v}) \in 0 .. MaxResults
        /\ driver = "local" => Newest({v}) = IF v >= answered THEN v ELSE answered
    BY <2>3, NewestOfTwo DEF HandOffInv
  <2> HIDE DEF v
  <2>5. TypeOK'
    BY <1>1, <2>1, <2>2, <2>3, <2>4 DEF HandOffInv, TypeOK, Pcs, Distinct
  <2>6. OneCopy' /\ HandsAreFull'
    <3>1. \A d \in InHands' : d # c => d \in InHands /\ got'[d] = got[d]
      BY <2>1 DEF HandOffInv, TypeOK, InHands
    <3>2. got'[c] = v
      BY <2>1 DEF HandOffInv, TypeOK
    <3>3. \A d \in InHands : ~ Contains(list, got[d])
      BY DEF HandOffInv, OneCopy
    <3>4. \A d \in InHands : got[d] # v
      BY <2>2, <3>3
    <3>5. \A d, e \in InHands : got[d] = got[e] => d = e
      BY DEF HandOffInv, OneCopy
    <3>6. IsInjective(list')
      BY <2>2 DEF Distinct
    <3>7. \A d \in InHands' : ~ Contains(list', got'[d])
      BY <2>2, <3>1, <3>2, <3>3
    <3>8. \A d, e \in InHands' : got'[d] = got'[e] => d = e
      BY <3>1, <3>2, <3>4, <3>5
    <3>9. \A d \in InHands' : got'[d] \in Results
      BY <2>2, <3>1, <3>2 DEF HandOffInv, HandsAreFull
    <3> QED  BY <3>6, <3>7, <3>8, <3>9 DEF OneCopy, HandsAreFull
  <2>7. NoneIsNewer'
    <3>1. v <= set
      BY <2>2 DEF HandOffInv, NoneIsNewer
    <3> QED  BY <2>1, <2>2, <3>1 DEF HandOffInv, TypeOK, NoneIsNewer
  <2>8. ASSUME driver' = "local" PROVE OnePromise' /\ NotAnsweredAgain'
    <3>1. driver = "local" /\ found = "answered" /\ OnePromise
      BY <2>1, <2>8 DEF HandOffInv
    <3>2. answered < v /\ v <= set
      BY <2>2, <3>1 DEF OnePromise, HandOffInv, NoneIsNewer
    <3>3. answered' = v
      BY <1>1, <2>1, <2>3, <2>4, <3>1, <3>2 DEF HandOffInv, TypeOK
    <3>4. \A x \in Results : ~ Contains(list', x)
      BY <2>2, <3>1 DEF OnePromise
    <3>5. \A d \in Clients : /\ answeredBefore'[d] <= answered
                             /\ answeredBefore'[d] \in 0 .. MaxResults
      BY <1>1, <3>1 DEF OnePromise, HandOffInv, TypeOK
    <3>6. \A d \in Clients : answeredBefore'[d] <= answered' /\ answered' <= set'
      BY <1>1, <2>1, <2>3, <3>2, <3>3, <3>5 DEF HandOffInv, TypeOK
    <3>7. \A d \in Clients : pc'[d] \notin {"checked", "handing", "handed"}
      BY <2>1, <3>1 DEF OnePromise, HandOffInv, TypeOK
    <3>8. OnePromise'
      BY <3>4, <3>6, <3>7 DEF OnePromise, Results
    <3>9. ASSUME NEW d \in Clients, pc'[d] = "answered" PROVE got'[d] > answeredBefore'[d]
      <4>1. CASE d = c
        BY <1>1, <2>1, <2>3, <3>2, <3>5, <4>1 DEF HandOffInv, TypeOK
      <4>2. CASE d # c
        BY <2>1, <3>1, <3>9, <4>2 DEF HandOffInv, TypeOK, NotAnsweredAgain
      <4> QED  BY <4>1, <4>2
    <3> QED  BY <3>8, <3>9 DEF NotAnsweredAgain
  <2> QED  BY <2>5, <2>6, <2>7, <2>8 DEF HandOffInv, NotAnsweredAgain
<1> QED  BY <1>2, <1>3

\* A request goes on and takes nothing from the store.
LEMMA MoveKeepsInv ==
    ASSUME HandOffInv, NEW c \in Clients, NEW s,
           pc' = [pc EXCEPT ![c] = s],
           s \in {"idle", "missed", "added", "waitError"} \/ (s = "checked" /\ driver = "redis"),
           Distinct(blocked', Clients),
           \A x : Contains(blocked', x) <=> x # c /\ Contains(blocked, x),
           blocked = <<>> => blocked' = <<>>,
           got' = got \/ got' = [got EXCEPT ![c] = 0],
           \/ answeredBefore' = answeredBefore
           \/ answeredBefore' = [answeredBefore EXCEPT ![c] = 0],
           got' = got \/ s = "idle",
           queued' \in BOOLEAN, disturbed' \in BOOLEAN, owed' \subseteq Clients,
           UNCHANGED <<driver, list, promise, set, answered>>
    PROVE  HandOffInv'
<1>1. /\ MaxResults \in Nat
      /\ Distinct(list, Results)
  BY HandOffParts
<1>2. TypeOK'
  <2>1. s \in Pcs /\ s # "blocked"
    BY DEF Pcs
  <2>2. pc' \in [Clients -> Pcs]
    BY <2>1 DEF HandOffInv, TypeOK
  <2>3. 0 \in 0 .. MaxResults
    BY <1>1
  <2>4. /\ got' \in [Clients -> 0 .. MaxResults]
        /\ answeredBefore' \in [Clients -> 0 .. MaxResults]
    BY <2>3 DEF HandOffInv, TypeOK
  <2>5. \A d \in Clients : pc'[d] = "blocked" <=> Contains(blocked', d)
    BY <2>1 DEF HandOffInv, TypeOK
  <2> QED  BY <1>1, <2>2, <2>4, <2>5 DEF HandOffInv, TypeOK, Distinct
<1>3. \A d \in InHands' : d # c /\ d \in InHands /\ got'[d] = got[d]
  BY DEF HandOffInv, TypeOK, InHands
<1>4. OneCopy' /\ HandsAreFull'
  BY <1>3 DEF HandOffInv, OneCopy, HandsAreFull
<1>5. NoneIsNewer'
  <2>1. \A d \in Clients : got'[d] = got[d] \/ got'[d] = 0
    BY DEF HandOffInv, TypeOK
  <2>2. 0 <= set
    BY <1>1 DEF HandOffInv, TypeOK
  <2> QED  BY <2>1, <2>2 DEF HandOffInv, NoneIsNewer
<1>6. NotAnsweredAgain'
  BY DEF HandOffInv, TypeOK, NotAnsweredAgain
<1>7. (driver = "local" => OnePromise)'
  <2> SUFFICES ASSUME driver' = "local" PROVE OnePromise'
    OBVIOUS
  <2>1. driver = "local" /\ OnePromise
    BY DEF HandOffInv
  <2>2. \A d \in Clients : answeredBefore'[d] <= answered
    <3>1. \A d \in Clients :
            answeredBefore'[d] = answeredBefore[d] \/ answeredBefore'[d] = 0
      BY DEF HandOffInv, TypeOK
    <3>2. 0 <= answered
      BY <1>1 DEF HandOffInv, TypeOK
    <3> QED  BY <2>1, <3>1, <3>2 DEF OnePromise
  <2>3. \A d \in Clients : pc'[d] \notin {"checked", "handing", "handed"}
    BY <2>1 DEF HandOffInv, TypeOK, OnePromise
  <2> QED  BY <2>1, <2>2, <2>3 DEF OnePromise
<1> QED  BY <1>2, <1>4, <1>5, <1>6, <1>7 DEF HandOffInv

\* A request that takes its place among those that are blocked.
LEMMA WaitKeepsInv ==
    ASSUME HandOffInv, NEW c \in Clients,
           list = <<>>, pc[c] \notin {"blocked", "handing"},
           pc' = [pc EXCEPT ![c] = "blocked"],
           blocked' = Append(blocked, c), promise' \in BOOLEAN,
           UNCHANGED <<driver, queued, list, set, got, answered, answeredBefore,
                       owed, disturbed>>
    PROVE  HandOffInv'
<1>1. /\ MaxResults \in Nat
      /\ Distinct(list, Results) /\ Distinct(blocked, Clients)
      /\ \A x : ~ Contains(list, x)
  BY HandOffParts
<1>2. ~ Contains(blocked, c)
  BY DEF HandOffInv, TypeOK
<1>3. /\ Distinct(blocked', Clients)
      /\ \A x : Contains(blocked', x) <=> x = c \/ Contains(blocked, x)
  BY <1>1, <1>2, AppendLast
<1>4. TypeOK'
  BY <1>1, <1>3 DEF HandOffInv, TypeOK, Pcs, Distinct
<1>5. \A d \in InHands' : d \in InHands
  BY DEF HandOffInv, TypeOK, InHands
<1>6. OneCopy' /\ HandsAreFull'
  BY <1>5 DEF HandOffInv, OneCopy, HandsAreFull
<1>7. NoneIsNewer' /\ NotAnsweredAgain'
  BY DEF HandOffInv, TypeOK, NoneIsNewer, NotAnsweredAgain
<1>8. (driver = "local" => OnePromise)'
  BY <1>1 DEF HandOffInv, TypeOK, OnePromise
<1> QED  BY <1>4, <1>6, <1>7, <1>8 DEF HandOffInv

\* Redis: a result that is nowhere else is pushed.
LEMMA PushKeepsInv ==
    ASSUME HandOffInv, driver = "redis", NEW v \in Results, NEW p, Push(v, p, got),
           p \in [Clients -> Pcs],
           \A c \in Clients :
              /\ p[c] = "blocked" <=> pc[c] = "blocked"
              /\ p[c] = "handing" => pc[c] = "handing" /\ got[c] # v,
           ~ Contains(list, v),
           set' \in 0 .. MaxResults, set <= set', v <= set',
           queued' \in BOOLEAN, owed' \subseteq Clients,
           UNCHANGED <<driver, promise, answered, answeredBefore, disturbed>>
    PROVE  HandOffInv'
<1>1. /\ MaxResults \in Nat
      /\ Distinct(list, Results) /\ Distinct(blocked, Clients)
      /\ \A S : Distinct(<<>>, S)
      /\ \A x : ~ Contains(<<>>, x)
  BY HandOffParts
<1>2. v \in 1 .. MaxResults /\ v \in 0 .. MaxResults
  BY <1>1 DEF Results
<1>3. \A d \in Clients : p[d] = "handing" => d \in InHands /\ got[d] # v
  BY DEF InHands
<1>4. /\ \A d \in InHands : ~ Contains(list, got[d])
      /\ \A d, e \in InHands : got[d] = got[e] => d = e
  BY DEF HandOffInv, OneCopy
<1>5. \A d \in Clients : got[d] \in 0 .. MaxResults /\ got[d] <= set'
  BY <1>1 DEF HandOffInv, TypeOK, NoneIsNewer
<1>6. \A x \in Results : Contains(list, x) => x <= set'
  BY <1>1 DEF HandOffInv, TypeOK, NoneIsNewer, Results
<1>7. (NotAnsweredAgain /\ (driver = "local" => OnePromise))'
  BY DEF NotAnsweredAgain
<1>8. CASE blocked = <<>>
  <2>1. list' = <<v>> \o list /\ pc' = p /\ got' = got /\ blocked' = blocked
    BY <1>8 DEF Push
  <2>2. /\ Distinct(list', Results)
        /\ \A x : Contains(list', x) <=> x = v \/ Contains(list, x)
    BY <1>1, <2>1, PushFront
  <2>3. TypeOK'
    BY <1>1, <2>1, <2>2 DEF HandOffInv, TypeOK, Distinct
  <2>4. \A d \in InHands' : d \in InHands /\ got'[d] = got[d] /\ got[d] # v
    BY <1>3, <2>1 DEF InHands
  <2>5. OneCopy' /\ HandsAreFull'
    BY <1>4, <2>2, <2>4 DEF OneCopy, Distinct, HandOffInv, HandsAreFull
  <2>6. NoneIsNewer'
    BY <1>5, <1>6, <2>1, <2>2 DEF NoneIsNewer
  <2> QED  BY <1>7, <2>3, <2>5, <2>6 DEF HandOffInv
<1>9. CASE blocked # <<>>
  <2> DEFINE h == Head(blocked)
  <2>1. /\ blocked' = Tail(blocked) /\ list' = list
        /\ pc' = [p EXCEPT ![h] = "handing"]
        /\ got' = [got EXCEPT ![h] = v]
    BY <1>9 DEF Push
  <2>2. /\ Distinct(blocked', Clients)
        /\ h \in Clients /\ Contains(blocked, h)
        /\ \A x : Contains(blocked', x) <=> x # h /\ Contains(blocked, x)
    BY <1>1, <1>9, <2>1, ServeFirst
  <2> HIDE DEF h
  <2>3. TypeOK'
    BY <1>1, <1>2, <2>1, <2>2 DEF HandOffInv, TypeOK, Distinct, Pcs
  <2>4. \A d \in InHands' : d # h => d \in InHands /\ got'[d] = got[d] /\ got[d] # v
    BY <1>3, <2>1, <2>2 DEF InHands, HandOffInv, TypeOK
  <2>5. got'[h] = v
    BY <2>1, <2>2 DEF HandOffInv, TypeOK
  <2>6. OneCopy' /\ HandsAreFull'
    <3>1. IsInjective(list')
      BY <1>1, <2>1 DEF Distinct
    <3>2. \A d \in InHands' : ~ Contains(list', got'[d])
      BY <1>4, <2>1, <2>4, <2>5
    <3>3. \A d, e \in InHands' : got'[d] = got'[e] => d = e
      BY <1>4, <2>4, <2>5
    <3>4. \A d \in InHands' : got'[d] \in Results
      BY <2>4, <2>5 DEF HandOffInv, HandsAreFull
    <3> QED  BY <3>1, <3>2, <3>3, <3>4 DEF OneCopy, HandsAreFull
  <2>7. NoneIsNewer'
    BY <1>5, <1>6, <2>1, <2>2 DEF NoneIsNewer, HandOffInv, TypeOK
  <2> QED  BY <1>7, <2>3, <2>6, <2>7 DEF HandOffInv
<1> QED  BY <1>8, <1>9

\* Local: an execution ends and resolves the promise.
LEMMA ResolveKeepsInv ==
    ASSUME HandOffInv, driver = "local", SetResult, UNCHANGED <<driver, disturbed>>,
           ResolvePromise(set + 1), owed' \subseteq Clients
    PROVE  HandOffInv'
<1> DEFINE v == set + 1
<1>1. /\ MaxResults \in Nat
      /\ Distinct(list, Results) /\ Distinct(<<>>, Results) /\ Distinct(<<>>, Clients)
      /\ \A x : ~ Contains(<<>>, x)
  BY HandOffParts
<1>2. /\ set' = v /\ queued' = FALSE /\ answeredBefore' = answeredBefore
      /\ set < MaxResults /\ OnePromise
  BY DEF SetResult, HandOffInv
<1>3. v \in Results /\ v \in 1 .. MaxResults /\ v \in 0 .. MaxResults /\ set < v
  BY <1>1, <1>2 DEF HandOffInv, TypeOK, Results
<1>4. /\ \A d \in Clients : /\ got[d] \in 0 .. MaxResults /\ got[d] <= set
                            /\ answeredBefore[d] \in 0 .. MaxResults
                            /\ answeredBefore[d] <= answered
      /\ answered \in 0 .. MaxResults /\ answered <= set /\ set \in 0 .. MaxResults
  BY <1>2 DEF HandOffInv, TypeOK, NoneIsNewer, OnePromise
<1>5. \A x \in Results : Contains(list, x) => x <= set
  BY DEF HandOffInv, NoneIsNewer
<1> HIDE DEF v
<1>6. CASE blocked = <<>>
  <2>1. /\ list' = IF list = <<>> THEN <<v>> ELSE list
        /\ promise' = TRUE
        /\ UNCHANGED <<blocked, pc, got, answered>>
    BY <1>6 DEF ResolvePromise, v
  <2>2. <<v>> = <<v>> \o <<>>
    OBVIOUS
  <2>3. Distinct(<<v>>, Results) /\ \A x : Contains(<<v>>, x) <=> x = v
    <3>1. /\ Distinct(<<v>> \o <<>>, Results)
          /\ \A x : Contains(<<v>> \o <<>>, x) <=> x = v \/ Contains(<<>>, x)
      BY <1>1, <1>3, PushFront
    <3> QED  BY <1>1, <2>2, <3>1
  <2>4. /\ Distinct(list', Results)
        /\ \/ \A x : Contains(list', x) <=> x = v
           \/ \A x : Contains(list', x) <=> Contains(list, x)
    BY <1>1, <2>1, <2>3
  <2>5. TypeOK'
    BY <1>2, <1>3, <2>1, <2>4 DEF HandOffInv, TypeOK, Distinct
  <2>6. InHands' = {}
    BY <1>2, <2>1 DEF InHands, OnePromise
  <2>7. OneCopy' /\ HandsAreFull'
    BY <2>4, <2>6 DEF OneCopy, HandsAreFull, Distinct
  <2>8. NoneIsNewer'
    <3>1. \A x \in Results : Contains(list', x) => x <= v
      BY <1>1, <1>3, <1>4, <1>5, <2>4 DEF Results
    <3>2. \A d \in Clients : got'[d] <= v
      BY <1>1, <1>3, <1>4, <2>1
    <3> QED  BY <1>2, <3>1, <3>2 DEF NoneIsNewer
  <2>9. NotAnsweredAgain'
    BY <1>2, <2>1 DEF HandOffInv, NotAnsweredAgain
  <2>10. OnePromise'
    <3>1. \A d \in Clients : /\ pc'[d] \notin {"checked", "handing", "handed"}
                             /\ answeredBefore'[d] <= answered'
      BY <1>2, <2>1 DEF OnePromise
    <3>2. answered' <= set'
      BY <1>2, <1>3, <1>4, <2>1
    <3>3. \A x \in Results : Contains(list', x) => answered' < x /\ blocked' = <<>>
      BY <1>2, <1>3, <1>4, <1>6, <2>1, <2>4 DEF OnePromise
    <3>4. \A x, y \in Results : Contains(list', x) /\ Contains(list', y) => x = y
      BY <1>2, <2>4 DEF OnePromise
    <3> QED  BY <3>1, <3>2, <3>3, <3>4 DEF OnePromise
  <2> QED  BY <2>5, <2>7, <2>8, <2>9, <2>10 DEF HandOffInv
<1>7. CASE blocked # <<>>
  <2>1. /\ blocked' = <<>> /\ promise' = FALSE /\ list' = list
        /\ pc' = [c \in Clients |-> IF Contains(blocked, c) THEN "answered" ELSE pc[c]]
        /\ got' = [c \in Clients |-> IF Contains(blocked, c) THEN v ELSE got[c]]
        /\ answered' = Newest({v})
    BY <1>7 DEF ResolvePromise, v
  <2>2. answered' = v
    BY <1>3, <1>4, <2>1, NewestOfTwo DEF HandOffInv
  <2>3. TypeOK'
    BY <1>1, <1>2, <1>3, <2>1, <2>2 DEF HandOffInv, TypeOK, Distinct, Pcs
  <2>4. \A x \in Results : ~ Contains(list, x)
    BY <1>2, <1>7 DEF OnePromise
  <2>5. \A d \in Clients : pc'[d] \notin {"checked", "handing", "handed"}
    BY <1>2, <2>1 DEF OnePromise
  <2>6. OneCopy' /\ HandsAreFull'
    BY <1>1, <2>1, <2>5 DEF OneCopy, HandsAreFull, InHands, Distinct
  <2>7. NoneIsNewer'
    BY <1>2, <1>3, <1>4, <2>1, <2>4 DEF NoneIsNewer
  <2>8. NotAnsweredAgain'
    BY <1>2, <1>3, <1>4, <2>1 DEF HandOffInv, NotAnsweredAgain
  <2>9. OnePromise'
    <3>1. \A d \in Clients : answeredBefore'[d] <= answered'
      BY <1>2, <1>3, <1>4, <2>2
    <3>2. answered' <= set'
      BY <1>2, <1>3, <2>2
    <3> QED  BY <2>1, <2>4, <2>5, <3>1, <3>2 DEF OnePromise
  <2> QED  BY <2>3, <2>6, <2>7, <2>8, <2>9 DEF HandOffInv
<1> QED  BY <1>6, <1>7

LEMMA SetResultKeepsInv ==
    ASSUME HandOffInv, SetResult, UNCHANGED <<driver, disturbed>>
    PROVE  HandOffInv'
<1>1. /\ MaxResults \in Nat
      /\ Distinct(list, Results) /\ Distinct(blocked, Clients)
  BY HandOffParts
<1>2. owed' \subseteq Clients
  <2>1. \A i \in DOMAIN blocked : blocked[i] \in Clients
    BY <1>1 DEF Distinct
  <2> QED  BY <2>1 DEF SetResult, HandOffInv, TypeOK, Range
<1>3. CASE driver = "local"
  BY <1>2, <1>3, ResolveKeepsInv DEF SetResult
<1>4. CASE driver = "redis"
  <2> DEFINE v == set + 1
  <2>1. /\ Push(v, pc, got) /\ set' = v /\ queued' = FALSE
        /\ set < MaxResults
        /\ UNCHANGED <<promise, answered, answeredBefore>>
    BY <1>4 DEF SetResult
  <2>2. v \in Results /\ v \in 0 .. MaxResults /\ set < v /\ set <= v /\ v <= v
    BY <1>1, <2>1 DEF HandOffInv, TypeOK, Results
  <2> HIDE DEF v
  <2>3. ~ Contains(list, v)
    BY <1>1, <2>2 DEF HandOffInv, TypeOK, NoneIsNewer, Results
  <2>4. \A d \in Clients : got[d] # v
    BY <1>1, <2>2 DEF HandOffInv, TypeOK, NoneIsNewer
  <2>5. pc \in [Clients -> Pcs]
    BY DEF HandOffInv, TypeOK
  <2> QED  BY <1>2, <1>4, <2>1, <2>2, <2>3, <2>4, <2>5, PushKeepsInv
<1> QED  BY <1>3, <1>4 DEF HandOffInv, TypeOK

LEMMA HandBackKeepsInv ==
    ASSUME HandOffInv, NEW c \in Clients, HandBack(c), UNCHANGED <<driver, disturbed>>
    PROVE  HandOffInv'
<1>1. MaxResults \in Nat
  BY HandOffParts
<1>2. /\ pc[c] = "handing"
      /\ Push(got[c], [pc EXCEPT ![c] = "handed"], got)
      /\ UNCHANGED <<queued, promise, set, answered, answeredBefore, owed>>
  BY DEF HandBack
<1>3. driver = "redis"
  BY <1>2 DEF HandOffInv, TypeOK, OnePromise
<1> DEFINE p == [pc EXCEPT ![c] = "handed"]
<1>4. p \in [Clients -> Pcs]
  BY DEF HandOffInv, TypeOK, Pcs
<1>5. \A d \in Clients :
        /\ p[d] = "blocked" <=> pc[d] = "blocked"
        /\ p[d] = "handing" => pc[d] = "handing" /\ got[d] # got[c]
  BY <1>2 DEF HandOffInv, TypeOK, OneCopy, InHands
<1>6. ~ Contains(list, got[c])
  BY <1>2 DEF HandOffInv, OneCopy, InHands
<1>7. got[c] \in Results
  BY <1>2 DEF HandOffInv, HandsAreFull, InHands
<1>8. set \in 0 .. MaxResults /\ set <= set /\ got[c] <= set
  BY <1>1 DEF HandOffInv, TypeOK, NoneIsNewer
<1>9. queued' \in BOOLEAN /\ owed' \subseteq Clients
  BY <1>2 DEF HandOffInv, TypeOK
<1> HIDE DEF p
<1> QED  BY <1>2, <1>3, <1>4, <1>5, <1>6, <1>7, <1>8, <1>9, PushKeepsInv DEF p

LEMMA DropSpareKeepsInv ==
    ASSUME HandOffInv, NEW c \in Clients, DropSpare(c), UNCHANGED <<driver, disturbed>>
    PROVE  HandOffInv'
<1>1. MaxResults \in Nat /\ Distinct(list, Results)
  BY HandOffParts
<1>2. /\ pc[c] = "handed" /\ pc' = [pc EXCEPT ![c] = "answered"]
      /\ list' = IF list = <<>> THEN list ELSE Front(list)
      /\ answered' = Newest({got[c]})
      /\ UNCHANGED <<queued, blocked, promise, set, got, answeredBefore, owed>>
  BY DEF DropSpare
<1>3. driver = "redis"
  BY <1>2 DEF HandOffInv, TypeOK, OnePromise
<1>4. Distinct(list', Results) /\ \A x : Contains(list', x) => Contains(list, x)
  BY <1>1, <1>2, PopLast
<1>5. Newest({got[c]}) \in 0 .. MaxResults
  BY NewestOfTwo DEF HandOffInv, TypeOK
<1>6. TypeOK'
  BY <1>1, <1>2, <1>4, <1>5 DEF HandOffInv, TypeOK, Pcs, Distinct
<1>7. \A d \in InHands' : d \in InHands /\ got'[d] = got[d]
  BY <1>2 DEF HandOffInv, TypeOK, InHands
<1>8. OneCopy' /\ HandsAreFull'
  BY <1>4, <1>7 DEF HandOffInv, OneCopy, HandsAreFull, Distinct
<1>9. NoneIsNewer'
  BY <1>2, <1>4 DEF HandOffInv, NoneIsNewer
<1>10. (NotAnsweredAgain /\ (driver = "local" => OnePromise))'
  BY <1>3 DEF NotAnsweredAgain
<1> QED  BY <1>6, <1>8, <1>9, <1>10 DEF HandOffInv

\* Nothing changes but whether the query has a definition.
LEMMA QueuedKeepsInv ==
    ASSUME HandOffInv, queued' \in BOOLEAN,
           UNCHANGED <<driver, list, blocked, promise, set, pc, got, answered,
                       answeredBefore, owed, disturbed>>
    PROVE  HandOffInv'
<1>1. TypeOK'
  BY DEF HandOffInv, TypeOK
<1>2. OneCopy' /\ HandsAreFull'
  BY DEF HandOffInv, OneCopy, HandsAreFull, InHands
<1>3. NotAnsweredAgain' /\ NoneIsNewer' /\ (driver = "local" => OnePromise)'
  BY DEF HandOffInv, NotAnsweredAgain, NoneIsNewer, OnePromise
<1> QED  BY <1>1, <1>2, <1>3 DEF HandOffInv

LEMMA RequestStepKeepsInv ==
    ASSUME HandOffInv, NEW c \in Clients, RequestStep(c), UNCHANGED <<driver, disturbed>>
    PROVE  HandOffInv'
<1>1. /\ Distinct(blocked, Clients)
      /\ queued \in BOOLEAN /\ disturbed \in BOOLEAN /\ owed \subseteq Clients
  BY HandOffParts DEF HandOffInv, TypeOK
<1>2. pc[c] # "blocked" => \A x : Contains(blocked, x) <=> x # c /\ Contains(blocked, x)
  BY DEF HandOffInv, TypeOK
<1>3. CASE FirstLook(c)
  BY <1>3, PopKeepsInv DEF FirstLook
<1>4. CASE AddToQueue(c)
  BY <1>1, <1>2, <1>4, MoveKeepsInv DEF AddToQueue
<1>5. CASE CheckDefinition(c)
  <2>1. CASE queued
    BY <1>1, <1>2, <1>5, <2>1, MoveKeepsInv DEF CheckDefinition
  <2>2. CASE ~ queued
    BY <1>5, <2>2, PopKeepsInv DEF CheckDefinition
  <2> QED  BY <2>1, <2>2
<1>6. CASE Block(c)
  <2>1. CASE list = <<>>
    BY <1>6, <2>1, WaitKeepsInv DEF Block, HandOffInv, TypeOK
  <2>2. CASE list # <<>>
    <3>1. driver = "redis"
      BY <1>6 DEF Block, HandOffInv, TypeOK, OnePromise
    <3> QED  BY <1>6, <2>2, <3>1, PopKeepsInv DEF Block
  <2> QED  BY <2>1, <2>2
<1>7. CASE HandBack(c)
  BY <1>7, HandBackKeepsInv
<1>8. CASE DropSpare(c)
  BY <1>8, DropSpareKeepsInv
<1>9. CASE AwaitPromise(c)
  <2>1. CASE list = <<>> /\ (queued \/ promise)
    BY <1>9, <2>1, WaitKeepsInv DEF AwaitPromise
  <2>2. CASE ~ (list = <<>> /\ (queued \/ promise))
    BY <1>9, <2>2, PopKeepsInv DEF AwaitPromise
  <2> QED  BY <2>1, <2>2
<1> QED  BY <1>3, <1>4, <1>5, <1>6, <1>7, <1>8, <1>9 DEF RequestStep

\* A request that ends, gives up or crashes.
LEMMA LeaveKeepsInv ==
    ASSUME HandOffInv, NEW c \in Clients,
           \/ NextRequest(c) /\ UNCHANGED <<driver, disturbed>>
           \/ TimeOut(c)
           \/ Crash(c)
    PROVE  HandOffInv'
<1>1. /\ Distinct(blocked, Clients)
      /\ blocked \in Seq(Clients) /\ IsInjective(blocked)
      /\ queued \in BOOLEAN /\ disturbed \in BOOLEAN /\ owed \subseteq Clients
  BY HandOffParts DEF HandOffInv, TypeOK
<1>2. CASE NextRequest(c) /\ UNCHANGED <<driver, disturbed>>
  <2>1. \A x : Contains(blocked, x) <=> x # c /\ Contains(blocked, x)
    BY <1>2 DEF NextRequest, HandOffInv, TypeOK
  <2> QED  BY <1>1, <1>2, <2>1, MoveKeepsInv DEF NextRequest
<1>3. /\ Distinct(RemoveFirst(blocked, c), Clients)
      /\ \A x : Contains(RemoveFirst(blocked, c), x) <=> x # c /\ Contains(blocked, x)
  BY <1>1, RemoveFirstOfInjective DEF Distinct
<1>4. blocked = <<>> => RemoveFirst(blocked, c) = <<>>
  BY DEF RemoveFirst
<1>5. CASE TimeOut(c)
  BY <1>1, <1>3, <1>4, <1>5, MoveKeepsInv DEF TimeOut
<1>6. CASE Crash(c)
  BY <1>1, <1>3, <1>4, <1>6, MoveKeepsInv DEF Crash
<1> QED  BY <1>2, <1>5, <1>6

LEMMA NextKeepsHandOffInv == HandOffInv /\ [Next]_vars => HandOffInv'
<1> SUFFICES ASSUME HandOffInv, [Next]_vars PROVE HandOffInv'
  OBVIOUS
<1>1. CASE UNCHANGED vars
  BY <1>1, QueuedKeepsInv DEF vars, HandOffInv, TypeOK
<1>2. CASE SetResult /\ UNCHANGED <<driver, disturbed>>
  BY <1>2, SetResultKeepsInv
<1>3. CASE RemoveQuery /\ UNCHANGED <<driver, disturbed>>
  BY <1>3, QueuedKeepsInv DEF RemoveQuery
<1>4. ASSUME NEW c \in Clients, RequestStep(c), UNCHANGED <<driver, disturbed>>
      PROVE  HandOffInv'
  BY <1>4, RequestStepKeepsInv
<1>5. ASSUME NEW c \in Clients,
             \/ NextRequest(c) /\ UNCHANGED <<driver, disturbed>>
             \/ TimeOut(c) \/ Crash(c)
      PROVE  HandOffInv'
  BY <1>5, LeaveKeepsInv
<1> QED  BY <1>1, <1>2, <1>3, <1>4, <1>5 DEF Next, Undisturbed

\* The inductive invariant of the hand-off of results.
THEOREM HandOffSafety == Spec => []HandOffInv
BY InitHandOffInv, NextKeepsHandOffInv, PTL DEF Spec

\* Every variable has its type; a request is blocked exactly when it stands in
\* the queue of its driver, and it stands there once.
THEOREM HandOffTypes == Spec => []TypeOK
<1>1. HandOffInv => TypeOK
  BY DEF HandOffInv
<1> QED  BY <1>1, HandOffSafety, PTL

\* RedisQueueDriver.getResultBlocking takes a result, pushes it again and takes
\* one more: whatever requests, crashes and executions do in between, no result
\* is in the list twice, or in the list and on its way to a request.
THEOREM ResultsAreNotDoubled == Spec => []OneCopy
<1>1. HandOffInv => OneCopy
  BY DEF HandOffInv
<1> QED  BY <1>1, HandOffSafety, PTL

\* LocalQueueDriver.getResultBlocking deletes the promise it was answered by: no
\* later request is answered with that result or an older one.
THEOREM LocalResultsAreTaken == Spec => []NotAnsweredAgain
<1>1. HandOffInv => NotAnsweredAgain
  BY DEF HandOffInv
<1> QED  BY <1>1, HandOffSafety, PTL
=============================================================================
