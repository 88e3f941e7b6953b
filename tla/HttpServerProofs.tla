-------------------------- MODULE HttpServerProofs --------------------------
(***************************************************************************)
(* Proofs about the HTTP server: HttpServer, for any number of starts and  *)
(* connections, any certificates and configurations and any size of the    *)
(* PIN cache, safe through starts, stops and hot restarts, with PIN        *)
(* failures counted as check_pin promises; and WebSend, which serves the   *)
(* web page on it, for any number of browsers, tabs and downloads and any  *)
(* channel capacity, with futures dropped at every await.                  *)
(***************************************************************************)
EXTENDS HttpServer, WebSend, FiniteSetTheorems, FunctionTheorems, SequenceTheorems,
        TLAPS

-----------------------------------------------------------------------------
(* The PIN gate.  What a lookup returns, stated for the places of a list.  *)

CountIn(s, p) ==
  IF p \in {s[i].ip : i \in 1..Len(s)}
  THEN s[CHOOSE i \in 1..Len(s) : s[i].ip = p].count ELSE 0

Distinct(s) == \A i, j \in 1..Len(s) : s[i].ip = s[j].ip => i = j

LEMMA CountInPlaces ==
  ASSUME NEW s, Distinct(s)
  PROVE  /\ \A i \in 1..Len(s) : CountIn(s, s[i].ip) = s[i].count
         /\ \A p : (\A i \in 1..Len(s) : s[i].ip # p) => CountIn(s, p) = 0
<1>1. ASSUME NEW i \in 1..Len(s) PROVE CountIn(s, s[i].ip) = s[i].count
  <2> DEFINE at == CHOOSE j \in 1..Len(s) : s[j].ip = s[i].ip
  <2>1. at \in 1..Len(s) /\ s[at].ip = s[i].ip
    OBVIOUS
  <2>2. at = i
    BY <2>1 DEF Distinct
  <2> QED
    BY <2>2 DEF CountIn
<1>2. ASSUME NEW p, \A i \in 1..Len(s) : s[i].ip # p PROVE CountIn(s, p) = 0
  BY <1>2 DEF CountIn
<1> QED
  BY <1>1, <1>2

LEMMA CountIsCountIn ==
  \A p : Pin!Count(p) = CountIn(cache, p) /\ Pin!Count(p)' = CountIn(cache', p)
BY DEF Pin!Count, Pin!Tracked, Pin!Position, CountIn

\* What is at which place once the entry of p is taken out of the cache.
LEMMA Removal ==
  ASSUME Pin!TypeOK, NEW p \in Peers
  PROVE  /\ Pin!Without(p) \in Seq(Pin!Entry)
         /\ Len(Pin!Without(p)) =
              IF p \in Pin!Tracked THEN Len(cache) - 1 ELSE Len(cache)
         /\ \E from \in [1..Len(Pin!Without(p)) -> 1..Len(cache)] :
              /\ \A i \in 1..Len(Pin!Without(p)) :
                   Pin!Without(p)[i] = cache[from[i]] /\ cache[from[i]].ip # p
              /\ \A i, j \in 1..Len(Pin!Without(p)) : i < j => from[i] < from[j]
              /\ \A k \in 1..Len(cache) : cache[k].ip # p =>
                   \E i \in 1..Len(Pin!Without(p)) : from[i] = k
<1>1. /\ cache \in Seq(Pin!Entry) /\ Len(cache) \in Nat /\ Distinct(cache)
      /\ \A i \in 1..Len(cache) : cache[i] \in Pin!Entry
  BY DEF Pin!TypeOK, Distinct
<1>2. CASE p \notin Pin!Tracked
  <2>1. Pin!Without(p) = cache
    BY <1>2 DEF Pin!Without
  <2>2. \A i \in 1..Len(cache) : cache[i].ip # p
    BY <1>2 DEF Pin!Tracked
  <2>3. [i \in 1..Len(cache) |-> i] \in [1..Len(cache) -> 1..Len(cache)]
    OBVIOUS
  <2> QED
    BY <1>1, <1>2, <2>1, <2>2, <2>3
<1>3. CASE p \in Pin!Tracked
  <2> DEFINE n == Len(cache)
             k == Pin!Position(p)
             from == [i \in 1..n-1 |-> IF i < k THEN i ELSE i + 1]
             w == [i \in 1..n-1 |-> cache[IF i < k THEN i ELSE i + 1]]
  <2>1. k \in 1..n /\ cache[k].ip = p
    BY <1>3 DEF Pin!Tracked, Pin!Position
  <2>2. Pin!Without(p) = w
    BY <1>3 DEF Pin!Without
  <2>3. n - 1 \in Nat /\ from \in [1..n-1 -> 1..n]
    BY <1>1, <2>1
  <2>4. \A i \in 1..n-1 : w[i] = cache[from[i]] /\ from[i] # k
    BY <1>1, <2>1
  <2>5. w \in Seq(Pin!Entry) /\ Len(w) = n - 1
    <3>1. \A i \in 1..n-1 : cache[IF i < k THEN i ELSE i + 1] \in Pin!Entry
      BY <1>1, <2>1
    <3> QED
      BY <2>3, <3>1
  <2>6. \A i \in 1..n-1 : cache[from[i]].ip # p
    BY <1>1, <2>1, <2>3, <2>4 DEF Distinct
  <2>7. \A i, j \in 1..n-1 : i < j => from[i] < from[j]
    BY <1>1, <2>1
  <2>8. \A l \in 1..n : l # k => \E i \in 1..n-1 : from[i] = l
    <3> SUFFICES ASSUME NEW l \in 1..n, l # k PROVE \E i \in 1..n-1 : from[i] = l
      OBVIOUS
    <3>1. CASE l < k
      <4>1. l \in 1..n-1 /\ from[l] = l
        BY <1>1, <2>1, <3>1
      <4> QED
        BY <4>1
    <3>2. CASE l > k
      <4>1. l - 1 \in 1..n-1 /\ from[l-1] = l
        BY <1>1, <2>1, <3>2
      <4> QED
        BY <4>1
    <3> QED
      BY <1>1, <2>1, <3>1, <3>2
  <2>9. \A l \in 1..n : cache[l].ip # p => l # k
    BY <2>1
  <2>10. /\ Pin!Without(p) \in Seq(Pin!Entry) /\ Len(Pin!Without(p)) = Len(cache) - 1
         /\ from \in [1..Len(Pin!Without(p)) -> 1..Len(cache)]
    BY <2>2, <2>3, <2>5
  <2>11. /\ \A i \in 1..Len(Pin!Without(p)) :
             Pin!Without(p)[i] = cache[from[i]] /\ cache[from[i]].ip # p
         /\ \A i, j \in 1..Len(Pin!Without(p)) : i < j => from[i] < from[j]
    BY <2>2, <2>4, <2>5, <2>6, <2>7
  <2>12. \A l \in 1..Len(cache) : cache[l].ip # p =>
           \E i \in 1..Len(Pin!Without(p)) : from[i] = l
    BY <2>2, <2>5, <2>8, <2>9
  <2> HIDE DEF n, k, from, w
  <2> QED
    BY <1>3, <2>10, <2>11, <2>12
<1> QED
  BY <1>2, <1>3

\* The outcomes of a check, whichever branch it takes: the entry is out of the
\* cache, or it is the first one and the least recent one may have gone.
Check(p) ==
  \/ Pin!CheckBlocked(p) \/ Pin!CheckRight(p) \/ Pin!CheckWrong(p) \/ Pin!CheckAbsent(p)

Fits(p, m) ==
  \/ m = Len(Pin!Without(p)) /\ m < CacheSize
  \/ m = CacheSize - 1 /\ Len(Pin!Without(p)) = CacheSize

Counted(p, n) ==
  n = Pin!Count(p) \/ (~Pin!Blocked(p) /\ n = Pin!Count(p) + 1)

Dropped(p) ==
  /\ cache' = Pin!Without(p)
  /\ ~Pin!Blocked(p) \/ Pin!Count(p) = 0

Fronted(p, e, m) ==
  /\ cache' = <<e>> \o SubSeq(Pin!Without(p), 1, m)
  /\ e.ip = p /\ Counted(p, e.count)
  /\ Fits(p, m)

LEMMA CountType ==
  ASSUME Pin!TypeOK, NEW p \in Peers
  PROVE  /\ Pin!Count(p) \in 0..MaxPinAttempts
         /\ p \in Pin!Tracked => Pin!Count(p) \in 1..MaxPinAttempts
         /\ p \notin Pin!Tracked => Pin!Count(p) = 0
<1>1. \A i \in 1..Len(cache) : cache[i] \in Pin!Entry
  BY DEF Pin!TypeOK
<1>2. p \in Pin!Tracked => Pin!Position(p) \in 1..Len(cache)
  BY DEF Pin!Tracked, Pin!Position
<1> QED
  BY <1>1, <1>2, ConstantsAssumption DEF Pin!Count, Pin!Entry

LEMMA CheckShape ==
  ASSUME Pin!TypeOK, NEW p \in Peers, Check(p)
  PROVE  /\ \/ Dropped(p)
            \/ \E e \in Pin!Entry, m \in Nat : Fronted(p, e, m)
         /\ Pin!Used(p)
<1>1. Len(cache) \in Nat /\ Len(cache) <= CacheSize /\ CacheSize \in Nat \ {0}
  BY ConstantsAssumption DEF Pin!TypeOK
<1>2. /\ Pin!Without(p) \in Seq(Pin!Entry)
      /\ Len(Pin!Without(p)) =
           IF p \in Pin!Tracked THEN Len(cache) - 1 ELSE Len(cache)
  BY Removal
<1>w. Len(Pin!Without(p)) \in Nat /\ Len(Pin!Without(p)) <= CacheSize
  BY <1>1, <1>2
<1>u. Pin!Used(p)
  BY DEF Check, Pin!CheckBlocked, Pin!CheckRight, Pin!CheckWrong, Pin!CheckAbsent
<1>3. CASE cache' = Pin!Promoted(p)
  <2>1. CASE p \in Pin!Tracked
    <3> DEFINE e == [ip |-> p, count |-> Pin!Count(p)]
               m == Len(Pin!Without(p))
    <3>1. SubSeq(Pin!Without(p), 1, m) = Pin!Without(p)
      BY <1>2, SubSeqFull
    <3>2. e \in Pin!Entry
      BY <2>1, CountType DEF Pin!Entry
    <3>3. m \in Nat /\ m < CacheSize
      BY <1>1, <1>2, <2>1, <1>w
    <3>4. cache' = <<e>> \o Pin!Without(p)
      BY <1>3, <2>1 DEF Pin!Promoted
    <3>5. Fronted(p, e, m)
      BY <3>1, <3>3, <3>4 DEF Fronted, Fits, Counted
    <3> QED
      BY <1>u, <3>2, <3>3, <3>5
  <2>2. CASE p \notin Pin!Tracked
    BY <1>3, <1>u, <2>2, CountType DEF Pin!Promoted, Pin!Without, Dropped
  <2> QED
    BY <2>1, <2>2
<1>4. CASE Pin!CheckWrong(p)
  <2> DEFINE e == [ip |-> p, count |-> Pin!Count(p) + 1]
             m == IF Len(Pin!Without(p)) = CacheSize THEN CacheSize - 1
                  ELSE Len(Pin!Without(p))
  <2>1. cache' = <<e>> \o SubSeq(Pin!Without(p), 1, m)
    BY <1>4 DEF Pin!CheckWrong, Pin!Put
  <2>2. m \in Nat /\ Fits(p, m)
    BY <1>1, <1>w DEF Fits
  <2>3. ~Pin!Blocked(p)
    BY <1>4 DEF Pin!CheckWrong
  <2>4. e \in Pin!Entry
    BY <2>3, CountType, ConstantsAssumption DEF Pin!Blocked, Pin!Entry
  <2>5. Fronted(p, e, m)
    BY <2>1, <2>2, <2>3 DEF Fronted, Counted
  <2> QED
    BY <1>u, <2>2, <2>4, <2>5
<1>5. CASE Pin!CheckRight(p)
  BY <1>u, <1>5 DEF Pin!CheckRight, Dropped
<1> QED
  BY <1>3, <1>4, <1>5 DEF Check, Pin!CheckBlocked, Pin!CheckAbsent

\* Which entries the cache holds afterwards, and in which order.
LEMMA FrontedPlaces ==
  ASSUME Pin!TypeOK, NEW p \in Peers, NEW e \in Pin!Entry, NEW m \in Nat,
         Fronted(p, e, m)
  PROVE  /\ cache' \in Seq(Pin!Entry) /\ Len(cache') = m + 1 /\ cache'[1] = e
         /\ m + 1 <= CacheSize /\ m <= Len(Pin!Without(p))
         /\ \A i \in 1..m : cache'[i + 1] = Pin!Without(p)[i]
<1>1. Pin!Without(p) \in Seq(Pin!Entry)
  BY Removal
<1>2. m <= Len(Pin!Without(p)) /\ m + 1 <= CacheSize
  BY <1>1, ConstantsAssumption DEF Fronted, Fits
<1>3. \A i \in 1..m : Pin!Without(p)[i] \in Pin!Entry
  BY <1>1, <1>2
<1>4. /\ SubSeq(Pin!Without(p), 1, m) \in Seq(Pin!Entry)
      /\ Len(SubSeq(Pin!Without(p), 1, m)) = m
      /\ \A i \in 1..m : SubSeq(Pin!Without(p), 1, m)[i] = Pin!Without(p)[i]
  BY <1>1, <1>2, <1>3
<1>5. cache' = <<e>> \o SubSeq(Pin!Without(p), 1, m)
  BY DEF Fronted
<1>6. /\ cache' \in Seq(Pin!Entry) /\ Len(cache') = m + 1 /\ cache'[1] = e
      /\ \A i \in 1..m : cache'[i + 1] = SubSeq(Pin!Without(p), 1, m)[i]
  <2> HIDE DEF Pin!Entry
  <2> DEFINE t == SubSeq(Pin!Without(p), 1, m)
  <2>1. t \in Seq(Pin!Entry) /\ Len(t) = m /\ cache' = <<e>> \o t
    BY <1>4, <1>5
  <2> HIDE DEF t
  <2>2. /\ cache' \in Seq(Pin!Entry) /\ Len(cache') = m + 1 /\ cache'[1] = e
        /\ \A i \in 1..m : cache'[i + 1] = t[i]
    BY <2>1
  <2> QED
    BY <2>2 DEF t
<1> QED
  BY <1>2, <1>4, <1>6


\* Both outcomes in one form.  The first d entries, one at most, are that of p;
\* the others come from the places src of the old cache, in their order; and
\* an entry of another address is lost only as the last one of a full cache.
Places(p, d, src) ==
  /\ cache' \in Seq(Pin!Entry) /\ Len(cache') <= CacheSize /\ d <= Len(cache')
  /\ \A i \in d+1..Len(cache') :
       cache'[i] = cache[src[i]] /\ cache[src[i]].ip # p
  /\ \A i, j \in d+1..Len(cache') : i < j => src[i] < src[j]
  /\ d = 1 => cache'[1].ip = p /\ Counted(p, cache'[1].count)
  /\ d = 0 => ~Pin!Blocked(p) \/ Pin!Count(p) = 0
  /\ \A k \in 1..Len(cache) : cache[k].ip # p =>
       \/ \E i \in d+1..Len(cache') : src[i] = k
       \/ /\ d = 1 /\ Len(cache') = CacheSize
          /\ \A i \in d+1..Len(cache') : src[i] < k

LEMMA CheckPlaces ==
  ASSUME Pin!TypeOK, NEW p \in Peers, Check(p)
  PROVE  \E d \in {0, 1} : \E src \in [d+1..Len(cache') -> 1..Len(cache)] :
           Places(p, d, src)
<1>0. Len(cache) \in Nat /\ Len(cache) <= CacheSize
  BY DEF Pin!TypeOK
<1> DEFINE n == Len(Pin!Without(p))
<1>1. n \in Nat /\ n <= Len(cache) /\ Pin!Without(p) \in Seq(Pin!Entry)
  BY <1>0, Removal
<1>2. PICK from \in [1..n -> 1..Len(cache)] :
        /\ \A i \in 1..n : Pin!Without(p)[i] = cache[from[i]] /\ cache[from[i]].ip # p
        /\ \A i, j \in 1..n : i < j => from[i] < from[j]
        /\ \A k \in 1..Len(cache) : cache[k].ip # p => \E i \in 1..n : from[i] = k
  BY Removal
<1> HIDE DEF n
<1>3. CASE Dropped(p)
  <2>1. cache' = Pin!Without(p) /\ Len(cache') = n /\ 0+1 = 1
    BY <1>3 DEF Dropped, n
  <2>2. Places(p, 0, from)
    <3>1. Len(cache') <= CacheSize /\ 0 <= Len(cache')
      BY <1>0, <1>1, <2>1, ConstantsAssumption
    <3>2. ~Pin!Blocked(p) \/ Pin!Count(p) = 0
      BY <1>3 DEF Dropped
    <3> QED
      BY <1>1, <1>2, <2>1, <3>1, <3>2 DEF Places
  <2>3. from \in [0+1..Len(cache') -> 1..Len(cache)]
    BY <2>1
  <2> QED
    BY <2>2, <2>3
<1>4. ASSUME NEW e \in Pin!Entry, NEW m \in Nat, Fronted(p, e, m)
      PROVE  \E src \in [1+1..Len(cache') -> 1..Len(cache)] : Places(p, 1, src)
  <2> DEFINE src == [i \in 2..m+1 |-> from[i-1]]
  <2>1. /\ cache' \in Seq(Pin!Entry) /\ Len(cache') = m + 1 /\ cache'[1] = e
        /\ m + 1 <= CacheSize /\ m <= n
        /\ \A i \in 1..m : cache'[i + 1] = Pin!Without(p)[i]
    BY <1>4, FrontedPlaces DEF n
  <2>2. \A i \in 2..m+1 : i-1 \in 1..m /\ i-1 \in 1..n /\ (i-1) + 1 = i /\ src[i] = from[i-1]
    BY <1>1, <2>1
  <2>3. src \in [2..m+1 -> 1..Len(cache)]
    BY <1>2, <2>2
  <2>4. \A i \in 2..m+1 : cache'[i] = cache[src[i]] /\ cache[src[i]].ip # p
    BY <1>2, <2>1, <2>2
  <2>5. \A i, j \in 2..m+1 : i < j => src[i] < src[j]
    <3> SUFFICES ASSUME NEW i \in 2..m+1, NEW j \in 2..m+1, i < j
                 PROVE  src[i] < src[j]
      OBVIOUS
    <3>1. i-1 < j-1
      OBVIOUS
    <3> QED
      BY <1>2, <2>2, <3>1
  <2>6. e.ip = p /\ Counted(p, e.count)
    BY <1>4 DEF Fronted
  <2>7. ASSUME NEW k \in 1..Len(cache), cache[k].ip # p
        PROVE  \/ \E i \in 2..m+1 : src[i] = k
               \/ m + 1 = CacheSize /\ \A i \in 2..m+1 : src[i] < k
    <3>1. PICK l \in 1..n : from[l] = k
      BY <1>2, <2>7
    <3>2. CASE l <= m
      <4>1. l + 1 \in 2..m+1 /\ (l + 1) - 1 = l
        BY <3>2
      <4> QED
        BY <2>2, <3>1, <4>1
    <3>3. CASE l > m
      <4>1. m + 1 = CacheSize
        BY <1>4, <3>3, <1>1 DEF Fronted, Fits, n
      <4>2. \A i \in 2..m+1 : i-1 < l
        BY <3>3, <1>1
      <4> QED
        BY <1>2, <2>2, <3>1, <4>1, <4>2
    <3> QED
      BY <1>1, <3>2, <3>3
  <2>8. 1+1 = 2 /\ 1 <= Len(cache')
    BY <2>1
  <2> HIDE DEF src
  <2>9. Places(p, 1, src)
    BY <2>1, <2>4, <2>5, <2>6, <2>7, <2>8 DEF Places
  <2> QED
    BY <2>1, <2>3, <2>8, <2>9
<1> QED
  BY <1>3, <1>4, CheckShape

\* The inductive invariant: the history of an address holds every address
\* whose entry lies before its own.
PinInv ==
  /\ Pin!TypeOK
  /\ \A q \in Peers : IsFiniteSet(others[q])
  /\ \A i, j \in 1..Len(cache) : j < i => cache[j].ip \in others[cache[i].ip]

\* A list of n entries names n addresses.
LEMMA ListedAddresses ==
  ASSUME NEW s \in Seq(Pin!Entry), Distinct(s)
  PROVE  Cardinality({s[i].ip : i \in 1..Len(s)}) = Len(s)
<1> DEFINE f == [i \in 1..Len(s) |-> s[i].ip]
           S == {s[i].ip : i \in 1..Len(s)}
<1>1. f \in Bijection(1..Len(s), S)
  <2>1. f \in [1..Len(s) -> S]
    OBVIOUS
  <2>2. \A i, j \in 1..Len(s) : f[i] = f[j] => i = j
    BY DEF Distinct
  <2>3. \A t \in S : \E i \in 1..Len(s) : f[i] = t
    OBVIOUS
  <2> HIDE DEF f, S
  <2> QED
    BY <2>1, <2>2, <2>3, Fun_IsBij
<1>2. ExistsBijection(1..Len(s), S)
  BY <1>1 DEF ExistsBijection
<1>3. Len(s) \in Nat
  OBVIOUS
<1> HIDE DEF f, S
<1>4. Cardinality(S) = Len(s)
  BY <1>2, <1>3, FS_CountingElements
<1> QED
  BY <1>4 DEF S

\* PinGate counts as the library of finite sets does.
LEMMA SameCardinality == \A S : Pin!Cardinality(S) = Cardinality(S)
BY DEF Pin!Cardinality, Cardinality

LEMMA CheckKeepsPin ==
  ASSUME PinInv, NEW p \in Peers, Check(p)
  PROVE  PinInv' /\ Pin!Counts
<1> USE DEF PinInv
<1>1. PICK d \in {0, 1} : \E src \in [d+1..Len(cache') -> 1..Len(cache)] : Places(p, d, src)
  BY CheckPlaces
<1>2. PICK src \in [d+1..Len(cache') -> 1..Len(cache)] : Places(p, d, src)
  BY <1>1
<1>t. /\ Len(cache) \in Nat /\ Distinct(cache)
      /\ \A i \in 1..Len(cache) : cache[i] \in Pin!Entry /\ cache[i].ip \in Peers
      /\ others \in [Peers -> SUBSET Peers]
  <2>1. cache \in Seq(Pin!Entry) /\ Distinct(cache) /\ others \in [Peers -> SUBSET Peers]
    BY DEF Pin!TypeOK, Distinct
  <2>2. Len(cache) \in Nat /\ \A i \in 1..Len(cache) : cache[i] \in Pin!Entry
    BY <2>1
  <2> QED
    BY <2>1, <2>2 DEF Pin!Entry
<1>c. /\ Len(cache') \in Nat
      /\ \A i \in 1..Len(cache') : cache'[i] \in Pin!Entry /\ cache'[i].ip \in Peers
  <2>1. cache' \in Seq(Pin!Entry)
    BY <1>2 DEF Places
  <2>2. Len(cache') \in Nat /\ \A i \in 1..Len(cache') : cache'[i] \in Pin!Entry
    BY <2>1
  <2> QED
    BY <2>2 DEF Pin!Entry
<1>i. \A i \in 1..Len(cache') :
        \/ i \in d+1..Len(cache') /\ cache'[i] = cache[src[i]]
           /\ src[i] \in 1..Len(cache) /\ cache'[i].ip # p
        \/ d = 1 /\ i = 1 /\ cache'[i].ip = p
  <2> SUFFICES ASSUME NEW i \in 1..Len(cache')
               PROVE  \/ i \in d+1..Len(cache') /\ cache'[i] = cache[src[i]]
                         /\ src[i] \in 1..Len(cache) /\ cache'[i].ip # p
                      \/ d = 1 /\ i = 1 /\ cache'[i].ip = p
    OBVIOUS
  <2>1. i \in d+1..Len(cache') \/ (d = 1 /\ i = 1)
    BY <1>c
  <2> QED
    BY <1>2, <2>1 DEF Places
<1>3. Distinct(cache')
  <2> SUFFICES ASSUME NEW i \in 1..Len(cache'), NEW j \in 1..Len(cache'),
                      cache'[i].ip = cache'[j].ip
               PROVE  i = j
    BY DEF Distinct
  <2>1. CASE cache'[i].ip = p
    BY <1>i, <2>1
  <2>2. CASE cache'[i].ip # p
    <3>1. /\ i \in d+1..Len(cache') /\ j \in d+1..Len(cache') /\ src[i] = src[j]
          /\ src[i] \in 1..Len(cache)
      BY <1>i, <1>t, <2>2 DEF Distinct
    <3>2. ~(i < j) /\ ~(j < i)
      BY <1>2, <3>1 DEF Places
    <3> QED
      BY <3>2
  <2> QED
    BY <2>1, <2>2
<1>4. /\ others' = [q \in Peers |->
                      IF q = p THEN {} ELSE others[q] \cup ({p} \cap Pin!Tracked')]
      /\ Pin!Tracked' = {cache'[i].ip : i \in 1..Len(cache')}
  BY CheckShape DEF Pin!Used, Pin!Tracked
<1>5. \A q \in Peers : q # p =>
        others[q] \subseteq others'[q] /\ (p \in Pin!Tracked' => p \in others'[q])
  BY <1>4
<1>6. \A q \in Peers : IsFiniteSet(others'[q])
  <2> SUFFICES ASSUME NEW q \in Peers PROVE IsFiniteSet(others'[q])
    OBVIOUS
  <2>1. IsFiniteSet({}) /\ IsFiniteSet(others[q])
    BY FS_EmptySet
  <2>2. IsFiniteSet(others[q] \cup {p})
    BY <2>1, FS_AddElement
  <2>3. others'[q] \in {{}, others[q], others[q] \cup {p}}
    BY <1>4
  <2> QED
    BY <2>1, <2>2, <2>3
<1>7. others' \in [Peers -> SUBSET Peers]
  BY <1>4, <1>t
<1>8. \A i, j \in 1..Len(cache') : j < i => cache'[j].ip \in others'[cache'[i].ip]
  <2> SUFFICES ASSUME NEW i \in 1..Len(cache'), NEW j \in 1..Len(cache'), j < i
               PROVE  cache'[j].ip \in others'[cache'[i].ip]
    OBVIOUS
  <2>1. i # 1
    OBVIOUS
  <2>2. /\ i \in d+1..Len(cache') /\ cache'[i] = cache[src[i]]
        /\ src[i] \in 1..Len(cache) /\ cache'[i].ip # p
    BY <1>i, <2>1
  <2>3. CASE cache'[j].ip = p
    BY <1>4, <1>5, <1>c, <2>2, <2>3
  <2>4. CASE cache'[j].ip # p
    <3>1. /\ j \in d+1..Len(cache') /\ cache'[j] = cache[src[j]]
          /\ src[j] \in 1..Len(cache)
      BY <1>i, <2>4
    <3>2. src[j] < src[i]
      BY <1>2, <2>2, <3>1 DEF Places
    <3>3. cache'[j].ip \in others[cache'[i].ip]
      BY <2>2, <3>1, <3>2
    <3> QED
      BY <1>5, <1>c, <2>2, <3>3
  <2> QED
    BY <2>3, <2>4
<1>9. PinInv'
  <2>1. cache' \in Seq(Pin!Entry) /\ Len(cache') <= CacheSize
    BY <1>2 DEF Places
  <2> QED
    BY <2>1, <1>3, <1>6, <1>7, <1>8 DEF Pin!TypeOK, Distinct
<1>10. Pin!Counts
  <2>1. Pin!Count(p)' # Pin!Count(p) =>
          ~Pin!Blocked(p) /\ Pin!Count(p)' \in {0, Pin!Count(p) + 1}
    <3>1. CASE d = 1
      <4>1. Pin!Count(p)' = cache'[1].count /\ Counted(p, cache'[1].count)
        BY <1>2, <1>3, <1>c, <3>1, CountInPlaces, CountIsCountIn DEF Places
      <4> QED
        BY <4>1 DEF Counted
    <3>2. CASE d = 0
      <4>1. \A i \in 1..Len(cache') : cache'[i].ip # p
        BY <1>i, <3>2
      <4>2. Pin!Count(p)' = 0
        BY <1>3, <4>1, CountInPlaces, CountIsCountIn
      <4> QED
        BY <1>2, <3>2, <4>2 DEF Places
    <3> QED
      BY <3>1, <3>2
  <2>2. ASSUME NEW q \in Peers \ {p}
        PROVE  \/ Pin!Count(q)' = Pin!Count(q)
               \/ Pin!Count(q)' = 0 /\ Cardinality(others'[q]) >= CacheSize
    <3>1. CASE \A k \in 1..Len(cache) : cache[k].ip # q
      <4>1. \A i \in 1..Len(cache') : cache'[i].ip # q
        BY <1>i, <3>1
      <4>2. CountIn(cache, q) = 0 /\ CountIn(cache', q) = 0
        BY <1>3, <1>t, <3>1, <4>1, CountInPlaces
      <4> QED
        BY <4>2, CountIsCountIn
    <3>2. ASSUME NEW k \in 1..Len(cache), cache[k].ip = q
          PROVE  \/ Pin!Count(q)' = Pin!Count(q)
                 \/ Pin!Count(q)' = 0 /\ Cardinality(others'[q]) >= CacheSize
      <4>1. Pin!Count(q) = cache[k].count
        BY <1>t, <3>2, CountInPlaces, CountIsCountIn
      <4>2. ASSUME NEW i \in d+1..Len(cache'), src[i] = k
            PROVE  Pin!Count(q)' = Pin!Count(q)
        <5>1. cache'[i] = cache[k] /\ i \in 1..Len(cache')
          BY <1>2, <1>c, <4>2 DEF Places
        <5>2. CountIn(cache', q) = cache'[i].count
          BY <1>3, <3>2, <5>1, CountInPlaces
        <5> QED
          BY <4>1, <5>1, <5>2, CountIsCountIn
      <4>3. ASSUME \A i \in d+1..Len(cache') : src[i] # k
            PROVE  Pin!Count(q)' = 0 /\ Cardinality(others'[q]) >= CacheSize
        <5>1. /\ d = 1 /\ Len(cache') = CacheSize
              /\ \A i \in d+1..Len(cache') : src[i] < k
          BY <1>2, <3>2, <4>3 DEF Places
        <5>2. \A i \in 1..Len(cache') : cache'[i].ip # q
          BY <1>i, <1>t, <3>2, <4>3 DEF Distinct
        <5>3. Pin!Count(q)' = 0
          BY <1>3, <5>2, CountInPlaces, CountIsCountIn
        <5>4. \A i \in 1..Len(cache') : cache'[i].ip \in others'[q]
          <6> SUFFICES ASSUME NEW i \in 1..Len(cache') PROVE cache'[i].ip \in others'[q]
            OBVIOUS
          <6>1. CASE cache'[i].ip = p
            BY <1>4, <1>5, <6>1
          <6>2. CASE cache'[i].ip # p
            <7>1. /\ i \in d+1..Len(cache') /\ cache'[i] = cache[src[i]]
                  /\ src[i] \in 1..Len(cache)
              BY <1>i, <6>2
            <7>2. src[i] < k
              BY <5>1, <7>1
            <7>3. cache'[i].ip \in others[q]
              BY <3>2, <7>1, <7>2
            <7> QED
              BY <1>5, <7>3
          <6> QED
            BY <6>1, <6>2
        <5>5. Cardinality(Pin!Tracked') = Len(cache')
          BY <1>2, <1>3, <1>4, ListedAddresses DEF Places
        <5>6. Pin!Tracked' \in SUBSET others'[q]
          BY <1>4, <5>4
        <5>7. Cardinality(Pin!Tracked') <= Cardinality(others'[q])
          BY <1>6, <5>6, FS_Subset
        <5>8. Cardinality(others'[q]) \in Nat
          BY <1>6, FS_CardinalityType
        <5>9. Cardinality(others'[q]) >= CacheSize
          BY <5>1, <5>5, <5>7, <5>8, ConstantsAssumption
        <5> QED
          BY <5>3, <5>9
      <4> QED
        BY <4>2, <4>3
    <3> QED
      BY <3>1, <3>2
  <2> QED
    BY <2>1, <2>2, SameCardinality DEF Pin!Counts
<1> QED
  BY <1>9, <1>10

-----------------------------------------------------------------------------
(* The life of the server: the inductive invariant.                        *)

\* Who binds holds the lock, and finds no server; before an instance has
\* started it has no task and no signal.
StartInv ==
  \A n \in Instances :
    /\ startPc[n] \in {"stopOld", "bind"} => lock = n
    /\ startPc[n] = "bind" => cur = 0
    /\ startPc[n] = "stopOld" => cur # 0
    /\ startPc[n] # "none" => n <= starts
    /\ startPc[n] # "started" => task[n] = "none" /\ stopTx[n] = "none"

\* A signal that was sent with nobody waiting any more has ended the task, and
\* every task that has not ended is that of the instance start_server finds.
StopInv ==
  \A n \in Instances :
    /\ txLock[n] # None => stopTx[n] = "sent"
    /\ stopTx[n] = "sent" /\ txLock[n] = None => task[n] = "ended"
    /\ stopPc[n] \in {"forget", "done"} => task[n] = "ended"
    /\ task[n] \in {"running", "closing"} => cur = n
    /\ accept[n] # {} => task[n] = "running"

\* A connection lives no longer than the task that serves it, is past its
\* handshake only if it was admitted, and has a responder only after that.
Past(c) == conn[c].at \notin {"new", "handshake"}

ConnInv ==
  /\ \A c \in Conns :
       /\ Live(c) => conn[c].of # 0 /\ task[conn[c].of] \in {"running", "closing"}
       /\ Live(c) /\ Past(c) => Admitted(c)
  /\ \A c \in held : Past(c)
  /\ \A n \in Instances, k \in Routes : \A i \in 1..Len(chan[n][k]) : Past(chan[n][k][i])

LifeInv == StartInv /\ StopInv /\ ConnInv

LEMMA InitLife == Init => TypeOK /\ LifeInv /\ RemoteVerified /\ RemoteReleased
<1> SUFFICES ASSUME Init PROVE TypeOK /\ LifeInv /\ RemoteVerified /\ RemoteReleased
  OBVIOUS
<1> USE ConstantsAssumption DEF Init, Instances
<1>1. Pin!TypeOK
  BY DEF Pin!Init, Pin!TypeOK, Pin!Entry
<1>2. chan \in [Instances -> [Routes -> Seq(Conns)]]
      /\ \A n \in Instances, k \in Routes : Len(chan[n][k]) = 0
  OBVIOUS
<1>3. TypeOK
  BY <1>1, <1>2 DEF TypeOK
<1>4. LifeInv
  BY <1>2 DEF LifeInv, StartInv, StopInv, ConnInv, Live, Past
<1>5. RemoteVerified /\ RemoteReleased
  BY DEF RemoteVerified, RemoteReleased, Routes
<1> QED
  BY <1>3, <1>4, <1>5

-----------------------------------------------------------------------------
(* What a step may do to the connections. *)

ConnType ==
  conn \in [Conns -> [at : {"new", "handshake", "ready", "send", "asking", "closed"},
                      of : 0..MaxStarts, route : Routes \cup {None}]]

\* A connection is closed, or it goes on with its instance: to the file system
\* only with a verified certificate, and to wait for an answer only if somebody
\* may give one.
Moves(c) ==
  \/ conn'[c] = conn[c]
  \/ conn'[c] = [conn[c] EXCEPT !.at = "closed"]
  \/ /\ conn'[c].of = conn[c].of
     /\ Live(c) /\ Live(c)' /\ Past(c)' /\ Admitted(c)
     /\ conn'[c].route = "remote" => conn[c].route = "remote" \/ Cert[c] = "valid"
     /\ conn'[c].at = "asking" => listener'[conn[c].of] # "ended"

ConnsMove == ConnType' /\ \A c \in Conns : Moves(c)

LEMMA CloseMoves ==
  ASSUME ConnType, NEW c \in Conns, Close(c)
  PROVE  ConnsMove
<1>1. ConnType'
  BY DEF Close, ConnType
<1>2. \A d \in Conns : Moves(d)
  BY DEF Close, ConnType, Moves
<1> QED
  BY <1>1, <1>2 DEF ConnsMove

LEMMA AnsweredMoves ==
  ASSUME ConnType, ConnInv, NEW cs, \A c \in cs \cap Conns : Past(c), Answered(cs)
  PROVE  ConnsMove /\ \A c \in cs \cap Conns : conn'[c].at # "asking"
<1>1. ConnType'
  BY DEF Answered, ConnType
<1>2. \A c \in Conns : Moves(c)
  <2> SUFFICES ASSUME NEW c \in Conns PROVE Moves(c)
    OBVIOUS
  <2>1. CASE c \in cs /\ Live(c)
    <3>1. /\ conn'[c].of = conn[c].of /\ conn'[c].at = "ready" /\ conn'[c].route = None
      BY <2>1 DEF Answered, ConnType
    <3>2. Live(c)' /\ Past(c)' /\ Admitted(c) /\ None # "remote"
      BY <2>1, <3>1, ConstantsAssumption DEF Live, Past, ConnInv, Routes
    <3> QED
      BY <2>1, <3>1, <3>2 DEF Moves
  <2>2. CASE ~(c \in cs /\ Live(c))
    BY <2>2 DEF Answered, Moves
  <2> QED
    BY <2>1, <2>2
<1>3. \A c \in cs \cap Conns : conn'[c].at # "asking"
  BY DEF Answered, ConnType, Live
<1> QED
  BY <1>1, <1>2, <1>3 DEF ConnsMove

\* Such a step preserves what is said of connections, as long as responders and
\* events are those of connections past their handshake.
LEMMA MovesKeep ==
  ASSUME ConnType, ConnInv, RemoteVerified, ConnsMove,
         \A n \in Instances : task[n] \in {"running", "closing"} /\ task'[n] # task[n]
            => task'[n] \in {"running", "closing"} \/ \A c \in Conns : Live(c) => conn[c].of # n,
         task \in [Instances -> {"none", "running", "closing", "ended"}],
         \A c \in held' : c \in Conns /\ (c \in held \/ Past(c)),
         \A n \in Instances, k \in Routes : \A i \in 1..Len(chan'[n][k]) :
           chan'[n][k][i] \in Conns /\ Past(chan'[n][k][i])
  PROVE  ConnInv' /\ RemoteVerified'
<1>1. ASSUME NEW c \in Conns
      PROVE  /\ Live(c)' => Live(c) /\ conn'[c].of = conn[c].of
             /\ Past(c) => Past(c)'
             /\ Live(c)' /\ Past(c)' => Admitted(c)
             /\ conn'[c].route = "remote" => Cert[c] = "valid"
  <2>0. conn[c] \in [at : {"new", "handshake", "ready", "send", "asking", "closed"},
                     of : 0..MaxStarts, route : Routes \cup {None}]
    BY DEF ConnType
  <2>1. CASE conn'[c] = conn[c]
    BY <2>1 DEF ConnInv, Live, Past, RemoteVerified
  <2>2. CASE conn'[c] = [conn[c] EXCEPT !.at = "closed"]
    <3>1. conn'[c].at = "closed" /\ conn'[c].route = conn[c].route
      BY <2>0, <2>2
    <3> QED
      BY <3>1 DEF Live, Past, RemoteVerified
  <2>3. CASE ~(conn'[c] = conn[c]) /\ ~(conn'[c] = [conn[c] EXCEPT !.at = "closed"])
    BY <2>3 DEF ConnsMove, Moves, RemoteVerified
  <2> QED
    BY <2>1, <2>2, <2>3
<1>2. ASSUME NEW c \in Conns, Live(c)'
      PROVE  conn'[c].of # 0 /\ task'[conn'[c].of] \in {"running", "closing"}
  <2>1. Live(c) /\ conn'[c].of = conn[c].of /\ conn[c].of # 0 /\ conn[c].of \in Instances
    BY <1>1, <1>2 DEF ConnInv, ConnType, Instances
  <2> QED
    BY <2>1 DEF ConnInv
<1>3. \A c \in Conns : Live(c)' /\ Past(c)' => Admitted(c)'
  BY <1>1 DEF Admitted
<1>4. \A c \in held' : Past(c)'
  BY <1>1 DEF ConnInv
<1>5. \A n \in Instances, k \in Routes : \A i \in 1..Len(chan'[n][k]) : Past(chan[n][k][i])'
  <2>1. \A c \in Conns : Past(c) => Past(c)'
    BY <1>1
  <2> QED
    BY <2>1 DEF Past
<1>6. RemoteVerified'
  BY <1>1 DEF RemoteVerified
<1> QED
  BY <1>2, <1>3, <1>4, <1>5, <1>6 DEF ConnInv


LEMMA MovesRelease ==
  ASSUME ConnType, ConnsMove, RemoteReleased,
         \A n \in Instances : listener'[n] = "ended" => listener[n] = "ended"
  PROVE  RemoteReleased'
<1> SUFFICES ASSUME NEW n \in Instances, listener'[n] = "ended", NEW c \in Conns,
                    conn'[c].of = n, conn'[c].at = "asking", conn'[c].route = "remote"
             PROVE  FALSE
  BY DEF RemoteReleased, OfRemote, Asking
<1>1. conn[c] \in [at : {"new", "handshake", "ready", "send", "asking", "closed"},
                   of : 0..MaxStarts, route : Routes \cup {None}]
  BY DEF ConnType
<1>2. CASE conn'[c] = conn[c]
  BY <1>2 DEF RemoteReleased, OfRemote, Asking
<1>3. CASE conn'[c] = [conn[c] EXCEPT !.at = "closed"]
  BY <1>1, <1>3
<1> QED
  BY <1>2, <1>3 DEF ConnsMove, Moves

-----------------------------------------------------------------------------
(* Types, part by part. *)

CallType ==
  /\ starts \in 0..MaxStarts
  /\ cur \in 0..MaxStarts /\ lock \in Instances \cup {None}
  /\ startPc \in [Instances -> {"none", "lock", "stopOld", "bind", "started", "failed"}]
  /\ stopPc \in [Instances -> {"none", "stop", "forget", "done"}]
  /\ txLock \in [Instances -> {None, "start", "stop"}]
  /\ stopTx \in [Instances -> {"none", "kept", "sent"}]

TaskType ==
  /\ task \in [Instances -> {"none", "running", "closing", "ended"}]
  /\ accept \in [Instances -> SUBSET Sockets]

BridgeType ==
  /\ chan \in [Instances -> [Routes -> Seq(Conns)]]
  /\ \A n \in Instances, k \in Routes : Len(chan[n][k]) <= Capacity
  /\ reads \in [Instances -> SUBSET Routes]
  /\ listener \in [Instances -> {"none", "on", "ended"}]
  /\ sink \in [Instances -> BOOLEAN]
  /\ held \subseteq Conns

DartType == dart \in [at : {"idle", "starting", "running"}, of : 0..MaxStarts]

ServerType == CallType /\ TaskType /\ ConnType /\ BridgeType /\ DartType

LEMMA TypeParts == TypeOK <=> ServerType /\ Pin!TypeOK
BY DEF TypeOK, ServerType, CallType, TaskType, ConnType, BridgeType, DartType

LEMMA Stutters ==
  /\ CallType /\ UNCHANGED callVars => CallType'
  /\ TaskType /\ UNCHANGED <<task, accept>> => TaskType'
  /\ ConnType /\ UNCHANGED conn => ConnType'
  /\ BridgeType /\ UNCHANGED bridgeVars => BridgeType'
  /\ DartType /\ UNCHANGED dart => DartType'
BY DEF CallType, TaskType, ConnType, BridgeType, DartType, callVars, bridgeVars

ServerInv == ServerType /\ LifeInv /\ RemoteVerified /\ RemoteReleased

\* The calls and the task do not move.
LEMMA LifeStutters ==
  StartInv /\ StopInv /\ UNCHANGED <<callVars, task, accept>> => StartInv' /\ StopInv'
BY DEF StartInv, StopInv, callVars

LEMMA Stays ==
  ASSUME ServerInv, UNCHANGED conn
  PROVE  ConnsMove
BY Stutters DEF ServerInv, ServerType, ConnsMove, Moves

\* The connections move, and neither the calls nor the task.
LEMMA ConnectionStep ==
  ASSUME ServerInv, ConnsMove, UNCHANGED <<callVars, task, accept, dart>>, BridgeType',
         \A n \in Instances : listener'[n] = "ended" => listener[n] = "ended",
         \A c \in held' : c \in held \/ Past(c),
         \A n \in Instances, k \in Routes : \A i \in 1..Len(chan'[n][k]) :
           Past(chan'[n][k][i])
  PROVE  ServerInv'
<1>1. ServerType'
  BY Stutters DEF ServerInv, ServerType, ConnsMove
<1>2. \A n \in Instances, k \in Routes : \A i \in 1..Len(chan'[n][k]) :
        chan'[n][k][i] \in Conns
  BY DEF BridgeType
<1>3. \A c \in held' : c \in Conns
  BY DEF BridgeType
<1>4. ConnInv' /\ RemoteVerified'
  BY <1>2, <1>3, MovesKeep DEF ServerInv, ServerType, LifeInv, TaskType
<1>5. RemoteReleased'
  BY MovesRelease DEF ServerInv, ServerType
<1> QED
  BY <1>1, <1>4, <1>5, LifeStutters DEF ServerInv, LifeInv

LEMMA QueuedPast ==
  ConnInv => \A n \in Instances, k \in Routes : \A i \in 1..Len(chan[n][k]) :
               Past(chan[n][k][i])
BY DEF ConnInv

-----------------------------------------------------------------------------
(* Connections and requests. *)

LEMMA QuietStep ==
  ASSUME ServerInv, ConnsMove, UNCHANGED <<callVars, task, accept, dart, bridgeVars>>
  PROVE  ServerInv'
<1>1. BridgeType' /\ held' = held /\ chan' = chan /\ listener' = listener
  BY Stutters DEF ServerInv, ServerType, bridgeVars
<1> QED
  BY <1>1, ConnectionStep, QueuedPast DEF ServerInv, LifeInv

LEMMA AcceptKeeps ==
  ASSUME ServerInv, NEW n \in Instances, NEW s \in Sockets, NEW c \in Conns,
         Accept(n, s, c)
  PROVE  ServerInv'
<1>1. /\ conn' = [conn EXCEPT ![c] = [at |-> "handshake", of |-> n, route |-> None]]
      /\ conn[c].at = "new" /\ accept[n] # {} /\ task[n] = "running"
      /\ UNCHANGED <<callVars, task, accept, dart, bridgeVars>>
  BY DEF Accept, ServerInv, LifeInv, StopInv
<1>2. ConnType'
  BY <1>1 DEF ServerInv, ServerType, ConnType, Instances
<1>3. /\ \A d \in Conns \ {c} : conn'[d] = conn[d]
      /\ conn'[c] = [at |-> "handshake", of |-> n, route |-> None]
  BY <1>1 DEF ServerInv, ServerType, ConnType
<1>4. ServerType'
  BY <1>1, <1>2, Stutters DEF ServerInv, ServerType
<1>5. ConnInv'
  <2>1. UNCHANGED <<held, chan, task>>
    BY <1>1 DEF bridgeVars
  <2>2. c \notin held /\ n # 0
    BY <1>1 DEF ServerInv, LifeInv, ConnInv, Past, Instances
  <2>3. \A d \in Conns : Past(d) => Past(d)' /\ d # c
    BY <1>1, <1>3 DEF Past
  <2>4. ASSUME NEW d \in Conns
        PROVE  /\ Live(d)' => conn'[d].of # 0 /\ task'[conn'[d].of] \in {"running", "closing"}
               /\ Live(d)' /\ Past(d)' => Admitted(d)'
    <3>1. CASE d = c
      BY <1>1, <1>3, <2>1, <2>2, <3>1 DEF Past
    <3>2. CASE d # c
      BY <1>3, <2>1, <3>2 DEF ServerInv, LifeInv, ConnInv, Live, Past, Admitted
    <3> QED
      BY <3>1, <3>2
  <2>5. \A d \in held' : Past(d)'
    BY <2>1, <2>3 DEF ServerInv, ServerType, BridgeType, LifeInv, ConnInv
  <2>6. \A m \in Instances, k \in Routes : \A i \in 1..Len(chan'[m][k]) : Past(chan[m][k][i])'
    <3>1. \A m \in Instances, k \in Routes : \A i \in 1..Len(chan[m][k]) :
            chan[m][k][i] \in Conns /\ Past(chan[m][k][i])
      BY DEF ServerInv, ServerType, BridgeType, LifeInv, ConnInv
    <3> QED
      BY <2>1, <2>3, <3>1 DEF Past
  <2> QED
    BY <2>4, <2>5, <2>6 DEF ConnInv
<1>6. RemoteVerified'
  BY <1>3, ConstantsAssumption DEF RemoteVerified, ServerInv, Routes
<1>7. RemoteReleased'
  BY <1>1, <1>3 DEF RemoteReleased, OfRemote, Asking, ServerInv, bridgeVars
<1> QED
  BY <1>1, <1>4, <1>5, <1>6, <1>7, LifeStutters DEF ServerInv, LifeInv

LEMMA ExchangeKeeps ==
  ASSUME ServerInv, NEW c \in Conns,
         Handshake(c) \/ ClientLeaves(c) \/ (\E k \in Routes : Request(c, k) \/ RequestRefused(c, k))
  PROVE  ServerInv'
<1>t. ConnType
  BY DEF ServerInv, ServerType
<1>1. CASE ClientLeaves(c)
  BY <1>1, <1>t, CloseMoves, QuietStep DEF ClientLeaves
<1>2. CASE Handshake(c)
  <2>1. CASE Admitted(c)
    <3>1. conn' = [conn EXCEPT ![c].at = "ready"]
      BY <1>2, <2>1 DEF Handshake
    <3>2. ConnType'
      BY <1>t, <3>1 DEF ConnType
    <3>3. Moves(c)
      BY <1>2, <1>t, <2>1, <3>1 DEF Handshake, ConnType, Moves, Live, Past
    <3>4. \A d \in Conns \ {c} : Moves(d)
      BY <1>t, <3>1 DEF ConnType, Moves
    <3> QED
      BY <1>2, <3>2, <3>3, <3>4, QuietStep DEF Handshake, ConnsMove
  <2>2. CASE ~Admitted(c)
    BY <1>2, <1>t, <2>2, CloseMoves, QuietStep DEF Handshake
  <2> QED
    BY <2>1, <2>2
<1>3. ASSUME NEW k \in Routes, Request(c, k) PROVE ServerInv'
  <2>1. /\ conn[c].at = "ready" /\ Routed(c, k)
        /\ conn' = [conn EXCEPT ![c].at = "send", ![c].route = k]
        /\ UNCHANGED <<callVars, task, accept, dart, bridgeVars>>
    BY <1>3 DEF Request, RequestStarts
  <2>2. ConnType'
    BY <1>t, <2>1 DEF ConnType
  <2>3. /\ conn'[c].at = "send" /\ conn'[c].route = k /\ conn'[c].of = conn[c].of
        /\ \A d \in Conns \ {c} : conn'[d] = conn[d]
    BY <1>t, <2>1 DEF ConnType
  <2>4. Admitted(c)
    BY <2>1 DEF ServerInv, LifeInv, ConnInv, Live, Past
  <2>5. k = "remote" => Cert[c] = "valid"
    BY <2>1, <2>4 DEF Routed, Identified, Admitted
  <2>6. Moves(c)
    BY <2>1, <2>3, <2>4, <2>5 DEF Moves, Live, Past
  <2>7. \A d \in Conns : Moves(d)
    BY <2>3, <2>6 DEF Moves
  <2> QED
    BY <2>1, <2>2, <2>7, QuietStep DEF ConnsMove
<1>4. ASSUME NEW k \in Routes, RequestRefused(c, k) PROVE ServerInv'
  <2>1. UNCHANGED <<callVars, task, accept, dart, bridgeVars, conn>>
    BY <1>4 DEF RequestRefused, serverVars
  <2> QED
    BY <2>1, Stays, QuietStep
<1> QED
  BY <1>1, <1>2, <1>3, <1>4


LEMMA SendEventKeeps ==
  ASSUME ServerInv, NEW c \in Conns, SendEvent(c)
  PROVE  ServerInv'
<1> DEFINE n == conn[c].of
           k == conn[c].route
<1>t. ConnType /\ BridgeType /\ ConnInv
  BY DEF ServerInv, ServerType, LifeInv
<1>1. /\ conn[c].at = "send" /\ Past(c) /\ Live(c) /\ Admitted(c)
      /\ UNCHANGED <<callVars, task, accept, reads, listener, sink, held, dart>>
  BY DEF SendEvent, ServerInv, LifeInv, ConnInv, Past, Live
<1>2. CASE listener[n] = "ended" \/ (listener[n] = "on" /\ k \notin reads[n])
  <2>1. Answered({c}) /\ UNCHANGED bridgeVars
    BY <1>1, <1>2 DEF SendEvent, bridgeVars
  <2>2. ConnsMove
    BY <1>1, <1>t, <2>1, AnsweredMoves
  <2> QED
    BY <1>1, <2>1, <2>2, QuietStep
<1>3. CASE ~(listener[n] = "ended" \/ (listener[n] = "on" /\ k \notin reads[n]))
  <2>1. /\ Len(chan[n][k]) < Capacity
        /\ chan' = [chan EXCEPT ![n][k] = Append(@, c)]
        /\ listener[n] # "ended"
        /\ \/ k = "internal" /\ Answered({c})
           \/ conn' = [conn EXCEPT ![c].at = "asking"]
    BY <1>3 DEF SendEvent
  <2>2. ConnsMove
    <3>1. CASE Answered({c})
      BY <1>1, <1>t, <3>1, AnsweredMoves
    <3>2. CASE conn' = [conn EXCEPT ![c].at = "asking"]
      <4>1. ConnType'
        BY <1>t, <3>2 DEF ConnType
      <4>2. /\ conn'[c].of = conn[c].of /\ conn'[c].route = conn[c].route
            /\ conn'[c].at = "asking"
            /\ \A d \in Conns \ {c} : conn'[d] = conn[d]
        BY <1>t, <3>2 DEF ConnType
      <4>3. \A d \in Conns : Moves(d)
        BY <1>1, <2>1, <4>2 DEF Moves, Live, Past
      <4> QED
        BY <4>1, <4>3 DEF ConnsMove
    <3> QED
      BY <2>1, <3>1, <3>2
  <2>3. /\ chan' \in [Instances -> [Routes -> Seq(Conns)]]
        /\ \A m \in Instances, l \in Routes :
             \/ chan'[m][l] = chan[m][l]
             \/ /\ Len(chan'[m][l]) <= Capacity
                /\ \A i \in 1..Len(chan'[m][l]) :
                     (i \in 1..Len(chan[m][l]) /\ chan'[m][l][i] = chan[m][l][i])
                       \/ chan'[m][l][i] = c
    <3>1. chan \in [Instances -> [Routes -> Seq(Conns)]]
      BY <1>t DEF BridgeType
    <3> DEFINE row == [chan[n] EXCEPT ![k] = Append(chan[n][k], c)]
    <3>0. n \in Instances /\ chan[n] \in [Routes -> Seq(Conns)]
      BY <1>1, <1>t, <3>1 DEF ConnInv, ConnType, Instances
    <3>r. /\ row \in [Routes -> Seq(Conns)]
          /\ \A l \in Routes : row[l] = IF l = k THEN Append(chan[n][l], c) ELSE chan[n][l]
      <4>1. \A l \in Routes : chan[n][l] \in Seq(Conns) /\ Append(chan[n][l], c) \in Seq(Conns)
        BY <3>0
      <4> QED
        BY <3>0, <4>1
    <3>x. chan' = [chan EXCEPT ![n] = row]
      BY <2>1
    <3> HIDE DEF row
    <3>2. ASSUME NEW m \in Instances, NEW l \in Routes
          PROVE  \/ chan'[m][l] = chan[m][l]
                 \/ /\ chan'[m][l] = Append(chan[m][l], c)
                    /\ Len(chan[m][l]) < Capacity
      <4>1. chan'[m] = IF m = n THEN row ELSE chan[m]
        BY <3>1, <3>x
      <4>2. l = k => Len(chan[n][l]) < Capacity
        BY <2>1
      <4>3. CASE m # n
        BY <4>1, <4>3
      <4>4. CASE m = n /\ l # k
        BY <3>r, <4>1, <4>4
      <4>5. CASE m = n /\ l = k
        <5>1. chan'[m][l] = Append(chan[n][l], c)
          BY <3>r, <4>1, <4>5
        <5> QED
          BY <4>2, <4>5, <5>1
      <4> QED
        BY <4>3, <4>4, <4>5
    <3>3. chan' \in [Instances -> [Routes -> Seq(Conns)]]
      BY <3>0, <3>1, <3>r, <3>x
    <3>4. ASSUME NEW m \in Instances, NEW l \in Routes,
                 chan'[m][l] = Append(chan[m][l], c), Len(chan[m][l]) < Capacity
          PROVE  /\ Len(chan'[m][l]) <= Capacity
                 /\ \A i \in 1..Len(chan'[m][l]) :
                     (i \in 1..Len(chan[m][l]) /\ chan'[m][l][i] = chan[m][l][i])
                       \/ chan'[m][l][i] = c
      <4> DEFINE s == chan[m][l]
      <4>1. s \in Seq(Conns) /\ Len(s) < Capacity /\ Capacity \in Nat
        BY <3>1, <3>4, ConstantsAssumption
      <4>2. chan'[m][l] = Append(s, c)
        BY <3>4
      <4> HIDE DEF s
      <4>3. /\ Len(Append(s, c)) <= Capacity
            /\ \A i \in 1..Len(Append(s, c)) :
                 (i \in 1..Len(s) /\ Append(s, c)[i] = s[i]) \/ Append(s, c)[i] = c
        BY <4>1
      <4> QED
        BY <4>2, <4>3 DEF s
    <3> QED
      BY <3>2, <3>3, <3>4
  <2>4. BridgeType'
    BY <1>1, <1>t, <2>3 DEF BridgeType
  <2>5. \A m \in Instances, l \in Routes : \A i \in 1..Len(chan'[m][l]) :
          Past(chan'[m][l][i])
    BY <1>1, <1>t, <2>3 DEF ConnInv
  <2> QED
    BY <1>1, <2>2, <2>4, <2>5, ConnectionStep
<1> QED
  BY <1>2, <1>3

-----------------------------------------------------------------------------
(* The bridge. *)

LEMMA ListenKeeps ==
  ASSUME ServerInv, NEW n \in Instances, NEW k \in Routes, Listen(n, k)
  PROVE  ServerInv'
<1>t. ConnType /\ BridgeType /\ ConnInv
  BY DEF ServerInv, ServerType, LifeInv
<1> DEFINE keeps == IF k = "internal" THEN {} ELSE {Head(chan[n][k])}
<1>1. /\ listener[n] = "on" /\ chan[n][k] # <<>>
      /\ UNCHANGED <<callVars, task, accept, dart, sink>>
  BY DEF Listen
<1>2. chan[n][k] \in Seq(Conns) /\ chan[n][k] # <<>> /\ Len(chan[n][k]) <= Capacity
  BY <1>1, <1>t DEF BridgeType
<1>3. /\ Head(chan[n][k]) \in Conns /\ Past(Head(chan[n][k]))
      /\ Tail(chan[n][k]) \in Seq(Conns) /\ Len(Tail(chan[n][k])) = Len(chan[n][k]) - 1
      /\ \A i \in 1..Len(Tail(chan[n][k])) :
           i + 1 \in 1..Len(chan[n][k]) /\ Tail(chan[n][k])[i] = chan[n][k][i + 1]
  <2>1. 1 \in 1..Len(chan[n][k]) /\ Head(chan[n][k]) = chan[n][k][1]
    BY <1>2
  <2> QED
    BY <1>2, <1>t, <2>1 DEF ConnInv
<1>4. keeps \subseteq Conns /\ \A c \in keeps : Past(c)
  BY <1>3
<1> HIDE DEF keeps
<1>5. CASE sink[n]
  <2>1. /\ held' = held \cup keeps /\ chan' = [chan EXCEPT ![n][k] = Tail(@)]
        /\ UNCHANGED <<conn, reads, listener>>
    BY <1>5 DEF Listen, keeps
  <2>2. /\ chan' \in [Instances -> [Routes -> Seq(Conns)]]
        /\ \A m \in Instances, l \in Routes :
             chan'[m][l] = IF m = n /\ l = k THEN Tail(chan[n][k]) ELSE chan[m][l]
    BY <1>3, <1>t, <2>1 DEF BridgeType
  <2>3. BridgeType'
    <3>1. Len(Tail(chan[n][k])) <= Capacity
      BY <1>2, <1>3, ConstantsAssumption
    <3>2. \A m \in Instances, l \in Routes : Len(chan'[m][l]) <= Capacity
      BY <1>t, <2>2, <3>1 DEF BridgeType
    <3> QED
      BY <1>1, <1>4, <1>t, <2>1, <2>2, <3>2 DEF BridgeType
  <2>4. \A m \in Instances, l \in Routes : \A i \in 1..Len(chan'[m][l]) :
          Past(chan'[m][l][i])
    <3>1. \A m \in Instances, l \in Routes : \A i \in 1..Len(chan[m][l]) : Past(chan[m][l][i])
      BY <1>t, QueuedPast
    <3>2. \A i \in 1..Len(Tail(chan[n][k])) : Past(Tail(chan[n][k])[i])
      BY <1>3, <3>1
    <3> QED
      BY <2>2, <3>1, <3>2
  <2> QED
    BY <1>1, <1>4, <2>1, <2>3, <2>4, Stays, ConnectionStep
<1>6. CASE ~sink[n]
  <2>1. /\ listener' = [listener EXCEPT ![n] = "ended"]
        /\ reads' = [reads EXCEPT ![n] = {}]
        /\ chan' = [chan EXCEPT ![n] = [l \in Routes |-> <<>>]]
        /\ held' = (held \cup keeps) \ OfRemote(Asking(n))
        /\ Answered(Asking(n) \ held')
    BY <1>6 DEF Listen, ListenEnds, keeps
  <2>2. ConnsMove /\ \A c \in Asking(n) \ held' : conn'[c].at # "asking"
    <3>1. \A c \in (Asking(n) \ held') \cap Conns : Past(c)
      BY DEF Asking, Past
    <3> QED
      BY <1>t, <2>1, <3>1, AnsweredMoves DEF Asking
  <2>3. /\ chan' \in [Instances -> [Routes -> Seq(Conns)]]
        /\ \A m \in Instances, l \in Routes :
             chan'[m][l] = chan[m][l] \/ Len(chan'[m][l]) = 0
    BY <1>t, <2>1 DEF BridgeType
  <2>4. BridgeType'
    <3>1. \A m \in Instances, l \in Routes : Len(chan'[m][l]) <= Capacity
      BY <1>t, <2>3, ConstantsAssumption DEF BridgeType
    <3> QED
      BY <1>1, <1>4, <1>t, <2>1, <2>3, <3>1 DEF BridgeType
  <2>5. \A m \in Instances, l \in Routes : \A i \in 1..Len(chan'[m][l]) :
          chan'[m][l][i] \in Conns /\ Past(chan'[m][l][i])
    <3> SUFFICES ASSUME NEW m \in Instances, NEW l \in Routes,
                        NEW i \in 1..Len(chan'[m][l])
                 PROVE  chan'[m][l][i] \in Conns /\ Past(chan'[m][l][i])
      OBVIOUS
    <3>1. Len(chan'[m][l]) # 0
      OBVIOUS
    <3>2. chan'[m][l] = chan[m][l]
      BY <2>3, <3>1
    <3>3. i \in 1..Len(chan[m][l]) /\ chan[m][l] \in Seq(Conns)
      BY <1>t, <3>2 DEF BridgeType
    <3>4. chan[m][l][i] \in Conns /\ Past(chan[m][l][i])
      BY <1>t, <3>3, QueuedPast
    <3> QED
      BY <3>2, <3>4
  <2>6. ServerType'
    BY <1>1, <2>2, <2>4, Stutters DEF ServerInv, ServerType, ConnsMove
  <2>7. ConnInv' /\ RemoteVerified'
    <3>1. \A c \in held' : c \in Conns /\ (c \in held \/ Past(c))
      BY <1>4, <1>t, <2>1 DEF BridgeType
    <3> QED
      BY <1>1, <1>t, <2>2, <2>5, <3>1, MovesKeep DEF ServerInv, ServerType, TaskType
  <2>8. RemoteReleased'
    <3> SUFFICES ASSUME NEW m \in Instances, listener'[m] = "ended", NEW c \in Conns,
                        conn'[c].of = m, conn'[c].at = "asking",
                        conn'[c].route = "remote"
                 PROVE  FALSE
      BY DEF RemoteReleased, OfRemote, Asking
    <3>1. conn'[c] = conn[c]
      <4>1. conn[c] \in [at : {"new", "handshake", "ready", "send", "asking", "closed"},
                         of : 0..MaxStarts, route : Routes \cup {None}]
        BY <1>t DEF ConnType
      <4>2. conn'[c] # [conn[c] EXCEPT !.at = "closed"]
        BY <4>1
      <4> QED
        BY <2>2, <4>2 DEF ConnsMove, Moves
    <3>2. CASE m = n
      BY <2>1, <2>2, <3>1, <3>2 DEF OfRemote, Asking
    <3>3. CASE m # n
      BY <1>t, <2>1, <3>1, <3>3
         DEF BridgeType, ServerInv, RemoteReleased, OfRemote, Asking
    <3> QED
      BY <3>2, <3>3
  <2> QED
    BY <1>1, <2>6, <2>7, <2>8, LifeStutters DEF ServerInv, LifeInv
<1> QED
  BY <1>5, <1>6

LEMMA BridgeKeeps ==
  ASSUME ServerInv, NEW n \in Instances,
         \/ \E k \in Routes : ListenClosed(n, k)
         \/ Prune(n)
         \/ \E c \in Conns : Answer(n, c)
  PROVE  ServerInv'
<1>t. ConnType /\ BridgeType /\ ConnInv
  BY DEF ServerInv, ServerType, LifeInv
<1>q. \A m \in Instances, l \in Routes : \A i \in 1..Len(chan[m][l]) :
        Past(chan[m][l][i])
  BY <1>t, QueuedPast
<1>1. ASSUME NEW k \in Routes, ListenClosed(n, k) PROVE ServerInv'
  <2>1. /\ reads' = [reads EXCEPT ![n] = @ \ {k}]
        /\ UNCHANGED <<callVars, task, accept, conn, dart, chan, listener, sink, held>>
    BY <1>1 DEF ListenClosed, serverVars
  <2>2. BridgeType'
    BY <1>t, <2>1 DEF BridgeType
  <2> QED
    BY <1>q, <2>1, <2>2, Stays, ConnectionStep
<1>2. CASE Prune(n)
  <2>1. /\ held' \subseteq held
        /\ UNCHANGED <<callVars, task, accept, conn, dart, chan, listener, sink, reads>>
    BY <1>2 DEF Prune, serverVars
  <2>2. BridgeType'
    BY <1>t, <2>1 DEF BridgeType
  <2> QED
    BY <1>q, <2>1, <2>2, Stays, ConnectionStep
<1>3. ASSUME NEW c \in Conns, Answer(n, c) PROVE ServerInv'
  <2>1. /\ c \in held /\ held' = held \ {c} /\ Answered({c})
        /\ UNCHANGED <<callVars, task, accept, dart, chan, listener, sink, reads>>
    BY <1>3 DEF Answer
  <2>2. BridgeType'
    BY <1>t, <2>1 DEF BridgeType
  <2>3. ConnsMove
    BY <1>t, <2>1, AnsweredMoves DEF ConnInv
  <2> QED
    BY <1>q, <2>1, <2>2, <2>3, ConnectionStep
<1> QED
  BY <1>1, <1>2, <1>3


-----------------------------------------------------------------------------
(* The calls, while connections and the bridge stay as they are. *)

LEMMA CallStep ==
  ASSUME ServerInv, UNCHANGED <<serverVars, bridgeVars>>, CallType', DartType',
         StartInv', StopInv'
  PROVE  ServerInv'
<1>1. /\ task' = task /\ accept' = accept /\ conn' = conn /\ chan' = chan
      /\ held' = held /\ listener' = listener
  BY DEF serverVars, bridgeVars
<1>2. ServerType'
  BY <1>1, Stutters DEF ServerInv, ServerType
<1>3. ConnInv' /\ RemoteVerified' /\ RemoteReleased'
  BY <1>1 DEF ServerInv, LifeInv, ConnInv, Live, Past, Admitted, RemoteVerified,
     RemoteReleased, OfRemote, Asking
<1> QED
  BY <1>2, <1>3 DEF ServerInv, LifeInv

LEMMA StartCallKeeps ==
  ASSUME ServerInv, NEW n \in Instances,
         \/ StartLocks(n) \/ StartTakesStopTx(n) \/ StartStoppedOld(n) \/ StartFails(n)
  PROVE  ServerInv'
<1>t. /\ CallType /\ TaskType /\ DartType /\ StartInv /\ StopInv
      /\ n # None /\ None \notin {"start", "stop"} /\ None \notin Instances
      /\ 0 \in 0..MaxStarts
  BY ConstantsAssumption DEF ServerInv, ServerType, LifeInv, Instances
<1> USE DEF Instances
<1>1. CASE StartLocks(n)
  <2>1. /\ startPc[n] = "lock" /\ lock = None /\ lock' = n
        /\ startPc' = [startPc EXCEPT ![n] = IF cur = 0 THEN "bind" ELSE "stopOld"]
        /\ UNCHANGED <<starts, cur, stopPc, txLock, stopTx, serverVars, bridgeVars, dart>>
    BY <1>1 DEF StartLocks
  <2>2. CallType' /\ DartType'
    BY <1>t, <2>1 DEF CallType, DartType
  <2>3. StartInv' /\ StopInv'
    BY <1>t, <2>1 DEF CallType, StartInv, StopInv, serverVars
  <2> QED
    BY <2>1, <2>2, <2>3, CallStep
<1>2. CASE StartTakesStopTx(n)
  <2>1. /\ startPc[n] = "stopOld" /\ txLock[cur] = None /\ stopTx[cur] = "kept"
        /\ txLock' = [txLock EXCEPT ![cur] = "start"]
        /\ stopTx' = [stopTx EXCEPT ![cur] = "sent"]
        /\ UNCHANGED <<starts, cur, lock, startPc, stopPc, serverVars, bridgeVars, dart>>
    BY <1>2 DEF StartTakesStopTx, TakeStopTx
  <2>2. cur \in Instances /\ startPc[cur] = "started"
    BY <1>t, <2>1 DEF CallType, StartInv
  <2>3. CallType' /\ DartType'
    BY <1>t, <2>1 DEF CallType, DartType
  <2>4. StartInv' /\ StopInv'
    BY <1>t, <2>1, <2>2 DEF CallType, StartInv, StopInv, serverVars
  <2> QED
    BY <2>1, <2>3, <2>4, CallStep
<1>3. CASE StartStoppedOld(n)
  <2>1. /\ startPc[n] = "stopOld" /\ cur' = 0 /\ StopWaited(cur, "start")
        /\ startPc' = [startPc EXCEPT ![n] = "bind"]
        /\ UNCHANGED <<starts, lock, stopPc, stopTx, serverVars, bridgeVars, dart>>
    BY <1>3 DEF StartStoppedOld
  <2>2. cur \in Instances
    BY <1>t, <2>1 DEF CallType, StartInv
  <2>3. /\ task[cur] = "ended"
        /\ \/ txLock' = txLock
           \/ txLock' = [txLock EXCEPT ![cur] = None]
    BY <1>t, <2>1, <2>2 DEF StopWaited, StopInv
  <2>4. CallType' /\ DartType'
    BY <1>t, <2>1, <2>3 DEF CallType, DartType
  <2>5. StartInv'
    BY <1>t, <2>1 DEF CallType, StartInv, serverVars
  <2>6. StopInv'
    BY <1>t, <2>1, <2>2, <2>3 DEF CallType, StopInv, serverVars
  <2> QED
    BY <2>1, <2>4, <2>5, <2>6, CallStep
<1>4. CASE StartFails(n)
  <2>1. /\ startPc[n] = "bind" /\ lock' = None
        /\ startPc' = [startPc EXCEPT ![n] = "failed"]
        /\ UNCHANGED <<starts, cur, stopPc, txLock, stopTx, serverVars, bridgeVars>>
        /\ dart' = dart \/ dart' = [at |-> "idle", of |-> 0]
    BY <1>4 DEF StartFails
  <2>2. CallType' /\ DartType'
    BY <1>t, <2>1, ConstantsAssumption DEF CallType, DartType
  <2>3. StartInv' /\ StopInv'
    BY <1>t, <2>1 DEF CallType, StartInv, StopInv, serverVars
  <2> QED
    BY <2>1, <2>2, <2>3, CallStep
<1> QED
  BY <1>1, <1>2, <1>3, <1>4

LEMMA StopCallKeeps ==
  ASSUME ServerInv, NEW n \in Instances,
         StopTakesStopTx(n) \/ StopStopped(n) \/ StopForgets(n)
  PROVE  ServerInv'
<1>t. /\ CallType /\ TaskType /\ DartType /\ StartInv /\ StopInv
      /\ n # None /\ None \notin {"start", "stop"} /\ None \notin Instances
      /\ 0 \in 0..MaxStarts
  BY ConstantsAssumption DEF ServerInv, ServerType, LifeInv, Instances
<1> USE DEF Instances
<1>1. CASE StopTakesStopTx(n)
  <2>1. /\ txLock[n] = None /\ stopTx[n] = "kept" /\ startPc[n] = "started"
        /\ txLock' = [txLock EXCEPT ![n] = "stop"]
        /\ stopTx' = [stopTx EXCEPT ![n] = "sent"]
        /\ UNCHANGED <<starts, cur, lock, startPc, stopPc, serverVars, bridgeVars, dart>>
    BY <1>1, <1>t DEF StopTakesStopTx, TakeStopTx, StartInv
  <2>2. CallType' /\ DartType'
    BY <1>t, <2>1 DEF CallType, DartType
  <2>3. StartInv' /\ StopInv'
    BY <1>t, <2>1 DEF CallType, StartInv, StopInv, serverVars
  <2> QED
    BY <2>1, <2>2, <2>3, CallStep
<1>2. CASE StopStopped(n)
  <2>1. /\ task[n] = "ended"
        /\ txLock' = txLock \/ txLock' = [txLock EXCEPT ![n] = None]
        /\ stopPc' = [stopPc EXCEPT ![n] = "forget"]
        /\ UNCHANGED <<starts, cur, lock, startPc, stopTx, serverVars, bridgeVars, dart>>
    BY <1>2, <1>t DEF StopStopped, StopWaited, StopInv
  <2>2. CallType' /\ DartType'
    BY <1>t, <2>1 DEF CallType, DartType
  <2>3. StartInv'
    BY <1>t, <2>1 DEF StartInv, serverVars
  <2>4. \A m \in Instances : txLock'[m] = txLock[m] \/ (m = n /\ txLock'[m] = None)
    BY <1>t, <2>1 DEF CallType
  <2>5. /\ \A m \in Instances : m # n => stopPc'[m] = stopPc[m]
        /\ UNCHANGED <<stopTx, task, accept, cur>>
    BY <1>t, <2>1 DEF CallType, serverVars
  <2>6. StopInv'
    BY <1>t, <2>1, <2>4, <2>5 DEF StopInv
  <2> QED
    BY <2>1, <2>2, <2>3, <2>6, CallStep
<1>3. CASE StopForgets(n)
  <2>1. /\ stopPc[n] = "forget" /\ lock = None /\ task[n] = "ended"
        /\ cur' = IF cur = n THEN 0 ELSE cur
        /\ stopPc' = [stopPc EXCEPT ![n] = "done"]
        /\ UNCHANGED <<starts, lock, startPc, txLock, stopTx, serverVars, bridgeVars, dart>>
    BY <1>3, <1>t DEF StopForgets, StopInv
  <2>2. CallType' /\ DartType'
    BY <1>t, <2>1 DEF CallType, DartType
  <2>3. StartInv' /\ StopInv'
    BY <1>t, <2>1 DEF CallType, StartInv, StopInv, serverVars
  <2> QED
    BY <2>1, <2>2, <2>3, CallStep
<1> QED
  BY <1>1, <1>2, <1>3

LEMMA DartKeeps ==
  ASSUME ServerInv, Dart
  PROVE  ServerInv'
<1>t. /\ CallType /\ DartType /\ BridgeType /\ StartInv /\ StopInv /\ MaxStarts \in Nat
  BY ConstantsAssumption DEF ServerInv, ServerType, LifeInv
<1>q. \A m \in Instances, l \in Routes : \A i \in 1..Len(chan[m][l]) :
        Past(chan[m][l][i])
  BY QueuedPast DEF ServerInv, LifeInv
<1>1. CASE DartStarts
  <2>1. /\ starts < MaxStarts /\ starts' = starts + 1
        /\ startPc' = [startPc EXCEPT ![starts + 1] = "lock"]
        /\ dart' = [at |-> "starting", of |-> starts + 1]
        /\ UNCHANGED <<cur, lock, stopPc, txLock, stopTx, serverVars, bridgeVars>>
    BY <1>1 DEF DartStarts
  <2>2. starts + 1 \in Instances /\ startPc[starts + 1] = "none" /\ starts + 1 \in 0..MaxStarts
    BY <1>t, <2>1 DEF CallType, StartInv, Instances
  <2>3. CallType' /\ DartType'
    BY <1>t, <2>1, <2>2 DEF CallType, DartType
  <2>4. StartInv' /\ StopInv'
    BY <1>t, <2>1, <2>2 DEF CallType, StartInv, StopInv, serverVars, Instances
  <2> QED
    BY <2>1, <2>3, <2>4, CallStep
<1>2. CASE HotRestart
  <2>1. /\ dart' = [at |-> "idle", of |-> 0] /\ sink' = [n \in Instances |-> FALSE]
        /\ UNCHANGED <<callVars, task, accept, conn, chan, reads, listener, held>>
    BY <1>2 DEF HotRestart, serverVars
  <2>2. DartType' /\ BridgeType'
    BY <1>t, <2>1 DEF DartType, BridgeType
  <2>3. ServerType'
    BY <2>1, <2>2, Stutters DEF ServerInv, ServerType
  <2>4. ConnInv' /\ RemoteVerified' /\ RemoteReleased'
    BY <2>1 DEF ServerInv, LifeInv, ConnInv, Live, Past, Admitted, RemoteVerified,
       RemoteReleased, OfRemote, Asking
  <2> QED
    BY <1>t, <2>1, <2>3, <2>4, LifeStutters DEF ServerInv, LifeInv
<1>3. ASSUME NEW n \in Instances, DartListens(n) PROVE ServerInv'
  <2>1. /\ dart' = [dart EXCEPT !.at = "running"]
        /\ listener' = [listener EXCEPT ![n] = "on"]
        /\ reads' = [reads EXCEPT ![n] = Config[n].routes]
        /\ sink' = [sink EXCEPT ![n] = TRUE]
        /\ UNCHANGED <<callVars, task, accept, conn, chan, held>>
    BY <1>3 DEF DartListens, serverVars
  <2>2. DartType' /\ BridgeType'
    BY <1>t, <2>1, ConstantsAssumption DEF DartType, BridgeType, Instances
  <2>3. ServerType'
    BY <2>1, <2>2, Stutters DEF ServerInv, ServerType
  <2>4. ConnInv' /\ RemoteVerified'
    BY <2>1 DEF ServerInv, LifeInv, ConnInv, Live, Past, Admitted, RemoteVerified
  <2>5. RemoteReleased'
    BY <1>t, <2>1 DEF BridgeType, ServerInv, RemoteReleased, OfRemote, Asking
  <2> QED
    BY <1>t, <2>1, <2>3, <2>4, <2>5, LifeStutters DEF ServerInv, LifeInv
<1>4. ASSUME NEW n \in Instances, DartStops(n) PROVE ServerInv'
  <2>1. /\ dart' = [at |-> "idle", of |-> 0]
        /\ stopPc' = [stopPc EXCEPT ![n] = "stop"]
        /\ UNCHANGED <<starts, cur, lock, startPc, txLock, stopTx, serverVars, bridgeVars>>
    BY <1>4 DEF DartStops
  <2>2. CallType' /\ DartType'
    BY <1>t, <2>1 DEF CallType, DartType
  <2>3. StartInv' /\ StopInv'
    BY <1>t, <2>1 DEF CallType, StartInv, StopInv, serverVars
  <2> QED
    BY <2>1, <2>2, <2>3, CallStep
<1> QED
  BY <1>1, <1>2, <1>3, <1>4 DEF Dart

-----------------------------------------------------------------------------
(* The task. *)

\* The task of an instance moves, and the connections stay.
LEMMA TaskStep ==
  ASSUME ServerInv, UNCHANGED <<conn, bridgeVars, dart>>, CallType', TaskType',
         StartInv', StopInv',
         \A n \in Instances : task[n] \in {"running", "closing"} /\ task'[n] # task[n]
            => task'[n] \in {"running", "closing"} \/ \A c \in Conns : Live(c) => conn[c].of # n
  PROVE  ServerInv'
<1>t. BridgeType /\ ConnInv
  BY DEF ServerInv, ServerType, LifeInv
<1>1. conn' = conn /\ chan' = chan /\ held' = held /\ listener' = listener
  BY DEF bridgeVars
<1>2. ServerType'
  BY <1>1, Stutters DEF ServerInv, ServerType
<1>3. ConnsMove
  BY <1>1, Stays
<1>4. \A n \in Instances, k \in Routes : \A i \in 1..Len(chan'[n][k]) :
        chan'[n][k][i] \in Conns /\ Past(chan'[n][k][i])
  BY <1>1, <1>t, QueuedPast DEF BridgeType
<1>5. \A c \in held' : c \in Conns /\ (c \in held \/ Past(c))
  BY <1>1, <1>t DEF BridgeType
<1>6. ConnInv' /\ RemoteVerified'
  BY <1>3, <1>4, <1>5, MovesKeep DEF ServerInv, ServerType, LifeInv, TaskType
<1>7. RemoteReleased'
  BY <1>1 DEF ServerInv, RemoteReleased, OfRemote, Asking
<1> QED
  BY <1>2, <1>6, <1>7 DEF ServerInv, LifeInv

LEMMA ShutdownKeeps ==
  ASSUME ServerInv, NEW n \in Instances, Shutdown(n)
  PROVE  ServerInv'
<1>t. /\ CallType /\ TaskType /\ ConnType /\ StartInv /\ StopInv
  BY DEF ServerInv, ServerType, LifeInv
<1>1. CASE TaskStops(n)
  <2>1. /\ task[n] = "running" /\ task' = [task EXCEPT ![n] = "closing"]
        /\ accept' = [accept EXCEPT ![n] = {}]
        /\ UNCHANGED <<callVars, conn, bridgeVars, dart>>
    BY <1>1 DEF TaskStops
  <2>2. CallType' /\ TaskType'
    BY <1>t, <2>1, Stutters DEF TaskType
  <2>3. StartInv' /\ StopInv'
    BY <1>t, <2>1 DEF TaskType, StartInv, StopInv, callVars
  <2>4. \A m \in Instances : task'[m] # task[m] => task'[m] = "closing"
    BY <1>t, <2>1 DEF TaskType
  <2> QED
    BY <2>1, <2>2, <2>3, <2>4, TaskStep
<1>2. CASE TaskEnds(n)
  <2>1. /\ task[n] = "closing" /\ task' = [task EXCEPT ![n] = "ended"]
        /\ \A c \in Conns : Live(c) => conn[c].of # n
        /\ UNCHANGED <<callVars, accept, conn, bridgeVars, dart>>
    BY <1>2 DEF TaskEnds
  <2>2. CallType' /\ TaskType'
    BY <1>t, <2>1, Stutters DEF TaskType
  <2>3. StartInv' /\ StopInv'
    BY <1>t, <2>1 DEF TaskType, StartInv, StopInv, callVars
  <2>4. \A m \in Instances : task'[m] # task[m] => m = n
    BY <1>t, <2>1 DEF TaskType
  <2> QED
    BY <2>1, <2>2, <2>3, <2>4, TaskStep
<1>3. ASSUME NEW c \in Conns, ConnectionDropped(c) PROVE ServerInv'
  BY <1>3, <1>t, CloseMoves, QuietStep DEF ConnectionDropped
<1> QED
  BY <1>1, <1>2, <1>3 DEF Shutdown

LEMMA StartKeeps ==
  ASSUME ServerInv, NEW n \in Instances, NEW sockets \in {{"v4"}, Sockets},
         NEW certificate \in BOOLEAN, Start(n, sockets, certificate)
  PROVE  ServerInv'
<1>t. /\ CallType /\ TaskType /\ StartInv /\ StopInv
      /\ None \notin Instances
  BY ConstantsAssumption DEF ServerInv, ServerType, LifeInv, Instances
<1>1. /\ startPc[n] = "bind" /\ lock' = None /\ cur' = n
      /\ task' = [task EXCEPT ![n] = IF certificate THEN "running" ELSE "closing"]
      /\ accept' = [accept EXCEPT ![n] = IF certificate THEN sockets ELSE {}]
      /\ stopTx' = [stopTx EXCEPT ![n] = "kept"]
      /\ startPc' = [startPc EXCEPT ![n] = "started"]
      /\ UNCHANGED <<starts, stopPc, txLock, conn, bridgeVars, dart>>
  BY DEF Start, Running
<1>2. CallType'
  BY <1>t, <1>1 DEF CallType, Instances
<1>3. TaskType'
  BY <1>t, <1>1 DEF TaskType, Sockets
<1>4. /\ lock = n /\ cur = 0 /\ task[n] = "none" /\ stopTx[n] = "none" /\ n # 0
  BY <1>t, <1>1 DEF StartInv, Instances
<1>5. StartInv'
  BY <1>t, <1>1, <1>4 DEF CallType, TaskType, StartInv
<1>6. StopInv'
  BY <1>t, <1>1, <1>4 DEF CallType, TaskType, StopInv, Instances
<1>7. \A m \in Instances : task'[m] # task[m] => task[m] = "none"
  BY <1>t, <1>1, <1>4 DEF TaskType
<1> QED
  BY <1>1, <1>2, <1>3, <1>5, <1>6, <1>7, TaskStep

-----------------------------------------------------------------------------

LEMMA NextServer == ServerInv /\ [Next]_vars => ServerInv'
<1>1. ASSUME ServerInv, UNCHANGED vars PROVE ServerInv'
  BY <1>1, Stays, QuietStep DEF vars, serverVars
<1>2. ASSUME ServerInv, NEW n \in Instances, Call(n) PROVE ServerInv'
  BY <1>2, StartCallKeeps, StopCallKeeps, StartKeeps DEF Call
<1>3. ASSUME ServerInv, NEW n \in Instances, Serve(n) PROVE ServerInv'
  BY <1>3, AcceptKeeps DEF Serve
<1>4. ASSUME ServerInv, NEW n \in Instances, Bridge(n) PROVE ServerInv'
  BY <1>4, ListenKeeps, BridgeKeeps DEF Bridge
<1>5. ASSUME ServerInv, NEW c \in Conns, Exchange(c) PROVE ServerInv'
  BY <1>5, ExchangeKeeps, SendEventKeeps DEF Exchange
<1> QED
  BY <1>1, <1>2, <1>3, <1>4, <1>5, DartKeeps, ShutdownKeeps DEF Next

\* Only a request with a PIN, and a new server, touch the counters.
LEMMA NextPin ==
  ServerInv /\ PinInv /\ [Next]_vars =>
    /\ PinInv'
    /\ \/ UNCHANGED pinVars
       \/ Pin!Counts
       \/ \E n \in Instances : stopTx[n] = "none" /\ stopTx'[n] = "kept"
<1> SUFFICES ASSUME ServerInv, PinInv, [Next]_vars
             PROVE  /\ PinInv'
                    /\ \/ UNCHANGED pinVars
                       \/ Pin!Counts
                       \/ \E n \in Instances : stopTx[n] = "none" /\ stopTx'[n] = "kept"
  OBVIOUS
<1>1. CASE UNCHANGED pinVars
  <2>1. cache' = cache /\ others' = others
    BY <1>1 DEF pinVars
  <2>2. PinInv'
    BY <2>1 DEF PinInv, Pin!TypeOK
  <2> QED
    BY <1>1, <2>2
<1>2. ASSUME NEW c \in Conns, Check(Ip(c)) PROVE PinInv' /\ Pin!Counts
  <2>1. Ip(c) \in Peers
    BY ConstantsAssumption DEF Ip
  <2> QED
    BY <1>2, <2>1, CheckKeepsPin
<1>3. ASSUME NEW n \in Instances, NEW sockets, NEW certificate,
             Start(n, sockets, certificate)
      PROVE  PinInv' /\ stopTx[n] = "none" /\ stopTx'[n] = "kept"
  <2>1. /\ startPc[n] = "bind" /\ stopTx' = [stopTx EXCEPT ![n] = "kept"]
        /\ cache' = <<>> /\ others' = [p \in Peers |-> {}]
    BY <1>3 DEF Start, Running
  <2>2. stopTx[n] = "none" /\ stopTx'[n] = "kept"
    BY <2>1 DEF ServerInv, ServerType, CallType, LifeInv, StartInv
  <2>3. Len(cache') = 0 /\ cache' \in Seq(Pin!Entry)
    BY <2>1
  <2>4. Pin!TypeOK'
    BY <2>1, <2>3, ConstantsAssumption DEF Pin!TypeOK
  <2>5. \A q \in Peers : IsFiniteSet(others'[q])
    BY <2>1, FS_EmptySet
  <2> QED
    BY <2>2, <2>3, <2>4, <2>5 DEF PinInv
<1>4. \/ UNCHANGED pinVars
      \/ \E c \in Conns : Check(Ip(c))
      \/ \E n \in Instances : \E sockets, certificate : Start(n, sockets, certificate)
  <2>1. CASE Dart
    BY <2>1 DEF Dart, DartStarts, HotRestart, DartListens, DartStops
  <2>2. ASSUME NEW n \in Instances, Call(n) \/ Shutdown(n) \/ Serve(n) \/ Bridge(n)
        PROVE  UNCHANGED pinVars \/ \E sockets, certificate : Start(n, sockets, certificate)
    BY <2>2 DEF Call, StartLocks, StartTakesStopTx, StartStoppedOld, StartFails,
         StopTakesStopTx, StopStopped, StopForgets, Shutdown, TaskStops, TaskEnds,
         ConnectionDropped, Serve, Accept, Bridge, Listen, ListenClosed, Prune, Answer
  <2>3. ASSUME NEW c \in Conns, Exchange(c)
        PROVE  UNCHANGED pinVars \/ Check(Ip(c))
    BY <2>3 DEF Exchange, Handshake, ClientLeaves, SendEvent, Request,
         RequestRefused, Check
  <2>4. CASE UNCHANGED vars
    BY <2>4 DEF vars
  <2> QED
    BY <2>1, <2>2, <2>3, <2>4 DEF Next
<1> QED
  BY <1>1, <1>2, <1>3, <1>4

LEMMA InitPin == Init => PinInv
<1> SUFFICES ASSUME Init PROVE PinInv
  OBVIOUS
<1>1. Pin!TypeOK
  BY InitLife DEF TypeOK
<1>2. cache = <<>> /\ others = [p \in Peers |-> {}]
  BY DEF Init, Pin!Init
<1>3. \A q \in Peers : IsFiniteSet(others[q])
  BY <1>2, FS_EmptySet
<1> QED
  BY <1>1, <1>2, <1>3 DEF PinInv

\* The inductive invariant of the whole server.
LEMMA ServerInvariant == Spec => [](ServerInv /\ PinInv)
<1>1. Init => ServerInv /\ PinInv
  BY InitLife, InitPin, TypeParts DEF ServerInv
<1>2. ServerInv /\ PinInv /\ [Next]_vars => (ServerInv /\ PinInv)'
  BY NextServer, NextPin
<1> QED
  BY <1>1, <1>2, PTL DEF Spec

LEMMA ServerIsSafe == ServerInv /\ PinInv => ServerSafe
<1> SUFFICES ASSUME ServerInv, PinInv PROVE ServerSafe
  OBVIOUS
<1> USE DEF ServerInv, LifeInv
<1>1. TypeOK
  BY TypeParts DEF PinInv
<1>2. \A n \in Instances : task[n] \notin {"running", "closing"} => Gone(n)
  BY DEF StopInv, ConnInv, Gone, Bound
<1>3. PortFree
  BY <1>2 DEF PortFree, StartInv, StopInv, Instances
<1>4. StopReleases
  BY <1>2 DEF StopReleases, StopInv
<1>5. LeftoverFound
  BY DEF LeftoverFound, StopInv
<1> QED
  BY <1>1, <1>3, <1>4, <1>5 DEF ServerSafe

\* Whatever the order of starts, stops and hot restarts: when start_server
\* binds, no server is left on the port or with a client; a stop that has
\* returned left neither; the running server is the one start_server will
\* stop; the file system serves verified clients only, and none of them waits
\* for a listener that is gone.
THEOREM Safe == Spec => []ServerSafe
BY ServerInvariant, ServerIsSafe, PTL

\* check_pin forgets the failures of an address only when its own PIN was
\* right, when a new server starts, or when as many other addresses as the LRU
\* cache holds have been checked since.
THEOREM Counting == Spec => PinCounts
<1>1. ServerInv /\ PinInv /\ [Next]_vars =>
        [Pin!Counts \/ \E n \in Instances : stopTx[n] = "none" /\ stopTx'[n] = "kept"]_pinVars
  BY NextPin
<1> QED
  BY <1>1, ServerInvariant, PTL DEF Spec, PinCounts

-----------------------------------------------------------------------------
(* WebSend.                                                                *)

-----------------------------------------------------------------------------
(* Types. *)

\* What the proofs use of the types, without the channel.
LEMMA TypeFunctions ==
  WebType =>
    /\ sessions \in [Browsers -> {"none", "pending", "accepted"}]
    /\ pc \in [Prepares -> {"new", "insert", "send", "decide", "clear", "accept",
                            "done"}]
    /\ answer \in [Prepares -> {"none", "ok", "rejected", "error"}]
    /\ decision \in [Prepares -> {"empty", "asked", "accept", "decline", "lost"}]
    /\ abort \subseteq Prepares
    /\ dpc \in [Downloads -> {"idle", "send", "queued", "asked"}]
    /\ dip \in [Downloads -> Browsers \cup {NoPeer}]
    /\ granted \subseteq Browsers
BY DEF WebType

ChannelType == events \in Seq(Event) /\ Len(events) <= WebCapacity /\ rxOpen \in BOOLEAN

LEMMA SendType ==
  ASSUME ChannelType, NEW e \in Event, Send(e)
  PROVE  ChannelType'
<1>1. CASE rxOpen
  <2>1. events' = Append(events, e) /\ Len(events) < WebCapacity /\ rxOpen' = rxOpen
    BY <1>1 DEF Send
  <2> QED
    BY <2>1, WebAssumption DEF ChannelType
<1>2. CASE ~rxOpen
  BY <1>2 DEF Send, ChannelType
<1> QED
  BY <1>1, <1>2

LEMMA EventTypes ==
  /\ \A r \in Prepares : PrepareDownloadEvent(r) \in Event
  /\ \A d \in Downloads \cup {NoPeer} : FileDownloadEvent(d) \in Event
BY DEF PrepareDownloadEvent, FileDownloadEvent, Event

LEMMA InitType == WebInit => WebType
BY WebAssumption DEF WebInit, WebType

LEMMA PrepareType ==
  ASSUME WebType, NEW r \in Prepares, PrepareStep(r)
  PROVE  WebType'
<1>f. PeerOf[r] \in Browsers
  BY WebAssumption
<1>c. ChannelType
  BY DEF WebType, ChannelType
<1>1. UNCHANGED <<downloadVars, granted>>
  BY DEF PrepareStep, PrepareDownload, InsertPending, SendPrepareDownload,
     ReceiveDecision, GuardClear, AcceptSession, DropPrepare, AbortClear
<1>2. ChannelType'
  <2>1. CASE SendPrepareDownload(r)
    BY <1>c, <2>1, SendType, EventTypes DEF SendPrepareDownload
  <2>2. CASE ~SendPrepareDownload(r)
    BY <1>c, <2>2 DEF PrepareStep, PrepareDownload, InsertPending,
         ReceiveDecision, GuardClear, AcceptSession, DropPrepare, AbortClear,
         channelVars, ChannelType
  <2> QED
    BY <2>1, <2>2
<1>3. sessions' \in [Browsers -> {"none", "pending", "accepted"}]
  BY <1>f, TypeFunctions DEF PrepareStep, PrepareDownload, InsertPending,
     SendPrepareDownload, ReceiveDecision, GuardClear, AcceptSession,
     DropPrepare, AbortClear, Cleared
<1>4. /\ pc' \in [Prepares -> {"new", "insert", "send", "decide", "clear", "accept",
                               "done"}]
      /\ answer' \in [Prepares -> {"none", "ok", "rejected", "error"}]
      /\ decision' \in [Prepares -> {"empty", "asked", "accept", "decline", "lost"}]
      /\ abort' \subseteq Prepares
  BY TypeFunctions DEF PrepareStep, PrepareDownload, InsertPending,
     SendPrepareDownload, ReceiveDecision, GuardClear, AcceptSession,
     DropPrepare, AbortClear, Finish
<1> QED
  BY <1>1, <1>2, <1>3, <1>4 DEF WebType, ChannelType, downloadVars

LEMMA DownloadType ==
  ASSUME WebType, NEW d \in Downloads, DownloadStep(d)
  PROVE  WebType'
<1>c. ChannelType
  BY DEF WebType, ChannelType
<1>1. UNCHANGED <<sessions, prepareVars, granted>>
  BY DEF DownloadStep, Download, SendFileDownload, DropDownload
<1>2. /\ dpc' \in [Downloads -> {"idle", "send", "queued", "asked"}]
      /\ dip' \in [Downloads -> Browsers \cup {NoPeer}]
  BY TypeFunctions DEF DownloadStep, Download, SendFileDownload, DropDownload,
     DownloadIdle
<1>3. ChannelType'
  <2>1. CASE SendFileDownload(d)
    BY <1>c, <2>1, SendType, EventTypes DEF SendFileDownload
  <2>2. CASE DropDownload(d)
    <3>1. /\ events' = [i \in 1..Len(events) |->
                IF events[i] = FileDownloadEvent(d) THEN FileDownloadEvent(NoPeer)
                ELSE events[i]]
          /\ rxOpen' = rxOpen
      BY <2>2 DEF DropDownload
    <3>2. Len(events) \in Nat /\ \A i \in 1..Len(events) : events[i] \in Event
      BY <1>c DEF ChannelType
    <3>3. events' \in Seq(Event) /\ Len(events') = Len(events)
      BY <3>1, <3>2, EventTypes
    <3> QED
      BY <1>c, <3>1, <3>3 DEF ChannelType
  <2>3. CASE \E p \in Browsers : Download(d, p)
    BY <1>c, <2>3 DEF Download, channelVars, ChannelType
  <2> QED
    BY <2>1, <2>2, <2>3 DEF DownloadStep
<1> QED
  BY <1>1, <1>2, <1>3 DEF WebType, ChannelType, prepareVars

LEMMA AppType ==
  ASSUME WebType, AppNext
  PROVE  WebType'
<1>c. ChannelType
  BY DEF WebType, ChannelType
<1>1. CASE AppReceive
  <2>1. /\ events' \in Seq(Event) /\ Len(events') = Len(events) - 1
        /\ Len(events) \in Nat /\ rxOpen' = rxOpen
    BY <1>1, <1>c DEF AppReceive, ChannelType
  <2>2. /\ decision' \in [Prepares -> {"empty", "asked", "accept", "decline", "lost"}]
        /\ dpc' \in [Downloads -> {"idle", "send", "queued", "asked"}]
    BY <1>1, TypeFunctions DEF AppReceive
  <2>3. ChannelType'
    BY <1>c, <2>1, WebAssumption DEF ChannelType
  <2> QED
    BY <1>1, <2>2, <2>3 DEF AppReceive, WebType, ChannelType
<1>2. ASSUME NEW r \in Prepares, NEW how \in {"accept", "decline", "lost"},
             AppDecide(r, how)
      PROVE  WebType'
  BY <1>2, WebAssumption DEF AppDecide, WebType, downloadVars, channelVars
<1>3. ASSUME NEW d \in Downloads, AppContent(d)
      PROVE  WebType'
  BY <1>3 DEF AppContent, DownloadIdle, WebType, prepareVars, channelVars
<1>4. CASE AppClose
  <2>1. events' = <<>> /\ rxOpen' = FALSE
    BY <1>4 DEF AppClose
  <2>2. ChannelType'
    <3>1. events' \in Seq(Event) /\ Len(events') = 0
      BY <2>1
    <3>2. rxOpen' \in BOOLEAN
      BY <2>1
    <3>3. Len(events') <= WebCapacity
      BY <3>1, WebAssumption
    <3> QED
      BY <3>1, <3>2, <3>3 DEF ChannelType
  <2>3. /\ decision' \in [Prepares -> {"empty", "asked", "accept", "decline", "lost"}]
        /\ dpc' \in [Downloads -> {"idle", "send", "queued", "asked"}]
        /\ dip' \in [Downloads -> Browsers \cup {NoPeer}]
    BY <1>4, TypeFunctions DEF AppClose
  <2> QED
    BY <1>4, <2>2, <2>3 DEF AppClose, WebType, ChannelType
<1> QED
  BY <1>1, <1>2, <1>3, <1>4 DEF AppNext

LEMMA NextType == WebType /\ [WebNext]_webVars => WebType'
<1>1. ASSUME WebType, UNCHANGED webVars PROVE WebType'
  BY <1>1 DEF webVars, WebType
<1> QED
  BY <1>1, PrepareType, DownloadType, AppType DEF WebNext

-----------------------------------------------------------------------------
(* The queued responders.  The channel holds the responder of a download   *)
(* at most once, and only while its handler waits for it to be taken: a    *)
(* handler that is gone cannot be woken by an event it left behind.        *)

QueuedInv ==
  \A d \in Downloads, i \in 1..Len(events) : events[i] = FileDownloadEvent(d) =>
    /\ dpc[d] = "queued"
    /\ \A j \in 1..Len(events) : events[j] = FileDownloadEvent(d) => i = j

LEMMA EventsDistinct ==
  /\ \A d, e : FileDownloadEvent(d) = FileDownloadEvent(e) => d = e
  /\ \A d, r : FileDownloadEvent(d) # PrepareDownloadEvent(r)
BY DEF FileDownloadEvent, PrepareDownloadEvent

\* Appending an event: what is at which place.
LEMMA AppendPlaces ==
  ASSUME events \in Seq(Event), NEW e, events' = Append(events, e)
  PROVE  /\ Len(events') = Len(events) + 1
         /\ \A i \in 1..Len(events') :
              \/ i \in 1..Len(events) /\ events'[i] = events[i]
              \/ i = Len(events) + 1 /\ i \notin 1..Len(events) /\ events'[i] = e
OBVIOUS

LEMMA NextQueued == WebType /\ QueuedInv /\ [WebNext]_webVars => QueuedInv'
<1> SUFFICES ASSUME WebType, QueuedInv, [WebNext]_webVars PROVE QueuedInv'
  OBVIOUS
<1> USE TypeFunctions
<1>c. events \in Seq(Event) /\ Len(events) \in Nat
  BY DEF WebType
<1>0. ASSUME UNCHANGED <<events, dpc>> PROVE QueuedInv'
  BY <1>0 DEF QueuedInv
<1>1. ASSUME NEW r \in Prepares, PrepareStep(r) PROVE QueuedInv'
  <2>1. dpc' = dpc
    BY <1>1 DEF PrepareStep, PrepareDownload, InsertPending, SendPrepareDownload,
         ReceiveDecision, GuardClear, AcceptSession, DropPrepare, AbortClear,
         downloadVars
  <2>2. events' = events \/ events' = Append(events, PrepareDownloadEvent(r))
    BY <1>1 DEF PrepareStep, PrepareDownload, InsertPending, SendPrepareDownload,
         ReceiveDecision, GuardClear, AcceptSession, DropPrepare, AbortClear,
         channelVars, Send
  <2>3. CASE events' = Append(events, PrepareDownloadEvent(r))
    BY <1>c, <2>1, <2>3, AppendPlaces, EventsDistinct DEF QueuedInv
  <2> QED
    BY <1>0, <2>1, <2>2, <2>3
<1>2. ASSUME NEW d \in Downloads, SendFileDownload(d) PROVE QueuedInv'
  <2>1. \A i \in 1..Len(events) : events[i] # FileDownloadEvent(d)
    BY <1>2 DEF SendFileDownload, QueuedInv
  <2>2. CASE rxOpen
    <3>1. events' = Append(events, FileDownloadEvent(d)) /\ dpc' = [dpc EXCEPT ![d] = "queued"]
      BY <1>2, <2>2 DEF SendFileDownload, Send
    <3> QED
      BY <1>c, <2>1, <3>1, AppendPlaces, EventsDistinct DEF QueuedInv
  <2>3. CASE ~rxOpen
    <3>1. events' = events /\ dpc' = [dpc EXCEPT ![d] = "idle"]
      BY <1>2, <2>3 DEF SendFileDownload, Send, DownloadIdle
    <3> QED
      BY <2>1, <3>1 DEF QueuedInv
  <2> QED
    BY <2>2, <2>3
<1>3. ASSUME NEW d \in Downloads, DropDownload(d) PROVE QueuedInv'
  <2>1. /\ Len(events') = Len(events)
        /\ \A i \in 1..Len(events) :
             events'[i] = IF events[i] = FileDownloadEvent(d)
                          THEN FileDownloadEvent(NoPeer) ELSE events[i]
    BY <1>3, <1>c DEF DropDownload
  <2>2. \A e \in Downloads, i \in 1..Len(events) :
          events'[i] = FileDownloadEvent(e) => e # d /\ events[i] = FileDownloadEvent(e)
    BY <2>1, EventsDistinct, WebAssumption
  <2>3. \A e \in Downloads : e # d => dpc'[e] = dpc[e]
    BY <1>3 DEF DropDownload, DownloadIdle
  <2> QED
    BY <2>1, <2>2, <2>3 DEF QueuedInv
<1>4. ASSUME NEW d \in Downloads, NEW p \in Browsers, Download(d, p) PROVE QueuedInv'
  BY <1>4 DEF Download, QueuedInv, channelVars
<1>5. CASE AppReceive
  <2>1. /\ Len(events) > 0 /\ 1 \in 1..Len(events) /\ Head(events) = events[1]
        /\ Len(events') = Len(events) - 1
        /\ \A i \in 1..Len(events') : events'[i] = events[i + 1] /\ i + 1 \in 1..Len(events)
    BY <1>5, <1>c DEF AppReceive
  <2>2. \A d \in Downloads : Head(events) # FileDownloadEvent(d) => dpc'[d] = dpc[d]
    BY <1>5 DEF AppReceive
  <2> SUFFICES ASSUME NEW d \in Downloads, NEW i \in 1..Len(events'),
                      events'[i] = FileDownloadEvent(d)
               PROVE  /\ dpc'[d] = "queued"
                      /\ \A j \in 1..Len(events') : events'[j] = FileDownloadEvent(d) => i = j
    BY DEF QueuedInv
  <2>3. /\ dpc[d] = "queued"
        /\ \A j \in 1..Len(events) : events[j] = FileDownloadEvent(d) => i + 1 = j
    BY <2>1 DEF QueuedInv
  <2>4. i \in Nat /\ i # 0 /\ i + 1 # 1
    BY <2>1
  <2>5. Head(events) # FileDownloadEvent(d)
    BY <2>1, <2>3, <2>4
  <2>6. \A j \in 1..Len(events') : events'[j] = FileDownloadEvent(d) => i + 1 = j + 1
    BY <2>1, <2>3
  <2>7. \A j \in 1..Len(events') : i + 1 = j + 1 => i = j
    BY <2>1, <2>4
  <2> QED
    BY <2>2, <2>3, <2>5, <2>6, <2>7
<1>6. ASSUME NEW r, NEW how, AppDecide(r, how) PROVE QueuedInv'
  BY <1>0, <1>6 DEF AppDecide, downloadVars, channelVars
<1>7. ASSUME NEW d \in Downloads, AppContent(d) PROVE QueuedInv'
  BY <1>7 DEF AppContent, DownloadIdle, QueuedInv, channelVars
<1>8. CASE AppClose
  <2>1. Len(events') = 0
    BY <1>8 DEF AppClose
  <2> QED
    BY <2>1 DEF QueuedInv
<1>9. CASE UNCHANGED webVars
  BY <1>0, <1>9 DEF webVars
<1> QED
  BY <1>1, <1>2, <1>3, <1>4, <1>5, <1>6, <1>7, <1>8, <1>9
     DEF WebNext, DownloadStep, AppNext

-----------------------------------------------------------------------------
(* Consent.  An address is accepted, and served, only after the            *)
(* application accepted one of its requests.                               *)

GrantedInv ==
  /\ \A p \in Browsers : sessions[p] = "accepted" => p \in granted
  /\ \A r \in Prepares :
       pc[r] = "accept" \/ decision[r] = "accept" => PeerOf[r] \in granted
  /\ OnlyGrantedServed

LEMMA NextGranted == WebType /\ QueuedInv /\ GrantedInv /\ [WebNext]_webVars => GrantedInv'
<1> SUFFICES ASSUME WebType, QueuedInv, GrantedInv, [WebNext]_webVars PROVE GrantedInv'
  OBVIOUS
<1> USE TypeFunctions, WebAssumption DEF GrantedInv, OnlyGrantedServed
<1>1. ASSUME NEW r \in Prepares, PrepareStep(r) PROVE GrantedInv'
  <2>1. UNCHANGED <<dpc, dip, granted, decision>>
    BY <1>1 DEF PrepareStep, PrepareDownload, InsertPending, SendPrepareDownload,
         ReceiveDecision, GuardClear, AcceptSession, DropPrepare, AbortClear,
         downloadVars
  <2>2. \A p \in Browsers : sessions'[p] = "accepted" =>
          sessions[p] = "accepted" \/ (pc[r] = "accept" /\ p = PeerOf[r])
    BY <1>1 DEF PrepareStep, PrepareDownload, InsertPending, SendPrepareDownload,
         ReceiveDecision, GuardClear, AcceptSession, DropPrepare, AbortClear,
         Cleared
  <2>3. \A q \in Prepares : pc'[q] = "accept" =>
          pc[q] = "accept" \/ decision[q] = "accept"
    BY <1>1 DEF PrepareStep, PrepareDownload, InsertPending, SendPrepareDownload,
         ReceiveDecision, GuardClear, AcceptSession, DropPrepare, AbortClear,
         Finish
  <2> QED
    BY <2>1, <2>2, <2>3
<1>2. ASSUME NEW d \in Downloads, DownloadStep(d) PROVE GrantedInv'
  BY <1>2 DEF DownloadStep, Download, SendFileDownload, DropDownload,
       DownloadIdle, Valid, prepareVars
<1>3. CASE AppReceive
  <2>1. \A r \in Prepares : decision'[r] = "accept" => decision[r] = "accept"
    BY <1>3 DEF AppReceive
  <2>2. UNCHANGED <<sessions, pc, dip, granted>>
    BY <1>3 DEF AppReceive
  <2>3. Head(events) = events[1] /\ 1 \in 1..Len(events)
    BY <1>3 DEF AppReceive, WebType
  <2>4. \A d \in Downloads : dpc'[d] # "idle" => dpc[d] # "idle"
    BY <1>3, <2>3 DEF AppReceive, QueuedInv
  <2> QED
    BY <2>1, <2>2, <2>4
<1>4. ASSUME NEW r \in Prepares, NEW how, AppDecide(r, how) PROVE GrantedInv'
  BY <1>4 DEF AppDecide, downloadVars
<1>5. ASSUME NEW d \in Downloads, AppContent(d) PROVE GrantedInv'
  BY <1>5 DEF AppContent, DownloadIdle, prepareVars
<1>6. CASE AppClose
  <2>1. \A r \in Prepares : decision'[r] = "accept" => decision[r] = "accept"
    BY <1>6 DEF AppClose
  <2>2. UNCHANGED <<sessions, pc, granted>>
    BY <1>6 DEF AppClose
  <2>3. \A d \in Downloads : dpc'[d] # "idle" => dpc[d] # "idle" /\ dip'[d] = dip[d]
    BY <1>6 DEF AppClose
  <2> QED
    BY <2>1, <2>2, <2>3
<1>7. CASE UNCHANGED webVars
  BY <1>7 DEF webVars
<1> QED
  BY <1>1, <1>2, <1>3, <1>4, <1>5, <1>6, <1>7 DEF WebNext, AppNext

-----------------------------------------------------------------------------
(* Pending entries. *)

LEMMA NextNotLeaked ==
  WebType /\ PendingEntryNotLeaked /\ [WebNext]_webVars => PendingEntryNotLeaked'
<1> SUFFICES ASSUME WebType, PendingEntryNotLeaked, [WebNext]_webVars,
                    NEW p \in Browsers, Guarded(p), sessions'[p] = "pending"
             PROVE  \E r \in Prepares : PeerOf[r] = p /\ Holds(r)'
  BY DEF PendingEntryNotLeaked, Guarded, Holds
<1> USE TypeFunctions, WebAssumption
<1>0. ASSUME sessions[p] = "pending",
             \A r \in Prepares : PeerOf[r] = p /\ Holds(r) => Holds(r)'
      PROVE  \E r \in Prepares : PeerOf[r] = p /\ Holds(r)'
  BY <1>0 DEF PendingEntryNotLeaked
<1>1. ASSUME NEW r \in Prepares, PrepareStep(r)
      PROVE  \E q \in Prepares : PeerOf[q] = p /\ Holds(q)'
  <2>1. \A q \in Prepares : q # r => (Holds(q)' <=> Holds(q))
    BY <1>1 DEF PrepareStep, PrepareDownload, InsertPending, SendPrepareDownload,
         ReceiveDecision, GuardClear, AcceptSession, DropPrepare, AbortClear,
         Finish, Holds
  <2>2. CASE InsertPending(r)
    <3>1. Holds(r)'
      BY <2>2 DEF InsertPending, Holds
    <3>2. PeerOf[r] # p => sessions[p] = "pending"
      BY <2>2 DEF InsertPending
    <3> QED
      BY <1>0, <2>1, <3>1, <3>2
  <2>3. CASE GuardClear(r) \/ AbortClear(r) \/ AcceptSession(r)
    <3>1. PeerOf[r] # p /\ sessions[p] = "pending"
      BY <2>3 DEF GuardClear, AbortClear, AcceptSession, Cleared
    <3> QED
      BY <1>0, <2>1, <3>1
  <2>4. CASE DropPrepare(r)
    <3>1. sessions' = sessions
      BY <2>4 DEF DropPrepare
    <3>2. PeerOf[r] = p /\ Holds(r) => Holds(r)'
      BY <2>4 DEF DropPrepare, Holds, Guarded
    <3> QED
      BY <1>0, <2>1, <3>1, <3>2
  <2>5. CASE \/ \E named \in BOOLEAN : PrepareDownload(r, named)
             \/ SendPrepareDownload(r) \/ ReceiveDecision(r)
    <3>1. sessions' = sessions
      BY <2>5 DEF PrepareDownload, SendPrepareDownload, ReceiveDecision
    <3>2. Holds(r) => Holds(r)'
      BY <2>5 DEF PrepareDownload, SendPrepareDownload, ReceiveDecision, Finish, Holds
    <3> QED
      BY <1>0, <2>1, <3>1, <3>2
  <2> QED
    BY <1>1, <2>2, <2>3, <2>4, <2>5 DEF PrepareStep
<1>2. CASE (\E d \in Downloads : DownloadStep(d)) \/ AppNext \/ UNCHANGED webVars
  <2>1. UNCHANGED <<sessions, pc, abort>>
    BY <1>2 DEF DownloadStep, Download, SendFileDownload, DropDownload, AppNext,
         AppReceive, AppDecide, AppContent, AppClose, prepareVars, webVars
  <2> QED
    BY <1>0, <2>1 DEF Holds
<1> QED
  BY <1>1, <1>2 DEF WebNext

-----------------------------------------------------------------------------
(* The theorems. *)

WebInv == WebType /\ QueuedInv /\ GrantedInv /\ PendingEntryNotLeaked

LEMMA WebInvariant == WebSpec => []WebInv
<1>1. WebInit => WebInv
  <2> SUFFICES ASSUME WebInit PROVE WebInv
    OBVIOUS
  <2>1. WebType
    BY InitType
  <2>2. QueuedInv
    BY DEF WebInit, QueuedInv
  <2>3. GrantedInv
    BY WebAssumption DEF WebInit, GrantedInv, OnlyGrantedServed
  <2>4. PendingEntryNotLeaked
    BY DEF WebInit, PendingEntryNotLeaked
  <2> QED
    BY <2>1, <2>2, <2>3, <2>4 DEF WebInv
<1>2. WebInv /\ [WebNext]_webVars => WebInv'
  BY NextType, NextQueued, NextGranted, NextNotLeaked DEF WebInv
<1> QED
  BY <1>1, <1>2, PTL DEF WebSpec

\* Browsers are served only after the application accepted a request of their
\* address, and a pending entry always has a request that will accept or
\* remove it, unless a request of its address is dropped after its guard was
\* disarmed.
THEOREM Guards == WebSpec => []SessionsGuarded
<1>1. WebInv => SessionsGuarded
  BY DEF WebInv, GrantedInv, SessionsGuarded
<1> QED
  BY <1>1, WebInvariant, PTL

LEMMA NextRenews ==
  ASSUME WebType, [WebNext]_webVars
  PROVE  \A p \in Browsers :
           sessions[p] = "accepted" /\ sessions'[p] # "accepted" =>
             \E r \in Prepares : PeerOf[r] = p /\ pc[r] = "insert"
<1> SUFFICES ASSUME NEW p \in Browsers, sessions[p] = "accepted", sessions'[p] # "accepted"
             PROVE  \E r \in Prepares : PeerOf[r] = p /\ pc[r] = "insert"
  OBVIOUS
<1> USE TypeFunctions, WebAssumption
<1>1. ASSUME NEW r \in Prepares, PrepareStep(r)
      PROVE  PeerOf[r] = p /\ pc[r] = "insert"
  BY <1>1 DEF PrepareStep, PrepareDownload, InsertPending, SendPrepareDownload,
       ReceiveDecision, GuardClear, AcceptSession, DropPrepare, AbortClear, Cleared
<1>2. CASE (\E d \in Downloads : DownloadStep(d)) \/ AppNext \/ UNCHANGED webVars
  BY <1>2 DEF DownloadStep, Download, SendFileDownload, DropDownload, AppNext,
       AppReceive, AppDecide, AppContent, AppClose, prepareVars, webVars
<1> QED
  BY <1>1, <1>2 DEF WebNext

\* An accepted session ends only when its own address asks for a new one: no
\* declined, failed or aborted request of another tab takes it away.
THEOREM AcceptedStays == WebSpec => AcceptedUntilRenewed
<1>1. WebInv /\ [WebNext]_webVars =>
        [\A p \in Browsers :
           sessions[p] = "accepted" /\ sessions'[p] # "accepted" =>
             \E r \in Prepares : PeerOf[r] = p /\ pc[r] = "insert"]_webVars
  BY NextRenews DEF WebInv
<1> QED
  BY <1>1, WebInvariant, PTL DEF WebSpec, AcceptedUntilRenewed
=============================================================================
