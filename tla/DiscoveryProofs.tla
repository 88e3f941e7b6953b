-------------------------- MODULE DiscoveryProofs ---------------------------
(***************************************************************************)
(* Proofs about discovery: Discovery, for any devices, hosts, networks     *)
(* and limits; and DiscoveryService, which runs it in the application, for *)
(* any interfaces, filters and number of starts: one discovery hears at a  *)
(* time and can be found.                                                  *)
(***************************************************************************)
EXTENDS Discovery, DiscoveryService, FiniteSetTheorems, WellFoundedInduction, TLAPS

-----------------------------------------------------------------------------
(* The greatest of a bounded set of numbers.                               *)

LEMMA Least ==
  ASSUME NEW T, T \subseteq Nat, T # {}
  PROVE  \E x \in T : \A y \in T : x <= y
<1> DEFINE R == {p \in Nat \X Nat : p[1] < p[2]}
<1>1. IsWellFoundedOn(R, Nat)
  BY NatLessThanWellFounded DEF OpToRel
<1>2. PICK x \in T : \A y \in T : ~(<<y, x>> \in R)
  <2> HIDE DEF R
  <2> QED
    BY <1>1, WFMin
<1>3. ASSUME NEW y \in T PROVE x <= y
  <2>1. x \in Nat /\ y \in Nat
    OBVIOUS
  <2>2. <<y, x>> \in Nat \X Nat /\ <<y, x>>[1] = y /\ <<y, x>>[2] = x
    BY <2>1
  <2>3. ~(y < x)
    BY <1>2, <2>2
  <2> QED
    BY <2>1, <2>3
<1> QED
  BY <1>3

LEMMA Greatest ==
  ASSUME NEW n \in Nat, NEW T, T \subseteq 0..n, T # {}
  PROVE  \E x \in T : \A y \in T : y <= x
<1> DEFINE U == {k \in Nat : \E t \in T : k = n - t}
<1>1. \A t \in T : t \in 0..n /\ n - t \in U
  OBVIOUS
<1>2. U \subseteq Nat /\ U # {}
  BY <1>1
<1>3. PICK u \in U : \A y \in U : u <= y
  <2> HIDE DEF U
  <2> QED
    BY <1>2, Least
<1>4. PICK t \in T : u = n - t
  OBVIOUS
<1>5. ASSUME NEW y \in T PROVE y <= t
  <2>1. u <= n - y
    BY <1>1, <1>3
  <2> QED
    BY <1>1, <1>4, <2>1
<1> QED
  BY <1>5

-----------------------------------------------------------------------------
(* The log of a device.                                                    *)

\* k is the place of the last confirmation of c, or 0.
LastAt(logs, c, k) ==
  /\ k \in 0..Len(logs)
  /\ k > 0 => logs[k] = c
  /\ \A j \in 1..Len(logs) : logs[j] = c => j <= k

LEMMA LastConfirmedIs ==
  ASSUME NEW s, Len(s.logs) \in Nat, NEW c
  PROVE  /\ LastAt(s.logs, c, LastConfirmed(s, c))
         /\ \A k : LastAt(s.logs, c, k) => k = LastConfirmed(s, c)
<1> DEFINE at == {k \in 1 .. Len(s.logs) : s.logs[k] = c}
           lc == CHOOSE k \in at \cup {0} : \A j \in at : j <= k
<1>1. at \cup {0} \subseteq 0..Len(s.logs) /\ at \cup {0} # {}
  OBVIOUS
<1>2. \E k \in at \cup {0} : \A j \in at \cup {0} : j <= k
  <2> HIDE DEF at
  <2> QED
    BY <1>1, Greatest
<1>3. lc \in at \cup {0} /\ \A j \in at : j <= lc
  <2> HIDE DEF at
  <2> QED
    BY <1>2
<1>4. LastConfirmed(s, c) = lc
  BY DEF LastConfirmed
<1>5. LastAt(s.logs, c, lc)
  <2> HIDE DEF lc
  <2> QED
    BY <1>3 DEF LastAt
<1>6. ASSUME NEW k, LastAt(s.logs, c, k) PROVE k = lc
  <2> HIDE DEF lc
  <2> QED
    BY <1>5, <1>6 DEF LastAt
<1> QED
  BY <1>4, <1>5, <1>6

\* One more confirmation of c: its place is the last one, and the others keep
\* their distance to the end, or have fallen out of the log.
LEMMA UpsertLogs ==
  ASSUME NEW s \in StatefulDevices, s # None, Len(s.logs) \in 1..MaxLogs, NEW c \in Channels
  PROVE  LET t == Upsert(s, c)
             gone == IF Len(s.logs) = MaxLogs THEN 1 ELSE 0
         IN  /\ t \in StatefulDevices
             /\ Len(t.logs) = Len(s.logs) + 1 - gone
             /\ LastConfirmed(t, c) = Len(t.logs)
             /\ \A e \in Channels : e # c =>
                  LastConfirmed(t, e) =
                    IF LastConfirmed(s, e) > gone THEN LastConfirmed(s, e) - gone ELSE 0
<1> DEFINE t == Upsert(s, c)
           n == Len(s.logs)
           gone == IF n = MaxLogs THEN 1 ELSE 0
           full == Append(s.logs, c)
<1>1. MaxLogs \in Nat \ {0} /\ s.logs \in Seq(Channels) /\ n \in 1..MaxLogs /\ gone \in {0, 1}
  BY ConstantsAssumption DEF StatefulDevices
<1>2. /\ full \in Seq(Channels) /\ Len(full) = n + 1 /\ full[n + 1] = c
      /\ \A i \in 1..n : full[i] = s.logs[i]
  BY <1>1
<1>3. t.logs = CapLogs(full) /\ t.channels = {d \in s.channels : ~SameEndpoint(d, c)} \cup {c}
      /\ t = [channels |-> t.channels, logs |-> t.logs]
  BY DEF Upsert
<1>4. /\ CapLogs(full) \in Seq(Channels) /\ Len(CapLogs(full)) = n + 1 - gone
      /\ \A i \in 1..(n + 1 - gone) : CapLogs(full)[i] = full[i + gone]
  <2>1. CASE n = MaxLogs
    <3> HIDE DEF full
    <3>1. CapLogs(full) = SubSeq(full, 2, n + 1)
      <4>1. Len(full) > MaxLogs /\ (Len(full) - MaxLogs) + 1 = 2
        BY <1>1, <1>2, <2>1
      <4> QED
        BY <1>2, <4>1 DEF CapLogs
    <3>2. SubSeq(full, 2, n + 1) \in Seq(Channels) /\ Len(SubSeq(full, 2, n + 1)) = n
      BY <1>1, <1>2, <2>1
    <3>3. \A i \in 1..n : SubSeq(full, 2, n + 1)[i] = full[i + 1]
      BY <1>1, <1>2, <2>1
    <3> QED
      BY <1>1, <2>1, <3>1, <3>2, <3>3
  <2>2. CASE n # MaxLogs
    <3>1. CapLogs(full) = full
      BY <1>1, <1>2, <2>2 DEF CapLogs
    <3> HIDE DEF full
    <3> QED
      BY <1>1, <1>2, <2>2, <3>1
  <2> QED
    BY <2>1, <2>2
<1>5. t \in StatefulDevices
  BY <1>3, <1>4 DEF StatefulDevices
<1> DEFINE m == n + 1 - gone
<1>6. /\ Len(t.logs) = m /\ m \in Nat \ {0} /\ t.logs[m] = c
      /\ \A i \in 1..(m - 1) : t.logs[i] = s.logs[i + gone] /\ i + gone \in 1..n
  <2> HIDE DEF t, full, gone
  <2>1. Len(t.logs) = m /\ m \in Nat \ {0} /\ m + gone = n + 1
    BY <1>1, <1>3, <1>4
  <2>2. t.logs[m] = full[n + 1]
    <3>1. m \in 1..m
      BY <2>1
    <3> QED
      BY <1>3, <1>4, <2>1, <3>1
  <2>3. ASSUME NEW i \in 1..(m - 1) PROVE t.logs[i] = s.logs[i + gone] /\ i + gone \in 1..n
    <3>1. i \in 1..m /\ i + gone \in 1..n
      BY <1>1, <2>1
    <3> QED
      BY <1>2, <1>3, <1>4, <3>1
  <2> QED
    BY <1>2, <2>1, <2>2, <2>3
<1> HIDE DEF t, full, gone, m
<1>7. LastConfirmed(t, c) = m
  <2>1. LastAt(t.logs, c, m)
    BY <1>6 DEF LastAt
  <2> QED
    BY <1>6, <2>1, LastConfirmedIs
<1>8. ASSUME NEW e \in Channels, e # c
      PROVE  LastConfirmed(t, e) =
               IF LastConfirmed(s, e) > gone THEN LastConfirmed(s, e) - gone ELSE 0
  <2> DEFINE k == LastConfirmed(s, e)
  <2>1. LastAt(s.logs, e, k)
    BY <1>1, LastConfirmedIs
  <2> HIDE DEF k
  <2>2. \A i \in 1..m : t.logs[i] = e => i \in 1..(m - 1) /\ i + gone <= k
    <3> SUFFICES ASSUME NEW i \in 1..m, t.logs[i] = e PROVE i \in 1..(m - 1) /\ i + gone <= k
      OBVIOUS
    <3>1. i \in 1..(m - 1)
      BY <1>6, <1>8
    <3>2. s.logs[i + gone] = e /\ i + gone \in 1..n
      BY <1>6, <3>1
    <3> QED
      BY <2>1, <3>1, <3>2 DEF LastAt
  <2>3. LastAt(t.logs, e, IF k > gone THEN k - gone ELSE 0)
    <3>1. CASE k > gone
      <4>1. k - gone \in 1..(m - 1) /\ (k - gone) + gone = k
        BY <1>1, <1>6, <2>1, <3>1 DEF LastAt, m
      <4> QED
        BY <1>1, <1>6, <2>1, <2>2, <3>1, <4>1 DEF LastAt
    <3>2. CASE ~(k > gone)
      BY <1>1, <1>6, <2>1, <2>2, <3>2 DEF LastAt
    <3> QED
      BY <3>1, <3>2
  <2> QED
    BY <1>6, <2>3, LastConfirmedIs DEF k
<1> QED
  BY <1>5, <1>6, <1>7, <1>8 DEF t, gone, m

-----------------------------------------------------------------------------
(* The order of confirmations, and the best channel.                       *)

Places(o) == 1..Len(o)

\* Channels stand in the order of their last confirmations in the log, those
\* that fell out of it before the others.
Ordered(s, o) ==
  /\ o \in Seq(Channels)
  /\ \A i, j \in Places(o) : o[i] = o[j] => i = j
  /\ \A c \in s.channels : \E k \in Places(o) : o[k] = c
  /\ \A i, j \in Places(o) : i < j /\ LastConfirmed(s, o[i]) > 0 =>
       LastConfirmed(s, o[i]) < LastConfirmed(s, o[j])

\* What moving a channel to the end does to the others.
LEMMA MoveToEndDoes ==
  ASSUME NEW o \in Seq(Channels), NEW c \in Channels,
         \A i, j \in Places(o) : o[i] = o[j] => i = j
  PROVE  LET p == MoveToEnd(o, c)
             n == Len(p)
         IN  /\ p \in Seq(Channels) /\ n \in Nat \ {0} /\ p[n] = c
             /\ \E was \in [1..(n - 1) -> Places(o)] :
                  /\ \A i \in 1..(n - 1) : p[i] = o[was[i]] /\ p[i] # c
                  /\ \A i, j \in 1..(n - 1) : i < j => was[i] < was[j]
             /\ \A k \in Places(o) : o[k] # c => \E i \in 1..(n - 1) : p[i] = o[k]
<1> DEFINE p == MoveToEnd(o, c)
           at == {k \in 1 .. Len(o) : o[k] = c}
           l == Len(o)
<1>0. l \in Nat /\ \A i \in 1..l : o[i] \in Channels
  OBVIOUS
<1>1. CASE at = {}
  <2> DEFINE was == [i \in 1..l |-> i]
  <2>1. p = Append(o, c)
    BY <1>1 DEF MoveToEnd
  <2>2. /\ p \in Seq(Channels) /\ Len(p) = l + 1 /\ p[l + 1] = c
        /\ \A i \in 1..l : p[i] = o[i] /\ p[i] # c
    BY <1>0, <1>1, <2>1
  <2>3. was \in [1..l -> Places(o)] /\ \A i \in 1..l : was[i] = i
    BY DEF Places
  <2>4. (l + 1) - 1 = l /\ l + 1 \in Nat \ {0}
    BY <1>0
  <2> HIDE DEF was, p
  <2>5. /\ \A i \in 1..l : p[i] = o[was[i]] /\ p[i] # c
        /\ \A i, j \in 1..l : i < j => was[i] < was[j]
        /\ \A k \in Places(o) : o[k] # c => \E i \in 1..l : p[i] = o[k]
    BY <1>0, <2>2, <2>3 DEF Places
  <2> QED
    BY <2>2, <2>3, <2>4, <2>5 DEF p
<1>2. CASE at # {}
  <2> DEFINE k == CHOOSE x \in at : TRUE
             was == [i \in 1..(l - 1) |-> IF i < k THEN i ELSE i + 1]
             q == [i \in 1 .. l |-> IF i < k THEN o[i] ELSE IF i < l THEN o[i + 1] ELSE c]
  <2>1. k \in 1..l /\ o[k] = c
    BY <1>2
  <2>2. p = q
    BY <1>2 DEF MoveToEnd
  <2> HIDE DEF k
  <2>3. \A i \in 1..l : (IF i < k THEN o[i] ELSE IF i < l THEN o[i + 1] ELSE c) \in Channels
    BY <1>0, <2>1
  <2>4. q \in Seq(Channels) /\ Len(q) = l /\ l \in Nat \ {0} /\ q[l] = c
    BY <1>0, <2>1, <2>3
  <2>5. was \in [1..(l - 1) -> Places(o)]
    BY <1>0, <2>1 DEF Places
  <2>6. \A i \in 1..(l - 1) : q[i] = o[was[i]] /\ was[i] # k
    BY <1>0, <2>1
  <2>7. \A i, j \in 1..(l - 1) : i < j => was[i] < was[j]
    BY <1>0, <2>1
  <2>8. ASSUME NEW x \in Places(o), o[x] # c PROVE \E i \in 1..(l - 1) : q[i] = o[x]
    <3>1. CASE x < k
      <4>1. x \in 1..(l - 1) /\ q[x] = o[x]
        BY <1>0, <2>1, <3>1 DEF Places
      <4> QED
        BY <4>1
    <3>2. CASE x > k
      <4>1. x - 1 \in 1..(l - 1) /\ q[x - 1] = o[x]
        BY <1>0, <2>1, <3>2 DEF Places
      <4> QED
        BY <4>1
    <3>3. x \in Int /\ k \in Int /\ x # k
      BY <2>1, <2>8 DEF Places
    <3>4. x < k \/ x > k
      BY <3>3
    <3> QED
      BY <3>1, <3>2, <3>4
  <2> HIDE DEF was, q
  <2>9. \A i \in 1..(l - 1) : q[i] = o[was[i]] /\ q[i] # c
    BY <2>1, <2>5, <2>6 DEF Places
  <2> QED
    BY <2>2, <2>4, <2>5, <2>7, <2>8, <2>9 DEF p
<1> QED
  BY <1>1, <1>2

LEMMA OrderedFirst ==
  ASSUME NEW c \in Channels
  PROVE  /\ Upsert(None, c) \in StatefulDevices /\ Len(Upsert(None, c).logs) = 1
         /\ Ordered(Upsert(None, c), MoveToEnd(<<>>, c))
<1>1. Upsert(None, c) = [channels |-> {c}, logs |-> <<c>>] /\ MoveToEnd(<<>>, c) = <<c>>
  BY DEF Upsert, MoveToEnd
<1>2. /\ <<c>> \in Seq(Channels) /\ Len(<<c>>) = 1 /\ Places(<<c>>) = {1} /\ <<c>>[1] = c
  BY DEF Places
<1> DEFINE s == [channels |-> {c}, logs |-> <<c>>]
<1>3. s \in StatefulDevices /\ Len(s.logs) = 1 /\ s.channels = {c}
  BY <1>2 DEF StatefulDevices
<1> HIDE DEF s
<1>4. Ordered(s, <<c>>)
  BY <1>2, <1>3 DEF Ordered
<1> QED
  BY <1>1, <1>3, <1>4 DEF s

LEMMA OrderedNext ==
  ASSUME NEW s \in StatefulDevices, s # None, Len(s.logs) \in 1..MaxLogs, NEW c \in Channels,
         NEW o, Ordered(s, o)
  PROVE  Ordered(Upsert(s, c), MoveToEnd(o, c))
<1> DEFINE t == Upsert(s, c)
           p == MoveToEnd(o, c)
           n == Len(p)
           gone == IF Len(s.logs) = MaxLogs THEN 1 ELSE 0
<1>1. o \in Seq(Channels) /\ \A i, j \in Places(o) : o[i] = o[j] => i = j
  BY DEF Ordered
<1>2. /\ p \in Seq(Channels) /\ n \in Nat \ {0} /\ p[n] = c
      /\ \A k \in Places(o) : o[k] # c => \E i \in 1..(n - 1) : p[i] = o[k]
  BY <1>1, MoveToEndDoes
<1>3. PICK was \in [1..(n - 1) -> Places(o)] :
        /\ \A i \in 1..(n - 1) : p[i] = o[was[i]] /\ p[i] # c
        /\ \A i, j \in 1..(n - 1) : i < j => was[i] < was[j]
  BY <1>1, MoveToEndDoes
<1>4. /\ t \in StatefulDevices /\ gone \in {0, 1}
      /\ Len(t.logs) = Len(s.logs) + 1 - gone
      /\ LastConfirmed(t, c) = Len(t.logs)
      /\ \A e \in Channels : e # c =>
           LastConfirmed(t, e) =
             IF LastConfirmed(s, e) > gone THEN LastConfirmed(s, e) - gone ELSE 0
  BY UpsertLogs
<1>5. t.channels = {d \in s.channels : ~SameEndpoint(d, c)} \cup {c}
  BY DEF Upsert
<1>6. Len(s.logs) \in Nat /\ \A e : LastConfirmed(s, e) \in 0..Len(s.logs)
  <2>1. Len(s.logs) \in Nat
    BY DEF StatefulDevices
  <2> QED
    BY <2>1, LastConfirmedIs DEF LastAt
<1> HIDE DEF t, p, gone
<1>7. \A i \in Places(p) : i \in 1..(n - 1) \/ i = n
  BY <1>2 DEF Places
<1>8. \A i, j \in Places(p) : p[i] = p[j] => i = j
  <2>1. ASSUME NEW i \in 1..(n - 1), NEW j \in 1..(n - 1), p[i] = p[j] PROVE i = j
    <3>1. was[i] = was[j]
      BY <1>1, <1>3, <2>1
    <3>2. was[i] \in Int /\ was[j] \in Int /\ i \in Int /\ j \in Int
      BY DEF Places
    <3> QED
      BY <1>3, <3>1, <3>2
  <2> QED
    BY <1>2, <1>3, <1>7, <2>1
<1>9. ASSUME NEW e \in t.channels PROVE \E k \in Places(p) : p[k] = e
  <2>1. CASE e = c
    <3>1. n \in Places(p)
      BY <1>2 DEF Places
    <3> QED
      BY <1>2, <2>1, <3>1
  <2>2. CASE e # c
    <3>1. PICK k \in Places(o) : o[k] = e
      BY <1>5, <2>2 DEF Ordered
    <3>2. PICK i \in 1..(n - 1) : p[i] = e
      BY <1>2, <2>2, <3>1
    <3>3. i \in Places(p)
      BY <1>2 DEF Places
    <3> QED
      BY <3>2, <3>3
  <2> QED
    BY <2>1, <2>2
<1>10. ASSUME NEW i \in Places(p), NEW j \in Places(p), i < j, LastConfirmed(t, p[i]) > 0
       PROVE  LastConfirmed(t, p[i]) < LastConfirmed(t, p[j])
  <2>1. i \in 1..(n - 1)
    BY <1>2, <1>10 DEF Places
  <2>2. p[i] \in Channels /\ p[i] # c
    BY <1>2, <1>3, <2>1 DEF Places
  <2> DEFINE a == LastConfirmed(s, p[i])
             b == LastConfirmed(s, p[j])
  <2>3. a > gone /\ LastConfirmed(t, p[i]) = a - gone /\ a \in 0..Len(s.logs)
    BY <1>4, <1>6, <1>10, <2>2
  <2>4. CASE j = n
    <3>1. LastConfirmed(t, p[j]) = Len(s.logs) + 1 - gone
      BY <1>2, <1>4, <2>4
    <3> HIDE DEF a
    <3> QED
      BY <1>4, <1>6, <2>3, <3>1
  <2>5. CASE j # n
    <3>1. j \in 1..(n - 1) /\ p[j] \in Channels /\ p[j] # c
      BY <1>2, <1>3, <1>7, <2>5 DEF Places
    <3>2. was[i] \in Places(o) /\ was[j] \in Places(o) /\ was[i] < was[j]
      BY <1>3, <1>10, <2>1, <3>1
    <3>3. p[i] = o[was[i]] /\ p[j] = o[was[j]]
      BY <1>3, <2>1, <3>1
    <3>4. a > 0
      <4> HIDE DEF a
      <4> QED
        BY <1>4, <2>3
    <3>5. a < b
      BY <3>2, <3>3, <3>4 DEF Ordered
    <3>6. b \in 0..Len(s.logs)
      BY <1>6
    <3>7. LastConfirmed(t, p[j]) = IF b > gone THEN b - gone ELSE 0
      BY <1>4, <3>1
    <3> HIDE DEF a, b
    <3> QED
      BY <1>4, <1>6, <2>3, <3>5, <3>6, <3>7
  <2> QED
    BY <2>4, <2>5
<1>11. Ordered(t, p)
  BY <1>2, <1>8, <1>9, <1>10 DEF Ordered
<1> QED
  BY <1>11 DEF t, p

\* Of channels in order, those of a class compare by their places, unless none
\* of them is in the log any more.
LEMMA BestOfOrdered ==
  ASSUME NEW s \in StatefulDevices, s.channels # {}, NEW o, Ordered(s, o)
  PROVE  LET ch == s.channels
             class == IF \E c \in ch : IsIpv6(c) THEN {c \in ch : IsIpv6(c)} ELSE ch
         IN  \/ \E k \in 1 .. Len(o) :
                  /\ BestChannels(s) = {o[k]} /\ o[k] \in class
                  /\ \A j \in k + 1 .. Len(o) : o[j] \notin class
             \/ BestChannels(s) = class
                /\ \A c \in class : \A k \in 1 .. Len(s.logs) : s.logs[k] # c
<1> DEFINE ch == s.channels
           class == IF \E c \in ch : IsIpv6(c) THEN {c \in ch : IsIpv6(c)} ELSE ch
           LC(c) == LastConfirmed(s, c)
           T == {k \in Places(o) : o[k] \in class}
<1>1. class \subseteq ch /\ class # {} /\ ch \subseteq Channels
  BY DEF StatefulDevices
<1>2. /\ o \in Seq(Channels) /\ Len(o) \in Nat
      /\ \A i, j \in Places(o) : o[i] = o[j] => i = j
      /\ \A c \in ch : \E k \in Places(o) : o[k] = c
      /\ \A i, j \in Places(o) : i < j /\ LC(o[i]) > 0 => LC(o[i]) < LC(o[j])
  BY DEF Ordered
<1>3. /\ Len(s.logs) \in Nat
      /\ \A c : LC(c) \in 0..Len(s.logs)
      /\ \A c : LC(c) = 0 => \A k \in 1 .. Len(s.logs) : s.logs[k] # c
  <2>1. Len(s.logs) \in Nat
    BY DEF StatefulDevices
  <2>2. \A c : LastAt(s.logs, c, LC(c))
    BY <2>1, LastConfirmedIs
  <2> HIDE DEF LC
  <2> QED
    BY <2>1, <2>2 DEF LastAt
\* Within the class the log decides; outside of it, the class does.
<1>4. BestChannels(s) = {c \in class : \A d \in class : ~(LC(d) > LC(c))}
  <2>1. ASSUME NEW c \in class, NEW d \in class PROVE Better(s, d, c) <=> LC(d) > LC(c)
    BY <2>1 DEF Better, IsIpv6
  <2>2. ASSUME NEW c \in class, NEW d \in ch, d \notin class PROVE ~Better(s, d, c)
    BY <2>2 DEF Better, IsIpv6
  <2>3. ASSUME NEW c \in ch, c \notin class PROVE \E d \in ch : Better(s, d, c)
    BY <2>3 DEF Better, IsIpv6
  <2> HIDE DEF class, LC
  <2> QED
    BY <1>1, <2>1, <2>2, <2>3 DEF BestChannels
<1>5. PICK m \in T : \A j \in T : j <= m
  <2>1. T # {} /\ T \subseteq 0..Len(o)
    <3> HIDE DEF class
    <3> QED
      BY <1>1, <1>2 DEF Places
  <2> HIDE DEF T
  <2> QED
    BY <1>2, <2>1, Greatest
<1>6. /\ m \in 1..Len(o) /\ o[m] \in class
      /\ \A j \in m + 1 .. Len(o) : o[j] \notin class
  <2> HIDE DEF class
  <2> QED
    BY <1>2, <1>5 DEF Places
\* The others of the class stand before the last of them.
<1>7. ASSUME NEW c \in class, c # o[m] PROVE LC(c) > 0 => LC(c) < LC(o[m])
  <2> HIDE DEF class, LC
  <2>1. PICK k \in Places(o) : o[k] = c
    BY <1>1, <1>2
  <2>2. k \in T /\ k # m /\ k \in Int /\ m \in Int /\ m \in Places(o)
    BY <1>6, <1>7, <2>1 DEF Places
  <2>3. k < m
    BY <1>5, <2>2
  <2> QED
    BY <1>2, <2>1, <2>2, <2>3
<1> HIDE DEF class, LC, T
<1>8. CASE LC(o[m]) > 0
  <2>1. \A c \in class : c # o[m] => LC(o[m]) > LC(c)
    BY <1>3, <1>7, <1>8
  <2>2. \A c \in class : (\A d \in class : ~(LC(d) > LC(c))) <=> c = o[m]
    BY <1>3, <1>6, <2>1
  <2>3. BestChannels(s) = {o[m]}
    BY <1>4, <1>6, <2>2
  <2> QED
    BY <1>6, <2>3 DEF class
<1>9. CASE ~(LC(o[m]) > 0)
  <2>1. \A c \in class : LC(c) = 0
    BY <1>3, <1>7, <1>9
  <2>2. BestChannels(s) = class
    BY <1>4, <2>1
  <2>3. \A c \in class : \A k \in 1 .. Len(s.logs) : s.logs[k] # c
    BY <1>3, <2>1
  <2> QED
    BY <2>2, <2>3 DEF class
<1> QED
  BY <1>8, <1>9

-----------------------------------------------------------------------------
(* Types, and what is known of a request under way.                        *)

RequestType ==
  [host : Hosts \cup {None}, proto : Protocols, pin : Devices \cup {None},
   claim : Devices \cup {None}, got : Devices \cup {Own, None, "sent", "failed"}]

NetType ==
  /\ net \in [Hosts -> Peers] /\ inputs \in 0 .. MaxInputs
  /\ air \subseteq Hosts \X (Devices \cup {Own}) \X Protocols
  /\ stopped \in BOOLEAN /\ answering \in BOOLEAN

\* An answer is to an announced device, and pins it over HTTPS; what answered
\* over HTTPS is what was pinned, and held the certificate at that host.
RequestOK(r, q, hs) ==
  /\ q \in RequestType
  /\ q.got = None => q = NoRequest
  /\ q.got # None => q.host \in Hosts
  /\ q.got # None /\ r[1] = "answer" =>
       q.claim \in Devices /\ (q.proto = "https" => q.pin = q.claim)
  /\ q.got \in Devices \cup {Own} /\ q.proto = "https" =>
       /\ <<q.got, q.host>> \in hs
       /\ q.pin # None => q.got = q.pin

RequestInv ==
  /\ req \in [Requests -> RequestType]
  /\ \A r \in Requests : RequestOK(r, req[r], holders)

LEMMA Facts ==
  /\ Own \notin Devices /\ None \notin Devices \cup {Own}
  /\ "sent" \notin Devices \cup {Own, None} /\ "failed" \notin Devices \cup {Own, None}
  /\ V6 \subseteq Hosts /\ Known \subseteq Hosts
  /\ \A i \in Interfaces : SubnetOf[i] \subseteq Hosts
  /\ MaxInputs \in Nat /\ EventCapacity \in Nat \ {0} /\ MaxLogs \in Nat \ {0}
  /\ None \notin StatefulDevices /\ None # "app" /\ None # "staged"
BY ConstantsAssumption

LEMMA RequestNames ==
  /\ \A h \in Hosts : <<"answer", h>> \in Requests /\ <<"known", h>> \in Requests
  /\ \A i \in Interfaces : \A h \in SubnetOf[i] : <<"scan", i, h>> \in Requests
BY DEF Requests

LEMMA NewRequests ==
  /\ \A r, hs : RequestOK(r, NoRequest, hs)
  /\ \A r, hs : \A h \in Hosts : r[1] # "answer" => RequestOK(r, Probe(h), hs)
  /\ NoRequest \in RequestType /\ NoRequest.got = None
  /\ \A h \in Hosts : Probe(h) \in RequestType /\ Probe(h).got = "sent" /\ Probe(h) # NoRequest
BY Facts DEF RequestOK, NoRequest, Probe, RequestType, Protocols

LEMMA RequestGrows ==
  ASSUME NEW r, NEW q, NEW hs, RequestOK(r, q, hs), NEW more, hs \subseteq more
  PROVE  RequestOK(r, q, more)
BY DEF RequestOK

\* A request is kept, ends, or is replaced by one that is in order.
LEMMA RequestsReplaced ==
  ASSUME RequestInv, DOMAIN req' = Requests, req' = [r \in Requests |-> req'[r]],
         holders \subseteq holders',
         \A r \in Requests : req'[r] = req[r] \/ RequestOK(r, req'[r], holders')
  PROVE  RequestInv'
<1>1. \A r \in Requests : RequestOK(r, req'[r], holders')
  BY RequestGrows DEF RequestInv
<1>2. \A r \in Requests : req'[r] \in RequestType
  BY <1>1 DEF RequestOK
<1>3. req' \in [Requests -> RequestType]
  BY <1>2
<1> QED
  BY <1>1, <1>3 DEF RequestInv

LEMMA NetKept ==
  ASSUME NetType, Next
  PROVE  NetType'
<1>1. CASE UNCHANGED <<net, air>> /\ (UNCHANGED inputs \/ Input)
           /\ (UNCHANGED stopped \/ stopped' = TRUE) /\ (UNCHANGED answering \/ answering' = ~answering)
  <2>1. inputs' \in 0 .. MaxInputs
    BY <1>1, Facts DEF NetType, Input
  <2>2. stopped' \in BOOLEAN /\ answering' \in BOOLEAN
    BY <1>1, Zenon DEF NetType
  <2> QED
    BY <1>1, <2>1, <2>2 DEF NetType
<1>2. ASSUME NEW h \in Hosts, NEW p \in PeersAt[h], Move(h, p) PROVE NetType'
  <2>1. p \in Peers
    BY ConstantsAssumption
  <2>2. p # None => <<h, p.dev, p.proto>> \in Hosts \X (Devices \cup {Own}) \X Protocols
    BY <2>1 DEF Peers
  <2> QED
    BY <1>2, <2>1, <2>2, Facts DEF NetType, Move, Input, envUnchanged
<1>3. ASSUME NEW h \in Hosts, AnswerDropped(h) \/ AnswerDone(h) \/ AddDevice(h) PROVE NetType'
  BY <1>1, <1>3 DEF AnswerDropped, AnswerDone, AddDevice, envUnchanged
<1>4. ASSUME NEW m \in air, AnswerAnnouncement(m[1], m[2], m[3]) PROVE NetType'
  BY <1>1, <1>4 DEF AnswerAnnouncement, envUnchanged
<1>5. CASE SetAnswerAnnouncements \/ Stop \/ Listen
  BY <1>1, <1>5 DEF SetAnswerAnnouncements, Stop, Listen
<1>6. ASSUME NEW r \in Requests, RequestStep(r) PROVE NetType'
  BY <1>1, <1>6 DEF RequestStep, PeerAnswers, RequestFails, envUnchanged
<1>7. ASSUME NEW i \in Interfaces, StartScan(i) \/ ScanDone(i) \/ DropScan(i) PROVE NetType'
  BY <1>1, <1>7 DEF StartScan, ScanDone, DropScan
<1>8. ASSUME NEW i, NEW h, ScanProbe(i, h) \/ ScanProbeDone(i, h) \/ KnownProbeDone(h) PROVE NetType'
  BY <1>1, <1>8 DEF ScanProbe, ScanProbeDone, KnownProbeDone
<1>9. CASE StartStaged \/ AnnounceRound \/ Escalate \/ StagedDone
  BY <1>1, <1>9 DEF StartStaged, AnnounceRound, Escalate, StagedDone
<1> QED
  BY <1>2, <1>3, <1>4, <1>5, <1>6, <1>7, <1>8, <1>9 DEF Next, ScanStep, StagedStep

LEMMA RequestKept ==
  ASSUME NetType, RequestInv, Next
  PROVE  RequestInv' /\ holders \subseteq holders'
<1> USE Facts, RequestNames, NewRequests
<1>0. req \in [Requests -> RequestType] /\ \A r \in Requests : RequestOK(r, req[r], holders)
  BY DEF RequestInv
<1>1. CASE UNCHANGED req /\ holders \subseteq holders'
  BY <1>0, <1>1, RequestGrows DEF RequestInv
<1>2. ASSUME NEW r \in Requests, NEW q, req' = [req EXCEPT ![r] = q],
             RequestOK(r, q, holders'), holders \subseteq holders'
      PROVE  RequestInv' /\ holders \subseteq holders'
  <2>1. DOMAIN req' = Requests /\ req' = [x \in Requests |-> req'[x]]
    BY <1>0, <1>2
  <2>2. \A x \in Requests : req'[x] = req[x] \/ RequestOK(x, req'[x], holders')
    BY <1>0, <1>2
  <2> QED
    BY <1>2, <2>1, <2>2, RequestsReplaced
<1>3. ASSUME NEW h \in Hosts, NEW p \in PeersAt[h], Move(h, p)
      PROVE  RequestInv' /\ holders \subseteq holders'
  BY <1>1, <1>3 DEF Move
<1>4. ASSUME NEW h \in Hosts, AnswerDropped(h) \/ AnswerDone(h) \/ AddDevice(h)
      PROVE  RequestInv' /\ holders \subseteq holders'
  BY <1>1, <1>2, <1>4 DEF AnswerDropped, AnswerDone, AddDevice
<1>5. ASSUME NEW m \in air, AnswerAnnouncement(m[1], m[2], m[3])
      PROVE  RequestInv' /\ holders \subseteq holders'
  <2> DEFINE q == [host |-> m[1], proto |-> m[3], claim |-> m[2], got |-> "sent",
                   pin |-> IF m[3] = "https" THEN m[2] ELSE None]
             r == <<"answer", m[1]>>
  <2>1. m[1] \in Hosts /\ m[2] \in Devices /\ m[3] \in Protocols
    BY <1>5 DEF AnswerAnnouncement, NetType
  <2>2. req' = [req EXCEPT ![r] = q] /\ holders' = holders /\ r \in Requests
    BY <1>5, <2>1 DEF AnswerAnnouncement
  <2>3. RequestOK(r, q, holders)
    BY <2>1 DEF RequestOK, RequestType
  <2> HIDE DEF q, r
  <2> QED
    BY <1>2, <2>2, <2>3
<1>6. CASE SetAnswerAnnouncements \/ Stop \/ Listen
  BY <1>1, <1>6 DEF SetAnswerAnnouncements, Stop, Listen
<1>7. ASSUME NEW r \in Requests, PeerAnswers(r) PROVE RequestInv' /\ holders \subseteq holders'
  <2> DEFINE q == req[r]
             p == net[q.host]
             a == [req[r] EXCEPT !.got = p.dev]
  <2>1. /\ q.got = "sent" /\ p # None /\ p.proto = q.proto /\ q.pin \in {None, p.dev}
        /\ req' = [req EXCEPT ![r].got = p.dev]
        /\ holders' = IF q.proto = "https" THEN holders \cup {<<p.dev, q.host>>} ELSE holders
    BY <1>7 DEF PeerAnswers, Identity, Accepts
  <2>2. RequestOK(r, q, holders) /\ q \in RequestType
    BY <1>0
  <2>3. q.host \in Hosts /\ p \in Peers
    BY <2>1, <2>2 DEF RequestOK, NetType
  <2>4. p.dev \in Devices \cup {Own}
    BY <2>1, <2>3 DEF Peers
  <2>5. req' = [req EXCEPT ![r] = a]
    BY <1>0, <2>1
  <2>6. RequestOK(r, a, holders')
    <3>1. a.host = q.host /\ a.proto = q.proto /\ a.pin = q.pin /\ a.claim = q.claim /\ a.got = p.dev
          /\ a \in RequestType
      BY <2>2, <2>4 DEF RequestType
    <3> HIDE DEF a, q, p
    <3> QED
      BY <2>1, <2>2, <2>3, <2>4, <3>1 DEF RequestOK
  <2> HIDE DEF a, q, p
  <2> QED
    BY <1>2, <2>1, <2>5, <2>6
<1>8. ASSUME NEW r \in Requests, RequestFails(r) PROVE RequestInv' /\ holders \subseteq holders'
  <2> DEFINE q == req[r]
             a == [req[r] EXCEPT !.got = "failed"]
  <2>1. q.got = "sent" /\ req' = [req EXCEPT ![r] = a] /\ holders' = holders
    BY <1>0, <1>8 DEF RequestFails
  <2>2. RequestOK(r, q, holders) /\ q \in RequestType
    BY <1>0
  <2>3. a.host = q.host /\ a.proto = q.proto /\ a.pin = q.pin /\ a.claim = q.claim /\ a.got = "failed"
        /\ a \in RequestType
    BY <2>2 DEF RequestType
  <2> HIDE DEF a, q
  <2>4. RequestOK(r, a, holders')
    BY <2>1, <2>2, <2>3 DEF RequestOK
  <2> QED
    BY <1>2, <2>1, <2>4
<1>9. ASSUME NEW i \in Interfaces, StartScan(i) \/ ScanDone(i)
      PROVE  RequestInv' /\ holders \subseteq holders'
  BY <1>1, <1>9 DEF StartScan, ScanDone
<1>10. ASSUME NEW i \in Interfaces, DropScan(i) PROVE RequestInv' /\ holders \subseteq holders'
  <2>1. /\ req' = [r \in Requests |->
             IF r \in {<<"scan", i, h>> : h \in SubnetOf[i]} THEN NoRequest ELSE req[r]]
        /\ holders' = holders
    BY <1>10 DEF DropScan
  <2>2. \A r \in Requests : req'[r] = req[r] \/ RequestOK(r, req'[r], holders')
    BY <2>1
  <2>3. DOMAIN req' = Requests /\ req' = [r \in Requests |-> req'[r]]
    BY <2>1
  <2> QED
    BY <2>1, <2>2, <2>3, RequestsReplaced
<1>11. ASSUME NEW i \in Interfaces, NEW h \in SubnetOf[i], ScanProbe(i, h) \/ ScanProbeDone(i, h)
       PROVE  RequestInv' /\ holders \subseteq holders'
  <2>1. <<"scan", i, h>>[1] # "answer" /\ h \in Hosts /\ <<"scan", i, h>> \in Requests
    OBVIOUS
  <2> QED
    BY <1>2, <1>11, <2>1 DEF ScanProbe, ScanProbeDone
<1>12. ASSUME NEW h \in Known, KnownProbeDone(h) PROVE RequestInv' /\ holders \subseteq holders'
  BY <1>2, <1>12 DEF KnownProbeDone
<1>13. CASE StartStaged
  <2>1. /\ req' = [r \in Requests |->
             IF r \in {<<"known", h>> : h \in Known} THEN Probe(r[2]) ELSE req[r]]
        /\ holders' = holders
    BY <1>13 DEF StartStaged
  <2>2. ASSUME NEW r \in Requests PROVE req'[r] = req[r] \/ RequestOK(r, req'[r], holders')
    <3>1. CASE r \in {<<"known", h>> : h \in Known}
      <4>1. r[1] # "answer" /\ r[2] \in Hosts
        BY <3>1
      <4> QED
        BY <2>1, <3>1, <4>1
    <3> QED
      BY <2>1, <3>1
  <2>3. DOMAIN req' = Requests /\ req' = [r \in Requests |-> req'[r]]
    BY <2>1
  <2> QED
    BY <2>1, <2>2, <2>3, RequestsReplaced
<1>14. CASE AnnounceRound \/ Escalate \/ StagedDone
  BY <1>1, <1>14 DEF AnnounceRound, Escalate, StagedDone
<1> QED
  BY <1>3, <1>4, <1>5, <1>6, <1>7, <1>8, <1>9, <1>10, <1>11, <1>12, <1>13, <1>14
     DEF Next, RequestStep, ScanStep, StagedStep

-----------------------------------------------------------------------------
(* What the steps do to the store.                                         *)

EntryOK(s, o) ==
  /\ s \in StatefulDevices /\ s # None
  /\ Len(s.logs) \in 1 .. MaxLogs
  /\ s.channels # {}
  /\ \A c, e \in s.channels : c[1] = e[1] => c = e
  /\ Ordered(s, o)

StoreInv ==
  /\ store \in [Devices -> StatefulDevices \cup {None}]
  /\ DOMAIN order = Devices /\ DOMAIN shown = Devices
  /\ events \in Seq(Devices) /\ Len(events) <= EventCapacity
  /\ \A d \in Devices : store[d] = None => order[d] = <<>> /\ shown[d] = None /\ ~Queued(d)
  /\ \A d \in Devices : store[d] # None => EntryOK(store[d], order[d])
  /\ HttpsHolder
  /\ ShownIsCurrent

Founds ==
  \E d \in Devices, c \in Channels :
    /\ Found(d, c)
    /\ c[2] = "https" => <<d, c[1]>> \in holders'
    /\ UNCHANGED shown

LEMMA ConfirmedIs ==
  ASSUME NEW r \in Requests, RequestInv, req[r].got # None
  PROVE  /\ Confirmed(req[r]) \in Channels
         /\ Confirmed(req[r])[1] = req[r].host /\ Confirmed(req[r])[2] = req[r].proto
<1>1. req[r].host \in Hosts /\ req[r].proto \in Protocols
  BY DEF RequestInv, RequestOK, RequestType
<1> QED
  BY <1>1 DEF Confirmed, Channels

LEMMA StoreSteps ==
  ASSUME NetType, RequestInv, Next
  PROVE  UNCHANGED <<storeVars, shown>> \/ Founds \/ Listen
<1> USE Facts, RequestNames
<1>0. \A r \in Requests : RequestOK(r, req[r], holders)
  BY DEF RequestInv
<1>1. ASSUME NEW h \in Hosts, AnswerDone(h) PROVE Founds
  <2> DEFINE r == <<"answer", h>>
  <2>1. r \in Requests /\ r[1] = "answer" /\ req[r].got \in Devices \cup {Own}
    BY <1>1 DEF AnswerDone
  <2>2. Found(req[r].claim, Confirmed(req[r])) /\ UNCHANGED <<shown, holders>>
    BY <1>1 DEF AnswerDone
  <2> HIDE DEF r
  <2>3. RequestOK(r, req[r], holders) /\ req[r].got # None
    BY <1>0, <2>1
  <2>4. /\ req[r].claim \in Devices
        /\ req[r].proto = "https" => <<req[r].claim, req[r].host>> \in holders
    BY <2>1, <2>3 DEF RequestOK
  <2> QED
    BY <2>1, <2>2, <2>3, <2>4, ConfirmedIs DEF Founds
<1>2. ASSUME NEW h \in Hosts, AddDevice(h) PROVE Founds
  <2>1. net[h] # None /\ net[h].dev # Own /\ net[h] \in Peers
    BY <1>2 DEF AddDevice, NetType
  <2>2. net[h].dev \in Devices /\ net[h].proto \in Protocols
    BY <2>1 DEF Peers
  <2>3. /\ Found(net[h].dev, <<h, net[h].proto>>) /\ <<net[h].dev, h>> \in holders'
        /\ UNCHANGED shown
    BY <1>2 DEF AddDevice
  <2>4. <<h, net[h].proto>> \in Channels
    BY <2>2 DEF Channels
  <2> QED
    BY <2>2, <2>3, <2>4 DEF Founds
<1>3. ASSUME NEW r \in Requests, ProbeFound(req[r]), UNCHANGED <<shown, holders>>
      PROVE  UNCHANGED <<storeVars, shown>> \/ Founds
  <2>1. CASE req[r].got \in Devices
    <3>1. Found(req[r].got, Confirmed(req[r])) /\ req[r].got # None
      BY <1>3, <2>1 DEF ProbeFound
    <3>2. req[r].proto = "https" => <<req[r].got, req[r].host>> \in holders
      BY <1>0, <2>1 DEF RequestOK
    <3> QED
      BY <1>3, <2>1, <3>1, <3>2, ConfirmedIs DEF Founds
  <2>2. CASE req[r].got \notin Devices
    BY <1>3, <2>2 DEF ProbeFound
  <2> QED
    BY <2>1, <2>2
<1>4. ASSUME NEW i \in Interfaces, NEW h \in SubnetOf[i], ScanProbeDone(i, h)
      PROVE  UNCHANGED <<storeVars, shown>> \/ Founds
  BY <1>3, <1>4 DEF ScanProbeDone
<1>5. ASSUME NEW h \in Known, KnownProbeDone(h) PROVE UNCHANGED <<storeVars, shown>> \/ Founds
  BY <1>3, <1>5 DEF KnownProbeDone
<1>6. ASSUME NEW h, NEW p, NEW q, NEW r, NEW i,
             \/ Move(h, p) \/ AnswerDropped(h) \/ AnswerAnnouncement(h, p, q)
             \/ SetAnswerAnnouncements \/ Stop \/ RequestStep(r)
             \/ StartScan(i) \/ ScanProbe(i, h) \/ ScanDone(i) \/ DropScan(i)
             \/ StartStaged \/ AnnounceRound \/ Escalate \/ StagedDone
      PROVE  UNCHANGED <<storeVars, shown>>
  BY <1>6 DEF Move, AnswerDropped, AnswerAnnouncement, SetAnswerAnnouncements, Stop, RequestStep,
       PeerAnswers, RequestFails, StartScan, ScanProbe, ScanDone, DropScan, StartStaged,
       AnnounceRound, Escalate, StagedDone, envUnchanged
<1> QED
  BY <1>1, <1>2, <1>4, <1>5, <1>6 DEF Next, ScanStep, StagedStep

LEMMA EntryNext ==
  ASSUME NEW s, NEW o, NEW c \in Channels,
         s = None => o = <<>>,
         s # None => EntryOK(s, o)
  PROVE  EntryOK(Upsert(s, c), MoveToEnd(o, c))
<1>1. CASE s = None
  <2>1. Upsert(s, c).channels = {c}
    BY <1>1 DEF Upsert
  <2> QED
    <3> DEFINE t == Upsert(None, c)
               p == MoveToEnd(<<>>, c)
    <3>1. t \in StatefulDevices /\ Len(t.logs) = 1 /\ Ordered(t, p) /\ t.channels = {c}
      BY <1>1, <2>1, OrderedFirst
    <3>2. 1 \in 1..MaxLogs /\ None \notin StatefulDevices
      BY Facts
    <3> HIDE DEF t, p
    <3>3. EntryOK(t, p)
      BY <3>1, <3>2 DEF EntryOK
    <3> QED
      BY <1>1, <3>3 DEF t, p
<1>2. CASE s # None
  <2> DEFINE t == Upsert(s, c)
  <2>1. t \in StatefulDevices /\ Len(t.logs) \in 1..MaxLogs
    <3>1. /\ t \in StatefulDevices
          /\ Len(t.logs) = Len(s.logs) + 1 - (IF Len(s.logs) = MaxLogs THEN 1 ELSE 0)
      BY <1>2, UpsertLogs DEF EntryOK
    <3> DEFINE n == Len(s.logs)
               m == Len(t.logs)
    <3>2. n \in 1..MaxLogs /\ MaxLogs \in Nat
      BY <1>2, Facts DEF EntryOK
    <3>3. m = IF n = MaxLogs THEN n + 1 - 1 ELSE n + 1 - 0
      BY <3>1
    <3> HIDE DEF n, m
    <3>4. m \in 1..MaxLogs
      BY <3>2, <3>3
    <3> QED
      BY <3>1, <3>4 DEF m
  <2>2. t.channels = {d \in s.channels : ~SameEndpoint(d, c)} \cup {c}
    BY <1>2 DEF Upsert
  <2>3. Ordered(t, MoveToEnd(o, c))
    BY <1>2, OrderedNext DEF EntryOK
  <2> HIDE DEF t
  <2>4. \A x, e \in t.channels : x[1] = e[1] => x = e
    BY <1>2, <2>2 DEF EntryOK, SameEndpoint
  <2> QED
    BY <2>1, <2>2, <2>3, <2>4, Facts DEF EntryOK, t
<1> QED
  BY <1>1, <1>2

LEMMA StoreKept ==
  ASSUME StoreInv, holders \subseteq holders', UNCHANGED <<storeVars, shown>> \/ Founds \/ Listen
  PROVE  StoreInv'
<1> USE Facts
<1>1. CASE UNCHANGED <<storeVars, shown>>
  BY <1>1 DEF storeVars, StoreInv, HttpsHolder, ShownIsCurrent, Queued
<1>2. CASE Founds
  <2>1. PICK d \in Devices, c \in Channels :
          /\ Found(d, c) /\ UNCHANGED shown
          /\ c[2] = "https" => <<d, c[1]>> \in holders'
    BY <1>2 DEF Founds
  <2> DEFINE t == Upsert(store[d], c)
  <2>2. /\ store' = [store EXCEPT ![d] = t]
        /\ order' = [order EXCEPT ![d] = MoveToEnd(order[d], c)]
    BY <2>1 DEF Found
  <2>3. EntryOK(t, MoveToEnd(order[d], c))
    BY EntryNext DEF StoreInv
  <2>4. \A e \in t.channels : e = c \/ (store[d] # None /\ e \in store[d].channels)
    BY DEF Upsert
  <2> HIDE DEF t
  <2>5. /\ store'[d] = t /\ order'[d] = MoveToEnd(order[d], c)
        /\ \A x \in Devices : x # d => store'[x] = store[x] /\ order'[x] = order[x]
        /\ store' \in [Devices -> StatefulDevices \cup {None}] /\ DOMAIN order' = Devices
    BY <2>2, <2>3 DEF StoreInv, EntryOK
  <2>6. \/ /\ Len(events) < EventCapacity /\ events' = Append(events, d) /\ missed' = missed \ {d}
        \/ /\ events' = events
           /\ missed' = IF Queued(d) THEN missed ELSE missed \cup {d}
    BY <2>1 DEF Found
  <2>7. events \in Seq(Devices) /\ Len(events) \in Nat
    BY DEF StoreInv
  <2>8. /\ events' \in Seq(Devices) /\ Len(events') <= EventCapacity
        /\ \A x \in Devices : Queued(x) => Queued(x)'
        /\ Queued(d)' \/ d \in missed'
        /\ \A x \in Devices : x # d => (Queued(x)' => Queued(x)) /\ (x \in missed => x \in missed')
    <3>1. CASE Len(events) < EventCapacity /\ events' = Append(events, d) /\ missed' = missed \ {d}
      <4>1. /\ Len(events') = Len(events) + 1 /\ events'[Len(events) + 1] = d
            /\ \A k \in 1..Len(events) : events'[k] = events[k]
            /\ events' \in Seq(Devices)
        BY <2>7, <3>1
      <4>2. Len(events) + 1 \in 1..Len(events') /\ \A k \in 1..Len(events) : k \in 1..Len(events')
        BY <2>7, <4>1
      <4>3. Queued(d)' /\ \A x \in Devices : Queued(x) => Queued(x)'
        BY <4>1, <4>2 DEF Queued
      <4>4. \A x \in Devices : x # d => (Queued(x)' => Queued(x))
        <5>1. \A k \in 1..Len(events') : k = Len(events) + 1 \/ k \in 1..Len(events)
          BY <2>7, <4>1
        <5> QED
          BY <4>1, <5>1 DEF Queued
      <4> QED
        BY <2>7, <3>1, <4>1, <4>3, <4>4
    <3>2. CASE events' = events /\ missed' = IF Queued(d) THEN missed ELSE missed \cup {d}
      BY <2>7, <3>2 DEF StoreInv, Queued
    <3> QED
      BY <2>6, <3>1, <3>2
  <2>9. store'[d] # None
    BY <2>3, <2>5 DEF EntryOK
  <2>10. \A x \in Devices : store'[x] = None => order'[x] = <<>> /\ shown'[x] = None /\ ~Queued(x)'
    BY <2>1, <2>5, <2>8, <2>9 DEF StoreInv
  <2>11. \A x \in Devices : store'[x] # None => EntryOK(store'[x], order'[x])
    BY <2>3, <2>5 DEF StoreInv
  <2>12. HttpsHolder'
    BY <2>1, <2>4, <2>5 DEF StoreInv, HttpsHolder
  <2>13. ShownIsCurrent'
    BY <2>1, <2>5, <2>8 DEF StoreInv, ShownIsCurrent
  <2> QED
    BY <2>1, <2>5, <2>8, <2>10, <2>11, <2>12, <2>13 DEF StoreInv
<1>3. CASE Listen
  <2> DEFINE d == Head(events)
  <2>1. /\ events # <<>> /\ events' = Tail(events) /\ UNCHANGED <<store, order, missed, holders>>
        /\ shown' = [shown EXCEPT ![d] = Shows(store[d])]
    BY <1>3 DEF Listen
  <2>2. events \in Seq(Devices) /\ Len(events) \in Nat \ {0}
    BY <2>1 DEF StoreInv
  <2>3. /\ d \in Devices /\ d = events[1]
        /\ events' \in Seq(Devices) /\ Len(events') = Len(events) - 1
        /\ \A k \in 1..Len(events') : events'[k] = events[k + 1]
    BY <2>1, <2>2
  <2> HIDE DEF d
  <2>4. store[d] # None
    <3>1. Queued(d)
      BY <2>2, <2>3 DEF Queued
    <3> QED
      BY <2>3, <3>1 DEF StoreInv
  <2>5. \A x \in Devices : (Queued(x)' => Queued(x)) /\ (x # d /\ Queued(x) => Queued(x)')
    <3>1. ASSUME NEW x \in Devices, Queued(x)' PROVE Queued(x)
      <4>1. PICK k \in 1..Len(events') : events'[k] = x
        BY <3>1 DEF Queued
      <4>2. k + 1 \in 1..Len(events)
        BY <2>2, <2>3
      <4> QED
        BY <2>3, <4>1, <4>2 DEF Queued
    <3>2. ASSUME NEW x \in Devices, x # d, Queued(x) PROVE Queued(x)'
      <4>1. PICK k \in 1..Len(events) : events[k] = x
        BY <3>2 DEF Queued
      <4>2. k - 1 \in 1..Len(events') /\ (k - 1) + 1 = k
        BY <2>2, <2>3, <3>2, <4>1
      <4>3. events'[k - 1] = x
        BY <2>3, <4>1, <4>2
      <4> QED
        BY <4>2, <4>3 DEF Queued
    <3> QED
      BY <3>1, <3>2
  <2>6. /\ shown'[d] = Shows(store'[d]) /\ DOMAIN shown' = Devices
        /\ \A x \in Devices : x # d => shown'[x] = shown[x]
    BY <2>1, <2>3 DEF StoreInv
  <2>7. ShownIsCurrent'
    BY <2>1, <2>4, <2>5, <2>6 DEF StoreInv, ShownIsCurrent, Shows, BestChannels
  <2>8. HttpsHolder'
    BY <2>1 DEF StoreInv, HttpsHolder
  <2>9. \A x \in Devices : store'[x] = None => order'[x] = <<>> /\ shown'[x] = None /\ ~Queued(x)'
    BY <2>1, <2>4, <2>5, <2>6 DEF StoreInv
  <2>10. Len(events') <= EventCapacity
    BY <2>2, <2>3 DEF StoreInv
  <2> QED
    BY <2>1, <2>3, <2>6, <2>7, <2>8, <2>9, <2>10 DEF StoreInv
<1> QED
  BY <1>1, <1>2, <1>3

-----------------------------------------------------------------------------
(* Scans.                                                                  *)

ScanRecords == [by : {None, "app", "staged"}, left : SUBSET Hosts]
StagedRecords ==
  [pc : {"idle", "known", "join", "done"}, announce : Int, seen : BOOLEAN, skipped : SUBSET Interfaces]

\* A host of a scan that discover_staged awaits is still to be probed, is being
\* probed, or was probed; once that scan is over all of them were.
ScanInv ==
  /\ scan \in [Interfaces -> ScanRecords] /\ staged \in StagedRecords
  /\ probed \in [Interfaces -> SUBSET Hosts]
  /\ scanning = {i \in Interfaces : scan[i].by # None}
  /\ \A i \in Interfaces :
       /\ scan[i].by = None => scan[i].left = {}
       /\ scan[i].left \subseteq SubnetOf[i] /\ probed[i] \subseteq SubnetOf[i]
       /\ staged.pc \in {"join", "done"} /\ ~staged.seen /\ i \notin staged.skipped =>
            IF scan[i].by = "staged"
            THEN SubnetOf[i] \subseteq scan[i].left \cup ProbesOf(i) \cup probed[i]
            ELSE SubnetOf[i] \subseteq probed[i]
       /\ staged.pc = "done" => scan[i].by # "staged"

LEMMA ScanType ==
  ASSUME ScanInv, NEW i \in Interfaces
  PROVE  scan[i] = [by |-> scan[i].by, left |-> scan[i].left]
BY DEF ScanInv, ScanRecords

\* A step that leaves scans alone loses no probe that is under way and adds to
\* what was probed.
ScansAlone ==
  /\ UNCHANGED <<scan, scanning>>
  /\ \A i \in Interfaces : probed[i] \subseteq probed'[i] /\ probed'[i] \subseteq SubnetOf[i]
  /\ \A i \in Interfaces : ProbesOf(i) \subseteq ProbesOf(i)' \cup probed'[i]
  /\ probed' \in [Interfaces -> SUBSET Hosts]
  /\ staged' \in StagedRecords
  /\ ~staged'.seen => ~staged.seen
  /\ staged'.skipped = staged.skipped /\ staged'.pc = staged.pc

LEMMA ScansAloneKeep ==
  ASSUME ScanInv, ScansAlone
  PROVE  ScanInv'
<1>1. /\ scan' = scan /\ scanning' = scanning
      /\ \A i \in Interfaces : probed[i] \subseteq probed'[i] /\ probed'[i] \subseteq SubnetOf[i]
      /\ \A i \in Interfaces : ProbesOf(i) \subseteq ProbesOf(i)' \cup probed'[i]
      /\ ~staged'.seen => ~staged.seen
      /\ staged'.skipped = staged.skipped /\ staged'.pc = staged.pc
  BY DEF ScansAlone
<1>2. ASSUME NEW i \in Interfaces,
             staged'.pc \in {"join", "done"}, ~staged'.seen, i \notin staged'.skipped
      PROVE  IF scan'[i].by = "staged"
             THEN SubnetOf[i] \subseteq scan'[i].left \cup ProbesOf(i)' \cup probed'[i]
             ELSE SubnetOf[i] \subseteq probed'[i]
  <2>1. IF scan[i].by = "staged"
        THEN SubnetOf[i] \subseteq scan[i].left \cup ProbesOf(i) \cup probed[i]
        ELSE SubnetOf[i] \subseteq probed[i]
    BY <1>1, <1>2 DEF ScanInv
  <2> QED
    BY <1>1, <2>1
<1>3. \A i \in Interfaces : ProbesOf(i)' = ProbesOf(i)'
  OBVIOUS
<1> QED
  BY <1>1, <1>2 DEF ScanInv, ScansAlone

LEMMA ProbesStay ==
  ASSUME NEW i \in Interfaces,
         \A h \in SubnetOf[i] : req[<<"scan", i, h>>] # NoRequest => req'[<<"scan", i, h>>] # NoRequest
  PROVE  ProbesOf(i) \subseteq ProbesOf(i)'
BY DEF ProbesOf

LEMMA ScanKept ==
  ASSUME NetType, RequestInv, ScanInv, Next
  PROVE  ScanInv'
<1> USE Facts, RequestNames, NewRequests
<1>0. /\ req \in [Requests -> RequestType]
      /\ \A r \in Requests : req[r].got = None => req[r] = NoRequest
  BY DEF RequestInv, RequestOK
<1>1. /\ scan \in [Interfaces -> ScanRecords] /\ staged \in StagedRecords
      /\ probed \in [Interfaces -> SUBSET Hosts]
      /\ \A i \in Interfaces : probed[i] \subseteq SubnetOf[i]
  BY DEF ScanInv
\* Requests of scans stay, or are replaced by others that are under way.
<1>2. ASSUME UNCHANGED <<scan, scanning, probed>>,
             UNCHANGED staged \/ staged' = [staged EXCEPT !.seen = TRUE],
             \A i \in Interfaces : ProbesOf(i) \subseteq ProbesOf(i)'
      PROVE  ScanInv'
  <2>1. /\ staged' \in StagedRecords /\ (~staged'.seen => ~staged.seen)
        /\ staged'.skipped = staged.skipped /\ staged'.pc = staged.pc
    BY <1>1, <1>2 DEF StagedRecords
  <2> QED
    BY <1>1, <1>2, <2>1, ScansAloneKeep DEF ScansAlone
<1>3. ASSUME UNCHANGED req PROVE \A i \in Interfaces : ProbesOf(i) \subseteq ProbesOf(i)'
  BY <1>3 DEF ProbesOf
<1>4. ASSUME NEW r \in Requests, NEW q, req' = [req EXCEPT ![r] = q],
             q # NoRequest \/ \A i \in Interfaces : \A h \in SubnetOf[i] : r # <<"scan", i, h>>
      PROVE  \A i \in Interfaces : ProbesOf(i) \subseteq ProbesOf(i)'
  <2> SUFFICES ASSUME NEW i \in Interfaces PROVE ProbesOf(i) \subseteq ProbesOf(i)'
    OBVIOUS
  <2>1. \A h \in SubnetOf[i] : req[<<"scan", i, h>>] # NoRequest => req'[<<"scan", i, h>>] # NoRequest
    BY <1>0, <1>4
  <2> QED
    BY <2>1, ProbesStay
<1>5. ASSUME NEW h \in Hosts PROVE \A i \in Interfaces : \A k \in SubnetOf[i] :
        <<"answer", h>> # <<"scan", i, k>> /\ <<"known", h>> # <<"scan", i, k>>
  OBVIOUS
<1>6. ASSUME NEW h \in Hosts, NEW p \in PeersAt[h], Move(h, p) PROVE ScanInv'
  BY <1>2, <1>3, <1>6 DEF Move, envUnchanged
<1>7. ASSUME NEW h \in Hosts, AnswerDropped(h) \/ AnswerDone(h) PROVE ScanInv'
  <2>1. req' = [req EXCEPT ![<<"answer", h>>] = NoRequest]
    BY <1>7 DEF AnswerDropped, AnswerDone
  <2>2. \A i \in Interfaces : ProbesOf(i) \subseteq ProbesOf(i)'
    BY <1>4, <1>5, <2>1
  <2> QED
    BY <1>2, <1>7, <2>2 DEF AnswerDropped, AnswerDone, envUnchanged
<1>8. ASSUME NEW h \in Hosts, AddDevice(h) PROVE ScanInv'
  BY <1>2, <1>3, <1>8 DEF AddDevice
<1>9. ASSUME NEW m \in air, AnswerAnnouncement(m[1], m[2], m[3]) PROVE ScanInv'
  <2>1. m[1] \in Hosts
    BY DEF NetType
  <2>2. \E q : req' = [req EXCEPT ![<<"answer", m[1]>>] = q]
    BY <1>9 DEF AnswerAnnouncement
  <2>3. \A i \in Interfaces : ProbesOf(i) \subseteq ProbesOf(i)'
    BY <1>4, <1>5, <2>1, <2>2
  <2> QED
    BY <1>2, <1>9, <2>3 DEF AnswerAnnouncement, envUnchanged
<1>10. CASE SetAnswerAnnouncements \/ Stop \/ Listen
  BY <1>2, <1>3, <1>10 DEF SetAnswerAnnouncements, Stop, Listen
<1>11. ASSUME NEW r \in Requests, RequestStep(r) PROVE ScanInv'
  <2>1. PICK g : req' = [req EXCEPT ![r] = [req[r] EXCEPT !.got = g]] /\ g # None
    <3>1. CASE PeerAnswers(r)
      <4>1. /\ req[r].got = "sent" /\ net[req[r].host] # None
            /\ req' = [req EXCEPT ![r].got = net[req[r].host].dev]
        BY <3>1 DEF PeerAnswers, Identity
      <4>2. req[r].host \in Hosts
        BY <4>1 DEF RequestInv, RequestOK
      <4>3. net[req[r].host].dev \in Devices \cup {Own}
        BY <4>1, <4>2 DEF NetType, Peers
      <4> QED
        BY <1>0, <4>1, <4>3
    <3>2. CASE RequestFails(r)
      BY <1>0, <3>2 DEF RequestFails
    <3> QED
      BY <1>11, <3>1, <3>2 DEF RequestStep
  <2>2. [req[r] EXCEPT !.got = g].got = g
    BY <1>0 DEF RequestType
  <2>3. \A i \in Interfaces : ProbesOf(i) \subseteq ProbesOf(i)'
    BY <1>4, <2>1, <2>2
  <2> QED
    BY <1>2, <1>11, <2>3 DEF RequestStep, PeerAnswers, RequestFails, envUnchanged
<1>12. ASSUME NEW h \in Known, KnownProbeDone(h) PROVE ScanInv'
  <2>1. /\ req' = [req EXCEPT ![<<"known", h>>] = NoRequest] /\ h \in Hosts
        /\ UNCHANGED <<scan, scanning, probed>>
        /\ staged' = [staged EXCEPT !.seen = staged.seen \/ req[<<"known", h>>].got \in Devices]
    BY <1>12 DEF KnownProbeDone
  <2>2. \A i \in Interfaces : ProbesOf(i) \subseteq ProbesOf(i)'
    BY <1>4, <1>5, <2>1
  <2>3. UNCHANGED staged \/ staged' = [staged EXCEPT !.seen = TRUE]
    BY <1>1, <2>1 DEF StagedRecords
  <2> QED
    BY <1>2, <2>1, <2>2, <2>3
<1>13. ASSUME NEW i \in Interfaces, NEW h \in SubnetOf[i], ScanProbeDone(i, h) PROVE ScanInv'
  <2> DEFINE r == <<"scan", i, h>>
  <2>1. /\ req' = [req EXCEPT ![r] = NoRequest] /\ r \in Requests
        /\ UNCHANGED <<scan, scanning>>
        /\ probed' = [probed EXCEPT ![i] = probed[i] \cup {h}]
        /\ staged' = [staged EXCEPT !.seen = staged.seen \/ req[r].got \in Devices]
    BY <1>13 DEF ScanProbeDone
  <2>2. /\ staged' \in StagedRecords /\ (~staged'.seen => ~staged.seen)
        /\ staged'.skipped = staged.skipped /\ staged'.pc = staged.pc
    <3>1. UNCHANGED staged \/ staged' = [staged EXCEPT !.seen = TRUE]
      BY <1>1, <2>1 DEF StagedRecords
    <3> QED
      BY <1>1, <3>1 DEF StagedRecords
  <2>3. /\ probed' \in [Interfaces -> SUBSET Hosts]
        /\ \A j \in Interfaces : probed[j] \subseteq probed'[j] /\ probed'[j] \subseteq SubnetOf[j]
        /\ h \in probed'[i]
    BY <1>1, <2>1
  <2>4. ASSUME NEW j \in Interfaces PROVE ProbesOf(j) \subseteq ProbesOf(j)' \cup probed'[j]
    <3> SUFFICES ASSUME NEW k \in SubnetOf[j], req[<<"scan", j, k>>] # NoRequest
                 PROVE  req'[<<"scan", j, k>>] # NoRequest \/ k \in probed'[j]
      BY DEF ProbesOf
    <3>1. CASE j = i /\ k = h
      BY <2>3, <3>1
    <3>2. CASE ~(j = i /\ k = h)
      <4>1. <<"scan", j, k>> # r /\ <<"scan", j, k>> \in Requests
        BY <3>2
      <4> HIDE DEF r
      <4>2. req'[<<"scan", j, k>>] = req[<<"scan", j, k>>]
        BY <1>0, <2>1, <4>1
      <4> QED
        BY <4>2
    <3> QED
      BY <3>1, <3>2
  <2> HIDE DEF r
  <2> QED
    BY <2>1, <2>2, <2>3, <2>4, ScansAloneKeep DEF ScansAlone

\* The scan of one interface changes; the others and what was probed stay.
<1>14. ASSUME NEW i \in Interfaces, NEW z \in ScanRecords, scan' = [scan EXCEPT ![i] = z],
              UNCHANGED <<staged, probed>>,
              scanning' = {j \in Interfaces : scan'[j].by # None},
              \A j \in Interfaces \ {i} : ProbesOf(j) \subseteq ProbesOf(j)',
              z.by = None => z.left = {}, z.left \subseteq SubnetOf[i],
              staged.pc \in {"join", "done"} /\ ~staged.seen /\ i \notin staged.skipped =>
                IF z.by = "staged"
                THEN SubnetOf[i] \subseteq z.left \cup ProbesOf(i)' \cup probed[i]
                ELSE SubnetOf[i] \subseteq probed[i],
              staged.pc = "done" => z.by # "staged"
       PROVE  ScanInv'
  <2>1. scan' \in [Interfaces -> ScanRecords] /\ scan'[i] = z
        /\ \A j \in Interfaces : j # i => scan'[j] = scan[j]
    BY <1>1, <1>14
  <2>2. ASSUME NEW j \in Interfaces
        PROVE  /\ scan'[j].by = None => scan'[j].left = {}
               /\ scan'[j].left \subseteq SubnetOf[j] /\ probed'[j] \subseteq SubnetOf[j]
               /\ staged'.pc \in {"join", "done"} /\ ~staged'.seen /\ j \notin staged'.skipped =>
                    IF scan'[j].by = "staged"
                    THEN SubnetOf[j] \subseteq scan'[j].left \cup ProbesOf(j)' \cup probed'[j]
                    ELSE SubnetOf[j] \subseteq probed'[j]
               /\ staged'.pc = "done" => scan'[j].by # "staged"
    <3>1. CASE j = i
      BY <1>1, <1>14, <2>1, <3>1
    <3>2. CASE j # i
      <4>1. scan'[j] = scan[j] /\ staged' = staged /\ probed' = probed /\ ProbesOf(j) \subseteq ProbesOf(j)'
        BY <1>14, <2>1, <3>2
      <4> QED
        BY <4>1 DEF ScanInv
    <3> QED
      BY <3>1, <3>2
  <2> QED
    BY <1>1, <1>14, <2>1, <2>2 DEF ScanInv
<1>15. scanning = {j \in Interfaces : scan[j].by # None}
  BY DEF ScanInv
<1>16. ASSUME NEW i \in Interfaces, StartScan(i) PROVE ScanInv'
  <2> DEFINE z == [by |-> "app", left |-> SubnetOf[i]]
  <2>1. /\ i \notin scanning /\ scanning' = scanning \cup {i}
        /\ scan' = [scan EXCEPT ![i] = z] /\ UNCHANGED <<req, staged, probed>>
    BY <1>16 DEF StartScan
  <2>2. z \in ScanRecords /\ z.by = "app" /\ z.left = SubnetOf[i]
    BY DEF ScanRecords
  <2>3. scan[i].by = None
    BY <1>15, <2>1
  <2> HIDE DEF z
  <2>4. scanning' = {j \in Interfaces : scan'[j].by # None}
    BY <1>1, <1>15, <2>1, <2>2
  <2>5. staged.pc \in {"join", "done"} /\ ~staged.seen /\ i \notin staged.skipped =>
          SubnetOf[i] \subseteq probed[i]
    BY <2>3 DEF ScanInv
  <2> QED
    BY <1>3, <1>14, <2>1, <2>2, <2>4, <2>5
<1>17. ASSUME NEW i \in Interfaces, NEW h \in SubnetOf[i], ScanProbe(i, h) PROVE ScanInv'
  <2> DEFINE z == [by |-> scan[i].by, left |-> scan[i].left \ {h}]
             r == <<"scan", i, h>>
  <2>1. /\ h \in scan[i].left /\ req' = [req EXCEPT ![r] = Probe(h)]
        /\ scan' = [scan EXCEPT ![i].left = scan[i].left \ {h}]
        /\ UNCHANGED <<scanning, staged, probed>>
    BY <1>17 DEF ScanProbe
  <2>2. z \in ScanRecords /\ z.by = scan[i].by /\ z.left = scan[i].left \ {h}
    BY <1>1 DEF ScanRecords
  <2>3. scan' = [scan EXCEPT ![i] = z]
    <3>1. \A b, l, m : [[by |-> b, left |-> l] EXCEPT !.left = m] = [by |-> b, left |-> m]
      OBVIOUS
    <3>2. [scan[i] EXCEPT !.left = scan[i].left \ {h}] = z
      <4> DEFINE b == scan[i].by
                 l == scan[i].left
      <4>1. scan[i] = [by |-> b, left |-> l]
        BY ScanType
      <4>2. [[by |-> b, left |-> l] EXCEPT !.left = l \ {h}] = z
        BY <3>1
      <4> HIDE DEF b, z
      <4>3. ASSUME NEW y, scan[i] = y, [y EXCEPT !.left = l \ {h}] = z
            PROVE  [scan[i] EXCEPT !.left = l \ {h}] = z
        BY <4>3, Zenon
      <4> QED
        BY <4>1, <4>2, <4>3, Zenon
    <3> HIDE DEF z
    <3> QED
      BY <1>1, <2>1, <3>2
  <2>4. r \in Requests /\ h \in Hosts /\ Probe(h) # NoRequest
    OBVIOUS
  <2> HIDE DEF z, r
  <2>5. \A j \in Interfaces : ProbesOf(j) \subseteq ProbesOf(j)'
    BY <1>4, <2>1, <2>4
  <2>6. h \in ProbesOf(i)'
    BY <1>0, <2>1, <2>4 DEF ProbesOf, r
  <2>7. scanning' = {j \in Interfaces : scan'[j].by # None}
    BY <1>1, <1>15, <2>1, <2>2, <2>3
  <2>8. /\ staged.pc \in {"join", "done"} /\ ~staged.seen /\ i \notin staged.skipped =>
             IF scan[i].by = "staged"
             THEN SubnetOf[i] \subseteq scan[i].left \cup ProbesOf(i) \cup probed[i]
             ELSE SubnetOf[i] \subseteq probed[i]
        /\ scan[i].by = None => scan[i].left = {}
        /\ scan[i].left \subseteq SubnetOf[i]
        /\ staged.pc = "done" => scan[i].by # "staged"
    BY DEF ScanInv
  <2>9. staged.pc \in {"join", "done"} /\ ~staged.seen /\ i \notin staged.skipped =>
          IF z.by = "staged"
          THEN SubnetOf[i] \subseteq z.left \cup ProbesOf(i)' \cup probed[i]
          ELSE SubnetOf[i] \subseteq probed[i]
    BY <2>2, <2>5, <2>6, <2>8
  <2> QED
    BY <1>14, <2>1, <2>2, <2>3, <2>5, <2>7, <2>8, <2>9
<1>18. ASSUME NEW i \in Interfaces, ScanDone(i) \/ DropScan(i) PROVE ScanInv'
  <2>1. /\ scanning' = scanning \ {i} /\ scan' = [scan EXCEPT ![i] = NoScan]
        /\ UNCHANGED <<staged, probed>>
    BY <1>18 DEF ScanDone, DropScan
  <2>2. NoScan \in ScanRecords /\ NoScan.by = None /\ NoScan.left = {}
    BY DEF NoScan, ScanRecords
  <2>3. scanning' = {j \in Interfaces : scan'[j].by # None}
    BY <1>1, <1>15, <2>1, <2>2
  <2>4. \A j \in Interfaces \ {i} : ProbesOf(j) \subseteq ProbesOf(j)'
    <3>1. CASE ScanDone(i)
      BY <1>3, <3>1 DEF ScanDone
    <3>2. CASE DropScan(i)
      <4> SUFFICES ASSUME NEW j \in Interfaces \ {i} PROVE ProbesOf(j) \subseteq ProbesOf(j)'
        OBVIOUS
      <4>1. req' = [x \in Requests |->
              IF x \in {<<"scan", i, h>> : h \in SubnetOf[i]} THEN NoRequest ELSE req[x]]
        BY <3>2 DEF DropScan
      <4>2. \A k \in SubnetOf[j] : <<"scan", j, k>> \in Requests
              /\ <<"scan", j, k>> \notin {<<"scan", i, h>> : h \in SubnetOf[i]}
        OBVIOUS
      <4>3. \A k \in SubnetOf[j] : req'[<<"scan", j, k>>] = req[<<"scan", j, k>>]
        BY <4>1, <4>2
      <4> QED
        BY <4>3, ProbesStay
    <3> QED
      BY <1>18, <3>1, <3>2
  <2>5. staged.pc \in {"join", "done"} /\ ~staged.seen /\ i \notin staged.skipped =>
          SubnetOf[i] \subseteq probed[i]
    <3>1. CASE ScanDone(i)
      <4>1. scan[i].left = {} /\ ProbesOf(i) = {}
        BY <3>1 DEF ScanDone
      <4> QED
        BY <4>1 DEF ScanInv
    <3>2. CASE DropScan(i)
      BY <3>2 DEF DropScan, ScanInv
    <3> QED
      BY <1>18, <3>1, <3>2
  <2> QED
    BY <1>14, <2>1, <2>2, <2>3, <2>4, <2>5
<1>19. CASE StartStaged
  <2>1. /\ staged.pc = "idle" /\ UNCHANGED <<scan, scanning>>
        /\ probed' = [i \in Interfaces |-> {}]
        /\ staged' = [pc |-> "known", announce |-> IF stopped THEN 0 ELSE Rounds,
                      seen |-> FALSE, skipped |-> {}]
    BY <1>19 DEF StartStaged
  <2>2. staged' \in StagedRecords /\ staged'.pc = "known"
    <3>1. (IF stopped THEN 0 ELSE Rounds) \in Int
      BY ConstantsAssumption
    <3> QED
      BY <2>1, <3>1 DEF StagedRecords
  <2> QED
    BY <2>1, <2>2 DEF ScanInv
<1>20. CASE AnnounceRound
  <2>1. /\ staged' = [staged EXCEPT !.announce = IF stopped THEN 0 ELSE staged.announce - 1]
        /\ UNCHANGED <<scan, scanning, req, probed>>
    BY <1>20 DEF AnnounceRound
  <2>2. (IF stopped THEN 0 ELSE staged.announce - 1) \in Int
    BY <1>1 DEF StagedRecords
  <2>3. /\ staged' \in StagedRecords /\ staged'.seen = staged.seen
        /\ staged'.skipped = staged.skipped /\ staged'.pc = staged.pc
    BY <1>1, <2>1, <2>2 DEF StagedRecords
  <2> QED
    BY <1>1, <1>3, <2>1, <2>3, ScansAloneKeep DEF ScansAlone
<1>21. CASE StagedDone
  <2>1. /\ staged.pc = "join" /\ staged' = [staged EXCEPT !.pc = "done"]
        /\ \A i \in Interfaces : scan[i].by # "staged"
        /\ UNCHANGED <<scan, scanning, req, probed>>
    BY <1>21 DEF StagedDone
  <2>2. /\ staged' \in StagedRecords /\ staged'.seen = staged.seen
        /\ staged'.skipped = staged.skipped /\ staged'.pc = "done"
    BY <1>1, <2>1 DEF StagedRecords
  <2> QED
    BY <2>1, <2>2 DEF ScanInv
<1>22. CASE Escalate /\ staged.seen
  <2>1. /\ staged.pc = "known" /\ staged' = [staged EXCEPT !.pc = "join"]
        /\ UNCHANGED <<scan, scanning, req, probed>>
    BY <1>22 DEF Escalate
  <2>2. staged' \in StagedRecords /\ staged'.seen /\ staged'.pc = "join"
    BY <1>1, <1>22, <2>1 DEF StagedRecords
  <2> QED
    BY <2>1, <2>2 DEF ScanInv
<1>23. CASE Escalate /\ ~staged.seen
  <2> DEFINE free == Interfaces \ scanning
  <2>1. /\ staged.pc = "known" /\ scanning' = scanning \cup free
        /\ staged' = [staged EXCEPT !.pc = "join", !.skipped = scanning]
        /\ scan' = [i \in Interfaces |->
             IF i \in free THEN [by |-> "staged", left |-> SubnetOf[i]] ELSE scan[i]]
        /\ probed' = probed
    BY <1>23 DEF Escalate
  <2>2. scanning \subseteq Interfaces
    BY <1>15
  <2>3. staged' \in StagedRecords /\ staged'.skipped = scanning /\ staged'.pc = "join"
    BY <1>1, <2>1, <2>2 DEF StagedRecords
  <2>4. /\ \A i \in free : scan'[i].by = "staged" /\ scan'[i].left = SubnetOf[i]
        /\ \A i \in Interfaces \ free : scan'[i] = scan[i]
        /\ scan' \in [Interfaces -> ScanRecords]
    BY <1>1, <2>1 DEF ScanRecords
  <2>5. scanning' = {i \in Interfaces : scan'[i].by # None}
    BY <1>15, <2>1, <2>4
  <2> QED
    BY <2>1, <2>3, <2>4, <2>5 DEF ScanInv
<1> QED
  BY <1>6, <1>7, <1>8, <1>9, <1>10, <1>11, <1>12, <1>13, <1>16, <1>17, <1>18, <1>19, <1>20,
     <1>21, <1>22, <1>23 DEF Next, ScanStep, StagedStep

-----------------------------------------------------------------------------
DiscoveryInv == NetType /\ RequestInv /\ StoreInv /\ ScanInv

LEMMA DiscoveryInvHolds == Spec => []DiscoveryInv
<1>1. Init => DiscoveryInv
  <2> SUFFICES ASSUME Init PROVE DiscoveryInv
    OBVIOUS
  <2>1. NetType
    <3>1. \A n \in Networks : n \in [Hosts -> Peers]
      BY ConstantsAssumption
    <3>2. \A n \in Networks : Announced(n) \subseteq Hosts \X (Devices \cup {Own}) \X Protocols
      BY <3>1 DEF Announced, Peers
    <3>3. air \subseteq Hosts \X (Devices \cup {Own}) \X Protocols
      BY <3>2 DEF Init
    <3>4. net \in [Hosts -> Peers] /\ inputs \in 0 .. MaxInputs
      BY <3>1, Facts DEF Init
    <3> QED
      BY <3>3, <3>4 DEF Init, NetType
  <2>2. RequestInv
    BY NewRequests DEF Init, RequestInv
  <2>3. StoreInv
    BY Facts DEF Init, StoreInv, HttpsHolder, ShownIsCurrent, Queued
  <2>4. ScanInv
    <3>1. /\ scan \in [Interfaces -> ScanRecords] /\ \A i \in Interfaces : scan[i] = NoScan
          /\ NoScan.by = None /\ NoScan.left = {}
      BY DEF Init, NoScan, ScanRecords
    <3>2. staged \in StagedRecords /\ staged.pc = "idle"
      BY DEF Init, StagedRecords
    <3>3. probed \in [Interfaces -> SUBSET Hosts] /\ \A i \in Interfaces : probed[i] = {}
      BY DEF Init
    <3> QED
      BY <3>1, <3>2, <3>3, Facts DEF Init, ScanInv
  <2> QED
    BY <2>1, <2>2, <2>3, <2>4 DEF DiscoveryInv
<1>2. DiscoveryInv /\ [Next]_vars => DiscoveryInv'
  <2> SUFFICES ASSUME DiscoveryInv, [Next]_vars PROVE DiscoveryInv'
    OBVIOUS
  <2>1. CASE Next
    BY <2>1, NetKept, RequestKept, StoreSteps, StoreKept, ScanKept DEF DiscoveryInv
  <2>2. CASE UNCHANGED vars
    <3>1. NetType' /\ RequestInv'
      BY <2>2 DEF vars, DiscoveryInv, NetType, RequestInv
    <3>2. StoreInv'
      BY <2>2, StoreKept DEF vars, storeVars, DiscoveryInv
    <3>3. ScanInv'
      BY <2>2 DEF vars, DiscoveryInv, ScanInv, ProbesOf
    <3> QED
      BY <3>1, <3>2, <3>3 DEF DiscoveryInv
  <2> QED
    BY <2>1, <2>2
<1> QED
  BY <1>1, <1>2, PTL DEF Spec

\* The store of devices says what was confirmed, in whatever order answers,
\* announcements and registrations arrive: one channel per host, the latest one
\* the best, HTTPS only where the certificate's holder answered, and the
\* application sees the merged state (DeviceStore, DiscoveryState::found,
\* listen).
THEOREM StoreFaithfulHolds == Spec => []StoreFaithful
<1>1. DiscoveryInv => StoreFaithful
  <2> SUFFICES ASSUME DiscoveryInv PROVE StoreFaithful
    OBVIOUS
  <2>1. /\ NetType /\ RequestInv /\ ScanInv /\ HttpsHolder /\ ShownIsCurrent
        /\ Len(events) <= EventCapacity
        /\ \A d \in Devices : store[d] # None => EntryOK(store[d], order[d])
    BY DEF DiscoveryInv, StoreInv
  <2>2. TypeOK
    <3>1. \A d \in Devices : store[d] = None \/
            /\ store[d].channels \subseteq Channels
            /\ Len(store[d].logs) \in 1 .. MaxLogs
      BY <2>1 DEF EntryOK, StatefulDevices
    <3>2. \A i \in Interfaces : scan[i].by \in {None, "app", "staged"} /\ scan[i].left \subseteq SubnetOf[i]
      BY <2>1 DEF ScanInv, ScanRecords
    <3>3. staged.pc \in {"idle", "known", "join", "done"}
      BY <2>1 DEF ScanInv, StagedRecords
    <3> QED
      BY <2>1, <3>1, <3>2, <3>3 DEF TypeOK, NetType, RequestInv, RequestType
  <2>3. OneChannelPerHost
    BY <2>1 DEF OneChannelPerHost, EntryOK
  <2>4. BestIsLatest
    <3> SUFFICES ASSUME NEW d \in Devices, store[d] # None
                 PROVE  LET ch == store[d].channels
                            class == IF \E c \in ch : IsIpv6(c) THEN {c \in ch : IsIpv6(c)} ELSE ch
                        IN  \/ \E k \in 1 .. Len(order[d]) :
                                 /\ BestChannels(store[d]) = {order[d][k]} /\ order[d][k] \in class
                                 /\ \A j \in k + 1 .. Len(order[d]) : order[d][j] \notin class
                            \/ BestChannels(store[d]) = class
                               /\ \A c \in class : \A k \in 1 .. Len(store[d].logs) :
                                    store[d].logs[k] # c
      BY DEF BestIsLatest
    <3>1. store[d] \in StatefulDevices /\ store[d].channels # {} /\ Ordered(store[d], order[d])
      BY <2>1 DEF EntryOK
    <3> QED
      BY <3>1, BestOfOrdered
  <2> QED
    BY <2>1, <2>2, <2>3, <2>4 DEF StoreFaithful
<1> QED
  BY <1>1, DiscoveryInvHolds, PTL

\* Scans leave no host out, and an interface is marked as scanned exactly while
\* its scan lives (scan_subnet, ScanGuard, discover_staged).
THEOREM ScansCompleteHolds == Spec => []ScansComplete
<1>1. DiscoveryInv => ScansComplete
  <2> SUFFICES ASSUME DiscoveryInv PROVE ScansComplete
    OBVIOUS
  <2>1. ScanInv
    BY DEF DiscoveryInv
  <2>2. NothingLeftOut
    BY <2>1 DEF ScanInv, NothingLeftOut
  <2>3. \A i \in Interfaces : scan[i] # NoScan <=> scan[i].by # None
    <3>1. \A i \in Interfaces : scan[i].by = None => scan[i].left = {}
      BY <2>1 DEF ScanInv
    <3>2. \A i \in Interfaces : scan[i] = [by |-> scan[i].by, left |-> scan[i].left]
      BY <2>1, ScanType
    <3>3. NoScan = [by |-> None, left |-> {}] /\ NoScan.by = None
      BY DEF NoScan
    <3>4. ASSUME NEW i \in Interfaces, scan[i].by = None PROVE scan[i] = NoScan
      BY <3>1, <3>2, <3>3, <3>4
    <3> QED
      BY <3>3, <3>4
  <2>4. ScanGuarded
    BY <2>1, <2>3 DEF ScanGuarded, ScanInv
  <2> QED
    BY <2>2, <2>4 DEF ScansComplete
<1> QED
  BY <1>1, DiscoveryInvHolds, PTL

-----------------------------------------------------------------------------
(* DiscoveryService.                                                       *)

\* A call that stops the old instance or binds its own holds the lock of
\* RUNNING_DISCOVERY; an instance has nothing before its call returns.
StartInv ==
  \A n \in Instances :
    /\ startPc[n] = "none" <=> starts < n
    /\ startPc[n] \in {"stopOld", "bind"} => lock = <<"start", n>>
    /\ startPc[n] = "stopOld" => cur # 0
    /\ startPc[n] = "bind" => cur = 0
    /\ startPc[n] # "started" => stopTx[n] = "none" /\ sup[n] = "none" /\ stopPc[n] = "none"
    /\ cur = n => startPc[n] = "started"
    /\ n = dart.of /\ dart.pc = "listen" => startPc[n] = "started"

DartInv == dart.pc \in {"starting", "listen"} => dart.of \in Instances /\ dart.of <= starts

\* Only the instance in RUNNING_DISCOVERY runs; the lock of stop_tx is held
\* from the request to stop until the task has ended.
StopInv ==
  \A n \in Instances :
    /\ sup[n] \in {"run", "closing"} => cur = n
    /\ txLock[n] # Nobody => stopTx[n] = "sent"
    /\ stopTx[n] = "sent" /\ txLock[n] = Nobody => sup[n] \in {"ended", "off"}
    /\ stopPc[n] \in {"lock", "done"} => sup[n] \in {"ended", "off"}

\* Loops run and sockets are kept while the supervisor is there; without a
\* request it closes only what has ended.
TaskInv ==
  \A n \in Instances :
    /\ sup[n] \notin {"run", "closing"} =>
         kept[n] = {} /\ \A s \in Sockets : loop[n][s] \in {"none", "ended"}
    /\ sup[n] = "closing" /\ stopTx[n] = "kept" =>
         \A s \in Sockets : loop[n][s] \in {"none", "ended"}

ServiceInv == ServiceType /\ StartInv /\ DartInv /\ StopInv /\ TaskInv

LEMMA SocketsOfFilter ==
  \A f : LocalInterfaces(f) \subseteq Sockets
<1> SUFFICES ASSUME NEW f PROVE LocalInterfaces(f) \subseteq Sockets
  OBVIOUS
<1> DEFINE all == [whitelist |-> Nobody, blacklist |-> Nobody]
<1>1. \A i : ~IsIgnored(all, AddressesOf[i])
  BY DEF IsIgnored
<1> HIDE DEF all
<1>2. LocalInterfaces(f) \subseteq LocalInterfaces(all)
  BY <1>1 DEF LocalInterfaces
<1> QED
  BY <1>2 DEF Sockets, all

\* What binding the given sockets does to the tasks of an instance.
BindsTo(n, bound) ==
  /\ kept' = [kept EXCEPT ![n] = bound]
  /\ loop' = [loop EXCEPT ![n] = [s \in Sockets |-> IF s \in bound THEN "recv" ELSE "none"]]
  /\ sup' = [sup EXCEPT ![n] = IF bound = {} THEN "off" ELSE "run"]
  /\ disp' = [disp EXCEPT ![n] = IF bound = {} THEN "ended" ELSE "run"]

LEMMA BindDoes ==
  ASSUME NEW n, Bind(n)
  PROVE  \E bound \in SUBSET Sockets : BindsTo(n, bound)
BY SocketsOfFilter DEF Bind, BindsTo


BridgeType ==
  /\ starts \in 0 .. MaxStarts /\ cur \in 0 .. starts
  /\ lock \in {Nobody} \cup ({"start"} \X Instances)
  /\ startPc \in [Instances -> {"none", "lock", "stopOld", "bind", "started"}]
  /\ stopPc \in [Instances -> {"none", "take", "lock", "done"}]
  /\ txLock \in [Instances -> {Nobody, "start", "stop"}]
  /\ stopTx \in [Instances -> {"none", "kept", "sent"}]

LoopType ==
  /\ cancel \in [Instances -> BOOLEAN]
  /\ loop \in [Instances -> [Sockets -> {"none", "recv", "send", "ended"}]]
  /\ errs \in [Instances -> [Sockets -> 0 .. MaxErrors - 1]]

McType ==
  /\ sup \in [Instances -> {"none", "off", "run", "closing", "ended"}]
  /\ kept \in [Instances -> SUBSET Sockets]
  /\ chan \in [Instances -> 0 .. Capacity]
  /\ disp \in [Instances -> {"none", "run", "ended"}]

DartType ==
  /\ unread \in [Instances -> 0 .. ListenCapacity]
  /\ listener \in [Instances -> {"none", "recv", "ended"}]
  /\ dart \in [pc : {"start", "starting", "listen"}, of : 0 .. MaxStarts]

LEMMA TypeParts == ServiceType <=> BridgeType /\ LoopType /\ McType /\ DartType
BY DEF ServiceType, BridgeType, LoopType, McType, DartType

LEMMA Numbers ==
  /\ MaxStarts \in Nat \ {0} /\ MaxErrors \in Nat \ {0}
  /\ Capacity \in Nat \ {0} /\ ListenCapacity \in Nat \ {0}
  /\ Nobody \notin {"start", "stop"} /\ \A n \in Instances : Nobody # <<"start", n>>
  /\ Instances \subseteq Nat \ {0} /\ \A n : n \in Instances <=> n \in Nat /\ 1 <= n /\ n <= MaxStarts
BY ServiceAssumption DEF Instances

LEMMA BridgeTyped ==
  ASSUME BridgeType, DartType, StartInv, DartInv, [ServiceNext]_serviceVars
  PROVE  BridgeType'
<1> USE Numbers
<1>1. CASE UNCHANGED serviceVars
  BY <1>1 DEF BridgeType, serviceVars
<1>2. CASE DartStarts
  BY <1>2 DEF BridgeType, DartStarts, multicastVars
<1>3. CASE DartStops
  BY <1>3 DEF BridgeType, DartInv, DartStops, stopUnchanged
<1>4. CASE DartListens \/ HotRestart
  BY <1>4 DEF BridgeType, DartListens, HotRestart, bridgeVars
<1>5. ASSUME NEW n \in Instances, StartStep(n) PROVE BridgeType'
  <2>1. CASE StartLocks(n)
    BY <2>1 DEF BridgeType, StartLocks
  <2>2. CASE StartTakesStopTx(n)
    BY <2>2 DEF BridgeType, StartTakesStopTx, TakeStopTx
  <2>3. CASE StartStoppedOld(n)
    BY <2>3 DEF BridgeType, StartStoppedOld, StopWaited
  <2>4. CASE Bind(n)
    <3>1. n <= starts
      BY <2>4 DEF StartInv, Bind, BridgeType
    <3> QED
      BY <2>4, <3>1 DEF BridgeType, Bind, Running
  <2> QED
    BY <1>5, <2>1, <2>2, <2>3, <2>4 DEF StartStep
<1>6. ASSUME NEW n \in Instances, StopStep(n) PROVE BridgeType'
  <2>1. CASE StopTakesStopTx(n)
    BY <2>1 DEF BridgeType, StopTakesStopTx, TakeStopTx, stopUnchanged
  <2>2. CASE StopStopped(n)
    BY <2>2 DEF BridgeType, StopStopped, StopWaited, stopUnchanged
  <2>3. CASE StopForgets(n)
    BY <2>3 DEF BridgeType, StopForgets, stopUnchanged
  <2> QED
    BY <1>6, <2>1, <2>2, <2>3 DEF StopStep
<1>7. ASSUME UNCHANGED bridgeVars PROVE BridgeType'
  BY <1>7 DEF BridgeType, bridgeVars
<1>8. ASSUME NEW n \in Instances, SupervisorStep(n) \/ Dispatch(n) \/ Confirm(n) \/ ListenTakes(n)
      PROVE UNCHANGED bridgeVars
  BY <1>8 DEF SupervisorStep, SupervisorWakes, Shutdown, Dispatch, Confirm, ListenTakes
<1>9. ASSUME NEW n \in Instances, NEW s \in Sockets, LoopStep(n, s)
      PROVE UNCHANGED bridgeVars
  BY <1>9 DEF LoopStep, Receive, ReceiveIgnored, ReceiveError, SendEvent,
       LoopCancelled, receiveUnchanged
<1> QED
  BY <1>1, <1>2, <1>3, <1>4, <1>5, <1>6, <1>7, <1>8, <1>9 DEF ServiceNext, DartStep

LEMMA McTyped ==
  ASSUME ServiceType, [ServiceNext]_serviceVars
  PROVE  LoopType' /\ McType'
<1> USE Numbers
<1>0. LoopType /\ McType
  BY TypeParts
<1>1. CASE UNCHANGED multicastVars
  BY <1>0, <1>1 DEF LoopType, McType, multicastVars
<1>2. ASSUME NEW n \in Instances, Bind(n) PROVE LoopType' /\ McType'
  <2>1. PICK bound \in SUBSET Sockets : BindsTo(n, bound)
    BY <1>2, BindDoes
  <2>2. cancel' = cancel /\ errs' = errs /\ chan' = chan
    BY <1>2 DEF Bind
  <2> QED
    BY <1>0, <2>1, <2>2 DEF LoopType, McType, BindsTo
<1>3. ASSUME NEW n \in Instances, SupervisorStep(n) \/ Dispatch(n) PROVE LoopType' /\ McType'
  <2>1. CASE SupervisorWakes(n)
    BY <1>0, <2>1 DEF LoopType, McType, SupervisorWakes
  <2>2. CASE Shutdown(n)
    <3> DEFINE over == [s \in Sockets |-> IF loop[n][s] = "none" THEN "none" ELSE "ended"]
               zero == [s \in Sockets |-> 0]
    <3>1. over \in [Sockets -> {"none", "recv", "send", "ended"}]
      OBVIOUS
    <3>2. zero \in [Sockets -> 0 .. MaxErrors - 1]
      OBVIOUS
    <3>3. /\ loop' = [loop EXCEPT ![n] = over] /\ errs' = [errs EXCEPT ![n] = zero]
          /\ kept' = [kept EXCEPT ![n] = {}] /\ sup' = [sup EXCEPT ![n] = "ended"]
          /\ UNCHANGED <<cancel, chan, disp>>
      BY <2>2 DEF Shutdown
    <3> HIDE DEF over, zero
    <3> QED
      BY <1>0, <3>1, <3>2, <3>3 DEF LoopType, McType
  <2>3. CASE Dispatch(n)
    <3>1. LoopType' /\ UNCHANGED <<sup, kept>>
      BY <1>0, <2>3 DEF LoopType, Dispatch
    <3>2. chan[n] \in 0 .. Capacity
      BY <1>0 DEF McType
    <3>3. \/ chan' = chan
          \/ chan[n] - 1 \in 0 .. Capacity /\ chan' = [chan EXCEPT ![n] = chan[n] - 1]
      <4>1. chan' = chan \/ (chan[n] > 0 /\ chan' = [chan EXCEPT ![n] = chan[n] - 1])
        BY <2>3 DEF Dispatch
      <4> QED
        BY <3>2, <4>1
    <3>4. disp' = disp \/ disp' = [disp EXCEPT ![n] = "ended"]
      BY <2>3 DEF Dispatch
    <3> QED
      BY <1>0, <3>1, <3>3, <3>4 DEF McType
  <2> QED
    BY <1>3, <2>1, <2>2, <2>3 DEF SupervisorStep
<1>4. ASSUME NEW n \in Instances, NEW s \in Sockets, LoopStep(n, s) PROVE LoopType' /\ McType'
  <2>1. CASE Receive(n, s)
    BY <1>0, <2>1 DEF LoopType, McType, Receive, receiveUnchanged
  <2>2. CASE ReceiveIgnored(n, s)
    BY <1>0, <2>2 DEF LoopType, McType, ReceiveIgnored, receiveUnchanged
  <2>3. CASE ReceiveError(n, s)
    <3>1. errs[n][s] \in 0 .. MaxErrors - 1 /\ UNCHANGED receiveUnchanged /\ chan' = chan
      BY <1>0, <2>3 DEF LoopType, ReceiveError
    <3>2. \/ loop' = loop
          \/ loop' = [loop EXCEPT ![n][s] = "ended"]
      BY <2>3 DEF ReceiveError
    <3>3. \E v \in 0 .. MaxErrors - 1 : errs' = [errs EXCEPT ![n][s] = v]
      <4>1. CASE errs[n][s] + 1 >= MaxErrors
        BY <2>3, <4>1 DEF ReceiveError
      <4>2. CASE ~(errs[n][s] + 1 >= MaxErrors)
        <5>1. errs[n][s] + 1 \in 0 .. MaxErrors - 1
          BY <3>1, <4>2
        <5> QED
          BY <2>3, <4>2, <5>1 DEF ReceiveError
      <4> QED
        BY <4>1, <4>2
    <3> QED
      <4>1. McType' /\ cancel' = cancel
        BY <1>0, <3>1 DEF McType, receiveUnchanged
      <4>2. loop' \in [Instances -> [Sockets -> {"none", "recv", "send", "ended"}]]
        BY <1>0, <3>2 DEF LoopType
      <4>3. errs' \in [Instances -> [Sockets -> 0 .. MaxErrors - 1]]
        BY <1>0, <3>3 DEF LoopType
      <4> QED
        BY <1>0, <4>1, <4>2, <4>3 DEF LoopType
  <2>4. CASE SendEvent(n, s)
    BY <1>0, <2>4 DEF LoopType, McType, SendEvent, receiveUnchanged
  <2>5. CASE LoopCancelled(n, s)
    BY <1>0, <2>5 DEF LoopType, McType, LoopCancelled, receiveUnchanged
  <2> QED
    BY <1>4, <2>1, <2>2, <2>3, <2>4, <2>5 DEF LoopStep
<1>5. ASSUME NEW n \in Instances,
             StartLocks(n) \/ StartTakesStopTx(n) \/ StartStoppedOld(n) \/ StopStep(n)
             \/ Confirm(n) \/ ListenTakes(n)
      PROVE  UNCHANGED multicastVars
  BY <1>5 DEF StartLocks, StartTakesStopTx, StartStoppedOld, StopStep, StopTakesStopTx,
       StopStopped, StopForgets, Confirm, ListenTakes, stopUnchanged
<1>6. ASSUME DartStep \/ DartStops \/ HotRestart PROVE UNCHANGED multicastVars
  BY <1>6 DEF DartStep, DartStarts, DartListens, DartStops, HotRestart, stopUnchanged
<1> QED
  BY <1>1, <1>2, <1>3, <1>4, <1>5, <1>6 DEF ServiceNext, StartStep, serviceVars, multicastVars

LEMMA DartTyped ==
  ASSUME ServiceType, DartInv, [ServiceNext]_serviceVars
  PROVE  DartType'
<1> USE Numbers
<1>0. DartType /\ starts \in 0 .. MaxStarts
  BY TypeParts DEF BridgeType
<1>1. CASE UNCHANGED appVars
  BY <1>0, <1>1 DEF DartType, appVars
<1>2. CASE DartStarts
  BY <1>0, <1>2 DEF DartType, DartStarts
<1>3. CASE DartListens
  BY <1>0, <1>3 DEF DartType, DartListens, DartInv
<1>4. CASE HotRestart
  BY <1>0, <1>4 DEF DartType, HotRestart
<1>5. ASSUME NEW n \in Instances, Confirm(n) PROVE DartType'
  BY <1>0, <1>5 DEF DartType, Confirm
<1>6. ASSUME NEW n \in Instances, ListenTakes(n) PROVE DartType'
  BY <1>0, <1>6 DEF DartType, ListenTakes
<1>7. ASSUME NEW n \in Instances, StartStep(n) \/ StopStep(n) \/ SupervisorStep(n) \/ Dispatch(n)
      PROVE  UNCHANGED appVars
  BY <1>7 DEF StartStep, StartLocks, StartTakesStopTx, StartStoppedOld, Bind, StopStep,
       StopTakesStopTx, StopStopped, StopForgets, SupervisorStep, SupervisorWakes, Shutdown,
       Dispatch, stopUnchanged
<1>8. ASSUME NEW n \in Instances, NEW s \in Sockets, LoopStep(n, s) PROVE UNCHANGED appVars
  BY <1>8 DEF LoopStep, Receive, ReceiveIgnored, ReceiveError, SendEvent,
       LoopCancelled, receiveUnchanged
<1>9. ASSUME DartStops PROVE UNCHANGED appVars
  BY <1>9 DEF DartStops, stopUnchanged
<1> QED
  BY <1>1, <1>2, <1>3, <1>4, <1>5, <1>6, <1>7, <1>8, <1>9 DEF ServiceNext, DartStep, serviceVars, appVars

\* What the steps of the multicast side do to what the rest depends on.
TaskSteps(n) ==
  /\ UNCHANGED <<bridgeVars, dart>>
  /\ \A m \in Instances : m # n =>
       sup'[m] = sup[m] /\ kept'[m] = kept[m] /\ loop'[m] = loop[m]
  /\ \/ /\ sup'[n] = sup[n] /\ kept'[n] = kept[n]
        /\ \A s \in Sockets : loop[n][s] \in {"none", "ended"} => loop'[n][s] = loop[n][s]
     \/ /\ sup[n] = "run" /\ sup'[n] = "closing" /\ kept'[n] = kept[n] /\ loop' = loop
        /\ LoopsEnded(n) \/ stopTx[n] = "sent"
     \/ /\ sup[n] = "closing" /\ sup'[n] = "ended" /\ kept'[n] = {}
        /\ \A s \in Sockets : loop'[n][s] \in {"none", "ended"}

LEMMA TasksDo ==
  ASSUME ServiceType, NEW n \in Instances,
         \/ SupervisorStep(n) \/ Dispatch(n)
         \/ \E s \in Sockets : LoopStep(n, s)
  PROVE  TaskSteps(n)
<1>0. LoopType /\ McType
  BY TypeParts
<1>1. CASE SupervisorWakes(n)
  BY <1>0, <1>1 DEF TaskSteps, McType, SupervisorWakes, appVars
<1>2. CASE Shutdown(n)
  BY <1>0, <1>2 DEF TaskSteps, LoopType, McType, Shutdown, appVars
<1>3. CASE Dispatch(n)
  BY <1>3 DEF TaskSteps, Dispatch, appVars
<1>4. ASSUME NEW s \in Sockets, LoopStep(n, s) PROVE TaskSteps(n)
  <2>1. UNCHANGED receiveUnchanged
    BY <1>4 DEF LoopStep, Receive, ReceiveIgnored, ReceiveError, SendEvent, LoopCancelled
  <2>2. /\ loop[n][s] \notin {"none", "ended"}
        /\ loop' = loop \/ \E v : loop' = [loop EXCEPT ![n][s] = v]
    BY <1>4 DEF LoopStep, Receive, ReceiveIgnored, ReceiveError, SendEvent, LoopCancelled
  <2> QED
    BY <1>0, <2>1, <2>2 DEF TaskSteps, LoopType, receiveUnchanged, appVars
<1> QED
  BY <1>1, <1>2, <1>3, <1>4 DEF SupervisorStep

LEMMA StartKept ==
  ASSUME ServiceInv, [ServiceNext]_serviceVars
  PROVE  StartInv' /\ DartInv'
<1> USE Numbers
<1>0. /\ BridgeType /\ DartType /\ StartInv /\ DartInv
  BY TypeParts DEF ServiceInv
<1>1. ASSUME UNCHANGED <<bridgeVars, dart>>, UNCHANGED sup \/ \E n \in Instances : TaskSteps(n)
      PROVE  StartInv' /\ DartInv'
  BY <1>0, <1>1 DEF StartInv, DartInv, bridgeVars, TaskSteps
<1>2. CASE DartStarts
  BY <1>0, <1>2 DEF BridgeType, DartType, StartInv, DartInv, DartStarts, multicastVars
<1>3. CASE DartStops
  BY <1>0, <1>3 DEF BridgeType, DartType, StartInv, DartInv, DartStops, stopUnchanged,
       multicastVars, appVars
<1>4. CASE DartListens
  BY <1>0, <1>4 DEF BridgeType, DartType, StartInv, DartInv, DartListens, bridgeVars, multicastVars
<1>5. CASE HotRestart
  BY <1>0, <1>5 DEF BridgeType, DartType, StartInv, DartInv, HotRestart, bridgeVars, multicastVars
<1>6. ASSUME NEW n \in Instances, StartLocks(n) PROVE StartInv' /\ DartInv'
  BY <1>0, <1>6 DEF BridgeType, DartType, StartInv, DartInv, StartLocks, multicastVars, appVars
<1>7. ASSUME NEW n \in Instances, StartTakesStopTx(n) PROVE StartInv' /\ DartInv'
  <2>1. cur \in Instances /\ startPc[cur] = "started"
    BY <1>0, <1>7 DEF BridgeType, StartInv, StartTakesStopTx
  <2> QED
    BY <1>0, <1>7, <2>1 DEF BridgeType, DartType, StartInv, DartInv, StartTakesStopTx,
         TakeStopTx, multicastVars, appVars
<1>8. ASSUME NEW n \in Instances, StartStoppedOld(n) PROVE StartInv' /\ DartInv'
  BY <1>0, <1>8 DEF BridgeType, DartType, StartInv, DartInv, StartStoppedOld,
       multicastVars, appVars
<1>9. ASSUME NEW n \in Instances, Bind(n) PROVE StartInv' /\ DartInv'
  <2>1. PICK bound \in SUBSET Sockets : BindsTo(n, bound)
    BY <1>9, BindDoes
  <2>2. McType
    BY TypeParts DEF ServiceInv
  <2>3. /\ startPc[n] = "bind" /\ Running(n)
        /\ UNCHANGED <<starts, stopPc, txLock, dart>>
    BY <1>9 DEF Bind, appVars
  <2>4. \A m \in Instances : m # n => sup'[m] = sup[m]
    BY <2>1, <2>2 DEF BindsTo, McType
  <2> QED
    BY <1>0, <2>3, <2>4 DEF BridgeType, DartType, StartInv, DartInv, Running
<1>10. ASSUME NEW n \in Instances, StopStep(n) PROVE StartInv' /\ DartInv'
  <2>1. CASE StopTakesStopTx(n)
    BY <1>0, <2>1 DEF BridgeType, DartType, StartInv, DartInv, StopTakesStopTx, TakeStopTx,
         stopUnchanged, multicastVars, appVars
  <2>2. CASE StopStopped(n)
    BY <1>0, <2>2 DEF BridgeType, DartType, StartInv, DartInv, StopStopped, StopWaited,
         stopUnchanged, multicastVars, appVars
  <2>3. CASE StopForgets(n)
    BY <1>0, <2>3 DEF BridgeType, DartType, StartInv, DartInv, StopForgets,
         stopUnchanged, multicastVars, appVars
  <2> QED
    BY <1>10, <2>1, <2>2, <2>3 DEF StopStep
<1>11. ASSUME NEW n \in Instances,
              SupervisorStep(n) \/ Dispatch(n) \/ \E s \in Sockets : LoopStep(n, s)
       PROVE  StartInv' /\ DartInv'
  BY <1>1, <1>11, TasksDo DEF ServiceInv, TaskSteps
<1>12. ASSUME NEW n \in Instances, Confirm(n) \/ ListenTakes(n)
       PROVE  StartInv' /\ DartInv'
  BY <1>1, <1>12 DEF Confirm, ListenTakes, multicastVars
<1>13. CASE UNCHANGED serviceVars
  BY <1>1, <1>13 DEF serviceVars, bridgeVars
<1> QED
  BY <1>2, <1>3, <1>4, <1>5, <1>6, <1>7, <1>8, <1>9, <1>10, <1>11, <1>12, <1>13
     DEF ServiceNext, DartStep, StartStep

LEMMA StopKept ==
  ASSUME ServiceInv, [ServiceNext]_serviceVars
  PROVE  StopInv'
<1> USE Numbers
<1>0. /\ BridgeType /\ DartType /\ StartInv /\ DartInv /\ StopInv /\ McType
  BY TypeParts DEF ServiceInv
<1>1. ASSUME UNCHANGED <<cur, stopPc, txLock, stopTx>>, UNCHANGED sup \/ \E n \in Instances : TaskSteps(n)
      PROVE  StopInv'
  BY <1>0, <1>1 DEF StopInv, TaskSteps
<1>2. CASE DartStarts \/ DartListens \/ HotRestart
  BY <1>1, <1>2 DEF DartStarts, DartListens, HotRestart, bridgeVars, multicastVars
<1>3. CASE DartStops
  BY <1>0, <1>3 DEF BridgeType, StartInv, DartInv, StopInv, DartStops, stopUnchanged, multicastVars
<1>6. ASSUME NEW n \in Instances, StartLocks(n) \/ Confirm(n) \/ ListenTakes(n) PROVE StopInv'
  BY <1>1, <1>6 DEF StartLocks, Confirm, ListenTakes, multicastVars, bridgeVars
<1>7. ASSUME NEW n \in Instances, StartTakesStopTx(n) PROVE StopInv'
  <2>1. cur \in Instances
    BY <1>0, <1>7 DEF BridgeType, StartInv, StartTakesStopTx
  <2> QED
    BY <1>0, <1>7, <2>1 DEF BridgeType, StopInv, StartTakesStopTx, TakeStopTx, multicastVars
<1>8. ASSUME NEW n \in Instances, StartStoppedOld(n) PROVE StopInv'
  <2>1. cur \in Instances
    BY <1>0, <1>8 DEF BridgeType, StartInv, StartStoppedOld
  <2>2. sup[cur] \in {"ended", "off"}
    BY <1>0, <1>8, <2>1 DEF StopInv, StartStoppedOld, StopWaited, Wakes
  <2> QED
    BY <1>0, <1>8, <2>1, <2>2 DEF BridgeType, StopInv, StartStoppedOld, StopWaited, multicastVars
<1>9. ASSUME NEW n \in Instances, Bind(n) PROVE StopInv'
  <2>1. PICK bound \in SUBSET Sockets : BindsTo(n, bound)
    BY <1>9, BindDoes
  <2>3. /\ startPc[n] = "bind" /\ Running(n)
        /\ UNCHANGED <<starts, stopPc, txLock>>
    BY <1>9 DEF Bind
  <2>4. /\ \A m \in Instances : m # n => sup'[m] = sup[m]
    BY <1>0, <2>1 DEF BindsTo, McType
  <2>5. cur = 0 /\ stopTx[n] = "none" /\ stopPc[n] = "none"
    BY <1>0, <2>3 DEF StartInv
  <2> QED
    BY <1>0, <2>3, <2>4, <2>5 DEF BridgeType, StopInv, Running
<1>10. ASSUME NEW n \in Instances, StopStep(n) PROVE StopInv'
  <2>1. CASE StopTakesStopTx(n)
    BY <1>0, <2>1 DEF BridgeType, StopInv, StopTakesStopTx, TakeStopTx,
         stopUnchanged, multicastVars
  <2>2. CASE StopStopped(n)
    BY <1>0, <2>2 DEF BridgeType, StopInv, StopStopped, StopWaited, Wakes,
         stopUnchanged, multicastVars
  <2>3. CASE StopForgets(n)
    BY <1>0, <2>3 DEF BridgeType, StopInv, StopForgets, stopUnchanged, multicastVars
  <2> QED
    BY <1>10, <2>1, <2>2, <2>3 DEF StopStep
<1>11. ASSUME NEW n \in Instances,
              SupervisorStep(n) \/ Dispatch(n) \/ \E s \in Sockets : LoopStep(n, s)
       PROVE  StopInv'
  BY <1>1, <1>11, TasksDo DEF ServiceInv, TaskSteps, bridgeVars
<1>13. CASE UNCHANGED serviceVars
  BY <1>1, <1>13 DEF serviceVars
<1> QED
  BY <1>2, <1>3, <1>6, <1>7, <1>8, <1>9, <1>10, <1>11, <1>13
     DEF ServiceNext, DartStep, StartStep

LEMMA TaskKept ==
  ASSUME ServiceInv, [ServiceNext]_serviceVars
  PROVE  TaskInv'
<1>0. /\ BridgeType /\ LoopType /\ StartInv /\ TaskInv /\ McType
  BY TypeParts DEF ServiceInv
<1>1. ASSUME UNCHANGED <<sup, kept, loop, stopTx>> PROVE TaskInv'
  BY <1>0, <1>1 DEF TaskInv
<1>2. CASE DartStep \/ DartStops \/ HotRestart
  BY <1>1, <1>2 DEF DartStep, DartStarts, DartStops, DartListens, HotRestart, bridgeVars,
       multicastVars, stopUnchanged
<1>3. ASSUME NEW n \in Instances,
             StartLocks(n) \/ StartStoppedOld(n) \/ StopStopped(n) \/ StopForgets(n)
             \/ Confirm(n) \/ ListenTakes(n)
      PROVE  TaskInv'
  BY <1>1, <1>3 DEF StartLocks, StartStoppedOld, StopStopped, StopForgets, Confirm, ListenTakes,
       multicastVars, bridgeVars, stopUnchanged
<1>4. ASSUME NEW n, TakeStopTx(n, "start") \/ TakeStopTx(n, "stop"), UNCHANGED multicastVars PROVE TaskInv'
  BY <1>0, <1>4 DEF BridgeType, TaskInv, TakeStopTx, multicastVars
<1>5. ASSUME NEW n \in Instances, StartTakesStopTx(n) \/ StopTakesStopTx(n) PROVE TaskInv'
  BY <1>4, <1>5 DEF StartTakesStopTx, StopTakesStopTx, stopUnchanged
<1>6. ASSUME NEW n \in Instances, Bind(n) PROVE TaskInv'
  <2>1. PICK bound \in SUBSET Sockets : BindsTo(n, bound)
    BY <1>6, BindDoes
  <2>2. stopTx' = [stopTx EXCEPT ![n] = "kept"]
    BY <1>6 DEF Bind, Running
  <2>3. \A m \in Instances : m # n =>
          sup'[m] = sup[m] /\ kept'[m] = kept[m] /\ loop'[m] = loop[m] /\ stopTx'[m] = stopTx[m]
    BY <1>0, <2>1, <2>2 DEF BindsTo, McType, LoopType, BridgeType
  <2>4. /\ sup'[n] = IF bound = {} THEN "off" ELSE "run"
        /\ kept'[n] = bound
        /\ bound = {} => \A s \in Sockets : loop'[n][s] = "none"
    BY <1>0, <2>1 DEF BindsTo, McType, LoopType
  <2> QED
    BY <1>0, <2>3, <2>4 DEF TaskInv
<1>11. ASSUME NEW n \in Instances,
              SupervisorStep(n) \/ Dispatch(n) \/ \E s \in Sockets : LoopStep(n, s)
       PROVE  TaskInv'
  <2>1. TaskSteps(n)
    BY <1>11, TasksDo DEF ServiceInv
  <2> QED
    BY <1>0, <2>1 DEF TaskInv, TaskSteps, LoopsEnded, bridgeVars, BridgeType
<1>13. CASE UNCHANGED serviceVars
  BY <1>1, <1>13 DEF serviceVars
<1> QED
  BY <1>2, <1>3, <1>5, <1>6, <1>11, <1>13
     DEF ServiceNext, StartStep, StopStep

\* No discovery hears beside another, whatever the order of starts, stops and
\* hot restarts; the running one can be found, its stop releases the port, and
\* a broken interface costs only itself (start_discovery, RsDiscovery::stop,
\* the supervisor and the receive loops of multicast).
THEOREM OneDiscoveryHolds == ServiceSpec => []OneDiscovery
<1>1. ServiceInit => ServiceInv
  <2> SUFFICES ASSUME ServiceInit PROVE ServiceInv
    OBVIOUS
  <2>1. ServiceType
    BY Numbers DEF ServiceInit, ServiceType
  <2> QED
    BY <2>1, Numbers DEF ServiceInit, ServiceInv, StartInv, DartInv, StopInv, TaskInv
<1>2. ServiceInv /\ [ServiceNext]_serviceVars => ServiceInv'
  <2> SUFFICES ASSUME ServiceInv, [ServiceNext]_serviceVars PROVE ServiceInv'
    OBVIOUS
  <2>1. BridgeType /\ DartType /\ ServiceType /\ StartInv /\ DartInv
    BY TypeParts DEF ServiceInv
  <2>2. ServiceType'
    <3>1. BridgeType' /\ LoopType' /\ McType' /\ DartType'
      BY <2>1, BridgeTyped, McTyped, DartTyped
    <3> QED
      BY <3>1 DEF ServiceType, BridgeType, LoopType, McType, DartType
  <2> QED
    BY <2>2, StartKept, StopKept, TaskKept DEF ServiceInv
<1>3. ServiceInv => OneDiscovery
  <2> SUFFICES ASSUME ServiceInv PROVE OneDiscovery
    OBVIOUS
  <2>0. ServiceType /\ McType /\ BridgeType /\ StopInv /\ TaskInv /\ StartInv
    BY TypeParts DEF ServiceInv
  <2>1. \A n \in Instances : Hears(n) => sup[n] \in {"run", "closing"}
    BY <2>0 DEF Hears, TaskInv
  <2>2. OneHears
    <3> DEFINE S == {n \in Instances : Hears(n)}
    <3>1. S \subseteq {cur}
      BY <2>0, <2>1 DEF StopInv
    <3>2. IsFiniteSet({cur}) /\ Cardinality({cur}) = 1
      BY FS_Singleton
    <3>3. Cardinality(S) <= Cardinality({cur})
      BY <3>1, <3>2, FS_Subset
    <3> QED
      BY <3>2, <3>3 DEF OneHears
  <2>3. LeftoverFound
    BY <2>0 DEF LeftoverFound, StopInv
  <2>4. PortReleased
    BY <2>0, <2>1 DEF PortReleased, StopInv, TaskInv
  <2>5. OthersGoOn
    BY <2>0, <2>1 DEF OthersGoOn, TaskInv, Hears
  <2> QED
    BY <2>0, <2>2, <2>3, <2>4, <2>5 DEF OneDiscovery
<1> QED
  BY <1>1, <1>2, <1>3, PTL DEF ServiceSpec
=============================================================================
