------------------------------ MODULE PinGate ------------------------------
(***************************************************************************)
(* check_pin (packages/core/src/http/server/common/pin.rs) with the LRU    *)
(* cache that counts the failed attempts per address.  v2.rs and web.rs    *)
(* each own one such cache, of 200 addresses.                              *)
(*                                                                         *)
(* The cache lies behind a mutex that is held for the whole check, so a    *)
(* check is one action.  A lookup counts as a use of its entry.            *)
(***************************************************************************)
EXTENDS Integers, Sequences, FiniteSets

CONSTANTS
  Peers,           \* addresses of remote devices
  CacheSize,       \* capacity of the LRU cache (200)
  MaxPinAttempts   \* MAX_PIN_ATTEMPTS

VARIABLES
  cache,   \* the entries [ip, count], most recently used first
  others   \* history: per address, whose entries were used since its last use

Entry == [ip : Peers, count : 1..MaxPinAttempts]

Tracked == {cache[i].ip : i \in 1..Len(cache)}

Position(p) == CHOOSE i \in 1..Len(cache) : cache[i].ip = p

\* The counter of address p; an address without an entry has none.
Count(p) == IF p \in Tracked THEN cache[Position(p)].count ELSE 0

Blocked(p) == Count(p) >= MaxPinAttempts

\* LruCache::pop
Without(p) ==
  IF p \in Tracked
  THEN [i \in 1..Len(cache)-1 |-> cache[IF i < Position(p) THEN i ELSE i + 1]]
  ELSE cache

\* LruCache::get moves the entry to the front.
Promoted(p) ==
  IF p \in Tracked THEN <<[ip |-> p, count |-> Count(p)]>> \o Without(p)
  ELSE cache

\* LruCache::put: a new entry in a full cache replaces the least recent one.
Put(p, n) ==
  LET rest == Without(p)
  IN  <<[ip |-> p, count |-> n]>>
      \o SubSeq(rest, 1, IF Len(rest) = CacheSize THEN CacheSize - 1 ELSE Len(rest))

\* History only: the entry of p, if it has one now, is the latest one used.
Used(p) ==
  others' = [q \in Peers |->
    IF q = p THEN {} ELSE others[q] \cup ({p} \cap Tracked')]

Init ==
  /\ cache = <<>>
  /\ others = [p \in Peers |-> {}]

\* 429
CheckBlocked(p) ==
  /\ Blocked(p)
  /\ cache' = Promoted(p)
  /\ Used(p)

\* Broken variant of CheckRight: the failures of every address are forgotten.
CheckRightClearing(p) ==
  /\ ~Blocked(p)
  /\ cache' = <<>>
  /\ Used(p)

\* The right PIN forgets the failures of the address.
CheckRight(p) ==
  /\ ~Blocked(p)
  /\ cache' = Without(p)
  /\ Used(p)

\* 401, and the failure counts.
CheckWrong(p) ==
  /\ ~Blocked(p)
  /\ cache' = Put(p, Count(p) + 1)
  /\ Used(p)

\* 401 without a PIN: not a failure, but the lookup promotes the entry.
CheckAbsent(p) ==
  /\ ~Blocked(p)
  /\ cache' = Promoted(p)
  /\ Used(p)

-----------------------------------------------------------------------------
(* Properties. *)

\* The cache has at most CacheSize entries, one per address, and no count
\* beyond the limit.
TypeOK ==
  /\ cache \in Seq(Entry)
  /\ Len(cache) <= CacheSize
  /\ \A i, j \in 1..Len(cache) : cache[i].ip = cache[j].ip => i = j
  /\ others \in [Peers -> SUBSET Peers]

\* What a check may do to the counters: change the one of its own address,
\* unless that is exhausted, and forget one for which CacheSize other
\* addresses were used since its last request.
Counts ==
  \E p \in Peers :
    /\ Count(p)' # Count(p) => ~Blocked(p) /\ Count(p)' \in {0, Count(p) + 1}
    /\ \A q \in Peers \ {p} :
         \/ Count(q)' = Count(q)
         \/ Count(q)' = 0 /\ Cardinality(others'[q]) >= CacheSize
=============================================================================
