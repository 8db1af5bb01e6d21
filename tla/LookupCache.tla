---------------------------- MODULE LookupCache ----------------------------
(* The process-wide cache of point lookups in 1C (_LOOKUP_CACHE) and the     *)
(* threads that go through it: batch workers, the pools of parallel lookups  *)
(* and HTTP handlers.  The lock is held for a look into the cache and for a  *)
(* store, never during the request, so several threads may fetch one key at  *)
(* once and their answers may be stored in any order.                        *)
(*                                                                           *)
(* The content of an answer is represented by the instant at which 1C read   *)
(* it.  The timeout holds for one operation on the socket, and an answer     *)
(* that trickles in takes many of them.                                      *)
EXTENDS Integers, Sequences

CONSTANTS Key, Thread,
          TTL,         \* lookup_cache_ttl_seconds
          MaxEntries,  \* lookup_cache_max_entries
          Timeout,     \* config.timeout, the longest time a socket operation takes
          Operations,  \* bound of the model on the socket operations of a request
          MaxClock     \* bound of the model on time

ASSUME ConfigAssumption ==
  /\ TTL \in Nat /\ MaxEntries \in Nat /\ Timeout \in Nat
  /\ Operations \in Nat \ {0} /\ MaxClock \in Nat

VARIABLES
  clock,   \* time.monotonic()
  order,   \* the keys of the OrderedDict, least recently used first
  entry,   \* entry[k]: when the entry of k was created and its content read
  pc, key, asked, read,  \* the call each thread is in, and its locals
  operations, \* the socket operations that its request has completed
  last,       \* and when the last of them ended
  result,  \* what the last call of each thread returned
  uses     \* history: every key ever used, least recently used first

vars == <<clock, order, entry, pc, key, asked, read, operations, last, result, uses>>

\* The call failed, or there is none that has returned.
Nothing == -1
Instants == 0..MaxClock

-----------------------------------------------------------------------------
(* Operations of the OrderedDict.                                            *)

Keys(s) == {s[i] : i \in DOMAIN s}

Without(s, k) ==
  IF k \in Keys(s)
  THEN LET i == CHOOSE j \in DOMAIN s : s[j] = k
       IN  SubSeq(s, 1, i - 1) \o SubSeq(s, i + 1, Len(s))
  ELSE s

\* move_to_end, of a key that may be new.
MoveToEnd(s, k) == Append(Without(s, k), k)

\* popitem(last=False) while there are more than n.
Newest(s, n) == IF Len(s) > n THEN SubSeq(s, Len(s) - n + 1, Len(s)) ELSE s

-----------------------------------------------------------------------------
Absent == [created |-> 0, read |-> 0]

Init ==
  /\ clock = 0
  /\ order = << >> /\ uses = << >>
  /\ entry = [k \in Key |-> Absent]
  /\ pc = [t \in Thread |-> "idle"]
  /\ key \in [Thread -> Key]
  /\ asked = [t \in Thread |-> 0]
  /\ read = [t \in Thread |-> 0]
  /\ operations = [t \in Thread |-> 0] /\ last = [t \in Thread |-> 0]
  /\ result = [t \in Thread |-> Nothing]

InFlight(t) == pc[t] \in {"sent", "answered"}

Tick ==
  /\ clock < MaxClock
  /\ \A t \in Thread : InFlight(t) => clock - last[t] < Timeout
  /\ clock' = clock + 1
  /\ UNCHANGED <<order, entry, pc, key, asked, read, operations, last, result, uses>>

\* A thread calls for key k; the instant is read before the lock is taken.
Ask(t, k) ==
  /\ pc[t] = "idle"
  /\ pc' = [pc EXCEPT ![t] = "asked"]
  /\ key' = [key EXCEPT ![t] = k]
  /\ asked' = [asked EXCEPT ![t] = clock]
  /\ result' = [result EXCEPT ![t] = Nothing]
  /\ UNCHANGED <<clock, order, entry, read, operations, last, uses>>

Cached(k) == TTL > 0 /\ k \in Keys(order)

\* Mutant: the difference has the wrong sign.
ExpiredNever(t) == entry[key[t]].created - asked[t] > TTL

Expired(t) == asked[t] - entry[key[t]].created > TTL

Finish(t, outcome) ==
  /\ pc' = [pc EXCEPT ![t] = "idle"]
  /\ result' = [result EXCEPT ![t] = outcome]
  /\ asked' = [asked EXCEPT ![t] = 0]
  /\ read' = [read EXCEPT ![t] = 0]
  /\ operations' = [operations EXCEPT ![t] = 0]
  /\ last' = [last EXCEPT ![t] = 0]
  /\ UNCHANGED <<clock, key>>

\* Mutant: a hit leaves the entry at its place.
HitInPlace(t) ==
  /\ pc[t] = "asked"
  /\ Cached(key[t]) /\ ~Expired(t)
  /\ uses' = MoveToEnd(uses, key[t])
  /\ Finish(t, entry[key[t]].read)
  /\ UNCHANGED <<order, entry>>

Hit(t) ==
  /\ pc[t] = "asked"
  /\ Cached(key[t]) /\ ~Expired(t)
  /\ order' = MoveToEnd(order, key[t])
  /\ uses' = MoveToEnd(uses, key[t])
  /\ Finish(t, entry[key[t]].read)
  /\ UNCHANGED entry

\* Nothing is cached, or what is has expired and is dropped: ask 1C.
Miss(t) ==
  /\ pc[t] = "asked"
  /\ Cached(key[t]) => Expired(t)
  /\ IF Cached(key[t])
     THEN /\ order' = Without(order, key[t])
          /\ entry' = [entry EXCEPT ![key[t]] = Absent]
     ELSE UNCHANGED <<order, entry>>
  /\ pc' = [pc EXCEPT ![t] = "sent"]
  /\ last' = [last EXCEPT ![t] = clock]
  /\ UNCHANGED <<clock, key, asked, read, operations, result, uses>>

\* An operation on the socket ends in time (the connection is made, a piece of
\* the answer is received), and the request goes on with the next.
Continue(t) ==
  /\ InFlight(t) /\ operations[t] + 1 < Operations
  /\ operations' = [operations EXCEPT ![t] = @ + 1]
  /\ last' = [last EXCEPT ![t] = clock]
  /\ UNCHANGED <<clock, order, entry, pc, key, asked, read, result, uses>>

OneCReads(t) ==
  /\ pc[t] = "sent"
  /\ pc' = [pc EXCEPT ![t] = "answered"]
  /\ read' = [read EXCEPT ![t] = clock]
  /\ UNCHANGED <<clock, order, entry, key, asked, operations, last, result, uses>>

\* The connection, the JSON or 1C itself reports an error, or an operation took
\* too long: nothing is stored.
RequestFails(t) ==
  /\ InFlight(t)
  /\ Finish(t, Nothing)
  /\ UNCHANGED <<order, entry, uses>>

Storing == TTL > 0 /\ MaxEntries > 0

Store(t) ==
  /\ pc[t] = "answered"
  /\ IF Storing
     THEN /\ order' = Newest(MoveToEnd(order, key[t]), MaxEntries)
          /\ entry' = [k \in Key |->
                         IF k = key[t] THEN [created |-> clock, read |-> read[t]]
                         ELSE IF k \in Keys(order') THEN entry[k] ELSE Absent]
          /\ uses' = MoveToEnd(uses, key[t])
     ELSE UNCHANGED <<entry, order, uses>>
  /\ Finish(t, read[t])

Step(t) == Hit(t) \/ Miss(t) \/ Continue(t) \/ OneCReads(t) \/ RequestFails(t) \/ Store(t)

Next == Tick \/ \E t \in Thread : Step(t) \/ \E k \in Key : Ask(t, k)

Spec == Init /\ [][Next]_vars

-----------------------------------------------------------------------------
Entry == [created : Instants, read : Instants]

\* However many threads store, the cache holds at most MaxEntries keys, each
\* once: the loop of _cache_put leaves no overflow behind.
TypeOK ==
  /\ clock \in Instants
  /\ order \in Seq(Key) /\ uses \in Seq(Key)
  /\ Len(order) <= MaxEntries
  /\ \A i, j \in DOMAIN order : order[i] = order[j] => i = j
  /\ entry \in [Key -> Entry]
  /\ pc \in [Thread -> {"idle", "asked", "sent", "answered"}]
  /\ key \in [Thread -> Key]
  /\ asked \in [Thread -> Instants] /\ read \in [Thread -> Instants]
  /\ operations \in [Thread -> 0..(Operations - 1)] /\ last \in [Thread -> Instants]
  /\ result \in [Thread -> Instants \cup {Nothing}]

\* The longest time a request takes.
Longest == Operations * Timeout

\* What is cached was read by 1C no earlier than Longest before it was stored,
\* and was stored in the past.
EntriesTimely ==
  \A k \in Key : /\ entry[k].read <= entry[k].created
                 /\ entry[k].created <= clock
                 /\ entry[k].created - entry[k].read <= Longest

\* Place of k in the recency of use.
Recency(k) == CHOOSE i \in DOMAIN uses : uses[i] = k

\* k is expired for a thread that asked for it, or the cache is full and no key
\* that stays was used earlier.
Dropped(k) ==
  \/ \E t \in Thread : pc[t] = "asked" /\ key[t] = k /\ clock - entry[k].created > TTL
  \/ /\ Len(order) = MaxEntries /\ Len(order') = MaxEntries
     /\ \A j \in Keys(order') \cap Keys(order) : Recency(k) < Recency(j)

\* A key leaves the cache only if it is expired, or as the least recently used
\* key of a full cache: a hit never costs another key its place.
LeavesForAReason == [][\A k \in Keys(order) \ Keys(order') : Dropped(k)]_vars

Promise == INSTANCE BoundedStaleness
  WITH Staleness <- TTL + Longest, busy <- {t \in Thread : pc[t] # "idle"}

\* The cache keeps its promise: a caller never gets content that 1C read before
\* the call by more than TTL and the longest time of a request, although entries
\* are stamped when they are stored and slow answers may overwrite newer ones
\* (_cache_get, _cache_put, the timeout of urlopen).
BoundedlyStale == Promise!Spec
=============================================================================
