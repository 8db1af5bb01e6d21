----------------------------- MODULE OneCProofs -----------------------------
(* The two sides of reading from 1C.  The cache of point lookups keeps its   *)
(* promise and the order in which keys leave it, whatever the number of      *)
(* threads and keys, the time to live, the size of the cache, the timeout    *)
(* and the number of operations a request takes.  The fetch of a snapshot    *)
(* loses nothing it asked for and takes nothing foreign, whatever the        *)
(* documents of the ERP, the content of 1C, the edits made meanwhile and the *)
(* number of workers.                                                        *)
EXTENDS LookupCache, SnapshotFetch, SequenceTheorems, Sums

USE DEF Instants

-----------------------------------------------------------------------------
(* Time.  An answer is handed out long after it was read: it waits for the   *)
(* lock, then in the cache.  The invariant bounds each wait, for the threads *)
(* inside a call and for the entries.                                        *)

TimeTypeOK ==
  /\ clock \in Instants
  /\ entry \in [Key -> Entry]
  /\ pc \in [Thread -> {"idle", "asked", "sent", "answered"}]
  /\ key \in [Thread -> Key]
  /\ asked \in [Thread -> Instants] /\ read \in [Thread -> Instants]
  /\ operations \in [Thread -> 0..(Operations - 1)] /\ last \in [Thread -> Instants]
  /\ result \in [Thread -> Instants \cup {Nothing}]

CallTimely(t) ==
  /\ pc[t] = "idle" => asked[t] = 0
  /\ asked[t] <= clock
  /\ InFlight(t) => asked[t] <= last[t] /\ last[t] <= clock /\ clock - last[t] <= Timeout
  /\ pc[t] = "answered" => /\ asked[t] <= read[t] /\ read[t] <= clock
                           /\ last[t] - read[t] <= operations[t] * Timeout

Timely ==
  /\ TimeTypeOK
  /\ EntriesTimely
  /\ \A t \in Thread : CallTimely(t)

\* A request is over before the time of Operations operations has passed.
LEMMA OneMore ==
  ASSUME NEW n \in 0..(Operations - 1)
  PROVE  /\ n * Timeout \in Nat /\ Longest \in Nat
         /\ (n + 1) * Timeout = n * Timeout + Timeout
         /\ n * Timeout + Timeout <= Longest
<1>1. /\ Operations \in Nat /\ Timeout \in Nat /\ n \in Nat
      /\ Operations - (n + 1) \in Nat /\ Operations = (n + 1) + (Operations - (n + 1))
  BY ConfigAssumption
<1>2. \A a, b, c \in Nat : a * c \in Nat /\ (a + b) * c = a * c + b * c /\ 1 * c = c
  OBVIOUS
<1>3. /\ (n + 1) * Timeout = n * Timeout + 1 * Timeout /\ 1 * Timeout = Timeout
      /\ n * Timeout \in Nat /\ Operations * Timeout \in Nat
  BY <1>1, <1>2
<1>4. /\ ((n + 1) + (Operations - (n + 1))) * Timeout
           = (n + 1) * Timeout + (Operations - (n + 1)) * Timeout
      /\ (Operations - (n + 1)) * Timeout \in Nat
  <2>1. n + 1 \in Nat
    BY <1>1
  <2> QED  BY <1>1, <1>2, <2>1
<1>5. Operations * Timeout = (n + 1) * Timeout + (Operations - (n + 1)) * Timeout
  BY <1>1, <1>4
<1> DEFINE x == n * Timeout
           y == (n + 1) * Timeout
           z == (Operations - (n + 1)) * Timeout
           w == Operations * Timeout
<1>6. x \in Nat /\ w \in Nat /\ z \in Nat /\ y = x + Timeout /\ w = y + z /\ Timeout \in Nat
  BY <1>1, <1>3, <1>4, <1>5
<1> HIDE DEF x, y, z, w
<1>7. x + Timeout <= w
  BY <1>6
<1> QED  BY <1>6, <1>7 DEF x, y, w, Longest

LEMMA TimelyInit == Init => Timely
<1> SUFFICES ASSUME Init PROVE Timely
  OBVIOUS
<1>1. TimeTypeOK
  BY ConfigAssumption DEF Init, TimeTypeOK, Entry, Absent, Nothing
<1>2. EntriesTimely
  <2> SUFFICES ASSUME NEW k \in Key
               PROVE  entry[k].read <= entry[k].created /\ entry[k].created <= clock
                      /\ entry[k].created - entry[k].read <= Longest
    BY DEF EntriesTimely
  <2>1. entry[k].read = 0 /\ entry[k].created = 0 /\ clock = 0
    BY DEF Init, Absent
  <2>2. Longest \in Nat
    BY ConfigAssumption, OneMore
  <2> QED  BY <2>1, <2>2, ConfigAssumption
<1>3. ASSUME NEW t \in Thread PROVE CallTimely(t)
  <2>1. pc[t] = "idle" /\ asked[t] = 0 /\ clock = 0
    BY DEF Init
  <2>2. asked[t] <= clock
    BY <2>1
  <2> QED  BY <2>1, <2>2 DEF CallTimely, InFlight
<1> QED  BY <1>1, <1>2, <1>3 DEF Timely

\* The outcome of a call that ends.
LEMMA FinishTypeOK ==
  ASSUME Timely, NEW t \in Thread, NEW outcome \in Instants \cup {Nothing},
         Finish(t, outcome)
  PROVE  /\ pc' \in [Thread -> {"idle", "asked", "sent", "answered"}]
         /\ key' \in [Thread -> Key]
         /\ asked' \in [Thread -> Instants] /\ read' \in [Thread -> Instants]
         /\ operations' \in [Thread -> 0..(Operations - 1)] /\ last' \in [Thread -> Instants]
         /\ result' \in [Thread -> Instants \cup {Nothing}]
         /\ clock' = clock
         /\ \A u \in Thread : CallTimely(u)'
BY ConfigAssumption DEF Timely, TimeTypeOK, Finish, CallTimely, InFlight

\* Entries that stay, go or are new and timely are timely.
LEMMA EntriesFrame ==
  ASSUME Timely, clock' = clock, NEW e \in Entry,
         e.read <= e.created, e.created <= clock, e.created - e.read <= Longest,
         \A k \in Key : entry'[k] = entry[k] \/ entry'[k] = Absent \/ entry'[k] = e
  PROVE  EntriesTimely'
<1> SUFFICES ASSUME NEW k \in Key
             PROVE  /\ entry'[k].read <= entry'[k].created
                    /\ entry'[k].created <= clock
                    /\ entry'[k].created - entry'[k].read <= Longest
  BY DEF EntriesTimely
<1>1. CASE entry'[k] = entry[k]
  <2>1. /\ entry[k].read <= entry[k].created
        /\ entry[k].created <= clock
        /\ entry[k].created - entry[k].read <= Longest
    BY DEF Timely, EntriesTimely
  <2> QED  BY <1>1, <2>1
<1>2. CASE entry'[k] = Absent
  <2>1. entry'[k].read = 0 /\ entry'[k].created = 0
    BY <1>2 DEF Absent
  <2>2. Longest \in Nat
    BY ConfigAssumption, OneMore
  <2> QED  BY <2>1, <2>2, ConfigAssumption DEF Timely, TimeTypeOK
<1>3. CASE entry'[k] = e
  BY <1>3
<1> QED  BY <1>1, <1>2, <1>3

\* What an answer shows when the request is over.
LEMMA AnswerTimely ==
  ASSUME Timely, NEW t \in Thread, pc[t] = "answered"
  PROVE  /\ read[t] \in Instants /\ asked[t] <= read[t] /\ read[t] <= clock
         /\ clock - read[t] <= Longest
<1>1. /\ clock \in Int /\ last[t] \in Int /\ read[t] \in Instants /\ asked[t] \in Int
      /\ operations[t] \in 0..(Operations - 1)
  BY ConfigAssumption DEF Timely, TimeTypeOK
<1>2. /\ clock - last[t] <= Timeout /\ asked[t] <= read[t] /\ read[t] <= clock
      /\ last[t] - read[t] <= operations[t] * Timeout
  BY DEF Timely, CallTimely, InFlight
<1> DEFINE x == operations[t] * Timeout
<1>3. x \in Nat /\ Longest \in Nat /\ x + Timeout <= Longest
  BY <1>1, OneMore
<1>4. last[t] - read[t] <= x
  BY <1>2
<1> HIDE DEF x
<1> QED  BY <1>1, <1>2, <1>3, <1>4, ConfigAssumption

LEMMA TimelyStep == Timely /\ [Next]_vars => Timely'
<1> SUFFICES ASSUME Timely, [Next]_vars PROVE Timely'
  OBVIOUS
<1> USE ConfigAssumption
<1>1. CASE UNCHANGED vars
  BY <1>1 DEF vars, Timely, TimeTypeOK, EntriesTimely, CallTimely, InFlight
<1>2. CASE Tick
  <2>1. TimeTypeOK' /\ EntriesTimely'
    BY <1>2 DEF Tick, Timely, TimeTypeOK, EntriesTimely, Entry
  <2>2. \A t \in Thread : CallTimely(t)'
    BY <1>2 DEF Tick, Timely, TimeTypeOK, CallTimely, InFlight
  <2> QED  BY <2>1, <2>2 DEF Timely
<1>3. ASSUME NEW t \in Thread, NEW k \in Key, Ask(t, k)
      PROVE  Timely'
  <2>1. TimeTypeOK' /\ EntriesTimely'
    BY <1>3 DEF Ask, Timely, TimeTypeOK, EntriesTimely
  <2>2. \A u \in Thread : CallTimely(u)'
    BY <1>3 DEF Ask, Timely, TimeTypeOK, CallTimely, InFlight
  <2> QED  BY <2>1, <2>2 DEF Timely
<1>4. ASSUME NEW t \in Thread, Hit(t)
      PROVE  Timely'
  <2>1. entry[key[t]].read \in Instants \cup {Nothing}
    BY DEF Timely, TimeTypeOK, Entry
  <2>2. Finish(t, entry[key[t]].read) /\ entry' = entry
    BY <1>4 DEF Hit
  <2> QED  BY <2>1, <2>2, FinishTypeOK DEF Timely, TimeTypeOK, EntriesTimely
<1>5. ASSUME NEW t \in Thread, Miss(t)
      PROVE  Timely'
  <2>1. entry' = entry \/ entry' = [entry EXCEPT ![key[t]] = Absent]
    BY <1>5 DEF Miss
  <2>2. entry' \in [Key -> Entry] /\ clock' = clock
    BY <1>5, <2>1 DEF Miss, Timely, TimeTypeOK, Entry, Absent
  <2>3. EntriesTimely'
    <3>1. \A k \in Key : entry'[k] = entry[k] \/ entry'[k] = Absent
      BY <2>1 DEF Timely, TimeTypeOK
    <3>2. Absent \in Entry /\ Absent.read = 0 /\ Absent.created = 0
      BY ConfigAssumption DEF Absent, Entry
    <3>3. Absent.read <= Absent.created /\ Absent.created <= clock
          /\ Absent.created - Absent.read <= Longest
      <4>1. Longest \in Nat
        BY ConfigAssumption, OneMore
      <4> QED  BY <3>2, <4>1, ConfigAssumption DEF Timely, TimeTypeOK
    <3> QED  BY <2>2, <3>1, <3>2, <3>3, EntriesFrame
  <2>4. TimeTypeOK'
    BY <1>5, <2>2 DEF Miss, Timely, TimeTypeOK
  <2>5. \A u \in Thread : CallTimely(u)'
    BY <1>5 DEF Miss, Timely, TimeTypeOK, CallTimely, InFlight
  <2> QED  BY <2>4, <2>5, <2>3 DEF Timely
<1>6. ASSUME NEW t \in Thread, OneCReads(t)
      PROVE  Timely'
  <2>1. TimeTypeOK' /\ EntriesTimely'
    BY <1>6 DEF OneCReads, Timely, TimeTypeOK, EntriesTimely
  <2>2. ASSUME NEW u \in Thread PROVE CallTimely(u)'
    <3>1. CASE u = t
      <4>1. /\ pc[t] = "sent" /\ pc'[t] = "answered" /\ read'[t] = clock /\ clock' = clock
            /\ operations'[t] = operations[t] /\ last'[t] = last[t] /\ asked'[t] = asked[t]
        BY <1>6 DEF OneCReads, Timely, TimeTypeOK
      <4>2. /\ asked[t] <= last[t] /\ last[t] <= clock /\ clock - last[t] <= Timeout
            /\ asked[t] <= clock
        BY <4>1 DEF Timely, CallTimely, InFlight
      <4>3. operations[t] * Timeout \in Nat /\ last[t] \in Int /\ clock \in Int
        BY OneMore DEF Timely, TimeTypeOK
      <4> DEFINE x == operations[t] * Timeout
      <4>4. last[t] - clock <= x
        <5>1. x \in Nat
          BY <4>3
        <5> HIDE DEF x
        <5> QED  BY <4>2, <4>3, <5>1
      <4>5. /\ asked'[t] <= last'[t] /\ last'[t] <= clock' /\ clock' - last'[t] <= Timeout
            /\ asked'[t] <= clock' /\ asked'[t] <= read'[t] /\ read'[t] <= clock'
            /\ last'[t] - read'[t] <= operations'[t] * Timeout /\ pc'[t] # "idle"
        BY <4>1, <4>2, <4>3, <4>4
      <4> QED  BY <3>1, <4>5 DEF CallTimely, InFlight
    <3>2. CASE u # t
      <4>1. /\ pc'[u] = pc[u] /\ read'[u] = read[u] /\ clock' = clock
            /\ operations'[u] = operations[u] /\ last'[u] = last[u] /\ asked'[u] = asked[u]
        BY <1>6, <3>2 DEF OneCReads, Timely, TimeTypeOK
      <4> QED  BY <4>1 DEF Timely, CallTimely, InFlight
    <3> QED  BY <3>1, <3>2
  <2> QED  BY <2>1, <2>2 DEF Timely
<1>7. ASSUME NEW t \in Thread, RequestFails(t)
      PROVE  Timely'
  <2>1. Finish(t, Nothing) /\ entry' = entry
    BY <1>7 DEF RequestFails
  <2> QED  BY <2>1, FinishTypeOK DEF Timely, TimeTypeOK, EntriesTimely
<1>8. ASSUME NEW t \in Thread, Store(t)
      PROVE  Timely'
  <2>1. read[t] \in Instants /\ Finish(t, read[t])
    BY <1>8 DEF Store, Timely, TimeTypeOK
  <2>2. CASE Storing
    <3>1. /\ read[t] <= clock /\ clock - read[t] <= Longest
          /\ [created |-> clock, read |-> read[t]] \in Entry
      <4>1. pc[t] = "answered"
        BY <1>8 DEF Store
      <4> QED  BY <4>1, AnswerTimely DEF Timely, TimeTypeOK, Entry
    <3>2. entry' = [k \in Key |->
                     IF k = key[t] THEN [created |-> clock, read |-> read[t]]
                     ELSE IF k \in Keys(order') THEN entry[k] ELSE Absent]
      BY <1>8, <2>2 DEF Store
    <3>3. \A k \in Key : entry'[k] \in {[created |-> clock, read |-> read[t]], entry[k], Absent}
      BY <3>2
    <3>4. entry' \in [Key -> Entry]
      BY <3>1, <3>2 DEF Timely, TimeTypeOK, Entry, Absent
    <3>5. EntriesTimely'
      <4>1. clock' = clock
        BY <2>1 DEF Finish
      <4> DEFINE e == [created |-> clock, read |-> read[t]]
      <4>2. /\ e \in Entry /\ e.created = clock /\ e.read = read[t]
            /\ \A k \in Key : entry'[k] = entry[k] \/ entry'[k] = Absent \/ entry'[k] = e
        BY <3>1, <3>3
      <4>3. e.read <= e.created /\ e.created <= clock /\ e.created - e.read <= Longest
        BY <3>1, <4>2 DEF Timely, TimeTypeOK
      <4> HIDE DEF e
      <4> QED  BY <4>1, <4>2, <4>3, EntriesFrame
    <3> QED  BY <2>1, <3>4, <3>5, FinishTypeOK DEF Timely, TimeTypeOK
  <2>3. CASE ~Storing
    <3>1. entry' = entry
      BY <1>8, <2>3 DEF Store
    <3> QED  BY <2>1, <3>1, FinishTypeOK DEF Timely, TimeTypeOK, EntriesTimely
  <2> QED  BY <2>2, <2>3
<1>9. ASSUME NEW t \in Thread, Continue(t)
      PROVE  Timely'
  <2>1. /\ InFlight(t) /\ operations[t] \in 0..(Operations - 1) /\ operations[t] + 1 < Operations
        /\ clock' = clock /\ clock \in Instants /\ entry' = entry /\ pc' = pc /\ asked' = asked
        /\ read' = read /\ key' = key /\ result' = result
    BY <1>9 DEF Continue, Timely, TimeTypeOK
  <2>2. /\ operations' = [operations EXCEPT ![t] = operations[t] + 1]
        /\ last' = [last EXCEPT ![t] = clock]
    BY <1>9 DEF Continue
  <2>3. operations[t] + 1 \in 0..(Operations - 1)
    BY <2>1
  <2>4. TimeTypeOK' /\ EntriesTimely'
    BY <2>1, <2>2, <2>3 DEF Timely, TimeTypeOK, EntriesTimely
  <2>5. ASSUME NEW u \in Thread PROVE CallTimely(u)'
    <3>1. CASE u = t
      <4>1. operations'[t] = operations[t] + 1 /\ last'[t] = clock
        BY <2>2 DEF Timely, TimeTypeOK
      <4>2. asked[t] <= clock /\ pc[t] # "idle"
        BY <2>1 DEF Timely, CallTimely, InFlight
      <4>3. CASE pc[t] = "answered"
        <5>1. asked[t] <= read[t] /\ read[t] <= clock
          BY <4>3 DEF Timely, CallTimely
        <5>2. /\ last[t] - read[t] <= operations[t] * Timeout
              /\ clock - last[t] <= Timeout
          BY <2>1, <4>3 DEF Timely, CallTimely
        <5>3. /\ operations[t] * Timeout \in Nat
              /\ (operations[t] + 1) * Timeout = operations[t] * Timeout + Timeout
          BY <2>1, OneMore
        <5>4. clock \in Int /\ last[t] \in Int /\ read[t] \in Int
          BY DEF Timely, TimeTypeOK
        <5> DEFINE x == operations[t] * Timeout
        <5>5. clock - read[t] <= x + Timeout
          <6>1. x \in Nat /\ last[t] - read[t] <= x
            BY <5>2, <5>3
          <6> HIDE DEF x
          <6> QED  BY <5>2, <5>4, <6>1
        <5>6. clock - read[t] <= (operations[t] + 1) * Timeout
          BY <5>3, <5>5
        <5>7. asked[t] <= clock /\ clock - clock <= Timeout /\ clock <= clock
          BY <4>2, <5>4
        <5> QED  BY <2>1, <3>1, <4>1, <4>3, <5>1, <5>6, <5>7 DEF CallTimely, InFlight
      <4>4. CASE pc[t] # "answered"
        <5>1. clock \in Int
          BY <2>1
        <5>2. clock <= clock /\ clock - clock <= Timeout
          BY <5>1
        <5> QED  BY <2>1, <3>1, <4>1, <4>2, <4>4, <5>2 DEF CallTimely, InFlight
      <4> QED  BY <4>3, <4>4
    <3>2. CASE u # t
      <4>1. operations'[u] = operations[u] /\ last'[u] = last[u]
        BY <2>2, <3>2 DEF Timely, TimeTypeOK
      <4> QED  BY <2>1, <4>1 DEF Timely, CallTimely, InFlight
    <3> QED  BY <3>1, <3>2
  <2> QED  BY <2>4, <2>5 DEF Timely
<1> QED
  BY <1>1, <1>2, <1>3, <1>4, <1>5, <1>6, <1>7, <1>8, <1>9 DEF Next, Step

LEMMA AlwaysTimely == Spec => []Timely
BY TimelyInit, TimelyStep, PTL DEF Spec

\* What is cached was read by 1C no earlier than the longest request before it
\* was stored, for any number of threads and operations (_cache_put).
THEOREM EntriesAlwaysTimely == Spec => []EntriesTimely
<1>1. Timely => EntriesTimely
  BY DEF Timely
<1> QED  BY <1>1, AlwaysTimely, PTL

-----------------------------------------------------------------------------
(* The refinement: a hit and a store are the abstract return, a failed       *)
(* request the abstract failure; the steps between are invisible.            *)

USE DEF Promise!Instants

LEMMA PromiseInit == Init => Promise!Init
BY DEF Init, Promise!Init, Nothing, Promise!Nothing

LEMMA BusyOnFinish ==
  ASSUME Timely, NEW t \in Thread, NEW outcome, Finish(t, outcome), pc[t] # "idle"
  PROVE  /\ t \in {u \in Thread : pc[u] # "idle"}
         /\ {u \in Thread : pc'[u] # "idle"} = {u \in Thread : pc[u] # "idle"} \ {t}
         /\ asked' = [asked EXCEPT ![t] = 0]
         /\ result' = [result EXCEPT ![t] = outcome]
         /\ clock' = clock
BY DEF Timely, TimeTypeOK, Finish

LEMMA PromiseStep == Timely /\ [Next]_vars => [Promise!Next]_(Promise!vars)
<1> SUFFICES ASSUME Timely, [Next]_vars
             PROVE  Promise!Next \/ UNCHANGED Promise!vars
  OBVIOUS
<1> USE ConfigAssumption
<1>1. CASE UNCHANGED vars
  BY <1>1 DEF vars, Promise!vars
<1>2. CASE Tick
  BY <1>2 DEF Tick, Promise!Next, Promise!Tick
<1>3. ASSUME NEW t \in Thread, NEW k \in Key, Ask(t, k)
      PROVE  Promise!Next
  <2>1. /\ t \notin {u \in Thread : pc[u] # "idle"}
        /\ {u \in Thread : pc'[u] # "idle"} = {u \in Thread : pc[u] # "idle"} \cup {t}
    BY <1>3 DEF Ask, Timely, TimeTypeOK
  <2>2. Promise!Call(t)
    BY <1>3, <2>1 DEF Ask, Promise!Call, Nothing, Promise!Nothing
  <2> QED  BY <2>2 DEF Promise!Next
<1>4. ASSUME NEW t \in Thread, Hit(t)
      PROVE  Promise!Next
  <2> DEFINE instant == entry[key[t]].read
  <2>1. Finish(t, instant) /\ pc[t] # "idle" /\ ~Expired(t)
    BY <1>4 DEF Hit
  <2>2. /\ instant \in 0..MaxClock
        /\ asked[t] - (TTL + Longest) <= instant /\ instant <= clock
    <3>1. /\ key[t] \in Key /\ entry[key[t]] \in Entry
          /\ asked[t] \in 0..MaxClock /\ clock \in 0..MaxClock
      BY DEF Timely, TimeTypeOK
    <3>2. /\ entry[key[t]].created \in 0..MaxClock /\ instant \in 0..MaxClock
      BY <3>1 DEF Entry
    <3>3. /\ instant <= entry[key[t]].created /\ entry[key[t]].created <= clock
          /\ entry[key[t]].created - instant <= Longest
      BY <3>1 DEF Timely, EntriesTimely
    <3>4. asked[t] - entry[key[t]].created <= TTL
      BY <2>1, <3>1, <3>2 DEF Expired
    <3>5. Longest \in Nat
      BY ConfigAssumption, OneMore
    <3> DEFINE created == entry[key[t]].created
               a == asked[t]
    <3>6. /\ created \in 0..MaxClock /\ a \in 0..MaxClock /\ clock \in 0..MaxClock
          /\ instant \in 0..MaxClock /\ a - created <= TTL /\ TTL \in Nat
          /\ instant <= created /\ created <= clock /\ created - instant <= Longest
      BY <3>1, <3>2, <3>3, <3>4, ConfigAssumption
    <3> HIDE DEF created, instant, a
    <3>7. a - (TTL + Longest) <= instant /\ instant <= clock
      BY <3>5, <3>6
    <3> QED  BY <3>6, <3>7 DEF a
  <2>3. Promise!Return(t)
    BY <2>1, <2>2, BusyOnFinish DEF Promise!Return
  <2> QED  BY <2>3 DEF Promise!Next
<1>5. ASSUME NEW t \in Thread, Miss(t)
      PROVE  UNCHANGED Promise!vars
  <2>1. {u \in Thread : pc'[u] # "idle"} = {u \in Thread : pc[u] # "idle"}
    BY <1>5 DEF Miss, Timely, TimeTypeOK
  <2> QED  BY <1>5, <2>1 DEF Miss, Promise!vars
<1>6. ASSUME NEW t \in Thread, OneCReads(t)
      PROVE  UNCHANGED Promise!vars
  <2>1. {u \in Thread : pc'[u] # "idle"} = {u \in Thread : pc[u] # "idle"}
    BY <1>6 DEF OneCReads, Timely, TimeTypeOK
  <2> QED  BY <1>6, <2>1 DEF OneCReads, Promise!vars
<1>7. ASSUME NEW t \in Thread, RequestFails(t)
      PROVE  Promise!Next
  <2>1. Finish(t, Nothing) /\ pc[t] # "idle"
    BY <1>7 DEF RequestFails, InFlight
  <2>2. Promise!Fail(t)
    BY <2>1, BusyOnFinish DEF Promise!Fail, Nothing, Promise!Nothing
  <2> QED  BY <2>2 DEF Promise!Next
<1>8. ASSUME NEW t \in Thread, Store(t)
      PROVE  Promise!Next
  <2>1. Finish(t, read[t]) /\ pc[t] = "answered" /\ pc[t] # "idle"
    BY <1>8 DEF Store
  <2>2. /\ read[t] \in 0..MaxClock
        /\ asked[t] - (TTL + Longest) <= read[t] /\ read[t] <= clock
    <3>1. /\ read[t] \in 0..MaxClock /\ asked[t] \in 0..MaxClock
          /\ asked[t] <= read[t] /\ read[t] <= clock
      BY <2>1, AnswerTimely DEF Timely, TimeTypeOK
    <3>2. Longest \in Nat
      BY ConfigAssumption, OneMore
    <3> QED  BY <3>1, <3>2
  <2>3. Promise!Return(t)
    BY <2>1, <2>2, BusyOnFinish DEF Promise!Return
  <2> QED  BY <2>3 DEF Promise!Next
<1>9. ASSUME NEW t \in Thread, Continue(t)
      PROVE  UNCHANGED Promise!vars
  BY <1>9 DEF Continue, Promise!vars
<1> QED
  BY <1>1, <1>2, <1>3, <1>4, <1>5, <1>6, <1>7, <1>8, <1>9 DEF Next, Step

\* The cache implements the lookup with bounded staleness.
THEOREM CacheKeepsPromise == Spec => BoundedlyStale
BY AlwaysTimely, PromiseInit, PromiseStep, PTL DEF Spec, BoundedlyStale, Promise!Spec

-----------------------------------------------------------------------------
(* The order of the cache.  Every touch of a key moves it to the end of the  *)
(* OrderedDict, so that the keys that are cached stand in the order of their *)
(* last use, whatever threads use and drop them in between.                  *)

Distinct(s) == \A i, j \in DOMAIN s : s[i] = s[j] => i = j

Before(s, a, b) == \E p, q \in DOMAIN s : p < q /\ s[p] = a /\ s[q] = b

LEMMA InitialPart ==
  ASSUME NEW s \in Seq(Key), NEW i \in 1..Len(s)
  PROVE  /\ SubSeq(s, 1, i - 1) \in Seq(Key) /\ Len(SubSeq(s, 1, i - 1)) = i - 1
         /\ \A p \in 1..(i - 1) : SubSeq(s, 1, i - 1)[p] = s[p]
<1>1. /\ 1 \in Int /\ i - 1 \in Int /\ i \in Nat /\ i >= 1
      /\ \A p \in 1..(i - 1) : s[p] \in Key
  OBVIOUS
<1>2. /\ SubSeq(s, 1, i - 1) \in Seq(Key)
      /\ Len(SubSeq(s, 1, i - 1)) = IF 1 <= i - 1 THEN (i - 1) - 1 + 1 ELSE 0
      /\ \A p \in 1..((i - 1) - 1 + 1) : SubSeq(s, 1, i - 1)[p] = s[1 + p - 1]
  BY <1>1, SubSeqProperties
<1>3. (i - 1) - 1 + 1 = i - 1 /\ \A p \in 1..(i - 1) : 1 + p - 1 = p
  BY <1>1
<1> QED  BY <1>1, <1>2, <1>3

LEMMA FinalPart ==
  ASSUME NEW s \in Seq(Key), NEW i \in 1..Len(s)
  PROVE  /\ SubSeq(s, i + 1, Len(s)) \in Seq(Key)
         /\ Len(SubSeq(s, i + 1, Len(s))) = Len(s) - i
         /\ \A p \in 1..(Len(s) - i) : SubSeq(s, i + 1, Len(s))[p] = s[p + i]
<1>1. /\ i + 1 \in Int /\ Len(s) \in Int /\ i \in Nat /\ i <= Len(s)
      /\ \A p \in (i + 1)..Len(s) : s[p] \in Key
  OBVIOUS
<1>2. /\ SubSeq(s, i + 1, Len(s)) \in Seq(Key)
      /\ Len(SubSeq(s, i + 1, Len(s))) =
           IF i + 1 <= Len(s) THEN Len(s) - (i + 1) + 1 ELSE 0
      /\ \A p \in 1..(Len(s) - (i + 1) + 1) :
           SubSeq(s, i + 1, Len(s))[p] = s[(i + 1) + p - 1]
  BY <1>1, SubSeqProperties
<1>3. /\ Len(s) - (i + 1) + 1 = Len(s) - i
      /\ \A p \in 1..(Len(s) - i) : (i + 1) + p - 1 = p + i
  BY <1>1
<1>4. ASSUME NEW p \in 1..(Len(s) - i)
      PROVE  SubSeq(s, i + 1, Len(s))[p] = s[p + i]
  <2>1. SubSeq(s, i + 1, Len(s))[p] = s[(i + 1) + p - 1]
    BY <1>2, <1>3
  <2> QED  BY <1>3, <2>1
<1>5. Len(SubSeq(s, i + 1, Len(s))) = Len(s) - i
  <2> DEFINE n == Len(s)
             l == Len(SubSeq(s, i + 1, n))
  <2>1. /\ i \in Nat /\ n \in Nat /\ i <= n
        /\ l = IF i + 1 <= n THEN n - (i + 1) + 1 ELSE 0
    BY <1>1, <1>2
  <2> HIDE DEF n, l
  <2>2. l = n - i
    BY <2>1
  <2> QED  BY <2>2 DEF n, l
<1> QED  BY <1>2, <1>4, <1>5

LEMMA WithoutProperties ==
  ASSUME NEW s \in Seq(Key), Distinct(s), NEW k \in Key
  PROVE  /\ Without(s, k) \in Seq(Key) /\ Distinct(Without(s, k))
         /\ Keys(Without(s, k)) = Keys(s) \ {k}
         /\ Len(Without(s, k)) = IF k \in Keys(s) THEN Len(s) - 1 ELSE Len(s)
         /\ \A a, b : Before(Without(s, k), a, b) <=> a # k /\ b # k /\ Before(s, a, b)
<1> DEFINE w == Without(s, k)
<1>1. CASE k \notin Keys(s)
  BY <1>1 DEF Without, Keys, Before
<1>2. CASE k \in Keys(s)
  <2> DEFINE i == CHOOSE j \in DOMAIN s : s[j] = k
  <2>1. i \in DOMAIN s /\ s[i] = k
    BY <1>2 DEF Keys
  <2>2. w = SubSeq(s, 1, i - 1) \o SubSeq(s, i + 1, Len(s))
    BY <1>2 DEF Without
  <2> HIDE DEF i
  <2>3. DOMAIN s = 1..Len(s) /\ Len(s) \in Nat /\ i \in 1..Len(s)
    BY <2>1
  <2>4. /\ SubSeq(s, 1, i - 1) \in Seq(Key) /\ Len(SubSeq(s, 1, i - 1)) = i - 1
        /\ \A p \in 1..(i - 1) : SubSeq(s, 1, i - 1)[p] = s[p]
    BY <2>3, InitialPart
  <2>5. /\ SubSeq(s, i + 1, Len(s)) \in Seq(Key)
        /\ Len(SubSeq(s, i + 1, Len(s))) = Len(s) - i
        /\ \A p \in 1..(Len(s) - i) : SubSeq(s, i + 1, Len(s))[p] = s[p + i]
    BY <2>3, FinalPart
  <2>6. /\ w \in Seq(Key) /\ Len(w) = Len(s) - 1 /\ DOMAIN w = 1..(Len(s) - 1)
        /\ \A p \in 1..(Len(s) - 1) :
             w[p] = IF p < i THEN SubSeq(s, 1, i - 1)[p]
                    ELSE SubSeq(s, i + 1, Len(s))[p - (i - 1)]
    <3> DEFINE u == SubSeq(s, 1, i - 1)
               v == SubSeq(s, i + 1, Len(s))
    <3>1. /\ u \in Seq(Key) /\ Len(u) = i - 1 /\ v \in Seq(Key) /\ Len(v) = Len(s) - i
          /\ w = u \o v
      BY <2>2, <2>4, <2>5
    <3> HIDE DEF u, v, w
    <3>2. /\ w \in Seq(Key) /\ Len(w) = Len(u) + Len(v)
          /\ \A p \in 1..(Len(u) + Len(v)) :
               w[p] = IF p <= Len(u) THEN u[p] ELSE v[p - Len(u)]
      BY <3>1, ConcatProperties
    <3>3. Len(u) + Len(v) = Len(s) - 1 /\ Len(w) = Len(s) - 1
      BY <2>3, <3>1, <3>2
    <3>4. DOMAIN w = 1..(Len(s) - 1)
      BY <3>2, <3>3
    <3>5. ASSUME NEW p \in 1..(Len(s) - 1)
          PROVE  w[p] = IF p < i THEN u[p] ELSE v[p - (i - 1)]
      <4>1. w[p] = IF p <= i - 1 THEN u[p] ELSE v[p - (i - 1)]
        BY <3>1, <3>2, <3>3
      <4>2. p <= i - 1 <=> p < i
        BY <2>3
      <4> QED  BY <4>1, <4>2
    <3> QED  BY <3>2, <3>3, <3>4, <3>5 DEF u, v
  <2> HIDE DEF w
  <2>7. ASSUME NEW p \in 1..(Len(s) - 1)
        PROVE  w[p] = IF p < i THEN s[p] ELSE s[p + 1]
    <3>1. CASE p < i
      BY <2>3, <2>4, <2>6, <3>1
    <3>2. CASE ~(p < i)
      <4>1. w[p] = SubSeq(s, i + 1, Len(s))[p - (i - 1)]
        BY <2>6, <3>2
      <4>2. p - (i - 1) \in 1..(Len(s) - i) /\ p - (i - 1) + i = p + 1
        BY <2>3, <3>2
      <4> QED  BY <2>5, <3>2, <4>1, <4>2
    <3> QED  BY <3>1, <3>2
  <2>8. \A p \in DOMAIN s : p # i => s[p] # k
    BY <2>1 DEF Distinct
  <2>9. Distinct(w)
    <3> SUFFICES ASSUME NEW p \in 1..(Len(s) - 1), NEW q \in 1..(Len(s) - 1), w[p] = w[q]
                 PROVE  p = q
      BY <2>6 DEF Distinct
    <3> DEFINE x == IF p < i THEN p ELSE p + 1
               y == IF q < i THEN q ELSE q + 1
    <3>1. x \in DOMAIN s /\ y \in DOMAIN s
      BY <2>3
    <3>2. s[x] = s[y]
      BY <2>7
    <3>3. x = y
      <4> HIDE DEF x, y
      <4> QED  BY <3>1, <3>2 DEF Distinct
    <3> QED  BY <2>3, <3>3
  <2>10. ASSUME NEW q \in DOMAIN s, q # i
         PROVE  LET p == IF q < i THEN q ELSE q - 1
                IN  p \in 1..(Len(s) - 1) /\ w[p] = s[q]
    BY <2>3, <2>7, <2>10
  <2>11. \A p \in 1..(Len(s) - 1) : \E q \in DOMAIN s : q # i /\ w[p] = s[q]
    BY <2>3, <2>7
  <2>12. Keys(w) = Keys(s) \ {k}
    <3>1. ASSUME NEW x \in Keys(w) PROVE x \in Keys(s) \ {k}
      <4>1. PICK p \in 1..(Len(s) - 1) : x = w[p]
        BY <2>6 DEF Keys
      <4>2. PICK q \in DOMAIN s : q # i /\ w[p] = s[q]
        BY <2>11
      <4> QED  BY <2>8, <4>1, <4>2 DEF Keys
    <3>2. ASSUME NEW x \in Keys(s) \ {k} PROVE x \in Keys(w)
      <4>1. PICK q \in DOMAIN s : x = s[q] /\ q # i
        BY <2>1 DEF Keys
      <4>2. \E p \in 1..(Len(s) - 1) : w[p] = s[q]
        BY <2>10, <4>1
      <4> QED  BY <2>6, <4>1, <4>2 DEF Keys
    <3> QED  BY <3>1, <3>2
  <2>13. ASSUME NEW a, NEW b, Before(w, a, b)
         PROVE  a # k /\ b # k /\ Before(s, a, b)
    <3>1. PICK p \in DOMAIN w, q \in DOMAIN w : p < q /\ w[p] = a /\ w[q] = b
      BY <2>13 DEF Before
    <3> DEFINE x == IF p < i THEN p ELSE p + 1
               y == IF q < i THEN q ELSE q + 1
    <3>2. x \in DOMAIN s /\ y \in DOMAIN s /\ x < y /\ x # i /\ y # i
      BY <2>3, <2>6, <3>1
    <3>3. s[x] = a /\ s[y] = b
      BY <2>6, <2>7, <3>1
    <3> HIDE DEF x, y
    <3> QED  BY <2>8, <3>2, <3>3 DEF Before
  <2>14. ASSUME NEW a, NEW b, a # k, b # k, Before(s, a, b)
         PROVE  Before(w, a, b)
    <3>1. PICK p \in DOMAIN s, q \in DOMAIN s : p < q /\ s[p] = a /\ s[q] = b
      BY <2>14 DEF Before
    <3>2. p # i /\ q # i
      BY <2>1, <2>14, <3>1
    <3> DEFINE x == IF p < i THEN p ELSE p - 1
               y == IF q < i THEN q ELSE q - 1
    <3>3. x \in DOMAIN w /\ y \in DOMAIN w /\ x < y
      BY <2>3, <2>6, <3>1, <3>2
    <3>4. w[x] = a /\ w[y] = b
      BY <2>10, <3>1, <3>2
    <3> HIDE DEF x, y
    <3> QED  BY <3>3, <3>4 DEF Before
  <2> QED  BY <1>2, <2>6, <2>9, <2>12, <2>13, <2>14 DEF w
<1> QED  BY <1>1, <1>2

LEMMA MoveToEndProperties ==
  ASSUME NEW s \in Seq(Key), Distinct(s), NEW k \in Key
  PROVE  /\ MoveToEnd(s, k) \in Seq(Key) /\ Distinct(MoveToEnd(s, k))
         /\ Keys(MoveToEnd(s, k)) = Keys(s) \cup {k}
         /\ Len(MoveToEnd(s, k)) = IF k \in Keys(s) THEN Len(s) ELSE Len(s) + 1
         /\ MoveToEnd(s, k)[Len(MoveToEnd(s, k))] = k
         /\ \A a, b : Before(MoveToEnd(s, k), a, b) <=>
              a # k /\ ((b = k /\ a \in Keys(s)) \/ (b # k /\ Before(s, a, b)))
<1> DEFINE w == Without(s, k)
           m == MoveToEnd(s, k)
<1>1. /\ w \in Seq(Key) /\ Distinct(w) /\ Keys(w) = Keys(s) \ {k}
      /\ Len(w) = IF k \in Keys(s) THEN Len(s) - 1 ELSE Len(s)
      /\ \A a, b : Before(w, a, b) <=> a # k /\ b # k /\ Before(s, a, b)
  BY WithoutProperties
<1>2. m = Append(w, k)
  BY DEF MoveToEnd
<1> HIDE DEF w, m
<1>3. /\ Len(w) \in Nat /\ Len(s) \in Nat /\ DOMAIN w = 1..Len(w)
      /\ m \in Seq(Key) /\ Len(m) = Len(w) + 1 /\ DOMAIN m = 1..(Len(w) + 1)
      /\ m[Len(w) + 1] = k /\ \A p \in 1..Len(w) : m[p] = w[p]
  BY <1>1, <1>2
<1>4. \A p \in 1..Len(w) : w[p] # k /\ w[p] \in Keys(s)
  BY <1>1, <1>3 DEF Keys
<1>5. Distinct(m)
  BY <1>1, <1>3, <1>4 DEF Distinct
<1>6. Keys(m) = Keys(s) \cup {k}
  <2>1. Keys(m) = Keys(w) \cup {k}
    BY <1>3 DEF Keys
  <2> QED  BY <1>1, <2>1
<1>7. Len(m) = IF k \in Keys(s) THEN Len(s) ELSE Len(s) + 1
  BY <1>1, <1>3
<1>8. ASSUME NEW a, NEW b
      PROVE  Before(m, a, b) <=> a # k /\ ((b = k /\ a \in Keys(s)) \/ (b # k /\ Before(s, a, b)))
  <2>1. ASSUME Before(m, a, b)
        PROVE  a # k /\ ((b = k /\ a \in Keys(s)) \/ (b # k /\ Before(s, a, b)))
    <3>1. PICK p \in DOMAIN m, q \in DOMAIN m : p < q /\ m[p] = a /\ m[q] = b
      BY <2>1 DEF Before
    <3>2. p \in DOMAIN w /\ a = w[p]
      BY <1>3, <3>1
    <3>3. CASE q = Len(w) + 1
      BY <1>3, <1>4, <3>1, <3>2, <3>3
    <3>4. CASE q # Len(w) + 1
      <4>1. q \in DOMAIN w /\ b = w[q]
        BY <1>3, <3>1, <3>4
      <4>2. Before(w, a, b)
        BY <3>1, <3>2, <4>1 DEF Before
      <4> QED  BY <1>1, <4>2
    <3> QED  BY <3>3, <3>4
  <2>2. ASSUME a # k, b = k, a \in Keys(s)
        PROVE  Before(m, a, b)
    <3>1. PICK p \in DOMAIN w : w[p] = a
      BY <1>1, <2>2 DEF Keys
    <3>2. /\ p \in DOMAIN m /\ Len(w) + 1 \in DOMAIN m /\ p < Len(w) + 1
          /\ m[p] = a /\ m[Len(w) + 1] = b
      BY <1>3, <2>2, <3>1
    <3> QED  BY <3>2 DEF Before
  <2>3. ASSUME a # k, b # k, Before(s, a, b)
        PROVE  Before(m, a, b)
    <3>1. PICK p \in DOMAIN w, q \in DOMAIN w : p < q /\ w[p] = a /\ w[q] = b
      BY <1>1, <2>3 DEF Before
    <3>2. p \in DOMAIN m /\ q \in DOMAIN m /\ m[p] = a /\ m[q] = b
      BY <1>3, <3>1
    <3> QED  BY <3>1, <3>2 DEF Before
  <2> QED  BY <2>1, <2>2, <2>3
<1>9. m[Len(m)] = k
  BY <1>3
<1> QED  BY <1>3, <1>5, <1>6, <1>7, <1>8, <1>9 DEF m

LEMMA NewestProperties ==
  ASSUME NEW s \in Seq(Key), Distinct(s), NEW n \in Nat
  PROVE  /\ Newest(s, n) \in Seq(Key) /\ Distinct(Newest(s, n))
         /\ Keys(Newest(s, n)) \subseteq Keys(s)
         /\ Len(Newest(s, n)) = IF Len(s) > n THEN n ELSE Len(s)
         /\ \A a, b : Before(Newest(s, n), a, b) => Before(s, a, b)
         /\ \A a \in Keys(s) \ Keys(Newest(s, n)), b \in Keys(Newest(s, n)) :
              Before(s, a, b)
<1> DEFINE r == Newest(s, n)
<1>1. CASE ~(Len(s) > n)
  BY <1>1 DEF Newest
<1>2. CASE Len(s) > n
  <2> DEFINE d == Len(s) - n
  <2>1. d \in Nat /\ Len(s) \in Nat /\ d >= 1 /\ d + n = Len(s) /\ DOMAIN s = 1..Len(s)
    BY <1>2
  <2>2. r = SubSeq(s, d + 1, Len(s))
    BY <1>2 DEF Newest
  <2> HIDE DEF d
  <2>3. /\ r \in Seq(Key) /\ Len(r) = n /\ DOMAIN r = 1..n
        /\ \A p \in 1..n : r[p] = s[p + d]
    BY <2>1, <2>2
  <2> HIDE DEF r
  <2>4. \A p \in 1..n : p + d \in DOMAIN s
    BY <2>1
  <2>5. Distinct(r)
    BY <2>1, <2>3, <2>4 DEF Distinct
  <2>6. Keys(r) \subseteq Keys(s)
    BY <2>3, <2>4 DEF Keys
  <2>7. ASSUME NEW a, NEW b, Before(r, a, b) PROVE Before(s, a, b)
    <3>1. PICK p \in 1..n, q \in 1..n : p < q /\ r[p] = a /\ r[q] = b
      BY <2>3, <2>7 DEF Before
    <3>2. p + d < q + d
      BY <2>1, <3>1
    <3> QED  BY <2>3, <2>4, <3>1, <3>2 DEF Before
  <2>8. ASSUME NEW a \in Keys(s) \ Keys(r), NEW b \in Keys(r) PROVE Before(s, a, b)
    <3>1. PICK x \in DOMAIN s : s[x] = a
      BY DEF Keys
    <3>2. PICK q \in 1..n : r[q] = b
      BY <2>3 DEF Keys
    <3>3. x <= d
      <4> SUFFICES ASSUME x > d PROVE FALSE
        BY <2>1
      <4>1. x - d \in 1..n /\ (x - d) + d = x
        BY <2>1
      <4>2. r[x - d] = a
        BY <2>3, <3>1, <4>1
      <4> QED  BY <2>3, <4>1, <4>2 DEF Keys
    <3>4. x < q + d
      BY <2>1, <3>3
    <3> QED  BY <2>3, <2>4, <3>1, <3>2, <3>4 DEF Before
  <2> QED  BY <1>2, <2>3, <2>5, <2>6, <2>7, <2>8 DEF r
<1> QED  BY <1>1, <1>2

\* The cached keys stand in the order of their last use.
OrderOK ==
  /\ order \in Seq(Key) /\ uses \in Seq(Key)
  /\ Distinct(order) /\ Distinct(uses)
  /\ Len(order) <= MaxEntries
  /\ Keys(order) \subseteq Keys(uses)
  /\ \A a, b : Before(order, a, b) => Before(uses, a, b)

LEMMA OrderInit == Init => OrderOK
BY ConfigAssumption DEF Init, OrderOK, Distinct, Keys, Before

LEMMA OrderStep == Timely /\ OrderOK /\ [Next]_vars => OrderOK'
<1> SUFFICES ASSUME Timely, OrderOK, [Next]_vars PROVE OrderOK'
  OBVIOUS
<1>1. ASSUME UNCHANGED <<order, uses>> PROVE OrderOK'
  BY <1>1 DEF OrderOK
<1>2. \A t \in Thread : key[t] \in Key
  BY DEF Timely, TimeTypeOK
<1>3. ASSUME NEW t \in Thread, Hit(t)
      PROVE  OrderOK'
  <2> DEFINE k == key[t]
  <2>1. /\ order' = MoveToEnd(order, k) /\ uses' = MoveToEnd(uses, k)
        /\ k \in Key /\ k \in Keys(order)
    BY <1>2, <1>3 DEF Hit, Cached
  <2> HIDE DEF k
  <2>2. /\ order' \in Seq(Key) /\ Distinct(order') /\ Keys(order') = Keys(order) \cup {k}
        /\ Len(order') = Len(order)
        /\ \A a, b : Before(order', a, b) <=>
             a # k /\ ((b = k /\ a \in Keys(order)) \/ (b # k /\ Before(order, a, b)))
    BY <2>1, MoveToEndProperties DEF OrderOK
  <2>3. /\ uses' \in Seq(Key) /\ Distinct(uses') /\ Keys(uses') = Keys(uses) \cup {k}
        /\ \A a, b : Before(uses', a, b) <=>
             a # k /\ ((b = k /\ a \in Keys(uses)) \/ (b # k /\ Before(uses, a, b)))
    BY <2>1, MoveToEndProperties DEF OrderOK
  <2>4. \A a, b : Before(order', a, b) => Before(uses', a, b)
    BY <2>2, <2>3 DEF OrderOK
  <2>5. Len(order') <= MaxEntries /\ Keys(order') \subseteq Keys(uses')
    BY <2>2, <2>3 DEF OrderOK
  <2> QED  BY <2>2, <2>3, <2>4, <2>5 DEF OrderOK
<1>4. ASSUME NEW t \in Thread, Miss(t)
      PROVE  OrderOK'
  <2>1. CASE Cached(key[t])
    <3>1. order' = Without(order, key[t]) /\ uses' = uses /\ key[t] \in Key
      BY <1>2, <1>4, <2>1 DEF Miss
    <3>2. /\ order' \in Seq(Key) /\ Distinct(order')
          /\ Keys(order') = Keys(order) \ {key[t]}
          /\ Len(order') = Len(order) - 1
          /\ \A a, b : Before(order', a, b) => Before(order, a, b)
      BY <2>1, <3>1, WithoutProperties DEF OrderOK, Cached
    <3>3. Len(order') <= MaxEntries
      BY <3>2, ConfigAssumption DEF OrderOK
    <3> QED  BY <3>1, <3>2, <3>3 DEF OrderOK
  <2>2. CASE ~Cached(key[t])
    BY <1>1, <1>4, <2>2 DEF Miss
  <2> QED  BY <2>1, <2>2
<1>5. ASSUME NEW t \in Thread, Store(t)
      PROVE  OrderOK'
  <2>1. CASE Storing
    <3> DEFINE k == key[t]
               m == MoveToEnd(order, k)
    <3>1. order' = Newest(m, MaxEntries) /\ uses' = MoveToEnd(uses, k) /\ k \in Key
      BY <1>2, <1>5, <2>1 DEF Store
    <3> HIDE DEF k
    <3>2. /\ m \in Seq(Key) /\ Distinct(m) /\ Keys(m) = Keys(order) \cup {k}
          /\ \A a, b : Before(m, a, b) <=>
               a # k /\ ((b = k /\ a \in Keys(order)) \/ (b # k /\ Before(order, a, b)))
      BY <3>1, MoveToEndProperties DEF OrderOK
    <3>3. /\ uses' \in Seq(Key) /\ Distinct(uses') /\ Keys(uses') = Keys(uses) \cup {k}
          /\ \A a, b : Before(uses', a, b) <=>
               a # k /\ ((b = k /\ a \in Keys(uses)) \/ (b # k /\ Before(uses, a, b)))
      BY <3>1, MoveToEndProperties DEF OrderOK
    <3> HIDE DEF m
    <3>4. MaxEntries \in Nat
      BY ConfigAssumption
    <3>5. /\ order' \in Seq(Key) /\ Distinct(order') /\ Keys(order') \subseteq Keys(m)
          /\ Len(order') = IF Len(m) > MaxEntries THEN MaxEntries ELSE Len(m)
          /\ \A a, b : Before(order', a, b) => Before(m, a, b)
      BY <3>1, <3>2, <3>4, NewestProperties
    <3>6. Len(order') <= MaxEntries
      BY <3>2, <3>4, <3>5
    <3>7. Keys(order') \subseteq Keys(uses')
      BY <3>2, <3>3, <3>5 DEF OrderOK
    <3>8. \A a, b : Before(order', a, b) => Before(uses', a, b)
      BY <3>2, <3>3, <3>5 DEF OrderOK
    <3> QED  BY <3>3, <3>5, <3>6, <3>7, <3>8 DEF OrderOK
  <2>2. CASE ~Storing
    BY <1>1, <1>5, <2>2 DEF Store
  <2> QED  BY <2>1, <2>2
<1>6. CASE Tick \/ UNCHANGED vars
  BY <1>1, <1>6 DEF Tick, vars
<1>7. ASSUME NEW t \in Thread, NEW k \in Key, Ask(t, k)
      PROVE  OrderOK'
  BY <1>1, <1>7 DEF Ask
<1>8. ASSUME NEW t \in Thread, Continue(t) \/ OneCReads(t) \/ RequestFails(t)
      PROVE  OrderOK'
  BY <1>1, <1>8 DEF Continue, OneCReads, RequestFails
<1> QED  BY <1>3, <1>4, <1>5, <1>6, <1>7, <1>8 DEF Next, Step

LEMMA AlwaysOrderOK == Spec => [](Timely /\ OrderOK)
BY AlwaysTimely, OrderInit, OrderStep, PTL DEF Spec

\* Every variable of the cache keeps its type: it holds at most MaxEntries
\* keys, each of them once (the loop of _cache_put).
THEOREM TypeCorrect == Spec => []TypeOK
<1>1. Timely /\ OrderOK => TypeOK
  BY DEF Timely, TimeTypeOK, OrderOK, Distinct, TypeOK
<1> QED  BY <1>1, AlwaysOrderOK, PTL

\* A key used before another has the lower place in the recency of use.
LEMMA RecencyOfBefore ==
  ASSUME OrderOK, NEW a, NEW b, Before(uses, a, b)
  PROVE  Recency(a) < Recency(b)
<1>1. PICK p \in DOMAIN uses, q \in DOMAIN uses : p < q /\ uses[p] = a /\ uses[q] = b
  BY DEF Before
<1>2. \A i \in DOMAIN uses : (uses[i] = a => i = p) /\ (uses[i] = b => i = q)
  BY <1>1 DEF OrderOK, Distinct
<1>3. Recency(a) = p /\ Recency(b) = q
  BY <1>1, <1>2 DEF Recency
<1> QED  BY <1>1, <1>3

LEMMA LeavesStep ==
  ASSUME Timely, OrderOK, [Next]_vars, NEW k \in Keys(order) \ Keys(order')
  PROVE  Dropped(k)
<1>1. order' # order
  OBVIOUS
<1>2. \A t \in Thread : key[t] \in Key
  BY DEF Timely, TimeTypeOK
<1>3. ASSUME NEW t \in Thread, Hit(t)
      PROVE  FALSE
  <2>1. order' = MoveToEnd(order, key[t])
    BY <1>3 DEF Hit
  <2>2. Keys(order') = Keys(order) \cup {key[t]}
    BY <1>2, <2>1, MoveToEndProperties DEF OrderOK
  <2> QED  BY <2>2
<1>4. ASSUME NEW t \in Thread, Miss(t)
      PROVE  Dropped(k)
  <2>1. order' = Without(order, key[t]) /\ Expired(t) /\ pc[t] = "asked"
    BY <1>1, <1>4 DEF Miss
  <2>2. Keys(order') = Keys(order) \ {key[t]}
    BY <1>2, <2>1, WithoutProperties DEF OrderOK
  <2>3. k = key[t]
    BY <2>2
  <2>4. clock - entry[k].created > TTL
    <3>1. entry[k].created \in Nat /\ asked[t] \in Nat /\ clock \in Nat /\ TTL \in Nat
      BY <1>2, <2>3, ConfigAssumption DEF Timely, TimeTypeOK, Entry
    <3>2. asked[t] <= clock
      BY DEF Timely, CallTimely
    <3>3. asked[t] - entry[k].created > TTL
      BY <2>1, <2>3 DEF Expired
    <3> QED  BY <3>1, <3>2, <3>3
  <2> QED  BY <2>1, <2>3, <2>4 DEF Dropped
<1>5. ASSUME NEW t \in Thread, Store(t)
      PROVE  Dropped(k)
  <2> DEFINE n == key[t]
             m == MoveToEnd(order, n)
  <2>1. order' = Newest(m, MaxEntries) /\ n \in Key
    BY <1>1, <1>2, <1>5 DEF Store
  <2> HIDE DEF n
  <2>2. /\ m \in Seq(Key) /\ Distinct(m) /\ Keys(m) = Keys(order) \cup {n}
        /\ Len(m) = IF n \in Keys(order) THEN Len(order) ELSE Len(order) + 1
        /\ \A a, b : Before(m, a, b) <=>
             a # n /\ ((b = n /\ a \in Keys(order)) \/ (b # n /\ Before(order, a, b)))
    BY <2>1, MoveToEndProperties DEF OrderOK
  <2> HIDE DEF m
  <2>3. /\ MaxEntries \in Nat /\ Len(order) \in Nat /\ Len(m) \in Nat
        /\ Len(order) <= MaxEntries
    BY <2>2, ConfigAssumption DEF OrderOK
  <2>4. /\ Len(order') = IF Len(m) > MaxEntries THEN MaxEntries ELSE Len(m)
        /\ \A a \in Keys(m) \ Keys(order'), b \in Keys(order') : Before(m, a, b)
    BY <2>1, <2>2, <2>3, NewestProperties
  <2>5. Len(m) > MaxEntries
    <3> SUFFICES ASSUME ~(Len(m) > MaxEntries) PROVE FALSE
      OBVIOUS
    <3>1. order' = m
      BY <2>1 DEF Newest
    <3> QED  BY <2>2, <3>1
  <2>6. n \notin Keys(order) /\ Len(order) = MaxEntries /\ Len(order') = MaxEntries
    BY <2>2, <2>3, <2>4, <2>5
  <2>7. ASSUME NEW j \in Keys(order') \cap Keys(order) PROVE Recency(k) < Recency(j)
    <3>1. Before(m, k, j) /\ j # n
      BY <2>2, <2>4, <2>6
    <3>2. Before(uses, k, j)
      BY <2>2, <3>1 DEF OrderOK
    <3> QED  BY <3>2, RecencyOfBefore
  <2> QED  BY <2>6, <2>7 DEF Dropped
<1>6. CASE Tick \/ UNCHANGED vars
  BY <1>1, <1>6 DEF Tick, vars
<1>7. ASSUME NEW t \in Thread, NEW q \in Key, Ask(t, q)
      PROVE  FALSE
  BY <1>1, <1>7 DEF Ask
<1>8. ASSUME NEW t \in Thread, Continue(t) \/ OneCReads(t) \/ RequestFails(t)
      PROVE  FALSE
  BY <1>1, <1>8 DEF Continue, OneCReads, RequestFails
<1> QED  BY <1>3, <1>4, <1>5, <1>6, <1>7, <1>8 DEF Next, Step

\* A key leaves the cache only because it expired, or as the least recently
\* used key of a full one.
THEOREM KeysLeaveForAReason == Spec => LeavesForAReason
<1>1. Timely /\ OrderOK /\ [Next]_vars =>
        [\A k \in Keys(order) \ Keys(order') : Dropped(k)]_vars
  BY LeavesStep
<1> QED  BY <1>1, AlwaysOrderOK, PTL DEF Spec, LeavesForAReason

-----------------------------------------------------------------------------
(* The fetch of a snapshot                                                   *)

PoolStates == {"queued", "running", "answered", "failed", "collected"}

\* Every row that 1C may hold.
HeldRows == (UNION Contents) \cup EditedRows

ContentsOK == contents \in Seq(SUBSET HeldRows) /\ contents # << >>

\* Where the lookups are: each answer is what some content of 1C has for the
\* document, and merged are only answers that were collected.
PoolOK ==
  /\ lookups \subseteq DOMAIN known
  /\ DOMAIN state = lookups /\ DOMAIN answer = lookups
  /\ \A i \in lookups : state[i] \in PoolStates
  /\ \A i \in lookups : state[i] \in {"answered", "collected"} =>
       \E v \in DOMAIN contents : answer[i] = RowsWithCode(contents[v], known[i])
  /\ ToSet(completed) = InState("collected")
  /\ ToSet(merged) \subseteq ToSet(completed)
  /\ completed \in Seq(lookups) /\ merged \in Seq(lookups)

\* Nothing has been read.
Fresh == phase \in {"before", "base"}

\* How far the fetch is.
PhaseOK ==
  /\ phase \in {"before", "base", "lookups", "abandoned", "merging", "done", "failed"}
  /\ phase \notin {"merging", "done"} => merged = << >>
  /\ phase \in {"merging", "done"} => InState("collected") = lookups
  /\ phase = "done" => Remaining = {}

Unread ==
  /\ snapshot = [b \in Blocks |-> {}] /\ lines = {} /\ lookups = {}
  /\ Fresh \/ phase = "failed"

ShownOf(v) == {r \in contents[v] : r.of_delivery}
SelectedFor(i) == Selected(answer[i], known[i])

\* The snapshot is what the first answer shows, with what was selected for each
\* document merged so far; and the documents asked for are those that the first
\* answer calls for.
ReadOf(v) ==
  /\ lookups = {i \in DOMAIN known : Wanted(ShownOf(v), i)}
  /\ snapshot = [b \in Blocks |->
       {r \in ShownOf(v) : r.block = b} \cup
       UNION {SelectedFor(i) : i \in {j \in ToSet(merged) : known[j].block = b}}]
  /\ lines = LinesOfRows(Rows)

FetchInv ==
  /\ known \in KnownDocuments
  /\ ContentsOK /\ PoolOK /\ PhaseOK
  /\ Fresh => Unread
  /\ Unread \/ (~ Fresh /\ \E v \in DOMAIN contents : ReadOf(v))


LEMMA AppendedSet ==
  ASSUME NEW S, NEW s \in Seq(S), NEW e \in S
  PROVE  /\ Append(s, e) \in Seq(S)
         /\ ToSet(Append(s, e)) = ToSet(s) \cup {e}
<1>1. /\ Append(s, e) \in Seq(S) /\ Len(Append(s, e)) = Len(s) + 1
      /\ \A i \in 1..Len(s) : Append(s, e)[i] = s[i]
      /\ Append(s, e)[Len(s) + 1] = e
  BY AppendProperties
<1>2. /\ DOMAIN s = 1..Len(s) /\ Len(s) \in Nat
      /\ DOMAIN Append(s, e) = 1..(Len(s) + 1)
  BY <1>1, LenProperties
<1> QED  BY <1>1, <1>2 DEF ToSet

LEMMA HeldRowsOK ==
  ASSUME NEW r \in HeldRows
  PROVE  r.block \in Blocks /\ r.code # NoCode /\ r.date # NoDate
<1>1. CASE \E rows \in Contents : r \in rows
  BY <1>1, RowsAssumption
<1>2. CASE r \in EditedRows
  BY <1>2, RowsAssumption
<1> QED  BY <1>1, <1>2 DEF HeldRows

\* What is selected from an answer is of its document.
LEMMA SelectedIsOfDocument ==
  ASSUME NEW c, NEW d, NEW r \in Selected(RowsWithCode(c, d), d)
  PROVE  /\ r \in c /\ r.block = d.block /\ r.code = d.code
         /\ (r.date = d.date \/ r.amount = d.amount)
BY DEF Selected, RowsWithCode

LEMMA FetchStart == InitFetch => FetchInv
<1> SUFFICES ASSUME InitFetch PROVE FetchInv
  OBVIOUS
<1>1. PICK c \in Contents : contents = <<c>>
  BY DEF InitFetch
<1>2. ContentsOK
  <2>1. c \in SUBSET HeldRows
    BY DEF HeldRows
  <2> QED  BY <1>1, <2>1 DEF ContentsOK
<1>3. PoolOK
  BY EmptySeq DEF InitFetch, PoolOK, InState, ToSet
<1>4. PhaseOK
  BY DEF InitFetch, PhaseOK
<1> QED  BY <1>2, <1>3, <1>4 DEF InitFetch, FetchInv, Unread, Fresh

LEMMA ContentsStep ==
  ASSUME FetchInv, OneCChanges
  PROVE  FetchInv'
<1>1. PICK id \in {r.source_id : r \in Content \cup EditedRows}, new \in SUBSET EditedRows :
        contents' = Append(contents, {r \in Content : r.source_id # id} \cup new)
  <2>1. PICK id \in {r.source_id : r \in Content \cup EditedRows} :
          \E new \in {{}} \cup {{e} : e \in {e \in EditedRows : e.source_id = id}} :
            contents' = Append(contents, {r \in Content : r.source_id # id} \cup new)
    BY DEF OneCChanges
  <2>2. {{}} \cup {{e} : e \in {e \in EditedRows : e.source_id = id}} \subseteq SUBSET EditedRows
    OBVIOUS
  <2> QED  BY <2>1, <2>2
<1>2. UNCHANGED <<known, phase, snapshot, lines, lookups, state, answer, completed, merged>>
  BY DEF OneCChanges
<1>3. Content \in SUBSET HeldRows
  BY LenProperties, ElementOfSeq DEF FetchInv, ContentsOK, Content, Last
<1>4. {r \in Content : r.source_id # id} \cup new \in SUBSET HeldRows
  <2>1. \A e \in EditedRows : e \in HeldRows
    BY DEF HeldRows
  <2> QED  BY <1>3, <2>1
<1>5. /\ contents' \in Seq(SUBSET HeldRows) /\ contents' # << >>
      /\ \A v \in DOMAIN contents : v \in DOMAIN contents' /\ contents'[v] = contents[v]
  BY <1>1, <1>4, AppendProperties, LenProperties DEF FetchInv, ContentsOK
<1>6. PoolOK'
  BY <1>2, <1>5 DEF FetchInv, PoolOK, InState
<1>7. PhaseOK' /\ (Fresh => Unread)' /\ (Unread => Unread') /\ Fresh' = Fresh
  BY <1>2 DEF FetchInv, PhaseOK, Unread, Fresh, InState, Remaining
<1>8. ASSUME NEW v \in DOMAIN contents, ReadOf(v) PROVE v \in DOMAIN contents' /\ ReadOf(v)'
  <2>1. v \in DOMAIN contents' /\ ShownOf(v)' = ShownOf(v)
    BY <1>5 DEF ShownOf
  <2>2. /\ \A i : SelectedFor(i)' = SelectedFor(i)
        /\ \A i : Wanted(ShownOf(v), i)' = Wanted(ShownOf(v), i)
        /\ LinesOfRows(Rows)' = LinesOfRows(Rows)
    BY <1>2, <2>1 DEF SelectedFor, Wanted, Rows
  <2> QED  BY <1>2, <1>8, <2>1, <2>2 DEF ReadOf
<1> QED  BY <1>2, <1>5, <1>6, <1>7, <1>8 DEF FetchInv, ContentsOK

LEMMA FirstRead ==
  ASSUME FetchInv, ReadBase
  PROVE  FetchInv'
<1> DEFINE latest == Len(contents)
<1>1. latest \in DOMAIN contents /\ Content = contents[latest]
  BY LenProperties DEF FetchInv, ContentsOK, Content, Last
<1>2. /\ phase = "base" /\ phase' = "lookups"
      /\ UNCHANGED <<known, contents, completed, merged>>
      /\ snapshot' = [b \in Blocks |-> {r \in ShownOf(latest) : r.block = b}]
      /\ lines' = LinesOfRows(ShownOf(latest))
      /\ lookups' = {i \in DOMAIN known : Wanted(ShownOf(latest), i)}
      /\ state' = [i \in lookups' |-> "queued"]
      /\ answer' = [i \in lookups' |-> {}]
  BY <1>1 DEF ReadBase, ShownOf
<1>3. merged = << >> /\ ToSet(completed) = {} /\ completed = << >>
  <2>1. lookups = {} /\ merged = << >> /\ InState("collected") = {}
    BY <1>2 DEF FetchInv, Fresh, Unread, PhaseOK, InState
  <2>2. completed \in Seq({}) /\ ToSet(completed) = {}
    BY <2>1 DEF FetchInv, PoolOK
  <2>3. completed = << >>
    BY <2>2, EmptySeq, LenProperties, ElementOfSeq
  <2> QED  BY <2>1, <2>2, <2>3
<1>4. PoolOK'
  <2>1. /\ lookups' \subseteq DOMAIN known /\ DOMAIN state' = lookups' /\ DOMAIN answer' = lookups'
        /\ \A i \in lookups' : state'[i] = "queued"
    BY <1>2
  <2>2. InState("collected")' = {}
    BY <2>1 DEF InState
  <2>3. completed' = << >> /\ merged' = << >> /\ ToSet(completed)' = {} /\ ToSet(merged)' = {}
    BY <1>2, <1>3 DEF ToSet
  <2> QED  BY <1>2, <2>1, <2>2, <2>3, EmptySeq DEF PoolOK, PoolStates
<1>5. PhaseOK'
  BY <1>2, <1>3 DEF PhaseOK
<1>6. ReadOf(latest)'
  <2>1. ShownOf(latest)' = ShownOf(latest) /\ latest' = latest
    BY <1>2 DEF ShownOf
  <2>2. \A i : Wanted(ShownOf(latest), i)' = Wanted(ShownOf(latest), i)
    BY <1>2, <2>1 DEF Wanted
  <2>3. ToSet(merged)' = {}
    BY <1>2, <1>3 DEF ToSet
  <2>4. snapshot' = [b \in Blocks |->
          {r \in ShownOf(latest)' : r.block = b} \cup
          UNION {SelectedFor(i)' : i \in {j \in ToSet(merged)' : known'[j].block = b}}]
    BY <1>2, <2>1, <2>3
  <2>5. Rows' = ShownOf(latest)
    <3>1. ASSUME NEW r \in ShownOf(latest) PROVE r \in Rows'
      <4>1. r \in HeldRows
        BY <1>1, ElementOfSeq, LenProperties DEF ShownOf, FetchInv, ContentsOK
      <4>2. r.block \in Blocks
        BY <4>1, HeldRowsOK
      <4> QED  BY <1>2, <4>2 DEF Rows
    <3> QED  BY <1>2, <3>1 DEF Rows
  <2>6. lines' = LinesOfRows(Rows)'
    BY <1>2, <2>5 DEF LinesOfRows
  <2> QED  BY <1>2, <2>1, <2>2, <2>4, <2>6 DEF ReadOf
<1>7. ContentsOK' /\ known' \in KnownDocuments
  BY <1>2 DEF FetchInv, ContentsOK
<1> QED  BY <1>1, <1>2, <1>4, <1>5, <1>6, <1>7 DEF FetchInv, Fresh

\* A step that neither reads nor merges leaves what was read as it is.
LEMMA ReadFrame ==
  ASSUME FetchInv,
         UNCHANGED <<known, contents, snapshot, lines, lookups, merged>>,
         \A i \in ToSet(merged) : answer'[i] = answer[i],
         Fresh => Fresh' \/ phase' = "failed",
         Fresh' => Fresh,
         phase = "failed" => phase' = "failed"
  PROVE  /\ Fresh' => Unread'
         /\ Unread' \/ (~ Fresh' /\ \E v \in DOMAIN contents' : ReadOf(v)')
<1>1. CASE Unread
  BY <1>1 DEF Unread
<1>2. ASSUME NEW v \in DOMAIN contents, ReadOf(v) PROVE ReadOf(v)'
  <2>1. ShownOf(v)' = ShownOf(v)
    BY DEF ShownOf
  <2>2. \A i : Wanted(ShownOf(v), i)' = Wanted(ShownOf(v), i)
    BY <2>1 DEF Wanted
  <2>3. \A i \in ToSet(merged) : SelectedFor(i)' = SelectedFor(i)
    BY DEF SelectedFor
  <2>4. LinesOfRows(Rows)' = LinesOfRows(Rows) /\ ToSet(merged)' = ToSet(merged)
    BY DEF Rows
  <2>5. \A b \in Blocks :
          UNION {SelectedFor(i)' : i \in {j \in ToSet(merged)' : known'[j].block = b}}
            = UNION {SelectedFor(i) : i \in {j \in ToSet(merged) : known[j].block = b}}
    BY <2>3, <2>4
  <2>6. snapshot' = [b \in Blocks |->
          {r \in ShownOf(v)' : r.block = b} \cup
          UNION {SelectedFor(i)' : i \in {j \in ToSet(merged)' : known'[j].block = b}}]
    BY <1>2, <2>1, <2>5 DEF ReadOf
  <2>7. lookups' = {i \in DOMAIN known' : Wanted(ShownOf(v), i)'}
    BY <1>2, <2>2 DEF ReadOf
  <2> QED  BY <1>2, <2>4, <2>6, <2>7 DEF ReadOf
<1> QED  BY <1>1, <1>2 DEF FetchInv

\* What becomes of a lookup that moves from one state of the pool to another.
LEMMA PoolFrame ==
  ASSUME FetchInv, NEW i \in lookups, NEW s \in PoolStates, SetState(i, s)
  PROVE  /\ DOMAIN state' = lookups' /\ lookups' = lookups
         /\ \A j \in lookups : state'[j] = IF j = i THEN s ELSE state[j]
         /\ InState("collected")' =
              IF s = "collected" THEN InState("collected") \cup {i}
              ELSE InState("collected") \ {i}
<1>1. /\ state' = [state EXCEPT ![i] = s] /\ lookups' = lookups
      /\ DOMAIN state = lookups
  BY DEF SetState, FetchInv, PoolOK
<1>2. \A j \in lookups : state'[j] = IF j = i THEN s ELSE state[j]
  BY <1>1
<1> QED  BY <1>1, <1>2 DEF InState

LEMMA PoolStepInv ==
  ASSUME FetchInv, NEW i \in lookups, PoolStep(i)
  PROVE  FetchInv'
<1>1. /\ i \in lookups /\ lookups # {} /\ phase \in {"lookups", "abandoned"} /\ merged = << >>
  BY DEF PoolStep, Start, Answer, LookupFails, Collect, Raise, PoolRuns, FetchInv, PhaseOK
<1>2. /\ UNCHANGED <<known, contents, snapshot, lines, lookups, merged>>
      /\ phase' \in {"lookups", "abandoned"}
  BY <1>1 DEF PoolStep, Start, Answer, LookupFails, Collect, Raise, SetState
<1>3. ToSet(merged) = {}
  BY <1>1 DEF ToSet
<1>4. /\ Fresh' => Unread'
      /\ Unread' \/ (~ Fresh' /\ \E v \in DOMAIN contents' : ReadOf(v)')
  <2>1. ~ Fresh /\ ~ Fresh' /\ phase # "failed"
    BY <1>1, <1>2 DEF Fresh
  <2> QED  BY <1>2, <1>3, <2>1, ReadFrame
<1>5. PhaseOK'
  BY <1>1, <1>2 DEF FetchInv, PhaseOK
<1>6. PoolOK'
  <2> USE DEF PoolStates
  <2>1. CASE Start(i) \/ LookupFails(i)
    <3>1. PICK s \in {"running", "failed"} : SetState(i, s)
      BY <2>1 DEF Start, LookupFails
    <3>2. /\ answer' = answer /\ completed' = completed /\ i \notin InState("collected")
      BY <2>1 DEF Start, LookupFails, InState
    <3>3. InState("collected")' = InState("collected")
      BY <3>1, <3>2, PoolFrame
    <3>4. \A j \in lookups : state'[j] = IF j = i THEN s ELSE state[j]
      BY <3>1, PoolFrame
    <3>5. DOMAIN state' = lookups
      BY <3>1, PoolFrame
    <3> QED  BY <1>2, <3>1, <3>2, <3>3, <3>4, <3>5 DEF FetchInv, PoolOK, RowsWithCode
  <2>2. CASE Answer(i)
    <3>1. /\ SetState(i, "answered") /\ completed' = completed /\ state[i] = "running"
      BY <2>2 DEF Answer
    <3>2. PICK v \in DOMAIN contents :
            answer' = [answer EXCEPT ![i] = RowsWithCode(contents[v], known[i])]
      BY <2>2 DEF Answer
    <3>3. InState("collected")' = InState("collected")
      BY <3>1, PoolFrame DEF InState
    <3>4. /\ DOMAIN state' = lookups /\ DOMAIN answer' = lookups
          /\ \A j \in lookups : state'[j] = IF j = i THEN "answered" ELSE state[j]
          /\ \A j \in lookups :
               answer'[j] = IF j = i THEN RowsWithCode(contents[v], known[i]) ELSE answer[j]
      BY <3>1, <3>2, PoolFrame DEF FetchInv, PoolOK
    <3> QED  BY <1>2, <3>1, <3>3, <3>4 DEF FetchInv, PoolOK, RowsWithCode
  <2>3. CASE Collect(i)
    <3>1. /\ SetState(i, "collected") /\ completed' = Append(completed, i)
          /\ answer' = answer /\ state[i] = "answered"
      BY <2>3 DEF Collect
    <3>2. InState("collected")' = InState("collected") \cup {i}
      BY <3>1, PoolFrame
    <3>3. /\ DOMAIN state' = lookups
          /\ \A j \in lookups : state'[j] = IF j = i THEN "collected" ELSE state[j]
      BY <3>1, PoolFrame
    <3>4. completed' \in Seq(lookups) /\ ToSet(completed)' = ToSet(completed) \cup {i}
      BY <3>1, AppendedSet DEF FetchInv, PoolOK
    <3> QED  BY <1>2, <3>1, <3>2, <3>3, <3>4 DEF FetchInv, PoolOK, RowsWithCode
  <2>4. CASE Raise(i)
    <3>1. UNCHANGED <<known, contents, lookups, state, answer, completed, merged>>
      BY <2>4 DEF Raise
    <3> QED  BY <3>1 DEF FetchInv, PoolOK, InState
  <2> QED  BY <2>1, <2>2, <2>3, <2>4 DEF PoolStep
<1> QED  BY <1>2, <1>4, <1>5, <1>6 DEF FetchInv, ContentsOK

\* The steps of the fetch as a whole that neither read nor merge.
LEMMA PhaseStep ==
  ASSUME FetchInv, Begin \/ BaseFails \/ AllCollected \/ GiveUp \/ ReturnSnapshot
  PROVE  FetchInv'
<1>1. UNCHANGED <<known, contents, snapshot, lines, lookups, state, answer, completed, merged>>
  BY DEF Begin, BaseFails, AllCollected, GiveUp, ReturnSnapshot
<1>2. /\ Fresh => Fresh' \/ phase' = "failed"
      /\ Fresh' => Fresh
      /\ phase # "failed"
  BY DEF Fresh, Begin, BaseFails, AllCollected, GiveUp, ReturnSnapshot
<1>3. /\ Fresh' => Unread'
      /\ Unread' \/ (~ Fresh' /\ \E v \in DOMAIN contents' : ReadOf(v)')
  BY <1>1, <1>2, ReadFrame
<1>4. PoolOK'
  BY <1>1 DEF FetchInv, PoolOK, InState
<1>5. PhaseOK'
  BY <1>1 DEF FetchInv, PhaseOK, InState, Remaining, Begin, BaseFails, AllCollected, GiveUp,
    ReturnSnapshot
<1> QED  BY <1>1, <1>3, <1>4, <1>5 DEF FetchInv, ContentsOK

LEMMA MergeInv ==
  ASSUME FetchInv, MergeAnswer
  PROVE  FetchInv'
<1>1. PICK n \in DOMAIN completed :
        /\ IsNext(n)
        /\ LET i == completed[n]
               d == known[i]
               selected == Selected(answer[i], d)
           IN  /\ snapshot' = [snapshot EXCEPT ![d.block] = AppendUnique(@, selected)]
               /\ lines' = lines \cup LinesOfRows(selected)
               /\ merged' = Append(merged, i)
  BY DEF MergeAnswer
<1>2. /\ UNCHANGED <<known, contents, phase, lookups, state, answer, completed>>
      /\ phase = "merging"
  BY DEF MergeAnswer
<1> DEFINE i == completed[n]
           here == known[i].block
<1>3. i \in ToSet(completed) /\ i \in lookups
  BY DEF ToSet, FetchInv, PoolOK, InState
<1>4. /\ snapshot' = [snapshot EXCEPT ![here] = @ \cup SelectedFor(i)]
      /\ lines' = lines \cup LinesOfRows(SelectedFor(i))
      /\ merged' = Append(merged, i)
  BY <1>1 DEF SelectedFor, AppendUnique
<1> HIDE DEF i, here
<1>5. merged' \in Seq(lookups) /\ ToSet(merged') = ToSet(merged) \cup {i}
  BY <1>3, <1>4, AppendedSet DEF FetchInv, PoolOK
<1>6. PoolOK'
  BY <1>2, <1>3, <1>5 DEF FetchInv, PoolOK, InState
<1>7. PhaseOK'
  BY <1>2 DEF FetchInv, PhaseOK, InState
<1>8. PICK v \in DOMAIN contents : ReadOf(v)
  BY <1>2 DEF FetchInv, Unread, Fresh
<1>9. here \in Blocks
  BY <1>3, <1>8 DEF ReadOf, Wanted, here
<1>10. ReadOf(v)'
  <2>1. ShownOf(v)' = ShownOf(v) /\ \A j : SelectedFor(j)' = SelectedFor(j)
    BY <1>2 DEF ShownOf, SelectedFor
  <2>2. \A j : Wanted(ShownOf(v), j)' = Wanted(ShownOf(v), j)
    BY <1>2, <2>1 DEF Wanted
  <2> DEFINE Merged(b) == UNION {SelectedFor(j) : j \in {k \in ToSet(merged) : known[k].block = b}}
             MergedNow(b) == UNION {SelectedFor(j)' : j \in {k \in ToSet(merged)' : known'[k].block = b}}
  <2>3. \A b \in Blocks : MergedNow(b) = IF b = here THEN Merged(b) \cup SelectedFor(i) ELSE Merged(b)
    BY <1>2, <1>5, <2>1 DEF here
  <2>4. snapshot = [b \in Blocks |-> {r \in ShownOf(v) : r.block = b} \cup Merged(b)]
    BY <1>8 DEF ReadOf
  <2> HIDE DEF Merged, MergedNow
  <2>5. \A b \in Blocks :
          snapshot'[b] = {r \in ShownOf(v)' : r.block = b} \cup MergedNow(b)
    BY <1>4, <1>9, <2>1, <2>3, <2>4
  <2>6. snapshot' = [b \in Blocks |-> {r \in ShownOf(v)' : r.block = b} \cup MergedNow(b)]
    BY <1>4, <2>4, <2>5
  <2>7. Rows' = Rows \cup SelectedFor(i)
    BY <1>4, <1>9, <2>4 DEF Rows
  <2>8. lines' = LinesOfRows(Rows)'
    BY <1>4, <1>8, <2>7 DEF LinesOfRows, ReadOf
  <2>9. lookups' = {j \in DOMAIN known' : Wanted(ShownOf(v), j)'}
    BY <1>2, <1>8, <2>2 DEF ReadOf
  <2> QED  BY <2>6, <2>8, <2>9 DEF ReadOf, MergedNow
<1>11. ~ Fresh'
  BY <1>2 DEF Fresh
<1> QED  BY <1>2, <1>6, <1>7, <1>10, <1>11 DEF FetchInv, ContentsOK

LEMMA FetchStepInv == FetchInv /\ [NextFetch]_fetchVars => FetchInv'
<1> SUFFICES ASSUME FetchInv, [NextFetch]_fetchVars PROVE FetchInv'
  OBVIOUS
<1>1. CASE UNCHANGED fetchVars
  <2>1. UNCHANGED <<known, contents, phase, snapshot, lines, lookups, state, answer,
                    completed, merged>>
    BY <1>1 DEF fetchVars
  <2>2. /\ ContentsOK' = ContentsOK /\ PoolOK' = PoolOK /\ PhaseOK' = PhaseOK
        /\ Unread' = Unread /\ Fresh' = Fresh /\ \A v : ReadOf(v)' = ReadOf(v)
    BY <2>1 DEF ContentsOK, PoolOK, PhaseOK, Unread, Fresh, ReadOf, InState, Remaining, ShownOf,
      SelectedFor, Wanted, Rows
  <2> QED  BY <2>1, <2>2 DEF FetchInv
<1> QED  BY <1>1, ContentsStep, FirstRead, PoolStepInv, PhaseStep, MergeInv
     DEF NextFetch, FetchStep

\* The inductive invariant of a fetch: the snapshot is always what the first
\* answer shows with what was selected from the answers merged so far, and every
\* answer is what 1C held for its document at some moment of the fetch or before
\* it, since the oldest answer that the cache may give.
THEOREM SnapshotInvHolds == FetchSpec => []FetchInv
<1>1. InitFetch => FetchInv
  BY FetchStart
<1>2. FetchInv /\ [NextFetch]_fetchVars => FetchInv'
  BY FetchStepInv
<1> QED  BY <1>1, <1>2, PTL DEF FetchSpec

\* What a finished fetch has merged.
LEMMA DoneMergedAll ==
  ASSUME FetchInv, phase = "done"
  PROVE  /\ ToSet(merged) = lookups
         /\ \A i \in lookups : \E v \in DOMAIN contents :
              answer[i] = RowsWithCode(contents[v], known[i])
<1>1. ToSet(completed) = lookups /\ InState("collected") = lookups /\ Remaining = {}
  BY DEF FetchInv, PhaseOK, PoolOK
<1>2. ToSet(completed) \subseteq ToSet(merged)
  BY <1>1 DEF Remaining, ToSet
<1>3. \A i \in lookups : state[i] = "collected"
  BY <1>1 DEF InState
<1> QED  BY <1>1, <1>2, <1>3 DEF FetchInv, PoolOK

LEMMA MergedIsShown ==
  ASSUME NEW v, ReadOf(v), NEW i \in ToSet(merged), known[i].block \in Blocks
  PROVE  SelectedFor(i) \subseteq snapshot[known[i].block]
BY DEF ReadOf

LEMMA LostNothing == FetchInv => NothingLost
<1> SUFFICES ASSUME FetchInv, phase = "done" PROVE NothingLost
  BY DEF NothingLost
<1>1. PICK v \in DOMAIN contents : ReadOf(v)
  BY DEF FetchInv, Unread, Fresh
<1>2. ToSet(merged) = lookups
  BY DoneMergedAll
<1>3. ASSUME NEW i \in lookups
      PROVE  \E w \in DOMAIN contents :
               Selected(RowsWithCode(contents[w], known[i]), known[i])
                 \subseteq snapshot[known[i].block]
  <2>1. PICK w \in DOMAIN contents : answer[i] = RowsWithCode(contents[w], known[i])
    BY DoneMergedAll
  <2>2. known[i].block \in Blocks
    BY <1>1 DEF ReadOf, Wanted
  <2>3. SelectedFor(i) \subseteq snapshot[known[i].block]
    BY <1>1, <1>2, <2>2, MergedIsShown
  <2> QED  BY <2>1, <2>3 DEF SelectedFor
<1>4. ASSUME NEW r \in Rows, HasLines(r.block)
      PROVE  \E l \in LinesOf(r) : l.document_id = r.source_id
  <2> DEFINE l == [document_id |-> r.source_id, document_number |-> r.code]
  <2>1. l \in lines
    BY <1>1, <1>4 DEF ReadOf, LinesOfRows
  <2> QED  BY <2>1 DEF LinesOf
<1> QED  BY <1>2, <1>3, <1>4 DEF NothingLost

LEMMA NoneForeign == FetchInv => NothingForeign
<1> SUFFICES ASSUME FetchInv, NEW r \in Rows
             PROVE  \/ r.of_delivery
                    \/ \E i \in lookups : /\ known[i].block = r.block /\ known[i].code = r.code
                                          /\ \/ known[i].date = r.date
                                             \/ known[i].amount = r.amount
  BY DEF NothingForeign
<1>1. PICK b \in Blocks : r \in snapshot[b]
  BY DEF Rows
<1>2. PICK v \in DOMAIN contents : ReadOf(v)
  BY <1>1 DEF FetchInv, Unread
<1>3. CASE r \in ShownOf(v)
  BY <1>3 DEF ShownOf
<1>4. CASE r \notin ShownOf(v)
  <2>1. PICK i \in ToSet(merged) : r \in SelectedFor(i)
    BY <1>1, <1>2, <1>4 DEF ReadOf
  <2>2. i \in lookups /\ state[i] = "collected"
    BY <2>1 DEF FetchInv, PoolOK, InState
  <2>3. PICK w \in DOMAIN contents : answer[i] = RowsWithCode(contents[w], known[i])
    BY <2>2 DEF FetchInv, PoolOK
  <2>4. r \in Selected(RowsWithCode(contents[w], known[i]), known[i])
    BY <2>1, <2>3 DEF SelectedFor
  <2>5. /\ r.block = known[i].block /\ r.code = known[i].code
        /\ (r.date = known[i].date \/ r.amount = known[i].amount)
    BY <2>4, SelectedIsOfDocument
  <2> QED  BY <2>2, <2>5
<1> QED  BY <1>3, <1>4

\* Of the places of known with one key, the first is asked for if any may be.
LEMMA FirstOfKeyIsWanted ==
  ASSUME NEW shown, known \in KnownDocuments, NEW i \in DOMAIN known,
         known[i].code # NoCode, known[i].block \in Blocks,
         known[i].code \notin ExistingCodes(shown, known[i].block)
  PROVE  \E j \in DOMAIN known : LookupKey(known[j]) = LookupKey(known[i]) /\ Wanted(shown, j)
<1> DEFINE S == {j \in DOMAIN known : LookupKey(known[j]) = LookupKey(known[i])}
<1>1. /\ DOMAIN known = 1..Len(known) /\ Len(known) \in Nat
      /\ S \in SUBSET Nat /\ S # {}
  BY KnownAssumption, LenProperties
<1>2. PICK j \in S : \A k \in S : j <= k
  BY <1>1, LeastNumber
<1>3. known[j].block = known[i].block /\ known[j].code = known[i].code
  BY DEF LookupKey
<1>4. ASSUME NEW k \in 1..(j - 1), LookupKey(known[k]) = LookupKey(known[j]) PROVE FALSE
  <2>1. k \in Nat /\ k < j /\ k \in DOMAIN known
    BY <1>1
  <2>2. k \notin S
    BY <1>1, <1>2, <2>1
  <2> QED  BY <1>4, <2>1, <2>2
<1> QED  BY <1>3, <1>4 DEF Wanted

LEMMA FetchedIfKnown == FetchInv => KnownDocumentsFetched
<1> SUFFICES ASSUME FetchInv, phase = "done", NEW r \in contents[1], KnownToERP(r),
                    ~ \E s \in Rows : s.of_delivery /\ s.block = r.block /\ s.code = r.code
             PROVE  r \in Rows
  BY DEF KnownDocumentsFetched
<1>1. PICK v \in DOMAIN contents : ReadOf(v)
  BY DEF FetchInv, Unread, Fresh
<1>2. PICK i \in DOMAIN known : /\ known[i].block = r.block /\ known[i].code = r.code
                               /\ known[i].date = r.date
  BY DEF KnownToERP
<1>3. r.block \in Blocks /\ r.code # NoCode /\ r.date # NoDate
  <2>1. r \in HeldRows
    BY LenProperties, ElementOfSeq DEF FetchInv, ContentsOK
  <2> QED  BY <2>1, HeldRowsOK
<1>4. r.code \notin ExistingCodes(ShownOf(v), r.block)
  <2>1. SUFFICES ASSUME NEW s \in ShownOf(v), s.block = r.block, s.code = r.code PROVE FALSE
    BY DEF ExistingCodes
  <2>2. s \in Rows /\ s.of_delivery
    BY <1>1, <1>3, <2>1 DEF ReadOf, Rows, ShownOf
  <2> QED  BY <2>1, <2>2
<1>5. PICK j \in DOMAIN known :
        LookupKey(known[j]) = LookupKey(known[i]) /\ Wanted(ShownOf(v), j)
  BY <1>2, <1>3, <1>4, FirstOfKeyIsWanted DEF FetchInv
<1>6. known[j].block = r.block /\ known[j].code = r.code /\ known[j].date = r.date
  BY <1>2, <1>5 DEF LookupKey
<1>7. j \in lookups /\ j \in ToSet(merged)
  BY <1>1, <1>5, DoneMergedAll DEF ReadOf
<1>8. PICK w \in DOMAIN contents : answer[j] = RowsWithCode(contents[w], known[j])
  BY <1>7, DoneMergedAll
<1>9. r \in SelectedFor(j)
  BY <1>3, <1>6, <1>8 DEF SelectedFor, Selected, RowsWithCode, KnownToERP
<1>10. SelectedFor(j) \subseteq snapshot[r.block]
  BY <1>1, <1>3, <1>6, <1>7, MergedIsShown
<1> QED  BY <1>3, <1>9, <1>10 DEF Rows

\* NothingLost, for any documents, contents, edits and workers: a fetch that
\* returns has merged an answer for every document it asked for.
THEOREM FetchLosesNothing == FetchSpec => []NothingLost
BY SnapshotInvHolds, LostNothing, PTL

\* NothingForeign: what is outside the delivery is there for an ERP document.
THEOREM FetchTakesNothingForeign == FetchSpec => []NothingForeign
BY SnapshotInvHolds, NoneForeign, PTL

\* KnownDocumentsFetched: a document that 1C holds from the oldest answer that
\* the cache may give to the end of the fetch, and that the ERP names by block,
\* code and date, is in the snapshot of a fetch that returns, unless the first
\* answer shows another under its code.
THEOREM KnownDocumentsAreFetched == FetchSpec => []KnownDocumentsFetched
BY SnapshotInvHolds, FetchedIfKnown, PTL
=============================================================================
