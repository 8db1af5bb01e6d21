---------------------------- MODULE JournalProofs ----------------------------
(* What is stored of reconciliations.  The journal holds whole runs and      *)
(* every run that was acknowledged, for any number of executors, readers,    *)
(* runs, issues and crashes: however their statements interleave and         *)
(* wherever one of them fails.  Of the comments on issues nothing is called  *)
(* saved that was not stored, and the comment shown is the one stored last,  *)
(* for any number of users, keys, texts and saves.                           *)
EXTENDS RunJournal, IssueComments, Sums, FunctionTheorems

-----------------------------------------------------------------------------
(* The journal of runs: types.                                               *)

LEMMA IdsAreNaturals == TypeOK => Ids(headers) \subseteq Nat /\ \A n \in Nat : Ids(Rows(n)) \subseteq Nat
BY DEF TypeOK, Ids, Rows, Header

Finite(t) == IsFiniteSet(t.headers) /\ IsFiniteSet(t.items)

TypeInv == /\ TypeOK
           /\ IsFiniteSet(headers) /\ IsFiniteSet(items)
           /\ \A e \in Executor : Finite(tx[e])

LEMMA ClosedIsFinite == Finite(Closed) /\ Finite([Closed EXCEPT !.open = TRUE])
BY FS_EmptySet DEF Finite, Closed

LEMMA TypeInit == Init => TypeInv
<1> SUFFICES ASSUME Init PROVE TypeInv
  OBVIOUS
<1>1. tx \in [Executor -> [open : BOOLEAN, headers : SUBSET Header, items : SUBSET Item]]
  BY DEF Init, Closed
<1>2. run \in [Executor -> [run_id : Nat, spec_id : Delivery \cup {0}, issues : Nat, persist : BOOLEAN]]
  BY DEF Init, NoRun
<1>3. page \in [Reader -> [at : {"idle", "open", "counted", "more", "last"}, offset : Nat, total : Nat]]
  BY DEF Init, NoPage
<1>4. IsFiniteSet(headers) /\ IsFiniteSet(items) /\ \A e \in Executor : Finite(tx[e])
  BY FS_EmptySet, ClosedIsFinite DEF Init
<1> QED  BY <1>1, <1>2, <1>3, <1>4 DEF Init, TypeInv, TypeOK

LEMMA WriteType ==
  ASSUME TypeInv, NEW e \in Executor, NEW H \in SUBSET Header, NEW I \in SUBSET Item,
         IsFiniteSet(H), IsFiniteSet(I), Write(e, H, I)
  PROVE  /\ headers' \subseteq Header /\ items' \subseteq Item
         /\ tx' \in [Executor -> [open : BOOLEAN, headers : SUBSET Header, items : SUBSET Item]]
         /\ IsFiniteSet(headers') /\ IsFiniteSet(items')
         /\ \A f \in Executor : Finite(tx'[f])
<1>1. /\ IsFiniteSet(headers \cup H) /\ IsFiniteSet(tx[e].headers \cup H)
      /\ IsFiniteSet(items \cup I) /\ IsFiniteSet(tx[e].items \cup I)
  BY FS_Union DEF TypeInv, Finite
<1>2. CASE tx[e].open
  <2>1. /\ tx' = [tx EXCEPT ![e].headers = @ \cup H, ![e].items = @ \cup I]
        /\ headers' = headers /\ items' = items
    BY <1>2 DEF Write
  <2>2. tx' \in [Executor -> [open : BOOLEAN, headers : SUBSET Header, items : SUBSET Item]]
    BY <2>1 DEF TypeInv, TypeOK
  <2>3. \A f \in Executor :
          \/ tx'[f] = tx[f]
          \/ tx'[f].headers = tx[e].headers \cup H /\ tx'[f].items = tx[e].items \cup I
    BY <2>1 DEF TypeInv, TypeOK
  <2> QED  BY <1>1, <2>1, <2>2, <2>3 DEF TypeInv, TypeOK, Finite
<1>3. CASE ~ tx[e].open
  BY <1>1, <1>3 DEF Write, TypeInv, TypeOK
<1> QED  BY <1>2, <1>3

LEMMA LeaveType ==
  ASSUME TypeInv, NEW e \in Executor, Leave(e)
  PROVE  /\ pc' \in [Executor -> {"idle", "reading", "begin", "header", "items", "reply"}]
         /\ run' \in [Executor -> [run_id : Nat, spec_id : Delivery \cup {0}, issues : Nat, persist : BOOLEAN]]
         /\ \A f \in Executor : pc'[f] \in {"begin", "header", "items"} => run'[f].spec_id \in Delivery
         /\ db_id' \in [Executor -> Nat]
         /\ tx' \in [Executor -> [open : BOOLEAN, headers : SUBSET Header, items : SUBSET Item]]
         /\ \A f \in Executor : Finite(tx'[f])
<1>1. \A f \in Executor : tx'[f] = tx[f] \/ tx'[f] = Closed
  BY DEF Leave, TypeInv, TypeOK
<1>2. Finite(Closed)
  BY ClosedIsFinite
<1>3. \A f \in Executor : Finite(tx'[f])
  BY <1>1, <1>2 DEF TypeInv
<1> QED  BY <1>3 DEF Leave, GoTo, TypeInv, TypeOK, NoRun, Closed

LEMMA ApplyType ==
  ASSUME TypeInv, NEW e \in Executor, Apply(e)
  PROVE  headers' \subseteq Header /\ items' \subseteq Item /\ IsFiniteSet(headers') /\ IsFiniteSet(items')
BY FS_Union DEF Apply, TypeInv, TypeOK, Finite
LEMMA TypeStep == TypeInv /\ [Next]_vars => TypeInv'
<1> SUFFICES ASSUME TypeInv, [Next]_vars PROVE TypeInv'
  OBVIOUS
<1> USE DEF TypeInv
<1>1. ASSUME NEW e \in Executor, Request(e) PROVE TypeInv'
  BY <1>1 DEF Request, GoTo, TypeOK, journal, reading
<1>2. ASSUME NEW e \in Executor, SourceFails(e) PROVE TypeInv'
  BY <1>2, LeaveType DEF SourceFails, TypeOK, journal, reading
<1>3. ASSUME NEW e \in Executor, Compute(e) PROVE TypeInv'
  <2>1. PICK d \in Delivery, n \in 0..MaxIssues, persist \in BOOLEAN :
          /\ run' = [run EXCEPT ![e] = [run_id |-> computed', spec_id |-> d,
                                        issues |-> n, persist |-> persist]]
          /\ pc' = [pc EXCEPT ![e] = IF persist THEN "begin" ELSE "reply"]
    BY <1>3 DEF Compute, GoTo
  <2>2. computed' \in Nat /\ n \in Nat
    BY <1>3, JournalAssumption DEF Compute, TypeOK
  <2>3. /\ run' \in [Executor -> [run_id : Nat, spec_id : Delivery \cup {0}, issues : Nat, persist : BOOLEAN]]
        /\ pc' \in [Executor -> {"idle", "reading", "begin", "header", "items", "reply"}]
    BY <2>1, <2>2 DEF TypeOK
  <2>4. \A f \in Executor : pc'[f] \in {"begin", "header", "items"} => run'[f].spec_id \in Delivery
    BY <2>1 DEF TypeOK
  <2> QED  BY <1>3, <2>2, <2>3, <2>4 DEF Compute, TypeOK, journal, reading
<1>4. ASSUME NEW e \in Executor, Begin(e) PROVE TypeInv'
  <2>1. \A f \in Executor : tx'[f] = tx[f] \/ tx'[f] = [Closed EXCEPT !.open = TRUE]
    BY <1>4 DEF Begin, TypeOK
  <2>2. \A f \in Executor : Finite(tx'[f])
    BY <2>1, ClosedIsFinite
  <2> QED  BY <1>4, <2>2 DEF Begin, GoTo, TypeOK, journal, reading, Closed
<1>5. ASSUME NEW e \in Executor, InsertHeader(e) PROVE TypeInv'
  <2> DEFINE d == run[e].run_id
             n == run[e].issues
             s == run[e].spec_id
  <2> DEFINE h == [id |-> next_id, run_id |-> d, spec_id |-> s,
                   issues |-> n, execution_status |-> "completed"]
  <2>3. next_id \in Nat /\ d \in Nat /\ n \in Nat /\ s \in Delivery
    BY <1>5 DEF InsertHeader, TypeOK
  <2> HIDE DEF d, n, s
  <2>1. h \in Header
    BY <2>3 DEF Header
  <2>2. Write(e, {h}, {})
    BY <1>5 DEF InsertHeader, d, n, s
  <2> HIDE DEF h
  <2>4. /\ headers' \subseteq Header /\ items' \subseteq Item
        /\ tx' \in [Executor -> [open : BOOLEAN, headers : SUBSET Header, items : SUBSET Item]]
        /\ IsFiniteSet(headers') /\ IsFiniteSet(items')
        /\ \A f \in Executor : Finite(tx'[f])
    <3>1. {h} \in SUBSET Header /\ {} \in SUBSET Item /\ IsFiniteSet({h}) /\ IsFiniteSet({})
      BY <2>1, FS_Singleton, FS_EmptySet
    <3> QED  BY <2>2, <3>1, WriteType
  <2>5. /\ next_id' \in Nat /\ db_id' \in [Executor -> Nat]
        /\ pc' = [pc EXCEPT ![e] = "items"] /\ pc[e] = "header"
        /\ UNCHANGED <<computed, crashes, run, acknowledged, page, known, seen>>
    BY <1>5, <2>3 DEF InsertHeader, GoTo, TypeOK, reading
  <2> QED  BY <2>4, <2>5 DEF TypeOK
<1>6. ASSUME NEW e \in Executor, InsertItem(e) PROVE TypeInv'
  <2> DEFINE i == [run_id |-> db_id[e], ordinal |-> Cardinality(ItemsWritten(e))]
  <2>1. IsFiniteSet(ItemsWritten(e))
    <3>1. IsFiniteSet(tx[e].items \cup items)
      BY FS_Union DEF Finite
    <3>2. ItemsWritten(e) \subseteq tx[e].items \cup items
      BY DEF ItemsWritten
    <3> QED  BY <3>1, <3>2, FS_Subset
  <2>4. Cardinality(ItemsWritten(e)) \in Nat /\ db_id[e] \in Nat
    BY <2>1, FS_CardinalityType DEF TypeOK
  <2>5. i \in Item
    BY <2>4 DEF Item
  <2>3. {i} \in SUBSET Item /\ IsFiniteSet({i})
    BY <2>5, FS_Singleton
  <2>2. Write(e, {}, {i}) /\ IsFiniteSet({})
    BY <1>6, FS_EmptySet DEF InsertItem
  <2> HIDE DEF i
  <2> QED  BY <1>6, <2>3, <2>2, WriteType DEF InsertItem, TypeOK, reading
<1>7. ASSUME NEW e \in Executor, Commit(e) PROVE TypeInv'
  <2>1. \A f \in Executor : tx'[f] = tx[f] \/ tx'[f] = Closed
    BY <1>7 DEF Commit, TypeOK
  <2>2. \A f \in Executor : Finite(tx'[f])
    BY <2>1, ClosedIsFinite
  <2> QED  BY <1>7, <2>2, ApplyType DEF Commit, GoTo, TypeOK, Closed
<1>8. ASSUME NEW e \in Executor, CommitAnswerLost(e) PROVE TypeInv'
  BY <1>8, ApplyType, LeaveType DEF CommitAnswerLost, TypeOK
<1>9. ASSUME NEW e \in Executor, SaveFails(e) PROVE TypeInv'
  BY <1>9, LeaveType DEF SaveFails, TypeOK, journal, reading
<1>10. ASSUME NEW e \in Executor, Reply(e) PROVE TypeInv'
  <2>1. acknowledged' \subseteq Nat
    <3>1. acknowledged \subseteq Nat /\ run[e].run_id \in Nat
      BY DEF TypeOK
    <3>2. acknowledged' = acknowledged \/ acknowledged' = acknowledged \cup {run[e].run_id}
      BY <1>10 DEF Reply
    <3> QED  BY <3>1, <3>2
  <2> QED  BY <1>10, <2>1, LeaveType DEF Reply, TypeOK, journal, reading
<1>11. CASE Crash
  <2>1. \A f \in Executor : tx'[f] = Closed
    BY <1>11 DEF Crash
  <2>2. \A f \in Executor : Finite(tx'[f])
    BY <2>1, ClosedIsFinite
  <2>3. tx' \in [Executor -> [open : BOOLEAN, headers : SUBSET Header, items : SUBSET Item]]
    BY <1>11 DEF Crash, Closed
  <2>4. /\ run' \in [Executor -> [run_id : Nat, spec_id : Delivery \cup {0}, issues : Nat, persist : BOOLEAN]]
        /\ pc' \in [Executor -> {"idle", "reading", "begin", "header", "items", "reply"}]
        /\ \A f \in Executor : pc'[f] = "idle"
    BY <1>11 DEF Crash, NoRun
  <2>5. db_id' \in [Executor -> Nat] /\ crashes' \in Nat
    BY <1>11 DEF Crash, TypeOK
  <2> QED  BY <1>11, <2>2, <2>3, <2>4, <2>5 DEF Crash, TypeOK, journal, reading
<1>12. ASSUME NEW r \in Reader, Read(r) PROVE TypeInv'
  <2>1. UNCHANGED <<journal, computed, crashes, pc, run, db_id, tx, acknowledged>>
    BY <1>12 DEF Read, Open, Count, Select, NextPage
  <2>2. page' \in [Reader -> [at : {"idle", "open", "counted", "more", "last"}, offset : Nat, total : Nat]]
    <3>1. Cardinality(headers) \in Nat
      BY FS_CardinalityType
    <3> QED  BY <1>12, <3>1, JournalAssumption DEF Read, Open, Count, Select, NextPage, TypeOK
  <2>3. known' \in [Reader -> SUBSET Nat] /\ seen' \in [Reader -> SUBSET Nat]
    <3>1. page[r].offset \in Nat
      BY DEF TypeOK
    <3>2. Ids(headers) \subseteq Nat /\ Ids(Rows(page[r].offset)) \subseteq Nat
      BY <3>1, IdsAreNaturals
    <3>3. \/ known' = known /\ seen' = seen
          \/ known' = [known EXCEPT ![r] = Ids(headers)] /\ seen' = seen
          \/ known' = known /\ seen' = [seen EXCEPT ![r] = @ \cup Ids(Rows(page[r].offset))]
      BY <1>12 DEF Read, Open, Count, Select, NextPage
    <3> QED  BY <3>2, <3>3 DEF TypeOK
  <2> QED  BY <2>1, <2>2, <2>3 DEF TypeOK, journal
<1>13. CASE UNCHANGED vars
  BY <1>13 DEF vars, TypeOK
<1> QED  BY <1>1, <1>2, <1>3, <1>4, <1>5, <1>6, <1>7, <1>8, <1>9, <1>10, <1>11, <1>12, <1>13
         DEF Next, Execute, Save
-----------------------------------------------------------------------------
(* Whole runs.  Until its commit a run is kept in the transaction of its     *)
(* executor, under an identifier that nobody else has; the items written so  *)
(* far are numbered from 0.                                                  *)

Saving(e) == pc[e] \in {"begin", "header", "items"}

InJournal(run_id) == \E h \in headers : h.run_id = run_id

HeaderOf(e) == [id |-> db_id[e], run_id |-> run[e].run_id, spec_id |-> run[e].spec_id,
                issues |-> run[e].issues, execution_status |-> "completed"]

Numbered(id, n) == {[run_id |-> id, ordinal |-> k] : k \in 0..(n - 1)}

\* What the transaction of an executor holds when all but the items is written.
Held(e) ==
  /\ tx[e].open
  /\ tx[e].headers = {HeaderOf(e)}
  /\ \E n \in Nat : tx[e].items = Numbered(db_id[e], n)
  /\ db_id[e] < next_id
  /\ \A h \in headers : h.id # db_id[e]

Executing(e) ==
  /\ Saving(e) => run[e].run_id <= computed /\ ~ InJournal(run[e].run_id)
  /\ pc[e] = "header" => tx[e] = [Closed EXCEPT !.open = TRUE]
  /\ pc[e] = "items" => Held(e)
  /\ pc[e] = "reply" /\ run[e].persist => InJournal(run[e].run_id)

\* Two executors never save one run, nor under one identifier.
Apart(e, f) ==
  e # f =>
    /\ Saving(e) /\ Saving(f) => run[e].run_id # run[f].run_id
    /\ pc[e] = "items" /\ pc[f] = "items" => db_id[e] # db_id[f]

Numbers == \A h \in headers : h.id < next_id /\ h.run_id <= computed

JournalInv ==
  /\ TypeInv
  /\ RecordedWhole /\ AcknowledgedIsDurable /\ Numbers
  /\ \A e \in Executor : Executing(e)
  /\ \A e, f \in Executor : Apart(e, f)

LEMMA JournalInit == Init => JournalInv
<1> SUFFICES ASSUME Init PROVE JournalInv
  OBVIOUS
<1>1. headers = {} /\ items = {} /\ acknowledged = {} /\ \A e \in Executor : pc[e] = "idle"
  BY DEF Init
<1>2. RecordedWhole /\ AcknowledgedIsDurable /\ Numbers
  BY <1>1 DEF RecordedWhole, AcknowledgedIsDurable, Numbers, Ids
<1>3. \A e, f \in Executor : Executing(e) /\ Apart(e, f)
  BY <1>1 DEF Executing, Apart, Saving
<1> QED  BY <1>2, <1>3, TypeInit DEF JournalInv

\* A step that leaves the journal alone and moves one executor to where it holds
\* nothing that others hold.
LEMMA OneMoves ==
  ASSUME JournalInv, TypeInv', headers' = headers, items' = items,
         next_id' >= next_id, computed' >= computed,
         AcknowledgedIsDurable',
         NEW e \in Executor,
         \A f \in Executor \ {e} : /\ pc'[f] = pc[f] /\ run'[f] = run[f]
                                   /\ db_id'[f] = db_id[f] /\ tx'[f] = tx[f],
         Executing(e)',
         \A f \in Executor : f # e => Apart(e, f)' /\ Apart(f, e)'
  PROVE  JournalInv'
<1>1. next_id \in Nat /\ computed \in Nat /\ next_id' \in Nat /\ computed' \in Nat
  BY DEF JournalInv, TypeInv, TypeOK
<1>2. Numbers'
  <2> SUFFICES ASSUME NEW h \in headers PROVE h.id < next_id' /\ h.run_id <= computed'
    BY DEF Numbers
  <2>1. h.id < next_id /\ h.run_id <= computed
    BY DEF JournalInv, Numbers
  <2>2. h.id \in Nat /\ h.run_id \in Nat
    BY DEF JournalInv, TypeInv, TypeOK, Header
  <2> QED  BY <1>1, <2>1, <2>2
<1>3. RecordedWhole'
  BY DEF JournalInv, RecordedWhole, Ids
<1>4. ASSUME NEW f \in Executor \ {e} PROVE Executing(f)'
  <2>1. Executing(f)
    BY DEF JournalInv
  <2>2. run[f].run_id \in Nat /\ db_id[f] \in Nat
    BY DEF JournalInv, TypeInv, TypeOK
  <2>3. Held(f) => Held(f)'
    BY <1>1, <2>2 DEF Held, HeaderOf
  <2>4. (Saving(f) <=> Saving(f)') /\ \A id : InJournal(id) <=> InJournal(id)'
    BY DEF Saving, InJournal
  <2> QED  BY <1>1, <2>1, <2>2, <2>3, <2>4 DEF Executing
<1>5. ASSUME NEW f \in Executor \ {e}, NEW g \in Executor \ {e} PROVE Apart(f, g)'
  BY DEF JournalInv, Apart, Saving
<1>6. Apart(e, e)'
  BY DEF Apart
<1> QED  BY <1>2, <1>3, <1>4, <1>5, <1>6 DEF JournalInv
LEMMA NumberedCount ==
  ASSUME NEW id, NEW n \in Nat
  PROVE  Cardinality(Numbered(id, n)) = n
<1> DEFINE f == [k \in 0..(n - 1) |-> [run_id |-> id, ordinal |-> k]]
<1>1. f \in Bijection(0..(n - 1), Numbered(id, n))
  <2>1. f \in [0..(n - 1) -> Numbered(id, n)]
    BY DEF Numbered
  <2>2. ASSUME NEW j \in 0..(n - 1), NEW k \in 0..(n - 1), f[j] = f[k] PROVE j = k
    <3>1. f[j].ordinal = j /\ f[k].ordinal = k
      OBVIOUS
    <3> QED  BY <2>2, <3>1
  <2>3. \A t \in Numbered(id, n) : \E k \in 0..(n - 1) : f[k] = t
    BY DEF Numbered
  <2> QED  BY <2>1, <2>2, <2>3, Fun_IsBij
<1>2. ExistsBijection(0..(n - 1), Numbered(id, n))
  BY <1>1 DEF ExistsBijection
<1>3. IsFiniteSet(0..(n - 1)) /\ Cardinality(0..(n - 1)) = n
  <2>1. 0 \in Int /\ n - 1 \in Int
    OBVIOUS
  <2>2. /\ IsFiniteSet(0..(n - 1))
        /\ Cardinality(0..(n - 1)) = IF 0 > n - 1 THEN 0 ELSE (n - 1) - 0 + 1
    BY <2>1, FS_Interval
  <2>3. (IF 0 > n - 1 THEN 0 ELSE (n - 1) - 0 + 1) = n
    OBVIOUS
  <2> QED  BY <2>2, <2>3
<1> QED  BY <1>2, <1>3, FS_Bijection

\* Where an executor stands in its items.
LEMMA ItemsSoFar ==
  ASSUME JournalInv, NEW e \in Executor, pc[e] = "items"
  PROVE  \E n \in Nat : /\ tx[e].items = Numbered(db_id[e], n)
                        /\ Cardinality(ItemsWritten(e)) = n
<1>1. PICK n \in Nat : tx[e].items = Numbered(db_id[e], n)
  BY DEF JournalInv, Executing, Held
<1>2. \A i \in items : i.run_id # db_id[e]
  BY DEF JournalInv, Executing, Held, RecordedWhole, Ids
<1>3. \A i \in tx[e].items : i.run_id = db_id[e]
  BY <1>1 DEF Numbered
<1>4. ItemsWritten(e) = tx[e].items
  BY <1>2, <1>3 DEF ItemsWritten
<1> QED  BY <1>1, <1>4, NumberedCount

\* A commit adds a run with all of its items, and nothing else changes.
LEMMA CommitWhole ==
  ASSUME JournalInv, TypeInv', NEW e \in Executor, CanCommit(e), Apply(e),
         UNCHANGED <<next_id, computed, acknowledged>>,
         \A f \in Executor \ {e} : /\ pc'[f] = pc[f] /\ run'[f] = run[f]
                                   /\ db_id'[f] = db_id[f] /\ tx'[f] = tx[f],
         pc'[e] = "idle" \/ (pc'[e] = "reply" /\ run'[e] = run[e])
  PROVE  JournalInv'
<1> DEFINE id == db_id[e]
           uuid == run[e].run_id
           n == run[e].issues
<1>1. /\ pc[e] = "items" /\ Held(e) /\ Saving(e)
      /\ uuid <= computed /\ ~ InJournal(uuid)
  BY DEF CanCommit, JournalInv, Executing, Saving
<1>2. tx[e].headers = {HeaderOf(e)} /\ tx[e].items = Numbered(id, n)
  BY <1>1, ItemsSoFar DEF CanCommit, Held
<1>3. /\ headers' = headers \cup {HeaderOf(e)}
      /\ items' = items \cup Numbered(id, n)
  BY <1>2 DEF Apply
<1>4. HeaderOf(e).id = id /\ HeaderOf(e).run_id = uuid /\ HeaderOf(e).issues = n
  BY DEF HeaderOf
<1>5. \A h \in headers : h.id # id /\ h.run_id # uuid
  BY <1>1 DEF Held, InJournal
<1>6. id < next_id
  BY <1>1 DEF Held
<1> HIDE DEF id, uuid, n
<1>7. RecordedWhole'
  <2>1. ASSUME NEW h \in headers'
        PROVE  {i.ordinal : i \in {i \in items' : i.run_id = h.id}} = 0..(h.issues - 1)
    <3>1. CASE h \in headers
      <4>1. \A i \in Numbered(id, n) : i.run_id # h.id
        BY <1>5, <3>1 DEF Numbered
      <4>2. {i \in items' : i.run_id = h.id} = {i \in items : i.run_id = h.id}
        BY <1>3, <4>1
      <4> QED  BY <3>1, <4>2 DEF JournalInv, RecordedWhole
    <3>2. CASE h = HeaderOf(e)
      <4>1. \A i \in items : i.run_id # id
        BY <1>5 DEF JournalInv, RecordedWhole, Ids
      <4>2. {i \in items' : i.run_id = id} = Numbered(id, n)
        BY <1>3, <4>1 DEF Numbered
      <4>3. {i.ordinal : i \in Numbered(id, n)} = 0..(n - 1)
        <5>1. \A k \in 0..(n - 1) : [run_id |-> id, ordinal |-> k] \in Numbered(id, n)
          BY DEF Numbered
        <5>2. \A i \in Numbered(id, n) : i.ordinal \in 0..(n - 1)
          BY DEF Numbered
        <5>3. ASSUME NEW k \in 0..(n - 1) PROVE \E i \in Numbered(id, n) : i.ordinal = k
          <6>1. [run_id |-> id, ordinal |-> k].ordinal = k
            OBVIOUS
          <6> QED  BY <5>1, <6>1
        <5> QED  BY <5>2, <5>3
      <4> QED  BY <1>4, <3>2, <4>2, <4>3
    <3> QED  BY <1>3, <3>1, <3>2
  <2>2. \A i \in items' : i.run_id \in Ids(headers')
    <3>1. \A i \in items : i.run_id \in Ids(headers)
      BY DEF JournalInv, RecordedWhole
    <3>2. Ids(headers) \subseteq Ids(headers')
      <4>1. headers \subseteq headers'
        BY <1>3
      <4> QED  BY <4>1 DEF Ids
    <3>3. HeaderOf(e) \in headers'
      BY <1>3
    <3>4. id \in Ids(headers')
      BY <1>4, <3>3 DEF Ids
    <3>5. \A i \in Numbered(id, n) : i.run_id = id
      BY DEF Numbered
    <3> QED  BY <1>3, <3>1, <3>2, <3>4, <3>5
  <2>3. \A g, h \in headers' : g.id = h.id \/ g.run_id = h.run_id => g = h
    BY <1>3, <1>4, <1>5 DEF JournalInv, RecordedWhole
  <2> QED  BY <2>1, <2>2, <2>3 DEF RecordedWhole
<1>8. AcknowledgedIsDurable'
  <2>1. headers \subseteq headers'
    BY <1>3
  <2>2. {h.run_id : h \in headers} \subseteq {h.run_id : h \in headers'}
    BY <2>1
  <2> QED  BY <2>2 DEF JournalInv, AcknowledgedIsDurable
<1>9. Numbers'
  BY <1>1, <1>3, <1>4, <1>6 DEF JournalInv, Numbers
<1>10. Executing(e)'
  <2>1. ~ Saving(e)' /\ pc'[e] \notin {"header", "items"}
    BY DEF Saving
  <2>2. HeaderOf(e) \in headers' /\ HeaderOf(e).run_id = run[e].run_id
    BY <1>3, <1>4 DEF uuid
  <2>3. pc'[e] = "reply" => InJournal(run[e].run_id)' /\ run'[e] = run[e]
    BY <2>2 DEF InJournal
  <2> QED  BY <2>1, <2>3 DEF Executing, InJournal
<1>11. ASSUME NEW f \in Executor \ {e} PROVE Executing(f)'
  <2>1. Executing(f) /\ Apart(e, f) /\ Saving(e) /\ pc[e] = "items"
    BY <1>1 DEF JournalInv
  <2>2. pc[f] = "items" => Held(f)'
    BY <1>3, <1>4, <2>1 DEF Executing, Held, HeaderOf, Apart, id
  <2>3. Saving(f) => ~ InJournal(run[f].run_id)'
    BY <1>3, <1>4, <2>1 DEF Executing, InJournal, Apart, uuid
  <2>4. \A x : InJournal(x) => InJournal(x)'
    BY <1>3 DEF InJournal
  <2>5. Saving(f)' <=> Saving(f)
    BY DEF Saving
  <2> QED  BY <2>1, <2>2, <2>3, <2>4, <2>5 DEF Executing
<1>12. \A f, g \in Executor : Apart(f, g)'
  <2> SUFFICES ASSUME NEW f \in Executor, NEW g \in Executor PROVE Apart(f, g)'
    OBVIOUS
  <2>1. CASE f # e /\ g # e
    BY <2>1 DEF JournalInv, Apart, Saving
  <2>2. CASE f = e \/ g = e
    BY <2>2 DEF Apart, Saving
  <2> QED  BY <2>1, <2>2
<1> QED  BY <1>7, <1>8, <1>9, <1>10, <1>11, <1>12 DEF JournalInv
LEMMA JournalStep == JournalInv /\ [Next]_vars => JournalInv'
<1> SUFFICES ASSUME JournalInv, [Next]_vars PROVE JournalInv'
  OBVIOUS
<1>0. /\ TypeInv /\ TypeInv'
      /\ next_id \in Nat /\ computed \in Nat
  BY TypeStep DEF JournalInv, TypeInv, TypeOK
<1>1. ASSUME NEW e \in Executor, Request(e) PROVE JournalInv'
  <2>1. /\ headers' = headers /\ items' = items /\ next_id' = next_id /\ computed' = computed
        /\ acknowledged' = acknowledged /\ pc'[e] = "reading"
        /\ \A f \in Executor \ {e} : /\ pc'[f] = pc[f] /\ run'[f] = run[f]
                                     /\ db_id'[f] = db_id[f] /\ tx'[f] = tx[f]
    BY <1>0, <1>1 DEF Request, GoTo, journal, TypeInv, TypeOK
  <2>2. Executing(e)' /\ \A f \in Executor : Apart(e, f)' /\ Apart(f, e)'
    BY <2>1 DEF Executing, Apart, Saving
  <2>3. AcknowledgedIsDurable'
    BY <2>1 DEF JournalInv, AcknowledgedIsDurable
  <2> QED  BY <1>0, <2>1, <2>2, <2>3, OneMoves
\* The executor is through with its run and nothing is in the journal for it.
<1>2. ASSUME NEW e \in Executor, Leave(e), UNCHANGED journal, AcknowledgedIsDurable',
             computed' \in {computed, computed + 1}
      PROVE  JournalInv'
  <2>1. /\ headers' = headers /\ items' = items /\ next_id' = next_id
        /\ computed' >= computed /\ pc'[e] = "idle"
        /\ \A f \in Executor \ {e} : /\ pc'[f] = pc[f] /\ run'[f] = run[f]
                                     /\ db_id'[f] = db_id[f] /\ tx'[f] = tx[f]
    BY <1>0, <1>2 DEF Leave, GoTo, journal, TypeInv, TypeOK
  <2>2. Executing(e)' /\ \A f \in Executor : Apart(e, f)' /\ Apart(f, e)'
    BY <2>1 DEF Executing, Apart, Saving
  <2> QED  BY <1>0, <1>2, <2>1, <2>2, OneMoves
<1>3. ASSUME NEW e \in Executor, SourceFails(e) PROVE JournalInv'
  <2>1. AcknowledgedIsDurable'
    BY <1>3 DEF SourceFails, journal, JournalInv, AcknowledgedIsDurable
  <2> QED  BY <1>2, <1>3, <2>1 DEF SourceFails
<1>4. ASSUME NEW e \in Executor, SaveFails(e) PROVE JournalInv'
  <2>1. AcknowledgedIsDurable'
    BY <1>4 DEF SaveFails, journal, JournalInv, AcknowledgedIsDurable
  <2> QED  BY <1>2, <1>4, <2>1 DEF SaveFails
<1>5. ASSUME NEW e \in Executor, Reply(e) PROVE JournalInv'
  <2>1. /\ pc[e] = "reply" /\ headers' = headers
        /\ \/ acknowledged' = acknowledged
           \/ run[e].persist /\ acknowledged' = acknowledged \cup {run[e].run_id}
    BY <1>5 DEF Reply, journal
  <2>2. run[e].persist => \E h \in headers : h.run_id = run[e].run_id
    BY <2>1 DEF JournalInv, Executing, InJournal
  <2>3. acknowledged \subseteq {h.run_id : h \in headers}
    BY DEF JournalInv, AcknowledgedIsDurable
  <2>4. AcknowledgedIsDurable'
    BY <2>1, <2>2, <2>3 DEF AcknowledgedIsDurable
  <2> QED  BY <1>2, <1>5, <2>4 DEF Reply
\* A new run has an identifier that no run before it has.
<1>6. ASSUME NEW e \in Executor, Compute(e) PROVE JournalInv'
  <2>1. /\ headers' = headers /\ items' = items /\ next_id' = next_id
        /\ computed' = computed + 1 /\ acknowledged' = acknowledged
        /\ db_id' = db_id /\ tx' = tx
    BY <1>6 DEF Compute, journal
  <2>2. PICK d \in Delivery, n \in 0..MaxIssues, persist \in BOOLEAN :
          /\ run' = [run EXCEPT ![e] = [run_id |-> computed', spec_id |-> d,
                                        issues |-> n, persist |-> persist]]
          /\ pc' = [pc EXCEPT ![e] = IF persist THEN "begin" ELSE "reply"]
    BY <1>6 DEF Compute, GoTo
  <2>3. /\ run'[e].run_id = computed + 1
        /\ pc'[e] \in {"begin", "reply"} /\ (pc'[e] = "reply" => ~ run'[e].persist)
        /\ \A f \in Executor \ {e} : pc'[f] = pc[f] /\ run'[f] = run[f]
    BY <1>0, <2>1, <2>2 DEF TypeInv, TypeOK
  <2>4. \A h \in headers : h.run_id \in Nat /\ h.run_id <= computed
    BY DEF JournalInv, Numbers, TypeInv, TypeOK, Header
  <2>5. \A h \in headers : h.run_id # computed + 1
    BY <1>0, <2>4
  <2>6. computed + 1 <= computed + 1
    BY <1>0
  <2>7. Executing(e)'
    BY <2>1, <2>3, <2>5, <2>6 DEF Executing, Saving, InJournal
  <2>8. ASSUME NEW f \in Executor \ {e}, Saving(f) PROVE run[f].run_id # computed + 1
    <3>1. run[f].run_id \in Nat /\ run[f].run_id <= computed
      BY <2>8 DEF JournalInv, Executing, TypeInv, TypeOK
    <3> QED  BY <1>0, <3>1
  <2>9. \A f \in Executor : f # e => Apart(e, f)' /\ Apart(f, e)'
    BY <2>3, <2>8 DEF Apart, Saving
  <2>10. AcknowledgedIsDurable'
    BY <2>1 DEF JournalInv, AcknowledgedIsDurable
  <2>11. next_id' >= next_id /\ computed' >= computed
    BY <1>0, <2>1
  <2> QED  BY <1>0, <2>1, <2>3, <2>7, <2>9, <2>10, <2>11, OneMoves
<1>7. ASSUME NEW e \in Executor, Begin(e) PROVE JournalInv'
  <2>1. /\ headers' = headers /\ items' = items /\ next_id' = next_id /\ computed' = computed
        /\ acknowledged' = acknowledged /\ run' = run /\ db_id' = db_id
        /\ pc[e] = "begin" /\ pc'[e] = "header" /\ tx'[e] = [Closed EXCEPT !.open = TRUE]
        /\ \A f \in Executor \ {e} : pc'[f] = pc[f] /\ tx'[f] = tx[f]
    BY <1>0, <1>7 DEF Begin, GoTo, journal, TypeInv, TypeOK
  <2>2. Executing(e)'
    <3>1. Executing(e)
      BY DEF JournalInv
    <3> QED  BY <2>1, <3>1 DEF Executing, Saving, InJournal, Closed
  <2>3. \A f \in Executor : f # e => Apart(e, f)' /\ Apart(f, e)'
    BY <2>1 DEF JournalInv, Apart, Saving
  <2>4. AcknowledgedIsDurable'
    BY <2>1 DEF JournalInv, AcknowledgedIsDurable
  <2>5. next_id' >= next_id /\ computed' >= computed
    BY <1>0, <2>1
  <2> QED  BY <1>0, <2>1, <2>2, <2>3, <2>4, <2>5, OneMoves
<1>8. ASSUME NEW e \in Executor, InsertHeader(e) PROVE JournalInv'
  <2>1. /\ pc[e] = "header" /\ tx[e] = [Closed EXCEPT !.open = TRUE]
        /\ run[e].run_id <= computed /\ ~ InJournal(run[e].run_id)
    BY <1>8 DEF InsertHeader, JournalInv, Executing, Saving
  <2>2. tx[e].open /\ tx[e].headers = {} /\ tx[e].items = {}
    BY <2>1 DEF Closed
  <2>3. /\ headers' = headers /\ items' = items /\ next_id' = next_id + 1 /\ computed' = computed
        /\ acknowledged' = acknowledged /\ run' = run
        /\ pc'[e] = "items" /\ db_id'[e] = next_id
        /\ \A f \in Executor \ {e} : /\ pc'[f] = pc[f] /\ db_id'[f] = db_id[f]
    BY <1>0, <1>8, <2>2 DEF InsertHeader, GoTo, Write, TypeInv, TypeOK
  <2>4. tx' = [tx EXCEPT ![e].headers = @ \cup {HeaderOf(e)'}, ![e].items = @ \cup {}]
    BY <1>8, <2>2, <2>3 DEF InsertHeader, Write, HeaderOf
  <2> DEFINE H == HeaderOf(e)'
  <2> HIDE DEF H
  <2>5. tx' = [tx EXCEPT ![e].headers = @ \cup {H}, ![e].items = @ \cup {}]
    BY <2>4 DEF H
  <2>6. /\ tx'[e].open /\ tx'[e].headers = {H} /\ tx'[e].items = {}
        /\ \A f \in Executor \ {e} : tx'[f] = tx[f]
    BY <1>0, <2>2, <2>5 DEF TypeInv, TypeOK
  <2>7. Numbered(next_id, 0) = {}
    BY DEF Numbered
  <2>8. \A h \in headers : h.id # next_id
    <3>1. \A h \in headers : h.id \in Nat /\ h.id < next_id
      BY DEF JournalInv, Numbers, TypeInv, TypeOK, Header
    <3> QED  BY <1>0, <3>1
  <2>9. next_id < next_id + 1 /\ next_id + 1 >= next_id /\ computed >= computed
    BY <1>0
  <2>10. Held(e)'
    BY <2>3, <2>6, <2>7, <2>8, <2>9 DEF Held, H
  <2>11. Executing(e)'
    BY <2>1, <2>3, <2>10 DEF Executing, Saving, InJournal
  <2>12. ASSUME NEW f \in Executor \ {e}, pc[f] = "items" PROVE db_id[f] # next_id
    <3>1. db_id[f] \in Nat /\ db_id[f] < next_id
      BY <2>12 DEF JournalInv, Executing, Held, TypeInv, TypeOK
    <3> QED  BY <1>0, <3>1
  <2>13. \A f \in Executor : f # e => Apart(e, f)' /\ Apart(f, e)'
    BY <2>1, <2>3, <2>12 DEF JournalInv, Apart, Saving
  <2>14. AcknowledgedIsDurable'
    BY <2>3 DEF JournalInv, AcknowledgedIsDurable
  <2> QED  BY <1>0, <2>3, <2>6, <2>9, <2>11, <2>13, <2>14, OneMoves
<1>9. ASSUME NEW e \in Executor, InsertItem(e) PROVE JournalInv'
  <2>1. pc[e] = "items" /\ Held(e) /\ Executing(e)
    BY <1>9 DEF InsertItem, JournalInv, Executing
  <2>2. PICK n \in Nat : /\ tx[e].items = Numbered(db_id[e], n)
                         /\ Cardinality(ItemsWritten(e)) = n
    BY <2>1, ItemsSoFar
  <2> DEFINE i == [run_id |-> db_id[e], ordinal |-> n]
  <2>3. /\ tx[e].open
        /\ Write(e, {}, {i})
        /\ UNCHANGED <<next_id, computed, pc, run, db_id, acknowledged>>
    BY <1>9, <2>1, <2>2 DEF InsertItem, Held
  <2> HIDE DEF i
  <2>4. /\ headers' = headers /\ items' = items
        /\ tx' = [tx EXCEPT ![e].headers = @ \cup {}, ![e].items = @ \cup {i}]
    BY <2>3 DEF Write
  <2>5. /\ tx'[e].open /\ tx'[e].headers = tx[e].headers /\ tx'[e].items = tx[e].items \cup {i}
        /\ \A f \in Executor \ {e} : tx'[f] = tx[f]
    BY <1>0, <2>3, <2>4 DEF TypeInv, TypeOK
  <2>6. n + 1 \in Nat /\ 0..((n + 1) - 1) = 0..(n - 1) \cup {n}
    OBVIOUS
  <2>7. Numbered(db_id[e], n + 1) = Numbered(db_id[e], n) \cup {i}
    BY <2>6 DEF Numbered, i
  <2>8. Held(e)'
    BY <2>1, <2>2, <2>3, <2>4, <2>5, <2>6, <2>7 DEF Held, HeaderOf
  <2>9. Executing(e)'
    BY <2>1, <2>3, <2>4, <2>8 DEF Executing, Saving, InJournal
  <2>10. \A f \in Executor : f # e => Apart(e, f)' /\ Apart(f, e)'
    BY <2>3 DEF JournalInv, Apart, Saving
  <2>11. AcknowledgedIsDurable'
    BY <2>3, <2>4 DEF JournalInv, AcknowledgedIsDurable
  <2>12. next_id' >= next_id /\ computed' >= computed
    BY <1>0, <2>3
  <2> QED  BY <1>0, <2>3, <2>4, <2>5, <2>9, <2>10, <2>11, <2>12, OneMoves
<1>10. ASSUME NEW e \in Executor, Commit(e) \/ CommitAnswerLost(e) PROVE JournalInv'
  <2>1. /\ CanCommit(e) /\ Apply(e)
        /\ UNCHANGED <<next_id, computed, acknowledged>>
        /\ \A f \in Executor \ {e} : /\ pc'[f] = pc[f] /\ run'[f] = run[f]
                                     /\ db_id'[f] = db_id[f] /\ tx'[f] = tx[f]
        /\ pc'[e] = "idle" \/ (pc'[e] = "reply" /\ run'[e] = run[e])
    BY <1>0, <1>10 DEF Commit, CommitAnswerLost, Leave, GoTo, TypeInv, TypeOK
  <2> QED  BY <1>0, <2>1, CommitWhole
<1>11. CASE Crash
  <2>1. /\ UNCHANGED <<headers, items, next_id, computed, acknowledged>>
        /\ \A f \in Executor : pc'[f] = "idle"
    BY <1>11 DEF Crash, journal
  <2>2. \A f, g \in Executor : Executing(f)' /\ Apart(f, g)'
    BY <2>1 DEF Executing, Apart, Saving
  <2>3. RecordedWhole' /\ AcknowledgedIsDurable' /\ Numbers'
    BY <2>1 DEF JournalInv, RecordedWhole, AcknowledgedIsDurable, Numbers, Ids
  <2> QED  BY <1>0, <2>2, <2>3 DEF JournalInv
<1>12. CASE UNCHANGED <<headers, items, next_id, computed, pc, run, db_id, tx, acknowledged>>
  <2>1. RecordedWhole' /\ AcknowledgedIsDurable' /\ Numbers'
    BY <1>12 DEF JournalInv, RecordedWhole, AcknowledgedIsDurable, Numbers, Ids
  <2>2. \A f \in Executor : Executing(f)'
    BY <1>12 DEF JournalInv, Executing, Saving, Held, InJournal, HeaderOf
  <2>3. \A f, g \in Executor : Apart(f, g)'
    BY <1>12 DEF JournalInv, Apart, Saving
  <2> QED  BY <1>0, <2>1, <2>2, <2>3 DEF JournalInv
<1>13. ASSUME NEW r \in Reader, Read(r) PROVE JournalInv'
  BY <1>12, <1>13 DEF Read, Open, Count, Select, NextPage, journal
<1>14. CASE UNCHANGED vars
  BY <1>12, <1>14 DEF vars
<1> QED  BY <1>1, <1>3, <1>4, <1>5, <1>6, <1>7, <1>8, <1>9, <1>10, <1>11, <1>13, <1>14
         DEF Next, Execute, Save

LEMMA JournalSafe == Spec => []JournalInv
BY JournalInit, JournalStep, PTL DEF Spec

\* RecordedWhole: a run in the journal has each of its items.
THEOREM RunsAreRecordedWhole == Spec => []RecordedWhole
<1>1. JournalInv => RecordedWhole
  BY DEF JournalInv
<1> QED  BY <1>1, JournalSafe, PTL

\* AcknowledgedIsDurable: what a client was told is saved stays saved.
THEOREM AcknowledgedRunsStay == Spec => []AcknowledgedIsDurable
<1>1. JournalInv => AcknowledgedIsDurable
  BY DEF JournalInv
<1> QED  BY <1>1, JournalSafe, PTL
-----------------------------------------------------------------------------
(* The journal as a log.  What a run in the journal looks like is fixed by   *)
(* its header once all of its items are there (RecordedWhole), so the log    *)
(* changes only with the headers, and these only with a commit.              *)

\* The runs that are being saved are among those the log may take.
RunsBounded ==
  \A e \in Executor : Saving(e) => run[e].run_id \in 1..MaxRuns /\ run[e].issues \in 0..MaxIssues

LEMMA RunsBoundedInit == Init => RunsBounded
BY DEF Init, RunsBounded, Saving

LEMMA RunsBoundedStep == TypeInv /\ RunsBounded /\ [Next]_vars => RunsBounded'
<1> SUFFICES ASSUME TypeInv, RunsBounded, [Next]_vars PROVE RunsBounded'
  OBVIOUS
<1>1. ASSUME NEW e \in Executor, Compute(e) PROVE RunsBounded'
  <2>1. PICK d \in Delivery, n \in 0..MaxIssues, persist \in BOOLEAN :
          run' = [run EXCEPT ![e] = [run_id |-> computed', spec_id |-> d,
                                     issues |-> n, persist |-> persist]]
    BY <1>1 DEF Compute
  <2>2. computed' \in 1..MaxRuns
    BY <1>1, JournalAssumption DEF Compute, TypeInv, TypeOK
  <2>3. \A f \in Executor : f # e => run'[f] = run[f] /\ pc'[f] = pc[f]
    BY <1>1, <2>1 DEF Compute, GoTo, TypeInv, TypeOK
  <2>4. run'[e].run_id = computed' /\ run'[e].issues = n
    BY <2>1 DEF TypeInv, TypeOK
  <2> QED  BY <2>2, <2>3, <2>4 DEF RunsBounded, Saving
<1>2. ASSUME NEW e \in Executor, Leave(e) PROVE RunsBounded'
  BY <1>2 DEF Leave, GoTo, RunsBounded, Saving, TypeInv, TypeOK
<1>3. ASSUME NEW e \in Executor, run' = run,
             \A f \in Executor : Saving(f)' => Saving(f)
      PROVE  RunsBounded'
  BY <1>3 DEF RunsBounded
<1>4. ASSUME NEW e \in Executor, Execute(e) PROVE RunsBounded'
  <2>1. CASE Compute(e)
    BY <1>1, <2>1
  <2>2. CASE SourceFails(e) \/ CommitAnswerLost(e) \/ SaveFails(e) \/ Reply(e)
    BY <1>2, <2>2 DEF SourceFails, CommitAnswerLost, SaveFails, Reply
  <2>3. CASE Request(e) \/ Begin(e) \/ InsertHeader(e) \/ InsertItem(e) \/ Commit(e)
    <3>1. run' = run
      BY <2>3 DEF Request, Begin, InsertHeader, InsertItem, Commit
    <3>2. \A f \in Executor : Saving(f)' => Saving(f)
      BY <2>3 DEF Request, Begin, InsertHeader, InsertItem, Commit, CanCommit, GoTo, Saving, TypeInv, TypeOK
    <3> QED  BY <1>3, <3>1, <3>2
  <2> QED  BY <1>4, <2>1, <2>2, <2>3 DEF Execute, Save
<1>5. CASE Crash
  BY <1>5 DEF Crash, RunsBounded, Saving
<1>6. ASSUME NEW r \in Reader, Read(r) PROVE RunsBounded'
  <2>1. pc' = pc /\ run' = run
    BY <1>6 DEF Read, Open, Count, Select, NextPage
  <2> QED  BY <2>1 DEF RunsBounded, Saving
<1>7. CASE UNCHANGED vars
  BY <1>7 DEF vars, RunsBounded, Saving
<1> QED  BY <1>4, <1>5, <1>6, <1>7 DEF Next

\* What is stored of a run that is in the journal.
Whole(h) == [run_id |-> h.run_id, spec_id |-> h.spec_id, items |-> 0..(h.issues - 1)]

LEMMA LogIsWhole ==
  ASSUME RecordedWhole
  PROVE  {StoredRun(h) : h \in headers} = {Whole(h) : h \in headers}
<1>1. ASSUME NEW h \in headers PROVE StoredRun(h) = Whole(h)
  <2>1. {i.ordinal : i \in {j \in items : j.run_id = h.id}} = 0..(h.issues - 1)
    BY DEF RecordedWhole
  <2> QED  BY <2>1 DEF StoredRun, Whole
<1> QED  BY <1>1

LEMMA LogInit == Init => Log!Init
BY DEF Init, Log!Init

\* A commit records the run of its executor.
LEMMA CommitRecords ==
  ASSUME JournalInv, JournalInv', RunsBounded, NEW e \in Executor, CanCommit(e), Apply(e),
         UNCHANGED acknowledged
  PROVE  Log!Next
<1>1. /\ pc[e] = "items" /\ Held(e) /\ ~ InJournal(run[e].run_id)
      /\ run[e].run_id \in 1..MaxRuns /\ run[e].issues \in 0..MaxIssues /\ run[e].spec_id \in Delivery
  BY DEF CanCommit, JournalInv, Executing, Saving, RunsBounded, TypeInv, TypeOK
<1>2. headers' = headers \cup {HeaderOf(e)}
  BY <1>1 DEF Apply, Held
<1>3. PICK r : r = Whole(HeaderOf(e))
  OBVIOUS
<1>4. r = [run_id |-> run[e].run_id, spec_id |-> run[e].spec_id, items |-> 0..(run[e].issues - 1)]
  BY <1>3 DEF Whole, HeaderOf
<1>5. r \in Log!Runs
  BY <1>1, <1>4 DEF Log!Runs
<1>6. {Whole(h) : h \in headers}' = {Whole(h) : h \in headers} \cup {r}
  BY <1>2, <1>3
<1>7. ASSUME NEW s \in {Whole(h) : h \in headers} PROVE s.run_id # r.run_id
  <2>1. PICK h \in headers : s = Whole(h)
    OBVIOUS
  <2>2. s.run_id = h.run_id
    BY <2>1 DEF Whole
  <2> QED  BY <1>1, <1>4, <2>2 DEF InJournal
<1>8. r.run_id \notin {s.run_id : s \in {StoredRun(h) : h \in headers}}
  BY <1>7, LogIsWhole DEF JournalInv
<1>9. {StoredRun(h) : h \in headers}' = {StoredRun(h) : h \in headers} \cup {r}
  <2>1. {StoredRun(h) : h \in headers}' = {Whole(h) : h \in headers}'
    <3>1. ASSUME NEW h \in headers' PROVE StoredRun(h)' = Whole(h)
      <4>1. {i.ordinal : i \in {j \in items' : j.run_id = h.id}} = 0..(h.issues - 1)
        BY DEF JournalInv, RecordedWhole
      <4> QED  BY <4>1 DEF StoredRun, Whole
    <3> QED  BY <3>1
  <2> QED  BY <1>6, <2>1, LogIsWhole DEF JournalInv
<1>10. Log!Record(r)
  BY <1>8, <1>9 DEF Log!Record
<1> QED  BY <1>5, <1>10 DEF Log!Next

LEMMA LogStep ==
  JournalInv /\ JournalInv' /\ RunsBounded /\ [Next]_vars => [Log!Next]_(Log!vars)
<1> SUFFICES ASSUME JournalInv, JournalInv', RunsBounded, [Next]_vars
             PROVE  Log!Next \/ UNCHANGED Log!vars
  OBVIOUS
<1>1. ASSUME UNCHANGED <<headers, items, acknowledged>>
      PROVE  UNCHANGED Log!vars
  BY <1>1 DEF Log!vars, StoredRun
<1>2. ASSUME NEW e \in Executor, InsertHeader(e) \/ InsertItem(e)
      PROVE  UNCHANGED Log!vars
  <2>1. tx[e].open
    BY <1>2 DEF InsertHeader, InsertItem, JournalInv, Executing, Held, Closed
  <2>2. UNCHANGED <<headers, items, acknowledged>>
    BY <1>2, <2>1 DEF InsertHeader, InsertItem, Write
  <2> QED  BY <1>1, <2>2
<1>3. ASSUME NEW e \in Executor, Reply(e)
      PROVE  Log!Next \/ UNCHANGED Log!vars
  <2>1. PICK arrives \in BOOLEAN :
          acknowledged' = IF arrives /\ run[e].persist
                          THEN acknowledged \cup {run[e].run_id} ELSE acknowledged
    BY <1>3 DEF Reply
  <2>2. UNCHANGED <<headers, items>> /\ pc[e] = "reply"
    BY <1>3 DEF Reply, journal
  <2>3. CASE ~ (arrives /\ run[e].persist)
    BY <1>1, <2>1, <2>2, <2>3
  <2>4. CASE arrives /\ run[e].persist
    <3>1. PICK h \in headers : h.run_id = run[e].run_id
      BY <2>2, <2>4 DEF JournalInv, Executing, InJournal
    <3>2. PICK r : r = StoredRun(h)
      OBVIOUS
    <3>3. r \in {StoredRun(g) : g \in headers} /\ r.run_id = run[e].run_id
      BY <3>1, <3>2 DEF StoredRun
    <3>4. UNCHANGED {StoredRun(g) : g \in headers}
      BY <2>2 DEF StoredRun
    <3>5. Log!Acknowledge(r)
      BY <2>1, <2>4, <3>3, <3>4 DEF Log!Acknowledge
    <3> QED  BY <3>3, <3>5 DEF Log!Next
  <2> QED  BY <2>3, <2>4
<1>4. ASSUME NEW e \in Executor, Commit(e) \/ CommitAnswerLost(e)
      PROVE  Log!Next
  BY <1>4, CommitRecords DEF Commit, CommitAnswerLost
<1>5. ASSUME NEW e \in Executor,
             Request(e) \/ SourceFails(e) \/ Compute(e) \/ Begin(e) \/ SaveFails(e)
      PROVE  UNCHANGED Log!vars
  BY <1>1, <1>5 DEF Request, SourceFails, Compute, Begin, SaveFails, journal
<1>6. CASE Crash
  BY <1>1, <1>6 DEF Crash, journal
<1>7. ASSUME NEW r \in Reader, Read(r) PROVE UNCHANGED Log!vars
  BY <1>1, <1>7 DEF Read, Open, Count, Select, NextPage, journal
<1>8. CASE UNCHANGED vars
  BY <1>1, <1>8 DEF vars
<1> QED  BY <1>2, <1>3, <1>4, <1>5, <1>6, <1>7, <1>8 DEF Next, Execute, Save

\* The journal implements the log: whatever fails or crashes between the first
\* statement of save_run and its commit, a run is in the journal at once, whole
\* and for good, or never, and nothing else is acknowledged, for any number of
\* executors, runs, issues and crashes.
THEOREM JournalIsALog == Spec => SavedAtOnce
<1>1. Spec => []RunsBounded
  <2>1. JournalInv => TypeInv
    BY DEF JournalInv
  <2> QED  BY <2>1, JournalSafe, RunsBoundedInit, RunsBoundedStep, PTL DEF Spec
<1> QED  BY <1>1, JournalSafe, LogInit, LogStep, PTL DEF Spec, SavedAtOnce, Log!Spec
-----------------------------------------------------------------------------
(* Paging.  What a reader has not seen is at least as far down the journal   *)
(* as the reader has come: it only moves down as runs are added.             *)

Position(r) ==
  IF page[r].at \in {"more", "last"} THEN page[r].offset + Limit ELSE page[r].offset

Reading(r) ==
  /\ page[r].at = "idle" => seen[r] = {}
  /\ known[r] \subseteq Ids(headers)
  /\ \A id \in known[r] \ seen[r] : Position(r) <= Cardinality(NewerThan(id))
  /\ \A given \in known[r] \cap seen[r] : \A missing \in known[r] \ seen[r] : missing < given

PagingInv == TypeInv /\ \A r \in Reader : Reading(r)

LEMMA HeadersGrow == [Next]_vars => headers \subseteq headers'
<1>1. ASSUME NEW e \in Executor, Execute(e) PROVE headers \subseteq headers'
  BY <1>1 DEF Execute, Save, Request, SourceFails, Compute, Begin, InsertHeader, InsertItem,
    Write, Commit, CommitAnswerLost, Apply, SaveFails, Reply, journal
<1>2. ASSUME NEW r \in Reader, Read(r) PROVE headers \subseteq headers'
  BY <1>2 DEF Read, Open, Count, Select, NextPage, journal
<1> QED  BY <1>1, <1>2 DEF Next, Crash, vars, journal

LEMMA NewerCount ==
  ASSUME TypeInv, NEW id
  PROVE  IsFiniteSet(NewerThan(id)) /\ Cardinality(NewerThan(id)) \in Nat
<1>1. NewerThan(id) \subseteq headers /\ IsFiniteSet(headers)
  BY DEF NewerThan, TypeInv
<1> QED  BY <1>1, FS_Subset, FS_CardinalityType

\* Runs only move down.
LEMMA NewerGrows ==
  ASSUME TypeInv, TypeInv', headers \subseteq headers', NEW id
  PROVE  Cardinality(NewerThan(id)) <= Cardinality(NewerThan(id)')
<1> DEFINE after == NewerThan(id)'
           before == NewerThan(id)
<1>1. before \subseteq after
  BY DEF NewerThan
<1>2. IsFiniteSet(after)
  <2>1. after \subseteq headers' /\ IsFiniteSet(headers')
    BY DEF NewerThan, TypeInv
  <2> QED  BY <2>1, FS_Subset
<1> QED  BY <1>1, <1>2, FS_Subset

\* A reader whose own step does not change is not disturbed by the others.
LEMMA ReaderFrame ==
  ASSUME PagingInv, TypeInv', headers \subseteq headers', NEW r \in Reader,
         Position(r)' = Position(r), known'[r] = known[r], seen'[r] = seen[r],
         page'[r].at = "idle" => page[r].at = "idle"
  PROVE  Reading(r)'
<1>1. Reading(r) /\ TypeInv
  BY DEF PagingInv
<1>2. Ids(headers) \subseteq Ids(headers')
  BY DEF Ids
<1>3. ASSUME NEW id \in known[r] \ seen[r]
      PROVE  Position(r)' <= Cardinality(NewerThan(id)')
  <2>1. Position(r) <= Cardinality(NewerThan(id))
    BY <1>1, <1>3 DEF Reading
  <2>2. Cardinality(NewerThan(id)) <= Cardinality(NewerThan(id)')
    BY <1>1, NewerGrows
  <2>3. Cardinality(NewerThan(id)) \in Nat
    BY <1>1, NewerCount
  <2>4. Cardinality(NewerThan(id)') \in Nat
    <3>1. NewerThan(id)' \subseteq headers' /\ IsFiniteSet(headers')
      BY DEF NewerThan, TypeInv
    <3> QED  BY <3>1, FS_Subset, FS_CardinalityType
  <2>5. Position(r) \in Nat
    BY <1>1, JournalAssumption DEF Position, TypeInv, TypeOK
  <2> QED  BY <2>1, <2>2, <2>3, <2>4, <2>5
<1> QED  BY <1>1, <1>2, <1>3 DEF Reading, Ids

LEMMA PagingInit == Init => PagingInv
<1> SUFFICES ASSUME Init PROVE PagingInv
  OBVIOUS
<1>1. \A r \in Reader : known[r] = {} /\ seen[r] = {}
  BY DEF Init
<1> QED  BY <1>1, TypeInit DEF PagingInv, Reading

\* The page that a reader asks for: what it does not show is further down.
LEMMA SelectShows ==
  ASSUME PagingInv, TypeInv', NEW r \in Reader, Select(r)
  PROVE  Reading(r)'
<1> DEFINE o == page[r].offset
           shownNow == Ids(Rows(o))
<1>1. Reading(r) /\ TypeInv /\ o \in Nat /\ Limit \in Nat
  BY JournalAssumption DEF PagingInv, TypeInv, TypeOK
<1>2. /\ headers' = headers /\ known' = known /\ page[r].at = "counted"
      /\ seen'[r] = seen[r] \cup shownNow
      /\ page'[r].at \in {"more", "last"} /\ page'[r].offset = o
  BY <1>1 DEF Select, journal, TypeInv, TypeOK
<1>3. Position(r) = o /\ Position(r)' = o + Limit
  BY <1>2 DEF Position
<1> HIDE DEF o, shownNow
<1>4. ASSUME NEW id \in known[r] \ seen'[r]
      PROVE  o + Limit <= Cardinality(NewerThan(id))
  <2>1. PICK h \in headers : h.id = id
    BY <1>1, <1>4 DEF Reading, Ids
  <2>2. o <= Cardinality(NewerThan(id))
    BY <1>1, <1>2, <1>3, <1>4 DEF Reading
  <2>3. Cardinality(NewerThan(id)) < o + Limit => h \in Rows(o)
    BY <2>1, <2>2 DEF Rows
  <2>4. h \in Rows(o) => id \in shownNow
    BY <2>1 DEF shownNow, Ids
  <2>5. ~ Cardinality(NewerThan(id)) < o + Limit
    BY <1>2, <1>4, <2>3, <2>4
  <2>6. Cardinality(NewerThan(id)) \in Nat
    BY <1>1, NewerCount
  <2> QED  BY <1>1, <2>5, <2>6
<1>5. ASSUME NEW given \in known[r] \cap seen'[r], NEW missing \in known[r] \ seen'[r]
      PROVE  missing < given
  <2>1. CASE given \in seen[r]
    BY <1>1, <1>2, <2>1 DEF Reading
  <2>2. CASE given \in shownNow
    <3>1. Cardinality(NewerThan(given)) < o + Limit
      BY <2>2 DEF shownNow, Ids, Rows
    <3>2. o + Limit <= Cardinality(NewerThan(missing))
      BY <1>4
    <3>3. /\ Cardinality(NewerThan(given)) \in Nat /\ Cardinality(NewerThan(missing)) \in Nat
          /\ IsFiniteSet(NewerThan(given))
      BY <1>1, NewerCount
    <3>4. given \in Nat /\ missing \in Nat /\ \A h \in headers : h.id \in Nat
      BY <1>1 DEF TypeInv, TypeOK, Header
    <3>5. ASSUME ~ missing < given PROVE FALSE
      <4>1. NewerThan(missing) \subseteq NewerThan(given)
        <5>1. \A h \in headers : h.id > missing => h.id > given
          BY <3>4, <3>5
        <5> QED  BY <5>1 DEF NewerThan
      <4>2. Cardinality(NewerThan(missing)) <= Cardinality(NewerThan(given))
        BY <3>3, <4>1, FS_Subset
      <4>3. o + Limit \in Nat
        BY <1>1
      <4> QED  BY <3>1, <3>2, <3>3, <4>2, <4>3
    <3> QED  BY <3>5
  <2> QED  BY <1>2, <2>1, <2>2
<1>6. \A id : NewerThan(id)' = NewerThan(id)
  BY <1>2 DEF NewerThan
<1> QED  BY <1>1, <1>2, <1>3, <1>4, <1>5, <1>6 DEF Reading, Ids

LEMMA PagingStep == PagingInv /\ [Next]_vars => PagingInv'
<1> SUFFICES ASSUME PagingInv, [Next]_vars PROVE PagingInv'
  OBVIOUS
<1>0. TypeInv /\ TypeInv' /\ headers \subseteq headers'
  BY TypeStep, HeadersGrow DEF PagingInv
<1>1. CASE UNCHANGED reading
  BY <1>0, <1>1, ReaderFrame DEF reading, Position, PagingInv
<1>2. ASSUME NEW r \in Reader, Read(r) PROVE PagingInv'
  <2>1. ASSUME NEW q \in Reader, q # r PROVE Reading(q)'
    <3>1. page'[q] = page[q] /\ known'[q] = known[q] /\ seen'[q] = seen[q]
      BY <1>0, <1>2, <2>1 DEF Read, Open, Count, Select, NextPage, TypeInv, TypeOK
    <3> QED  BY <1>0, <3>1, ReaderFrame DEF Position
  <2>2. ASSUME Open(r) PROVE Reading(r)'
    <3>1. /\ seen'[r] = {} /\ known'[r] = Ids(headers) /\ headers' = headers
          /\ page'[r].at = "open" /\ page'[r].offset = 0
      BY <1>0, <2>2 DEF Open, journal, PagingInv, Reading, TypeInv, TypeOK
    <3>2. Position(r)' = 0
      BY <3>1 DEF Position
    <3>3. ASSUME NEW id PROVE 0 <= Cardinality(NewerThan(id)')
      <4>1. NewerThan(id)' = NewerThan(id)
        BY <3>1 DEF NewerThan
      <4>2. Cardinality(NewerThan(id)) \in Nat
        BY <1>0, NewerCount
      <4> QED  BY <4>1, <4>2
    <3>4. Ids(headers)' = Ids(headers)
      BY <3>1 DEF Ids
    <3> QED  BY <3>1, <3>2, <3>3, <3>4 DEF Reading
  <2>3. ASSUME Count(r) \/ NextPage(r) PROVE Reading(r)'
    <3>1. /\ known' = known /\ seen' = seen
          /\ \/ Count(r) /\ page' = [page EXCEPT ![r].at = "counted", ![r].total = Cardinality(headers)]
             \/ NextPage(r) /\ page' = [page EXCEPT ![r].at = "open", ![r].offset = @ + Limit]
      BY <2>3 DEF Count, NextPage
    <3>2. /\ known'[r] = known[r] /\ seen'[r] = seen[r]
          /\ \/ /\ page[r].at = "open" /\ page'[r].at = "counted"
                /\ page'[r].offset = page[r].offset
             \/ /\ page[r].at = "more" /\ page'[r].at = "open"
                /\ page'[r].offset = page[r].offset + Limit
      BY <1>0, <3>1 DEF Count, NextPage, TypeInv, TypeOK
    <3>3. Position(r)' = Position(r) /\ page'[r].at # "idle"
      BY <3>2 DEF Position
    <3> QED  BY <1>0, <3>2, <3>3, ReaderFrame
  <2>4. ASSUME Select(r) PROVE Reading(r)'
    BY <1>0, <2>4, SelectShows
  <2> QED  BY <1>0, <1>2, <2>1, <2>2, <2>3, <2>4 DEF Read, PagingInv
<1>3. ASSUME NEW e \in Executor, Execute(e) PROVE UNCHANGED reading
  BY <1>3 DEF Execute, Save, Request, SourceFails, Compute, Begin, InsertHeader, InsertItem,
    Commit, CommitAnswerLost, SaveFails, Reply, reading
<1> QED  BY <1>1, <1>2, <1>3 DEF Next, Crash, vars, reading

\* PagingSkipsNothing: paging on while others save skips no run, for any length
\* of a page and any number of readers.
THEOREM PagesSkipNothing == Spec => []PagingSkipsNothing
<1>1. PagingInv => PagingSkipsNothing
  BY DEF PagingInv, Reading, PagingSkipsNothing
<1> QED  BY <1>1, PagingInit, PagingStep, PTL DEF Spec

-----------------------------------------------------------------------------
(* The comments on issues.                                                   *)

CommentRows == [id : Nat, run : Run, key : Key, text : Texts, user_login : User, updated_at : Nat]
Posts == [id : Nat, user : User, run : Run, key : Key, text : Texts, row : BOOLEAN,
          at : {"sent", "stored", "refused"}]
Kept == [text : Texts, saved : BOOLEAN]
StatusWord == {"dirty", "saving", "saved", "error"}

-----------------------------------------------------------------------------
(* The invariant.  A row holds a text stored for its key, was changed no     *)
(* later than the key was stored last, and is the only one of its run and    *)
(* key; ids count the rows.  If the last store of a key was alone in its     *)
(* second and changed a row, that row is later than the others of the key.   *)

Ordered ==
  /\ IsFiniteSet(table)
  /\ \A c \in table : c.id \in 1..Cardinality(table)
  /\ \A c, d \in table : c.id = d.id \/ (c.run = d.run /\ c.key = d.key) => c = d

Recorded ==
  /\ table \subseteq CommentRows /\ clock \in Nat
  /\ stored \in [Key -> SUBSET Texts]
  /\ last \in [Key -> [text : Texts, at : Nat, changed : BOOLEAN, alone : BOOLEAN]]
  /\ \A k \in Key : last[k].at <= clock
  /\ \A c \in table : c.text \in stored[c.key] /\ c.updated_at <= last[c.key].at

Above(k, c) == c.text = last[k].text /\ \A d \in Of(k) \ {c} : d.updated_at < c.updated_at
LastAbove == \A k \in Key : last[k].changed /\ last[k].alone => \E c \in Of(k) : Above(k, c)

PostsInv ==
  /\ posts \subseteq Posts /\ clicks \in Nat
  /\ \A p \in posts : p.at = "stored" => p.text \in stored[p.key]

PagesInv ==
  /\ shown \in [User -> Run \cup {0}]
  /\ feedback \in [User -> [Key -> Kept]]
  /\ status \in [User -> [Key -> StatusWord]]
  /\ SavedWasStored

TableInv == Ordered /\ Recorded /\ LastAbove
CommentsInv == TableInv /\ PostsInv /\ PagesInv

-----------------------------------------------------------------------------
\* ORDER BY updated_at DESC, id DESC has a first row.
LEMMA LatestIsThere ==
  ASSUME TableInv, NEW k \in Key, Of(k) # {}
  PROVE  Latest(k) \in Of(k)
<1> DEFINE N == Cardinality(table)
<1>1. /\ N \in Nat /\ clock \in Nat
      /\ \A c \in Of(k) : /\ c \in table /\ c.updated_at \in Nat /\ c.updated_at <= clock
                          /\ c.id \in Nat /\ c.id <= N
  <2>1. N \in Nat
    BY FS_CardinalityType DEF TableInv, Ordered
  <2>2. ASSUME NEW c \in Of(k)
        PROVE  /\ c \in table /\ c.updated_at \in Nat /\ c.updated_at <= clock
               /\ c.id \in Nat /\ c.id <= N
    <3>1. c \in table /\ c.key = k /\ c \in CommentRows /\ c.id \in 1..N
      BY DEF Of, TableInv, Ordered, Recorded
    <3>2. c.updated_at <= last[k].at /\ last[k].at <= clock /\ last[k].at \in Nat /\ clock \in Nat
      BY <3>1 DEF TableInv, Recorded
    <3>3. c.updated_at \in Nat
      BY <3>1 DEF CommentRows
    <3> QED  BY <2>1, <3>1, <3>2, <3>3
  <2> QED  BY <2>1, <2>2 DEF TableInv, Recorded
<1> HIDE DEF N
<1>2. PICK c \in Of(k) : \A d \in Of(k) : d.updated_at <= c.updated_at
  <2> DEFINE A == {clock - e.updated_at : e \in Of(k)}
  <2>1. A \in SUBSET Nat /\ A # {}
    BY <1>1
  <2>2. PICK x \in A : \A y \in A : x <= y
    BY <2>1, LeastNumber
  <2>3. PICK c \in Of(k) : x = clock - c.updated_at
    BY <2>2
  <2>4. \A d \in Of(k) : x <= clock - d.updated_at
    BY <2>2
  <2>5. \A d \in Of(k) : d.updated_at <= c.updated_at
    BY <1>1, <2>3, <2>4
  <2> QED  BY <2>5
<1>3. PICK m \in Of(k) : /\ m.updated_at = c.updated_at
                         /\ \A d \in Of(k) : d.updated_at = c.updated_at => d.id <= m.id
  <2> DEFINE B == {e \in Of(k) : e.updated_at = c.updated_at}
             A == {N - e.id : e \in B}
  <2>1. A \in SUBSET Nat /\ A # {}
    BY <1>1
  <2>2. PICK x \in A : \A y \in A : x <= y
    BY <2>1, LeastNumber
  <2>3. PICK m \in B : x = N - m.id
    BY <2>2
  <2>4. \A d \in B : x <= N - d.id
    BY <2>2
  <2>5. \A d \in B : d.id <= m.id
    BY <1>1, <2>3, <2>4
  <2> QED  BY <2>3, <2>5
<1>4. \A d \in Of(k) \ {m} : First(m, d)
  <2> SUFFICES ASSUME NEW d \in Of(k), d # m PROVE First(m, d)
    OBVIOUS
  <2>1. d.id # m.id
    BY <1>1 DEF TableInv, Ordered
  <2> QED  BY <1>1, <1>2, <1>3, <2>1 DEF First
<1> QED  BY <1>4 DEF Latest

\* A row that is later than the others of its key is the first.
LEMMA LatestIsAbove ==
  ASSUME TableInv, NEW k \in Key, NEW c \in Of(k),
         \A d \in Of(k) \ {c} : d.updated_at < c.updated_at
  PROVE  Latest(k) = c
<1>1. \A d \in Of(k) : d.updated_at \in Nat /\ d.id \in Nat
  BY DEF Of, TableInv, Recorded, CommentRows
<1>2. \A d \in Of(k) \ {c} : First(c, d)
  BY <1>1 DEF First
<1>3. ASSUME NEW e \in Of(k), \A d \in Of(k) \ {e} : First(e, d), e # c PROVE FALSE
  <2>1. First(e, c) /\ e.updated_at < c.updated_at
    BY <1>3
  <2> QED  BY <1>1, <2>1 DEF First
<1>4. /\ Latest(k) \in Of(k)
      /\ \A d \in Of(k) \ {Latest(k)} : First(Latest(k), d)
  BY <1>2 DEF Latest
<1> QED  BY <1>3, <1>4

-----------------------------------------------------------------------------
(* A store writes one row, the one of its run and key.                       *)

LEMMA RowWritten ==
  ASSUME TableInv, NEW p \in Posts, NEW t, t = Upsert(p)
  PROVE  \E c \in CommentRows :
           /\ t = {d \in table : ~ (d.run = p.run /\ d.key = p.key)} \cup {c}
           /\ c.run = p.run /\ c.key = p.key /\ c.text = p.text
           /\ t = table \/ c.updated_at = clock
           /\ c \in table \/ c.updated_at = clock
           /\ IsFiniteSet(t) /\ Cardinality(table) <= Cardinality(t)
           /\ c.id \in 1..Cardinality(t)
           /\ \A d \in table : d.id = c.id => d.run = p.run /\ d.key = p.key
<1> DEFINE old == {c \in table : c.run = p.run /\ c.key = p.key}
           rest == {d \in table : ~ (d.run = p.run /\ d.key = p.key)}
           new(id, at) == [id |-> id, run |-> p.run, key |-> p.key, text |-> p.text,
                           user_login |-> p.user, updated_at |-> at]
           N == Cardinality(table)
<1>1. /\ p.run \in Run /\ p.key \in Key /\ p.text \in Texts /\ p.user \in User
  BY DEF Posts
<1>2. IsFiniteSet(table) /\ N \in Nat /\ clock \in Nat /\ table \subseteq CommentRows
  BY FS_CardinalityType DEF TableInv, Ordered, Recorded
<1>3. ASSUME NEW id \in Nat, NEW at \in Nat
      PROVE  /\ new(id, at) \in CommentRows /\ new(id, at).id = id /\ new(id, at).run = p.run
             /\ new(id, at).key = p.key /\ new(id, at).text = p.text
             /\ new(id, at).updated_at = at
  BY <1>1 DEF CommentRows
<1>4. CASE old = {}
  <2> DEFINE c == new(N + 1, clock)
  <2>1. /\ c \in CommentRows /\ c.id = N + 1 /\ c.run = p.run /\ c.key = p.key /\ c.text = p.text
        /\ c.updated_at = clock
    BY <1>2, <1>3
  <2>2. t = table \cup {c}
    BY <1>4 DEF Upsert
  <2> HIDE DEF c
  <2>3. rest = table
    BY <1>4
  <2>4. c \notin table
    BY <1>4, <2>1
  <2>5. IsFiniteSet(t) /\ Cardinality(t) = N + 1
    BY <1>2, <2>2, <2>4, FS_AddElement
  <2>6. c.id \in 1..Cardinality(t) /\ N <= Cardinality(t)
    BY <1>2, <2>1, <2>5
  <2>7. \A d \in table : d.id # c.id
    BY <1>2, <2>1 DEF TableInv, Ordered
  <2> QED  BY <2>1, <2>2, <2>3, <2>5, <2>6, <2>7
<1>5. CASE old # {}
  <2> DEFINE o == CHOOSE c \in old : TRUE
             same == o.text = p.text /\ o.user_login = p.user
             c == new(o.id, IF same THEN o.updated_at ELSE clock)
  <2>1. o \in old
    BY <1>5
  <2>2. t = (table \ old) \cup {c}
    BY <1>5 DEF Upsert
  <2>3. o \in table /\ o.run = p.run /\ o.key = p.key
    BY <2>1
  <2>4. o.id \in Nat /\ o.updated_at \in Nat /\ o.id \in 1..N
    BY <1>2, <2>3 DEF TableInv, Ordered, CommentRows
  <2>5. same => c = o
    BY <1>2, <2>3 DEF CommentRows
  <2>6. /\ c \in CommentRows /\ c.id = o.id /\ c.run = p.run /\ c.key = p.key /\ c.text = p.text
        /\ c.updated_at = IF same THEN o.updated_at ELSE clock
    BY <1>2, <1>3, <2>4
  <2> HIDE DEF o, c
  <2>7. old = {o}
    <3>1. \A d \in old : d = o
      BY <2>3 DEF TableInv, Ordered
    <3> QED  BY <2>1, <3>1
  <2>8. rest = table \ old
    OBVIOUS
  <2>9. same => t = table
    BY <2>2, <2>5, <2>7, <2>3
  <2>10. c \in table \/ c.updated_at = clock
    BY <2>3, <2>5, <2>6
  <2>11. IsFiniteSet(t) /\ Cardinality(t) = N
    <3>1. IsFiniteSet(table \ {o}) /\ Cardinality(table \ {o}) = N - 1
      BY <1>2, <2>3, FS_RemoveElement
    <3>2. c \notin table \ {o}
      BY <2>3, <2>6, <2>7
    <3>3. t = (table \ {o}) \cup {c}
      BY <2>2, <2>7
    <3>4. IsFiniteSet(t) /\ Cardinality(t) = N - 1 + 1
      BY <3>1, <3>2, <3>3, FS_AddElement
    <3> QED  BY <1>2, <3>4
  <2>12. \A d \in table : d.id = c.id => d.run = p.run /\ d.key = p.key
    BY <2>3, <2>6 DEF TableInv, Ordered
  <2>13. t = table \/ c.updated_at = clock
    BY <2>6, <2>9
  <2>14. c.id \in 1..Cardinality(t) /\ N <= Cardinality(t)
    BY <1>2, <2>4, <2>6, <2>11
  <2> QED  BY <2>2, <2>6, <2>8, <2>10, <2>11, <2>12, <2>13, <2>14
<1> QED  BY <1>4, <1>5

LEMMA StoreKeepsTable ==
  ASSUME CommentsInv, NEW p \in posts, Store(p)
  PROVE  TableInv'
<1>1. p \in Posts /\ table' = Upsert(p) /\ clock' = clock
  BY DEF CommentsInv, PostsInv, Store
<1>2. PICK c \in CommentRows :
        /\ table' = {d \in table : ~ (d.run = p.run /\ d.key = p.key)} \cup {c}
        /\ c.run = p.run /\ c.key = p.key /\ c.text = p.text
        /\ table' = table \/ c.updated_at = clock
        /\ c \in table \/ c.updated_at = clock
        /\ IsFiniteSet(table') /\ Cardinality(table) <= Cardinality(table')
        /\ c.id \in 1..Cardinality(table')
        /\ \A d \in table : d.id = c.id => d.run = p.run /\ d.key = p.key
  <2>1. TableInv
    BY DEF CommentsInv
  <2> QED  BY <1>1, <2>1, RowWritten
<1>3. p.key \in Key /\ p.text \in Texts
  BY <1>1 DEF Posts
<1>4. /\ stored' = [stored EXCEPT ![p.key] = @ \cup {p.text}]
      /\ last' = [last EXCEPT ![p.key] =
           [text |-> p.text, at |-> clock, changed |-> table' # table,
            alone |-> stored[p.key] = {} \/ last[p.key].at # clock]]
  BY <1>3 DEF Store, CommentsInv, TableInv, Recorded
<1>5. /\ \A k \in Key : k # p.key => stored'[k] = stored[k] /\ last'[k] = last[k]
      /\ p.text \in stored'[p.key] /\ \A k \in Key : stored[k] \subseteq stored'[k]
      /\ last'[p.key].text = p.text /\ last'[p.key].at = clock
      /\ last'[p.key].changed = (table' # table)
      /\ last'[p.key].alone = (stored[p.key] = {} \/ last[p.key].at # clock)
  BY <1>3, <1>4 DEF CommentsInv, TableInv, Recorded
<1>6. Ordered'
  <2>1. \A d \in table' : d.id \in 1..Cardinality(table')
    <3>1. Cardinality(table) \in Nat /\ Cardinality(table') \in Nat
      BY <1>2, FS_CardinalityType DEF CommentsInv, TableInv, Ordered
    <3>2. \A d \in table : d.id \in 1..Cardinality(table)
      BY DEF CommentsInv, TableInv, Ordered
    <3> QED  BY <1>2, <3>1, <3>2
  <2>2. ASSUME NEW d \in table', NEW e \in table',
               d.id = e.id \/ (d.run = e.run /\ d.key = e.key)
        PROVE  d = e
    <3>1. CASE d \in table /\ e \in table
      BY <2>2, <3>1 DEF CommentsInv, TableInv, Ordered
    <3>2. CASE d # c /\ e = c
      BY <1>2, <2>2, <3>2
    <3>3. CASE e # c /\ d = c
      BY <1>2, <2>2, <3>3
    <3> QED  BY <1>2, <2>2, <3>1, <3>2, <3>3
  <2> QED  BY <1>2, <2>1, <2>2 DEF Ordered
<1>7. Recorded'
  <2>1. table' \subseteq CommentRows /\ clock' \in Nat
    BY <1>1, <1>2 DEF CommentsInv, TableInv, Recorded
  <2>2. stored' \in [Key -> SUBSET Texts]
    BY <1>3, <1>4 DEF CommentsInv, TableInv, Recorded
  <2>3. last' \in [Key -> [text : Texts, at : Nat, changed : BOOLEAN, alone : BOOLEAN]]
    BY <1>3, <1>4 DEF CommentsInv, TableInv, Recorded
  <2>4. \A k \in Key : last'[k].at <= clock' /\ last[k].at <= last'[k].at
    BY <1>1, <1>5, <2>3 DEF CommentsInv, TableInv, Recorded
  <2>5. ASSUME NEW d \in table'
        PROVE  d.text \in stored'[d.key] /\ d.updated_at <= last'[d.key].at
    <3>1. CASE d \in table
      <4>1. /\ d.key \in Key /\ d.updated_at \in Nat /\ d.text \in stored[d.key]
            /\ d.updated_at <= last[d.key].at /\ last[d.key].at \in Nat
        BY <3>1 DEF CommentsInv, TableInv, Recorded, CommentRows
      <4>2. last'[d.key].at \in Nat
        BY <2>3, <4>1
      <4> QED  BY <1>5, <2>4, <4>1, <4>2
    <3>2. CASE d = c /\ c.updated_at = clock
      BY <1>2, <1>5, <2>1, <1>1, <3>2
    <3> QED  BY <1>2, <3>1, <3>2
  <2> QED  BY <2>1, <2>2, <2>3, <2>4, <2>5 DEF Recorded
<1>8. LastAbove'
  <2> SUFFICES ASSUME NEW k \in Key, last'[k].changed, last'[k].alone
               PROVE  \E e \in Of(k)' : Above(k, e)'
    BY DEF LastAbove
  <2>1. CASE k # p.key
    <3>1. Of(k)' = Of(k)
      BY <1>2, <2>1 DEF Of
    <3>2. last'[k] = last[k]
      BY <1>5, <2>1
    <3>3. PICK e \in Of(k) : Above(k, e)
      BY <3>2 DEF CommentsInv, TableInv, LastAbove
    <3> QED  BY <3>1, <3>2, <3>3 DEF Above
  <2>2. CASE k = p.key
    <3>1. table' # table /\ (stored[k] = {} \/ last[k].at # clock)
      BY <1>5, <2>2
    <3>2. c.updated_at = clock /\ clock \in Nat
      BY <1>2, <3>1 DEF CommentsInv, TableInv, Recorded
    <3>3. c \in Of(k)'
      BY <1>2, <2>2 DEF Of
    <3>4. ASSUME NEW d \in Of(k)' \ {c} PROVE d.updated_at < c.updated_at
      <4>1. d \in table /\ d.key = k
        BY <1>2, <3>4 DEF Of
      <4>2. d.text \in stored[k] /\ d.updated_at <= last[k].at /\ last[k].at <= clock
            /\ last[k].at \in Nat
        BY <4>1 DEF CommentsInv, TableInv, Recorded
      <4>3. d.updated_at \in Nat
        BY <4>1 DEF CommentsInv, TableInv, Recorded, CommentRows
      <4> QED  BY <3>1, <3>2, <4>2, <4>3
    <3>5. c.text = last'[k].text
      BY <1>2, <1>5, <2>2
    <3> QED  BY <3>3, <3>4, <3>5 DEF Above
  <2> QED  BY <2>1, <2>2
<1> QED  BY <1>6, <1>7, <1>8 DEF TableInv

LEMMA SameTable ==
  ASSUME TableInv, UNCHANGED record, clock' \in {clock, clock + 1}
  PROVE  TableInv'
<1>1. Ordered' /\ LastAbove'
  BY DEF TableInv, Ordered, LastAbove, Above, Of, record
<1>2. clock \in Nat /\ clock' \in Nat /\ clock <= clock'
  BY DEF TableInv, Recorded
<1>3. \A k \in Key : last[k].at \in Nat /\ last[k].at <= clock
  BY DEF TableInv, Recorded
<1>4. \A k \in Key : last[k].at <= clock'
  BY <1>2, <1>3
<1>5. Recorded'
  BY <1>2, <1>4 DEF TableInv, Recorded, record
<1> QED  BY <1>1, <1>5 DEF TableInv

-----------------------------------------------------------------------------
(* The saves under way.                                                      *)

LEMMA PostTyped ==
  ASSUME NEW p \in Posts
  PROVE  /\ p.user \in User /\ p.run \in Run /\ p.key \in Key /\ p.text \in Texts
         /\ [p EXCEPT !.row = FALSE] \in Posts
         /\ [p EXCEPT !.row = FALSE].key = p.key
         /\ [p EXCEPT !.row = FALSE].text = p.text
         /\ [p EXCEPT !.row = FALSE].at = p.at
         /\ \A s \in {"sent", "stored", "refused"} :
              /\ [p EXCEPT !.at = s] \in Posts /\ [p EXCEPT !.at = s].at = s
              /\ [p EXCEPT !.at = s].key = p.key /\ [p EXCEPT !.at = s].text = p.text
BY DEF Posts

\* Saves that leave, lose their row or are refused; what is stored stays.
LEMMA PostsThin ==
  ASSUME PostsInv, clicks' = clicks, UNCHANGED stored,
         \A q \in posts' : \/ q \in posts
                           \/ \E p \in posts : q = [p EXCEPT !.row = FALSE]
                           \/ \E p \in posts : q = [p EXCEPT !.at = "refused"]
  PROVE  PostsInv'
<1> SUFFICES ASSUME NEW q \in posts'
             PROVE  q \in Posts /\ (q.at = "stored" => q.text \in stored[q.key])
  BY DEF PostsInv
<1>1. CASE q \in posts
  BY <1>1 DEF PostsInv
<1>2. ASSUME NEW p \in posts, q = [p EXCEPT !.row = FALSE]
      PROVE  q \in Posts /\ (q.at = "stored" => q.text \in stored[q.key])
  <2>1. p \in Posts /\ (p.at = "stored" => p.text \in stored[p.key])
    BY DEF PostsInv
  <2> QED  BY <1>2, <2>1, PostTyped
<1>3. ASSUME NEW p \in posts, q = [p EXCEPT !.at = "refused"]
      PROVE  q \in Posts /\ (q.at = "stored" => q.text \in stored[q.key])
  <2>1. p \in Posts
    BY DEF PostsInv
  <2>2. q \in Posts /\ q.at = "refused"
    BY <1>3, <2>1, PostTyped
  <2> QED  BY <2>2
<1> QED  BY <1>1, <1>2, <1>3

LEMMA StoreKeepsPosts ==
  ASSUME CommentsInv, NEW p \in posts, Store(p)
  PROVE  PostsInv'
<1>1. /\ p \in Posts /\ clicks' = clicks
      /\ stored' = [stored EXCEPT ![p.key] = @ \cup {p.text}]
      /\ posts' = (posts \ {p}) \cup {[p EXCEPT !.at = "stored"]}
  BY DEF CommentsInv, PostsInv, Store, Move
<1>2. p.key \in Key /\ stored \in [Key -> SUBSET Texts]
  BY <1>1, PostTyped DEF CommentsInv, TableInv, Recorded
<1>3. /\ p.text \in stored'[p.key] /\ \A k \in Key : stored[k] \subseteq stored'[k]
  BY <1>1, <1>2
<1> SUFFICES ASSUME NEW q \in posts'
             PROVE  q \in Posts /\ (q.at = "stored" => q.text \in stored'[q.key])
  BY <1>1 DEF CommentsInv, PostsInv
<1>4. CASE q \in posts
  <2>1. q \in Posts /\ (q.at = "stored" => q.text \in stored[q.key])
    BY <1>4 DEF CommentsInv, PostsInv
  <2>2. q.key \in Key
    BY <2>1, PostTyped
  <2> QED  BY <1>3, <2>1, <2>2
<1>5. CASE q = [p EXCEPT !.at = "stored"]
  <2>1. q \in Posts /\ q.key = p.key /\ q.text = p.text
    BY <1>1, <1>5, PostTyped
  <2> QED  BY <1>3, <2>1
<1> QED  BY <1>1, <1>4, <1>5

-----------------------------------------------------------------------------
(* The pages.                                                                *)

\* What is stored is never taken back, so that what a page says of it holds on.
LEMMA SamePages ==
  ASSUME PagesInv, UNCHANGED <<shown, feedback, status>>,
         \A k \in Key : stored[k] \subseteq stored'[k]
  PROVE  PagesInv'
BY DEF PagesInv, SavedWasStored

\* One comment of one page changes, or the word beside its button, or both.
LEMMA OneKept ==
  ASSUME PagesInv, UNCHANGED <<shown, stored>>, NEW u \in User, NEW k \in Key, NEW f \in Kept,
         feedback' = [feedback EXCEPT ![u][k] = f],
         f.saved => f.text \in stored[k],
         NEW w \in StatusWord,
         status' = [status EXCEPT ![u][k] = w],
         w = "saved" => f.saved
  PROVE  PagesInv'
<1>1. feedback' \in [User -> [Key -> Kept]] /\ status' \in [User -> [Key -> StatusWord]]
  BY DEF PagesInv
<1>2. \A v \in User, j \in Key :
        /\ feedback'[v][j] = IF v = u /\ j = k THEN f ELSE feedback[v][j]
        /\ status'[v][j] = IF v = u /\ j = k THEN w ELSE status[v][j]
  BY DEF PagesInv
<1>3. SavedWasStored'
  BY <1>2 DEF PagesInv, SavedWasStored
<1> QED  BY <1>1, <1>3 DEF PagesInv

\* Only the word changes: to one that does not say that the comment is saved,
\* or beside a comment that is.
LEMMA OneWord ==
  ASSUME PagesInv, UNCHANGED <<shown, feedback, stored>>, NEW u \in User, NEW k \in Key,
         NEW w \in StatusWord, w # "saved",
         status' = [status EXCEPT ![u][k] = w]
  PROVE  PagesInv'
<1>1. status' \in [User -> [Key -> StatusWord]]
  BY DEF PagesInv
<1>2. \A v \in User, j \in Key :
        status'[v][j] = IF v = u /\ j = k THEN w ELSE status[v][j]
  BY DEF PagesInv
<1>3. SavedWasStored'
  BY <1>2 DEF PagesInv, SavedWasStored
<1> QED  BY <1>1, <1>3 DEF PagesInv

\* The rows of a page are built anew from what it keeps.
LEMMA Rendered ==
  ASSUME PagesInv, NEW u \in User, NEW kept \in [Key -> Kept], UNCHANGED stored,
         \A k \in Key : kept[k].saved => kept[k].text \in stored[k],
         shown' \in [User -> Run \cup {0}],
         feedback' = [feedback EXCEPT ![u] = kept],
         Render(u, kept)
  PROVE  PagesInv'
<1> DEFINE words == [k \in Key |-> IF kept[k].saved THEN "saved" ELSE "dirty"]
<1>1. status' = [status EXCEPT ![u] = words] /\ words \in [Key -> StatusWord]
  BY DEF Render, StatusWord
<1>2. \A k \in Key : words[k] = "saved" => kept[k].saved
  OBVIOUS
<1> HIDE DEF words
<1>3. feedback' \in [User -> [Key -> Kept]] /\ status' \in [User -> [Key -> StatusWord]]
  BY <1>1 DEF PagesInv
<1>4. \A v \in User : /\ feedback'[v] = IF v = u THEN kept ELSE feedback[v]
                     /\ status'[v] = IF v = u THEN words ELSE status[v]
  BY <1>1 DEF PagesInv
<1>5. SavedWasStored'
  BY <1>2, <1>4 DEF PagesInv, SavedWasStored
<1> QED  BY <1>3, <1>5 DEF PagesInv

LEMMA OpenStep ==
  ASSUME CommentsInv, NEW u \in User, NEW r \in Run, OpenRun(u, r)
  PROVE  CommentsInv'
<1>1. PICK loaded \in BOOLEAN :
        LET kept == [k \in Key |-> IF loaded /\ Of(k) # {}
                                   THEN [text |-> Latest(k).text, saved |-> TRUE]
                                   ELSE feedback[u][k]]
        IN  feedback' = [feedback EXCEPT ![u] = kept] /\ Render(u, kept)
  BY DEF OpenRun
<1> DEFINE kept == [k \in Key |-> IF loaded /\ Of(k) # {}
                                  THEN [text |-> Latest(k).text, saved |-> TRUE]
                                  ELSE feedback[u][k]]
<1>2. /\ feedback' = [feedback EXCEPT ![u] = kept] /\ Render(u, kept)
      /\ shown' = [shown EXCEPT ![u] = r]
      /\ UNCHANGED <<clock, record, clicks>>
  BY <1>1 DEF OpenRun
<1>3. ASSUME NEW k \in Key
      PROVE  kept[k] \in Kept /\ (kept[k].saved => kept[k].text \in stored[k])
  <2>1. CASE loaded /\ Of(k) # {}
    <3>1. Latest(k) \in Of(k)
      BY <2>1, LatestIsThere DEF CommentsInv
    <3>2. Latest(k) \in table /\ Latest(k).key = k
      BY <3>1 DEF Of
    <3>3. Latest(k).text \in Texts /\ Latest(k).text \in stored[k]
      BY <3>2 DEF CommentsInv, TableInv, Recorded, CommentRows
    <3>4. kept[k] = [text |-> Latest(k).text, saved |-> TRUE]
      BY <2>1
    <3>5. ASSUME NEW x \in Texts
          PROVE  /\ [text |-> x, saved |-> TRUE] \in Kept
                 /\ [text |-> x, saved |-> TRUE].text = x
      BY DEF Kept
    <3> HIDE DEF kept
    <3>6. kept[k] \in Kept /\ kept[k].text = Latest(k).text
      BY <3>3, <3>4, <3>5
    <3> QED  BY <3>3, <3>6
  <2>2. CASE ~ (loaded /\ Of(k) # {})
    BY <2>2 DEF CommentsInv, PagesInv, SavedWasStored
  <2> QED  BY <2>1, <2>2
<1>4. kept \in [Key -> Kept]
  BY <1>3
<1> HIDE DEF kept
<1>5. shown' \in [User -> Run \cup {0}] /\ UNCHANGED stored
  BY <1>2 DEF CommentsInv, PagesInv, record
<1>6. PagesInv'
  BY <1>2, <1>3, <1>4, <1>5, Rendered DEF CommentsInv
<1>7. posts' = {IF p.user = u THEN [p EXCEPT !.row = FALSE] ELSE p : p \in posts}
  BY <1>2 DEF Render
<1>8. PostsInv'
  BY <1>2, <1>7, PostsThin DEF CommentsInv, record
<1>9. TableInv'
  BY <1>2, SameTable DEF CommentsInv
<1> QED  BY <1>6, <1>8, <1>9 DEF CommentsInv

LEMMA FilterRowsStep ==
  ASSUME CommentsInv, NEW u \in User, FilterRows(u)
  PROVE  CommentsInv'
<1>1. /\ Render(u, feedback[u])
      /\ posts' = {IF p.user = u THEN [p EXCEPT !.row = FALSE] ELSE p : p \in posts}
      /\ UNCHANGED <<clock, record, shown, feedback, clicks>>
  BY DEF FilterRows, Render
<1>2. /\ feedback[u] \in [Key -> Kept] /\ shown' \in [User -> Run \cup {0}]
      /\ \A k \in Key : feedback[u][k].saved => feedback[u][k].text \in stored[k]
      /\ feedback' = [feedback EXCEPT ![u] = feedback[u]]
  BY <1>1 DEF CommentsInv, PagesInv, SavedWasStored
<1>3. PagesInv'
  BY <1>1, <1>2, Rendered DEF CommentsInv, record
<1>4. PostsInv'
  BY <1>1, PostsThin DEF CommentsInv, record
<1>5. TableInv'
  BY <1>1, SameTable DEF CommentsInv, record
<1> QED  BY <1>3, <1>4, <1>5 DEF CommentsInv

LEMMA DraftStep ==
  ASSUME CommentsInv, NEW u \in User, NEW k \in Key, NEW t \in Text, updateFeedbackDraft(u, k, t)
  PROVE  CommentsInv'
<1>1. /\ feedback' = [feedback EXCEPT ![u][k] = Unsaved(t)]
      /\ status' = [status EXCEPT ![u][k] = "dirty"]
      /\ UNCHANGED <<clock, record, shown, posts, clicks>>
  BY DEF updateFeedbackDraft
<1>2. Unsaved(t) \in Kept /\ ~ Unsaved(t).saved
  BY DEF Unsaved, Kept, Texts
<1>3. PagesInv'
  BY <1>1, <1>2, OneKept DEF CommentsInv, record, StatusWord
<1>4. TableInv' /\ PostsInv'
  BY <1>1, SameTable DEF CommentsInv, PostsInv, record
<1> QED  BY <1>3, <1>4 DEF CommentsInv

LEMMA ClickStep ==
  ASSUME CommentsInv, NEW u \in User, NEW k \in Key, Click(u, k)
  PROVE  CommentsInv'
<1> DEFINE q == [id |-> clicks, user |-> u, run |-> shown[u], key |-> k,
                 text |-> feedback[u][k].text, row |-> TRUE, at |-> "sent"]
<1>1. /\ shown[u] # 0 /\ posts' = posts \cup {q} /\ clicks' = clicks + 1
      /\ status' = [status EXCEPT ![u][k] = "saving"]
      /\ UNCHANGED <<clock, record, shown, feedback>>
  BY DEF Click
<1>2. feedback[u][k].text \in Texts /\ shown[u] \in Run /\ clicks \in Nat
  BY <1>1 DEF CommentsInv, PagesInv, PostsInv, Kept
<1>3. q \in Posts /\ q.at = "sent"
  BY <1>2 DEF Posts
<1> HIDE DEF q
<1>4. PostsInv'
  BY <1>1, <1>2, <1>3 DEF CommentsInv, PostsInv, record
<1>5. TableInv' /\ PagesInv'
  BY <1>1, SameTable, OneWord DEF CommentsInv, record, StatusWord
<1> QED  BY <1>4, <1>5 DEF CommentsInv

LEMMA StoreStep ==
  ASSUME CommentsInv, NEW p \in posts, Store(p)
  PROVE  CommentsInv'
<1>1. p.key \in Key
  BY PostTyped DEF CommentsInv, PostsInv
<1>2. UNCHANGED <<shown, feedback, status>> /\ \A k \in Key : stored[k] \subseteq stored'[k]
  BY <1>1 DEF CommentsInv, TableInv, Recorded, Store, screens
<1>3. PagesInv'
  BY <1>2, SamePages DEF CommentsInv
<1> QED  BY <1>3, StoreKeepsTable, StoreKeepsPosts DEF CommentsInv

LEMMA RefuseStep ==
  ASSUME CommentsInv, NEW p \in posts, Refuse(p)
  PROVE  CommentsInv'
<1>1. /\ posts' = (posts \ {p}) \cup {[p EXCEPT !.at = "refused"]}
      /\ UNCHANGED <<clock, record, shown, feedback, status, clicks>>
  BY DEF Refuse, Move, screens
<1>2. PostsInv'
  BY <1>1, PostsThin DEF CommentsInv, record
<1>3. TableInv' /\ PagesInv'
  BY <1>1, SameTable, SamePages DEF CommentsInv, record
<1> QED  BY <1>2, <1>3 DEF CommentsInv

LEMMA SavedStep ==
  ASSUME CommentsInv, NEW p \in posts, Saved(p)
  PROVE  CommentsInv'
<1> DEFINE f == [text |-> p.text, saved |-> TRUE]
<1>1. /\ p.at = "stored" /\ posts' = posts \ {p}
      /\ feedback' = [feedback EXCEPT ![p.user][p.key] = f]
      /\ status' = IF p.row THEN [status EXCEPT ![p.user][p.key] = "saved"] ELSE status
      /\ UNCHANGED <<clock, record, shown, clicks>>
  BY DEF Saved
<1>2. /\ p.user \in User /\ p.key \in Key /\ p.text \in Texts
      /\ p.text \in stored[p.key]
  BY <1>1, PostTyped DEF CommentsInv, PostsInv
<1>3. f \in Kept /\ f.text = p.text /\ f.saved
  BY <1>2 DEF Kept
<1> HIDE DEF f
<1>4. PagesInv'
  <2>1. \E w \in StatusWord : status' = [status EXCEPT ![p.user][p.key] = w]
    <3>1. CASE p.row
      BY <1>1, <3>1 DEF StatusWord
    <3>2. CASE ~ p.row
      <4>1. status' = [status EXCEPT ![p.user][p.key] = status[p.user][p.key]]
        BY <1>1, <1>2, <3>2 DEF CommentsInv, PagesInv
      <4>2. status[p.user][p.key] \in StatusWord
        BY <1>2 DEF CommentsInv, PagesInv
      <4> QED  BY <4>1, <4>2
    <3> QED  BY <3>1, <3>2
  <2>2. PICK w \in StatusWord : status' = [status EXCEPT ![p.user][p.key] = w]
    BY <2>1
  <2>3. PagesInv /\ UNCHANGED <<shown, stored>>
    BY <1>1 DEF CommentsInv, record
  <2>4. f.saved => f.text \in stored[p.key]
    BY <1>2, <1>3
  <2>5. w = "saved" => f.saved
    BY <1>3
  <2>6. feedback' = [feedback EXCEPT ![p.user][p.key] = f]
    BY <1>1
  <2> QED  BY <1>2, <1>3, <2>2, <2>3, <2>4, <2>5, <2>6, OneKept
<1>5. PostsInv'
  BY <1>1, PostsThin DEF CommentsInv, record
<1>6. TableInv'
  BY <1>1, SameTable DEF CommentsInv
<1> QED  BY <1>4, <1>5, <1>6 DEF CommentsInv

LEMMA NotSavedStep ==
  ASSUME CommentsInv, NEW p \in posts, NotSaved(p)
  PROVE  CommentsInv'
<1>1. /\ posts' = posts \ {p} /\ UNCHANGED <<clock, record, shown, feedback, clicks>>
      /\ status' = IF p.row THEN [status EXCEPT ![p.user][p.key] = "error"] ELSE status
  BY DEF NotSaved
<1>2. PostsInv'
  BY <1>1, PostsThin DEF CommentsInv, record
<1>3. TableInv'
  BY <1>1, SameTable DEF CommentsInv, record
<1>4. PagesInv'
  <2>1. p.user \in User /\ p.key \in Key
    BY PostTyped DEF CommentsInv, PostsInv
  <2>2. CASE p.row
    BY <1>1, <2>1, <2>2, OneWord DEF CommentsInv, record, StatusWord
  <2>3. CASE ~ p.row
    BY <1>1, <2>3, SamePages DEF CommentsInv, record
  <2> QED  BY <2>2, <2>3
<1> QED  BY <1>2, <1>3, <1>4 DEF CommentsInv

-----------------------------------------------------------------------------
LEMMA CommentsInit == InitComments => CommentsInv
<1> SUFFICES ASSUME InitComments PROVE CommentsInv
  OBVIOUS
<1>1. Ordered /\ LastAbove
  BY FS_EmptySet DEF InitComments, Ordered, LastAbove
<1>2. last = [k \in Key |-> [text |-> NoText, at |-> 0, changed |-> FALSE, alone |-> TRUE]]
      /\ clock = 0
  BY DEF InitComments
<1>3. /\ last \in [Key -> [text : Texts, at : Nat, changed : BOOLEAN, alone : BOOLEAN]]
      /\ \A k \in Key : last[k].at <= clock
  BY <1>2 DEF Texts
<1>4. Recorded
  BY <1>2, <1>3 DEF InitComments, Recorded
<1>5. PostsInv
  BY DEF InitComments, PostsInv
<1>6. Unsaved(NoText) \in Kept /\ ~ Unsaved(NoText).saved
  BY DEF Unsaved, Kept, Texts
<1>7. /\ feedback = [u \in User |-> [k \in Key |-> Unsaved(NoText)]]
      /\ shown = [u \in User |-> 0] /\ status = [u \in User |-> [k \in Key |-> "dirty"]]
  BY DEF InitComments
<1>8. PagesInv
  BY <1>6, <1>7 DEF PagesInv, SavedWasStored, StatusWord
<1> QED  BY <1>1, <1>4, <1>5, <1>8 DEF CommentsInv, TableInv

LEMMA CommentsStep == CommentsInv /\ [NextComments]_commentVars => CommentsInv'
<1> SUFFICES ASSUME CommentsInv, [NextComments]_commentVars PROVE CommentsInv'
  OBVIOUS
<1>1. CASE Tick \/ Rerun
  <2>1. clock' \in {clock, clock + 1} /\ UNCHANGED <<record, posts, clicks, shown, feedback, status>>
    BY <1>1 DEF Tick, Rerun, screens
  <2> QED  BY <2>1, SameTable, SamePages DEF CommentsInv, PostsInv, record
<1>2. ASSUME NEW u \in User, PageStep(u) PROVE CommentsInv'
  BY <1>2, OpenStep, FilterRowsStep, DraftStep, ClickStep DEF PageStep
<1>3. ASSUME NEW p \in posts, PostStep(p) PROVE CommentsInv'
  BY <1>3, StoreStep, RefuseStep, SavedStep, NotSavedStep DEF PostStep
<1>4. CASE UNCHANGED commentVars
  <2>1. clock' \in {clock, clock + 1} /\ UNCHANGED <<record, posts, clicks, shown, feedback, status>>
    BY <1>4 DEF commentVars, record
  <2> QED  BY <2>1, SameTable, SamePages DEF CommentsInv, PostsInv, record
<1> QED  BY <1>1, <1>2, <1>3, <1>4 DEF NextComments

THEOREM CommentsInvHolds == CommentsSpec => []CommentsInv
<1>1. CommentsInv /\ [NextComments]_commentVars => CommentsInv'
  BY CommentsStep
<1> QED  BY CommentsInit, <1>1, PTL DEF CommentsSpec

(* What the page keeps as saved was stored by the server, and a row that   *)
(* says saved stands beside a saved comment that is kept, for any number of *)
(* users who type, save, filter and open runs at the same time             *)
(* (saveFeedback, renderResults, loadRunComments).                         *)
THEOREM SavedIsStored == CommentsSpec => []SavedWasStored
<1>1. CommentsInv => SavedWasStored
  BY DEF CommentsInv, PagesInv
<1> QED  BY <1>1, CommentsInvHolds, PTL

(* The analysis of an issue that was stored last is the one the API        *)
(* returns, unless two came in one second or the last one changed nothing  *)
(* (ORDER BY updated_at DESC, id DESC over rows of every run).             *)
THEOREM LastStoredIsShown == CommentsSpec => []LatestChangeShown
<1>1. CommentsInv => LatestChangeShown
  <2> SUFFICES ASSUME CommentsInv, NEW k \in Key, last[k].changed, last[k].alone
               PROVE  Latest(k).text = last[k].text
    BY DEF LatestChangeShown
  <2>1. PICK c \in Of(k) : Above(k, c)
    BY DEF CommentsInv, TableInv, LastAbove
  <2>2. Latest(k) = c
    BY <2>1, LatestIsAbove DEF CommentsInv, Above
  <2> QED  BY <2>1, <2>2 DEF Above
<1> QED  BY <1>1, CommentsInvHolds, PTL
=============================================================================
