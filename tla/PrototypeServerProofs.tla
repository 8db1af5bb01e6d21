----------------------- MODULE PrototypeServerProofs -----------------------
(* What a synchronisation passes over is as new as what was listed, a job is *)
(* gone only for a reason, and a report accounts for every document and line *)
(* once, for any number of files, versions, synchronisations, clients and    *)
(* jobs, and any rows, documents, movements and lines.                       *)
EXTENDS PrototypeServer, Sums

-----------------------------------------------------------------------------
(* Synchronisation.  Every entry of a list tells of a version that was       *)
(* uploaded; what was downloaded for an entry is that version or a later     *)
(* one; and what is stored of a file is no older than it is said to be.      *)

Listings == {Listed(f, v) : f \in Files, v \in Nat}
Syncing == [pc : {"idle", "next", "download", "store"}, rounds : Nat,
            todo : Seq(Listings), got : Nat]

Uploaded(e) == e.version \in 1..drive[e.file]
SyncHeld(s) ==
  /\ \A n \in DOMAIN s.todo : Uploaded(s.todo[n])
  /\ s.pc # "idle" => s.todo # <<>>
  /\ s.pc = "store" => s.got \in Head(s.todo).version..drive[Head(s.todo).file]
NoOlderThanSaid(f) ==
  tables[f] # Nothing =>
    /\ tables[f].modified \in Nat /\ tables[f].version \in Nat
    /\ tables[f].version \in 1..Len(sc.files[f])
    /\ tables[f].modified <= Version(f, tables[f].version).modified

FilesInv ==
  /\ sc \in Scenarios
  /\ drive \in [Files -> Nat] /\ \A f \in Files : drive[f] \in 1..Len(sc.files[f])
  /\ tables = [f \in Files |-> tables[f]]
  /\ \A f \in Files : NoOlderThanSaid(f)
  /\ sync \in [Syncs -> Syncing] /\ \A p \in Syncs : SyncHeld(sync[p])

LEMMA VersionsInOrder ==
  ASSUME sc \in Scenarios, NEW f \in Files
  PROVE  /\ Len(sc.files[f]) \in Nat \ {0}
         /\ \A v, w \in 1..Len(sc.files[f]) :
              /\ Version(f, v).modified \in Nat
              /\ v <= w => Version(f, v).modified <= Version(f, w).modified
BY FilesAssumption DEF Files, Version

LEMMA ListingDoes ==
  ASSUME NEW e \in Listings
  PROVE  /\ e.file \in Files /\ e.version \in Nat
         /\ e.modified = Version(e.file, e.version).modified
BY DEF Listings, Listed

LEMMA SetToSeqDoes ==
  ASSUME NEW S, IsFiniteSet(S), S # {}
  PROVE  SetToSeq(S) \in Seq(S) /\ SetToSeq(S) # <<>>
<1> DEFINE n == Cardinality(S)
<1>1. n \in Nat /\ ExistsBijection(1..n, S)
  BY FS_CardinalityType
<1>2. \E f \in [1..n -> S] : IsInjective(f)
  BY <1>1 DEF ExistsBijection, Bijection, Injection, IsInjective
<1>3. SetToSeq(S) \in [1..n -> S]
  BY <1>2 DEF SetToSeq
<1>4. n # 0
  BY FS_EmptySet
<1> HIDE DEF n
<1>5. SetToSeq(S) \in Seq(S)
  BY <1>1, <1>3
<1>6. DOMAIN SetToSeq(S) # {}
  BY <1>1, <1>3, <1>4
<1> QED  BY <1>5, <1>6

LEMMA TailDoes ==
  ASSUME NEW S, NEW t \in Seq(S), t # <<>>, Len(t) # 1
  PROVE  /\ Tail(t) \in Seq(S) /\ Tail(t) # <<>>
         /\ \A n \in DOMAIN Tail(t) : n + 1 \in DOMAIN t /\ Tail(t)[n] = t[n + 1]
<1>1. /\ Tail(t) \in Seq(S) /\ Len(Tail(t)) = Len(t) - 1
      /\ \A i \in 1..Len(Tail(t)) : Tail(t)[i] = t[i + 1]
  BY HeadTailProperties
<1>2. Len(t) \in Nat \ {0} /\ DOMAIN t = 1..Len(t)
  BY EmptySeq, LenProperties
<1>3. DOMAIN Tail(t) = 1..Len(Tail(t))
  BY <1>1, LenProperties
<1>4. Len(Tail(t)) # 0 /\ Len(<<>>) = 0
  BY <1>1, <1>2, EmptySeq
<1>5. \A n \in 1..Len(Tail(t)) : n + 1 \in 1..Len(t)
  BY <1>1, <1>2
<1> QED  BY <1>1, <1>2, <1>3, <1>4, <1>5

LEMMA FirstOf ==
  ASSUME NEW S, NEW t \in Seq(S), t # <<>>
  PROVE  Head(t) \in S /\ 1 \in DOMAIN t /\ Head(t) = t[1]
<1>1. Len(t) \in Nat \ {0} /\ DOMAIN t = 1..Len(t)
  BY EmptySeq, LenProperties
<1>2. Head(t) = t[1]
  OBVIOUS
<1> QED  BY <1>1, <1>2, HeadTailProperties

\* A state of a synchronisation that has nothing in hand.
LEMMA WaitsHolds ==
  ASSUME NEW s \in Syncing, s.pc \in {"next", "download"}, s.todo # <<>>,
         \A n \in DOMAIN s.todo : Uploaded(s.todo[n])
  PROVE  SyncHeld(s)
BY DEF SyncHeld

\* The next file, or none.
LEMMA AfterFileHolds ==
  ASSUME NEW s \in Syncing, SyncHeld(s), s.pc # "idle"
  PROVE  AfterFile(s) \in Syncing /\ SyncHeld(AfterFile(s))
<1>1. s.todo \in Seq(Listings) /\ s.rounds \in Nat /\ s.todo # <<>>
  BY DEF Syncing, SyncHeld
<1>2. CASE Len(s.todo) = 1
  <2>1. AfterFile(s) = [pc |-> "idle", rounds |-> s.rounds, todo |-> <<>>, got |-> 0]
    BY <1>2 DEF AfterFile, IdleSync
  <2>2. <<>> \in Seq(Listings) /\ \A n \in DOMAIN <<>> : FALSE
    OBVIOUS
  <2>3. AfterFile(s) \in Syncing /\ AfterFile(s).todo = <<>> /\ AfterFile(s).pc = "idle"
    BY <1>1, <2>1, <2>2 DEF Syncing
  <2> QED  BY <2>2, <2>3 DEF SyncHeld
<1>3. CASE Len(s.todo) # 1
  <2> DEFINE t == Tail(s.todo)
             a == [s EXCEPT !.pc = "next", !.todo = t, !.got = 0]
  <2>1. AfterFile(s) = a
    BY <1>3 DEF AfterFile
  <2>2. /\ t \in Seq(Listings) /\ t # <<>>
        /\ \A n \in DOMAIN t : n + 1 \in DOMAIN s.todo /\ t[n] = s.todo[n + 1]
    BY <1>1, <1>3, TailDoes
  <2> HIDE DEF t
  <2>3. a \in Syncing /\ a.pc = "next" /\ a.todo = t
    BY <2>2 DEF Syncing
  <2> HIDE DEF a
  <2>4. \A n \in DOMAIN t : Uploaded(t[n])
    BY <2>2 DEF SyncHeld
  <2> QED  BY <2>1, <2>2, <2>3, <2>4, WaitsHolds
<1> QED  BY <1>2, <1>3

\* One synchronisation moves on.
LEMMA OneSync ==
  ASSUME FilesInv, UNCHANGED <<sc, drive>>, NEW p \in Syncs, NEW s \in Syncing, SyncHeld(s),
         sync' = [sync EXCEPT ![p] = s],
         tables' = [f \in Files |-> tables'[f]], \A f \in Files : NoOlderThanSaid(f)'
  PROVE  FilesInv'
<1>1. sync' \in [Syncs -> Syncing] /\ \A q \in Syncs : sync'[q] = s \/ sync'[q] = sync[q]
  BY DEF FilesInv
<1>2. Files' = Files /\ Listings' = Listings /\ Syncing' = Syncing
  BY DEF Files, Listings, Listed, Version, Syncing
<1>3. \A t : SyncHeld(t)' = SyncHeld(t)
  BY DEF SyncHeld, Uploaded
<1>4. \A q \in Syncs : SyncHeld(sync[q])'
  BY <1>1, <1>3 DEF FilesInv, SyncHeld, Uploaded
<1> QED  BY <1>1, <1>2, <1>4 DEF FilesInv

LEMMA SameTables ==
  ASSUME FilesInv, UNCHANGED <<sc, tables>>
  PROVE  tables' = [f \in Files |-> tables'[f]] /\ \A f \in Files : NoOlderThanSaid(f)'
BY DEF FilesInv, NoOlderThanSaid, Version

\* The entry at work tells of a version that was uploaded.
LEMMA EntryAtWork ==
  ASSUME FilesInv, NEW p \in Syncs, sync[p].pc # "idle", NEW e, e = Head(sync[p].todo)
  PROVE  /\ e \in Listings /\ e.file \in Files /\ e.version \in Nat
         /\ e.version \in 1..drive[e.file]
         /\ drive[e.file] \in Nat /\ drive[e.file] \in 1..Len(sc.files[e.file])
         /\ e.modified = Version(e.file, e.version).modified /\ e.modified \in Nat
         /\ sync[p].todo \in Seq(Listings) /\ sync[p].todo # <<>>
         /\ sync[p] \in Syncing /\ SyncHeld(sync[p])
<1>1. sync[p] \in Syncing /\ SyncHeld(sync[p])
  BY DEF FilesInv
<1>2. sync[p].todo \in Seq(Listings) /\ sync[p].todo # <<>>
  BY <1>1 DEF Syncing, SyncHeld
<1>3. e \in Listings /\ e = sync[p].todo[1] /\ 1 \in DOMAIN sync[p].todo
  BY <1>2, FirstOf
<1>4. e.version \in 1..drive[e.file]
  BY <1>1, <1>3 DEF SyncHeld, Uploaded
<1>5. /\ e.file \in Files /\ e.version \in Nat
      /\ e.modified = Version(e.file, e.version).modified
  BY <1>3, ListingDoes
<1>6. drive[e.file] \in Nat /\ drive[e.file] \in 1..Len(sc.files[e.file]) /\ sc \in Scenarios
  BY <1>5 DEF FilesInv
<1>7. e.version \in 1..Len(sc.files[e.file])
  BY <1>4, <1>5, <1>6
<1>8. e.modified \in Nat
  BY <1>5, <1>6, <1>7, VersionsInOrder
<1> QED  BY <1>1, <1>2, <1>3, <1>4, <1>5, <1>6, <1>8

LEMMA ListDriveStep ==
  ASSUME FilesInv, NEW p \in Syncs, ListDrive(p)
  PROVE  FilesInv'
<1> DEFINE todo == SetToSeq({Listed(f, drive[f]) : f \in Files})
           s == [pc |-> "next", rounds |-> sync[p].rounds + 1, got |-> 0, todo |-> todo]
<1>1. /\ Files # {} /\ UNCHANGED <<sc, drive, tables>> /\ sync' = [sync EXCEPT ![p] = s]
  BY DEF ListDrive, FilesInv
<1>2. {Listed(f, drive[f]) : f \in Files} # {} /\ IsFiniteSet({Listed(f, drive[f]) : f \in Files})
  <2>1. IsFiniteSet(Files)
    BY FilesAssumption DEF FilesInv, Files
  <2> DEFINE L == {Listed(f, drive[f]) : f \in Files}
             F == [f \in Files |-> Listed(f, drive[f])]
  <2>2. F \in [Files -> L] /\ \A l \in L : \E f \in Files : F[f] = l
    OBVIOUS
  <2>3. L # {}
    BY <1>1
  <2> HIDE DEF F, L
  <2>4. F \in Surjection(Files, L)
    BY <2>2 DEF Surjection
  <2>5. IsFiniteSet(L)
    BY <2>1, <2>4, FS_Surjection
  <2> QED  BY <2>3, <2>5 DEF L
<1>3. todo \in Seq({Listed(f, drive[f]) : f \in Files}) /\ todo # <<>>
  BY <1>2, SetToSeqDoes
<1> HIDE DEF todo
<1>4. \A n \in DOMAIN todo : todo[n] \in {Listed(f, drive[f]) : f \in Files}
  BY <1>3, LenProperties
<1>5. \A n \in DOMAIN todo : Uploaded(todo[n])
  <2> SUFFICES ASSUME NEW n \in DOMAIN todo PROVE Uploaded(todo[n])
    OBVIOUS
  <2>1. PICK f \in Files : todo[n] = Listed(f, drive[f])
    BY <1>4
  <2>2. todo[n].file = f /\ todo[n].version = drive[f]
    BY <2>1 DEF Listed
  <2>3. drive[f] \in Nat /\ drive[f] \in 1..Len(sc.files[f]) /\ sc \in Scenarios
    BY DEF FilesInv
  <2>4. drive[f] \in 1..drive[f]
    BY <2>3, VersionsInOrder
  <2> QED  BY <2>2, <2>4 DEF Uploaded
<1>6. todo \in Seq(Listings)
  <2>1. {Listed(f, drive[f]) : f \in Files} \subseteq Listings
    BY DEF Listings, FilesInv
  <2> QED  BY <1>3, <2>1, SeqMonotonic
<1>7. sync[p].rounds + 1 \in Nat
  BY DEF FilesInv, Syncing
<1>8. s \in Syncing /\ s.pc = "next" /\ s.todo = todo
  BY <1>6, <1>7 DEF Syncing
<1> HIDE DEF s
<1>9. SyncHeld(s)
  BY <1>3, <1>5, <1>8, WaitsHolds
<1> QED  BY <1>1, <1>8, <1>9, OneSync, SameTables

\* One that goes on to the next file.
LEMMA PassesOn ==
  ASSUME FilesInv, NEW p \in Syncs, sync[p].pc # "idle", UNCHANGED <<sc, drive>>,
         sync' = [sync EXCEPT ![p] = AfterFile(sync[p])],
         tables' = [f \in Files |-> tables'[f]], \A f \in Files : NoOlderThanSaid(f)'
  PROVE  FilesInv'
<1>1. sync[p] \in Syncing /\ SyncHeld(sync[p])
  BY DEF FilesInv
<1>2. AfterFile(sync[p]) \in Syncing /\ SyncHeld(AfterFile(sync[p]))
  BY <1>1, AfterFileHolds
<1> QED  BY <1>2, OneSync

LEMMA LookStep ==
  ASSUME FilesInv, NEW p \in Syncs, Look(p)
  PROVE  FilesInv'
<1>1. sync[p].pc = "next" /\ UNCHANGED <<sc, drive, tables>>
  BY DEF Look
<1>2. CASE sync' = [sync EXCEPT ![p] = AfterFile(sync[p])]
  BY <1>1, <1>2, PassesOn, SameTables
<1>3. CASE sync' = [sync EXCEPT ![p] = [sync[p] EXCEPT !.pc = "download"]]
  <2> DEFINE s == [sync[p] EXCEPT !.pc = "download"]
  <2>1. /\ sync[p] \in Syncing /\ sync[p].todo # <<>>
        /\ \A n \in DOMAIN sync[p].todo : Uploaded(sync[p].todo[n])
    BY <1>1 DEF FilesInv, SyncHeld
  <2>2. s \in Syncing /\ s.pc = "download" /\ s.todo = sync[p].todo
    BY <2>1 DEF Syncing
  <2>3. sync' = [sync EXCEPT ![p] = s]
    BY <1>3
  <2> HIDE DEF s
  <2>4. SyncHeld(s)
    BY <2>1, <2>2, WaitsHolds
  <2> QED  BY <1>1, <2>2, <2>3, <2>4, OneSync, SameTables
<1>4. sync \in [Syncs -> Syncing]
  BY DEF FilesInv
<1>5. sync' = [sync EXCEPT ![p] = IF Cached(Head(sync[p].todo)) THEN AfterFile(sync[p])
                                  ELSE [sync[p] EXCEPT !.pc = "download"]]
  BY <1>4 DEF Look
<1> QED  BY <1>2, <1>3, <1>5

LEMMA DownloadStep ==
  ASSUME FilesInv, NEW p \in Syncs, Download(p)
  PROVE  FilesInv'
<1> DEFINE e == Head(sync[p].todo)
           s == [sync[p] EXCEPT !.pc = "store", !.got = drive[e.file]]
<1>1. /\ sync[p].pc = "download" /\ UNCHANGED <<sc, drive, tables>>
      /\ sync' = [sync EXCEPT ![p] = s]
  BY DEF Download, FilesInv
<1>2. /\ sync[p] \in Syncing /\ SyncHeld(sync[p]) /\ e.version \in Nat
      /\ drive[e.file] \in Nat /\ e.version \in 1..drive[e.file]
      /\ sync[p].todo # <<>>
  BY <1>1, EntryAtWork
<1>3. drive[e.file] \in e.version..drive[e.file]
  BY <1>2
<1>4. s \in Syncing /\ s.pc = "store" /\ s.got = drive[e.file] /\ s.todo = sync[p].todo
  BY <1>2 DEF Syncing
<1> HIDE DEF s
<1>5. SyncHeld(s)
  BY <1>2, <1>3, <1>4 DEF SyncHeld
<1> QED  BY <1>1, <1>4, <1>5, OneSync, SameTables

LEMMA FileFailsStep ==
  ASSUME FilesInv, NEW p \in Syncs, FileFails(p)
  PROVE  FilesInv'
<1>1. /\ sync[p].pc # "idle" /\ UNCHANGED <<sc, drive, tables>>
      /\ sync' = [sync EXCEPT ![p] = AfterFile(sync[p])]
  BY DEF FileFails, FilesInv
<1> QED  BY <1>1, PassesOn, SameTables

\* What is stored was downloaded after it was listed.
LEMMA StoreStep ==
  ASSUME FilesInv, NEW p \in Syncs, Store(p)
  PROVE  FilesInv'
<1> DEFINE e == Head(sync[p].todo)
           got == sync[p].got
           row == [modified |-> e.modified, size |-> e.size, version |-> got]
<1>1. /\ sync[p].pc = "store" /\ UNCHANGED <<sc, drive>>
      /\ sync' = [sync EXCEPT ![p] = AfterFile(sync[p])]
      /\ tables' = [tables EXCEPT ![e.file] = row]
  BY DEF Store, Stored, FilesInv
<1>2. /\ e.file \in Files /\ e.version \in Nat /\ e.version \in 1..drive[e.file]
      /\ drive[e.file] \in Nat /\ drive[e.file] \in 1..Len(sc.files[e.file])
      /\ e.modified = Version(e.file, e.version).modified /\ e.modified \in Nat
      /\ SyncHeld(sync[p]) /\ sync[p] \in Syncing
  BY <1>1, EntryAtWork
<1>3. got \in Nat /\ got \in e.version..drive[e.file]
  BY <1>1, <1>2 DEF SyncHeld, Syncing
<1>4. got \in 1..Len(sc.files[e.file]) /\ e.version \in 1..Len(sc.files[e.file]) /\ e.version <= got
  BY <1>2, <1>3
<1>5. e.modified <= Version(e.file, got).modified
  BY <1>2, <1>4, VersionsInOrder DEF FilesInv
<1>6. row.modified = e.modified /\ row.version = got
  OBVIOUS
<1> HIDE DEF row, got
<1>7. /\ tables' = [f \in Files |-> tables'[f]]
      /\ \A f \in Files : tables'[f] = IF f = e.file THEN row ELSE tables[f]
  <2>1. tables = [f \in Files |-> tables[f]]
    BY DEF FilesInv
  <2> QED  BY <1>1, <1>2, <2>1
<1>8. ASSUME NEW f \in Files PROVE NoOlderThanSaid(f)'
  <2>1. \A v : Version(f, v)' = Version(f, v)
    BY <1>1 DEF Version
  <2>2. CASE f = e.file
    <3>1. tables'[f] = row
      BY <1>7, <2>2
    <3> HIDE DEF e
    <3> QED  BY <1>1, <1>2, <1>3, <1>4, <1>5, <1>6, <2>1, <2>2, <3>1 DEF NoOlderThanSaid
  <2>3. CASE f # e.file
    BY <1>1, <1>7, <2>1, <2>3 DEF FilesInv, NoOlderThanSaid
  <2> QED  BY <2>2, <2>3
<1> QED  BY <1>1, <1>7, <1>8, PassesOn

LEMMA UploadStep ==
  ASSUME FilesInv, NEW f \in Files, Upload(f)
  PROVE  FilesInv'
<1>1. /\ drive[f] < Len(sc.files[f]) /\ drive' = [drive EXCEPT ![f] = drive[f] + 1]
      /\ UNCHANGED <<sc, tables, sync>>
  BY DEF Upload, FilesInv
<1>2. \A g \in Files : drive[g] \in Nat /\ Len(sc.files[g]) \in Nat /\ drive[g] \in 1..Len(sc.files[g])
  BY VersionsInOrder DEF FilesInv
<1>3. \A g \in Files : /\ drive'[g] \in Nat /\ drive[g] <= drive'[g]
                       /\ drive'[g] \in 1..Len(sc.files[g])
  BY <1>1, <1>2 DEF FilesInv
<1>4. drive' \in [Files -> Nat]
  BY <1>1, <1>2 DEF FilesInv
<1>5. Files' = Files /\ Listings' = Listings /\ Syncing' = Syncing
  BY <1>1 DEF Files, Listings, Listed, Version, Syncing
<1>6. ASSUME NEW p \in Syncs PROVE SyncHeld(sync[p])'
  <2>1. sync[p] \in Syncing /\ SyncHeld(sync[p]) /\ sync'[p] = sync[p]
    BY <1>1 DEF FilesInv
  <2>2. ASSUME NEW n \in DOMAIN sync[p].todo PROVE Uploaded(sync[p].todo[n])'
    <3>1. sync[p].todo \in Seq(Listings)
      BY <2>1 DEF Syncing
    <3>2. sync[p].todo[n] \in Listings
      BY <3>1, LenProperties
    <3>3. sync[p].todo[n].file \in Files /\ sync[p].todo[n].version \in Nat
      BY <3>2, ListingDoes
    <3>4. sync[p].todo[n].version \in 1..drive[sync[p].todo[n].file]
      BY <2>1 DEF SyncHeld, Uploaded
    <3>5. sync[p].todo[n].version \in 1..drive'[sync[p].todo[n].file]
      BY <1>2, <1>3, <3>3, <3>4
    <3> QED  BY <1>1, <3>5 DEF Uploaded
  <2>3. CASE sync[p].pc = "store"
    <3> DEFINE e == Head(sync[p].todo)
    <3>1. e.file \in Files /\ e.version \in Nat
      BY <2>3, EntryAtWork
    <3>2. sync[p].got \in e.version..drive[e.file]
      BY <2>1, <2>3 DEF SyncHeld
    <3>3. sync[p].got \in e.version..drive'[e.file]
      BY <1>2, <1>3, <3>1, <3>2
    <3> QED  BY <1>1, <2>1, <2>2, <3>3 DEF SyncHeld
  <2>4. CASE sync[p].pc # "store"
    BY <1>1, <2>1, <2>2, <2>4 DEF SyncHeld
  <2> QED  BY <2>3, <2>4
<1> QED  BY <1>1, <1>3, <1>4, <1>5, <1>6, SameTables DEF FilesInv

\* The jobs leave the files alone.
LEMMA SameFiles ==
  ASSUME FilesInv, UNCHANGED <<sc, drive, tables, sync>>
  PROVE  FilesInv'
<1>1. Files' = Files /\ Listings' = Listings /\ Syncing' = Syncing
  BY DEF Files, Listings, Listed, Version, Syncing
<1>2. \A p \in Syncs : SyncHeld(sync[p])'
  BY DEF FilesInv, SyncHeld, Uploaded
<1> QED  BY <1>1, <1>2, SameTables DEF FilesInv

LEMMA RestartFiles ==
  ASSUME FilesInv, Restart
  PROVE  FilesInv'
<1>1. UNCHANGED <<sc, drive, tables>> /\ sync' = [p \in Syncs |-> IdleSync(sync[p].rounds)]
  BY DEF Restart
<1>2. Files' = Files /\ Listings' = Listings /\ Syncing' = Syncing
  BY <1>1 DEF Files, Listings, Listed, Version, Syncing
<1>3. <<>> \in Seq(Listings) /\ \A n \in DOMAIN <<>> : FALSE
  OBVIOUS
<1>4. ASSUME NEW r \in Nat
      PROVE  IdleSync(r) \in Syncing /\ IdleSync(r).todo = <<>> /\ IdleSync(r).pc = "idle"
  BY <1>3 DEF IdleSync, Syncing
<1>5. ASSUME NEW p \in Syncs PROVE sync'[p] \in Syncing /\ SyncHeld(sync[p])'
  <2>1. sync[p].rounds \in Nat /\ sync'[p] = IdleSync(sync[p].rounds)
    BY <1>1 DEF FilesInv, Syncing
  <2> QED  BY <1>3, <1>4, <2>1 DEF SyncHeld
<1>6. sync' \in [Syncs -> Syncing]
  BY <1>1, <1>5
<1> QED  BY <1>1, <1>2, <1>5, <1>6, SameTables DEF FilesInv

LEMMA FilesInit == Init => FilesInv
<1> SUFFICES ASSUME Init PROVE FilesInv
  OBVIOUS
<1>1. <<>> \in Seq(Listings) /\ \A n \in DOMAIN <<>> : FALSE
  OBVIOUS
<1>2. IdleSync(0) \in Syncing /\ IdleSync(0).todo = <<>> /\ IdleSync(0).pc = "idle"
  BY <1>1 DEF IdleSync, Syncing
<1>3. SyncHeld(IdleSync(0))
  BY <1>1, <1>2 DEF SyncHeld
<1>4. \A p \in Syncs : sync[p] = IdleSync(0)
  BY DEF Init
<1>5. sync \in [Syncs -> Syncing] /\ \A p \in Syncs : SyncHeld(sync[p])
  BY <1>2, <1>3, <1>4 DEF Init
<1>6. \A f \in Files : 1 \in 1..Len(sc.files[f])
  BY VersionsInOrder DEF Init
<1>7. /\ tables = [f \in Files |-> tables[f]] /\ \A f \in Files : NoOlderThanSaid(f)
  BY DEF Init, NoOlderThanSaid
<1> QED  BY <1>5, <1>6, <1>7 DEF Init, FilesInv

-----------------------------------------------------------------------------
(* The jobs.  A job that was entered is held, or there is a reason for it    *)
(* not to be; reasons stay.                                                  *)

Above(id) == {k \in DOMAIN work : k > id}
Reason(id) == clock - jobs[id].created > JobTtl \/ Cardinality(Above(id)) >= MaxItems
Statuses == {"queued", "running", "completed", "failed"}

JobsShape ==
  /\ clock \in Nat
  /\ IsFiniteSet(Ids) /\ Ids \subseteq 1..Cardinality(Ids)
  /\ held \subseteq DOMAIN work /\ DOMAIN work \subseteq DOMAIN jobs /\ DOMAIN jobs \subseteq Ids
  /\ jobs = [id \in DOMAIN jobs |-> jobs[id]] /\ work = [id \in DOMAIN work |-> work[id]]
  /\ told = [id \in Ids |-> told[id]]
  /\ \A id \in DOMAIN jobs : jobs[id] \in [status : Statuses, created : Nat]
  /\ client \in [Clients -> [pc : {"idle", "enter", "answer"}, id : Nat]]

JobsKept ==
  /\ \A c \in Clients : /\ client[c].pc = "enter" => client[c].id \in DOMAIN jobs
                        /\ client[c].pc = "answer" => client[c].id \in DOMAIN work
  /\ \A id \in DOMAIN jobs : told[id] # "none" => id \in DOMAIN work
  /\ \A id \in DOMAIN work : id \in held \/ Reason(id)
  /\ \A id \in DOMAIN jobs : told[id] = "gone" => Reason(id)

JobsInv == JobsShape /\ JobsKept

LEMMA ExceptDoes ==
  ASSUME NEW f, NEW i, NEW w, NEW g, g = [f EXCEPT ![i] = w]
  PROVE  /\ DOMAIN g = DOMAIN f
         /\ g = [x \in DOMAIN f |-> g[x]]
         /\ \A x \in DOMAIN f : g[x] = IF x = i THEN w ELSE f[x]
OBVIOUS

LEMMA AboveIsFinite ==
  ASSUME JobsInv, NEW id
  PROVE  IsFiniteSet(Above(id)) /\ Cardinality(Above(id)) \in Nat /\ IsFiniteSet(DOMAIN work)
<1>1. DOMAIN work \in SUBSET Ids /\ IsFiniteSet(Ids)
  BY DEF JobsInv, JobsShape
<1>2. IsFiniteSet(DOMAIN work)
  BY <1>1, FS_Subset
<1>3. IsFiniteSet(Above(id))
  BY <1>2, FS_Subset DEF Above
<1> QED  BY <1>2, <1>3, FS_CardinalityType

\* Whatever prune_recon_jobs throws out has a reason.
LEMMA PrunedForAReason ==
  ASSUME JobsInv, NEW id \in held, id \notin Left
  PROVE  Reason(id)
<1>1. clock - jobs[id].created > JobTtl \/ id \in Younger
  BY DEF Younger
<1>2. CASE id \in Younger
  <2> DEFINE K == {k \in Younger : k > id}
  <2>1. ~ (Cardinality(K) < MaxItems)
    BY <1>2 DEF Left
  <2>2. K \in SUBSET Above(id)
    BY DEF Younger, Above, JobsInv, JobsShape
  <2> HIDE DEF K
  <2>3. IsFiniteSet(K) /\ Cardinality(K) <= Cardinality(Above(id))
    BY <2>2, AboveIsFinite, FS_Subset
  <2>4. Cardinality(K) \in Nat /\ Cardinality(Above(id)) \in Nat
    BY <2>3, AboveIsFinite, FS_CardinalityType
  <2>5. Cardinality(Above(id)) >= MaxItems
    BY <2>1, <2>3, <2>4, LimitsAssumption
  <2> QED  BY <2>5 DEF Reason
<1> QED  BY <1>1, <1>2 DEF Reason

\* Time goes on, jobs are added, none is created anew: reasons stay.
LEMMA ReasonsStay ==
  ASSUME JobsInv, NEW id \in DOMAIN jobs, Reason(id),
         jobs'[id].created = jobs[id].created, clock' \in Nat, clock <= clock',
         DOMAIN work \subseteq DOMAIN work', IsFiniteSet(DOMAIN work')
  PROVE  Reason(id)'
<1>1. CASE clock - jobs[id].created > JobTtl
  <2>1. jobs[id].created \in Nat /\ clock \in Nat
    BY DEF JobsInv, JobsShape
  <2>2. clock' - jobs'[id].created > JobTtl
    BY <1>1, <2>1, LimitsAssumption
  <2> QED  BY <2>2 DEF Reason
<1>2. CASE Cardinality(Above(id)) >= MaxItems
  <2>1. Above(id) \in SUBSET Above(id)' /\ Above(id)' \in SUBSET DOMAIN work'
    BY DEF Above
  <2>2. IsFiniteSet(Above(id)')
    BY <2>1, FS_Subset
  <2>3. Cardinality(Above(id)) <= Cardinality(Above(id)') /\ Cardinality(Above(id)') \in Nat
    BY <2>1, <2>2, FS_Subset, FS_CardinalityType
  <2>4. Cardinality(Above(id)) \in Nat
    BY AboveIsFinite
  <2>5. Cardinality(Above(id)') >= MaxItems
    BY <1>2, <2>3, <2>4, LimitsAssumption
  <2> QED  BY <2>5 DEF Reason
<1> QED  BY <1>1, <1>2 DEF Reason

\* A step that neither creates nor enters a job.
LEMMA SameJobs ==
  ASSUME JobsInv, clock' \in {clock, clock + 1},
         DOMAIN work' = DOMAIN work, work' = [id \in DOMAIN work |-> work'[id]],
         DOMAIN jobs' = DOMAIN jobs, jobs' = [id \in DOMAIN jobs |-> jobs'[id]],
         \A id \in DOMAIN jobs : /\ jobs'[id] \in [status : Statuses, created : Nat]
                                 /\ jobs'[id].created = jobs[id].created,
         held' = held \/ held' = Left,
         told' = [id \in Ids |-> told'[id]],
         \A id \in Ids :
           \/ told'[id] = told[id]
           \/ id \in DOMAIN work /\ told'[id] \in Statuses
           \/ told[id] # "none" /\ told'[id] = "gone" /\ id \notin held',
         client' \in [Clients -> [pc : {"idle", "enter", "answer"}, id : Nat]],
         \A c \in Clients : client'[c] = client[c] \/ client'[c].pc = "idle"
  PROVE  JobsInv'
<1>1. Ids' = Ids
  BY DEF Ids
<1>2. clock' \in Nat /\ clock <= clock'
  BY DEF JobsInv, JobsShape
<1>3. held' \subseteq held
  BY DEF Left, Younger
<1>4. ASSUME NEW id \in DOMAIN jobs, Reason(id) PROVE Reason(id)'
  BY <1>2, <1>4, AboveIsFinite, ReasonsStay
<1>5. ASSUME NEW id \in DOMAIN work, id \notin held' PROVE Reason(id)
  BY <1>5, PrunedForAReason DEF JobsInv, JobsKept
<1>6. \A id \in DOMAIN work' : id \in held' \/ Reason(id)'
  BY <1>4, <1>5 DEF JobsInv, JobsShape
<1>7. \A id \in DOMAIN jobs' : told'[id] # "none" => id \in DOMAIN work'
  BY DEF JobsInv, JobsShape, JobsKept
<1>8. ASSUME NEW id \in DOMAIN jobs', told'[id] = "gone" PROVE Reason(id)'
  <2>1. id \in Ids /\ id \in DOMAIN jobs
    BY DEF JobsInv, JobsShape
  <2>2. CASE told'[id] = told[id]
    BY <1>4, <1>8, <2>1, <2>2 DEF JobsInv, JobsKept
  <2>3. CASE told[id] # "none" /\ id \notin held'
    <3>1. id \in DOMAIN work
      BY <2>1, <2>3 DEF JobsInv, JobsKept
    <3> QED  BY <1>4, <1>5, <2>1, <2>3, <3>1
  <2>4. "gone" \notin Statuses
    BY DEF Statuses
  <2> QED  BY <1>8, <2>1, <2>2, <2>3, <2>4
<1>9. \A c \in Clients : /\ client'[c].pc = "enter" => client'[c].id \in DOMAIN jobs'
                         /\ client'[c].pc = "answer" => client'[c].id \in DOMAIN work'
  BY DEF JobsInv, JobsKept
<1>10. held' \subseteq DOMAIN work' /\ DOMAIN work' \subseteq DOMAIN jobs' /\ DOMAIN jobs' \subseteq Ids'
  BY <1>1, <1>3 DEF JobsInv, JobsShape
<1>11. IsFiniteSet(Ids') /\ Ids' \subseteq 1..Cardinality(Ids')
  BY <1>1 DEF JobsInv, JobsShape
<1> QED  BY <1>1, <1>2, <1>6, <1>7, <1>8, <1>9, <1>10, <1>11 DEF JobsInv, JobsShape, JobsKept

LEMMA SubmitStep ==
  ASSUME JobsInv, NEW c \in Clients, Submit(c)
  PROVE  JobsInv'
<1> DEFINE N == Cardinality(Ids)
           i == N + 1
           j == [status |-> "queued", created |-> clock]
<1>1. /\ jobs' = With(jobs, i, j) /\ told' = With(told, i, "none") /\ held' = Left
      /\ client' = [client EXCEPT ![c] = [pc |-> "enter", id |-> i]]
      /\ UNCHANGED <<clock, work>>
  BY DEF Submit
<1>2. IsFiniteSet(Ids) /\ N \in Nat /\ Ids \subseteq 1..N /\ i \notin Ids /\ clock \in Nat
  BY FS_CardinalityType DEF JobsInv, JobsShape
<1>3. j \in [status : Statuses, created : Nat]
  BY <1>2 DEF Statuses
<1>4. i \in Nat
  BY <1>2
<1>5. IsFiniteSet(Ids \cup {i}) /\ Cardinality(Ids \cup {i}) = N + 1 /\ i \in 1..(N + 1)
  BY <1>2, FS_AddElement
<1>6. Ids \cup {i} \subseteq 1..(N + 1)
  BY <1>2, <1>5
<1> HIDE DEF j, i, N
<1>7. told' = With(told, i, "none") /\ jobs' = With(jobs, i, j)
  BY <1>1
<1>8. /\ DOMAIN told' = DOMAIN told \cup {i} /\ told' = [id \in DOMAIN told' |-> told'[id]]
      /\ told'[i] = "none" /\ \A id \in DOMAIN told : id # i => told'[id] = told[id]
  BY ONLY <1>7 DEF With
<1>9. /\ DOMAIN jobs' = DOMAIN jobs \cup {i} /\ jobs' = [id \in DOMAIN jobs' |-> jobs'[id]]
      /\ jobs'[i] = j /\ \A id \in DOMAIN jobs : id # i => jobs'[id] = jobs[id]
  BY ONLY <1>7 DEF With
<1>10. DOMAIN told' = Ids \cup {i} /\ \A id \in Ids : told'[id] = told[id]
  BY <1>2, <1>8 DEF Ids
<1>11. told'[i] = "none"
  BY <1>8
<1>12. DOMAIN jobs \subseteq Ids
  BY DEF JobsInv, JobsShape
<1>13. DOMAIN jobs' = DOMAIN jobs \cup {i} /\ \A id \in DOMAIN jobs : jobs'[id] = jobs[id]
  BY <1>2, <1>12, <1>9
<1>14. jobs'[i] = j
  BY <1>9
<1>15. jobs' = [id \in DOMAIN jobs' |-> jobs'[id]] /\ told' = [id \in DOMAIN told' |-> told'[id]]
  BY <1>8, <1>9
<1>16. Ids' = Ids \cup {i}
  BY <1>10 DEF Ids
<1>17. IsFiniteSet(Ids') /\ Cardinality(Ids') = N + 1
  BY <1>16, <1>5
<1>18. Ids' \subseteq 1..Cardinality(Ids')
  BY <1>16, <1>17, <1>6
<1>19. ASSUME NEW id \in DOMAIN jobs, Reason(id) PROVE Reason(id)'
  BY <1>1, <1>2, <1>13, <1>19, AboveIsFinite, ReasonsStay
<1>20. ASSUME NEW id \in DOMAIN work, id \notin Left PROVE Reason(id)
  BY <1>20, PrunedForAReason DEF JobsInv, JobsKept
<1>21. Left \subseteq held
  BY DEF Left, Younger
<1>22. held' \subseteq DOMAIN work' /\ DOMAIN work' \subseteq DOMAIN jobs' /\ DOMAIN jobs' \subseteq Ids'
  BY <1>1, <1>13, <1>12, <1>16, <1>21 DEF JobsInv, JobsShape
<1>23. \A id \in DOMAIN jobs' : jobs'[id] \in [status : Statuses, created : Nat]
  BY <1>3, <1>13, <1>14 DEF JobsInv, JobsShape
<1>24. /\ client' \in [Clients -> [pc : {"idle", "enter", "answer"}, id : Nat]]
       /\ client'[c] = [pc |-> "enter", id |-> i]
       /\ \A d \in Clients : d # c => client'[d] = client[d]
  BY <1>1, <1>4 DEF JobsInv, JobsShape
<1>25. \A d \in Clients : /\ client'[d].pc = "enter" => client'[d].id \in DOMAIN jobs'
                          /\ client'[d].pc = "answer" => client'[d].id \in DOMAIN work'
  BY <1>1, <1>13, <1>24 DEF JobsInv, JobsKept
<1>26. \A id \in DOMAIN jobs' : told'[id] # "none" => id \in DOMAIN work'
  BY <1>1, <1>10, <1>11, <1>13, <1>12 DEF JobsInv, JobsKept
<1>27. \A id \in DOMAIN work' : id \in held' \/ Reason(id)'
  BY <1>1, <1>19, <1>20 DEF JobsInv, JobsShape
<1>28. \A id \in DOMAIN jobs' : told'[id] = "gone" => Reason(id)'
  BY <1>10, <1>11, <1>13, <1>12, <1>19 DEF JobsInv, JobsKept
<1>29. clock' \in Nat /\ work' = [id \in DOMAIN work' |-> work'[id]]
  BY <1>1, <1>2 DEF JobsInv, JobsShape
<1>30. told' = [id \in Ids' |-> told'[id]]
  BY <1>10, <1>15, <1>16
<1>31. JobsKept'
  BY ONLY <1>25, <1>26, <1>27, <1>28 DEF JobsKept
<1>32. JobsShape'
  BY ONLY <1>15, <1>17, <1>18, <1>22, <1>23, <1>24, <1>29, <1>30 DEF JobsShape
<1> QED  BY <1>31, <1>32 DEF JobsInv

LEMMA EnterStep ==
  ASSUME JobsInv, NEW c \in Clients, Enter(c)
  PROVE  JobsInv'
<1> DEFINE i == client[c].id
<1>1. /\ client[c].pc = "enter" /\ held' = held \cup {i} /\ work' = With(work, i, [pc |-> "begin"])
      /\ client' = [client EXCEPT ![c].pc = "answer"] /\ UNCHANGED <<clock, jobs, told>>
  BY DEF Enter
<1>2. i \in DOMAIN jobs
  BY <1>1 DEF JobsInv, JobsKept
<1> HIDE DEF i
<1>3. work' = With(work, i, [pc |-> "begin"])
  BY <1>1
<1>4. DOMAIN work' = DOMAIN work \cup {i} /\ work' = [id \in DOMAIN work' |-> work'[id]]
  BY ONLY <1>3 DEF With
<1>5. IsFiniteSet(DOMAIN work')
  <2>1. IsFiniteSet(DOMAIN work)
    BY AboveIsFinite
  <2> QED  BY <1>4, <2>1, FS_AddElement
<1>6. /\ client' \in [Clients -> [pc : {"idle", "enter", "answer"}, id : Nat]]
      /\ client'[c].pc = "answer" /\ client'[c].id = i
      /\ \A d \in Clients : d # c => client'[d] = client[d]
  BY <1>1 DEF JobsInv, JobsShape, i
<1>7. ASSUME NEW id \in DOMAIN jobs, Reason(id) PROVE Reason(id)'
  <2>1. clock' \in Nat /\ clock <= clock'
    BY <1>1 DEF JobsInv, JobsShape
  <2> QED  BY <1>1, <1>4, <1>5, <1>7, <2>1, ReasonsStay
<1>8. Ids' = Ids
  BY <1>1 DEF Ids
<1>9. held' \subseteq DOMAIN work' /\ DOMAIN work' \subseteq DOMAIN jobs'
  BY <1>1, <1>2, <1>4 DEF JobsInv, JobsShape
<1>10. \A d \in Clients : /\ client'[d].pc = "enter" => client'[d].id \in DOMAIN jobs'
                          /\ client'[d].pc = "answer" => client'[d].id \in DOMAIN work'
  BY <1>1, <1>4, <1>6 DEF JobsInv, JobsKept
<1>11. \A id \in DOMAIN jobs' : told'[id] # "none" => id \in DOMAIN work'
  BY <1>1, <1>4 DEF JobsInv, JobsKept
<1>12. \A id \in DOMAIN work' : id \in held' \/ Reason(id)'
  BY <1>1, <1>2, <1>4, <1>7 DEF JobsInv, JobsShape, JobsKept
<1>13. \A id \in DOMAIN jobs' : told'[id] = "gone" => Reason(id)'
  BY <1>1, <1>7 DEF JobsInv, JobsKept
<1>14. clock' \in Nat /\ DOMAIN jobs' \subseteq Ids'
  BY <1>1, <1>8 DEF JobsInv, JobsShape
<1>15. jobs' = [id \in DOMAIN jobs' |-> jobs'[id]] /\ told' = [id \in Ids' |-> told'[id]]
  BY <1>1, <1>8 DEF JobsInv, JobsShape
<1>16. \A id \in DOMAIN jobs' : jobs'[id] \in [status : Statuses, created : Nat]
  BY <1>1 DEF JobsInv, JobsShape
<1>17. IsFiniteSet(Ids') /\ Ids' \subseteq 1..Cardinality(Ids')
  BY <1>8 DEF JobsInv, JobsShape
<1>18. work' = [id \in DOMAIN work' |-> work'[id]]
  BY <1>4
<1>19. client' \in [Clients -> [pc : {"idle", "enter", "answer"}, id : Nat]]
  BY <1>6
<1>20. JobsKept'
  BY ONLY <1>10, <1>11, <1>12, <1>13 DEF JobsKept
<1>21. JobsShape'
  BY ONLY <1>9, <1>14, <1>15, <1>16, <1>17, <1>18, <1>19 DEF JobsShape
<1> QED  BY <1>20, <1>21 DEF JobsInv

LEMMA RespondStep ==
  ASSUME JobsInv, NEW c \in Clients, Respond(c)
  PROVE  JobsInv'
<1> DEFINE i == client[c].id
           word == jobs[i].status
<1>1. /\ client[c].pc = "answer" /\ told' = [told EXCEPT ![i] = word]
      /\ client' = [client EXCEPT ![c] = Idle] /\ held' = Left
      /\ UNCHANGED <<clock, jobs, work>>
  BY DEF Respond
<1>2. i \in DOMAIN work /\ i \in DOMAIN jobs /\ i \in Ids
  BY <1>1 DEF JobsInv, JobsShape, JobsKept
<1>3. word \in Statuses
  BY <1>2 DEF JobsInv, JobsShape
<1> HIDE DEF i, word
<1>4. told' = [id \in Ids |-> told'[id]] /\ \A id \in Ids : told'[id] = IF id = i THEN word ELSE told[id]
  <2>1. told = [id \in Ids |-> told[id]]
    BY DEF JobsInv, JobsShape
  <2> QED  BY <1>1, <1>2, <2>1
<1>5. \A id \in Ids : told'[id] = told[id] \/ (id \in DOMAIN work /\ told'[id] \in Statuses)
  BY <1>2, <1>3, <1>4
<1>6. /\ client' \in [Clients -> [pc : {"idle", "enter", "answer"}, id : Nat]]
      /\ \A d \in Clients : client'[d] = client[d] \/ client'[d].pc = "idle"
  BY <1>1 DEF JobsInv, JobsShape, Idle
<1>7. /\ jobs = [id \in DOMAIN jobs |-> jobs[id]] /\ work = [id \in DOMAIN work |-> work[id]]
      /\ \A id \in DOMAIN jobs : jobs[id] \in [status : Statuses, created : Nat]
  BY DEF JobsInv, JobsShape
<1> QED  BY <1>1, <1>4, <1>5, <1>6, <1>7, SameJobs

LEMMA PollStep ==
  ASSUME JobsInv, NEW i \in Ids, Poll(i)
  PROVE  JobsInv'
<1> DEFINE word == IF i \in held' THEN jobs[i].status ELSE "gone"
<1>1. /\ told[i] # "none" /\ held' = Left /\ told' = [told EXCEPT ![i] = word]
      /\ UNCHANGED <<clock, jobs, client, work>>
  BY DEF Poll
<1>2. i \in held' => i \in DOMAIN work /\ word \in Statuses
  BY <1>1 DEF Left, Younger, JobsInv, JobsShape
<1>3. i \notin held' => word = "gone"
  OBVIOUS
<1> HIDE DEF word
<1>4. told' = [id \in Ids |-> told'[id]] /\ \A id \in Ids : told'[id] = IF id = i THEN word ELSE told[id]
  <2>1. told = [id \in Ids |-> told[id]]
    BY DEF JobsInv, JobsShape
  <2> QED  BY <1>1, <2>1
<1>5. \A id \in Ids :
        \/ told'[id] = told[id]
        \/ id \in DOMAIN work /\ told'[id] \in Statuses
        \/ told[id] # "none" /\ told'[id] = "gone" /\ id \notin held'
  BY <1>1, <1>2, <1>3, <1>4
<1>6. /\ jobs = [id \in DOMAIN jobs |-> jobs[id]] /\ work = [id \in DOMAIN work |-> work[id]]
      /\ \A id \in DOMAIN jobs : jobs[id] \in [status : Statuses, created : Nat]
      /\ client \in [Clients -> [pc : {"idle", "enter", "answer"}, id : Nat]]
  BY DEF JobsInv, JobsShape
<1> QED  BY <1>1, <1>4, <1>5, <1>6, SameJobs

\* The thread of a job moves on, and may say so in the job.
LEMMA ThreadMoves ==
  ASSUME JobsInv, NEW i \in DOMAIN work, NEW w, work' = [work EXCEPT ![i] = w],
         NEW s \in Statuses, jobs' = jobs \/ jobs' = [jobs EXCEPT ![i].status = s],
         UNCHANGED <<clock, held, client, told>>
  PROVE  JobsInv'
<1>1. i \in DOMAIN jobs
  BY DEF JobsInv, JobsShape
<1>2. DOMAIN work' = DOMAIN work /\ work' = [id \in DOMAIN work |-> work'[id]]
  BY ExceptDoes
<1>3. /\ DOMAIN jobs' = DOMAIN jobs /\ jobs' = [id \in DOMAIN jobs |-> jobs'[id]]
      /\ \A id \in DOMAIN jobs : /\ jobs'[id] \in [status : Statuses, created : Nat]
                                 /\ jobs'[id].created = jobs[id].created
  <2>1. CASE jobs' = jobs
    BY <2>1 DEF JobsInv, JobsShape
  <2>2. CASE jobs' = [jobs EXCEPT ![i].status = s]
    <3> DEFINE w2 == [jobs[i] EXCEPT !.status = s]
    <3>0. jobs' = [jobs EXCEPT ![i] = w2]
      BY <2>2
    <3>1. DOMAIN jobs' = DOMAIN jobs /\ jobs' = [id \in DOMAIN jobs |-> jobs'[id]]
      BY <3>0, ExceptDoes
    <3>2. ASSUME NEW id \in DOMAIN jobs
          PROVE  /\ jobs'[id] \in [status : Statuses, created : Nat]
                 /\ jobs'[id].created = jobs[id].created
      <4>1. jobs[id] \in [status : Statuses, created : Nat]
        BY DEF JobsInv, JobsShape
      <4>2. jobs'[id] = IF id = i THEN w2 ELSE jobs[id]
        BY <3>0, ExceptDoes
      <4> QED  BY <4>1, <4>2
    <3> QED  BY <3>1, <3>2
  <2> QED  BY <2>1, <2>2
<1>4. /\ told = [id \in Ids |-> told[id]]
      /\ client \in [Clients -> [pc : {"idle", "enter", "answer"}, id : Nat]]
  BY DEF JobsInv, JobsShape
<1> QED  BY <1>2, <1>3, <1>4, SameJobs

Thread(id) == \/ Begin(id) \/ Ask(id) \/ ReadDocuments(id) \/ ReadMovements(id) \/ ReadLines(id)
              \/ Compare(id) \/ SourceFails(id) \/ ErpFails(id) \/ Finish(id)

LEMMA ThreadStep ==
  ASSUME JobsInv, NEW i \in DOMAIN work, Thread(i)
  PROVE  JobsInv'
<1>1. \E w : work' = [work EXCEPT ![i] = w]
  BY DEF Thread, Begin, Ask, ReadDocuments, ReadMovements, ReadLines, Compare, SourceFails,
     ErpFails, Finish, Go
<1>2. UNCHANGED <<clock, held, client, told>>
  BY DEF Thread, Begin, Ask, ReadDocuments, ReadMovements, ReadLines, Compare, SourceFails,
     ErpFails, Finish, SetStatus
<1>3. \E s \in Statuses : jobs' = jobs \/ jobs' = [jobs EXCEPT ![i].status = s]
  BY DEF Thread, Begin, Ask, ReadDocuments, ReadMovements, ReadLines, Compare, SourceFails,
     ErpFails, Finish, SetStatus, Statuses
<1> QED  BY <1>1, <1>2, <1>3, ThreadMoves

LEMMA SilentStep ==
  ASSUME JobsInv, clock' \in {clock, clock + 1}, UNCHANGED <<jobs, held, client, work, told>>
  PROVE  JobsInv'
<1>1. /\ jobs = [id \in DOMAIN jobs |-> jobs[id]] /\ work = [id \in DOMAIN work |-> work[id]]
      /\ \A id \in DOMAIN jobs : jobs[id] \in [status : Statuses, created : Nat]
      /\ client \in [Clients -> [pc : {"idle", "enter", "answer"}, id : Nat]]
      /\ told = [id \in Ids |-> told[id]]
  BY DEF JobsInv, JobsShape
<1> QED  BY <1>1, SameJobs

LEMMA RestartJobs ==
  ASSUME JobsInv, Restart
  PROVE  JobsInv'
<1>1. /\ jobs' = <<>> /\ held' = {} /\ work' = <<>> /\ client' = [c \in Clients |-> Idle]
      /\ UNCHANGED <<clock, told>>
  BY DEF Restart
<1>2. DOMAIN jobs' = {} /\ DOMAIN work' = {}
  BY <1>1
<1>3. Ids' = Ids /\ \A c \in Clients : client'[c].pc = "idle"
  BY <1>1 DEF Ids, Idle
<1>4. jobs' = [id \in DOMAIN jobs' |-> jobs'[id]] /\ work' = [id \in DOMAIN work' |-> work'[id]]
      /\ client' \in [Clients -> [pc : {"idle", "enter", "answer"}, id : Nat]]
  BY <1>1 DEF Idle
<1> QED  BY <1>1, <1>2, <1>3, <1>4 DEF JobsInv, JobsShape, JobsKept

LEMMA JobsInit == Init => JobsInv
<1> SUFFICES ASSUME Init PROVE JobsInv
  OBVIOUS
<1>1. DOMAIN jobs = {} /\ DOMAIN work = {} /\ Ids = {}
  BY DEF Init, Ids
<1>2. \A c \in Clients : client[c].pc = "idle"
  BY DEF Init, Idle
<1>3. /\ jobs = [id \in DOMAIN jobs |-> jobs[id]] /\ work = [id \in DOMAIN work |-> work[id]]
      /\ told = [id \in Ids |-> told[id]]
      /\ client \in [Clients -> [pc : {"idle", "enter", "answer"}, id : Nat]]
  BY DEF Init, Ids, Idle
<1> QED  BY <1>1, <1>2, <1>3, FS_EmptySet DEF Init, JobsInv, JobsShape, JobsKept

-----------------------------------------------------------------------------
ServerInv == FilesInv /\ JobsInv

LEMMA ServerStep == ServerInv /\ [Next]_vars => ServerInv'
<1> SUFFICES ASSUME ServerInv, [Next]_vars PROVE ServerInv'
  OBVIOUS
<1>1. sc \in Scenarios /\ sc.syncs \subseteq Syncs /\ sc.clients \subseteq Clients
  BY ActorsAssumption DEF ServerInv, FilesInv
<1>2. ASSUME NEW p \in Syncs, ListDrive(p) \/ Look(p) \/ Download(p) \/ Store(p) \/ FileFails(p)
      PROVE  ServerInv'
  <2>1. UNCHANGED jobVars
    BY <1>2 DEF ListDrive, Look, Download, Store, FileFails
  <2> QED  BY <1>2, <2>1, ListDriveStep, LookStep, DownloadStep, StoreStep, FileFailsStep,
              SilentStep DEF ServerInv, jobVars
<1>3. ASSUME NEW f \in Files, Upload(f) PROVE ServerInv'
  BY <1>3, UploadStep, SilentStep DEF ServerInv, Upload, jobVars
<1>4. ASSUME NEW c \in Clients, Submit(c) \/ Enter(c) \/ Respond(c) PROVE ServerInv'
  <2>1. UNCHANGED <<sc, drive, tables, sync>>
    BY <1>4 DEF Submit, Enter, Respond, Others, syncVars
  <2> QED  BY <1>4, <2>1, SubmitStep, EnterStep, RespondStep, SameFiles DEF ServerInv
<1>5. ASSUME NEW id \in Ids, Poll(id) PROVE ServerInv'
  BY <1>5, PollStep, SameFiles DEF ServerInv, Poll, Others, syncVars
<1>6. ASSUME NEW id \in DOMAIN work, Thread(id) PROVE ServerInv'
  <2>1. UNCHANGED <<sc, drive, tables, sync>>
    BY <1>6 DEF Thread, Begin, Ask, ReadDocuments, ReadMovements, ReadLines, Compare,
       SourceFails, ErpFails, Finish, Others, syncVars
  <2> QED  BY <1>6, <2>1, ThreadStep, SameFiles DEF ServerInv
<1>7. CASE Tick
  BY <1>7, SilentStep, SameFiles DEF ServerInv, Tick, Others, syncVars
<1>8. CASE Restart
  BY <1>8, RestartFiles, RestartJobs DEF ServerInv
<1>9. CASE UNCHANGED vars
  BY <1>9, SilentStep, SameFiles DEF ServerInv, vars, syncVars, jobVars
<1> QED  BY <1>1, <1>2, <1>3, <1>4, <1>5, <1>6, <1>7, <1>8, <1>9 DEF Next, Thread

\* The invariants of the files and of the jobs hold however synchronisations,
\* requests and threads of jobs interleave.
THEOREM ServerInvHolds == Spec => []ServerInv
<1>1. Init => ServerInv
  BY FilesInit, JobsInit DEF ServerInv
<1> QED  BY <1>1, ServerStep, PTL DEF Spec

\* What a synchronisation passes over is stored in a version of the second that
\* was listed or of a later one (current_onec_file_cache).
THEOREM PassedOverIsSafe == Spec => []PassedOverIsFresh
<1>1. ServerInv => PassedOverIsFresh
  <2> SUFFICES ASSUME FilesInv, NEW p \in Syncs, sync[p].pc = "next",
                      NEW e, e = Head(sync[p].todo), Cached(e)
               PROVE  Version(e.file, tables[e.file].version).modified >= e.modified
    BY DEF ServerInv, PassedOverIsFresh
  <2>1. e.file \in Files /\ e.modified \in Nat
    BY EntryAtWork
  <2>2. tables[e.file] # Nothing /\ tables[e.file].modified = e.modified
    BY DEF Cached
  <2>3. e.modified <= Version(e.file, tables[e.file].version).modified
    BY <2>1, <2>2 DEF FilesInv, NoOlderThanSaid
  <2> QED  BY <2>3
<1> QED  BY <1>1, ServerInvHolds, PTL

\* Who is told that a job is gone is told so for a reason (prune_recon_jobs).
THEOREM GoneIsSaidForAReason == Spec => []GoneForAReason
<1>1. ServerInv => GoneForAReason
  BY DEF ServerInv, JobsInv, JobsKept, JobsShape, GoneForAReason, Reason, Above
<1> QED  BY <1>1, ServerInvHolds, PTL

-----------------------------------------------------------------------------
(* Sequences of documents, lines and items.                                  *)

LEMMA IsASequence ==
  ASSUME NEW s, IsSequence(s)
  PROVE  Sequence(s)
BY DEF IsSequence, Sequence

LEMMA ListIs ==
  ASSUME NEW n \in Nat, NEW f, f = [k \in 1..n |-> f[k]]
  PROVE  Sequence(f) /\ Len(f) = n
<1>1. f \in Seq({f[k] : k \in 1..n})
  OBVIOUS
<1> QED  BY <1>1 DEF Sequence

LEMMA TogetherIs ==
  ASSUME NEW s, NEW t, Sequence(s), Sequence(t)
  PROVE  Sequence(s \o t)
<1>1. PICK S, T : s \in Seq(S) /\ t \in Seq(T)
  BY DEF Sequence
<1>2. s \in Seq(S \cup T) /\ t \in Seq(S \cup T)
  BY <1>1, SeqMonotonic
<1>3. s \o t \in Seq(S \cup T)
  BY <1>2, ConcatProperties
<1> QED  BY <1>3 DEF Sequence

LEMMA ConcatIs ==
  ASSUME NEW s, NEW t, NEW u, Sequence(s), Sequence(t), u = s \o t
  PROVE  /\ Sequence(u)
         /\ Len(u) = Len(s) + Len(t)
         /\ \A k \in 1..Len(s) : u[k] = s[k]
         /\ \A k \in 1..Len(t) : u[Len(s) + k] = t[k]
<1>1. PICK S, T : s \in Seq(S) /\ t \in Seq(T)
  BY DEF Sequence
<1>2. s \in Seq(S \cup T) /\ t \in Seq(S \cup T)
  BY <1>1, SeqMonotonic
<1>3. u \in Seq(S \cup T)
  BY <1>2, ConcatProperties
<1>4. Len(u) = Len(s) + Len(t)
  BY <1>2, ConcatProperties
<1>5. Len(s) \in Nat /\ Len(t) \in Nat
  BY SequenceHas
<1>6. \A k \in 1..(Len(s) + Len(t)) : u[k] = IF k <= Len(s) THEN s[k] ELSE t[k - Len(s)]
  <2>1. \A k \in 1..(Len(s) + Len(t)) : (s \o t)[k] = IF k <= Len(s) THEN s[k] ELSE t[k - Len(s)]
    BY ONLY <1>2, ConcatProperties
  <2> QED  BY <2>1
<1>7. ASSUME NEW k \in 1..Len(t) PROVE u[Len(s) + k] = t[k]
  <2>1. /\ Len(s) + k \in 1..(Len(s) + Len(t)) /\ ~ (Len(s) + k <= Len(s))
        /\ (Len(s) + k) - Len(s) = k
    BY <1>5
  <2> QED  BY <1>6, <2>1
<1>8. ASSUME NEW k \in 1..Len(s) PROVE u[k] = s[k]
  <2>1. k \in 1..(Len(s) + Len(t)) /\ k <= Len(s)
    BY <1>5
  <2> QED  BY <1>6, <2>1
<1> QED  BY <1>3, <1>4, <1>7, <1>8 DEF Sequence

\* o lists n members of S, each of them once.
Lists(o, S, n) ==
  /\ n \in Nat /\ DOMAIN o = 1..n
  /\ \A k \in 1..n : o[k] \in S
  /\ \A j, k \in 1..n : o[j] = o[k] => j = k
  /\ \A s \in S : \E k \in 1..n : o[k] = s

LEMMA AscendingDoes ==
  ASSUME NEW S, S \subseteq Nat, IsFiniteSet(S), NEW n, n = Cardinality(S),
         NEW o, o = Ascending(S)
  PROVE  Lists(o, S, n)
<1> DEFINE before == [r \in S |-> {s \in S : s < r}]
<1>1. \A r \in S : before[r] = {s \in S : s < r}
  OBVIOUS
<1> HIDE DEF before
<1>2. RanksBy(before, S)
  <2>1. \A r, s \in S : r \in Nat /\ s \in Nat /\ (s \in before[r] <=> s < r)
    BY <1>1
  <2>2. \A r \in S : before[r] \in SUBSET S /\ r \notin before[r]
    <3>1. \A r \in S : before[r] \in SUBSET S
      BY <1>1
    <3>2. \A r \in S : ~ r < r
      BY <2>1
    <3> QED  BY <2>1, <3>1, <3>2
  <2>3. ASSUME NEW r \in S, NEW s \in S, r # s PROVE r \in before[s] \/ s \in before[r]
    <3>1. r \in Nat /\ s \in Nat /\ (s \in before[r] <=> s < r) /\ (r \in before[s] <=> r < s)
      BY <2>1
    <3> QED  BY <2>3, <3>1
  <2>4. ASSUME NEW r \in S, NEW s \in S, r \in before[s], NEW t \in before[r]
        PROVE  t \in before[s]
    <3>1. t \in S /\ t < r /\ r < s
      <4>1. t \in S
        BY <2>2, <2>4
      <4> QED  BY <2>1, <2>4, <4>1
    <3>2. t < s
      <4>1. r \in Nat /\ s \in Nat /\ t \in Nat
        BY <3>1
      <4> QED  BY <3>1, <4>1
    <3> QED  BY <2>1, <3>1, <3>2
  <2> QED  BY <2>2, <2>3, <2>4 DEF RanksBy
<1>3. /\ n \in Nat
      /\ \A r \in S : Cardinality(before[r]) \in 0..(n - 1)
      /\ \A r, s \in S : Cardinality(before[r]) = Cardinality(before[s]) => r = s
      /\ \A t \in 0..(n - 1) : \E r \in S : Cardinality(before[r]) = t
  <2>1. PICK b : b = before
    OBVIOUS
  <2>2. RanksBy(b, S)
    BY <1>2, <2>1
  <2>3. /\ n \in Nat
        /\ \A r \in S : Cardinality(b[r]) \in 0..(n - 1)
        /\ \A r, s \in S : Cardinality(b[r]) = Cardinality(b[s]) => r = s
        /\ \A t \in 0..(n - 1) : \E r \in S : Cardinality(b[r]) = t
    BY <2>2, RanksAreTaken
  <2> QED  BY <2>1, <2>3
<1>4. DOMAIN o = 1..n /\ \A k \in 1..n : o[k] = CHOOSE i \in S : Cardinality({j \in S : j < i}) = k - 1
  BY DEF Ascending
<1>5. ASSUME NEW k \in 1..n PROVE o[k] \in S /\ Cardinality(before[o[k]]) = k - 1
  <2>1. k - 1 \in 0..(n - 1)
    BY <1>3
  <2>2. \E r \in S : Cardinality({j \in S : j < r}) = k - 1
    BY <1>1, <1>3, <2>1
  <2>3. o[k] \in S /\ Cardinality({j \in S : j < o[k]}) = k - 1
    BY <1>4, <2>2
  <2> QED  BY <1>1, <2>3
<1>6. ASSUME NEW j \in 1..n, NEW k \in 1..n, o[j] = o[k] PROVE j = k
  <2>1. j - 1 = k - 1
    BY <1>5, <1>6
  <2> QED  BY <1>3, <2>1
<1>7. ASSUME NEW s \in S PROVE \E k \in 1..n : o[k] = s
  <2>1. PICK k : k = Cardinality(before[s]) + 1
    OBVIOUS
  <2>2. k \in 1..n /\ k - 1 = Cardinality(before[s])
    BY <1>3, <2>1
  <2>3. o[k] \in S /\ Cardinality(before[o[k]]) = k - 1
    BY <1>5, <2>2
  <2> QED  BY <1>3, <2>2, <2>3
<1> QED  BY <1>3, <1>4, <1>5, <1>6, <1>7 DEF Lists

LEMMA AtIs ==
  ASSUME NEW s, NEW S, IsFiniteSet(S)
  PROVE  Sequence(At(s, S)) /\ DOMAIN Ascending(S) = 1..Cardinality(S) /\ Cardinality(S) \in Nat
<1> DEFINE o == Ascending(S)
           f == [k \in DOMAIN o |-> s[o[k]]]
<1>1. Cardinality(S) \in Nat
  BY FS_CardinalityType
<1>2. DOMAIN o = 1..Cardinality(S)
  BY DEF Ascending
<1> HIDE DEF o
<1>3. f = [k \in 1..Cardinality(S) |-> f[k]]
  BY <1>2
<1>4. At(s, S) = f
  BY DEF At, o
<1> HIDE DEF f
<1>5. Sequence(f)
  BY <1>1, <1>3, ListIs
<1> QED  BY <1>1, <1>2, <1>4, <1>5 DEF o

\* What is left of a sequence.
LEMMA LeftIs ==
  ASSUME NEW s, Sequence(s), NEW S \in SUBSET DOMAIN s
  PROVE  Sequence(At(s, S)) /\ DOMAIN Ascending(S) = 1..Cardinality(S) /\ Cardinality(S) \in Nat
<1>1. IsFiniteSet(S)
  BY SequenceHas, FS_Subset
<1> QED  BY <1>1, AtIs

LEMMA FlattenedIs ==
  ASSUME NEW seqs, Sequence(seqs), \A k \in DOMAIN seqs : Sequence(seqs[k])
  PROVE  Sequence(FlattenSeq(seqs))
<1>1. Len(seqs) \in Nat /\ DOMAIN seqs = 1..Len(seqs)
  BY SequenceHas
<1>2. CASE Len(seqs) = 0
  <2>1. FlattenSeq(seqs) = seqs
    BY <1>2 DEF FlattenSeq
  <2> QED  BY <2>1
<1>3. CASE Len(seqs) # 0
  <2> DEFINE n == Len(seqs)
             f == CHOOSE g : Flattens(seqs, g)
             Good == {i \in 1..n : Sequence(f[i])}
  <2>1. FlattenSeq(seqs) = f[n]
    BY <1>3 DEF FlattenSeq, Flattens
  <2>2. Flattens(seqs, f)
    BY <1>1, FlatteningExists DEF f
  <2> HIDE DEF f
  <2>3. \A i \in 1..n : f[i] = IF i = 1 THEN seqs[i] ELSE f[i - 1] \o seqs[i]
    BY <2>2 DEF Flattens
  <2>4. n > 0 => 1 \in Good
    BY <1>1, <2>3
  <2>5. ASSUME NEW i \in 1..n, i \in Good, i < n PROVE (i + 1) \in Good
    <3>1. i + 1 \in 1..n /\ i + 1 # 1 /\ (i + 1) - 1 = i
      BY <1>1, <2>5
    <3>2. f[i + 1] = f[i] \o seqs[i + 1]
      <4>1. f[i + 1] = IF i + 1 = 1 THEN seqs[i + 1] ELSE f[(i + 1) - 1] \o seqs[i + 1]
        BY <2>3, <3>1
      <4> QED  BY ONLY <3>1, <4>1
    <3>3. Sequence(f[i]) /\ Sequence(seqs[i + 1])
      BY <1>1, <2>5, <3>1
    <3>4. Sequence(f[i + 1])
      BY <3>2, <3>3, TogetherIs
    <3> QED  BY <3>1, <3>4
  <2> HIDE DEF Good
  <2>6. \A i \in 1..n : i \in Good
    BY <1>1, <2>4, <2>5, ByNumbers
  <2>7. n \in 1..n
    BY <1>1, <1>3
  <2> QED  BY <2>1, <2>6, <2>7 DEF Good
<1> QED  BY <1>2, <1>3

\* As many as a sequence has.
LEMMA EachIs ==
  ASSUME NEW s, Sequence(s), NEW f, f = [k \in DOMAIN s |-> f[k]]
  PROVE  Sequence(f)
<1>1. Len(s) \in Nat /\ DOMAIN s = 1..Len(s)
  BY SequenceHas
<1>2. f = [k \in 1..Len(s) |-> f[k]]
  BY <1>1
<1> QED  BY <1>1, <1>2, ListIs

LEMMA ClassesAre ==
  ASSUME NEW s, Sequence(s), NEW keys
  PROVE  Sequence(Classes(keys, s))
<1> DEFINE S == {i \in DOMAIN s : \A j \in 1..(i - 1) : keys[j] # keys[i]}
           order == Ascending(S)
           f == [k \in DOMAIN order |-> At(s, {i \in DOMAIN s : keys[i] = keys[order[k]]})]
<1>1. S \in SUBSET DOMAIN s
  OBVIOUS
<1> HIDE DEF S
<1>2. DOMAIN order = 1..Cardinality(S) /\ Cardinality(S) \in Nat
  BY <1>1, LeftIs
<1> HIDE DEF order
<1>3. f = [k \in 1..Cardinality(S) |-> f[k]]
  BY <1>2
<1>4. Classes(keys, s) = f
  BY DEF Classes, order, S
<1> HIDE DEF f
<1> QED  BY <1>2, <1>3, <1>4, ListIs

LEMMA InvoiceItemsAre ==
  ASSUME NEW invoices, Sequence(invoices)
  PROVE  Sequence(InvoiceItems(invoices))
<1> DEFINE sent == At(invoices, {k \in DOMAIN invoices :
                                   invoices[k].code # {} \/ invoices[k].invoice = {}})
           f == [k \in DOMAIN sent |-> Item("invoice", sent[k], sent[k].sum)]
<1>1. Sequence(sent)
  BY LeftIs
<1>2. InvoiceItems(invoices) = f
  BY DEF InvoiceItems
<1> HIDE DEF sent
<1>3. f = [k \in DOMAIN sent |-> f[k]]
  OBVIOUS
<1> HIDE DEF f
<1> QED  BY <1>1, <1>2, <1>3, EachIs

LEMMA PaymentItemsAre ==
  ASSUME NEW payments, Sequence(payments)
  PROVE  Sequence(PaymentItems(payments))
<1> DEFINE incoming == At(payments, {k \in DOMAIN payments : payments[k].incoming})
           groups == Classes([i \in DOMAIN incoming |-> incoming[i].id], incoming)
           f == [k \in DOMAIN groups |-> PaymentItem(groups[k])]
<1>1. Sequence(incoming)
  BY LeftIs
<1>2. PaymentItems(payments) = f
  BY DEF PaymentItems
<1> HIDE DEF incoming
<1>3. Sequence(groups)
  BY <1>1, ClassesAre
<1> HIDE DEF groups
<1>4. f = [k \in DOMAIN groups |-> f[k]]
  OBVIOUS
<1> HIDE DEF f
<1> QED  BY <1>2, <1>3, <1>4, EachIs

LEMMA ActItemsAre ==
  ASSUME NEW acts, Sequence(acts)
  PROVE  Sequence(ActItems(acts))
<1> DEFINE groups == Classes([i \in DOMAIN acts |-> GroupKey(acts[i])], acts)
           items == [k \in DOMAIN groups |-> ActItem(groups[k])]
           coded == {i.date : i \in {x \in Elements(items) : x.code # {} /\ x.other}}
           kept == {k \in DOMAIN items :
                      ~ (items[k].code = {} /\ items[k].other /\ items[k].date \in coded)}
<1>1. Sequence(groups)
  BY ClassesAre
<1>2. ActItems(acts) = At(items, kept)
  BY DEF ActItems
<1> HIDE DEF groups
<1>3. items = [k \in DOMAIN groups |-> items[k]]
  OBVIOUS
<1>4. kept \in SUBSET DOMAIN items
  OBVIOUS
<1> HIDE DEF items, kept
<1>5. Sequence(items)
  BY <1>1, <1>3, EachIs
<1> QED  BY <1>2, <1>4, <1>5, LeftIs

LEMMA ItemsAre ==
  ASSUME NEW snap, Sequence(snap.invoices), Sequence(snap.payments), Sequence(snap.acts)
  PROVE  Sequence(Items(snap))
<1>1. Sequence(InvoiceItems(snap.invoices))
  BY InvoiceItemsAre
<1>2. Sequence(PaymentItems(snap.payments))
  BY PaymentItemsAre
<1>3. Sequence(ActItems(snap.acts))
  BY ActItemsAre
<1> QED  BY <1>1, <1>2, <1>3, TogetherIs DEF Items

\* The documents and lines that a delivery is compared with are sequences.
LEMMA DocsForAre ==
  ASSUME NEW docs, Sequence(docs), NEW snap
  PROVE  Sequence(DocsFor(docs, snap))
<1> DEFINE S == {i \in DOMAIN docs : Empty(Context(snap)) \/ Relevant(docs[i], Context(snap))}
<1>1. S \in SUBSET DOMAIN docs /\ DocsFor(docs, snap) = At(docs, S)
  BY DEF DocsFor
<1> HIDE DEF S
<1> QED  BY <1>1, LeftIs

LEMMA LinesForAre ==
  ASSUME NEW lines, Sequence(lines), NEW snap
  PROVE  Sequence(LinesFor(lines, snap))
<1> DEFINE c == Context(snap)
           S == {i \in DOMAIN lines : Placed(lines[i].spec, lines[i].base, lines[i].text, c)
                                        \/ Indexed(lines[i].code, lines[i].date, "act", c)}
<1>1. S \in SUBSET DOMAIN lines /\ LinesFor(lines, snap) = At(lines, S)
  BY DEF LinesFor
<1> HIDE DEF S
<1> QED  BY <1>1, LeftIs

LEMMA OncePerRowIs ==
  ASSUME NEW lines, Sequence(lines)
  PROVE  Sequence(OncePerRow(lines))
<1> DEFINE S == {i \in DOMAIN lines : ~ \E j \in 1..(i - 1) : /\ lines[j].file = lines[i].file
                                                               /\ lines[j].row = lines[i].row}
<1>1. S \in SUBSET DOMAIN lines /\ OncePerRow(lines) = At(lines, S)
  BY DEF OncePerRow
<1> HIDE DEF S
<1> QED  BY <1>1, LeftIs

\* What a delivery may be compared with.
SourceIs(src) == Sequence(src.docs) /\ Sequence(src.lines)

LEMMA NormalizedIs ==
  ASSUME NEW answer, Sequence(answer.docs), Sequence(answer.lines), NEW snap
  PROVE  SourceIs(NormalizeSnapshot(answer, snap))
<1> DEFINE f == [i \in DOMAIN answer.lines |-> [answer.lines[i] EXCEPT !.sum = NoSum]]
<1>1. f = [i \in DOMAIN answer.lines |-> f[i]]
  OBVIOUS
<1>2. /\ NormalizeSnapshot(answer, snap).docs = DocsFor(answer.docs, snap)
      /\ NormalizeSnapshot(answer, snap).lines = LinesFor(f, snap)
  BY DEF NormalizeSnapshot
<1> HIDE DEF f
<1>3. Sequence(f)
  BY <1>1, EachIs
<1> QED  BY <1>2, <1>3, DocsForAre, LinesForAre DEF SourceIs

\* The tables: files with documents and lines.
FilesAre(tabled) ==
  Sequence(tabled) /\ \A k \in DOMAIN tabled : Sequence(tabled[k].docs) /\ Sequence(tabled[k].lines)

LEMMA AllOfAre ==
  ASSUME NEW tabled, FilesAre(tabled)
  PROVE  Sequence(AllOf("docs", tabled)) /\ Sequence(AllOf("lines", tabled))
<1>1. ASSUME NEW field \in {"docs", "lines"} PROVE Sequence(AllOf(field, tabled))
  <2> DEFINE f == [i \in DOMAIN tabled |-> tabled[i][field]]
  <2>1. f = [i \in DOMAIN tabled |-> f[i]] /\ DOMAIN f = DOMAIN tabled
    OBVIOUS
  <2>2. \A k \in DOMAIN f : Sequence(f[k])
    BY DEF FilesAre
  <2>3. AllOf(field, tabled) = FlattenSeq(f)
    BY DEF AllOf
  <2> HIDE DEF f
  <2>4. Sequence(f)
    BY <2>1, EachIs DEF FilesAre
  <2> QED  BY <2>2, <2>3, <2>4, FlattenedIs
<1> QED  BY <1>1

LEMMA TableLinesAre ==
  ASSUME NEW tabled, FilesAre(tabled), NEW snap
  PROVE  Sequence(TableLines(tabled, snap))
<1> DEFINE all == AllOf("lines", tabled)
           ofCode(l, code, date) == code # {} /\ date # 0 /\ l.code = code /\ l.date = date
           ofAct(l) == \E a \in Elements(snap.acts) :
                         \/ ofCode(l, a.code, a.date)
                         \/ ofCode(l, a.main.code, IF a.main.date # 0 THEN a.main.date ELSE a.date)
           S == {i \in DOMAIN all : SpecGiven(all[i], snap.delivery)}
           T == {i \in DOMAIN all : ofAct(all[i])}
<1>1. TableLines(tabled, snap) = LinesFor(OncePerRow(At(all, S) \o At(all, T)), snap)
  BY DEF TableLines
<1>2. S \in SUBSET DOMAIN all /\ T \in SUBSET DOMAIN all
  OBVIOUS
<1> HIDE DEF S, T
<1>3. Sequence(all)
  BY AllOfAre
<1> HIDE DEF all
<1>4. Sequence(At(all, S)) /\ Sequence(At(all, T))
  BY <1>2, <1>3, LeftIs
<1>5. Sequence(At(all, S) \o At(all, T))
  BY <1>4, TogetherIs
<1> QED  BY <1>1, <1>5, OncePerRowIs, LinesForAre

-----------------------------------------------------------------------------
(* What becomes of one item of the ERP.                                      *)

LEMMA MinDoes ==
  ASSUME NEW S, S \subseteq Nat, S # {}
  PROVE  Min(S) \in S
<1>1. \E x \in S : \A y \in S : x <= y
  BY LeastNumber
<1> QED  BY <1>1 DEF Min

LEMMA ScoreIsBounded ==
  ASSUME NEW item, NEW doc
  PROVE  Score(item, doc) \in Nat /\ Score(item, doc) <= 325
BY DEF Score

\* The best document is one of the item's key that is left; without one there is
\* none of its key left.
LEMMA BestDoes ==
  ASSUME NEW docs, Sequence(docs), NEW used, NEW item, NEW best, best = Best(item, docs, used)
  PROVE  /\ best # 0 => best \in DOMAIN docs \ used /\ SameKey(item, docs[best])
         /\ best = 0 => \A d \in DOMAIN docs \ used : ~ SameKey(item, docs[d])
<1> DEFINE c == {i \in DOMAIN docs \ used : SameKey(item, docs[i])}
           top == {i \in c : \A j \in c : Score(item, docs[j]) <= Score(item, docs[i])}
<1>1. best = IF c = {} THEN 0 ELSE Min(top)
  BY DEF Best
<1>2. c \subseteq DOMAIN docs \ used /\ DOMAIN docs = 1..Len(docs) /\ Len(docs) \in Nat
  BY SequenceHas
<1>3. ASSUME c # {} PROVE best \in c
  <2> DEFINE missing == {325 - Score(item, docs[i]) : i \in c}
  <2>1. missing \subseteq Nat /\ missing # {}
    <3>1. \A i \in c : 325 - Score(item, docs[i]) \in Nat
      BY ScoreIsBounded
    <3> QED  BY <1>3, <3>1
  <2>2. PICK x \in missing : \A y \in missing : x <= y
    BY <2>1, LeastNumber
  <2>3. PICK i \in c : x = 325 - Score(item, docs[i])
    OBVIOUS
  <2>4. \A j \in c : Score(item, docs[j]) <= Score(item, docs[i])
    <3> SUFFICES ASSUME NEW j \in c PROVE Score(item, docs[j]) <= Score(item, docs[i])
      OBVIOUS
    <3>1. x <= 325 - Score(item, docs[j])
      BY <2>2
    <3>2. Score(item, docs[j]) \in Nat /\ Score(item, docs[i]) \in Nat
      BY ScoreIsBounded
    <3> QED  BY <2>3, <3>1, <3>2
  <2>5. top # {} /\ top \subseteq c
    BY <2>4
  <2>6. top \subseteq Nat
    BY <1>2, <2>5
  <2> HIDE DEF top
  <2>7. Min(top) \in top
    BY <2>5, <2>6, MinDoes
  <2> QED  BY <1>1, <1>3, <2>5, <2>7
<1>4. 0 \notin c
  BY <1>2
<1> QED  BY <1>1, <1>3, <1>4

\* Lines are of the act, and none that was used.
LEMMA LineMatchDoes ==
  ASSUME NEW lines, Sequence(lines), NEW used, NEW item, NEW delivery,
         NEW line, line = LineMatch(item, lines, used, delivery)
  PROVE  /\ line.refs \subseteq DOMAIN lines \ used
         /\ \A i \in line.refs : LineOfAct(item, lines[i])
<1> DEFINE mine == {i \in DOMAIN lines \ used : LineOfAct(item, lines[i])}
           named(i) == lines[i].spec # "" \/ lines[i].base # ""
           strict == {i \in mine : /\ named(i)
                                   /\ ~ Differ(delivery.spec, lines[i].spec)
                                   /\ ~ Differ(delivery.base, lines[i].base)}
           loose == {i \in mine : ~ named(i)}
           exact == {i \in loose : lines[i].sum = item.sum}
<1>1. line.refs = IF strict # {} THEN strict ELSE LooseLines(item, lines, loose)
  BY DEF LineMatch, Taken
<1>2. LooseLines(item, lines, loose) = IF exact = {} THEN loose ELSE {Min(exact)}
  BY DEF LooseLines
<1>3. strict \subseteq mine /\ loose \subseteq mine /\ exact \subseteq mine
  OBVIOUS
<1>4. mine \subseteq DOMAIN lines \ used /\ \A i \in mine : LineOfAct(item, lines[i])
  OBVIOUS
<1>5. mine \subseteq Nat
  BY SequenceHas
<1> HIDE DEF mine, strict, loose, exact
<1>6. exact # {} => Min(exact) \in mine
  BY <1>3, <1>5, MinDoes
<1>7. line.refs \subseteq mine
  BY <1>1, <1>2, <1>3, <1>6
<1> QED  BY <1>4, <1>7

Alike(lines, refs) == \A a, b \in refs : lines[a].code \cap lines[b].code # {}

\* What an item rests on is marked when the codes of the lines meet.
LEMMA MarkedDoes ==
  ASSUME NEW lines, Sequence(lines), NEW item, item.date # 0,
         NEW refs, refs \subseteq DOMAIN lines, \A i \in refs : LineOfAct(item, lines[i]),
         Alike(lines, refs)
  PROVE  refs \subseteq Marked(item, refs, lines)
<1> SUFFICES ASSUME NEW i \in refs PROVE i \in Marked(item, refs, lines)
  OBVIOUS
<1> DEFINE first == lines[Min(refs)]
           date == IF first.date # 0 THEN first.date ELSE item.date
<1>1. refs \subseteq Nat
  BY SequenceHas
<1>2. Min(refs) \in refs
  BY <1>1, MinDoes
<1>3. date = item.date
  BY <1>2 DEF LineOfAct, NotApart
<1>4. NotApart(date, lines[i].date)
  BY <1>3 DEF LineOfAct
<1>5. lines[i].code \cap first.code # {}
  BY <1>2 DEF Alike
<1>6. lines[i].row \in {lines[k].row : k \in refs} /\ i \in DOMAIN lines
  OBVIOUS
<1> QED  BY <1>4, <1>5, <1>6 DEF Marked

\* The row of an item, and what the item takes out of the search.
LEMMA DecidedDoes ==
  ASSUME NEW item, NEW best, NEW docs, NEW line, NEW move, NEW related, NEW marked,
         NEW r, r = Decided(item, best, docs, line, move, related, marked)
  PROVE  /\ r.row.item = item /\ r.row.status # "not_found_in_erp"
         /\ r.row.by \in {"nothing", "document", "lines", "movements"}
         /\ r.row.by = "document" => best # 0 /\ r.docs = {best} /\ r.row.refs = {best}
         /\ r.row.by # "document" => r.docs \subseteq related \cup ({best} \ {0})
         /\ r.row.by = "nothing" => r.docs = {}
         /\ r.row.status = "not_found_in_1c" => best = 0
         /\ r.row.by = "lines" =>
              /\ r.row.refs = line.refs /\ r.row.mismatch = line.mismatch
              /\ HasPrimaryKey(item)
              /\ AddsUp(line) => r.lines = marked
<1> DEFINE disputed == best # 0 /\ item.kind = "act" /\ "sum" \in Mismatch(item, docs[best])
           ofLines == \/ best = 0 /\ line.refs # {}
                      \/ disputed /\ AddsUp(line)
           ofMovements == \/ IsPartial(item) /\ AddsUp(move)
                          \/ ~ ofLines /\ best = 0 /\ move.refs # {}
                          \/ ~ ofLines /\ disputed /\ AddsUp(move)
           alone == IF best = 0 \/ IsPartial(item) THEN {} ELSE {best}
<1>1. CASE ~ HasPrimaryKey(item)
  <2>1. r = Result(Unfound("not_comparable", item), {}, {})
    BY <1>1 DEF Decided
  <2> QED  BY <2>1 DEF Result, Unfound, Row
<1>2. CASE HasPrimaryKey(item) /\ ofMovements
  <2>1. r = ByMovements(item, move, related, alone)
    BY <1>2 DEF Decided
  <2>2. /\ r.row.item = item /\ r.row.status \in {"match", "fields_mismatch"}
        /\ r.row.by = "movements" /\ r.docs \in {{}, alone \cup related}
    BY <2>1 DEF ByMovements, Result, Judged, Row
  <2> QED  BY <2>2
<1>3. CASE HasPrimaryKey(item) /\ ~ ofMovements /\ ofLines
  <2>1. r = ByLines(item, line, related, marked, alone)
    BY <1>3 DEF Decided
  <2>2. /\ r.row.item = item /\ r.row.status \in {"match", "fields_mismatch"}
        /\ r.row.by = "lines" /\ r.docs \in {{}, alone \cup related}
        /\ r.row.refs = line.refs /\ r.row.mismatch = line.mismatch
        /\ AddsUp(line) => r.lines = marked
    BY <2>1 DEF ByLines, Result, Judged, Row
  <2> QED  BY <1>3, <2>2
<1>4. CASE HasPrimaryKey(item) /\ ~ ofMovements /\ ~ ofLines /\ best = 0
  <2>1. r = Result(Unfound("not_found_in_1c", item), {}, {})
    BY <1>4 DEF Decided
  <2> QED  BY <1>4, <2>1 DEF Result, Unfound, Row
<1>5. CASE HasPrimaryKey(item) /\ ~ ofMovements /\ ~ ofLines /\ best # 0
  <2>1. r = Result(Judged(item, "document", DocumentMatch(item, best, docs)), {best}, {})
    BY <1>5 DEF Decided
  <2> QED  BY <1>5, <2>1 DEF Result, Judged, Row, DocumentMatch, Taken
<1> QED  BY <1>1, <1>2, <1>3, <1>4, <1>5

\* doc goes by the code of the item.
GoesBy(item, doc) ==
  /\ doc.kind \in OneCKinds(item.kind)
  /\ doc.date \in {0, item.date}
  /\ item.code \cap (doc.code \cup doc.number) # {}

OutcomeIs(r, item, src, used, usedLines) ==
  /\ r.row.item = item /\ r.row.status # "not_found_in_erp"
  /\ r.row.by = "document" =>
       r.row.refs = r.docs /\ r.docs \subseteq DOMAIN src.docs \ used
  /\ r.row.by # "document" =>
       \A d \in r.docs : r.row.by \in {"lines", "movements"} /\ GoesBy(item, src.docs[d])
  /\ r.row.status = "not_found_in_1c" =>
       \A d \in DOMAIN src.docs \ used : ~ SameKey(item, src.docs[d])
  /\ r.row.by = "lines" =>
       /\ r.row.refs \cap usedLines = {}
       /\ "sum" \notin r.row.mismatch /\ Alike(src.lines, r.row.refs) =>
            r.row.refs \subseteq r.lines

LEMMA OutcomeDoes ==
  ASSUME NEW src, SourceIs(src), NEW item, NEW used, NEW usedLines, NEW delivery,
         NEW r, r = Outcome(item, src, used, usedLines, delivery)
  PROVE  OutcomeIs(r, item, src, used, usedLines)
<1> DEFINE line == LineMatch(item, src.lines, usedLines, delivery)
           best == Best(item, src.docs, used)
           move == MovementMatch(item, src.movements, delivery)
           related == Related(item, src.docs)
           marked == Marked(item, line.refs, src.lines)
<1>1. r = Decided(item, best, src.docs, line, move, related, marked)
  BY DEF Outcome
<1>2. /\ best # 0 => best \in DOMAIN src.docs \ used /\ SameKey(item, src.docs[best])
      /\ best = 0 => \A d \in DOMAIN src.docs \ used : ~ SameKey(item, src.docs[d])
  BY BestDoes DEF SourceIs
<1>3. /\ line.refs \subseteq DOMAIN src.lines \ usedLines
      /\ \A i \in line.refs : LineOfAct(item, src.lines[i])
  BY LineMatchDoes DEF SourceIs
<1>4. \A d \in related : GoesBy(item, src.docs[d])
  BY DEF Related, GoesBy
<1>5. best # 0 => GoesBy(item, src.docs[best])
  BY <1>2 DEF SameKey, GoesBy
<1>6. HasPrimaryKey(item) /\ Alike(src.lines, line.refs) => line.refs \subseteq marked
  <2> SUFFICES ASSUME HasPrimaryKey(item), Alike(src.lines, line.refs)
               PROVE  line.refs \subseteq marked
    OBVIOUS
  <2>1. item.date # 0 /\ Sequence(src.lines) /\ line.refs \subseteq DOMAIN src.lines
    BY <1>3 DEF HasPrimaryKey, SourceIs
  <2> HIDE DEF line
  <2> QED  BY <1>3, <2>1, MarkedDoes DEF marked
<1> HIDE DEF line, best, move, related, marked
<1>7. /\ r.row.item = item /\ r.row.status # "not_found_in_erp"
      /\ r.row.by \in {"nothing", "document", "lines", "movements"}
      /\ r.row.by = "document" => best # 0 /\ r.docs = {best} /\ r.row.refs = {best}
      /\ r.row.by # "document" => r.docs \subseteq related \cup ({best} \ {0})
      /\ r.row.by = "nothing" => r.docs = {}
      /\ r.row.status = "not_found_in_1c" => best = 0
      /\ r.row.by = "lines" =>
           /\ r.row.refs = line.refs /\ r.row.mismatch = line.mismatch
           /\ HasPrimaryKey(item)
           /\ AddsUp(line) => r.lines = marked
  BY <1>1, DecidedDoes
<1>8. r.row.by = "document" => r.row.refs = r.docs /\ r.docs \subseteq DOMAIN src.docs \ used
  BY <1>2, <1>7
<1>9. r.row.by # "document" =>
        \A d \in r.docs : r.row.by \in {"lines", "movements"} /\ GoesBy(item, src.docs[d])
  BY <1>4, <1>5, <1>7
<1>10. r.row.status = "not_found_in_1c" =>
         \A d \in DOMAIN src.docs \ used : ~ SameKey(item, src.docs[d])
  BY <1>2, <1>7
<1>11. r.row.by = "lines" =>
         /\ r.row.refs \cap usedLines = {}
         /\ "sum" \notin r.row.mismatch /\ Alike(src.lines, r.row.refs) =>
              r.row.refs \subseteq r.lines
  BY <1>3, <1>6, <1>7 DEF AddsUp
<1> QED  BY <1>7, <1>8, <1>9, <1>10, <1>11 DEF OutcomeIs

-----------------------------------------------------------------------------
(* One item after another.  done[k] is where the first k of them lead.       *)

OutcomeOf(snap, src, t, item) == Outcome(item, src, t.used, t.usedLines, snap.delivery)

Decides(snap, src, items, done) ==
  done = [k \in 0..Len(items) |->
            IF k = 0 THEN NoneDone
            ELSE Advanced(done[k - 1], OutcomeOf(snap, src, done[k - 1], items[k]))]

LEMMA DecisionsExist ==
  ASSUME NEW snap, NEW src, NEW items, Len(items) \in Nat
  PROVE  \E done : Decides(snap, src, items, done)
<1> DEFINE n == Len(items)
           Step(f, i) == IF i = 0 THEN NoneDone
                         ELSE Advanced(f[i - 1], OutcomeOf(snap, src, f[i - 1], items[i]))
           Good == {k \in 1..(n + 1) : \E f : f = [i \in 0..(k - 1) |-> Step(f, i)]}
<1>1. 1 \in Good
  <2> DEFINE f == [i \in 0..0 |-> NoneDone]
  <2>1. f = [i \in 0..(1 - 1) |-> Step(f, i)]
    OBVIOUS
  <2> HIDE DEF f
  <2>2. \E g : g = [i \in 0..(1 - 1) |-> Step(g, i)]
    BY <2>1
  <2>3. 1 \in 1..(n + 1)
    OBVIOUS
  <2> HIDE DEF Step, n
  <2> QED  BY <2>2, <2>3
<1>2. ASSUME NEW k \in 1..(n + 1), k \in Good, k < n + 1 PROVE (k + 1) \in Good
  <2>1. PICK f : f = [i \in 0..(k - 1) |-> Step(f, i)]
    BY <1>2
  <2> DEFINE last == Advanced(f[k - 1], OutcomeOf(snap, src, f[k - 1], items[k]))
             g == [i \in 0..k |-> IF i = k THEN last ELSE f[i]]
  <2>2. ASSUME NEW i \in 0..k PROVE g[i] = Step(g, i)
    <3>1. CASE i = k
      <4>1. i # 0 /\ k - 1 \in 0..k /\ k - 1 # k
        BY <3>1
      <4>2. g[k - 1] = f[k - 1] /\ g[i] = last
        BY <3>1, <4>1
      <4> HIDE DEF g
      <4> QED  BY <3>1, <4>1, <4>2
    <3>2. CASE i # k
      <4>1. i \in 0..(k - 1) /\ g[i] = f[i]
        BY <3>2
      <4>2. f[i] = Step(f, i)
        BY <2>1, <4>1
      <4>3. i # 0 => i - 1 \in 0..k /\ i - 1 # k
        BY <4>1
      <4>4. i # 0 => g[i - 1] = f[i - 1]
        BY <4>3
      <4> HIDE DEF g
      <4> QED  BY <4>1, <4>2, <4>4
    <3> QED  BY <3>1, <3>2
  <2>3. g = [i \in 0..k |-> Step(g, i)]
    BY <2>2
  <2> HIDE DEF g
  <2>4. k + 1 \in 1..(n + 1) /\ (k + 1) - 1 = k
    BY <1>2
  <2>5. g = [i \in 0..((k + 1) - 1) |-> Step(g, i)]
    BY <2>3, <2>4
  <2> HIDE DEF Step, n
  <2> QED  BY <2>4, <2>5
<1>3. n + 1 \in 1..(n + 1) /\ (n + 1) - 1 = n /\ n + 1 \in Nat
  OBVIOUS
<1> HIDE DEF Good
<1>4. n + 1 \in Good
  <2>1. PICK m : m = n + 1
    OBVIOUS
  <2>2. m \in Nat /\ (m > 0 => 1 \in Good) /\ m \in 1..m
    BY <1>1, <1>3, <2>1
  <2>3. \A i \in 1..m : i \in Good /\ i < m => (i + 1) \in Good
    BY <1>2, <2>1
  <2>4. \A i \in 1..m : i \in Good
    BY ONLY <2>2, <2>3, ByNumbers
  <2> QED  BY <2>1, <2>2, <2>4
<1>5. PICK f : f = [i \in 0..n |-> Step(f, i)]
  BY <1>3, <1>4 DEF Good
<1> QED  BY <1>5 DEF Decides

\* Where the first k items lead: their rows in their order, and what they took
\* out of the search.
Leads(done, res, k) ==
  LET t == done[k] IN
  /\ Sequence(t.rows) /\ Len(t.rows) = k
  /\ \A j \in 1..k : /\ t.rows[j] = res[j].row
                     /\ res[j].docs \subseteq t.used /\ res[j].lines \subseteq t.usedLines
  /\ \A d \in t.used : \E j \in 1..k : d \in res[j].docs
  /\ \A j \in 0..k : done[j].used \subseteq t.used

LEMMA DecisionsLead ==
  ASSUME NEW snap, NEW src, NEW items, Len(items) \in Nat, NEW n, n = Len(items),
         NEW done, Decides(snap, src, items, done),
         NEW res, res = [k \in 1..n |-> OutcomeOf(snap, src, done[k - 1], items[k])]
  PROVE  \A k \in 0..n : Leads(done, res, k)
<1>1. done[0] = NoneDone
  BY DEF Decides
<1>2. ASSUME NEW k \in 1..n PROVE done[k] = Advanced(done[k - 1], res[k])
  <2>1. k \in 0..Len(items) /\ k # 0
    OBVIOUS
  <2>2. done[k] = Advanced(done[k - 1], OutcomeOf(snap, src, done[k - 1], items[k]))
    BY <2>1 DEF Decides
  <2> QED  BY <2>2
<1>3. Leads(done, res, 0)
  <2>1. Sequence(<<>>) /\ Len(<<>>) = 0
    BY DEF Sequence
  <2> QED  BY <1>1, <2>1 DEF Leads, NoneDone
<1>4. ASSUME NEW k \in 1..n, Leads(done, res, k - 1) PROVE Leads(done, res, k)
  <2> DEFINE s == done[k - 1]
             t == done[k]
             r == res[k]
  <2>1. /\ t.rows = Append(s.rows, r.row)
        /\ t.used = s.used \cup r.docs /\ t.usedLines = s.usedLines \cup r.lines
    <3>1. t = Advanced(s, r)
      BY <1>2
    <3> HIDE DEF s, t, r
    <3> QED  BY <3>1 DEF Advanced
  <2>2. /\ Sequence(s.rows) /\ Len(s.rows) = k - 1
        /\ \A j \in 1..(k - 1) : /\ s.rows[j] = res[j].row
                                 /\ res[j].docs \subseteq s.used /\ res[j].lines \subseteq s.usedLines
        /\ \A d \in s.used : \E j \in 1..(k - 1) : d \in res[j].docs
        /\ \A j \in 0..(k - 1) : done[j].used \subseteq s.used
    BY <1>4 DEF Leads
  <2> HIDE DEF s, t, r
  <2>3. /\ Sequence(t.rows) /\ Len(t.rows) = k /\ t.rows[k] = r.row
        /\ \A j \in 1..(k - 1) : t.rows[j] = s.rows[j]
    <3>1. /\ Sequence(t.rows)
          /\ Len(t.rows) = Len(s.rows) + 1
          /\ t.rows[Len(s.rows) + 1] = r.row
          /\ \A j \in 1..Len(s.rows) : t.rows[j] = s.rows[j]
      <4>1. PICK a, x, b : a = s.rows /\ x = r.row /\ b = t.rows
        OBVIOUS
      <4>2. Sequence(a) /\ b = Append(a, x)
        BY <2>1, <2>2, <4>1
      <4>3. Sequence(b)
        BY ONLY <4>2, AppendDoes
      <4>4. Len(b) = Len(a) + 1
        BY ONLY <4>2, AppendDoes
      <4>5. b[Len(a) + 1] = x
        BY ONLY <4>2, AppendDoes
      <4>6. \A j \in 1..Len(a) : b[j] = a[j]
        <5>1. DOMAIN a = 1..Len(a)
          BY <4>2, SequenceHas
        <5>2. \A j \in DOMAIN a : b[j] = a[j]
          BY ONLY <4>2, AppendDoes
        <5> QED  BY <5>1, <5>2
      <4> QED  BY <4>1, <4>3, <4>4, <4>5, <4>6
    <3>2. (k - 1) + 1 = k
      OBVIOUS
    <3> QED  BY <2>2, <3>1, <3>2
  <2>4. \A j \in 1..k : j = k \/ j \in 1..(k - 1)
    OBVIOUS
  <2>5. \A j \in 1..k : /\ t.rows[j] = res[j].row
                        /\ res[j].docs \subseteq t.used /\ res[j].lines \subseteq t.usedLines
    BY <2>1, <2>2, <2>3, <2>4 DEF r
  <2>6. \A d \in t.used : \E j \in 1..k : d \in res[j].docs
    <3>1. k \in 1..k /\ \A j \in 1..(k - 1) : j \in 1..k
      OBVIOUS
    <3> QED  BY <2>1, <2>2, <3>1 DEF r
  <2>7. \A j \in 0..k : done[j].used \subseteq t.used
    <3>1. \A j \in 0..k : j = k \/ j \in 0..(k - 1)
      OBVIOUS
    <3> QED  BY <2>1, <2>2, <3>1 DEF t
  <2> QED  BY <2>3, <2>5, <2>6, <2>7 DEF Leads, t
<1>5. n > 0 => 1 \in {k \in 1..n : Leads(done, res, k)}
  <2>1. n > 0 => 1 \in 1..n /\ 1 - 1 = 0
    OBVIOUS
  <2> QED  BY <1>3, <1>4, <2>1
<1>6. \A k \in 1..n : k \in {j \in 1..n : Leads(done, res, j)}
  <2> DEFINE Led == {k \in 1..n : Leads(done, res, k)}
  <2>1. ASSUME NEW k \in 1..n, k \in Led, k < n PROVE (k + 1) \in Led
    <3>1. k + 1 \in 1..n /\ (k + 1) - 1 = k
      BY <2>1
    <3> QED  BY <1>4, <2>1, <3>1
  <2>2. n > 0 => 1 \in Led
    BY <1>5
  <2> HIDE DEF Led
  <2>3. \A k \in 1..n : k \in Led
    BY <2>1, <2>2, ByNumbers
  <2> QED  BY <2>3 DEF Led
<1>7. \A k \in 0..n : k = 0 \/ k \in 1..n
  OBVIOUS
<1> QED  BY <1>3, <1>6, <1>7

-----------------------------------------------------------------------------
(* The report: what became of the items, then the documents that are left.   *)

Alone(row, d) == row.status = "not_found_in_erp" /\ row.by = "document" /\ row.refs = {d}

RowsOfItems(rep, src, res, done, n) ==
  \A i \in 1..n : /\ i \in DOMAIN rep.rows /\ rep.rows[i] = res[i].row
                  /\ OutcomeIs(res[i], res[i].row.item, src, done[i - 1].used, done[i - 1].usedLines)

TakenInOrder(res, done, n) ==
  /\ \A i \in 1..n : done[i - 1].used \subseteq done[n].used
  /\ \A i \in 1..n : res[i].docs \subseteq done[n].used
  /\ \A j \in 1..n : \A i \in 1..(j - 1) : /\ res[i].docs \subseteq done[j - 1].used
                                           /\ res[i].lines \subseteq done[j - 1].usedLines
  /\ \A d \in done[n].used : \E i \in 1..n : d \in res[i].docs

RowsOfTheRest(rep, src, used, n) ==
  /\ \A i \in DOMAIN rep.rows \ (1..n) : \E d \in DOMAIN src.docs \ used : Alone(rep.rows[i], d)
  /\ \A i, j \in DOMAIN rep.rows \ (1..n) : i # j => rep.rows[i].refs \cap rep.rows[j].refs = {}
  /\ \A d \in DOMAIN src.docs \ used :
       src.docs[d].kind = "contract" \/ \E i \in DOMAIN rep.rows : Alone(rep.rows[i], d)

Reported(rep, src, res, done, n) ==
  /\ n \in Nat /\ DOMAIN rep.rows \subseteq Nat /\ rep.src = src
  /\ RowsOfItems(rep, src, res, done, n)
  /\ TakenInOrder(res, done, n)
  /\ RowsOfTheRest(rep, src, done[n].used, n)

\* The rows of the documents that are left follow n others.
Continues(rep, src, t, n) ==
  /\ DOMAIN rep.rows \subseteq Nat /\ rep.src = src
  /\ \A i \in 1..n : i \in DOMAIN rep.rows /\ rep.rows[i] = t.rows[i]
  /\ RowsOfTheRest(rep, src, t.used, n)

LEMMA RestDoes ==
  ASSUME NEW snap, NEW src, SourceIs(src), NEW t, Sequence(t.rows), NEW n, n = Len(t.rows),
         NEW rep, rep = Report(snap, src, t)
  PROVE  Continues(rep, src, t, n)
<1> DEFINE S == {i \in DOMAIN src.docs \ t.used : src.docs[i].kind # "contract"}
           rest == Ascending(S)
           alone(i) == Row("not_found_in_erp", [kind |-> "none"], "document", {i},
                           src.docs[i].sum, {})
           tail == [k \in DOMAIN rest |-> alone(rest[k])]
           m == Cardinality(S)
<1>1. rep.src = src /\ rep.rows = t.rows \o tail
  BY DEF Report
<1>2. S \subseteq Nat /\ IsFiniteSet(S)
  <2>1. DOMAIN src.docs = 1..Len(src.docs) /\ IsFiniteSet(DOMAIN src.docs) /\ Len(src.docs) \in Nat
    BY SequenceHas DEF SourceIs
  <2>2. S \subseteq DOMAIN src.docs
    OBVIOUS
  <2> HIDE DEF S
  <2> QED  BY <2>1, <2>2, FS_Subset
<1>3. /\ \A i \in S : i \in DOMAIN src.docs \ t.used
      /\ \A i \in DOMAIN src.docs \ t.used : src.docs[i].kind = "contract" \/ i \in S
  OBVIOUS
<1>4. \A i : Alone(alone(i), i) /\ alone(i).refs = {i}
  BY DEF Alone, Row
<1> HIDE DEF S, rest, alone
<1>5. /\ m \in Nat /\ DOMAIN rest = 1..m
      /\ \A k \in 1..m : rest[k] \in S
      /\ \A j, k \in 1..m : rest[j] = rest[k] => j = k
      /\ \A s \in S : \E k \in 1..m : rest[k] = s
  <2>1. PICK o : o = rest
    OBVIOUS
  <2>2. o = Ascending(S)
    BY <2>1 DEF rest
  <2>3. Lists(o, S, m)
    BY <1>2, <2>2, AscendingDoes
  <2> HIDE DEF m
  <2> QED  BY <2>1, <2>3 DEF Lists
<1> HIDE DEF m
<1>6. DOMAIN tail = 1..m /\ tail = [k \in 1..m |-> tail[k]] /\ \A k \in 1..m : tail[k] = alone(rest[k])
  BY <1>5
<1> HIDE DEF tail
<1>7. Sequence(tail) /\ Len(tail) = m
  BY <1>5, <1>6, ListIs
<1>8. n \in Nat
  BY SequenceHas
<1>9. PICK rows : rows = rep.rows
  OBVIOUS
<1>10. /\ Sequence(rows) /\ Len(rows) = n + m
       /\ \A k \in 1..n : rows[k] = t.rows[k]
       /\ \A k \in 1..m : rows[n + k] = tail[k]
  <2>1. PICK a : a = t.rows
    OBVIOUS
  <2>2. Sequence(a) /\ Sequence(tail) /\ rows = a \o tail
    BY <1>1, <1>7, <1>9, <2>1
  <2>3. Sequence(rows)
    BY ONLY <2>2, ConcatIs
  <2>4. Len(rows) = Len(a) + Len(tail)
    BY ONLY <2>2, ConcatIs
  <2>5. \A k \in 1..Len(a) : rows[k] = a[k]
    BY ONLY <2>2, ConcatIs
  <2>6. \A k \in 1..Len(tail) : rows[Len(a) + k] = tail[k]
    BY ONLY <2>2, ConcatIs
  <2> QED  BY <1>7, <2>1, <2>3, <2>4, <2>5, <2>6
<1>11. DOMAIN rows = 1..(n + m)
  BY <1>10, SequenceHas
<1>12. ASSUME NEW i \in DOMAIN rows \ (1..n)
       PROVE  i - n \in 1..m /\ i \in Nat /\ rows[i] = alone(rest[i - n])
  <2>1. i - n \in 1..m /\ n + (i - n) = i /\ i \in Nat
    BY <1>5, <1>8, <1>11
  <2> QED  BY <1>6, <1>10, <2>1
<1>13. ASSUME NEW i \in DOMAIN rows \ (1..n)
       PROVE  \E d \in DOMAIN src.docs \ t.used : Alone(rows[i], d)
  <2>1. i - n \in 1..m /\ rows[i] = alone(rest[i - n])
    BY <1>12
  <2>2. rest[i - n] \in DOMAIN src.docs \ t.used
    BY <1>3, <1>5, <2>1
  <2> QED  BY <1>4, <2>1, <2>2
<1>14. ASSUME NEW i \in DOMAIN rows \ (1..n), NEW j \in DOMAIN rows \ (1..n), i # j
       PROVE  rows[i].refs \cap rows[j].refs = {}
  <2>1. /\ i - n \in 1..m /\ j - n \in 1..m /\ i \in Nat /\ j \in Nat
        /\ rows[i].refs = {rest[i - n]} /\ rows[j].refs = {rest[j - n]}
    BY <1>4, <1>12
  <2>2. i - n # j - n
    BY <1>8, <1>14, <2>1
  <2>3. rest[i - n] # rest[j - n]
    BY <1>5, <2>1, <2>2
  <2> QED  BY <2>1, <2>3
<1>15. ASSUME NEW d \in DOMAIN src.docs \ t.used, src.docs[d].kind # "contract"
       PROVE  \E i \in DOMAIN rows : Alone(rows[i], d)
  <2>1. PICK k \in 1..m : rest[k] = d
    BY <1>3, <1>5, <1>15
  <2>2. n + k \in DOMAIN rows
    BY <1>5, <1>8, <1>11
  <2>3. rows[n + k] = alone(d)
    BY <1>6, <1>10, <2>1
  <2> QED  BY <1>4, <2>2, <2>3
<1>16. RowsOfTheRest(rep, src, t.used, n)
  BY <1>9, <1>13, <1>14, <1>15 DEF RowsOfTheRest
<1>17. DOMAIN rows \subseteq Nat /\ \A i \in 1..n : i \in DOMAIN rows
  BY <1>5, <1>8, <1>11
<1> QED  BY <1>1, <1>9, <1>10, <1>16, <1>17 DEF Continues

LEMMA ComparedDoes ==
  ASSUME NEW snap, NEW src, SourceIs(src), Sequence(Items(snap)),
         NEW rep, rep = Compared(snap, src)
  PROVE  \E res, done, n : Reported(rep, src, res, done, n)
<1> DEFINE items == Items(snap)
           n == Len(items)
           done == CHOOSE f : Decides(snap, src, items, f)
           res == [k \in 1..n |-> OutcomeOf(snap, src, done[k - 1], items[k])]
<1>1. n \in Nat
  BY SequenceHas
<1>2. Decides(snap, src, items, done)
  BY <1>1, DecisionsExist
<1>3. rep = Report(snap, src, done[n])
  BY DEF Compared, Decides, OutcomeOf
<1>4. \A k \in 1..n : res[k] = OutcomeOf(snap, src, done[k - 1], items[k])
  OBVIOUS
<1> HIDE DEF items, n, done
<1>5. \A k \in 0..n : Leads(done, res, k)
  BY <1>1, <1>2, DecisionsLead DEF n
<1>6. \A k \in 1..n : OutcomeIs(res[k], items[k], src, done[k - 1].used, done[k - 1].usedLines)
  <2> SUFFICES ASSUME NEW k \in 1..n
               PROVE  OutcomeIs(res[k], items[k], src, done[k - 1].used, done[k - 1].usedLines)
    OBVIOUS
  <2>1. res[k] = Outcome(items[k], src, done[k - 1].used, done[k - 1].usedLines, snap.delivery)
    BY <1>4 DEF OutcomeOf
  <2> HIDE DEF res
  <2> QED  BY <2>1, OutcomeDoes
<1> HIDE DEF res
<1>7. \A k \in 1..n : OutcomeIs(res[k], res[k].row.item, src, done[k - 1].used, done[k - 1].usedLines)
  BY <1>6 DEF OutcomeIs
<1>8. n \in 0..n
  BY <1>1
<1>9. Leads(done, res, n)
  BY <1>5, <1>8
<1>10. TakenInOrder(res, done, n)
  <2>1. \A i \in 1..n : i - 1 \in 0..n
    BY <1>1
  <2>2. \A i \in 1..n : done[i - 1].used \subseteq done[n].used
    BY <1>9, <2>1 DEF Leads
  <2>3. \A i \in 1..n : res[i].docs \subseteq done[n].used
    BY <1>9 DEF Leads
  <2>4. \A d \in done[n].used : \E i \in 1..n : d \in res[i].docs
    BY <1>9 DEF Leads
  <2>5. \A j \in 1..n : Leads(done, res, j - 1)
    BY <1>5, <2>1
  <2>6. \A j \in 1..n : \A i \in 1..(j - 1) : /\ res[i].docs \subseteq done[j - 1].used
                                              /\ res[i].lines \subseteq done[j - 1].usedLines
    BY <2>5 DEF Leads
  <2> QED  BY <2>2, <2>3, <2>4, <2>6 DEF TakenInOrder
<1>11. PICK t : t = done[n]
  OBVIOUS
<1>12. Sequence(t.rows) /\ n = Len(t.rows) /\ \A i \in 1..n : t.rows[i] = res[i].row
  BY <1>9, <1>11 DEF Leads
<1>13. /\ DOMAIN rep.rows \subseteq Nat /\ rep.src = src
       /\ \A i \in 1..n : i \in DOMAIN rep.rows /\ rep.rows[i] = t.rows[i]
       /\ RowsOfTheRest(rep, src, t.used, n)
  <2>1. rep = Report(snap, src, t)
    BY <1>3, <1>11
  <2>2. Continues(rep, src, t, n)
    BY <1>12, <2>1, RestDoes
  <2> QED  BY <2>2 DEF Continues
<1>14. RowsOfItems(rep, src, res, done, n)
  BY <1>7, <1>12, <1>13 DEF RowsOfItems
<1>15. Reported(rep, src, res, done, n)
  BY <1>1, <1>10, <1>11, <1>13, <1>14 DEF Reported
<1> QED  BY <1>15

LEMMA AllAccountedFor ==
  ASSUME NEW src, NEW res, NEW done, NEW n, Reported(report, src, res, done, n)
  PROVE  DocumentsAccountedFor
<1> DEFINE rows == report.rows
           docs == src.docs
           used == done[n].used
<1>1. /\ n \in Nat /\ DOMAIN rows \subseteq Nat /\ report.src = src
      /\ RowsOfItems(report, src, res, done, n) /\ TakenInOrder(res, done, n)
      /\ RowsOfTheRest(report, src, used, n)
  BY DEF Reported
<1>2. ASSUME NEW i \in 1..n, rows[i].by = "document"
      PROVE  rows[i].refs = res[i].docs /\ rows[i].refs \cap done[i - 1].used = {}
  BY <1>1, <1>2 DEF RowsOfItems, OutcomeIs
<1>3. ASSUME NEW i \in DOMAIN rows, NEW j \in DOMAIN rows, i < j,
             rows[i].by = "document", rows[j].by = "document"
      PROVE  rows[i].refs \cap rows[j].refs = {}
  <2>1. i \in Nat /\ j \in Nat
    BY <1>1
  <2>2. CASE j \in 1..n
    <3>1. i \in DOMAIN rows \ (1..n) \/ i \in 1..(j - 1)
      BY <1>1, <1>3, <2>1, <2>2
    <3>2. CASE i \in 1..(j - 1)
      <4>1. i \in 1..n
        BY <1>1, <2>1, <2>2, <3>2
      <4>2. res[i].docs \subseteq done[j - 1].used
        BY <1>1, <2>2, <3>2 DEF TakenInOrder
      <4> QED  BY <1>2, <1>3, <2>2, <4>1, <4>2
    <3>3. CASE i \in DOMAIN rows \ (1..n)
      <4>1. PICK d \in DOMAIN docs \ used : Alone(rows[i], d)
        BY <1>1, <3>3 DEF RowsOfTheRest
      <4>2. res[j].docs \subseteq used
        BY <1>1, <2>2 DEF TakenInOrder
      <4> QED  BY <1>2, <1>3, <2>2, <4>1, <4>2 DEF Alone
    <3> QED  BY <3>1, <3>2, <3>3
  <2>3. CASE j \notin 1..n
    <3>1. PICK d \in DOMAIN docs \ used : Alone(rows[j], d)
      BY <1>1, <2>3 DEF RowsOfTheRest
    <3>2. CASE i \in 1..n
      <4>1. res[i].docs \subseteq used
        BY <1>1, <3>2 DEF TakenInOrder
      <4> QED  BY <1>2, <1>3, <3>1, <3>2, <4>1 DEF Alone
    <3>3. CASE i \notin 1..n
      <4>1. i # j
        BY <1>3, <2>1
      <4> QED  BY <1>1, <2>3, <3>3, <4>1 DEF RowsOfTheRest
    <3> QED  BY <3>2, <3>3
  <2> QED  BY <2>2, <2>3
<1>4. ASSUME NEW i \in RowsOn("document"), NEW j \in RowsOn("document"), i # j
      PROVE  rows[i].refs \cap rows[j].refs = {}
  <2>1. /\ i \in DOMAIN rows /\ j \in DOMAIN rows
        /\ rows[i].by = "document" /\ rows[j].by = "document"
    BY DEF RowsOn, Found
  <2>2. i \in Nat /\ j \in Nat
    BY <1>1, <2>1
  <2>3. i < j \/ j < i
    BY <1>4, <2>2
  <2> QED  BY <1>3, <2>1, <2>3
<1>5. ASSUME NEW d \in DOMAIN docs, NEW i \in 1..n, d \in res[i].docs
      PROVE  \/ \E k \in RowsOn("document") : d \in rows[k].refs
             \/ \E k \in RowsOn("lines") \cup RowsOn("movements") : GoesBy(rows[k].item, docs[d])
  <2>1. /\ i \in DOMAIN rows /\ rows[i] = res[i].row
        /\ OutcomeIs(res[i], res[i].row.item, src, done[i - 1].used, done[i - 1].usedLines)
    BY <1>1 DEF RowsOfItems
  <2>2. CASE rows[i].by = "document"
    <3>1. d \in rows[i].refs
      BY <1>5, <2>1, <2>2 DEF OutcomeIs
    <3>2. i \in RowsOn("document")
      BY <2>1, <2>2 DEF RowsOn, Found
    <3> QED  BY <3>1, <3>2
  <2>3. CASE rows[i].by # "document"
    <3>1. rows[i].by \in {"lines", "movements"} /\ GoesBy(rows[i].item, docs[d])
      BY <1>5, <2>1, <2>3 DEF OutcomeIs
    <3>2. i \in RowsOn("lines") \cup RowsOn("movements")
      BY <2>1, <3>1 DEF RowsOn, Found
    <3> QED  BY <3>1, <3>2
  <2> QED  BY <2>2, <2>3
<1>6. ASSUME NEW d \in DOMAIN docs
      PROVE  \/ \E k \in RowsOn("document") : d \in rows[k].refs
             \/ docs[d].kind = "contract"
             \/ \E k \in RowsOn("lines") \cup RowsOn("movements") : GoesBy(rows[k].item, docs[d])
  <2>1. CASE d \in used
    <3>1. PICK i \in 1..n : d \in res[i].docs
      BY <1>1, <2>1 DEF TakenInOrder
    <3> QED  BY <1>5, <3>1
  <2>2. CASE d \notin used
    <3>1. docs[d].kind = "contract" \/ \E i \in DOMAIN rows : Alone(rows[i], d)
      BY <1>1, <2>2 DEF RowsOfTheRest
    <3>2. \A i \in DOMAIN rows : Alone(rows[i], d) => i \in RowsOn("document") /\ d \in rows[i].refs
      BY DEF Alone, RowsOn, Found
    <3> QED  BY <3>1, <3>2
  <2> QED  BY <2>1, <2>2
<1> QED  BY <1>1, <1>4, <1>6 DEF DocumentsAccountedFor, GoesBy

LEMMA NothingMissed ==
  ASSUME NEW src, NEW res, NEW done, NEW n, Reported(report, src, res, done, n)
  PROVE  NoMissedCounterpart
<1> DEFINE rows == report.rows
           docs == src.docs
           used == done[n].used
<1>1. /\ report.src = src
      /\ RowsOfItems(report, src, res, done, n) /\ TakenInOrder(res, done, n)
      /\ RowsOfTheRest(report, src, used, n)
  BY DEF Reported
<1>2. SUFFICES ASSUME NEW i \in DOMAIN rows, NEW j \in DOMAIN rows,
                      rows[i].status = "not_found_in_1c", rows[j].status = "not_found_in_erp"
               PROVE  ~ SameKey(rows[i].item, docs[CHOOSE d \in rows[j].refs : TRUE])
  BY <1>1 DEF NoMissedCounterpart
<1>3. i \in 1..n
  BY <1>1, <1>2 DEF RowsOfTheRest, Alone
<1>4. j \notin 1..n
  BY <1>1, <1>2 DEF RowsOfItems, OutcomeIs
<1>5. PICK d \in DOMAIN docs \ used : rows[j].refs = {d}
  BY <1>1, <1>4 DEF RowsOfTheRest, Alone
<1>6. (CHOOSE e \in rows[j].refs : TRUE) = d
  BY <1>5
<1>7. done[i - 1].used \subseteq used
  BY <1>1, <1>3 DEF TakenInOrder
<1>8. ~ SameKey(rows[i].item, docs[d])
  BY <1>1, <1>2, <1>3, <1>5, <1>7 DEF RowsOfItems, OutcomeIs
<1> QED  BY <1>6, <1>8

LEMMA NoLineTwice ==
  ASSUME NEW src, NEW res, NEW done, NEW n, Reported(report, src, res, done, n)
  PROVE  LinesUsedOnce
<1> DEFINE rows == report.rows
<1>1. /\ n \in Nat /\ report.src = src
      /\ RowsOfItems(report, src, res, done, n) /\ TakenInOrder(res, done, n)
      /\ RowsOfTheRest(report, src, done[n].used, n)
  BY DEF Reported
<1>2. SUFFICES ASSUME NEW i \in RowsOn("lines"), NEW j \in RowsOn("lines"), i < j,
                      "sum" \notin rows[i].mismatch, CodesMeet(rows[i].refs)
               PROVE  rows[i].refs \cap rows[j].refs = {}
  BY DEF LinesUsedOnce
<1>3. /\ i \in DOMAIN rows /\ j \in DOMAIN rows
      /\ rows[i].by = "lines" /\ rows[j].by = "lines"
  BY DEF RowsOn, Found
<1>4. i \in 1..n /\ j \in 1..n
  BY <1>1, <1>3 DEF RowsOfTheRest, Alone
<1>5. i \in 1..(j - 1)
  BY <1>1, <1>2, <1>4
<1>6. res[i].lines \subseteq done[j - 1].usedLines
  BY <1>1, <1>4, <1>5 DEF TakenInOrder
<1>7. Alike(src.lines, rows[i].refs)
  BY <1>1, <1>2 DEF CodesMeet, Alike
<1>8. rows[i].refs \subseteq res[i].lines
  BY <1>1, <1>2, <1>3, <1>4, <1>7 DEF RowsOfItems, OutcomeIs
<1>9. rows[j].refs \cap done[j - 1].usedLines = {}
  BY <1>1, <1>3, <1>4 DEF RowsOfItems, OutcomeIs
<1> QED  BY <1>6, <1>8, <1>9

-----------------------------------------------------------------------------
(* What is reported was compared with documents and lines as they were read. *)

ReadSoFar(w) ==
  /\ w.pc \in {"movements", "lines"} => Sequence(w.docs)
  /\ w.pc = "compare" => SourceIs(w.src)

SourcesInv ==
  /\ \A id \in DOMAIN work : ReadSoFar(work[id])
  /\ report # Nothing => \E src : SourceIs(src) /\ report = Compared(sc.snap, src)

\* The files that are stored are versions that were uploaded.
LEMMA StoredFilesAre ==
  ASSUME FilesInv
  PROVE  FilesAre(StoredFiles)
<1> DEFINE S == {f \in Files : tables[f] # Nothing}
           order == Ascending(S)
           tabled == [k \in DOMAIN order |-> Version(order[k], tables[order[k]].version)]
<1>1. sc \in Scenarios /\ S \subseteq Files
  BY DEF FilesInv
<1>2. S \subseteq Nat /\ IsFiniteSet(S)
  <2>1. Files \subseteq Nat /\ IsFiniteSet(Files)
    BY <1>1, FilesAssumption, RowsAssumption DEF Files
  <2> HIDE DEF S
  <2> QED  BY <1>1, <2>1, FS_Subset
<1>3. StoredFiles = tabled
  BY DEF StoredFiles
<1>4. \A f \in S : tables[f].version \in 1..Len(sc.files[f])
  BY DEF FilesInv, NoOlderThanSaid
<1> HIDE DEF S
<1>5. Lists(order, S, Cardinality(S))
  BY <1>2, AscendingDoes
<1> HIDE DEF order
<1>6. Cardinality(S) \in Nat /\ DOMAIN order = 1..Cardinality(S) /\ \A k \in DOMAIN order : order[k] \in S
  BY <1>5 DEF Lists
<1>7. tabled = [k \in 1..Cardinality(S) |-> tabled[k]]
  BY <1>6
<1>8. ASSUME NEW k \in DOMAIN tabled PROVE Sequence(tabled[k].docs) /\ Sequence(tabled[k].lines)
  <2> DEFINE f == order[k]
             v == tables[f].version
  <2>1. f \in S /\ tabled[k] = sc.files[f][v]
    BY <1>6 DEF Version
  <2>2. f \in DOMAIN sc.files /\ v \in 1..Len(sc.files[f])
    BY <1>1, <1>4, <2>1 DEF Files
  <2> HIDE DEF f, v, tabled
  <2>3. IsSequence(sc.files[f][v].docs) /\ IsSequence(sc.files[f][v].lines)
    BY <1>1, <2>2, RowsAssumption
  <2> QED  BY <2>1, <2>3, IsASequence
<1> HIDE DEF tabled
<1>9. Sequence(tabled)
  BY <1>6, <1>7, ListIs
<1> QED  BY <1>3, <1>8, <1>9 DEF FilesAre

\* A step of a thread that reports nothing.
LEMMA ReadsOn ==
  ASSUME SourcesInv, JobsInv, NEW id \in DOMAIN work, NEW w, ReadSoFar(w), Go(id, w),
         UNCHANGED <<sc, report>>
  PROVE  SourcesInv'
<1>1. work' = [work EXCEPT ![id] = w]
  BY DEF Go
<1>2. DOMAIN work' = DOMAIN work /\ \A k \in DOMAIN work : work'[k] = IF k = id THEN w ELSE work[k]
  BY <1>1, ExceptDoes
<1>3. \A k \in DOMAIN work' : ReadSoFar(work'[k])
  BY <1>2 DEF SourcesInv
<1> QED  BY <1>3 DEF SourcesInv, ReadSoFar

LEMMA SourcesStep ==
  ASSUME ServerInv, SourcesInv, [Next]_vars
  PROVE  SourcesInv'
<1>1. FilesInv /\ JobsInv /\ sc \in Scenarios
  BY DEF ServerInv, FilesInv
<1>2. ASSUME UNCHANGED <<sc, work, report>> PROVE SourcesInv'
  BY <1>2 DEF SourcesInv
<1>3. ASSUME NEW p \in sc.syncs, ListDrive(p) \/ Look(p) \/ Download(p) \/ Store(p) \/ FileFails(p)
      PROVE  SourcesInv'
  BY <1>2, <1>3 DEF ListDrive, Look, Download, Store, FileFails, jobVars
<1>4. ASSUME NEW f \in Files, Upload(f) PROVE SourcesInv'
  BY <1>2, <1>4 DEF Upload, jobVars
<1>5. ASSUME NEW c \in sc.clients, Submit(c) \/ Respond(c) PROVE SourcesInv'
  BY <1>2, <1>5 DEF Submit, Respond, Others
<1>6. ASSUME NEW c \in sc.clients, Enter(c) PROVE SourcesInv'
  <2> DEFINE id == client[c].id
             w == [pc |-> "begin"]
  <2>1. work' = [k \in DOMAIN work \cup {id} |-> IF k = id THEN w ELSE work[k]]
    BY <1>6 DEF Enter, With
  <2>2. ReadSoFar(w)
    BY DEF ReadSoFar
  <2>3. \A k \in DOMAIN work' : work'[k] = w \/ (k \in DOMAIN work /\ work'[k] = work[k])
    BY <2>1
  <2>4. UNCHANGED <<sc, report>>
    BY <1>6 DEF Enter, Others
  <2> HIDE DEF id, w
  <2>5. \A k \in DOMAIN work' : ReadSoFar(work'[k])
    BY <2>2, <2>3 DEF SourcesInv
  <2> QED  BY <2>4, <2>5 DEF SourcesInv, ReadSoFar
<1>7. ASSUME NEW id \in Ids, Poll(id) PROVE SourcesInv'
  BY <1>2, <1>7 DEF Poll, Others
<1>8. ASSUME NEW id \in DOMAIN work,
             Begin(id) \/ SourceFails(id) \/ ErpFails(id) \/ Finish(id)
      PROVE  SourcesInv'
  <2>1. UNCHANGED <<sc, report>>
    BY <1>8 DEF Begin, SourceFails, ErpFails, Finish, Others
  <2>2. \E pc \in {"ask", "documents", "completed", "failed", "done"} : Go(id, [pc |-> pc])
    BY <1>8 DEF Begin, SourceFails, ErpFails, Finish
  <2>3. \A pc \in {"ask", "documents", "completed", "failed", "done"} : ReadSoFar([pc |-> pc])
    BY DEF ReadSoFar
  <2> QED  BY <1>1, <2>1, <2>2, <2>3, ReadsOn
<1>9. ASSUME NEW id \in DOMAIN work, Ask(id) PROVE SourcesInv'
  <2>1. PICK a \in sc.answers :
          Go(id, [pc |-> "compare", src |-> NormalizeSnapshot(a, sc.snap)])
    BY <1>9 DEF Ask
  <2>2. Sequence(a.docs) /\ Sequence(a.lines)
    BY <1>1, RowsAssumption, IsASequence
  <2>3. SourceIs(NormalizeSnapshot(a, sc.snap))
    BY <2>2, NormalizedIs
  <2>4. ReadSoFar([pc |-> "compare", src |-> NormalizeSnapshot(a, sc.snap)])
    BY <2>3 DEF ReadSoFar
  <2> QED  BY <1>1, <1>9, <2>1, <2>4, ReadsOn DEF Ask, Others
<1>10. ASSUME NEW id \in DOMAIN work, ReadDocuments(id) PROVE SourcesInv'
  <2>1. Sequence(AllOf("docs", StoredFiles))
    BY <1>1, StoredFilesAre, AllOfAre
  <2>2. ReadSoFar([pc |-> "movements", docs |-> AllOf("docs", StoredFiles)])
    BY <2>1 DEF ReadSoFar
  <2> QED  BY <1>1, <1>10, <2>2, ReadsOn DEF ReadDocuments, Others
<1>11. ASSUME NEW id \in DOMAIN work, ReadMovements(id) PROVE SourcesInv'
  <2>1. Sequence(work[id].docs)
    BY <1>11 DEF ReadMovements, SourcesInv, ReadSoFar
  <2>2. ReadSoFar([pc |-> "lines", docs |-> work[id].docs,
                   movements |-> TableMovements(StoredFiles, sc.snap)])
    BY <2>1 DEF ReadSoFar
  <2> QED  BY <1>1, <1>11, <2>2, ReadsOn DEF ReadMovements, Others
<1>12. ASSUME NEW id \in DOMAIN work, ReadLines(id) PROVE SourcesInv'
  <2> DEFINE src == [docs |-> DocsFor(work[id].docs, sc.snap),
                     movements |-> work[id].movements,
                     lines |-> TableLines(StoredFiles, sc.snap)]
  <2>1. Sequence(work[id].docs)
    BY <1>12 DEF ReadLines, SourcesInv, ReadSoFar
  <2>2. Sequence(DocsFor(work[id].docs, sc.snap))
    BY <2>1, DocsForAre
  <2>3. Sequence(TableLines(StoredFiles, sc.snap))
    BY <1>1, StoredFilesAre, TableLinesAre
  <2>4. SourceIs(src)
    BY <2>2, <2>3 DEF SourceIs
  <2>5. Go(id, [pc |-> "compare", src |-> src])
    BY <1>12 DEF ReadLines
  <2> HIDE DEF src
  <2>6. ReadSoFar([pc |-> "compare", src |-> src])
    BY <2>4 DEF ReadSoFar
  <2> QED  BY <1>1, <1>12, <2>5, <2>6, ReadsOn DEF ReadLines, Others
<1>13. ASSUME NEW id \in DOMAIN work, Compare(id) PROVE SourcesInv'
  <2>1. SourceIs(work[id].src)
    BY <1>13 DEF Compare, SourcesInv, ReadSoFar
  <2>2. /\ report' = Compared(sc.snap, work[id].src) /\ sc' = sc
        /\ work' = [work EXCEPT ![id] = [pc |-> "completed"]]
    BY <1>13 DEF Compare, Go, Others
  <2>3. /\ DOMAIN work' = DOMAIN work
        /\ \A k \in DOMAIN work : work'[k] = IF k = id THEN [pc |-> "completed"] ELSE work[k]
    BY <2>2, ExceptDoes
  <2>4. ReadSoFar([pc |-> "completed"])
    BY DEF ReadSoFar
  <2>5. \A k \in DOMAIN work' : ReadSoFar(work'[k])
    BY <2>3, <2>4 DEF SourcesInv
  <2>6. report' = Compared(sc'.snap, work[id].src)
    BY <2>2
  <2> QED  BY <2>1, <2>5, <2>6 DEF SourcesInv, ReadSoFar
<1>14. CASE Tick
  BY <1>2, <1>14 DEF Tick, Others
<1>15. CASE Restart
  <2>1. DOMAIN work' = {} /\ UNCHANGED <<sc, report>>
    BY <1>15 DEF Restart
  <2> QED  BY <2>1 DEF SourcesInv
<1>16. CASE UNCHANGED vars
  BY <1>2, <1>16 DEF vars, jobVars
<1> QED  BY <1>3, <1>4, <1>5, <1>6, <1>7, <1>8, <1>9, <1>10, <1>11, <1>12, <1>13, <1>14,
            <1>15, <1>16 DEF Next

LEMMA SourcesInit == Init => SourcesInv
BY DEF Init, SourcesInv

\* What is reported is a comparison with sequences of documents and lines.
THEOREM SourcesInvHolds == Spec => [](ServerInv /\ SourcesInv)
<1>1. Init => SourcesInv
  BY SourcesInit
<1>2. ServerInv /\ SourcesInv /\ [Next]_vars => SourcesInv'
  BY SourcesStep
<1> QED  BY <1>1, <1>2, ServerInvHolds, PTL DEF Spec

\* The report of a comparison, whatever was read and compared before it.
LEMMA ReportIs ==
  ASSUME ServerInv, SourcesInv, Compares
  PROVE  \E src, res, done, n : Reported(report, src, res, done, n)
<1>1. PICK src : SourceIs(src) /\ report = Compared(sc.snap, src)
  BY DEF SourcesInv, Compares
<1>2. sc \in Scenarios
  BY DEF ServerInv, FilesInv
<1>3. /\ Sequence(sc.snap.invoices) /\ Sequence(sc.snap.payments) /\ Sequence(sc.snap.acts)
  BY <1>2, RowsAssumption, IsASequence
<1>4. Sequence(Items(sc.snap))
  BY <1>3, ItemsAre
<1> QED  BY <1>1, <1>4, ComparedDoes

\* No document is the counterpart of two rows, and none is left out of a report
\* without a reason (compare_onec_docs_with_erp_snapshot).
THEOREM EveryDocumentIsAccountedFor == Spec => []DocumentsAccountedFor
<1>1. ServerInv /\ SourcesInv => DocumentsAccountedFor
  BY ReportIs, AllAccountedFor DEF DocumentsAccountedFor
<1> QED  BY <1>1, SourcesInvHolds, PTL

\* No item is reported as missing beside a document of its key that is reported
\* as missing, whatever other items take first.
THEOREM NoCounterpartIsMissed == Spec => []NoMissedCounterpart
<1>1. ServerInv /\ SourcesInv => NoMissedCounterpart
  BY ReportIs, NothingMissed DEF NoMissedCounterpart
<1> QED  BY <1>1, SourcesInvHolds, PTL

\* No row rests on a line that made up the sum of an earlier one, when the codes
\* of the lines of the earlier row meet (mark_document_lines_used).
THEOREM LinesAreUsedOnce == Spec => []LinesUsedOnce
<1>1. ServerInv /\ SourcesInv => LinesUsedOnce
  BY ReportIs, NoLineTwice DEF LinesUsedOnce
<1> QED  BY <1>1, SourcesInvHolds, PTL
=============================================================================
