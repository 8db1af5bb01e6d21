------------------------ MODULE MatrixRequestProofs ------------------------
(* The matrix of deliveries, for every history of the ERP, every request and *)
(* every interleaving of the two: what one read in which nobody worked in    *)
(* the ERP shows (ReadInv and what follows from it), that its totals are     *)
(* those of its rows (TotalsInv), that its sums are not below zero (PaidInv), *)
(* and that a user whom the ERP shuts out is served under a session for one  *)
(* session more at the most (SessionInv). The tables are finite and have     *)
(* their keys, dates and sums are numbers, a history has a moment, and a     *)
(* request has integers for its limit and offset; nothing else is assumed of *)
(* them, but where a theorem says NothingRefunded.                           *)
EXTENDS MatrixRequest, SequenceTheorems, Sums

-----------------------------------------------------------------------------
(* The session                                                               *)

\* Nothing says that the server looks at leftAt again: what bounds a session is
\* that it was signed while its user was known, and its own end.
SessionSound(s, at, left) ==
  s = NoSession \/
    /\ s.user \in Users /\ s.exp \in Nat
    /\ s.exp <= at + Ttl
    /\ s.exp <= left[s.user] + Ttl

\* The same is true of the session that the request in service came with.
CarriedSound ==
  pc # "idle" => /\ "headers" \in DOMAIN got
                 /\ SessionSound(got.headers.session, clock, leftAt)

TimesTyped == clock \in 0..MaxClock /\ leftAt \in [Users -> 0..Never]

SessionInv == TimesTyped /\ SessionSound(session, clock, leftAt) /\ CarriedSound

LEMMA SessionInit == Init => SessionInv
BY DeploymentAssumption DEF Init, InitSession, SessionInv, SessionSound, CarriedSound,
  TimesTyped, Never

\* A session stays sound while time passes and users are shut out.
LEMMA StaysSound ==
  ASSUME NEW s, NEW at \in Nat, NEW later \in Nat, at <= later,
         NEW left \in [Users -> Nat], NEW shut \in [Users -> Nat],
         \A u \in Users : shut[u] = left[u] \/ shut[u] = at,
         SessionSound(s, at, left)
  PROVE  SessionSound(s, later, shut)
<1>1. CASE s = NoSession
  BY <1>1 DEF SessionSound
<1>2. CASE s # NoSession
  <2>1. /\ s.user \in Users /\ s.exp \in Nat
        /\ s.exp <= at + Ttl /\ s.exp <= left[s.user] + Ttl
    BY <1>2 DEF SessionSound
  <2>2. Ttl \in Nat /\ (shut[s.user] = left[s.user] \/ shut[s.user] = at)
    BY <2>1, DeploymentAssumption
  <2>3. s.exp <= later + Ttl /\ s.exp <= shut[s.user] + Ttl
    BY <2>1, <2>2
  <2> QED  BY <2>1, <2>3 DEF SessionSound
<1> QED  BY <1>1, <1>2

\* What the passing of time, a shut-out and a launch do to the times.
LEMMA TimesMove ==
  ASSUME TimesTyped,
         Tick \/ \E u \in Users : Launch(u) \/ Deactivate(u)
  PROVE  /\ TimesTyped'
         /\ clock \in Nat /\ clock' \in Nat /\ clock <= clock'
         /\ leftAt \in [Users -> Nat] /\ leftAt' \in [Users -> Nat]
         /\ \A u \in Users : leftAt'[u] = leftAt[u] \/ leftAt'[u] = clock
<1>1. MaxClock \in Nat /\ clock \in Nat /\ leftAt \in [Users -> Nat]
  BY DeploymentAssumption DEF TimesTyped, Never
<1>2. CASE Tick \/ \E u \in Users : Launch(u)
  <2>1. leftAt' = leftAt /\ (clock' = clock \/ (clock < MaxClock /\ clock' = clock + 1))
    BY <1>2 DEF Tick, Launch
  <2> QED  BY <1>1, <2>1 DEF TimesTyped, Never
<1>3. ASSUME NEW v \in Users, Deactivate(v)
      PROVE  /\ TimesTyped' /\ clock' = clock /\ leftAt' \in [Users -> Nat]
             /\ \A u \in Users : leftAt'[u] = leftAt[u] \/ leftAt'[u] = clock
  <2>1. clock' = clock /\ leftAt' = [leftAt EXCEPT ![v] = clock]
    BY <1>3 DEF Deactivate
  <2>2. clock \in 0..Never
    BY <1>1 DEF TimesTyped, Never
  <2> QED  BY <1>1, <2>1, <2>2 DEF TimesTyped, Never
<1> QED  BY <1>1, <1>2, <1>3

\* A launch signs a session of a user whom the ERP knows, in the time that is left.
LEMMA LaunchedSound ==
  ASSUME TimesTyped, NEW u \in Users, Launch(u)
  PROVE  SessionSound(session', clock', leftAt')
<1>1. /\ clock' = clock /\ leftAt' = leftAt /\ leftAt[u] = MaxClock + 1
      /\ session' = [user |-> u, exp |-> clock + Ttl, key |-> secret]
  BY DEF Launch, CreateSession, ErpVouches, Never
<1>2. session'.user = u /\ session'.exp = clock + Ttl
  BY <1>1
<1>3. clock + Ttl \in Nat /\ clock + Ttl <= (MaxClock + 1) + Ttl
  BY DeploymentAssumption DEF TimesTyped
<1> QED  BY <1>1, <1>2, <1>3 DEF SessionSound

LEMMA SessionMoves == ASSUME SessionInv, SessionStep PROVE SessionInv'
<1>1. /\ TimesTyped'
      /\ clock \in Nat /\ clock' \in Nat /\ clock <= clock'
      /\ leftAt \in [Users -> Nat] /\ leftAt' \in [Users -> Nat]
      /\ \A u \in Users : leftAt'[u] = leftAt[u] \/ leftAt'[u] = clock
  BY TimesMove DEF SessionStep, SessionInv
<1>2. SessionSound(session', clock', leftAt')
  <2>1. CASE session' = session
    BY <1>1, <2>1, StaysSound DEF SessionInv
  <2>2. CASE \E u \in Users : Launch(u)
    BY <2>2, LaunchedSound DEF SessionInv
  <2>3. session' = session \/ \E u \in Users : Launch(u)
    BY DEF SessionStep, Tick, Deactivate
  <2> QED  BY <2>1, <2>2, <2>3
<1>3. CarriedSound'
  <2>1. pc' = pc /\ got' = got
    BY DEF SessionStep, requestVars
  <2>2. CASE pc # "idle"
    <3>1. "headers" \in DOMAIN got /\ SessionSound(got.headers.session, clock, leftAt)
      BY <2>2 DEF SessionInv, CarriedSound
    <3>2. SessionSound(got.headers.session, clock', leftAt')
      BY <1>1, <3>1, StaysSound
    <3> QED  BY <2>1, <3>1, <3>2 DEF CarriedSound
  <2> QED  BY <2>1, <2>2 DEF CarriedSound
<1> QED  BY <1>1, <1>2, <1>3 DEF SessionInv

\* A request comes with the session of the page or with none.
LEMMA HeadersSound ==
  ASSUME SessionInv, NEW h \in Headers PROVE SessionSound(h.session, clock, leftAt)
BY DEF Headers, SessionInv, SessionSound

\* What a request that is taken in leaves.
LEMMA ReceiveTakes ==
  ASSUME Receive
  PROVE  \/ Answer(Failed(401)) \/ Answer(Failed(400))
         \/ \E q \in Requests, h \in Headers :
              /\ RequestContext(h) # Refused /\ ~ BadRequest(q)
              /\ pc' = "count" /\ req' = q /\ got' = [began |-> now, headers |-> h]
              /\ reply' = NoReply /\ rows' = rows
<1>1. PICK q \in Requests, h \in Headers :
        CASE RequestContext(h) = Refused -> Answer(Failed(401))
          [] RequestContext(h) # Refused /\ BadRequest(q) -> Answer(Failed(400))
          [] OTHER -> /\ pc' = "count" /\ req' = q
                      /\ got' = [began |-> now, headers |-> h]
                      /\ reply' = NoReply /\ UNCHANGED rows
  BY DEF Receive
<1>2. CASE RequestContext(h) = Refused
  BY <1>1, <1>2
<1>3. CASE RequestContext(h) # Refused /\ BadRequest(q)
  BY <1>1, <1>3
<1>4. CASE RequestContext(h) # Refused /\ ~ BadRequest(q)
  BY <1>1, <1>4
<1> QED  BY <1>2, <1>3, <1>4

\* A query keeps the headers of its request.
LEMMA QueriesCarry ==
  ASSUME SessionInv,
         \/ Count \/ Totals \/ List \/ Invoices \/ Operations \/ AmountsOf
         \/ Links \/ Closings \/ Payments \/ MakeRow
  PROVE  /\ pc # "idle" /\ "headers" \in DOMAIN got' /\ got'.headers = got.headers
         /\ pc' # "idle"
<1>1. CASE MakeRow
  BY <1>1 DEF MakeRow, SessionInv, CarriedSound
<1>2. ASSUME NEW query, NEW name, NEW answer, NEW next, query # "idle", name # "headers",
             next # "idle", Ask(query, name, answer, next)
      PROVE  /\ pc # "idle" /\ "headers" \in DOMAIN got' /\ got'.headers = got.headers
             /\ pc' # "idle"
  <2>1. /\ pc # "idle" /\ "headers" \in DOMAIN got /\ pc' = next
        /\ got' = [n \in DOMAIN got \cup {name} |-> IF n = name THEN answer ELSE got[n]]
    BY <1>2 DEF Ask, SessionInv, CarriedSound
  <2> QED  BY <1>2, <2>1
<1>3. CASE Count \/ Totals \/ List
  BY <1>2, <1>3 DEF Count, Totals, List
<1>4. CASE Invoices \/ Operations \/ AmountsOf
  BY <1>2, <1>4 DEF Invoices, Operations, AmountsOf
<1>5. CASE Links \/ Closings \/ Payments
  BY <1>2, <1>5 DEF Links, Closings, Payments
<1> QED  BY <1>1, <1>3, <1>4, <1>5

\* No step of a request touches the clock, the ERP's users or the session.
LEMMA SessionStepInv == SessionInv /\ [Next]_vars => SessionInv'
<1> SUFFICES ASSUME SessionInv, [Next]_vars PROVE SessionInv'
  OBVIOUS
<1>1. ASSUME UNCHANGED <<clock, leftAt, session>>, CarriedSound' PROVE SessionInv'
  BY <1>1 DEF SessionInv, TimesTyped
<1>2. CASE \/ Count \/ Totals \/ List \/ Invoices \/ Operations \/ AmountsOf
           \/ Links \/ Closings \/ Payments \/ MakeRow
  <2>1. UNCHANGED <<clock, leftAt, session>>
    BY <1>2 DEF Count, Totals, List, Invoices, Operations, AmountsOf, Links,
      Closings, Payments, MakeRow, Ask, Others, sessionVars
  <2>2. CarriedSound'
    BY <1>2, <2>1, QueriesCarry DEF SessionInv, CarriedSound
  <2> QED  BY <1>1, <2>1, <2>2
<1>3. CASE Receive
  <2>1. UNCHANGED <<clock, leftAt, session>>
    BY <1>3 DEF Receive, Others, sessionVars
  <2>2. CASE Answer(Failed(401)) \/ Answer(Failed(400))
    BY <1>1, <2>1, <2>2 DEF Answer, CarriedSound
  <2>3. ASSUME NEW h \in Headers, got' = [began |-> now, headers |-> h] PROVE SessionInv'
    <3>1. "headers" \in DOMAIN got' /\ got'.headers = h
      BY <2>3
    <3>2. CarriedSound'
      BY <2>1, <3>1, HeadersSound DEF CarriedSound
    <3> QED  BY <1>1, <2>1, <3>2
  <2> QED  BY <1>3, <2>2, <2>3, ReceiveTakes
<1>4. CASE Finish \/ QueryFails \/ Search \/ Restart
  <2>1. UNCHANGED <<clock, leftAt, session>> /\ pc' = "idle"
    BY <1>4 DEF Finish, QueryFails, Search, Restart, Answer, Others, sessionVars
  <2> QED  BY <1>1, <2>1 DEF CarriedSound
<1>5. CASE Edit \/ UNCHANGED vars
  <2>1. UNCHANGED <<clock, leftAt, session>> /\ pc' = pc /\ got' = got
    BY <1>5 DEF Edit, vars, sessionVars, requestVars
  <2> QED  BY <1>1, <2>1 DEF SessionInv, CarriedSound
<1>6. CASE SessionStep
  BY <1>6, SessionMoves
<1> QED  BY <1>2, <1>3, <1>4, <1>5, <1>6 DEF Next

\* A request is let in under a session only while the session lasts.
LEMMA AdmittedInTime ==
  ASSUME TimesTyped, NEW h, SessionSound(h.session, clock, leftAt),
         RequestContext(h).auth_source = "recon_session"
  PROVE  clock <= leftAt[RequestContext(h).user] + Ttl
<1>1. h.session # NoSession /\ SessionHolds(h.session)
  BY DEF RequestContext, Refused
<1>2. RequestContext(h).user = h.session.user
  BY <1>1 DEF RequestContext
<1>3. ~ h.session.exp < clock
  BY <1>1 DEF SessionHolds
<1>4. /\ h.session.user \in Users /\ h.session.exp \in Nat
      /\ h.session.exp <= leftAt[h.session.user] + Ttl
  BY <1>1 DEF SessionSound
<1>5. /\ clock \in Nat /\ Ttl \in Nat /\ leftAt[h.session.user] \in Nat
  BY <1>4, DeploymentAssumption DEF TimesTyped, Never
<1> QED  BY <1>2, <1>3, <1>4, <1>5

\* Who is served is served in the context of headers that came while the
\* session of the page was sound, or in none.
LEMMA ServedInTime ==
  SessionInv /\ [Next]_vars
    => (ServedAs.auth_source = "recon_session" => clock <= leftAt[ServedAs.user] + Ttl)
<1> SUFFICES ASSUME SessionInv, [Next]_vars, ServedAs.auth_source = "recon_session"
             PROVE  clock <= leftAt[ServedAs.user] + Ttl
  OBVIOUS
<1>1. ServedMatrix \/ ServedWorkbook \/ ServedSearch
  BY DEF ServedAs, Refused
<1>2. CASE ServedMatrix
  <2>1. ServedAs = RequestContext(got'.headers)
    BY <1>2 DEF ServedAs, ServedMatrix, ServedWorkbook, ServedSearch
  <2>2. Receive
    <3>1. pc = "idle" /\ pc' = "count"
      BY <1>2 DEF ServedMatrix
    <3>2. ~ (Search \/ Restart \/ Edit \/ SessionStep \/ UNCHANGED vars)
      BY <3>1 DEF Search, Restart, Answer, Edit, SessionStep, vars
    <3>3. ~ (Finish \/ QueryFails)
      BY <3>1 DEF Finish, QueryFails
    <3> QED  BY <3>1, <3>2, <3>3, QueriesCarry DEF Next
  <2>3. PICK h \in Headers : got' = [began |-> now, headers |-> h]
    BY <1>2, <2>2, ReceiveTakes DEF ServedMatrix, Answer
  <2>4. got'.headers = h
    BY <2>3
  <2>5. TimesTyped /\ SessionSound(h.session, clock, leftAt)
    BY HeadersSound DEF SessionInv
  <2>6. RequestContext(h).auth_source = "recon_session" /\ ServedAs = RequestContext(h)
    BY <2>1, <2>4
  <2> QED  BY <2>5, <2>6, AdmittedInTime
<1>3. CASE ServedWorkbook
  <2>1. ServedAs = RequestContext(got.headers)
    BY <1>3 DEF ServedAs, ServedMatrix, ServedWorkbook, ServedSearch
  <2>2. TimesTyped /\ SessionSound(got.headers.session, clock, leftAt)
    BY <1>3 DEF ServedWorkbook, SessionInv, CarriedSound
  <2> QED  BY <2>1, <2>2, AdmittedInTime
<1>4. CASE ServedSearch
  <2>1. ServedAs = reply'.context
    BY <1>4 DEF ServedAs, ServedMatrix, ServedWorkbook, ServedSearch
  <2>2. pc = "idle" /\ reply' # reply /\ "found" \in DOMAIN reply'
    BY <1>4 DEF ServedSearch
  <2>3. Search
    <3>1. ~ Receive
      BY <2>2, ReceiveTakes DEF Answer, Failed, NoReply
    <3>2. ~ (Restart \/ Edit \/ SessionStep \/ UNCHANGED vars)
      BY <2>2 DEF Restart, Answer, NoReply, Edit, SessionStep, vars, requestVars
    <3>3. ~ (Finish \/ QueryFails)
      BY <2>2 DEF Finish, QueryFails
    <3> QED  BY <2>2, <3>1, <3>2, <3>3, QueriesCarry DEF Next
  <2>4. PICK q \in Searches, h \in Headers :
          Answer(IF RequestContext(h) = Refused THEN Failed(401)
                 ELSE [status |-> 200, context |-> RequestContext(h), found |-> Found(q)])
    BY <2>3 DEF Search
  <2>5. RequestContext(h) # Refused
    BY <2>2, <2>4 DEF Answer, Failed
  <2>6. reply'.context = RequestContext(h)
    BY <2>4, <2>5 DEF Answer
  <2>7. TimesTyped /\ SessionSound(h.session, clock, leftAt)
    BY HeadersSound DEF SessionInv
  <2> QED  BY <2>1, <2>6, <2>7, AdmittedInTime
<1> QED  BY <1>1, <1>2, <1>3, <1>4

\* ShutOutInTime, for every configuration, every length of a session and any
\* number of restarts: whoever is served under a session is served no later
\* than its length after the ERP shut him out.
THEOREM NoSessionOutlivesItself == Spec => ShutOutInTime
<1>1. Init => SessionInv
  BY SessionInit
<1>2. SessionInv /\ [Next]_vars => SessionInv'
  BY SessionStepInv
<1>3. SessionInv /\ [Next]_vars
        => [ServedAs.auth_source = "recon_session" =>
              clock <= leftAt[ServedAs.user] + Ttl]_vars
  BY ServedInTime
<1> QED  BY <1>1, <1>2, <1>3, PTL DEF Spec, ShutOutInTime

-----------------------------------------------------------------------------
(* Numbers and finite sets                                                   *)

LEMMA MinOfTwo == ASSUME NEW a \in Int, NEW b \in Int
                  PROVE  Min({a, b}) \in Int /\ Min({a, b}) <= a /\ Min({a, b}) <= b
<1>1. \E x \in {a, b} : \A y \in {a, b} : x <= y
  OBVIOUS
<1> QED  BY <1>1 DEF Min

LEMMA MaxOfTwo == ASSUME NEW a \in Int, NEW b \in Int
                  PROVE  Max({a, b}) \in Int /\ Max({a, b}) >= a /\ Max({a, b}) >= b
<1>1. \E x \in {a, b} : \A y \in {a, b} : x >= y
  OBVIOUS
<1> QED  BY <1>1 DEF Max

\* What a function makes of a finite set is finite.
LEMMA ImageFinite ==
  ASSUME NEW S, IsFiniteSet(S), NEW f
  PROVE  IsFiniteSet({f[x] : x \in S})
<1>1. [x \in S |-> f[x]] \in Surjection(S, {f[x] : x \in S})
  BY DEF Surjection
<1> QED  BY <1>1, FS_Surjection

-----------------------------------------------------------------------------
(* The tables and the answers to the queries are finite                      *)

LEMMA OperationRowsFinite ==
  ASSUME NEW d, IsDatabase(d), NEW ids PROVE IsFiniteSet(OperationRows(d, ids))
<1> DEFINE P == (d.opers \X d.specs) \X (d.categs \cup {NoCateg})
           f == [p \in P |-> [oper |-> p[1][1], spec |-> p[1][2], via |-> p[2]]]
<1>1. IsFiniteSet(d.categs \cup {NoCateg})
  BY FS_Union, FS_Singleton DEF IsDatabase, Keyed
<1>2. IsFiniteSet(P)
  BY <1>1, FS_Product DEF IsDatabase, Keyed
<1>3. IsFiniteSet({f[p] : p \in P})
  <2> HIDE DEF f, P
  <2> QED  BY <1>2, ImageFinite
<1>4. ASSUME NEW r \in OperationRows(d, ids) PROVE r \in {f[p] : p \in P}
  <2>1. r \in [oper : d.opers, spec : {s \in d.specs : s.id \in ids},
               via : d.categs \cup {NoCateg}]
    BY <1>4 DEF OperationRows
  <2>2. <<<<r.oper, r.spec>>, r.via>> \in P
    BY <2>1
  <2>3. f[<<<<r.oper, r.spec>>, r.via>>] = r
    BY <2>1, <2>2
  <2> QED  BY <2>2, <2>3
<1> QED  BY <1>3, <1>4, FS_Subset

LEMMA InvoiceRowsFinite ==
  ASSUME NEW d, IsDatabase(d), NEW ids PROVE IsFiniteSet(InvoiceRows(d, ids))
<1> DEFINE Q == {q \in d.specs \X d.schets : /\ q[1].id \in ids /\ q[2].spec = q[1].id
                                             /\ IsCustomerInvoice(q[2])}
           f == [q \in Q |-> InvoiceRow(d, q[1], q[2])]
<1>1. IsFiniteSet(d.specs \X d.schets)
  BY FS_Product DEF IsDatabase, Keyed
<1>2. IsFiniteSet(Q)
  BY <1>1, FS_Subset
<1>3. IsFiniteSet({f[q] : q \in Q})
  <2> HIDE DEF f, Q
  <2> QED  BY <1>2, ImageFinite
<1>4. {f[q] : q \in Q} = InvoiceRows(d, ids)
  BY DEF InvoiceRows
<1> QED  BY <1>3, <1>4

LEMMA ClosingRowsFinite ==
  ASSUME NEW d, IsDatabase(d), NEW ids PROVE IsFiniteSet(ClosingRows(d, ids))
<1> DEFINE A == {b \in d.akts : b.oper \in ids \ {0}}
           Q == {q \in d.aktOpers \X d.akts : /\ q[2].id = q[1].akt
                                              /\ q[1].oper \in ids
                                              /\ q[2].oper # q[1].oper}
           f == [a \in A |-> ClosingRow(d, a.oper, a, a.sum, 0)]
           g == [p \in Q |-> ClosingRow(d, p[1].oper, p[2], p[1].sum, p[1].id)]
<1>1. IsFiniteSet(A)
  BY FS_Subset DEF IsDatabase, Keyed
<1>2. IsFiniteSet(d.aktOpers \X d.akts)
  BY FS_Product DEF IsDatabase, Keyed
<1>3. IsFiniteSet(Q)
  BY <1>2, FS_Subset
<1>4. IsFiniteSet({f[a] : a \in A}) /\ IsFiniteSet({g[p] : p \in Q})
  <2> HIDE DEF f, g, A, Q
  <2> QED  BY <1>1, <1>3, ImageFinite
<1>5. ClosingRows(d, ids) = {f[a] : a \in A} \cup {g[p] : p \in Q}
  BY DEF ClosingRows
<1> HIDE DEF f, g, A, Q
<1> QED  BY <1>4, <1>5, FS_Union

LEMMA PaymentRowsFinite ==
  ASSUME NEW d, IsDatabase(d), NEW ids, IsFiniteSet(ids)
  PROVE  IsFiniteSet(PaymentRows(d, ids))
<1> DEFINE Q == {q \in ids \X d.acchist :
                   \E a \in d.allocs : a.hist = q[2].id /\ a.oper = q[1]}
           f == [p \in Q |->
                  [oper |-> p[1], code |-> p[2].code, number |-> p[2].num,
                   date |-> PaymentDate(p[2]), cur |-> p[2].val, source |-> p[2].id,
                   amount |-> SumFunction([a \in {x \in d.allocs : x.hist = p[2].id
                                                     /\ x.oper = p[1]} |-> a.sum])]]
<1>1. IsFiniteSet(ids \X d.acchist)
  BY FS_Product DEF IsDatabase, Keyed
<1>2. IsFiniteSet(Q)
  BY <1>1, FS_Subset
<1>3. IsFiniteSet({f[q] : q \in Q})
  <2> HIDE DEF f, Q
  <2> QED  BY <1>2, ImageFinite
<1>4. {f[q] : q \in Q} = PaymentRows(d, ids)
  BY DEF PaymentRows
<1> QED  BY <1>3, <1>4

LEMMA OperIdsFinite ==
  ASSUME NEW ops, IsFiniteSet(ops) PROVE IsFiniteSet({r.oper.id : r \in ops})
<1> DEFINE f == [r \in ops |-> r.oper.id]
<1>1. IsFiniteSet({f[r] : r \in ops})
  BY ImageFinite
<1> QED  BY <1>1

-----------------------------------------------------------------------------
(* The documents of a delivery are finite                                    *)

LEMMA ClosingDocumentsFinite ==
  ASSUME NEW r, NEW amounts, NEW closings, IsFiniteSet(closings)
  PROVE  IsFiniteSet(ClosingDocuments(r, amounts, closings))
<1> DEFINE own == {c \in closings : c.oper = r.oper.id}
           f == [c \in own |-> ClosingDocument(r, c)]
<1>1. IsFiniteSet(own)
  BY FS_Subset
<1>2. IsFiniteSet({f[c] : c \in own})
  BY <1>1, ImageFinite
<1>3. {f[c] : c \in own} = {ClosingDocument(r, c) : c \in own}
  OBVIOUS
<1>4. IsFiniteSet({}) /\ IsFiniteSet({Document(r, "sale", Realised(amounts, r.oper.id), ExpectedContract(r))})
  BY FS_EmptySet, FS_Singleton
<1> HIDE DEF f
<1> QED  BY <1>2, <1>3, <1>4 DEF ClosingDocuments

LEMMA MissingInvoiceFinite ==
  ASSUME NEW r, NEW amounts, NEW links, NEW invoices
  PROVE  IsFiniteSet(MissingInvoice(r, amounts, links, invoices))
<1>1. IsFiniteSet({}) /\ \A x : IsFiniteSet({x})
  BY FS_EmptySet, FS_Singleton
<1> QED  BY <1>1 DEF MissingInvoice

LEMMA PaymentDocumentsFinite ==
  ASSUME NEW r, NEW amounts, NEW payments, IsFiniteSet(payments)
  PROVE  IsFiniteSet(PaymentDocuments(r, amounts, payments))
<1> DEFINE own == {p \in payments : p.oper = r.oper.id}
           blank == [Document(r, "payment", Paid(amounts, r.oper.id), r.spec.buyer)
                       EXCEPT !.vat = 0, !.vozm = NoText]
           f == [p \in own |-> [blank EXCEPT !.code = MeaningfulCode(p.code), !.number = p.number,
                  !.date = p.date, !.amount = p.amount, !.cur = p.cur, !.source = p.source,
                  !.via = <<r.via.id, p.source>>]]
<1>1. IsFiniteSet(own)
  BY FS_Subset
<1>2. IsFiniteSet({f[p] : p \in own})
  <2> HIDE DEF f, own
  <2> QED  BY <1>1, ImageFinite
<1>3. IsFiniteSet({}) /\ IsFiniteSet({blank})
  BY FS_EmptySet, FS_Singleton
<1>4. \/ PaymentDocuments(r, amounts, payments) = {}
      \/ PaymentDocuments(r, amounts, payments) = {blank}
      \/ PaymentDocuments(r, amounts, payments) = {f[p] : p \in own}
  BY DEF PaymentDocuments
<1> HIDE DEF f, blank, own
<1> QED  BY <1>2, <1>3, <1>4

LEMMA DocumentsFinite ==
  ASSUME NEW ops, IsFiniteSet(ops), NEW amounts, NEW links,
         NEW invoices, IsFiniteSet(invoices), NEW closings, IsFiniteSet(closings),
         NEW payments, IsFiniteSet(payments), NEW specId
  PROVE  IsFiniteSet(Documents(ops, amounts, links, invoices, closings, payments, specId))
<1> DEFINE I == {x \in invoices : x.spec = specId}
           f == [i \in I |-> [i EXCEPT !.code = MeaningfulCode(@)]]
           O == OperationsOf(ops, specId)
           g == [r \in O |-> ClosingDocuments(r, amounts, closings)
                              \cup MissingInvoice(r, amounts, links, invoices)
                              \cup PaymentDocuments(r, amounts, payments)]
<1>1. IsFiniteSet(I) /\ IsFiniteSet(O)
  BY FS_Subset DEF OperationsOf
<1>2. IsFiniteSet({f[i] : i \in I}) /\ IsFiniteSet({g[r] : r \in O})
  <2> HIDE DEF f, g, I, O
  <2> QED  BY <1>1, ImageFinite
<1>3. {f[i] : i \in I} = DeliveryInvoices(invoices, specId)
  BY DEF DeliveryInvoices
<1>4. ASSUME NEW r \in O PROVE IsFiniteSet(g[r])
  BY FS_Union, ClosingDocumentsFinite, MissingInvoiceFinite, PaymentDocumentsFinite
<1>5. IsFiniteSet(UNION {g[r] : r \in O})
  <2>1. \A T \in {g[r] : r \in O} : IsFiniteSet(T)
    BY <1>4
  <2> HIDE DEF g, O
  <2> QED  BY <1>2, <2>1, FS_UNION
<1>6. {g[r] : r \in O} = {ClosingDocuments(r, amounts, closings)
           \cup MissingInvoice(r, amounts, links, invoices)
           \cup PaymentDocuments(r, amounts, payments) : r \in OperationsOf(ops, specId)}
  OBVIOUS
<1> HIDE DEF f, g, O, I
<1> QED  BY <1>2, <1>3, <1>5, <1>6, FS_Union DEF Documents

\* A function on 1..n is a sequence.
LEMMA SequenceOf ==
  ASSUME NEW n \in Nat, NEW s, s = [i \in 1..n |-> s[i]]
  PROVE  s \in Seq({s[i] : i \in DOMAIN s}) /\ Len(s) = n /\ DOMAIN s = 1..n
<1> DEFINE S == {s[i] : i \in DOMAIN s}
<1>1. s \in [1..n -> S]
  OBVIOUS
<1>2. s \in Seq(S)
  BY <1>1, SeqDef
<1>3. Len(s) \in Nat /\ DOMAIN s = 1..Len(s) /\ DOMAIN s = 1..n
  BY <1>1, <1>2, LenProperties
<1> QED  BY <1>2, <1>3

-----------------------------------------------------------------------------
(* The invariant of a read                                                   *)

\* What the request has in hand, by the query that comes next.
HasList == pc \in {"invoices", "operations", "amounts", "links", "closings", "payments", "rows"}
HasInvoices == HasList /\ pc # "invoices"
HasOperations == HasInvoices /\ pc # "operations"
HasAmounts == pc \in {"links", "closings", "payments", "rows"}
HasLinks == pc \in {"closings", "payments", "rows"}
HasClosings == pc \in {"payments", "rows"}
HasPayments == pc = "rows"

\* Nobody has worked in the ERP since the request began.
Unedited == got.began = now

Moment == /\ hist \in DOMAIN Histories /\ now \in 1..Len(Histories[hist])
          /\ pc \in {"idle", "count", "totals", "list", "reply"} \/ HasList
          /\ pc # "idle" => /\ "began" \in DOMAIN got /\ got.began \in 1..now
                            /\ req \in Requests

TotalRead == pc \in {"totals", "list"} => "total" \in DOMAIN got /\ got.total \in Nat

ListRead ==
  (HasList \/ pc = "reply") =>
    /\ "list" \in DOMAIN got /\ got.list \in Seq({got.list[i] : i \in DOMAIN got.list})
    /\ HasList => got.list # <<>>

InvoicesRead ==
  HasInvoices => /\ "invoices" \in DOMAIN got /\ IsFiniteSet(got.invoices)
                 /\ Unedited => got.invoices = InvoiceRows(db, Ids)

OperationsRead ==
  HasOperations => /\ "ops" \in DOMAIN got /\ IsFiniteSet(got.ops)
                   /\ Unedited => got.ops = OperationRows(db, Ids)

AmountsRead ==
  HasAmounts => /\ "amounts" \in DOMAIN got
                /\ Unedited => got.amounts = Amounts(db, OperIds)

LinksRead ==
  HasLinks => /\ "links" \in DOMAIN got
              /\ Unedited => got.links = InvoiceLinks(db, OperIds)

ClosingsRead ==
  HasClosings =>
    /\ "closings" \in DOMAIN got /\ IsFiniteSet(got.closings)
    /\ Unedited => got.closings = PreferAggregateRows(ClosingRows(db, OperIds))

PaymentsRead ==
  HasPayments => /\ "payments" \in DOMAIN got /\ IsFiniteSet(got.payments)
                 /\ Unedited => got.payments = PaymentRows(db, OperIds)

\* A row shows the payments of its documents against its invoices in an order
\* that the database may choose ...
RowMade(r) ==
  /\ IsFiniteSet(r.documents)
  /\ \E order \in Orders(r.documents) :
       r.invoices = [i \in DOMAIN order |-> InvoiceCell(r.documents, order, i)]

\* ... and has the documents and the sums of one read of the deliveries ids.
RowOf(erp, ids, r) ==
  LET page == ReadAtOnce(erp, ids, r.spec) IN
  /\ r.spec \in ids
  /\ r.documents = page.documents
  /\ r.payments = page.calculation.payments
  /\ r.reimbursable = page.calculation.reimbursable
  /\ r.other = page.calculation.other
  /\ r.balance = page.calculation.balance

RowsMade ==
  /\ (pc \notin {"rows", "reply"} => rows = <<>>)
  /\ Len(rows) \in Nat /\ rows = [k \in 1..Len(rows) |-> rows[k]]
  /\ (pc = "rows" => Len(rows) < Len(got.list))
  /\ (pc = "reply" => Len(rows) = Len(got.list))
  /\ \A k \in DOMAIN rows :
       /\ rows[k].spec = got.list[k].id /\ RowMade(rows[k])
       /\ Unedited => RowOf(db, Ids, rows[k])

Shown == {reply.items[k].spec : k \in DOMAIN reply.items}

ReplySound ==
  Answered =>
    /\ reply.at \in 1..Len(Histories[hist])
    /\ \A k \in DOMAIN reply.items :
         /\ RowMade(reply.items[k])
         /\ reply.unedited => RowOf(ErpThen, Shown, reply.items[k])

ReadInv == /\ Moment /\ TotalRead /\ ListRead /\ InvoicesRead /\ OperationsRead /\ AmountsRead
           /\ LinksRead /\ ClosingsRead /\ PaymentsRead /\ RowsMade /\ ReplySound

LEMMA IsERP == ASSUME Moment PROVE IsDatabase(db)
BY HistoriesAssumption DEF Moment, db

LEMMA ReadInit == Init => ReadInv
<1> SUFFICES ASSUME Init PROVE ReadInv
  OBVIOUS
<1>1. hist \in DOMAIN Histories /\ now = 1 /\ pc = "idle" /\ rows = <<>> /\ reply = NoReply
  BY DEF Init
<1>2. Len(Histories[hist]) \in Nat \ {0}
  BY <1>1, HistoriesAssumption
<1>3. Moment
  BY <1>1, <1>2 DEF Moment, HasList
<1>4. ~ HasList /\ ~ HasInvoices /\ ~ HasOperations /\ ~ HasAmounts /\ ~ HasLinks
      /\ ~ HasClosings /\ ~ HasPayments
  BY <1>1 DEF HasList, HasInvoices, HasOperations, HasAmounts, HasLinks, HasClosings,
    HasPayments
<1>5. RowsMade
  BY <1>1 DEF RowsMade
<1>6. ReplySound
  BY <1>1 DEF ReplySound, Answered, NoReply
<1> QED
  BY <1>1, <1>3, <1>4, <1>5, <1>6 DEF ReadInv, TotalRead, ListRead, InvoicesRead, OperationsRead,
    AmountsRead, LinksRead, ClosingsRead, PaymentsRead

\* The list of deliveries is a sequence.
LEMMA ListIsSequence ==
  ASSUME NEW d, IsDatabase(d), NEW f, NEW limit \in Int, NEW offset \in Int,
         NEW s, s = ListDeliveries(d, f, limit, offset)
  PROVE  s \in Seq({s[i] : i \in DOMAIN s})
<1> DEFINE all == InOrder(Selected(d, f), Newer)
           first == Max({0, offset})
           from == first + 1
           to == Min({first + limit, Len(all)})
           S == {all[i] : i \in from..to}
<1>1. IsFiniteSet(Selected(d, f))
  BY FS_Subset DEF Selected, IsDatabase, Keyed
<1>2. Cardinality(Selected(d, f)) \in Nat
  BY <1>1, FS_CardinalityType
<1>3. Len(all) \in Nat
  <2>1. all = [i \in 1..Cardinality(Selected(d, f)) |-> all[i]]
    BY DEF InOrder
  <2> HIDE DEF all
  <2> QED  BY <1>2, <2>1, SequenceOf
<1>4. first \in Int
  <2>1. 0 \in Int /\ offset \in Int
    OBVIOUS
  <2> QED  BY <2>1, MaxOfTwo, Zenon
<1>5. from \in Int /\ to \in Int
  <2> HIDE DEF all, first
  <2>1. first + limit \in Int /\ Len(all) \in Int /\ from \in Int
    BY <1>3, <1>4
  <2>2. to \in Int
    BY <2>1, MinOfTwo, Zenon
  <2> QED  BY <2>1, <2>2
<1> s = SubSeq(all, from, to)
  BY DEF ListDeliveries, Page
<1>6. s \in Seq(S)
  <2> HIDE DEF all, from, to
  <2>1. \A i \in from..to : all[i] \in S
    OBVIOUS
  <2> HIDE DEF S
  <2> QED  BY <1>5, <2>1, SubSeqProperties
<1>7. s \in Seq({s[i] : i \in DOMAIN s})
  <2> HIDE DEF S
  <2>1. Len(s) \in Nat /\ s = [i \in 1..Len(s) |-> s[i]]
    BY <1>6, LenProperties
  <2> QED  BY <2>1, SequenceOf
<1> QED  BY <1>7

LEMMA LimitIsNumber ==
  ASSUME req \in Requests, got.total \in Nat PROVE Limit \in Int
<1> DEFINE cap == IF req.all THEN ExportCap ELSE PageCap
           m == Min({req.limit, cap})
           given == Max({1, m})
           n == IF got.total = 0 THEN given ELSE got.total
           k == Min({n, ExportCap})
<1>1. req.limit \in Int /\ cap \in Int /\ ExportCap \in Int /\ 1 \in Int
  BY RequestsAssumption
<1>2. m \in Int
  <2> HIDE DEF cap
  <2> QED  BY <1>1, MinOfTwo
<1>3. given \in Int
  <2> HIDE DEF m
  <2> QED  BY <1>1, <1>2, MaxOfTwo, Zenon
<1>4. n \in Int
  <2> HIDE DEF given
  <2> QED  BY <1>3
<1>5. k \in Int
  <2> HIDE DEF n
  <2> QED  BY <1>1, <1>4, MinOfTwo
<1>6. Max({1, k}) \in Int
  <2> HIDE DEF k
  <2> QED  BY <1>1, <1>5, MaxOfTwo, Zenon
<1>7. Limit = IF req.all THEN Max({1, k}) ELSE given
  BY DEF Limit
<1> HIDE DEF k, given
<1> QED  BY <1>3, <1>6, <1>7

-----------------------------------------------------------------------------
(* A read, step by step                                                      *)

\* A query that answers changes what is in hand, under its name, and no more.
LEMMA Asked ==
  ASSUME NEW query, NEW name, NEW answer, NEW next, Ask(query, name, answer, next)
  PROVE  /\ pc = query /\ pc' = next
         /\ DOMAIN got' = DOMAIN got \cup {name} /\ got'[name] = answer
         /\ \A n \in DOMAIN got : n # name => got'[n] = got[n]
         /\ UNCHANGED <<req, rows, reply, hist, now>>
BY DEF Ask, Others

LEMMA ReplyKept ==
  ASSUME ReplySound, UNCHANGED <<hist, reply>> PROVE ReplySound'
<1>1. hist' = hist /\ reply' = reply
  OBVIOUS
<1>2. ErpThen' = ErpThen /\ Shown' = Shown /\ Answered' = Answered
  BY <1>1 DEF ErpThen, Shown, Answered
<1> QED  BY <1>1, <1>2 DEF ReplySound

\* While its queries run, a request has no rows yet.
LEMMA NoRowsYet ==
  ASSUME RowsMade, rows = <<>>, rows' = <<>>,
         pc' = "rows" => Len(got'.list) \in Nat \ {0},
         pc' = "reply" => Len(got'.list) = 0
  PROVE  RowsMade'
<1>1. Len(rows') = 0 /\ rows' = [k \in 1..0 |-> rows'[k]] /\ DOMAIN rows' = {}
  OBVIOUS
<1> QED  BY <1>1 DEF RowsMade

LEMMA NonEmptyList ==
  ASSUME ListRead, HasList PROVE Len(got.list) \in Nat \ {0}
BY EmptySeq DEF ListRead

LEMMA CountKeeps == ASSUME ReadInv, Count PROVE ReadInv'
<1> DEFINE next == IF req.includeTotal /\ req.filter.spec = NotGiven THEN "totals" ELSE "list"
<1>1. Ask("count", "total", CountDeliveries(db, req.filter), next)
  BY DEF Count
<1>2. next \in {"totals", "list"}
  OBVIOUS
<1> HIDE DEF next
<1>3. /\ pc = "count" /\ pc' = next /\ "total" \in DOMAIN got'
      /\ got'.total = CountDeliveries(db, req.filter)
      /\ "began" \in DOMAIN got /\ "began" \in DOMAIN got' /\ got'.began = got.began
      /\ UNCHANGED <<req, rows, reply, hist, now>>
  <2>1. pc = "count"
    BY <1>1, Asked
  <2>2. "began" \in DOMAIN got
    BY <2>1 DEF ReadInv, Moment
  <2> QED  BY <1>1, <2>2, Asked
<1>4. got'.total \in Nat
  <2>1. IsFiniteSet(Selected(db, req.filter))
    BY IsERP, FS_Subset DEF ReadInv, Selected, IsDatabase, Keyed
  <2> QED  BY <1>3, <2>1, FS_CardinalityType DEF CountDeliveries
<1>5. Moment' /\ TotalRead'
  BY <1>2, <1>3, <1>4 DEF ReadInv, Moment, TotalRead
<1>6. ~ HasList' /\ ~ HasInvoices' /\ ~ HasOperations' /\ ~ HasAmounts' /\ ~ HasLinks'
      /\ ~ HasClosings' /\ ~ HasPayments' /\ pc' # "reply"
  BY <1>2, <1>3 DEF HasList, HasInvoices, HasOperations, HasAmounts, HasLinks,
    HasClosings, HasPayments
<1>7. RowsMade'
  BY <1>2, <1>3, NoRowsYet DEF ReadInv, RowsMade
<1>8. ReplySound'
  BY <1>3, ReplyKept DEF ReadInv
<1> QED
  BY <1>5, <1>6, <1>7, <1>8 DEF ReadInv, ListRead, InvoicesRead, OperationsRead,
    AmountsRead, LinksRead, ClosingsRead, PaymentsRead

LEMMA TotalsKeeps == ASSUME ReadInv, Totals PROVE ReadInv'
<1>1. Ask("totals", "totals", MatrixTotalSummary(db, req.filter), "list")
  BY DEF Totals
<1>2. /\ pc = "totals" /\ pc' = "list"
      /\ "total" \in DOMAIN got' /\ got'.total = got.total /\ got.total \in Nat
      /\ "began" \in DOMAIN got /\ "began" \in DOMAIN got' /\ got'.began = got.began
      /\ UNCHANGED <<req, rows, reply, hist, now>>
  <2>1. pc = "totals"
    BY <1>1, Asked
  <2>2. "began" \in DOMAIN got /\ "total" \in DOMAIN got /\ got.total \in Nat
    BY <2>1 DEF ReadInv, Moment, TotalRead
  <2> QED  BY <1>1, <2>2, Asked
<1>3. Moment' /\ TotalRead'
  BY <1>2 DEF ReadInv, Moment, TotalRead
<1>4. ~ HasList' /\ ~ HasInvoices' /\ ~ HasOperations' /\ ~ HasAmounts' /\ ~ HasLinks'
      /\ ~ HasClosings' /\ ~ HasPayments' /\ pc' # "reply"
  BY <1>2 DEF HasList, HasInvoices, HasOperations, HasAmounts, HasLinks,
    HasClosings, HasPayments
<1>5. RowsMade'
  BY <1>2, NoRowsYet DEF ReadInv, RowsMade
<1>6. ReplySound'
  BY <1>2, ReplyKept DEF ReadInv
<1> QED
  BY <1>3, <1>4, <1>5, <1>6 DEF ReadInv, ListRead, InvoicesRead, OperationsRead,
    AmountsRead, LinksRead, ClosingsRead, PaymentsRead

LEMMA ListKeeps == ASSUME ReadInv, List PROVE ReadInv'
<1> DEFINE found == ListDeliveries(db, req.filter, Limit, Offset)
           next == IF found = <<>> THEN "reply" ELSE "invoices"
<1>1. Ask("list", "list", found, next)
  BY DEF List
<1>2. pc = "list"
  BY <1>1, Asked
<1>3. found \in Seq({found[i] : i \in DOMAIN found})
  <2>1. req \in Requests /\ got.total \in Nat
    BY <1>2 DEF ReadInv, Moment, TotalRead
  <2>2. Limit \in Int /\ Offset \in Int
    BY <2>1, LimitIsNumber, RequestsAssumption DEF Offset
  <2>3. IsDatabase(db)
    BY IsERP DEF ReadInv
  <2> QED  BY <2>2, <2>3, ListIsSequence
<1>4. (next = "reply" /\ found = <<>>) \/ (next = "invoices" /\ found # <<>>)
  OBVIOUS
<1> HIDE DEF found
<1> HIDE DEF next
<1>5. /\ pc' = next /\ "list" \in DOMAIN got' /\ got'.list = found
      /\ "began" \in DOMAIN got /\ "began" \in DOMAIN got' /\ got'.began = got.began
      /\ UNCHANGED <<req, rows, reply, hist, now>>
  <2>1. "began" \in DOMAIN got
    BY <1>2 DEF ReadInv, Moment
  <2> QED  BY <1>1, <2>1, Asked
<1>6. Moment' /\ TotalRead'
  BY <1>2, <1>4, <1>5 DEF ReadInv, Moment, TotalRead, HasList
<1>7. ~ HasInvoices' /\ ~ HasOperations' /\ ~ HasAmounts' /\ ~ HasLinks'
      /\ ~ HasClosings' /\ ~ HasPayments'
  BY <1>4, <1>5 DEF HasList, HasInvoices, HasOperations, HasAmounts, HasLinks,
    HasClosings, HasPayments
<1>8. ListRead'
  BY <1>3, <1>4, <1>5 DEF ListRead, HasList
<1>9. RowsMade'
  <2>1. pc' = "reply" => Len(got'.list) = 0
    BY <1>4, <1>5
  <2> QED  BY <1>2, <1>4, <1>5, <2>1, NoRowsYet DEF ReadInv, RowsMade
<1>10. ReplySound'
  BY <1>5, ReplyKept DEF ReadInv
<1> QED
  BY <1>6, <1>7, <1>8, <1>9, <1>10 DEF ReadInv, InvoicesRead, OperationsRead,
    AmountsRead, LinksRead, ClosingsRead, PaymentsRead

\* What stays as it was while the later queries run: the list and the moment.
LEMMA StillReading ==
  ASSUME ReadInv, HasList, HasList', "list" \in DOMAIN got', "began" \in DOMAIN got',
         got'.list = got.list, got'.began = got.began,
         UNCHANGED <<req, rows, reply, hist, now>>,
         pc' = "rows" => rows' = <<>>, pc # "rows"
  PROVE  /\ Moment' /\ TotalRead' /\ ListRead' /\ RowsMade' /\ ReplySound'
         /\ db' = db /\ Ids' = Ids /\ Unedited' = Unedited
<1>1. Moment' /\ TotalRead'
  BY DEF ReadInv, Moment, TotalRead, HasList
<1>2. ListRead'
  BY DEF ReadInv, ListRead
<1>3. Len(got.list) \in Nat \ {0}
  BY NonEmptyList DEF ReadInv
<1>4. RowsMade'
  <2>1. rows = <<>> /\ rows' = <<>> /\ pc' # "reply"
    BY DEF ReadInv, RowsMade, HasList
  <2> QED  BY <1>3, <2>1, NoRowsYet DEF ReadInv
<1>5. ReplySound'
  BY ReplyKept DEF ReadInv
<1> QED  BY <1>1, <1>2, <1>4, <1>5 DEF db, Ids, Unedited

LEMMA InvoicesKeeps == ASSUME ReadInv, Invoices PROVE ReadInv'
<1>1. Ask("invoices", "invoices", InvoiceRows(db, Ids), "operations")
  BY DEF Invoices
<1>2. pc = "invoices" /\ pc' = "operations" /\ HasList /\ HasList'
  BY <1>1, Asked DEF HasList
<1>3. "list" \in DOMAIN got /\ "began" \in DOMAIN got
  BY <1>2 DEF ReadInv, Moment, ListRead
<1>4. /\ "invoices" \in DOMAIN got' /\ got'.invoices = InvoiceRows(db, Ids)
      /\ "list" \in DOMAIN got' /\ "began" \in DOMAIN got'
      /\ got'.list = got.list /\ got'.began = got.began
      /\ UNCHANGED <<req, rows, reply, hist, now>>
  BY <1>1, <1>3, Asked
<1>5. /\ Moment' /\ TotalRead' /\ ListRead' /\ RowsMade' /\ ReplySound'
      /\ db' = db /\ Ids' = Ids /\ Unedited' = Unedited
  BY <1>2, <1>4, StillReading
<1>6. InvoicesRead'
  <2>1. IsFiniteSet(got'.invoices)
    BY <1>4, IsERP, InvoiceRowsFinite DEF ReadInv
  <2> QED  BY <1>4, <1>5, <2>1 DEF InvoicesRead
<1>7. ~ HasOperations' /\ ~ HasAmounts' /\ ~ HasLinks' /\ ~ HasClosings' /\ ~ HasPayments'
  BY <1>2 DEF HasInvoices, HasOperations, HasAmounts, HasLinks, HasClosings, HasPayments
<1> QED
  BY <1>5, <1>6, <1>7 DEF ReadInv, OperationsRead, AmountsRead, LinksRead, ClosingsRead,
    PaymentsRead

LEMMA OperationsKeeps == ASSUME ReadInv, Operations PROVE ReadInv'
<1>1. Ask("operations", "ops", OperationRows(db, Ids), "amounts")
  BY DEF Operations
<1>2. pc = "operations" /\ pc' = "amounts" /\ HasList /\ HasList' /\ HasInvoices
  <2>1. pc = "operations" /\ pc' = "amounts"
    BY <1>1, Asked
  <2> QED  BY <2>1 DEF HasList, HasInvoices
<1>3. "list" \in DOMAIN got /\ "began" \in DOMAIN got /\ "invoices" \in DOMAIN got
  BY <1>2 DEF ReadInv, Moment, ListRead, InvoicesRead
<1>4. /\ "ops" \in DOMAIN got' /\ got'.ops = OperationRows(db, Ids)
      /\ "list" \in DOMAIN got' /\ "began" \in DOMAIN got' /\ "invoices" \in DOMAIN got'
      /\ got'.list = got.list /\ got'.began = got.began /\ got'.invoices = got.invoices
      /\ UNCHANGED <<req, rows, reply, hist, now>>
  BY <1>1, <1>3, Asked
<1>5. /\ Moment' /\ TotalRead' /\ ListRead' /\ RowsMade' /\ ReplySound'
      /\ db' = db /\ Ids' = Ids /\ Unedited' = Unedited
  BY <1>2, <1>4, StillReading
<1>6. InvoicesRead'
  BY <1>2, <1>4, <1>5 DEF ReadInv, InvoicesRead
<1>7. OperationsRead'
  <2>1. IsFiniteSet(got'.ops)
    BY <1>4, IsERP, OperationRowsFinite DEF ReadInv
  <2> QED  BY <1>4, <1>5, <2>1 DEF OperationsRead
<1>8. ~ HasAmounts' /\ ~ HasLinks' /\ ~ HasClosings' /\ ~ HasPayments'
  BY <1>2 DEF HasAmounts, HasLinks, HasClosings, HasPayments
<1> QED
  BY <1>5, <1>6, <1>7, <1>8 DEF ReadInv, AmountsRead, LinksRead, ClosingsRead, PaymentsRead

\* The same once the operations are known: what is in hand stays, a name is added.
LEMMA StillHas ==
  ASSUME ReadInv, NEW query, NEW name, NEW answer, NEW next,
         Ask(query, name, answer, next),
         HasOperations, HasOperations', pc # "rows",
         name \notin {"began", "list", "invoices", "ops"}
  PROVE  /\ Moment' /\ TotalRead' /\ ListRead' /\ RowsMade' /\ ReplySound'
         /\ InvoicesRead' /\ OperationsRead'
         /\ db' = db /\ OperIds' = OperIds /\ Unedited' = Unedited
<1>1. HasList /\ HasList' /\ HasInvoices /\ HasInvoices'
  BY DEF HasList, HasInvoices, HasOperations
<1>2. {"list", "began", "invoices", "ops"} \subseteq DOMAIN got
  BY <1>1 DEF ReadInv, Moment, ListRead, InvoicesRead, OperationsRead, HasList
<1>3. /\ {"list", "began", "invoices", "ops"} \subseteq DOMAIN got'
      /\ got'.list = got.list /\ got'.began = got.began /\ got'.invoices = got.invoices
      /\ got'.ops = got.ops
      /\ UNCHANGED <<req, rows, reply, hist, now>>
  BY <1>2, Asked
<1>4. rows' = <<>>
  BY <1>1, <1>3 DEF ReadInv, RowsMade, HasList
<1>5. /\ Moment' /\ TotalRead' /\ ListRead' /\ RowsMade' /\ ReplySound'
      /\ db' = db /\ Ids' = Ids /\ Unedited' = Unedited
  BY <1>1, <1>3, <1>4, StillReading
<1>6. InvoicesRead' /\ OperationsRead'
  BY <1>1, <1>3, <1>5 DEF ReadInv, InvoicesRead, OperationsRead
<1>7. OperIds' = OperIds
  BY <1>3 DEF OperIds
<1> QED  BY <1>5, <1>6, <1>7

LEMMA AmountsKeep == ASSUME ReadInv, AmountsOf PROVE ReadInv'
<1>1. Ask("amounts", "amounts", Amounts(db, OperIds), "links")
  BY DEF AmountsOf
<1>2. pc = "amounts" /\ pc' = "links" /\ "amounts" \in DOMAIN got'
      /\ got'.amounts = Amounts(db, OperIds)
  BY <1>1, Asked
<1>3. HasOperations /\ HasOperations'
  BY <1>2 DEF HasList, HasInvoices, HasOperations
<1>4. /\ Moment' /\ TotalRead' /\ ListRead' /\ RowsMade' /\ ReplySound'
      /\ InvoicesRead' /\ OperationsRead'
      /\ db' = db /\ OperIds' = OperIds /\ Unedited' = Unedited
  BY <1>1, <1>2, <1>3, StillHas
<1>5. AmountsRead'
  BY <1>2, <1>4 DEF AmountsRead
<1>6. ~ HasLinks' /\ ~ HasClosings' /\ ~ HasPayments'
  BY <1>2 DEF HasLinks, HasClosings, HasPayments
<1> QED  BY <1>4, <1>5, <1>6 DEF ReadInv, LinksRead, ClosingsRead, PaymentsRead

LEMMA LinksKeep == ASSUME ReadInv, Links PROVE ReadInv'
<1>1. Ask("links", "links", InvoiceLinks(db, OperIds), "closings")
  BY DEF Links
<1>2. pc = "links" /\ pc' = "closings" /\ "links" \in DOMAIN got'
      /\ got'.links = InvoiceLinks(db, OperIds)
  BY <1>1, Asked
<1>3. HasOperations /\ HasOperations' /\ HasAmounts
  BY <1>2 DEF HasList, HasInvoices, HasOperations, HasAmounts
<1>4. /\ Moment' /\ TotalRead' /\ ListRead' /\ RowsMade' /\ ReplySound'
      /\ InvoicesRead' /\ OperationsRead'
      /\ db' = db /\ OperIds' = OperIds /\ Unedited' = Unedited
  BY <1>1, <1>2, <1>3, StillHas
<1>5. "amounts" \in DOMAIN got
  BY <1>3 DEF ReadInv, AmountsRead
<1>6. "amounts" \in DOMAIN got' /\ got'.amounts = got.amounts
  BY <1>1, <1>5, Asked
<1>7. AmountsRead' /\ LinksRead'
  BY <1>2, <1>3, <1>4, <1>6 DEF ReadInv, AmountsRead, LinksRead
<1>8. ~ HasClosings' /\ ~ HasPayments'
  BY <1>2 DEF HasClosings, HasPayments
<1> QED  BY <1>4, <1>7, <1>8 DEF ReadInv, ClosingsRead, PaymentsRead

LEMMA ClosingsKeep == ASSUME ReadInv, Closings PROVE ReadInv'
<1>1. Ask("closings", "closings", PreferAggregateRows(ClosingRows(db, OperIds)), "payments")
  BY DEF Closings
<1>2. pc = "closings" /\ pc' = "payments" /\ "closings" \in DOMAIN got'
      /\ got'.closings = PreferAggregateRows(ClosingRows(db, OperIds))
  BY <1>1, Asked
<1>3. HasOperations /\ HasOperations' /\ HasAmounts /\ HasLinks
  BY <1>2 DEF HasList, HasInvoices, HasOperations, HasAmounts, HasLinks
<1>4. /\ Moment' /\ TotalRead' /\ ListRead' /\ RowsMade' /\ ReplySound'
      /\ InvoicesRead' /\ OperationsRead'
      /\ db' = db /\ OperIds' = OperIds /\ Unedited' = Unedited
  BY <1>1, <1>2, <1>3, StillHas
<1>5. "amounts" \in DOMAIN got /\ "links" \in DOMAIN got
  BY <1>3 DEF ReadInv, AmountsRead, LinksRead
<1>6. /\ "amounts" \in DOMAIN got' /\ got'.amounts = got.amounts
      /\ "links" \in DOMAIN got' /\ got'.links = got.links
  BY <1>1, <1>5, Asked
<1>7. AmountsRead' /\ LinksRead'
  BY <1>3, <1>4, <1>6 DEF ReadInv, AmountsRead, LinksRead
<1>8. IsFiniteSet(got'.closings)
  <2>1. IsFiniteSet(ClosingRows(db, OperIds))
    BY IsERP, ClosingRowsFinite DEF ReadInv
  <2> QED  BY <1>2, <2>1, FS_Subset DEF PreferAggregateRows
<1>9. ClosingsRead' /\ ~ HasPayments'
  BY <1>2, <1>4, <1>8 DEF ClosingsRead, HasPayments
<1> QED  BY <1>4, <1>7, <1>9 DEF ReadInv, PaymentsRead

LEMMA PaymentsKeep == ASSUME ReadInv, Payments PROVE ReadInv'
<1>1. Ask("payments", "payments", PaymentRows(db, OperIds), "rows")
  BY DEF Payments
<1>2. pc = "payments" /\ pc' = "rows" /\ "payments" \in DOMAIN got'
      /\ got'.payments = PaymentRows(db, OperIds)
  BY <1>1, Asked
<1>3. HasOperations /\ HasOperations' /\ HasAmounts /\ HasLinks /\ HasClosings
  BY <1>2 DEF HasList, HasInvoices, HasOperations, HasAmounts, HasLinks, HasClosings
<1>4. /\ Moment' /\ TotalRead' /\ ListRead' /\ RowsMade' /\ ReplySound'
      /\ InvoicesRead' /\ OperationsRead'
      /\ db' = db /\ OperIds' = OperIds /\ Unedited' = Unedited
  BY <1>1, <1>2, <1>3, StillHas
<1>5. "amounts" \in DOMAIN got /\ "links" \in DOMAIN got /\ "closings" \in DOMAIN got
  BY <1>3 DEF ReadInv, AmountsRead, LinksRead, ClosingsRead
<1>6. /\ "amounts" \in DOMAIN got' /\ got'.amounts = got.amounts
      /\ "links" \in DOMAIN got' /\ got'.links = got.links
      /\ "closings" \in DOMAIN got' /\ got'.closings = got.closings
  BY <1>1, <1>5, Asked
<1>7. AmountsRead' /\ LinksRead' /\ ClosingsRead'
  BY <1>3, <1>4, <1>6 DEF ReadInv, AmountsRead, LinksRead, ClosingsRead
<1>8. IsFiniteSet(got'.payments)
  <2>1. IsFiniteSet(OperIds)
    BY <1>3, OperIdsFinite DEF ReadInv, OperationsRead, OperIds
  <2> QED  BY <1>2, <2>1, IsERP, PaymentRowsFinite DEF ReadInv
<1>9. PaymentsRead'
  BY <1>2, <1>4, <1>8 DEF PaymentsRead
<1> QED  BY <1>4, <1>7, <1>9 DEF ReadInv

\* A row that MatrixRow makes of finite documents is made as RowMade says.
LEMMA MatrixRowMade ==
  ASSUME NEW id, NEW docs, IsFiniteSet(docs), NEW calculation, NEW order \in Orders(docs)
  PROVE  LET r == MatrixRow(id, docs, calculation, order) IN
         /\ RowMade(r) /\ r.spec = id /\ r.documents = docs
         /\ r.payments = calculation.payments /\ r.reimbursable = calculation.reimbursable
         /\ r.other = calculation.other /\ r.balance = calculation.balance
BY DEF MatrixRow, RowMade

\* Documents and sums made of what was read in one moment are those of ReadAtOnce.
LEMMA PageReadAtOnce ==
  ASSUME ReadInv, pc = "rows", Unedited, NEW id
  PROVE  LET page == ReadAtOnce(db, Ids, id) IN
         /\ DocumentsOf(id) = page.documents
         /\ Calculation(got.ops, got.amounts, got.closings, id) = page.calculation
<1>1. HasList /\ HasInvoices /\ HasOperations /\ HasAmounts /\ HasLinks /\ HasClosings /\ HasPayments
  BY DEF HasList, HasInvoices, HasOperations, HasAmounts, HasLinks, HasClosings, HasPayments
<1>2. /\ got.invoices = InvoiceRows(db, Ids) /\ got.ops = OperationRows(db, Ids)
      /\ got.amounts = Amounts(db, OperIds) /\ got.links = InvoiceLinks(db, OperIds)
      /\ got.closings = PreferAggregateRows(ClosingRows(db, OperIds))
      /\ got.payments = PaymentRows(db, OperIds)
  BY <1>1 DEF ReadInv, InvoicesRead, OperationsRead, AmountsRead, LinksRead, ClosingsRead,
    PaymentsRead
<1>3. OperIds = {r.oper.id : r \in OperationRows(db, Ids)}
  BY <1>2 DEF OperIds
<1> QED  BY <1>2, <1>3 DEF ReadAtOnce, DocumentsOf

LEMMA MakeRowKeeps == ASSUME ReadInv, MakeRow PROVE ReadInv'
<1> DEFINE n == Len(rows) + 1
           id == got.list[n].id
           docs == DocumentsOf(id)
           calculation == Calculation(got.ops, got.amounts, got.closings, id)
<1>1. PICK order \in Orders(docs) : rows' = Append(rows, MatrixRow(id, docs, calculation, order))
  BY DEF MakeRow
<1> DEFINE row == MatrixRow(id, docs, calculation, order)
<1>2. /\ pc = "rows" /\ pc' = IF Len(rows') = Len(got.list) THEN "reply" ELSE "rows"
      /\ UNCHANGED <<req, got, reply, hist, now>>
  BY DEF MakeRow, Others
<1>3. HasList /\ HasInvoices /\ HasOperations /\ HasAmounts /\ HasLinks /\ HasClosings /\ HasPayments
  BY <1>2 DEF HasList, HasInvoices, HasOperations, HasAmounts, HasLinks, HasClosings, HasPayments
<1>4. Len(rows) \in Nat /\ DOMAIN rows = 1..Len(rows) /\ Len(rows) < Len(got.list)
      /\ Len(got.list) \in Nat \ {0}
  BY <1>2, <1>3, NonEmptyList DEF ReadInv, RowsMade
<1>5. IsFiniteSet(docs)
  BY <1>3, DocumentsFinite DEF DocumentsOf, ReadInv, InvoicesRead, OperationsRead,
    ClosingsRead, PaymentsRead
<1>6. /\ RowMade(row) /\ row.spec = id /\ row.documents = docs
      /\ row.payments = calculation.payments /\ row.reimbursable = calculation.reimbursable
      /\ row.other = calculation.other /\ row.balance = calculation.balance
  <2> HIDE DEF docs, calculation, id
  <2> QED  BY <1>5, MatrixRowMade
<1>7. n \in DOMAIN got.list
  <2>1. DOMAIN got.list = 1..Len(got.list)
    BY <1>3, LenProperties DEF ReadInv, ListRead
  <2> QED  BY <1>4, <2>1
<1>8. Unedited => RowOf(db, Ids, row)
  <2>1. id \in Ids
    BY <1>7 DEF Ids
  <2>2. SUFFICES ASSUME Unedited PROVE RowOf(db, Ids, row)
    OBVIOUS
  <2>3. docs = ReadAtOnce(db, Ids, id).documents
        /\ calculation = ReadAtOnce(db, Ids, id).calculation
    BY <1>2, <2>2, PageReadAtOnce
  <2> HIDE DEF docs, calculation, id, row
  <2> QED  BY <1>6, <2>1, <2>3 DEF RowOf
<1> HIDE DEF row
<1>9. /\ Len(rows') = n /\ rows' = [k \in 1..n |-> rows'[k]] /\ rows'[n] = row
      /\ \A k \in DOMAIN rows : rows'[k] = rows[k]
  <2> DEFINE S == {rows[k] : k \in DOMAIN rows} \cup {row}
  <2>1. rows \in Seq(S)
    <3>1. rows = [k \in 1..Len(rows) |-> rows[k]]
      BY DEF ReadInv, RowsMade
    <3>2. rows \in Seq({rows[k] : k \in DOMAIN rows})
      BY <1>4, <3>1, SequenceOf
    <3> QED  BY <3>2, SeqMonotonic
  <2>2. rows' = Append(rows, row)
    BY <1>1 DEF row
  <2> HIDE DEF S
  <2>3. row \in S
    BY DEF S
  <2>4. /\ rows' \in Seq(S) /\ Len(rows') = n /\ rows'[n] = row
        /\ \A k \in DOMAIN rows : rows'[k] = rows[k]
    BY <1>4, <2>1, <2>2, <2>3, AppendProperties
  <2> QED  BY <2>4, LenProperties
<1>10. Moment' /\ TotalRead' /\ ListRead'
  BY <1>2, <1>3 DEF ReadInv, Moment, TotalRead, ListRead, HasList
<1>11. db' = db /\ Ids' = Ids /\ OperIds' = OperIds /\ Unedited' = Unedited
  BY <1>2 DEF db, Ids, OperIds, Unedited
<1>12. /\ InvoicesRead' /\ OperationsRead' /\ AmountsRead' /\ LinksRead' /\ ClosingsRead'
       /\ PaymentsRead'
  BY <1>2, <1>3, <1>11 DEF ReadInv, InvoicesRead, OperationsRead, AmountsRead, LinksRead,
    ClosingsRead, PaymentsRead
<1>13. RowsMade'
  <2>1. ASSUME NEW k \in DOMAIN rows'
        PROVE  /\ rows'[k].spec = got.list[k].id /\ RowMade(rows'[k])
               /\ Unedited => RowOf(db, Ids, rows'[k])
    <3>1. CASE k = n
      BY <1>6, <1>8, <1>9, <3>1
    <3>2. CASE k # n
      <4>1. k \in DOMAIN rows /\ rows'[k] = rows[k]
        BY <1>4, <1>9, <3>2
      <4> QED  BY <4>1 DEF ReadInv, RowsMade
    <3> QED  BY <3>1, <3>2
  <2>2. Len(rows') \in Nat /\ rows' = [k \in 1..Len(rows') |-> rows'[k]]
    BY <1>4, <1>9
  <2>3. (pc' = "rows" => Len(rows') < Len(got'.list))
        /\ (pc' = "reply" => Len(rows') = Len(got'.list)) /\ pc' \in {"rows", "reply"}
    BY <1>2, <1>4, <1>9
  <2> QED  BY <1>2, <1>11, <2>1, <2>2, <2>3 DEF RowsMade
<1>14. ReplySound'
  BY <1>2, ReplyKept DEF ReadInv
<1> QED  BY <1>10, <1>12, <1>13, <1>14 DEF ReadInv

\* An answer ends the request.
LEMMA AnsweredKeeps ==
  ASSUME ReadInv, NEW r, Answer(r), UNCHANGED <<hist, now>>, ReplySound'
  PROVE  ReadInv'
<1>1. pc' = "idle" /\ rows' = <<>>
  BY DEF Answer
<1>2. Moment' /\ TotalRead'
  BY <1>1 DEF ReadInv, Moment, TotalRead
<1>3. ~ HasList' /\ ~ HasInvoices' /\ ~ HasOperations' /\ ~ HasAmounts' /\ ~ HasLinks'
      /\ ~ HasClosings' /\ ~ HasPayments' /\ pc' # "reply" /\ pc' # "rows"
  BY <1>1 DEF HasList, HasInvoices, HasOperations, HasAmounts, HasLinks, HasClosings,
    HasPayments
<1>4. RowsMade'
  <2>1. Len(rows') = 0 /\ rows' = [k \in 1..0 |-> rows'[k]] /\ DOMAIN rows' = {}
    BY <1>1
  <2> QED  BY <1>1, <1>3, <2>1 DEF RowsMade
<1> QED
  BY <1>2, <1>3, <1>4 DEF ReadInv, ListRead, InvoicesRead, OperationsRead,
    AmountsRead, LinksRead, ClosingsRead, PaymentsRead

\* An answer without rows says nothing of deliveries.
LEMMA AnsweredWithout ==
  ASSUME ReadInv, NEW r, Answer(r), UNCHANGED <<hist, now>>, "items" \notin DOMAIN r
  PROVE  ReadInv'
<1>1. reply' = r
  BY DEF Answer
<1>2. ReplySound'
  BY <1>1 DEF ReplySound, Answered
<1> QED  BY <1>2, AnsweredKeeps

LEMMA ReceiveKeeps == ASSUME ReadInv, Receive PROVE ReadInv'
<1>1. pc = "idle" /\ UNCHANGED <<hist, now>>
  BY DEF Receive, Others
<1>3. CASE Answer(Failed(401))
  BY <1>1, <1>3, AnsweredWithout DEF Failed
<1>4. CASE Answer(Failed(400))
  BY <1>1, <1>4, AnsweredWithout DEF Failed
<1>5. ASSUME NEW q \in Requests, NEW h, pc' = "count", req' = q, got' = [began |-> now, headers |-> h],
             reply' = NoReply, rows' = rows
      PROVE  ReadInv'
  <2>1. /\ pc' = "count" /\ req' = q /\ got' = [began |-> now, headers |-> h]
        /\ reply' = NoReply /\ rows' = rows
    BY <1>5
  <2>2. rows = <<>>
    BY <1>1 DEF ReadInv, RowsMade
  <2>3. Moment' /\ TotalRead'
    <3>1. now \in Nat \ {0}
      BY <1>1, HistoriesAssumption DEF ReadInv, Moment
    <3>2. "began" \in DOMAIN got' /\ got'.began = now
      BY <2>1
    <3> QED  BY <1>1, <2>1, <3>1, <3>2 DEF ReadInv, Moment, TotalRead
  <2>4. ~ HasList' /\ ~ HasInvoices' /\ ~ HasOperations' /\ ~ HasAmounts' /\ ~ HasLinks'
        /\ ~ HasClosings' /\ ~ HasPayments' /\ pc' # "reply" /\ pc' # "rows"
    BY <2>1 DEF HasList, HasInvoices, HasOperations, HasAmounts, HasLinks, HasClosings,
      HasPayments
  <2>5. RowsMade'
    BY <2>1, <2>2, <2>4, NoRowsYet DEF ReadInv
  <2>6. ReplySound'
    BY <2>1 DEF ReplySound, Answered, NoReply
  <2> QED
    BY <2>3, <2>4, <2>5, <2>6 DEF ReadInv, ListRead, InvoicesRead, OperationsRead,
      AmountsRead, LinksRead, ClosingsRead, PaymentsRead
<1> QED  BY <1>3, <1>4, <1>5, ReceiveTakes

\* The page has the rows that were made, and says whether they are of one moment.
LEMMA PageSound ==
  ASSUME ReadInv, pc = "reply", reply' = Page200, UNCHANGED <<hist, now>>
  PROVE  ReplySound'
<1>1. reply'.items = rows /\ reply'.at = now /\ reply'.unedited = Unedited
  BY DEF Page200, Unedited
<1>2. /\ Len(rows) = Len(got.list) /\ Len(rows) \in Nat /\ DOMAIN rows = 1..Len(rows)
      /\ got.list \in Seq({got.list[i] : i \in DOMAIN got.list})
      /\ \A k \in DOMAIN rows :
           /\ rows[k].spec = got.list[k].id /\ RowMade(rows[k])
           /\ Unedited => RowOf(db, Ids, rows[k])
  BY DEF ReadInv, RowsMade, ListRead
<1>3. DOMAIN got.list = DOMAIN rows
  BY <1>2, LenProperties
<1>4. {rows[k].spec : k \in DOMAIN rows} = Ids
  BY <1>2, <1>3 DEF Ids
<1>5. Shown' = Ids /\ ErpThen' = db
  BY <1>1, <1>4 DEF Shown, ErpThen, db
<1>6. reply'.at \in 1..Len(Histories[hist'])
  BY <1>1 DEF ReadInv, Moment
<1> QED  BY <1>1, <1>2, <1>5, <1>6 DEF ReplySound

LEMMA FinishKeeps == ASSUME ReadInv, Finish PROVE ReadInv'
<1>1. pc = "reply" /\ UNCHANGED <<hist, now>>
  BY DEF Finish, Others
<1>2. CASE req.xlsx /\ RequestContext(got.headers) = Refused
  <2>1. Answer(Failed(401))
    BY <1>2 DEF Finish
  <2> QED  BY <1>1, <2>1, AnsweredWithout DEF Failed
<1>3. CASE ~ (req.xlsx /\ RequestContext(got.headers) = Refused)
  <2>1. Answer(Page200)
    BY <1>3 DEF Finish
  <2>2. reply' = Page200
    BY <2>1 DEF Answer
  <2> QED  BY <1>1, <2>1, <2>2, PageSound, AnsweredKeeps
<1> QED  BY <1>2, <1>3

LEMMA OthersKeep ==
  ASSUME ReadInv, QueryFails \/ Search \/ Restart PROVE ReadInv'
<1>1. CASE QueryFails
  BY <1>1, AnsweredWithout DEF QueryFails, Others, Failed
<1>2. CASE Search
  <2>1. PICK r : Answer(r) /\ "items" \notin DOMAIN r
    <3>1. PICK q \in Searches, h \in Headers :
            Answer(IF RequestContext(h) = Refused THEN Failed(401)
                   ELSE [status |-> 200, context |-> RequestContext(h), found |-> Found(q)])
      BY <1>2 DEF Search
    <3> HIDE DEF Answer
    <3> QED  BY <3>1 DEF Failed
  <2> QED  BY <1>2, <2>1, AnsweredWithout DEF Search, Others
<1>3. CASE Restart
  BY <1>3, AnsweredWithout DEF Restart, NoReply
<1> QED  BY <1>1, <1>2, <1>3

LEMMA SessionKeeps ==
  ASSUME ReadInv, UNCHANGED <<hist, now, pc, requestVars>> PROVE ReadInv'
<1>1. hist' = hist /\ now' = now /\ pc' = pc /\ req' = req /\ got' = got /\ rows' = rows
      /\ reply' = reply
  BY DEF requestVars
<1>2. /\ HasList' = HasList /\ HasInvoices' = HasInvoices /\ HasOperations' = HasOperations
      /\ HasAmounts' = HasAmounts /\ HasLinks' = HasLinks /\ HasClosings' = HasClosings
      /\ HasPayments' = HasPayments
  BY <1>1 DEF HasList, HasInvoices, HasOperations, HasAmounts, HasLinks, HasClosings,
    HasPayments
<1>3. db' = db /\ Ids' = Ids /\ OperIds' = OperIds /\ Unedited' = Unedited
  BY <1>1 DEF db, Ids, OperIds, Unedited
<1>4. Moment' /\ TotalRead' /\ ListRead'
  BY <1>1, <1>2 DEF ReadInv, Moment, TotalRead, ListRead
<1>5. /\ InvoicesRead' /\ OperationsRead' /\ AmountsRead' /\ LinksRead' /\ ClosingsRead'
      /\ PaymentsRead'
  BY <1>1, <1>2, <1>3 DEF ReadInv, InvoicesRead, OperationsRead, AmountsRead, LinksRead,
    ClosingsRead, PaymentsRead
<1>6. RowsMade'
  BY <1>1, <1>3 DEF ReadInv, RowsMade
<1>7. ReplySound'
  BY <1>1, ReplyKept DEF ReadInv
<1> QED  BY <1>4, <1>5, <1>6, <1>7 DEF ReadInv

\* Work in the ERP makes what is in hand a thing of the past.
LEMMA EditKeeps == ASSUME ReadInv, Edit PROVE ReadInv'
<1>1. now' = now + 1 /\ now < Len(Histories[hist]) /\ UNCHANGED <<hist, pc, req, got, rows, reply>>
  BY DEF Edit, requestVars
<1>2. now \in Nat /\ Len(Histories[hist]) \in Nat
  BY HistoriesAssumption DEF ReadInv, Moment
<1>3. /\ HasList' = HasList /\ HasInvoices' = HasInvoices /\ HasOperations' = HasOperations
      /\ HasAmounts' = HasAmounts /\ HasLinks' = HasLinks /\ HasClosings' = HasClosings
      /\ HasPayments' = HasPayments
  BY <1>1 DEF HasList, HasInvoices, HasOperations, HasAmounts, HasLinks, HasClosings,
    HasPayments
<1>4. Moment' /\ TotalRead' /\ ListRead'
  BY <1>1, <1>2, <1>3 DEF ReadInv, Moment, TotalRead, ListRead
<1>5. pc # "idle" => ~ Unedited'
  BY <1>1, <1>2 DEF ReadInv, Moment, Unedited
<1>6. /\ InvoicesRead' /\ OperationsRead' /\ AmountsRead' /\ LinksRead' /\ ClosingsRead'
      /\ PaymentsRead'
  <2>1. HasList \/ HasInvoices \/ HasOperations \/ HasAmounts \/ HasLinks \/ HasClosings
          \/ HasPayments => pc # "idle"
    BY DEF HasList, HasInvoices, HasOperations, HasAmounts, HasLinks, HasClosings,
      HasPayments
  <2> QED
    BY <1>1, <1>3, <1>5, <2>1 DEF ReadInv, InvoicesRead, OperationsRead, AmountsRead,
      LinksRead, ClosingsRead, PaymentsRead
<1>7. RowsMade'
  <2>1. CASE pc = "idle"
    <3>1. rows = <<>>
      BY <2>1 DEF ReadInv, RowsMade
    <3> QED  BY <1>1, <2>1, <3>1, NoRowsYet DEF ReadInv
  <2>2. CASE pc # "idle"
    BY <1>1, <1>5, <2>2 DEF ReadInv, RowsMade
  <2> QED  BY <2>1, <2>2
<1>8. ReplySound'
  BY <1>1, ReplyKept DEF ReadInv
<1> QED  BY <1>4, <1>6, <1>7, <1>8 DEF ReadInv

LEMMA ReadStepInv == ReadInv /\ [Next]_vars => ReadInv'
<1> SUFFICES ASSUME ReadInv, [Next]_vars PROVE ReadInv'
  OBVIOUS
<1>1. CASE Receive \/ Count \/ Totals \/ List \/ Invoices \/ Operations \/ AmountsOf
  BY <1>1, ReceiveKeeps, CountKeeps, TotalsKeeps, ListKeeps, InvoicesKeeps,
    OperationsKeeps, AmountsKeep
<1>2. CASE Links \/ Closings \/ Payments \/ MakeRow \/ Finish \/ QueryFails
             \/ Search \/ Edit \/ Restart
  BY <1>2, LinksKeep, ClosingsKeep, PaymentsKeep, MakeRowKeeps, FinishKeeps, OthersKeep,
    EditKeeps
<1>3. CASE SessionStep \/ UNCHANGED vars
  <2>1. UNCHANGED <<hist, now, pc, requestVars>>
    BY <1>3 DEF SessionStep, vars
  <2> QED  BY <2>1, SessionKeeps
<1> QED  BY <1>1, <1>2, <1>3 DEF Next

-----------------------------------------------------------------------------
(* The first value that is given                                             *)

LEMMA FirstGiven ==
  ASSUME NEW values, NEW none, DOMAIN values \in SUBSET Nat,
         NEW i \in DOMAIN values, values[i] # none
  PROVE  \E j \in DOMAIN values :
           /\ values[j] # none /\ \A k \in DOMAIN values : k < j => values[k] = none
           /\ FirstOf(values, none) = values[j]
<1> DEFINE given == {k \in DOMAIN values : values[k] # none}
<1>1. given \in SUBSET Nat /\ given # {}
  OBVIOUS
<1>2. Min(given) \in given /\ \A k \in given : Min(given) <= k
  BY <1>1, LeastNumber DEF Min
<1>3. FirstOf(values, none) = values[Min(given)]
  BY <1>1 DEF FirstOf
<1>4. ASSUME NEW k \in DOMAIN values, k < Min(given) PROVE values[k] = none
  BY <1>1, <1>2, <1>4
<1> QED  BY <1>2, <1>3, <1>4

LEMMA NoneGiven ==
  ASSUME NEW values, NEW none, \A k \in DOMAIN values : values[k] = none
  PROVE  FirstOf(values, none) = none
BY DEF FirstOf

LEMMA FirstOfTwo ==
  ASSUME NEW a, NEW b, NEW none
  PROVE  FirstOf(<<a, b>>, none) = IF a # none THEN a ELSE b
<1> DEFINE s == <<a, b>>
<1>1. DOMAIN s = {1, 2} /\ s[1] = a /\ s[2] = b
  OBVIOUS
<1> HIDE DEF s
<1>2. CASE \E i \in DOMAIN s : s[i] # none
  <2>1. PICK j \in DOMAIN s :
          /\ s[j] # none /\ \A k \in DOMAIN s : k < j => s[k] = none
          /\ FirstOf(s, none) = s[j]
    BY <1>1, <1>2, FirstGiven
  <2> QED  BY <1>1, <2>1 DEF s
<1>3. CASE \A i \in DOMAIN s : s[i] = none
  BY <1>1, <1>3, NoneGiven DEF s
<1> QED  BY <1>2, <1>3

LEMMA FirstOfThree ==
  ASSUME NEW a, NEW b, NEW c, NEW none
  PROVE  LET first == FirstOf(<<a, b, c>>, none) IN
           /\ a # none => first = a
           /\ (a = none /\ b # none) => first = b
           /\ (a = none /\ b = none) => first = c
<1> DEFINE s == <<a, b, c>>
<1>1. DOMAIN s = {1, 2, 3} /\ s[1] = a /\ s[2] = b /\ s[3] = c
  OBVIOUS
<1> HIDE DEF s
<1>2. CASE \E i \in DOMAIN s : s[i] # none
  <2>1. PICK j \in DOMAIN s :
          /\ s[j] # none /\ \A k \in DOMAIN s : k < j => s[k] = none
          /\ FirstOf(s, none) = s[j]
    BY <1>1, <1>2, FirstGiven
  <2> QED  BY <1>1, <2>1 DEF s
<1>3. CASE \A i \in DOMAIN s : s[i] = none
  BY <1>1, <1>3, NoneGiven DEF s
<1> QED  BY <1>2, <1>3

LEMMA FirstOfFour ==
  ASSUME NEW a, NEW b, NEW c, NEW d, NEW none
  PROVE  LET first == FirstOf(<<a, b, c, d>>, none) IN
           /\ a # none => first = a
           /\ (a = none /\ b # none) => first = b
           /\ (a = none /\ b = none /\ c # none) => first = c
           /\ (a = none /\ b = none /\ c = none) => first = d
<1> DEFINE s == <<a, b, c, d>>
<1>1. DOMAIN s = {1, 2, 3, 4} /\ s[1] = a /\ s[2] = b /\ s[3] = c /\ s[4] = d
  OBVIOUS
<1> HIDE DEF s
<1>2. CASE \E i \in DOMAIN s : s[i] # none
  <2>1. PICK j \in DOMAIN s :
          /\ s[j] # none /\ \A k \in DOMAIN s : k < j => s[k] = none
          /\ FirstOf(s, none) = s[j]
    BY <1>1, <1>2, FirstGiven
  <2> QED  BY <1>1, <2>1 DEF s
<1>3. CASE \A i \in DOMAIN s : s[i] = none
  BY <1>1, <1>3, NoneGiven DEF s
<1> QED  BY <1>2, <1>3

-----------------------------------------------------------------------------
(* Payments                                                                  *)

LEMMA OrderIsNumbered ==
  ASSUME NEW docs, IsFiniteSet(docs), NEW order \in Orders(docs)
  PROVE  \E n \in Nat : DOMAIN order = 1..n
<1> DEFINE invoices == {d \in docs : d.kind = "customer_invoice"}
           real == {d \in invoices : d.source # 0}
<1> DEFINE A == SetToSeqs(real)
           B == SetToSeqs(invoices \ real)
<1>1. PICK p \in A, q \in B : order = p \o q
  <2>1. order \in {e[1] \o e[2] : e \in A \X B}
    BY DEF Orders
  <2> HIDE DEF A, B
  <2>2. PICK e \in A \X B : order = e[1] \o e[2]
    BY <2>1
  <2> QED  BY <2>2
<1>2. IsFiniteSet(real) /\ IsFiniteSet(invoices \ real)
  BY FS_Subset
<1>3. Cardinality(real) \in Nat /\ Cardinality(invoices \ real) \in Nat
  BY <1>2, FS_CardinalityType
<1>4. p \in [1..Cardinality(real) -> real]
  BY <1>1 DEF SetToSeqs
<1>5. q \in [1..Cardinality(invoices \ real) -> invoices \ real]
  BY <1>1 DEF SetToSeqs
<1>6. real \subseteq docs /\ invoices \ real \subseteq docs
  OBVIOUS
<1> HIDE DEF real, invoices
<1>7. p \in Seq(docs) /\ q \in Seq(docs)
  <2> DEFINE rest == invoices \ real
  <2> HIDE DEF rest
  <2>1. p \in [1..Cardinality(real) -> docs] /\ q \in [1..Cardinality(rest) -> docs]
    BY <1>4, <1>5, <1>6 DEF rest
  <2> QED  BY <1>3, <2>1, SeqDef DEF rest
<1>8. order \in Seq(docs)
  BY <1>1, <1>7, ConcatProperties
<1> QED  BY <1>8, LenProperties

LEMMA PaymentsShownOnce == ReadInv => PaymentShownOnce
<1> SUFFICES ASSUME ReadInv, NEW r \in Rows, NEW i \in DOMAIN r.invoices,
                    NEW j \in DOMAIN r.invoices, i # j
             PROVE  r.invoices[i].opers \cap r.invoices[j].opers = {}
  BY DEF PaymentShownOnce
<1>1. PICK k \in DOMAIN reply.items : r = reply.items[k] /\ Answered
  BY DEF Rows, ToSet
<1>2. RowMade(r)
  BY <1>1 DEF ReadInv, ReplySound
<1>3. PICK order \in Orders(r.documents) :
        r.invoices = [m \in DOMAIN order |-> InvoiceCell(r.documents, order, m)]
  BY <1>2 DEF RowMade
<1>4. PICK n \in Nat : DOMAIN order = 1..n
  BY <1>2, OrderIsNumbered DEF RowMade
<1>5. ASSUME NEW a \in DOMAIN order, NEW b \in DOMAIN order, a < b,
             NEW o, o \in r.invoices[a].opers, o \in r.invoices[b].opers
      PROVE  FALSE
  <2>1. o \in TakenBy(r.documents, order, a) /\ o \in TakenBy(r.documents, order, b)
    BY <1>3, <1>5 DEF InvoiceCell
  <2>2. a \in 1..(b - 1)
    BY <1>4, <1>5
  <2> QED  BY <2>1, <2>2 DEF TakenBy
<1>6. i \in DOMAIN order /\ j \in DOMAIN order /\ (i < j \/ j < i)
  BY <1>3, <1>4
<1> QED  BY <1>5, <1>6

-----------------------------------------------------------------------------
(* Closing documents                                                         *)

\* The aggregate of an act is the one that the act names.
LEMMA MainAktIsNamed ==
  ASSUME NEW d, IsDatabase(d), NEW a \in d.akts
  PROVE  LET main == MainAkt(d, a) IN
           \/ main = NoAkt
           \/ main \in d.akts /\ main.id = a.mainakt /\ main.id # 0 /\ main.id \in Nat
<1> DEFINE main == MainAkt(d, a)
<1>1. CASE a.mainakt # 0 /\ ById(d.akts, a.mainakt) # {}
  <2>1. main = CHOOSE m \in d.akts : m.id = a.mainakt
    BY <1>1 DEF MainAkt
  <2>2. \E m \in d.akts : m.id = a.mainakt
    BY <1>1 DEF ById
  <2>3. main \in d.akts /\ main.id = a.mainakt
    BY <2>1, <2>2
  <2> QED  BY <1>1, <2>3 DEF IsDatabase, Keyed
<1>2. CASE ~ (a.mainakt # 0 /\ ById(d.akts, a.mainakt) # {})
  BY <1>2 DEF MainAkt
<1> QED  BY <1>1, <1>2

\* Where a row of the query comes from.
LEMMA ClosingRowOfAct ==
  ASSUME NEW d, NEW ids, NEW c \in ClosingRows(d, ids)
  PROVE  c.oper \in ids /\ \E a \in d.akts : \E sum, via : c = ClosingRow(d, c.oper, a, sum, via)
<1> DEFINE owners == {b \in d.akts : b.oper \in ids \ {0}}
           named == {q \in d.aktOpers \X d.akts : /\ q[2].id = q[1].akt
                                                  /\ q[1].oper \in ids
                                                  /\ q[2].oper # q[1].oper}
<1>1. CASE c \in {ClosingRow(d, a.oper, a, a.sum, 0) : a \in owners}
  <2>1. PICK a \in owners : c = ClosingRow(d, a.oper, a, a.sum, 0)
    BY <1>1
  <2>2. c.oper = a.oper
    BY <2>1 DEF ClosingRow
  <2> QED  BY <2>1, <2>2
<1>2. CASE c \in {ClosingRow(d, p[1].oper, p[2], p[1].sum, p[1].id) : p \in named}
  <2>1. PICK p \in named : c = ClosingRow(d, p[1].oper, p[2], p[1].sum, p[1].id)
    BY <1>2
  <2>2. c.oper = p[1].oper
    BY <2>1 DEF ClosingRow
  <2> QED  BY <2>1, <2>2
<1> QED  BY <1>1, <1>2 DEF ClosingRows

\* The rows for some of the operations are those of all that are about these.
LEMMA ClosingRowsOfSome ==
  ASSUME NEW d, NEW ids, NEW some \in SUBSET ids
  PROVE  ClosingRows(d, some) = {c \in ClosingRows(d, ids) : c.oper \in some}
<1> DEFINE owners(I) == {b \in d.akts : b.oper \in I \ {0}}
           named(I) == {q \in d.aktOpers \X d.akts : /\ q[2].id = q[1].akt
                                                  /\ q[1].oper \in I
                                                  /\ q[2].oper # q[1].oper}
           first(I) == {ClosingRow(d, a.oper, a, a.sum, 0) : a \in owners(I)}
           second(I) == {ClosingRow(d, p[1].oper, p[2], p[1].sum, p[1].id) : p \in named(I)}
<1>1. \A I : ClosingRows(d, I) = first(I) \cup second(I)
  BY DEF ClosingRows
<1>2. \A o, a, sum, via : ClosingRow(d, o, a, sum, via).oper = o
  BY DEF ClosingRow
<1>3. ASSUME NEW c, c \in first(some) PROVE c \in first(ids) /\ c.oper \in some
  <2>1. PICK a \in owners(some) : c = ClosingRow(d, a.oper, a, a.sum, 0)
    BY <1>3
  <2> QED  BY <1>2, <2>1
<1>4. ASSUME NEW c, c \in second(some) PROVE c \in second(ids) /\ c.oper \in some
  <2>1. PICK p \in named(some) : c = ClosingRow(d, p[1].oper, p[2], p[1].sum, p[1].id)
    BY <1>4
  <2>2. p \in named(ids)
    OBVIOUS
  <2> QED  BY <1>2, <2>1, <2>2
<1>5. ASSUME NEW c, c \in first(ids), c.oper \in some PROVE c \in first(some)
  <2>1. PICK a \in owners(ids) : c = ClosingRow(d, a.oper, a, a.sum, 0)
    BY <1>5
  <2> QED  BY <1>2, <1>5, <2>1
<1>6. ASSUME NEW c, c \in second(ids), c.oper \in some PROVE c \in second(some)
  <2>1. PICK p \in named(ids) : c = ClosingRow(d, p[1].oper, p[2], p[1].sum, p[1].id)
    BY <1>6
  <2>2. p \in named(some)
    BY <1>2, <1>6, <2>1
  <2> QED  BY <2>1, <2>2
<1> HIDE DEF first, second
<1> QED  BY <1>1, <1>3, <1>4, <1>5, <1>6

\* The source of a row and, for an aggregate, its act.
LEMMA ClosingRowSource ==
  ASSUME NEW d, IsDatabase(d), NEW ids, NEW c \in ClosingRows(d, ids)
  PROVE  /\ c.source # 0 /\ c.oper \in ids
         /\ c.aggregate => \E a \in d.akts : a.id = c.akt /\ a.mainakt = c.source
<1>0. PICK a \in d.akts : \E sum, via : c = ClosingRow(d, c.oper, a, sum, via)
  BY ClosingRowOfAct
<1>1. PICK sum, via : c = ClosingRow(d, c.oper, a, sum, via)
  BY <1>0
<1> DEFINE main == MainAkt(d, a)
<1>2. /\ c.source = FirstOf(<<main.id, a.id>>, 0) /\ c.akt = a.id
      /\ c.aggregate = (main.id # 0)
  <2> DEFINE row == ClosingRow(d, c.oper, a, sum, via)
  <2>1. /\ row.source = FirstOf(<<main.id, a.id>>, 0) /\ row.akt = a.id
        /\ row.aggregate = (main.id # 0)
    BY DEF ClosingRow
  <2> QED  BY <1>1, <2>1
<1>3. a.id # 0
  BY DEF IsDatabase, Keyed
<1>4. c.source = IF main.id # 0 THEN main.id ELSE a.id
  BY <1>2, FirstOfTwo
<1>5. main.id = 0 \/ main.id = a.mainakt
  <2>1. NoAkt.id = 0
    BY DEF NoAkt
  <2>2. main = NoAkt \/ (main \in d.akts /\ main.id = a.mainakt)
    BY MainAktIsNamed
  <2> HIDE DEF main
  <2> QED  BY <2>1, <2>2
<1> QED  BY <1>2, <1>3, <1>4, <1>5, ClosingRowOfAct

\* Some row stays for every operation and kind that has one.
LEMMA AggregatesStand ==
  ASSUME NEW all, NEW c \in all
  PROVE  \E k \in PreferAggregateRows(all) :
           /\ k.oper = c.oper /\ k.kind = c.kind /\ k \in all
           /\ k = c \/ k.aggregate
<1> DEFINE keys == {<<r.oper, r.kind>> : r \in {x \in all : x.aggregate}}
<1>1. PreferAggregateRows(all) = {r \in all : r.aggregate \/ <<r.oper, r.kind>> \notin keys}
  BY DEF PreferAggregateRows
<1>2. CASE <<c.oper, c.kind>> \in keys
  <2>1. PICK k \in {x \in all : x.aggregate} : <<c.oper, c.kind>> = <<k.oper, k.kind>>
    BY <1>2
  <2> QED  BY <1>1, <2>1
<1>3. CASE <<c.oper, c.kind>> \notin keys
  BY <1>1, <1>3
<1> QED  BY <1>2, <1>3

\* What a read makes of a row for an operation that closes it.
LEMMA ClosingIsDocument ==
  ASSUME NEW ops, NEW amounts, NEW links, NEW invoices, NEW closings, NEW payments,
         NEW id, NEW x \in OperationsOf(ops, id), NEW c \in closings, c.oper = x.oper.id
  PROVE  ClosingDocument(x, c)
           \in Documents(ops, amounts, links, invoices, closings, payments, id)
<1>1. ClosingDocument(x, c) \in ClosingDocuments(x, amounts, closings)
  BY DEF ClosingDocuments
<1> QED  BY <1>1 DEF Documents

LEMMA ClosingDocumentFields ==
  ASSUME NEW x, NEW c
  PROVE  LET d == ClosingDocument(x, c) IN
           /\ d.oper = x.oper.id /\ d.kind = c.kind /\ d.source = c.source
           /\ d.via[2] = c.akt /\ d.code = MeaningfulCode(c.code) /\ d.date = c.date
           /\ d.deleted = c.deleted
BY DEF ClosingDocument, Document

LEMMA OperationRowsOfOne ==
  ASSUME NEW d, NEW ids, NEW id \in ids
  PROVE  OperationRows(d, {id}) = OperationsOf(OperationRows(d, ids), id)
BY DEF OperationRows, OperationsOf

LEMMA ReadDocuments ==
  ASSUME NEW d, NEW specIds, NEW id
  PROVE  LET ops == OperationRows(d, specIds)
             ids == {r.oper.id : r \in ops}
         IN ReadAtOnce(d, specIds, id).documents =
              Documents(ops, Amounts(d, ids), InvoiceLinks(d, ids), InvoiceRows(d, specIds),
                PreferAggregateRows(ClosingRows(d, ids)), PaymentRows(d, ids), id)
BY DEF ReadAtOnce

LEMMA ShownRow ==
  ASSUME ReadInv, Untouched, NEW r \in Rows
  PROVE  IsDatabase(ErpThen) /\ RowOf(ErpThen, Shown, r)
<1>1. PICK k \in DOMAIN reply.items : r = reply.items[k]
  BY DEF Rows, Untouched, ToSet
<1>2. IsDatabase(ErpThen)
  BY HistoriesAssumption DEF ReadInv, Moment, ReplySound, Untouched, ErpThen
<1> QED  BY <1>1, <1>2 DEF ReadInv, ReplySound, Untouched

LEMMA ShownDocuments ==
  ASSUME ReadInv, Untouched, NEW r \in Rows
  PROVE  LET ops == OperationRows(ErpThen, Shown)
             ids == {x.oper.id : x \in ops}
         IN r.documents =
              Documents(ops, Amounts(ErpThen, ids), InvoiceLinks(ErpThen, ids),
                InvoiceRows(ErpThen, Shown), PreferAggregateRows(ClosingRows(ErpThen, ids)),
                PaymentRows(ErpThen, ids), r.spec)
<1>1. r.documents = ReadAtOnce(ErpThen, Shown, r.spec).documents
  BY ShownRow DEF RowOf
<1> QED  BY <1>1, ReadDocuments

LEMMA ActsAreShown == ReadInv => ActsShown
<1> SUFFICES ASSUME ReadInv, Untouched, NEW r \in Rows,
                    NEW c \in ClosingRows(ErpThen,
                                {x.oper.id : x \in OperationRows(ErpThen, {r.spec})})
             PROVE  \E d \in r.documents :
                      /\ d.oper = c.oper /\ d.kind = c.kind /\ d.source # 0
                      /\ \/ d.via[2] = c.akt
                         \/ \E a \in ErpThen.akts : a.id = d.via[2] /\ a.mainakt = d.source
  BY DEF ActsShown
<1> DEFINE opers == {x.oper.id : x \in OperationRows(ErpThen, {r.spec})}
           ops == OperationRows(ErpThen, Shown)
           ids == {x.oper.id : x \in ops}
           all == ClosingRows(ErpThen, ids)
           closings == PreferAggregateRows(all)
<1>1. IsDatabase(ErpThen) /\ r.spec \in Shown
  BY ShownRow DEF RowOf
<1>2. OperationRows(ErpThen, {r.spec}) = OperationsOf(ops, r.spec)
  BY <1>1, OperationRowsOfOne
<1>3. opers \subseteq ids
  BY <1>2 DEF OperationsOf
<1>4. c.oper \in opers
  BY ClosingRowOfAct
<1>5. c \in all
  <2> HIDE DEF opers, ids
  <2>1. c \in ClosingRows(ErpThen, opers)
    BY DEF opers
  <2> QED  BY <1>3, <2>1, ClosingRowsOfSome
<1>6. PICK x \in OperationsOf(ops, r.spec) : c.oper = x.oper.id
  BY <1>2, <1>4
<1>7. PICK k \in closings : /\ k.oper = c.oper /\ k.kind = c.kind /\ k \in all
                            /\ k = c \/ k.aggregate
  <2> HIDE DEF all
  <2> QED  BY <1>5, AggregatesStand
<1> DEFINE d == ClosingDocument(x, k)
<1>8. d \in r.documents
  <2>1. r.documents = Documents(ops, Amounts(ErpThen, ids), InvoiceLinks(ErpThen, ids),
                        InvoiceRows(ErpThen, Shown), closings, PaymentRows(ErpThen, ids), r.spec)
    BY ShownDocuments
  <2> HIDE DEF ids, closings, ops
  <2> QED  BY <1>6, <1>7, <2>1, ClosingIsDocument
<1>9. /\ d.oper = c.oper /\ d.kind = c.kind /\ d.source = k.source /\ d.via[2] = k.akt
  BY <1>6, <1>7, ClosingDocumentFields
<1>10. /\ k.source # 0
       /\ k.aggregate => \E a \in ErpThen.akts : a.id = k.akt /\ a.mainakt = k.source
  <2> HIDE DEF ids, closings
  <2> QED  BY <1>1, <1>7, ClosingRowSource
<1> HIDE DEF d
<1> QED  BY <1>7, <1>8, <1>9, <1>10

-----------------------------------------------------------------------------
(* Documents with a code                                                     *)

LEMMA CodeIsMeant == \A code : MeaningfulCode(code) # NoText => MeaningfulCode(code) = code
BY DEF MeaningfulCode

\* A document with a code is an invoice, a closing document or a payment that
\* the ERP has: those that stand for a missing one have none.
LEMMA CodedDocument ==
  ASSUME NEW ops, NEW amounts, NEW links, NEW invoices, NEW closings, NEW payments,
         NEW id, NEW d \in Documents(ops, amounts, links, invoices, closings, payments, id),
         d.code # NoText
  PROVE  \/ \E i \in invoices : d = [i EXCEPT !.code = MeaningfulCode(@)]
         \/ \E x \in OperationsOf(ops, id) : \E c \in closings : d = ClosingDocument(x, c)
         \/ \E p \in payments : /\ d.kind = "payment" /\ d.code = MeaningfulCode(p.code)
                               /\ d.date = p.date /\ d.source = p.source
<1>1. CASE d \in DeliveryInvoices(invoices, id)
  BY <1>1 DEF DeliveryInvoices
<1>2. ASSUME NEW x \in OperationsOf(ops, id), d \in ClosingDocuments(x, amounts, closings)
      PROVE  \E c \in closings : d = ClosingDocument(x, c)
  <2> DEFINE own == {c \in closings : c.oper = x.oper.id}
             stand == Document(x, "sale", Realised(amounts, x.oper.id), ExpectedContract(x))
  <2>1. stand.code = NoText
    BY DEF Document
  <2> HIDE DEF stand
  <2>2. d \in {ClosingDocument(x, c) : c \in own} \/ d = stand
    <3>1. d \in IF own # {} THEN {ClosingDocument(x, c) : c \in own}
                ELSE IF Realised(amounts, x.oper.id) = 0 THEN {} ELSE {stand}
      BY <1>2 DEF ClosingDocuments, stand
    <3> HIDE DEF own
    <3> QED  BY <3>1
  <2> QED  BY <2>1, <2>2
<1>3. ASSUME NEW x \in OperationsOf(ops, id), d \in MissingInvoice(x, amounts, links, invoices)
      PROVE  FALSE
  <2> DEFINE candidates == {i.oper : i \in InvoiceCandidates(x, amounts, invoices)}
             missing == [Document(x, "customer_invoice", Realised(amounts, x.oper.id),
                                  ExpectedContract(x)) EXCEPT !.related = candidates]
  <2>1. d = missing
    BY <1>3 DEF MissingInvoice
  <2>2. missing.code = NoText
    <3> HIDE DEF candidates
    <3> QED  BY DEF Document
  <2> QED  BY <2>1, <2>2
<1>4. ASSUME NEW x \in OperationsOf(ops, id), d \in PaymentDocuments(x, amounts, payments)
      PROVE  \E p \in payments : /\ d.kind = "payment" /\ d.code = MeaningfulCode(p.code)
                                 /\ d.date = p.date /\ d.source = p.source
  <2> DEFINE own == {p \in payments : p.oper = x.oper.id}
             blank == [Document(x, "payment", Paid(amounts, x.oper.id), x.spec.buyer)
                         EXCEPT !.vat = 0, !.vozm = NoText]
             shown(p) == [blank EXCEPT !.code = MeaningfulCode(p.code), !.number = p.number,
                            !.date = p.date, !.amount = p.amount, !.cur = p.cur,
                            !.source = p.source, !.via = <<x.via.id, p.source>>]
  <2>1. blank.code = NoText
    BY DEF Document
  <2>2. \A p : /\ shown(p).kind = "payment" /\ shown(p).code = MeaningfulCode(p.code)
               /\ shown(p).date = p.date /\ shown(p).source = p.source
    BY DEF Document
  <2>3. d = blank \/ \E p \in own : d = shown(p)
    <3>1. d \in IF Paid(amounts, x.oper.id) = 0 THEN {}
                ELSE IF own = {} THEN {blank} ELSE {shown(p) : p \in own}
      BY <1>4 DEF PaymentDocuments
    <3> HIDE DEF own, blank, shown
    <3> QED  BY <3>1
  <2> HIDE DEF blank, shown
  <2> QED  BY <2>1, <2>2, <2>3
<1>5. d \in DeliveryInvoices(invoices, id) \/ \E x \in OperationsOf(ops, id) :
        \/ d \in ClosingDocuments(x, amounts, closings)
        \/ d \in MissingInvoice(x, amounts, links, invoices)
        \/ d \in PaymentDocuments(x, amounts, payments)
  BY DEF Documents
<1> QED  BY <1>1, <1>2, <1>3, <1>4, <1>5

\* An act is found by its code and date unless only its aggregate has them.
LEMMA ActIsFound ==
  ASSUME NEW d, IsDatabase(d), NEW a \in d.akts,
         a.mainakt # 0 => a.code = NoText /\ a.dt1c = 0 /\ MainAkt(d, a).code # NoText,
         NEW o, NEW sum, NEW via, NEW c, c = ClosingRow(d, o, a, sum, via),
         c.code # NoText, ~ c.deleted
  PROVE  c.kind \in {"purchase", "sale"} /\ ClosingExists(d, c.code, c.date, c.kind)
<1> DEFINE main == MainAkt(d, a)
           number == IF main.dt1c # 0 THEN main.num ELSE NoText
<1>1. /\ c.kind = AktKind(a)
      /\ c.code = FirstOf(<<main.code, a.code, number>>, NoText)
      /\ c.date = FirstOf(<<main.dt1c, a.dt1c, main.dt, a.dt>>, 0)
      /\ c.deleted = (a.status = 9 \/ main.status = 9)
  BY DEF ClosingRow
<1>2. \/ /\ main.code = NoText /\ main.dt1c = 0 /\ main.dt = 0
      \/ a.mainakt # 0
  <2>1. NoAkt.code = NoText /\ NoAkt.dt1c = 0 /\ NoAkt.dt = 0
    BY DEF NoAkt
  <2>2. main = NoAkt \/ a.mainakt # 0
    BY DEF MainAkt
  <2> HIDE DEF main
  <2> QED  BY <2>1, <2>2
<1> HIDE DEF main, number
<1>3. /\ main.code # NoText => c.code = main.code
      /\ (main.code = NoText /\ a.code # NoText) => c.code = a.code
      /\ (main.code = NoText /\ a.code = NoText) => c.code = number
  BY <1>1, FirstOfThree
<1>4. /\ main.dt1c # 0 => c.date = main.dt1c
      /\ (main.dt1c = 0 /\ a.dt1c # 0) => c.date = a.dt1c
      /\ (main.dt1c = 0 /\ a.dt1c = 0 /\ main.dt # 0) => c.date = main.dt
      /\ (main.dt1c = 0 /\ a.dt1c = 0 /\ main.dt = 0) => c.date = a.dt
  BY <1>1, FirstOfFour
<1>5. FirstOf(<<a.code, main.code>>, NoText) = c.code
  <2>1. FirstOf(<<a.code, main.code>>, NoText) = IF a.code # NoText THEN a.code ELSE main.code
    BY FirstOfTwo
  <2>2. number = NoText \/ a.mainakt # 0
    BY <1>2 DEF number
  <2>3. a.mainakt # 0 => a.code = NoText /\ main.code # NoText
    BY DEF main
  <2> QED  BY <1>2, <1>3, <2>1, <2>2, <2>3
<1>6. FirstOf(<<a.dt1c, main.dt1c, main.dt, a.dt>>, 0) = c.date
  <2> DEFINE first == FirstOf(<<a.dt1c, main.dt1c, main.dt, a.dt>>, 0)
  <2>1. /\ a.dt1c # 0 => first = a.dt1c
        /\ (a.dt1c = 0 /\ main.dt1c # 0) => first = main.dt1c
        /\ (a.dt1c = 0 /\ main.dt1c = 0 /\ main.dt # 0) => first = main.dt
        /\ (a.dt1c = 0 /\ main.dt1c = 0 /\ main.dt = 0) => first = a.dt
    BY FirstOfFour
  <2>2. a.mainakt # 0 => a.dt1c = 0
    OBVIOUS
  <2> HIDE DEF first
  <2>3. first = c.date
    BY <1>2, <1>4, <2>1, <2>2
  <2> QED  BY <2>3 DEF first
<1>7. a.status # 9
  BY <1>1
<1> QED  BY <1>1, <1>5, <1>6, <1>7 DEF ClosingExists, AktKind, main

LEMMA InvoiceIsFound ==
  ASSUME NEW db0, NEW ids, NEW i \in InvoiceRows(db0, ids), ~ i.deleted
  PROVE  i.kind = "customer_invoice" /\ InvoiceExists(db0, i.code, i.date)
<1>1. PICK q \in db0.specs \X db0.schets : i = InvoiceRow(db0, q[1], q[2])
  BY DEF InvoiceRows
<1>2. /\ i.kind = "customer_invoice" /\ i.code = q[2].code /\ i.date = q[2].dt
      /\ i.deleted = (q[2].status = 9)
  BY <1>1 DEF InvoiceRow
<1> QED  BY <1>2 DEF InvoiceExists

LEMMA PaymentIsFound ==
  ASSUME NEW db0, NEW ids, NEW p \in PaymentRows(db0, ids),
         \A h \in ById(db0.acchist, p.source) : h.ppdt = p.date
  PROVE  PaymentExists(db0, p.code, p.date)
<1> DEFINE sum(q) == SumFunction([a \in {x \in db0.allocs : x.hist = q[2].id /\ x.oper = q[1]}
                                   |-> a.sum])
           row(q) == [oper |-> q[1], code |-> q[2].code, number |-> q[2].num,
                      date |-> PaymentDate(q[2]), cur |-> q[2].val, source |-> q[2].id,
                      amount |-> sum(q)]
           paid == {q \in ids \X db0.acchist :
                      \E a \in db0.allocs : a.hist = q[2].id /\ a.oper = q[1]}
<1>1. PICK q \in ids \X db0.acchist : p.code = q[2].code /\ p.source = q[2].id
  <2>1. p \in {row(q) : q \in paid}
    BY DEF PaymentRows
  <2>2. \A q : row(q).code = q[2].code /\ row(q).source = q[2].id
    OBVIOUS
  <2> HIDE DEF row
  <2>3. PICK q \in paid : p = row(q)
    BY <2>1
  <2> QED  BY <2>2, <2>3
<1>2. q[2].ppdt = p.date
  BY <1>1 DEF ById
<1> QED  BY <1>1, <1>2 DEF PaymentExists

LEMMA ListedAreFound == ReadInv => ListedIsFound
<1> SUFFICES ASSUME ReadInv, Untouched, NEW r \in Rows, NEW d \in r.documents,
                    d.code # NoText, d.date # 0, ~ d.deleted, SameColumns(d)
             PROVE  ExistsGlobally(ErpThen, d.kind, d.code, d.date)
  BY DEF ListedIsFound
<1> DEFINE ops == OperationRows(ErpThen, Shown)
           ids == {x.oper.id : x \in ops}
           invoices == InvoiceRows(ErpThen, Shown)
           closings == PreferAggregateRows(ClosingRows(ErpThen, ids))
           payments == PaymentRows(ErpThen, ids)
<1>1. IsDatabase(ErpThen)
  BY ShownRow
<1>2. \/ \E i \in invoices : d = [i EXCEPT !.code = MeaningfulCode(@)]
      \/ \E x \in OperationsOf(ops, r.spec) : \E c \in closings : d = ClosingDocument(x, c)
      \/ \E p \in payments : /\ d.kind = "payment" /\ d.code = MeaningfulCode(p.code)
                             /\ d.date = p.date /\ d.source = p.source
  <2>1. r.documents = Documents(ops, Amounts(ErpThen, ids), InvoiceLinks(ErpThen, ids),
                        invoices, closings, payments, r.spec)
    BY ShownDocuments
  <2> HIDE DEF ids, closings, ops, invoices, payments
  <2> QED  BY <2>1, CodedDocument
<1>3. CASE \E i \in invoices : d = [i EXCEPT !.code = MeaningfulCode(@)]
  <2>1. PICK i \in invoices : d = [i EXCEPT !.code = MeaningfulCode(@)]
    BY <1>3
  <2>2. DOMAIN i = DOMAIN d /\ {"code", "date", "kind", "deleted"} \subseteq DOMAIN i
    <3>1. PICK q \in ErpThen.specs \X ErpThen.schets : i = InvoiceRow(ErpThen, q[1], q[2])
      BY DEF InvoiceRows
    <3>2. {"code", "date", "kind", "deleted"} \subseteq DOMAIN InvoiceRow(ErpThen, q[1], q[2])
      BY DEF InvoiceRow
    <3> HIDE DEF invoices
    <3> QED  BY <2>1, <3>1, <3>2
  <2>3. d.code = MeaningfulCode(i.code) /\ d.date = i.date /\ d.kind = i.kind
        /\ d.deleted = i.deleted
    <3> HIDE DEF invoices
    <3> QED  BY <2>1, <2>2
  <2> QED  BY <2>3, CodeIsMeant, InvoiceIsFound DEF ExistsGlobally
<1>4. CASE \E x \in OperationsOf(ops, r.spec) : \E c \in closings : d = ClosingDocument(x, c)
  <2>1. PICK x \in OperationsOf(ops, r.spec), c \in closings : d = ClosingDocument(x, c)
    BY <1>4
  <2>2. /\ d.kind = c.kind /\ d.via[2] = c.akt /\ d.code = MeaningfulCode(c.code)
        /\ d.date = c.date /\ d.deleted = c.deleted
    BY <2>1, ClosingDocumentFields
  <2>3. d.code = c.code
    BY <2>2, CodeIsMeant
  <2>4. c \in ClosingRows(ErpThen, ids)
    BY DEF PreferAggregateRows
  <2>0. PICK a \in ErpThen.akts : \E sum, via : c = ClosingRow(ErpThen, c.oper, a, sum, via)
    <3> HIDE DEF ids, closings
    <3> QED  BY <2>4, ClosingRowOfAct
  <2>5. PICK sum, via : c = ClosingRow(ErpThen, c.oper, a, sum, via)
    BY <2>0
  <2>6. c.akt = a.id /\ c.kind = AktKind(a)
    <3> DEFINE row == ClosingRow(ErpThen, c.oper, a, sum, via)
    <3>1. row.akt = a.id /\ row.kind = AktKind(a)
      BY DEF ClosingRow
    <3> QED  BY <2>5, <3>1
  <2>7. d.kind \in {"sale", "purchase"}
    BY <2>2, <2>6 DEF AktKind
  <2>8. a.mainakt # 0 => a.code = NoText /\ a.dt1c = 0 /\ MainAkt(ErpThen, a).code # NoText
    BY <2>2, <2>6, <2>7 DEF SameColumns
  <2>9. ClosingExists(ErpThen, c.code, c.date, c.kind)
    BY <1>1, <2>2, <2>3, <2>5, <2>8, ActIsFound
  <2> QED  BY <2>2, <2>3, <2>7, <2>9 DEF ExistsGlobally
<1>5. CASE \E p \in payments : /\ d.kind = "payment" /\ d.code = MeaningfulCode(p.code)
                               /\ d.date = p.date /\ d.source = p.source
  <2>1. PICK p \in payments : /\ d.kind = "payment" /\ d.code = MeaningfulCode(p.code)
                              /\ d.date = p.date /\ d.source = p.source
    BY <1>5
  <2>2. \A h \in ById(ErpThen.acchist, p.source) : h.ppdt = p.date
    BY <2>1 DEF SameColumns
  <2>3. PaymentExists(ErpThen, p.code, p.date)
    BY <2>2, PaymentIsFound
  <2> QED  BY <2>1, <2>3, CodeIsMeant DEF ExistsGlobally
<1> QED  BY <1>2, <1>3, <1>4, <1>5

-----------------------------------------------------------------------------
(* A page and a single read                                                  *)

LEMMA InvoiceRowsOfOne ==
  ASSUME NEW d, NEW ids, NEW id \in ids
  PROVE  InvoiceRows(d, {id}) = {i \in InvoiceRows(d, ids) : i.spec = id}
<1> DEFINE pairs(I) == {q \in d.specs \X d.schets : /\ q[1].id \in I /\ q[2].spec = q[1].id
                                                   /\ IsCustomerInvoice(q[2])}
           some(I) == {InvoiceRow(d, p[1], p[2]) : p \in pairs(I)}
<1>1. \A I : InvoiceRows(d, I) = some(I)
  BY DEF InvoiceRows
<1>2. \A p, s : InvoiceRow(d, p, s).spec = p.id
  BY DEF InvoiceRow
<1>3. ASSUME NEW i \in some({id}) PROVE i \in some(ids) /\ i.spec = id
  <2>1. PICK p \in pairs({id}) : i = InvoiceRow(d, p[1], p[2])
    OBVIOUS
  <2> QED  BY <1>2, <2>1
<1>4. ASSUME NEW i \in some(ids), i.spec = id PROVE i \in some({id})
  <2>1. PICK p \in pairs(ids) : i = InvoiceRow(d, p[1], p[2])
    OBVIOUS
  <2>2. p \in pairs({id})
    BY <1>2, <1>4, <2>1
  <2> QED  BY <2>1, <2>2
<1> HIDE DEF some
<1> QED  BY <1>1, <1>3, <1>4

LEMMA PaymentRowsOfSome ==
  ASSUME NEW d, NEW ids, NEW some \in SUBSET ids
  PROVE  PaymentRows(d, some) = {p \in PaymentRows(d, ids) : p.oper \in some}
<1> DEFINE pairs(I) == {q \in I \X d.acchist :
                          \E a \in d.allocs : a.hist = q[2].id /\ a.oper = q[1]}
           row(p) == [oper |-> p[1], code |-> p[2].code, number |-> p[2].num,
                      date |-> PaymentDate(p[2]), cur |-> p[2].val, source |-> p[2].id,
                      amount |-> SumFunction(
                        [a \in {x \in d.allocs : x.hist = p[2].id /\ x.oper = p[1]} |-> a.sum])]
<1>1. \A I : PaymentRows(d, I) = {row(p) : p \in pairs(I)}
  BY DEF PaymentRows
<1>2. \A p : row(p).oper = p[1]
  OBVIOUS
<1> HIDE DEF row
<1>3. ASSUME NEW p, p \in PaymentRows(d, some) PROVE p \in PaymentRows(d, ids) /\ p.oper \in some
  <2>1. PICK q \in pairs(some) : p = row(q)
    BY <1>1, <1>3
  <2>2. q \in pairs(ids) /\ q[1] \in some
    OBVIOUS
  <2> QED  BY <1>1, <1>2, <2>1, <2>2
<1>4. ASSUME NEW p, p \in PaymentRows(d, ids), p.oper \in some PROVE p \in PaymentRows(d, some)
  <2>1. PICK q \in pairs(ids) : p = row(q)
    BY <1>1, <1>4
  <2>2. q \in pairs(some)
    BY <1>2, <1>4, <2>1
  <2> QED  BY <1>1, <2>1, <2>2
<1> QED  BY <1>3, <1>4

LEMMA PreferenceOfSome ==
  ASSUME NEW all, NEW some
  PROVE  PreferAggregateRows({c \in all : c.oper \in some})
           = {c \in PreferAggregateRows(all) : c.oper \in some}
<1> DEFINE part == {c \in all : c.oper \in some}
           keys(R) == {<<r.oper, r.kind>> : r \in {x \in R : x.aggregate}}
<1>1. \A R : PreferAggregateRows(R) = {r \in R : r.aggregate \/ <<r.oper, r.kind>> \notin keys(R)}
  BY DEF PreferAggregateRows
<1>2. ASSUME NEW c \in part PROVE <<c.oper, c.kind>> \in keys(part) <=> <<c.oper, c.kind>> \in keys(all)
  OBVIOUS
<1> HIDE DEF keys
<1> QED  BY <1>1, <1>2

LEMMA AmountsOfOne ==
  ASSUME NEW amounts, NEW others, NEW o, ById(amounts, o) = ById(others, o)
  PROVE  Paid(amounts, o) = Paid(others, o) /\ Realised(amounts, o) = Realised(others, o)
BY DEF Paid, Realised

\* What an operation brings to the documents and the sums of its delivery
\* depends on the rows that are about it.
LEMMA OperationAlone ==
  ASSUME NEW x, NEW amounts, NEW amounts1,
         ById(amounts, x.oper.id) = ById(amounts1, x.oper.id),
         NEW closings, NEW closings1,
         \A c : c.oper = x.oper.id => (c \in closings <=> c \in closings1),
         NEW payments, NEW payments1,
         \A p : p.oper = x.oper.id => (p \in payments <=> p \in payments1),
         NEW links, NEW links1, x.oper.id \in links <=> x.oper.id \in links1,
         NEW invoices, NEW invoices1,
         InvoiceCandidates(x, amounts, invoices) = InvoiceCandidates(x, amounts1, invoices1)
  PROVE  /\ ClosingDocuments(x, amounts, closings) = ClosingDocuments(x, amounts1, closings1)
         /\ MissingInvoice(x, amounts, links, invoices)
              = MissingInvoice(x, amounts1, links1, invoices1)
         /\ PaymentDocuments(x, amounts, payments) = PaymentDocuments(x, amounts1, payments1)
         /\ CountsAsOther(x, closings) <=> CountsAsOther(x, closings1)
<1> DEFINE o == x.oper.id
<1>1. Paid(amounts, o) = Paid(amounts1, o) /\ Realised(amounts, o) = Realised(amounts1, o)
  BY AmountsOfOne
<1>2. ClosingDocuments(x, amounts, closings) = ClosingDocuments(x, amounts1, closings1)
  <2>1. {c \in closings : c.oper = o} = {c \in closings1 : c.oper = o}
    OBVIOUS
  <2> QED  BY <1>1, <2>1 DEF ClosingDocuments
<1>3. MissingInvoice(x, amounts, links, invoices) = MissingInvoice(x, amounts1, links1, invoices1)
  BY <1>1 DEF MissingInvoice
<1>4. PaymentDocuments(x, amounts, payments) = PaymentDocuments(x, amounts1, payments1)
  <2>1. {p \in payments : p.oper = o} = {p \in payments1 : p.oper = o}
    OBVIOUS
  <2> QED  BY <1>1, <2>1 DEF PaymentDocuments
<1>5. CountsAsOther(x, closings) <=> CountsAsOther(x, closings1)
  <2> DEFINE own(C) == {c \in C : c.oper = x.oper.id}
             sales(C) == {c \in C : c.oper = x.oper.id /\ c.kind = "sale" /\ c.contract # NoText}
  <2>1. sales(closings) = sales(closings1)
    <3>1. own(closings) = own(closings1)
      OBVIOUS
    <3>2. \A C : sales(C) = {c \in own(C) : c.kind = "sale" /\ c.contract # NoText}
      OBVIOUS
    <3> HIDE DEF own, sales
    <3> QED  BY <3>1, <3>2
  <2>2. \A C : CountsAsOther(x, C) <=>
          \/ x.oper.vozm = 2
          \/ /\ x.oper.vozm # 1 /\ x.spec.buyer # NoText
             /\ {c.contract : c \in sales(C)} = {x.spec.buyer}
    BY DEF CountsAsOther
  <2> HIDE DEF sales
  <2> QED  BY <2>1, <2>2
<1> QED  BY <1>2, <1>3, <1>4, <1>5

LEMMA CalculationAlone ==
  ASSUME NEW ops, NEW ops1, NEW id, OperationsOf(ops, id) = OperationsOf(ops1, id),
         NEW amounts, NEW amounts1, NEW closings, NEW closings1,
         \A x \in OperationsOf(ops, id) :
           /\ ById(amounts, x.oper.id) = ById(amounts1, x.oper.id)
           /\ CountsAsOther(x, closings) <=> CountsAsOther(x, closings1)
  PROVE  Calculation(ops, amounts, closings, id) = Calculation(ops1, amounts1, closings1, id)
<1> DEFINE mine == OperationsOf(ops, id)
           realised(A, rs) == SumFunction([o \in {x.oper.id : x \in rs} |-> Realised(A, o)])
           other(C) == {x \in mine : CountsAsOther(x, C)}
           paid(A) == SumFunction([o \in {x.oper.id : x \in mine} |-> Paid(A, o)])
           made(A, C) == [payments |-> paid(A),
                          reimbursable |-> realised(A, mine \ other(C)),
                          other |-> realised(A, other(C)),
                          balance |-> paid(A) - realised(A, mine \ other(C)) - realised(A, other(C))]
<1>1. \A x \in mine : /\ Paid(amounts, x.oper.id) = Paid(amounts1, x.oper.id)
                      /\ Realised(amounts, x.oper.id) = Realised(amounts1, x.oper.id)
  BY AmountsOfOne
<1>2. other(closings) = other(closings1)
  OBVIOUS
<1>3. ASSUME NEW rs \in SUBSET mine PROVE realised(amounts, rs) = realised(amounts1, rs)
  <2>1. [o \in {x.oper.id : x \in rs} |-> Realised(amounts, o)]
          = [o \in {x.oper.id : x \in rs} |-> Realised(amounts1, o)]
    <3>1. \A o \in {x.oper.id : x \in rs} : Realised(amounts, o) = Realised(amounts1, o)
      BY <1>1
    <3> QED  BY <3>1
  <2> QED  BY <2>1
<1>4. paid(amounts) = paid(amounts1)
  <2>1. [o \in {x.oper.id : x \in mine} |-> Paid(amounts, o)]
          = [o \in {x.oper.id : x \in mine} |-> Paid(amounts1, o)]
    <3>1. \A o \in {x.oper.id : x \in mine} : Paid(amounts, o) = Paid(amounts1, o)
      BY <1>1
    <3> QED  BY <3>1
  <2> QED  BY <2>1
<1>5. /\ Calculation(ops, amounts, closings, id) = made(amounts, closings)
      /\ Calculation(ops1, amounts1, closings1, id) = made(amounts1, closings1)
  BY DEF Calculation
<1>6. other(closings) \subseteq mine /\ mine \ other(closings) \subseteq mine
  OBVIOUS
<1> HIDE DEF realised, other, paid
<1> QED  BY <1>2, <1>3, <1>4, <1>5, <1>6

LEMMA DocumentsAlone ==
  ASSUME NEW ops, NEW ops1, NEW id, OperationsOf(ops, id) = OperationsOf(ops1, id),
         NEW amounts, NEW amounts1, NEW closings, NEW closings1, NEW payments, NEW payments1,
         NEW links, NEW links1, NEW invoices, NEW invoices1,
         DeliveryInvoices(invoices, id) = DeliveryInvoices(invoices1, id),
         \A x \in OperationsOf(ops, id) :
           /\ ClosingDocuments(x, amounts, closings) = ClosingDocuments(x, amounts1, closings1)
           /\ MissingInvoice(x, amounts, links, invoices)
                = MissingInvoice(x, amounts1, links1, invoices1)
           /\ PaymentDocuments(x, amounts, payments) = PaymentDocuments(x, amounts1, payments1)
  PROVE  Documents(ops, amounts, links, invoices, closings, payments, id)
           = Documents(ops1, amounts1, links1, invoices1, closings1, payments1, id)
<1> DEFINE mine == OperationsOf(ops, id)
           of(x) == ClosingDocuments(x, amounts, closings)
                      \cup MissingInvoice(x, amounts, links, invoices)
                      \cup PaymentDocuments(x, amounts, payments)
           of1(x) == ClosingDocuments(x, amounts1, closings1)
                      \cup MissingInvoice(x, amounts1, links1, invoices1)
                      \cup PaymentDocuments(x, amounts1, payments1)
<1>1. \A x \in mine : of(x) = of1(x)
  OBVIOUS
<1>2. /\ Documents(ops, amounts, links, invoices, closings, payments, id)
           = DeliveryInvoices(invoices, id) \cup UNION {of(x) : x \in mine}
      /\ Documents(ops1, amounts1, links1, invoices1, closings1, payments1, id)
           = DeliveryInvoices(invoices, id) \cup UNION {of1(x) : x \in mine}
  BY DEF Documents
<1> HIDE DEF of, of1, mine
<1>3. {of(x) : x \in mine} = {of1(x) : x \in mine}
  BY <1>1
<1> QED  BY <1>2, <1>3

\* An invoice of the delivery names an operation of the page only if it names
\* one of its own.
LEMMA HomeOperation ==
  ASSUME NEW d, InvoicesAtHome(d), NEW ids, NEW id \in ids,
         NEW i \in InvoiceRows(d, {id}), NEW y \in OperationRows(d, ids), y.oper.id = i.oper
  PROVE  y \in OperationRows(d, {id})
<1> DEFINE every == {s.id : s \in d.specs}
<1>1. y \in OperationRows(d, every)
  BY DEF OperationRows
<1>2. i \in InvoiceRows(d, every) /\ i.spec = id
  <2>1. PICK p \in d.specs \X d.schets : /\ i = InvoiceRow(d, p[1], p[2]) /\ p[1].id = id
                                         /\ p[2].spec = p[1].id /\ IsCustomerInvoice(p[2])
    BY DEF InvoiceRows
  <2>2. p[1].id \in every
    OBVIOUS
  <2> HIDE DEF every
  <2>3. i \in InvoiceRows(d, every)
    BY <2>1, <2>2 DEF InvoiceRows
  <2>4. InvoiceRow(d, p[1], p[2]).spec = p[1].id
    BY DEF InvoiceRow
  <2> QED  BY <2>1, <2>3, <2>4
<1>3. y.spec.id = id
  BY <1>1, <1>2 DEF InvoicesAtHome
<1> QED  BY <1>3 DEF OperationRows

CandidatesAgree(d, ids, id, x, opers, own) ==
  InvoiceCandidates(x, Amounts(d, opers), InvoiceRows(d, ids))
    = InvoiceCandidates(x, Amounts(d, own), InvoiceRows(d, {id}))

LEMMA CandidatesAlone ==
  ASSUME NEW d, InvoicesAtHome(d), NEW ids, NEW id \in ids,
         NEW x \in OperationRows(d, {id}),
         NEW opers, NEW own \in SUBSET opers,
         \A o \in opers : \E y \in OperationRows(d, ids) : y.oper.id = o,
         \A y \in OperationRows(d, {id}) : y.oper.id \in own
  PROVE  CandidatesAgree(d, ids, id, x, opers, own)
<1> DEFINE A == Amounts(d, opers)
           B == Amounts(d, own)
           I == InvoiceRows(d, ids)
           J == InvoiceRows(d, {id})
           found(am, inv) ==
             {i \in inv : /\ i.spec = x.spec.id /\ i.oper # x.oper.id
                          /\ i.oper \in InvoiceOnly(am)
                          /\ i.amount = Realised(am, x.oper.id)
                          /\ i.cur = RUB /\ i.source > 0}
<1>1. x.spec.id = id /\ x.oper.id \in own
  BY DEF OperationRows
<1>2. ById(A, x.oper.id) = ById(B, x.oper.id)
  BY <1>1 DEF ById, Amounts
<1>3. Realised(A, x.oper.id) = Realised(B, x.oper.id)
  BY <1>2, AmountsOfOne
<1>4. J = {i \in I : i.spec = id}
  BY InvoiceRowsOfOne
<1>5. ASSUME NEW i \in J PROVE i.oper \in InvoiceOnly(A) <=> i.oper \in InvoiceOnly(B)
  <2>1. ASSUME i.oper \in InvoiceOnly(A) PROVE i.oper \in InvoiceOnly(B)
    <3>1. PICK o \in d.opers : o.id \in opers /\ o.realiz = 0 /\ o.id = i.oper
      BY <2>1 DEF InvoiceOnly, Amounts
    <3>2. PICK y \in OperationRows(d, ids) : y.oper.id = i.oper
      BY <3>1
    <3>3. y \in OperationRows(d, {id})
      BY <3>2, HomeOperation
    <3> QED  BY <3>1, <3>2, <3>3 DEF InvoiceOnly, Amounts
  <2>2. ASSUME i.oper \in InvoiceOnly(B) PROVE i.oper \in InvoiceOnly(A)
    BY <1>1, <2>2 DEF InvoiceOnly, Amounts
  <2> QED  BY <2>1, <2>2
<1>6. found(A, I) = found(B, J)
  <2> HIDE DEF A, B, I, J
  <2> QED  BY <1>1, <1>3, <1>4, <1>5
<1>7. /\ InvoiceCandidates(x, A, I) = IF Cardinality(found(A, I)) = 1 THEN found(A, I) ELSE {}
      /\ InvoiceCandidates(x, B, J) = IF Cardinality(found(B, J)) = 1 THEN found(B, J) ELSE {}
  BY DEF InvoiceCandidates
<1> HIDE DEF found, A, B, I, J
<1>8. InvoiceCandidates(x, A, I) = InvoiceCandidates(x, B, J)
  <2> DEFINE F == found(A, I)
             G == found(B, J)
  <2>1. F = G
    BY <1>6
  <2>2. /\ InvoiceCandidates(x, A, I) = IF Cardinality(F) = 1 THEN F ELSE {}
        /\ InvoiceCandidates(x, B, J) = IF Cardinality(G) = 1 THEN G ELSE {}
    BY <1>7
  <2> HIDE DEF F, G
  <2> QED  BY <2>1, <2>2
<1> QED  BY <1>8 DEF A, B, I, J, CandidatesAgree

LEMMA ReadAlone ==
  ASSUME NEW d, InvoicesAtHome(d), NEW specIds, NEW id \in specIds
  PROVE  ReadAtOnce(d, specIds, id) = ReadAtOnce(d, {id}, id)
<1> DEFINE ops == OperationRows(d, specIds)
           ops1 == OperationRows(d, {id})
           ids == {y.oper.id : y \in ops}
           ids1 == {y.oper.id : y \in ops1}
           closings == PreferAggregateRows(ClosingRows(d, ids))
           closings1 == PreferAggregateRows(ClosingRows(d, ids1))
<1>1. ops1 = OperationsOf(ops, id) /\ OperationsOf(ops1, id) = ops1
  <2>1. ops1 = OperationsOf(ops, id)
    BY OperationRowsOfOne
  <2> QED  BY <2>1 DEF OperationsOf
<1>2. ids1 \subseteq ids
  BY <1>1 DEF OperationsOf
<1>3. closings1 = {c \in closings : c.oper \in ids1}
  <2> HIDE DEF ids, ids1
  <2>1. ClosingRows(d, ids1) = {c \in ClosingRows(d, ids) : c.oper \in ids1}
    BY <1>2, ClosingRowsOfSome
  <2> QED  BY <2>1, PreferenceOfSome
<1>4. PaymentRows(d, ids1) = {p \in PaymentRows(d, ids) : p.oper \in ids1}
  <2> HIDE DEF ids, ids1
  <2> QED  BY <1>2, PaymentRowsOfSome
<1>5. ASSUME NEW x \in ops1
      PROVE  /\ x.oper.id \in ids1
             /\ ById(Amounts(d, ids), x.oper.id) = ById(Amounts(d, ids1), x.oper.id)
             /\ \A c : c.oper = x.oper.id => (c \in closings <=> c \in closings1)
             /\ \A p : p.oper = x.oper.id => (p \in PaymentRows(d, ids) <=> p \in PaymentRows(d, ids1))
             /\ x.oper.id \in InvoiceLinks(d, ids) <=> x.oper.id \in InvoiceLinks(d, ids1)
             /\ InvoiceCandidates(x, Amounts(d, ids), InvoiceRows(d, specIds))
                  = InvoiceCandidates(x, Amounts(d, ids1), InvoiceRows(d, {id}))
  <2>1. x.oper.id \in ids1
    OBVIOUS
  <2>2. InvoiceCandidates(x, Amounts(d, ids), InvoiceRows(d, specIds))
          = InvoiceCandidates(x, Amounts(d, ids1), InvoiceRows(d, {id}))
    <3>1. \A o \in ids : \E y \in OperationRows(d, specIds) : y.oper.id = o
      OBVIOUS
    <3>2. \A y \in OperationRows(d, {id}) : y.oper.id \in ids1
      OBVIOUS
    <3>3. x \in OperationRows(d, {id}) /\ ids1 \in SUBSET ids
      BY <1>2
    <3> HIDE DEF ids, ids1, ops, ops1, closings, closings1
    <3>4. CandidatesAgree(d, specIds, id, x, ids, ids1)
      BY <3>1, <3>2, <3>3, CandidatesAlone
    <3> QED  BY <3>4 DEF CandidatesAgree
  <2> HIDE DEF ids, ids1, closings, closings1
  <2>3. ById(Amounts(d, ids), x.oper.id) = ById(Amounts(d, ids1), x.oper.id)
    BY <1>2, <2>1 DEF ById, Amounts
  <2>4. \A c : c.oper = x.oper.id => (c \in closings <=> c \in closings1)
    BY <1>3, <2>1
  <2>5. \A p : p.oper = x.oper.id => (p \in PaymentRows(d, ids) <=> p \in PaymentRows(d, ids1))
    BY <1>4, <2>1
  <2>6. x.oper.id \in InvoiceLinks(d, ids) <=> x.oper.id \in InvoiceLinks(d, ids1)
    BY <1>2, <2>1 DEF InvoiceLinks
  <2> QED  BY <2>1, <2>2, <2>3, <2>4, <2>5, <2>6
<1>6. DeliveryInvoices(InvoiceRows(d, specIds), id) = DeliveryInvoices(InvoiceRows(d, {id}), id)
  <2>1. {x \in InvoiceRows(d, specIds) : x.spec = id} = {x \in InvoiceRows(d, {id}) : x.spec = id}
    BY InvoiceRowsOfOne
  <2> QED  BY <2>1 DEF DeliveryInvoices
<1>7. /\ ReadAtOnce(d, specIds, id)
           = [documents |-> Documents(ops, Amounts(d, ids), InvoiceLinks(d, ids),
                                      InvoiceRows(d, specIds), closings, PaymentRows(d, ids), id),
              calculation |-> Calculation(ops, Amounts(d, ids), closings, id)]
      /\ ReadAtOnce(d, {id}, id)
           = [documents |-> Documents(ops1, Amounts(d, ids1), InvoiceLinks(d, ids1),
                                      InvoiceRows(d, {id}), closings1, PaymentRows(d, ids1), id),
              calculation |-> Calculation(ops1, Amounts(d, ids1), closings1, id)]
  BY DEF ReadAtOnce
<1> HIDE DEF ops, ops1, ids, ids1, closings, closings1
<1>8. ASSUME NEW x \in ops1
      PROVE  /\ ClosingDocuments(x, Amounts(d, ids), closings)
                  = ClosingDocuments(x, Amounts(d, ids1), closings1)
             /\ MissingInvoice(x, Amounts(d, ids), InvoiceLinks(d, ids), InvoiceRows(d, specIds))
                  = MissingInvoice(x, Amounts(d, ids1), InvoiceLinks(d, ids1),
                                   InvoiceRows(d, {id}))
             /\ PaymentDocuments(x, Amounts(d, ids), PaymentRows(d, ids))
                  = PaymentDocuments(x, Amounts(d, ids1), PaymentRows(d, ids1))
             /\ CountsAsOther(x, closings) <=> CountsAsOther(x, closings1)
  <2> DEFINE A == Amounts(d, ids)
             B == Amounts(d, ids1)
             I == InvoiceRows(d, specIds)
             J == InvoiceRows(d, {id})
             P == PaymentRows(d, ids)
             Q == PaymentRows(d, ids1)
             L == InvoiceLinks(d, ids)
             M == InvoiceLinks(d, ids1)
  <2>1. /\ ById(A, x.oper.id) = ById(B, x.oper.id)
        /\ \A c : c.oper = x.oper.id => (c \in closings <=> c \in closings1)
        /\ \A p : p.oper = x.oper.id => (p \in P <=> p \in Q)
        /\ x.oper.id \in L <=> x.oper.id \in M
        /\ InvoiceCandidates(x, A, I) = InvoiceCandidates(x, B, J)
    BY <1>5
  <2> HIDE DEF A, B, I, J, P, Q, L, M
  <2>2. /\ ClosingDocuments(x, A, closings) = ClosingDocuments(x, B, closings1)
        /\ MissingInvoice(x, A, L, I) = MissingInvoice(x, B, M, J)
        /\ PaymentDocuments(x, A, P) = PaymentDocuments(x, B, Q)
        /\ CountsAsOther(x, closings) <=> CountsAsOther(x, closings1)
    BY <2>1, OperationAlone
  <2> QED  BY <2>2 DEF A, B, I, J, P, Q, L, M
<1>9. /\ Documents(ops, Amounts(d, ids), InvoiceLinks(d, ids), InvoiceRows(d, specIds),
                   closings, PaymentRows(d, ids), id)
           = Documents(ops1, Amounts(d, ids1), InvoiceLinks(d, ids1), InvoiceRows(d, {id}),
                       closings1, PaymentRows(d, ids1), id)
  BY <1>1, <1>6, <1>8, DocumentsAlone
<1>10. Calculation(ops, Amounts(d, ids), closings, id)
         = Calculation(ops1, Amounts(d, ids1), closings1, id)
  BY <1>1, <1>5, <1>8, CalculationAlone
<1> QED  BY <1>7, <1>9, <1>10

LEMMA PagesAgree == ReadInv => SameAsAlone
<1> SUFFICES ASSUME ReadInv, Untouched, InvoicesAtHome(ErpThen), NEW r \in Rows
             PROVE  LET alone == ReadAtOnce(ErpThen, {r.spec}, r.spec) IN
                      /\ r.documents = alone.documents
                      /\ [f \in DOMAIN alone.calculation |-> r[f]] = alone.calculation
  BY DEF SameAsAlone
<1> DEFINE page == ReadAtOnce(ErpThen, Shown, r.spec)
           sums == page.calculation
<1>1. RowOf(ErpThen, Shown, r)
  BY ShownRow
<1>2. page = ReadAtOnce(ErpThen, {r.spec}, r.spec)
  BY <1>1, ReadAlone DEF RowOf
<1>3. /\ r.documents = page.documents /\ r.payments = sums.payments
      /\ r.reimbursable = sums.reimbursable /\ r.other = sums.other /\ r.balance = sums.balance
  BY <1>1 DEF RowOf
<1>4. PICK p, m, o, b : sums = [payments |-> p, reimbursable |-> m, other |-> o, balance |-> b]
  BY DEF ReadAtOnce, Calculation
<1> HIDE DEF sums
<1>5. [f \in DOMAIN sums |-> r[f]] = sums
  BY <1>3, <1>4
<1> QED  BY <1>2, <1>3, <1>5 DEF sums

-----------------------------------------------------------------------------
(* What the payment documents bring to an operation                          *)

\* A document of a delivery that is a payment is one of its operations'.
LEMMA PaymentOfOperation ==
  ASSUME NEW ops, NEW amounts, NEW links, NEW invoices, NEW closings, NEW payments,
         NEW id, NEW d \in Documents(ops, amounts, links, invoices, closings, payments, id),
         d.kind = "payment",
         \A i \in invoices : i.kind = "customer_invoice" /\ "kind" \in DOMAIN i,
         \A c \in closings : c.kind \in {"sale", "purchase"}
  PROVE  \E x \in OperationsOf(ops, id) : d \in PaymentDocuments(x, amounts, payments)
<1>1. ASSUME d \in DeliveryInvoices(invoices, id) PROVE FALSE
  <2>1. PICK i \in invoices : d = [i EXCEPT !.code = MeaningfulCode(@)]
    BY <1>1 DEF DeliveryInvoices
  <2>2. d.kind = i.kind /\ i.kind = "customer_invoice"
    BY <2>1
  <2> QED  BY <2>2
<1>2. ASSUME NEW x \in OperationsOf(ops, id), d \in ClosingDocuments(x, amounts, closings)
      PROVE  FALSE
  <2> DEFINE own == {c \in closings : c.oper = x.oper.id}
             stand == Document(x, "sale", Realised(amounts, x.oper.id), ExpectedContract(x))
  <2>1. stand.kind = "sale"
    BY DEF Document
  <2> HIDE DEF stand
  <2>2. d \in {ClosingDocument(x, c) : c \in own} \/ d = stand
    <3>1. d \in IF own # {} THEN {ClosingDocument(x, c) : c \in own}
                ELSE IF Realised(amounts, x.oper.id) = 0 THEN {} ELSE {stand}
      BY <1>2 DEF ClosingDocuments, stand
    <3> HIDE DEF own
    <3> QED  BY <3>1
  <2>3. \A c \in own : ClosingDocument(x, c).kind \in {"sale", "purchase"}
    BY ClosingDocumentFields
  <2> QED  BY <2>1, <2>2, <2>3
<1>3. ASSUME NEW x \in OperationsOf(ops, id), d \in MissingInvoice(x, amounts, links, invoices)
      PROVE  FALSE
  <2> DEFINE candidates == {i.oper : i \in InvoiceCandidates(x, amounts, invoices)}
             missing == [Document(x, "customer_invoice", Realised(amounts, x.oper.id),
                                  ExpectedContract(x)) EXCEPT !.related = candidates]
  <2>1. d = missing
    BY <1>3 DEF MissingInvoice
  <2>2. missing.kind = "customer_invoice"
    <3> HIDE DEF candidates
    <3> QED  BY DEF Document
  <2> QED  BY <2>1, <2>2
<1>4. d \in DeliveryInvoices(invoices, id) \/ \E x \in OperationsOf(ops, id) :
        \/ d \in ClosingDocuments(x, amounts, closings)
        \/ d \in MissingInvoice(x, amounts, links, invoices)
        \/ d \in PaymentDocuments(x, amounts, payments)
  BY DEF Documents
<1> QED  BY <1>1, <1>2, <1>3, <1>4

\* The document of a row of payments of the operation of x.
PaymentShown(x, paid, p) ==
  [Document(x, "payment", paid, x.spec.buyer)
     EXCEPT !.vat = 0, !.vozm = NoText, !.code = MeaningfulCode(p.code),
       !.number = p.number, !.date = p.date, !.amount = p.amount,
       !.cur = p.cur, !.source = p.source, !.via = <<x.via.id, p.source>>]

\* What the payments of an operation look like, and that they are its documents.
LEMMA PaymentDocumentIs ==
  ASSUME NEW x, NEW amounts, NEW payments, NEW d \in PaymentDocuments(x, amounts, payments)
  PROVE  /\ d.kind = "payment" /\ d.oper = x.oper.id /\ Paid(amounts, x.oper.id) # 0
         /\ \/ /\ \A p \in payments : p.oper # x.oper.id
               /\ d.amount = Paid(amounts, x.oper.id)
               /\ PaymentDocuments(x, amounts, payments) = {d}
            \/ \E p \in payments :
                 /\ p.oper = x.oper.id /\ d.amount = p.amount /\ d.source = p.source
                 /\ d = PaymentShown(x, Paid(amounts, x.oper.id), p)
<1> DEFINE own == {p \in payments : p.oper = x.oper.id}
           blank == [Document(x, "payment", Paid(amounts, x.oper.id), x.spec.buyer)
                       EXCEPT !.vat = 0, !.vozm = NoText]
           shown(p) == [blank EXCEPT !.code = MeaningfulCode(p.code), !.number = p.number,
                          !.date = p.date, !.amount = p.amount, !.cur = p.cur,
                          !.source = p.source, !.via = <<x.via.id, p.source>>]
<1>1. blank.kind = "payment" /\ blank.oper = x.oper.id /\ blank.amount = Paid(amounts, x.oper.id)
  BY DEF Document
<1>2. \A p : /\ shown(p).kind = "payment" /\ shown(p).oper = x.oper.id
             /\ shown(p).amount = p.amount /\ shown(p).source = p.source
  BY DEF Document
<1>3. \A p : shown(p) = PaymentShown(x, Paid(amounts, x.oper.id), p)
  BY DEF PaymentShown, Document
<1>4. PaymentDocuments(x, amounts, payments)
        = IF Paid(amounts, x.oper.id) = 0 THEN {}
          ELSE IF own = {} THEN {blank} ELSE {shown(p) : p \in own}
  BY DEF PaymentDocuments
<1>5. Paid(amounts, x.oper.id) # 0
  BY <1>4
<1>6. CASE own = {}
  <2>1. PaymentDocuments(x, amounts, payments) = {blank} /\ d = blank
    BY <1>4, <1>5, <1>6
  <2>2. \A p \in payments : p.oper # x.oper.id
    BY <1>6
  <2> HIDE DEF blank
  <2> QED  BY <1>1, <1>5, <2>1, <2>2
<1>7. CASE own # {}
  <2> HIDE DEF shown, blank
  <2>1. d \in {shown(p) : p \in own}
    BY <1>4, <1>5, <1>7
  <2>2. PICK p \in own : d = shown(p)
    BY <2>1
  <2>3. p \in payments /\ p.oper = x.oper.id
    BY <2>2
  <2> QED  BY <1>2, <1>3, <1>5, <2>2, <2>3
<1> QED  BY <1>6, <1>7

LEMMA PaymentIsDocument ==
  ASSUME NEW ops, NEW amounts, NEW links, NEW invoices, NEW closings, NEW payments, NEW id,
         NEW x \in OperationsOf(ops, id)
  PROVE  PaymentDocuments(x, amounts, payments)
           \subseteq Documents(ops, amounts, links, invoices, closings, payments, id)
BY DEF Documents

\* An operation that is attached once is listed once for a delivery.
LEMMA ListedOnce ==
  ASSUME NEW d, IsDatabase(d), AttachedOnce(d), NEW ids, NEW id,
         NEW x \in OperationsOf(OperationRows(d, ids), id),
         NEW y \in OperationsOf(OperationRows(d, ids), id), x.oper.id = y.oper.id
  PROVE  x = y
<1> DEFINE attached(o) == LET cs == {c \in d.categs : c.oper = o.id}
                          IN IF cs = {} THEN {NoCateg} ELSE cs
<1>1. ASSUME NEW r \in OperationsOf(OperationRows(d, ids), id)
      PROVE  /\ r = [oper |-> r.oper, spec |-> r.spec, via |-> r.via]
             /\ r.oper \in d.opers /\ r.spec \in d.specs /\ r.spec.id = id
             /\ r.via \in attached(r.oper)
             /\ \/ r.oper.parenttype = 2
                \/ r.oper.parenttype = 4 /\ id = r.via.spec
  BY DEF OperationsOf, OperationRows
<1> HIDE DEF attached
<1>2. x.oper = y.oper /\ x.spec = y.spec
  <2>1. x.oper \in d.opers /\ y.oper \in d.opers /\ x.spec \in d.specs /\ y.spec \in d.specs
        /\ x.spec.id = y.spec.id
    BY <1>1
  <2> QED  BY <2>1 DEF IsDatabase, Keyed
<1>3. x.via = y.via
  <2> SUFFICES ASSUME x.via # y.via PROVE FALSE
    OBVIOUS
  <2>1. /\ x.via \in attached(x.oper) /\ y.via \in attached(x.oper) /\ x.oper \in d.opers
        /\ \/ x.oper.parenttype = 2
           \/ x.oper.parenttype = 4 /\ id = x.via.spec /\ id = y.via.spec
    <3>1. x.oper.parenttype = 2 \/ (x.oper.parenttype = 4 /\ id = x.via.spec)
      BY <1>1
    <3>2. x.oper.parenttype = 2 \/ (x.oper.parenttype = 4 /\ id = y.via.spec)
      BY <1>1, <1>2
    <3>3. x.via \in attached(x.oper) /\ x.oper \in d.opers
      BY <1>1
    <3>4. y.via \in attached(x.oper)
      BY <1>1, <1>2
    <3> QED  BY <3>1, <3>2, <3>3, <3>4
  <2>2. /\ x.via \in d.categs /\ x.via.oper = x.oper.id
        /\ y.via \in d.categs /\ y.via.oper = x.oper.id
    BY <2>1 DEF attached
  <2>3. x.oper.parenttype = 4 /\ x.via.spec # y.via.spec
    BY <2>1, <2>2 DEF AttachedOnce
  <2> QED  BY <2>1, <2>3
<1> QED  BY <1>1, <1>2, <1>3

\* The rows of payments are by operation and payment.
LEMMA PaymentRowIs ==
  ASSUME NEW d, NEW ids, NEW p \in PaymentRows(d, ids)
  PROVE  /\ p.oper \in ids /\ (\E h \in d.acchist : h.id = p.source)
         /\ \E a \in d.allocs : a.hist = p.source /\ a.oper = p.oper
         /\ p.amount = SumFunction([a \in {y \in d.allocs : y.hist = p.source /\ y.oper = p.oper}
                                      |-> a.sum])
<1> DEFINE Q == {q \in ids \X d.acchist : \E a \in d.allocs : a.hist = q[2].id /\ a.oper = q[1]}
           row(q) == [oper |-> q[1], code |-> q[2].code, number |-> q[2].num,
                      date |-> PaymentDate(q[2]), cur |-> q[2].val, source |-> q[2].id,
                      amount |-> SumFunction([a \in {y \in d.allocs : y.hist = q[2].id
                                                                    /\ y.oper = q[1]} |-> a.sum])]
<1>1. PICK q \in Q : p = row(q)
  BY DEF PaymentRows
<1>2. p.oper = q[1] /\ p.source = q[2].id
      /\ p.amount = SumFunction([a \in {y \in d.allocs : y.hist = q[2].id /\ y.oper = q[1]} |-> a.sum])
  BY <1>1
<1>3. q[1] \in ids /\ q[2] \in d.acchist /\ \E a \in d.allocs : a.hist = q[2].id /\ a.oper = q[1]
  OBVIOUS
<1> QED  BY <1>2, <1>3

\* What get_paidsum answers for an operation.
LEMMA PaidIs ==
  ASSUME NEW d, IsDatabase(d), NEW ids, NEW o \in d.opers, o.id \in ids, o.paid \in Int
  PROVE  Paid(Amounts(d, ids), o.id) = o.paid
<1> DEFINE f == [x \in {o} |-> x.paid]
<1>1. ById(Amounts(d, ids), o.id) = {o}
  BY DEF ById, Amounts, IsDatabase, Keyed
<1>2. Paid(Amounts(d, ids), o.id) = SumFunction([x \in {o} |-> x.paid])
  BY <1>1 DEF Paid
<1>3. SumFunction(f) = SumFunctionOnSet(f, {o}) /\ f[o] = o.paid
  BY DEF SumFunction
<1> HIDE DEF f
<1>4. SumFunctionOnSet(f, {o}) = f[o]
  BY <1>3, SumOfOne
<1> QED  BY <1>2, <1>3, <1>4 DEF f

\* A payment and an operation have one row of payments between them.
LEMMA PaymentRowOnce ==
  ASSUME NEW d, IsDatabase(d), NEW ids, NEW p \in PaymentRows(d, ids), NEW q \in PaymentRows(d, ids),
         p.oper = q.oper, p.source = q.source
  PROVE  p = q
<1> DEFINE Q == {u \in ids \X d.acchist : \E a \in d.allocs : a.hist = u[2].id /\ a.oper = u[1]}
           row(u) == [oper |-> u[1], code |-> u[2].code, number |-> u[2].num,
                      date |-> PaymentDate(u[2]), cur |-> u[2].val, source |-> u[2].id,
                      amount |-> SumFunction([a \in {y \in d.allocs : y.hist = u[2].id
                                                                    /\ y.oper = u[1]} |-> a.sum])]
<1>1. PICK u \in Q : p = row(u)
  BY DEF PaymentRows
<1>2. PICK v \in Q : q = row(v)
  BY DEF PaymentRows
<1>3. \A w : row(w).oper = w[1] /\ row(w).source = w[2].id
  OBVIOUS
<1>4. u[1] = v[1] /\ u[2].id = v[2].id
  <2> HIDE DEF row
  <2> QED  BY <1>1, <1>2, <1>3
<1>5. u[2] \in d.acchist /\ v[2] \in d.acchist /\ u = <<u[1], u[2]>> /\ v = <<v[1], v[2]>>
  OBVIOUS
<1>6. u[2] = v[2]
  BY <1>4, <1>5 DEF IsDatabase, Keyed
<1>7. u = v
  BY <1>4, <1>5, <1>6
<1> QED  BY <1>1, <1>2, <1>7

\* What the payment documents of an operation bring to it is no more than what
\* it was paid.
LEMMA PaymentsOfOperation ==
  ASSUME NEW d, IsDatabase(d), AllocatedInFull(d), NoneNegative(d),
         NEW ids, IsFiniteSet(ids), NEW x, x.oper \in d.opers, x.oper.id \in ids,
         NEW D, D = PaymentDocuments(x, Amounts(d, ids), PaymentRows(d, ids)), D # {}
  PROVE  LET paid == SumFunction([y \in D |-> y.amount]) IN
         paid \in Int /\ paid <= x.oper.paid
<1> DEFINE o == x.oper.id
           A == {a \in d.allocs : a.oper = o}
           S == {a \in A : \E y \in D : y.source = a.hist}
           m == [a \in S |-> CHOOSE y \in D : y.source = a.hist]
           F == [a \in d.allocs |-> a.sum]
           G == [y \in D |-> y.amount]
<1>1. Paid(Amounts(d, ids), o) = x.oper.paid /\ x.oper.paid \in Nat
  BY PaidIs DEF NoneNegative
<1>2. SumFunction(G) = SumFunctionOnSet(G, D)
  BY DEF SumFunction
<1>3. IsFiniteSet(D) /\ IsFiniteSet(d.allocs) /\ IsFiniteSet(A) /\ IsFiniteSet(S)
  <2>1. IsFiniteSet(D)
    BY PaymentRowsFinite, PaymentDocumentsFinite
  <2>2. IsFiniteSet(d.allocs)
    BY DEF IsDatabase, Keyed
  <2>3. A \subseteq d.allocs /\ S \subseteq d.allocs
    OBVIOUS
  <2> QED  BY <2>1, <2>2, <2>3, FS_Subset
<1>4. \A a \in d.allocs : F[a] \in Nat /\ F[a] = a.sum
  BY DEF NoneNegative
<1>5. CASE \E y \in D : y.amount = x.oper.paid /\ D = {y}
  <2>1. PICK y \in D : y.amount = x.oper.paid /\ D = {y}
    BY <1>5
  <2>2. G[y] = x.oper.paid /\ G[y] \in Int
    BY <1>1, <2>1
  <2> HIDE DEF G
  <2>3. SumFunctionOnSet(G, D) = x.oper.paid
    BY <2>1, <2>2, SumOfOne
  <2> QED  BY <1>1, <1>2, <2>3 DEF G
<1>6. CASE ~ \E y \in D : y.amount = x.oper.paid /\ D = {y}
  <2>1. ASSUME NEW y \in D
        PROVE  \E p \in PaymentRows(d, ids) :
                 /\ p.oper = o /\ y.amount = p.amount /\ y.source = p.source
                 /\ y = PaymentShown(x, x.oper.paid, p)
    <3>1. PICK E, P : E = Amounts(d, ids) /\ P = PaymentRows(d, ids)
      OBVIOUS
    <3>2. y \in PaymentDocuments(x, E, P) /\ PaymentDocuments(x, E, P) = D
      BY <3>1
    <3>3. \/ /\ \A p \in P : p.oper # x.oper.id
             /\ y.amount = Paid(E, x.oper.id)
             /\ PaymentDocuments(x, E, P) = {y}
          \/ \E p \in P : /\ p.oper = x.oper.id /\ y.amount = p.amount /\ y.source = p.source
                           /\ y = PaymentShown(x, Paid(E, x.oper.id), p)
      BY ONLY <3>2, PaymentDocumentIs
    <3> QED  BY <1>1, <1>6, <3>1, <3>2, <3>3
  <2>2. ASSUME NEW y \in D, NEW z \in D, y.source = z.source PROVE y = z
    <3>1. PICK p \in PaymentRows(d, ids) :
                 /\ p.oper = o /\ y.source = p.source
                 /\ y = PaymentShown(x, x.oper.paid, p)
      BY <2>1
    <3>2. PICK q \in PaymentRows(d, ids) :
                 /\ q.oper = o /\ z.source = q.source
                 /\ z = PaymentShown(x, x.oper.paid, q)
      BY <2>1
    <3>3. p = q
      BY <2>2, <3>1, <3>2, PaymentRowOnce
    <3> QED  BY <3>1, <3>2, <3>3
  <2>3. \A a \in S : m[a] \in D /\ m[a].source = a.hist
    OBVIOUS
  <2>4. ASSUME NEW y \in D
        PROVE  G[y] = SumFunctionOnSet(F, {a \in S : m[a] = y})
    <3>1. PICK p \in PaymentRows(d, ids) : p.oper = o /\ y.amount = p.amount /\ y.source = p.source
      BY <2>1
    <3> DEFINE R == {a \in d.allocs : a.hist = p.source /\ a.oper = p.oper}
               K == [a \in R |-> a.sum]
    <3>2. y.amount = SumFunction(K)
      BY <3>1, PaymentRowIs
    <3>3. SumFunction(K) = SumFunctionOnSet(K, R)
      BY DEF SumFunction
    <3>4. R = {a \in S : m[a] = y}
      <4>1. ASSUME NEW a \in R PROVE a \in S /\ m[a] = y
        <5>1. a \in S
          BY <3>1
        <5>2. m[a] \in D /\ m[a].source = y.source
          BY <2>3, <3>1, <5>1
        <5> QED  BY <2>2, <5>1, <5>2
      <4>2. ASSUME NEW a \in S, m[a] = y PROVE a \in R
        BY <2>3, <3>1, <4>2
      <4> HIDE DEF m, S, R
      <4> QED  BY <4>1, <4>2
    <3>5. IsFiniteSet(R) /\ \A a \in R : K[a] = F[a]
      BY <1>3, FS_Subset
    <3> HIDE DEF K, R, F, S, m
    <3>6. SumFunctionOnSet(K, R) = SumFunctionOnSet(F, R)
      BY <3>5, SumAgrees
    <3> QED  BY <3>2, <3>3, <3>4, <3>6
  <2>5. A # {}
    <3>1. PICK y \in D : TRUE
      OBVIOUS
    <3>2. PICK p \in PaymentRows(d, ids) : p.oper = o
      BY <2>1
    <3>3. \E a \in d.allocs : a.hist = p.source /\ a.oper = p.oper
      BY <3>2, PaymentRowIs
    <3> QED  BY <3>2, <3>3
  <2>6. x.oper.paid = SumFunctionOnSet(F, A)
    <3> DEFINE K == [a \in A |-> a.sum]
    <3>1. x.oper.paid = SumFunction(K)
      BY <2>5 DEF AllocatedInFull
    <3>2. SumFunction(K) = SumFunctionOnSet(K, A)
      BY DEF SumFunction
    <3>3. \A a \in A : K[a] = F[a]
      OBVIOUS
    <3> HIDE DEF K, A, F
    <3>4. SumFunctionOnSet(K, A) = SumFunctionOnSet(F, A)
      BY <1>3, <3>3, SumAgrees
    <3> QED  BY <3>1, <3>2, <3>4
  <2>7. /\ S \subseteq A /\ A \subseteq d.allocs
        /\ \A a \in S : F[a] \in Int /\ m[a] \in D
        /\ \A a \in A : F[a] \in Nat
    <3>1. S \subseteq A /\ A \subseteq d.allocs
      OBVIOUS
    <3> HIDE DEF S, A, F, m
    <3> QED  BY <1>4, <2>3, <3>1
  <2> HIDE DEF S, A, F, G, m
  <2>8. SumFunctionOnSet(F, S) = SumFunctionOnSet(G, D)
    <3>1. IsFiniteSet(S) /\ IsFiniteSet(D)
      BY <1>3
    <3>2. (\A a \in S : F[a] \in Int) /\ (\A a \in S : m[a] \in D)
      BY <2>7
    <3>3. \A y \in D : G[y] = SumFunctionOnSet(F, {a \in S : m[a] = y})
      BY <2>4
    <3>4. SharedOut(F, S, m, G, D)
      BY <3>1, <3>2, <3>3 DEF SharedOut
    <3> QED  BY <3>4, SumOfGroups
  <2>9. SumFunctionOnSet(F, S) <= SumFunctionOnSet(F, A)
    BY <1>3, <2>7, SumOfPart
  <2>10. SumFunctionOnSet(F, S) \in Int
    BY <1>3, <2>7, SumInteger
  <2> QED  BY <1>2, <2>6, <2>8, <2>9, <2>10 DEF G
<1> QED  BY <1>5, <1>6

-----------------------------------------------------------------------------
(* Nothing in hand is below zero                                             *)

AreInvoices(S) == \A i \in S : i.kind = "customer_invoice" /\ "kind" \in DOMAIN i
AreClosings(S) == \A c \in S : c.kind \in {"sale", "purchase"}
ArePaid(S) == IsFiniteSet(S) /\ \A o \in S : o.paid \in Nat
ArePayments(S) == \A p \in S : p.amount \in Nat

HandSound ==
  /\ "invoices" \in DOMAIN got => AreInvoices(got.invoices)
  /\ "closings" \in DOMAIN got => AreClosings(got.closings)
  /\ "amounts" \in DOMAIN got => ArePaid(got.amounts)
  /\ "payments" \in DOMAIN got => ArePayments(got.payments)

RowPaid(r) ==
  /\ \A d \in r.documents : d.kind = "payment" => d.amount \in Nat
  /\ r.payments \in Nat

PaidInv ==
  /\ HandSound
  /\ \A k \in DOMAIN rows : RowPaid(rows[k])
  /\ Answered => /\ \A k \in DOMAIN reply.items : RowPaid(reply.items[k])
                 /\ reply.req.xlsx => reply.workbook = Workbook(reply.items)

LEMMA InvoicesAre == ASSUME NEW d, NEW ids PROVE AreInvoices(InvoiceRows(d, ids))
<1> SUFFICES ASSUME NEW i \in InvoiceRows(d, ids)
             PROVE  i.kind = "customer_invoice" /\ "kind" \in DOMAIN i
  BY DEF AreInvoices
<1>1. PICK p \in d.specs \X d.schets : i = InvoiceRow(d, p[1], p[2])
  BY DEF InvoiceRows
<1> QED  BY <1>1 DEF InvoiceRow

LEMMA ClosingsAre ==
  ASSUME NEW d, NEW ids PROVE AreClosings(PreferAggregateRows(ClosingRows(d, ids)))
<1> SUFFICES ASSUME NEW c \in PreferAggregateRows(ClosingRows(d, ids))
             PROVE  c.kind \in {"sale", "purchase"}
  BY DEF AreClosings
<1>1. c \in ClosingRows(d, ids)
  BY DEF PreferAggregateRows
<1>2. PICK a, sum, via : c = ClosingRow(d, c.oper, a, sum, via)
  BY <1>1, ClosingRowOfAct
<1>3. c.kind = AktKind(a)
  BY <1>2 DEF ClosingRow
<1> QED  BY <1>3 DEF AktKind

LEMMA AmountsAre ==
  ASSUME NEW d, IsDatabase(d), NoneNegative(d), NEW ids PROVE ArePaid(Amounts(d, ids))
<1>1. Amounts(d, ids) \subseteq d.opers /\ IsFiniteSet(d.opers)
  BY DEF Amounts, IsDatabase, Keyed
<1> QED  BY <1>1, FS_Subset DEF ArePaid, NoneNegative

LEMMA PaymentsAre ==
  ASSUME NEW d, IsDatabase(d), NoneNegative(d), NEW ids PROVE ArePayments(PaymentRows(d, ids))
<1> SUFFICES ASSUME NEW p \in PaymentRows(d, ids) PROVE p.amount \in Nat
  BY DEF ArePayments
<1> DEFINE R == {y \in d.allocs : y.hist = p.source /\ y.oper = p.oper}
           K == [a \in R |-> a.sum]
<1>1. p.amount = SumFunction(K)
  BY PaymentRowIs
<1>2. SumFunction(K) = SumFunctionOnSet(K, R) /\ \A a \in R : K[a] \in Nat
  BY DEF SumFunction, NoneNegative
<1>3. IsFiniteSet(R)
  BY FS_Subset DEF IsDatabase, Keyed
<1> HIDE DEF K, R
<1> QED  BY <1>1, <1>2, <1>3, SumNatural

LEMMA PaidNatural ==
  ASSUME NEW amounts, ArePaid(amounts), NEW o PROVE Paid(amounts, o) \in Nat
<1> DEFINE R == ById(amounts, o)
           K == [x \in R |-> x.paid]
<1>1. R \subseteq amounts /\ IsFiniteSet(R)
  BY FS_Subset DEF ById, ArePaid
<1>2. \A x \in R : K[x] \in Nat
  BY <1>1 DEF ArePaid
<1>3. Paid(amounts, o) = SumFunctionOnSet(K, R)
  BY DEF Paid, SumFunction
<1> HIDE DEF K, R
<1> QED  BY <1>1, <1>2, <1>3, SumNatural

\* A row that is made of what is in hand shows nothing below zero.
LEMMA RowIsPaid ==
  ASSUME NEW ops, IsFiniteSet(ops), NEW amounts, ArePaid(amounts), NEW links, NEW invoices,
         AreInvoices(invoices), NEW closings, AreClosings(closings),
         NEW payments, ArePayments(payments), NEW id
  PROVE  /\ \A d \in Documents(ops, amounts, links, invoices, closings, payments, id) :
              d.kind = "payment" => d.amount \in Nat
         /\ Calculation(ops, amounts, closings, id).payments \in Nat
<1>1. ASSUME NEW d \in Documents(ops, amounts, links, invoices, closings, payments, id),
             d.kind = "payment"
      PROVE  d.amount \in Nat
  <2>1. PICK x \in OperationsOf(ops, id) : d \in PaymentDocuments(x, amounts, payments)
    BY <1>1, PaymentOfOperation DEF AreInvoices, AreClosings
  <2>2. d.amount = Paid(amounts, x.oper.id) \/ \E p \in payments : d.amount = p.amount
    BY <2>1, PaymentDocumentIs
  <2> QED  BY <2>2, PaidNatural DEF ArePayments
<1>2. Calculation(ops, amounts, closings, id).payments \in Nat
  <2> DEFINE R == {r.oper.id : r \in OperationsOf(ops, id)}
             K == [o \in R |-> Paid(amounts, o)]
  <2>1. Calculation(ops, amounts, closings, id).payments = SumFunction(K)
    BY DEF Calculation
  <2>2. SumFunction(K) = SumFunctionOnSet(K, R) /\ \A o \in R : K[o] \in Nat
    BY PaidNatural DEF SumFunction
  <2>3. IsFiniteSet(R)
    <3>1. IsFiniteSet(OperationsOf(ops, id))
      BY FS_Subset DEF OperationsOf
    <3> QED  BY <3>1, OperIdsFinite
  <2> HIDE DEF K, R
  <2> QED  BY <2>1, <2>2, <2>3, SumNatural
<1> QED  BY <1>1, <1>2

LEMMA PaidInit == Init => PaidInv
BY DEF Init, PaidInv, HandSound, Nothing, NoReply, Answered

\* A query that answers leaves sound what was in hand.
LEMMA AskedPaid ==
  ASSUME PaidInv, NEW query, NEW name, NEW answer, NEW next, Ask(query, name, answer, next),
         name = "invoices" => AreInvoices(answer), name = "closings" => AreClosings(answer),
         name = "amounts" => ArePaid(answer), name = "payments" => ArePayments(answer)
  PROVE  PaidInv'
<1>1. /\ DOMAIN got' = DOMAIN got \cup {name} /\ got'[name] = answer
      /\ \A n \in DOMAIN got : n # name => got'[n] = got[n]
      /\ rows' = rows /\ reply' = reply
  BY Asked
<1>2. HandSound'
  BY <1>1 DEF PaidInv, HandSound
<1>3. Answered' = Answered
  BY <1>1 DEF Answered
<1> QED  BY <1>1, <1>2, <1>3 DEF PaidInv

LEMMA NowSound == ASSUME ReadInv, NothingRefunded PROVE IsDatabase(db) /\ NoneNegative(db)
BY IsERP DEF ReadInv, Moment, NothingRefunded, db

LEMMA QueriesPaid ==
  ASSUME ReadInv, PaidInv, NothingRefunded,
         Count \/ Totals \/ List \/ Invoices \/ Operations \/ AmountsOf \/ Links \/ Closings
           \/ Payments
  PROVE  PaidInv'
<1>1. IsDatabase(db) /\ NoneNegative(db)
  BY NowSound
<1>2. CASE Count \/ Totals \/ List \/ Operations \/ Links
  <2>1. \E query, name, answer, next :
          /\ Ask(query, name, answer, next)
          /\ name \notin {"invoices", "closings", "amounts", "payments"}
    <3>1. CASE Count
      BY <3>1 DEF Count
    <3>2. CASE Totals
      BY <3>2 DEF Totals
    <3>3. CASE List
      BY <3>3 DEF List
    <3>4. CASE Operations
      BY <3>4 DEF Operations
    <3>5. CASE Links
      BY <3>5 DEF Links
    <3> QED  BY <1>2, <3>1, <3>2, <3>3, <3>4, <3>5
  <2> QED  BY <2>1, AskedPaid
<1>3. CASE Invoices
  BY <1>3, InvoicesAre, AskedPaid DEF Invoices
<1>4. CASE AmountsOf
  BY <1>1, <1>4, AmountsAre, AskedPaid DEF AmountsOf
<1>5. CASE Closings
  BY <1>5, ClosingsAre, AskedPaid DEF Closings
<1>6. CASE Payments
  BY <1>1, <1>6, PaymentsAre, AskedPaid DEF Payments
<1> QED  BY <1>2, <1>3, <1>4, <1>5, <1>6

LEMMA MakeRowPaid == ASSUME ReadInv, PaidInv, MakeRow PROVE PaidInv'
<1> DEFINE n == Len(rows) + 1
           id == got.list[n].id
           docs == DocumentsOf(id)
           calculation == Calculation(got.ops, got.amounts, got.closings, id)
<1>1. PICK order \in Orders(docs) : rows' = Append(rows, MatrixRow(id, docs, calculation, order))
  BY DEF MakeRow
<1>2. pc = "rows" /\ got' = got /\ reply' = reply
  BY DEF MakeRow
<1>3. HasInvoices /\ HasOperations /\ HasAmounts /\ HasClosings /\ HasPayments
  BY <1>2 DEF HasList, HasInvoices, HasOperations, HasAmounts, HasClosings, HasPayments
<1>4. /\ IsFiniteSet(got.ops) /\ ArePaid(got.amounts) /\ AreInvoices(got.invoices)
      /\ AreClosings(got.closings) /\ ArePayments(got.payments)
  BY <1>3 DEF ReadInv, InvoicesRead, OperationsRead, AmountsRead, ClosingsRead, PaymentsRead,
    PaidInv, HandSound
<1>5. /\ \A d \in docs : d.kind = "payment" => d.amount \in Nat
      /\ calculation.payments \in Nat
  <2> HIDE DEF id
  <2> QED  BY <1>4, RowIsPaid DEF DocumentsOf
<1> DEFINE row == MatrixRow(id, docs, calculation, order)
<1>6. RowPaid(row)
  <2>1. row.documents = docs /\ row.payments = calculation.payments
    BY DEF MatrixRow
  <2> HIDE DEF row, docs, calculation
  <2> QED  BY <1>5, <2>1 DEF RowPaid
<1>7. rows = [k \in 1..Len(rows) |-> rows[k]] /\ Len(rows) \in Nat
  BY DEF ReadInv, RowsMade
<1>8. \A k \in DOMAIN rows' : rows'[k] = row \/ (k \in DOMAIN rows /\ rows'[k] = rows[k])
  <2> DEFINE S == {rows[k] : k \in DOMAIN rows} \cup {row}
  <2>1. rows \in Seq({rows[k] : k \in DOMAIN rows})
    BY <1>7, SequenceOf
  <2>2. rows \in Seq(S)
    BY <2>1, SeqMonotonic
  <2>3. rows' = Append(rows, row) /\ row \in S
    BY <1>1
  <2> HIDE DEF S, row
  <2>4. /\ rows' \in Seq(S) /\ Len(rows') = n /\ rows'[n] = row
        /\ \A k \in 1..Len(rows) : rows'[k] = rows[k]
    BY <2>2, <2>3, AppendProperties
  <2>5. DOMAIN rows' = 1..n
    BY <2>4, LenProperties
  <2> QED  BY <1>7, <2>4, <2>5
<1> HIDE DEF row
<1>9. HandSound' /\ Answered' = Answered
  BY <1>2 DEF PaidInv, HandSound, Answered
<1> QED  BY <1>2, <1>6, <1>8, <1>9 DEF PaidInv

\* An answer ends the request, and is either a page of the rows or no page.
LEMMA AnswerPaid ==
  ASSUME PaidInv, NEW r, Answer(r), r = Page200 \/ "items" \notin DOMAIN r
  PROVE  PaidInv'
<1>1. reply' = r /\ got' = Nothing /\ rows' = <<>>
  BY DEF Answer
<1>2. HandSound' /\ \A k \in DOMAIN rows' : RowPaid(rows'[k])
  BY <1>1 DEF HandSound, Nothing
<1>3. CASE r = Page200
  <2>1. /\ reply'.items = rows /\ reply'.req = req
        /\ reply'.workbook = IF req.xlsx THEN Workbook(rows) ELSE Nothing
    BY <1>1, <1>3 DEF Page200
  <2> QED  BY <1>2, <2>1 DEF PaidInv
<1>4. CASE "items" \notin DOMAIN r
  BY <1>1, <1>2, <1>4 DEF PaidInv, Answered
<1> QED  BY <1>3, <1>4

LEMMA AnswersPaid ==
  ASSUME PaidInv, Receive \/ Finish \/ QueryFails \/ Search \/ Restart
  PROVE  PaidInv'
<1>1. CASE Receive
  <2>1. CASE Answer(Failed(401)) \/ Answer(Failed(400))
    BY <2>1, AnswerPaid DEF Failed
  <2>2. ASSUME NEW h, got' = [began |-> now, headers |-> h], reply' = NoReply, rows' = rows
        PROVE  PaidInv'
    BY <2>2 DEF PaidInv, HandSound, NoReply, Answered
  <2> QED  BY <1>1, <2>1, <2>2, ReceiveTakes
<1>2. CASE Finish
  <2>1. Answer(Failed(401)) \/ Answer(Page200)
    BY <1>2 DEF Finish
  <2> QED  BY <2>1, AnswerPaid DEF Failed
<1>3. CASE QueryFails
  BY <1>3, AnswerPaid DEF QueryFails, Failed
<1>4. CASE Search
  <2>1. PICK r : Answer(r) /\ "items" \notin DOMAIN r
    BY <1>4 DEF Search, Failed
  <2> QED  BY <2>1, AnswerPaid
<1>5. CASE Restart
  BY <1>5, AnswerPaid DEF Restart, NoReply
<1> QED  BY <1>1, <1>2, <1>3, <1>4, <1>5

LEMMA PaidStep ==
  ASSUME ReadInv, PaidInv, NothingRefunded, [Next]_vars
  PROVE  PaidInv'
<1>1. CASE Edit \/ SessionStep \/ UNCHANGED vars
  <2>1. got' = got /\ rows' = rows /\ reply' = reply
    BY <1>1 DEF Edit, SessionStep, vars, requestVars
  <2> QED  BY <2>1 DEF PaidInv, HandSound, Answered
<1> QED  BY <1>1, QueriesPaid, MakeRowPaid, AnswersPaid DEF Next

-----------------------------------------------------------------------------
(* The column of payments                                                    *)

\* The lines of the invoices of a row, before what is left over has its own.
OwnLines(row) ==
  IF row.invoices = <<>>
  THEN <<[amount |-> Cell(row.invoiceSum), paid |-> Blank]>>
  ELSE [i \in DOMAIN row.invoices |->
          [amount |-> Cell(row.invoices[i].amount),
           paid |-> IF row.invoices[i].opers = {} THEN Blank
                    ELSE Cell(row.invoices[i].paid)]]

LEMMA LinesOfRow == ASSUME NEW row PROVE InvoiceLines(row) = WithUnassignedPayment(OwnLines(row), row)
BY DEF InvoiceLines, OwnLines

LEMMA NumbersFinite == ASSUME NEW n \in Nat PROVE IsFiniteSet(1..n)
BY FS_Interval

\* The line for what is left over brings the column to the sum that was paid.
LEMMA LeftOver ==
  ASSUME NEW n \in Nat, NEW lines, lines = [k \in 1..n |-> lines[k]],
         \A k \in 1..n : lines[k].paid.value \in Nat,
         NEW row, row.payments \in Nat
  PROVE  LET all == WithUnassignedPayment(lines, row) IN
         /\ \A k \in DOMAIN all : all[k].paid.value >= 0
         /\ PaidInLines(lines) <= row.payments => PaidInLines(all) = row.payments
<1> DEFINE left == row.payments - PaidInLines(lines)
           last == [amount |-> Blank, paid |-> Cell(left)]
           all == WithUnassignedPayment(lines, row)
           F == [k \in 1..n |-> lines[k].paid.value]
<1>1. PaidInLines(lines) = SumFunctionOnSet(F, 1..n) /\ \A k \in 1..n : F[k] \in Nat
  BY DEF PaidInLines, SumFunction
<1>2. PaidInLines(lines) \in Nat
  <2>1. PICK U : U = 1..n
    OBVIOUS
  <2>2. IsFiniteSet(U)
    BY <2>1, NumbersFinite
  <2> HIDE DEF F
  <2>3. \A k \in U : F[k] \in Nat
    BY <1>1, <2>1
  <2>4. SumFunctionOnSet(F, U) \in Nat
    BY ONLY <2>2, <2>3, SumNatural
  <2> QED  BY <1>1, <2>1, <2>4
<1>3. all = IF left > 0 THEN Append(lines, last) ELSE lines
  BY DEF WithUnassignedPayment
<1>4. CASE left > 0
  <2> DEFINE S == {lines[k] : k \in DOMAIN lines} \cup {last}
  <2>1. lines \in Seq({lines[k] : k \in DOMAIN lines}) /\ Len(lines) = n
    BY SequenceOf
  <2>2. lines \in Seq(S) /\ last \in S
    BY <2>1, SeqMonotonic
  <2>3. all = Append(lines, last)
    BY <1>3, <1>4
  <2>4. last.paid.value = left
    BY DEF Cell
  <2> HIDE DEF S, last, all
  <2>5. /\ all \in Seq(S) /\ Len(all) = n + 1 /\ all[n + 1] = last
        /\ \A k \in 1..n : all[k] = lines[k]
    BY <2>1, <2>2, <2>3, AppendProperties
  <2>6. DOMAIN all = 1..(n + 1)
    BY <2>5, LenProperties
  <2> DEFINE G == [k \in 1..(n + 1) |-> all[k].paid.value]
  <2>7. PaidInLines(all) = SumFunctionOnSet(G, 1..(n + 1))
    BY <2>6 DEF PaidInLines, SumFunction
  <2>8. (\A k \in 1..n : G[k] = F[k]) /\ G[n + 1] = left /\ left \in Int
    BY <1>2, <2>4, <2>5
  <2>9. \A k \in 1..(n + 1) : G[k] \in Int
    <3> HIDE DEF F, G, left
    <3>1. \A k \in 1..(n + 1) : k \in 1..n \/ k = n + 1
      OBVIOUS
    <3> QED  BY <1>1, <2>8, <3>1
  <2>10. (1..(n + 1)) \ {n + 1} = 1..n /\ n + 1 \in 1..(n + 1)
    OBVIOUS
  <2>11. IsFiniteSet(1..n) /\ IsFiniteSet(1..(n + 1))
    BY FS_Interval
  <2> HIDE DEF G, F
  <2>12. SumFunctionOnSet(G, 1..(n + 1)) = G[n + 1] + SumFunctionOnSet(G, 1..n)
    <3>1. PICK U, V : U = 1..(n + 1) /\ V = 1..n
      OBVIOUS
    <3>2. IsFiniteSet(U) /\ (\A k \in U : G[k] \in Int) /\ n + 1 \in U /\ U \ {n + 1} = V
          /\ U \in SUBSET U
      BY <2>9, <2>10, <2>11, <3>1
    <3>3. SumFunctionOnSet(G, U) = G[n + 1] + SumFunctionOnSet(G, U \ {n + 1})
      BY <3>2, SumWithout
    <3> QED  BY <3>1, <3>2, <3>3
  <2>13. SumFunctionOnSet(G, 1..n) = SumFunctionOnSet(F, 1..n)
    BY <2>8, <2>11, SumAgrees
  <2>14. PaidInLines(all) = row.payments
    BY <1>1, <1>2, <2>7, <2>8, <2>12, <2>13
  <2>15. ASSUME NEW k \in DOMAIN all PROVE all[k].paid.value >= 0
    <3>1. k \in 1..n \/ k = n + 1
      BY <2>6
    <3>2. CASE k \in 1..n
      BY <2>5, <3>2
    <3>3. CASE k = n + 1
      <4>1. all[k].paid.value = left
        BY <2>4, <2>5, <3>3
      <4>2. left >= 0
        BY <1>2, <1>4
      <4> QED  BY <4>1, <4>2
    <3> QED  BY <3>1, <3>2, <3>3
  <2> QED  BY <2>14, <2>15 DEF all
<1>5. CASE ~ (left > 0)
  <2>1. all = lines /\ DOMAIN lines = 1..n
    BY <1>3, <1>5
  <2>2. PaidInLines(lines) <= row.payments => PaidInLines(lines) = row.payments
    BY <1>2, <1>5
  <2> HIDE DEF all
  <2> QED  BY <2>1, <2>2 DEF all
<1> QED  BY <1>4, <1>5

LEMMA PaidToNatural ==
  ASSUME NEW docs, IsFiniteSet(docs), \A d \in docs : d.kind = "payment" => d.amount \in Nat, NEW o
  PROVE  PaidTo(docs, o) \in Nat
<1> DEFINE D == {x \in docs : x.kind = "payment" /\ x.oper = o}
           K == [d \in D |-> d.amount]
<1>1. PaidTo(docs, o) = SumFunctionOnSet(K, D) /\ \A d \in D : K[d] \in Nat
  BY DEF PaidTo, SumFunction
<1>2. IsFiniteSet(D)
  BY FS_Subset
<1> HIDE DEF K, D
<1> QED  BY <1>1, <1>2, SumNatural

LEMMA PaidOperationsFinite ==
  ASSUME NEW docs, IsFiniteSet(docs) PROVE IsFiniteSet(PaidOperations(docs))
<1> DEFINE D == {x \in docs : x.kind = "payment"}
           f == [d \in D |-> d.oper]
<1>1. IsFiniteSet(D)
  BY FS_Subset
<1>2. IsFiniteSet({f[d] : d \in D})
  <2> HIDE DEF D, f
  <2> QED  BY <1>1, ImageFinite
<1>3. PaidOperations(docs) \subseteq {f[d] : d \in D}
  BY DEF PaidOperations
<1> QED  BY <1>2, <1>3, FS_Subset

\* The lines of a row's own invoices show some of the payments, each of them
\* once, and none below zero.
LEMMA OwnLinesShow ==
  ASSUME NEW r, RowMade(r), RowPaid(r)
  PROVE  \E n \in Nat, T \in SUBSET PaidOperations(r.documents) :
           /\ OwnLines(r) = [k \in 1..n |-> OwnLines(r)[k]]
           /\ \A k \in 1..n : OwnLines(r)[k].paid.value \in Nat
           /\ PaidInLines(OwnLines(r))
                = SumFunctionOnSet([o \in PaidOperations(r.documents) |-> PaidTo(r.documents, o)], T)
<1> DEFINE docs == r.documents
           P == PaidOperations(docs)
           F == [o \in P |-> PaidTo(docs, o)]
<1>1. IsFiniteSet(docs) /\ IsFiniteSet(P)
  BY PaidOperationsFinite DEF RowMade
<1>2. \A o \in P : F[o] \in Nat
  BY <1>1, PaidToNatural DEF RowPaid
<1>3. PICK order \in Orders(docs) : r.invoices = [i \in DOMAIN order |-> InvoiceCell(docs, order, i)]
  BY DEF RowMade
<1>4. PICK n \in Nat : DOMAIN order = 1..n
  BY <1>1, OrderIsNumbered
<1>5. CASE r.invoices = <<>>
  <2> DEFINE line == [amount |-> Cell(r.invoiceSum), paid |-> Blank]
  <2>1. OwnLines(r) = <<line>>
    BY <1>5 DEF OwnLines
  <2>2. line.paid.value = 0
    BY DEF Blank
  <2> DEFINE G == [k \in 1..1 |-> <<line>>[k].paid.value]
  <2> HIDE DEF line
  <2>3. G[1] = 0 /\ 1..1 = {1} /\ DOMAIN <<line>> = 1..1
    BY <2>2
  <2>4. PaidInLines(<<line>>) = SumFunctionOnSet(G, {1})
    BY <2>3 DEF PaidInLines, SumFunction
  <2>5. SumFunctionOnSet(G, {1}) = 0
    <3> HIDE DEF G
    <3>1. G[1] = 0 /\ G[1] \in Int
      BY <2>3
    <3>2. SumFunctionOnSet(G, {1}) = G[1]
      BY ONLY <3>1, SumOfOne
    <3> QED  BY <3>1, <3>2
  <2>6. SumFunctionOnSet(F, {}) = 0
    BY SumOfNone
  <2>7. <<line>> = [k \in 1..1 |-> <<line>>[k]] /\ \A k \in 1..1 : <<line>>[k].paid.value \in Nat
    BY <2>2
  <2>8. PaidInLines(OwnLines(r)) = SumFunctionOnSet(F, {})
    BY <2>1, <2>4, <2>5, <2>6
  <2> HIDE DEF F, G
  <2> WITNESS 1 \in Nat
  <2> WITNESS {} \in SUBSET PaidOperations(r.documents)
  <2> QED  BY <2>1, <2>7, <2>8 DEF F
<1>6. CASE r.invoices # <<>>
  <2> DEFINE taken(i) == TakenBy(docs, order, i)
             T == UNION {taken(i) : i \in 1..n}
             m == [o \in T |-> CHOOSE i \in 1..n : o \in taken(i)]
             lines == OwnLines(r)
             G == [k \in 1..n |-> lines[k].paid.value]
  <2>1. \A i \in 1..n : taken(i) \in SUBSET P
    BY DEF TakenBy
  <2>2. \A i \in 1..n : r.invoices[i].opers = taken(i)
                        /\ r.invoices[i].paid = SumFunction([o \in taken(i) |-> PaidTo(docs, o)])
    BY <1>3, <1>4 DEF InvoiceCell
  <2>3. DOMAIN r.invoices = 1..n
    BY <1>3, <1>4
  <2>4. /\ lines = [k \in 1..n |-> lines[k]] /\ DOMAIN lines = 1..n
        /\ \A k \in 1..n : lines[k].paid = IF taken(k) = {} THEN Blank ELSE Cell(r.invoices[k].paid)
    BY <1>6, <2>2, <2>3 DEF OwnLines
  <2>5. ASSUME NEW k \in 1..n
        PROVE  lines[k].paid.value = SumFunctionOnSet(F, taken(k))
    <3> DEFINE K == [o \in taken(k) |-> PaidTo(docs, o)]
    <3>1. CASE taken(k) = {}
      BY <2>4, <3>1, SumOfNone DEF Blank
    <3>2. CASE taken(k) # {}
      <4>1. lines[k].paid.value = SumFunction(K)
        <5>1. r.invoices[k].paid = SumFunction(K)
          BY <2>2
        <5> HIDE DEF K, lines, taken
        <5>2. lines[k].paid = Cell(r.invoices[k].paid)
          BY <2>4, <3>2
        <5>3. \A v : Cell(v).value = v
          BY DEF Cell
        <5> QED  BY <5>1, <5>2, <5>3
      <4>2. SumFunction(K) = SumFunctionOnSet(K, taken(k))
        BY DEF SumFunction
      <4>3. IsFiniteSet(taken(k))
        BY <1>1, <2>1, FS_Subset
      <4>4. \A o \in taken(k) : K[o] = F[o]
        BY <2>1
      <4> HIDE DEF K, F, taken
      <4>5. SumFunctionOnSet(K, taken(k)) = SumFunctionOnSet(F, taken(k))
        BY <4>3, <4>4, SumAgrees
      <4> QED  BY <4>1, <4>2, <4>5
    <3> QED  BY <3>1, <3>2
  <2>6. ASSUME NEW a \in 1..n, NEW b \in 1..n, NEW o, o \in taken(a), o \in taken(b)
        PROVE  a = b
    <3>1. o \in Named(order[a]) /\ o \in Named(order[b])
      BY <2>6 DEF TakenBy
    <3>2. CASE a < b
      <4>1. a \in 1..(b - 1)
        BY <3>2
      <4> QED  BY <2>6, <3>1, <4>1 DEF TakenBy
    <3>3. CASE b < a
      <4>1. b \in 1..(a - 1)
        BY <3>3
      <4> QED  BY <2>6, <3>1, <4>1 DEF TakenBy
    <3> QED  BY <3>2, <3>3
  <2>7. T \in SUBSET P
    BY <2>1
  <2>8. \A o \in T : m[o] \in 1..n /\ o \in taken(m[o])
    <3> HIDE DEF taken
    <3> QED  OBVIOUS
  <2>9. \A k \in 1..n : {o \in T : m[o] = k} = taken(k)
    <3> SUFFICES ASSUME NEW k \in 1..n PROVE {o \in T : m[o] = k} = taken(k)
      OBVIOUS
    <3>1. taken(k) \subseteq T
      OBVIOUS
    <3> HIDE DEF taken, T, m
    <3> QED  BY <2>6, <2>8, <3>1
  <2>10. \A k \in 1..n : G[k] = SumFunctionOnSet(F, {o \in T : m[o] = k})
    <3> HIDE DEF taken, T, m, F, lines
    <3> QED  BY <2>5, <2>9
  <2>11. IsFiniteSet(T) /\ IsFiniteSet(1..n)
    BY <1>1, <2>7, FS_Subset, NumbersFinite
  <2>12. PaidInLines(lines) = SumFunctionOnSet(G, 1..n)
    <3> HIDE DEF lines
    <3> QED  BY <2>4 DEF PaidInLines, SumFunction
  <2> HIDE DEF taken, T, m, F, G
  <2>13. SharedOut(F, T, m, G, 1..n)
    <3>1. (\A o \in T : F[o] \in Int) /\ (\A o \in T : m[o] \in 1..n)
      BY <1>2, <2>7, <2>8
    <3> QED  BY <2>10, <2>11, <3>1 DEF SharedOut
  <2>14. PaidInLines(lines) = SumFunctionOnSet(F, T)
    BY <2>12, <2>13, SumOfGroups
  <2>15. \A k \in 1..n : lines[k].paid.value \in Nat
    <3> SUFFICES ASSUME NEW k \in 1..n PROVE lines[k].paid.value \in Nat
      OBVIOUS
    <3>1. IsFiniteSet(taken(k)) /\ \A o \in taken(k) : F[o] \in Nat
      BY <1>1, <1>2, <2>1, FS_Subset
    <3>2. SumFunctionOnSet(F, taken(k)) \in Nat
      BY <3>1, SumNatural
    <3> QED  BY <2>5, <3>2
  <2> HIDE DEF lines
  <2> WITNESS n \in Nat
  <2> WITNESS T \in SUBSET PaidOperations(r.documents)
  <2> QED  BY <2>4, <2>14, <2>15 DEF lines, F
<1> QED  BY <1>5, <1>6

\* The operations of a delivery are of its database, and their payments are
\* counted once for it.
LEMMA PaidOfOperation ==
  ASSUME NEW d, IsDatabase(d), NoneNegative(d), AllocatedInFull(d), AttachedOnce(d),
         NEW specIds, NEW id,
         NEW ops, ops = OperationRows(d, specIds),
         NEW ids, ids = {x.oper.id : x \in ops},
         NEW docs,
         docs = Documents(ops, Amounts(d, ids), InvoiceLinks(d, ids), InvoiceRows(d, specIds),
                  PreferAggregateRows(ClosingRows(d, ids)), PaymentRows(d, ids), id),
         NEW o \in PaidOperations(docs)
  PROVE  /\ o \in {x.oper.id : x \in OperationsOf(ops, id)}
         /\ PaidTo(docs, o) \in Int /\ PaidTo(docs, o) <= Paid(Amounts(d, ids), o)
<1> DEFINE D == {e \in docs : e.kind = "payment" /\ e.oper = o}
           amounts == Amounts(d, ids)
           payments == PaymentRows(d, ids)
<1>1. PICK e \in D : TRUE
  BY DEF PaidOperations
<1>2. ASSUME NEW f \in D
      PROVE  \E x \in OperationsOf(ops, id) :
               f \in PaymentDocuments(x, amounts, payments) /\ x.oper.id = o
  <2>1. AreInvoices(InvoiceRows(d, specIds)) /\ AreClosings(PreferAggregateRows(ClosingRows(d, ids)))
    BY InvoicesAre, ClosingsAre
  <2>2. f \in docs /\ f.kind = "payment" /\ f.oper = o
    OBVIOUS
  <2>3. PICK x \in OperationsOf(ops, id) : f \in PaymentDocuments(x, amounts, payments)
    <3>1. PICK I, C : I = InvoiceRows(d, specIds) /\ C = PreferAggregateRows(ClosingRows(d, ids))
      OBVIOUS
    <3>2. PICK L, E, P : L = InvoiceLinks(d, ids) /\ E = amounts /\ P = payments
      OBVIOUS
    <3>3. /\ f \in Documents(ops, E, L, I, C, P, id) /\ f.kind = "payment"
          /\ AreInvoices(I) /\ AreClosings(C)
      BY <2>1, <2>2, <3>1, <3>2
    <3>4. \E x \in OperationsOf(ops, id) : f \in PaymentDocuments(x, E, P)
      BY ONLY <3>3, PaymentOfOperation DEF AreInvoices, AreClosings
    <3> QED  BY <3>2, <3>4
  <2> HIDE DEF amounts, payments
  <2>4. f.oper = x.oper.id
    BY <2>3, PaymentDocumentIs
  <2> QED  BY <2>2, <2>3, <2>4
<1>3. PICK x \in OperationsOf(ops, id) : e \in PaymentDocuments(x, amounts, payments) /\ x.oper.id = o
  BY <1>1, <1>2
<1>4. x \in ops /\ x.oper \in d.opers /\ x.oper.id \in ids
  BY <1>3 DEF OperationsOf, OperationRows
<1>5. D = PaymentDocuments(x, amounts, payments)
  <2>1. ASSUME NEW f \in D PROVE f \in PaymentDocuments(x, amounts, payments)
    <3>1. PICK y \in OperationsOf(ops, id) :
            f \in PaymentDocuments(y, amounts, payments) /\ y.oper.id = o
      BY <1>2
    <3>2. y = x
      BY <1>3, <3>1, ListedOnce
    <3> QED  BY <3>1, <3>2
  <2>2. ASSUME NEW f \in PaymentDocuments(x, amounts, payments) PROVE f \in D
    <3>1. f \in docs
      BY <2>2, PaymentIsDocument
    <3>2. f.kind = "payment" /\ f.oper = x.oper.id
      <4> HIDE DEF amounts, payments
      <4> QED  BY <2>2, PaymentDocumentIs
    <3> QED  BY <1>3, <3>1, <3>2
  <2> HIDE DEF D
  <2> QED  BY <2>1, <2>2
<1>6. IsFiniteSet(ids)
  BY OperationRowsFinite, OperIdsFinite
<1>7. PaidTo(docs, o) = SumFunction([f \in D |-> f.amount])
  BY DEF PaidTo
<1>8. D # {}
  BY <1>1
<1>9. Paid(amounts, o) = x.oper.paid
  BY <1>3, <1>4, PaidIs DEF NoneNegative
<1> HIDE DEF D
<1>10. /\ SumFunction([f \in D |-> f.amount]) \in Int
       /\ SumFunction([f \in D |-> f.amount]) <= x.oper.paid
  BY <1>4, <1>5, <1>6, <1>8, PaymentsOfOperation
<1>11. o \in {y.oper.id : y \in OperationsOf(ops, id)}
  BY <1>3
<1> QED  BY <1>7, <1>9, <1>10, <1>11

\* The payments that a row of one read shows are no more than it was paid.
LEMMA ShownNoMore ==
  ASSUME ReadInv, NothingRefunded, Untouched, AllocatedInFull(ErpThen), AttachedOnce(ErpThen),
         NEW r \in Rows, NEW T \in SUBSET PaidOperations(r.documents)
  PROVE  SumFunctionOnSet([o \in PaidOperations(r.documents) |-> PaidTo(r.documents, o)], T)
           <= r.payments
<1> DEFINE d == ErpThen
           ops == OperationRows(d, Shown)
           ids == {x.oper.id : x \in ops}
           docs == r.documents
           O == {x.oper.id : x \in OperationsOf(ops, r.spec)}
           F == [o \in PaidOperations(docs) |-> PaidTo(docs, o)]
           K == [o \in O |-> Paid(Amounts(d, ids), o)]
<1>1. IsDatabase(d) /\ RowOf(d, Shown, r)
  BY ShownRow
<1>2. NoneNegative(d)
  BY DEF ReadInv, Moment, ReplySound, Untouched, ErpThen, NothingRefunded
<1>3. docs = Documents(ops, Amounts(d, ids), InvoiceLinks(d, ids), InvoiceRows(d, Shown),
               PreferAggregateRows(ClosingRows(d, ids)), PaymentRows(d, ids), r.spec)
  BY ShownDocuments
<1>4. r.payments = SumFunctionOnSet(K, O)
  BY <1>1 DEF RowOf, ReadAtOnce, Calculation, SumFunction
<1>5. IsFiniteSet(O)
  <2>1. IsFiniteSet(ops) /\ OperationsOf(ops, r.spec) \subseteq ops
    BY <1>1, OperationRowsFinite DEF OperationsOf
  <2>2. IsFiniteSet(OperationsOf(ops, r.spec))
    BY <2>1, FS_Subset
  <2> QED  BY <2>2, OperIdsFinite
<1>6. \A o \in O : K[o] \in Nat
  BY <1>1, <1>2, AmountsAre, PaidNatural
<1>7. ASSUME NEW o \in PaidOperations(docs)
      PROVE  o \in O /\ F[o] \in Int /\ F[o] <= K[o]
  <2>1. /\ o \in O /\ PaidTo(docs, o) \in Int /\ PaidTo(docs, o) <= Paid(Amounts(d, ids), o)
    <3>1. PICK E : E = d
      OBVIOUS
    <3>2. PICK U : U = ops
      OBVIOUS
    <3>3. PICK V : V = ids
      OBVIOUS
    <3>4. PICK W : W = docs
      OBVIOUS
    <3>5. /\ IsDatabase(E) /\ NoneNegative(E) /\ AllocatedInFull(E) /\ AttachedOnce(E)
          /\ U = OperationRows(E, Shown) /\ V = {x.oper.id : x \in U}
          /\ W = Documents(U, Amounts(E, V), InvoiceLinks(E, V), InvoiceRows(E, Shown),
                   PreferAggregateRows(ClosingRows(E, V)), PaymentRows(E, V), r.spec)
          /\ o \in PaidOperations(W)
      BY <1>1, <1>2, <1>3, <1>7, <3>1, <3>2, <3>3, <3>4
    <3>6. /\ o \in {x.oper.id : x \in OperationsOf(U, r.spec)}
          /\ PaidTo(W, o) \in Int /\ PaidTo(W, o) <= Paid(Amounts(E, V), o)
      BY ONLY <3>5, PaidOfOperation
    <3> QED  BY <3>1, <3>2, <3>3, <3>4, <3>6
  <2> QED  BY <2>1
<1> HIDE DEF K, F, O, docs
<1>8. T \subseteq O /\ \A o \in T : F[o] \in Int /\ K[o] \in Int /\ F[o] <= K[o]
  BY <1>6, <1>7 DEF docs
<1>9. IsFiniteSet(T)
  BY <1>5, <1>8, FS_Subset
<1>10. SumFunctionOnSet(F, T) <= SumFunctionOnSet(K, T)
  BY <1>8, <1>9, SumMonotone
<1>11. SumFunctionOnSet(K, T) <= SumFunctionOnSet(K, O)
  BY <1>5, <1>6, <1>8, SumOfPart
<1>12. SumFunctionOnSet(F, T) \in Int /\ SumFunctionOnSet(K, T) \in Int /\ SumFunctionOnSet(K, O) \in Int
  BY <1>5, <1>6, <1>8, <1>9, SumInteger
<1> QED  BY <1>4, <1>10, <1>11, <1>12 DEF F, docs

LEMMA PaidColumns == ASSUME ReadInv, PaidInv, NothingRefunded PROVE PaidColumnAddsUp
<1> SUFFICES ASSUME Answered, reply.req.xlsx, NEW i \in DOMAIN reply.items
             PROVE  LET lines == reply.workbook.blocks[i] IN
                    /\ \A k \in DOMAIN lines : lines[k].paid.value >= 0
                    /\ reply.unedited /\ AllocatedInFull(ErpThen) /\ AttachedOnce(ErpThen) =>
                         PaidInLines(lines) = reply.items[i].payments
  BY DEF PaidColumnAddsUp
<1> DEFINE r == reply.items[i]
           own == OwnLines(r)
           all == WithUnassignedPayment(own, r)
<1>1. reply.workbook.blocks[i] = all
  BY LinesOfRow DEF PaidInv, Workbook
<1>2. RowMade(r) /\ RowPaid(r) /\ r \in Rows
  BY DEF ReadInv, ReplySound, PaidInv, Rows, ToSet
<1>3. PICK n \in Nat, T \in SUBSET PaidOperations(r.documents) :
        /\ own = [k \in 1..n |-> own[k]]
        /\ \A k \in 1..n : own[k].paid.value \in Nat
        /\ PaidInLines(own)
             = SumFunctionOnSet([o \in PaidOperations(r.documents) |-> PaidTo(r.documents, o)], T)
  BY <1>2, OwnLinesShow
<1>4. r.payments \in Nat
  BY <1>2 DEF RowPaid
<1>5. /\ \A k \in DOMAIN all : all[k].paid.value >= 0
      /\ PaidInLines(own) <= r.payments => PaidInLines(all) = r.payments
  <2> HIDE DEF own, r
  <2> QED  BY <1>3, <1>4, LeftOver
<1>6. ASSUME reply.unedited, AllocatedInFull(ErpThen), AttachedOnce(ErpThen)
      PROVE  PaidInLines(own) <= r.payments
  BY <1>2, <1>3, <1>6, ShownNoMore DEF Untouched
<1> HIDE DEF r, own, all
<1>7. reply.unedited /\ AllocatedInFull(ErpThen) /\ AttachedOnce(ErpThen) =>
        PaidInLines(all) = r.payments
  BY <1>5, <1>6
<1> QED  BY <1>1, <1>5, <1>7 DEF r

-----------------------------------------------------------------------------
(* The order of the list                                                     *)

\* How many rows come before r in ORDER BY dt DESC, id DESC.
Place(S, r) == Cardinality({s \in S : Newer(s, r)})

\* Every row has a place of its own, and there is a row for each place.
LEMMA PlacesAreTaken ==
  ASSUME NEW S, Keyed(S), \A s \in S : s.dt \in Nat, NEW n, n = Cardinality(S)
  PROVE  /\ n \in Nat
         /\ \A r \in S : Place(S, r) \in 0..(n - 1)
         /\ \A r, s \in S : Place(S, r) = Place(S, s) => r = s
         /\ \A t \in 0..(n - 1) : \E r \in S : Place(S, r) = t
<1> DEFINE before == [r \in S |-> {s \in S : Newer(s, r)}]
<1>1. /\ IsFiniteSet(S) /\ \A s \in S : s.id \in Nat
      /\ \A r, s \in S : r.id = s.id => r = s
  BY DEF Keyed
<1>2. RanksBy(before, S)
  <2>1. \A r \in S : ~ Newer(r, r)
    BY <1>1 DEF Newer
  <2>2. \A r, s, t \in S : Newer(t, r) /\ Newer(r, s) => Newer(t, s)
    BY <1>1 DEF Newer
  <2>3. \A r, s \in S : r # s => Newer(r, s) \/ Newer(s, r)
    BY <1>1 DEF Newer
  <2> QED  BY <2>1, <2>2, <2>3 DEF RanksBy
<1>3. \A r \in S : Cardinality(before[r]) = Place(S, r)
  BY DEF Place
<1> HIDE DEF before
<1>4. /\ n \in Nat
      /\ \A r \in S : Cardinality(before[r]) \in 0..(n - 1)
      /\ \A r, s \in S : Cardinality(before[r]) = Cardinality(before[s]) => r = s
      /\ \A t \in 0..(n - 1) : \E r \in S : Cardinality(before[r]) = t
  BY <1>1, <1>2, RanksAreTaken
<1> QED  BY <1>3, <1>4

\* ORDER BY lists every delivery, and none of them twice.
LEMMA ListedInOrder ==
  ASSUME NEW S, Keyed(S), \A s \in S : s.dt \in Nat, NEW n, n = Cardinality(S)
  PROVE  LET all == InOrder(S, Newer) IN
         /\ n \in Nat /\ all = [i \in 1..n |-> all[i]]
         /\ \A i \in 1..n : all[i] \in S
         /\ \A i, j \in 1..n : all[i] = all[j] => i = j
         /\ \A s \in S : \E i \in 1..n : all[i] = s
<1> DEFINE all == [i \in 1..n |-> CHOOSE r \in S : Place(S, r) = i - 1]
<1>1. InOrder(S, Newer) = all
  BY DEF InOrder, Place
<1>2. /\ n \in Nat
      /\ \A r \in S : Place(S, r) \in 0..(n - 1)
      /\ \A r, s \in S : Place(S, r) = Place(S, s) => r = s
      /\ \A t \in 0..(n - 1) : \E r \in S : Place(S, r) = t
  BY PlacesAreTaken
<1>3. \A i \in 1..n : all[i] \in S /\ Place(S, all[i]) = i - 1
  <2> SUFFICES ASSUME NEW i \in 1..n PROVE all[i] \in S /\ Place(S, all[i]) = i - 1
    OBVIOUS
  <2>1. i - 1 \in 0..(n - 1)
    BY <1>2
  <2>2. \E r \in S : Place(S, r) = i - 1
    BY <1>2, <2>1
  <2> QED  BY <2>2
<1>4. all = [i \in 1..n |-> all[i]]
  OBVIOUS
<1> HIDE DEF all
<1>5. \A i, j \in 1..n : all[i] = all[j] => i = j
  <2> SUFFICES ASSUME NEW i \in 1..n, NEW j \in 1..n, all[i] = all[j] PROVE i = j
    OBVIOUS
  <2>1. i - 1 = j - 1
    BY <1>3
  <2> QED  BY <1>2, <2>1
<1>6. \A s \in S : \E i \in 1..n : all[i] = s
  <2> SUFFICES ASSUME NEW s \in S PROVE \E i \in 1..n : all[i] = s
    OBVIOUS
  <2>1. PICK i : i = Place(S, s) + 1
    OBVIOUS
  <2>2. i \in 1..n /\ i - 1 = Place(S, s)
    BY <1>2, <2>1
  <2>3. all[i] = s
    BY <1>2, <1>3, <2>2
  <2> QED  BY <2>2, <2>3
<1> QED  BY <1>1, <1>2, <1>3, <1>4, <1>5, <1>6

\* A page that is as long as the whole list is the whole list.
LEMMA PageOfAll ==
  ASSUME NEW n \in Nat, NEW all, all = [i \in 1..n |-> all[i]],
         NEW limit \in Int, NEW offset \in Int,
         NEW page, page = Page(all, limit, Max({0, offset})), Len(page) = n
  PROVE  DOMAIN page = 1..n /\ \A i \in 1..n : page[i] = all[i]
<1> DEFINE S == {all[i] : i \in DOMAIN all}
           first == Max({0, offset})
           from == first + 1
           to == Min({first + limit, n})
<1>1. all \in Seq(S) /\ Len(all) = n /\ DOMAIN all = 1..n
  BY SequenceOf
<1>2. first \in Nat
  <2>1. 0 \in Int
    OBVIOUS
  <2>2. first \in Int /\ first >= 0
    BY <2>1, MaxOfTwo
  <2> HIDE DEF first
  <2> QED  BY <2>2
<1> HIDE DEF first
<1>3. to \in Int /\ to <= n
  <2>1. first + limit \in Int /\ n \in Int
    BY <1>2
  <2> QED  BY <2>1, MinOfTwo
<1>4. page = SubSeq(all, from, to)
  BY <1>1 DEF Page, first
<1> HIDE DEF to, S
<1>5. from \in Int /\ from \in Nat \ {0}
  BY <1>2
<1>6. /\ Len(page) = IF from <= to THEN to - from + 1 ELSE 0
      /\ page \in Seq(S)
      /\ \A i \in 1..(to - from + 1) : page[i] = all[from + i - 1]
  <2>1. \A i \in from..to : all[i] \in S
    BY <1>1, <1>3, <1>5, ElementOfSeq
  <2>2. to \in Int /\ from \in Int
    BY <1>3, <1>5
  <2>3. PICK u, v : u = from /\ v = to
    OBVIOUS
  <2>4. /\ SubSeq(all, u, v) \in Seq(S)
        /\ Len(SubSeq(all, u, v)) = IF u <= v THEN v - u + 1 ELSE 0
        /\ \A i \in 1..(v - u + 1) : SubSeq(all, u, v)[i] = all[u + i - 1]
    BY <2>1, <2>2, <2>3, SubSeqProperties
  <2> QED  BY <1>4, <2>3, <2>4
<1>7. DOMAIN page = 1..n
  BY <1>6, LenProperties
<1>8. CASE n = 0
  BY <1>7, <1>8
<1>9. CASE n # 0
  <2>1. from = 1 /\ to = n
    BY <1>3, <1>5, <1>6, <1>9
  <2>2. ASSUME NEW i \in 1..n PROVE page[i] = all[i]
    <3>1. i \in 1..(to - from + 1) /\ from + i - 1 = i
      BY <2>1
    <3> QED  BY <1>6, <3>1
  <2> QED  BY <1>7, <2>2
<1> QED  BY <1>8, <1>9

-----------------------------------------------------------------------------
(* The sums of a delivery                                                    *)

\* As many are chosen by what they are called as by what they are.
LEMMA CountRenamed ==
  ASSUME NEW S, IsFiniteSet(S), NEW T, NEW m,
         \A x \in S : m[x] \in T, \A x, y \in S : m[x] = m[y] => x = y,
         \A t \in T : \E x \in S : m[x] = t
  PROVE  Cardinality(S) = Cardinality(T)
<1> DEFINE f == [x \in S |-> m[x]]
<1>1. f \in [S -> T] /\ (\A x, y \in S : f[x] = f[y] => x = y) /\ \A t \in T : \E x \in S : f[x] = t
  OBVIOUS
<1> HIDE DEF f
<1>2. f \in Injection(S, T) /\ f \in Surjection(S, T)
  BY <1>1 DEF Injection, Surjection, IsInjective
<1>3. ExistsBijection(S, T)
  BY <1>2 DEF ExistsBijection, Bijection
<1> QED  BY <1>3, FS_Bijection

\* Sums over the operations of a delivery are sums over its rows where no
\* operation is listed twice.
LEMMA SumByOperation ==
  ASSUME NEW d, IsDatabase(d), AttachedOnce(d), NEW specIds, NEW id,
         NEW A \in SUBSET OperationsOf(OperationRows(d, specIds), id),
         NEW v, NEW w, \A r \in A : w[r] \in Int /\ v[r.oper.id] = w[r],
         NEW T, T = {r.oper.id : r \in A}
  PROVE  SumFunctionOnSet(v, T) = SumFunctionOnSet(w, A)
<1> DEFINE m == [r \in A |-> r.oper.id]
<1>1. IsFiniteSet(A)
  <2>1. A \subseteq OperationRows(d, specIds)
    BY DEF OperationsOf
  <2> QED  BY <2>1, OperationRowsFinite, FS_Subset
<1>2. IsFiniteSet(T)
  BY <1>1, OperIdsFinite
<1>3. \A r, s \in A : m[r] = m[s] => r = s
  BY ListedOnce
<1>4. \A r \in A : m[r] \in T
  OBVIOUS
<1>5. \A t \in T : \E r \in A : m[r] = t /\ v[t] = w[r]
  OBVIOUS
<1>6. \A r \in A : w[r] \in Int
  OBVIOUS
<1> HIDE DEF m
<1>7. SumFunctionOnSet(w, A) = SumFunctionOnSet(v, T)
  BY ONLY <1>1, <1>2, <1>3, <1>4, <1>5, <1>6, SumRenamed
<1> QED  BY <1>7

\* What get_realizsum answers for an operation.
LEMMA RealisedIs ==
  ASSUME NEW d, IsDatabase(d), NEW ids, NEW o \in d.opers, o.id \in ids, o.realiz \in Int
  PROVE  Realised(Amounts(d, ids), o.id) = o.realiz
<1> DEFINE f == [x \in {o} |-> x.realiz]
<1>1. ById(Amounts(d, ids), o.id) = {o}
  BY DEF ById, Amounts, IsDatabase, Keyed
<1>2. Realised(Amounts(d, ids), o.id) = SumFunction([x \in {o} |-> x.realiz])
  BY <1>1 DEF Realised
<1>3. SumFunction(f) = SumFunctionOnSet(f, {o}) /\ f[o] = o.realiz
  BY DEF SumFunction
<1> HIDE DEF f
<1>4. SumFunctionOnSet(f, {o}) = f[o]
  BY <1>3, SumOfOne
<1> QED  BY <1>2, <1>3, <1>4 DEF f

RowsPaid(R) == SumFunctionOnSet([r \in R |-> r.oper.paid], R)
RowsRealised(R) == SumFunctionOnSet([r \in R |-> r.oper.realiz], R)

\* The sums that Python makes of a delivery, as sums over its rows.
LEMMA CalculationByRows ==
  ASSUME NEW d, IsDatabase(d), ColumnsAreNumbers(d), AttachedOnce(d),
         NEW specIds, NEW id \in specIds,
         NEW sums, sums = ReadAtOnce(d, specIds, id).calculation,
         NEW R, R = OperationRows(d, {id})
  PROVE  /\ sums.payments = RowsPaid(R)
         /\ sums.balance = RowsPaid(R) - RowsRealised(R)
         /\ RowsPaid(R) \in Int /\ RowsRealised(R) \in Int
<1> DEFINE ops == OperationRows(d, specIds)
           ids == {x.oper.id : x \in ops}
           amounts == Amounts(d, ids)
           closings == PreferAggregateRows(ClosingRows(d, ids))
           other == {r \in R : CountsAsOther(r, closings)}
           paid == [o \in {r.oper.id : r \in R} |-> Paid(amounts, o)]
           realised(A) == [o \in {r.oper.id : r \in A} |-> Realised(amounts, o)]
           P == [r \in R |-> r.oper.paid]
           Q == [r \in R |-> r.oper.realiz]
<1>1. R = OperationsOf(ops, id)
  BY OperationRowsOfOne
<1>2. \A r \in R : r.oper \in d.opers /\ r.oper.id \in ids
  BY <1>1 DEF OperationsOf, OperationRows
<1>3. IsFiniteSet(R)
  BY OperationRowsFinite
<1>4. \A r \in R : P[r] \in Int /\ Q[r] \in Int
  BY <1>2 DEF ColumnsAreNumbers
<1>5. /\ sums.payments = SumFunction(paid)
      /\ sums.balance = SumFunction(paid) - SumFunction(realised(R \ other))
                                          - SumFunction(realised(other))
  BY <1>1 DEF ReadAtOnce, Calculation
<1>6. \A r \in R : Paid(amounts, r.oper.id) = r.oper.paid
                   /\ Realised(amounts, r.oper.id) = r.oper.realiz
  <2> SUFFICES ASSUME NEW r \in R
               PROVE  Paid(amounts, r.oper.id) = r.oper.paid
                      /\ Realised(amounts, r.oper.id) = r.oper.realiz
    OBVIOUS
  <2>1. PICK o \in d.opers : o = r.oper /\ o.id \in ids
    BY <1>2
  <2>2. o.paid \in Int /\ o.realiz \in Int
    BY DEF ColumnsAreNumbers
  <2> HIDE DEF ids
  <2>3. Paid(amounts, o.id) = o.paid /\ Realised(amounts, o.id) = o.realiz
    BY <2>1, <2>2, PaidIs, RealisedIs
  <2> QED  BY <2>1, <2>3
<1>7. SumFunction(paid) = RowsPaid(R)
  <2>1. SumFunction(paid) = SumFunctionOnSet(paid, {r.oper.id : r \in R})
    BY DEF SumFunction
  <2>2. \A r \in R : P[r] \in Int /\ paid[r.oper.id] = P[r]
    BY <1>4, <1>6
  <2>3. PICK T : T = {r.oper.id : r \in R}
    OBVIOUS
  <2>4. R \in SUBSET OperationsOf(OperationRows(d, specIds), id)
    BY <1>1
  <2> HIDE DEF paid, P, ops
  <2>5. IsDatabase(d) /\ AttachedOnce(d)
    OBVIOUS
  <2>6. SumFunctionOnSet(paid, T) = SumFunctionOnSet(P, R)
    BY ONLY <2>2, <2>3, <2>4, <2>5, SumByOperation
  <2> QED  BY <2>1, <2>3, <2>6 DEF RowsPaid, P
<1>8. ASSUME NEW A \in SUBSET R
      PROVE  SumFunction(realised(A)) = SumFunctionOnSet(Q, A)
  <2> DEFINE v == realised(A)
  <2>1. SumFunction(v) = SumFunctionOnSet(v, {r.oper.id : r \in A})
    BY DEF SumFunction
  <2>2. \A r \in A : Q[r] \in Int /\ v[r.oper.id] = Q[r]
    BY <1>4, <1>6
  <2>3. PICK T : T = {r.oper.id : r \in A}
    OBVIOUS
  <2>4. A \in SUBSET OperationsOf(OperationRows(d, specIds), id)
    BY <1>1
  <2> HIDE DEF v, Q, ops
  <2>5. IsDatabase(d) /\ AttachedOnce(d)
    OBVIOUS
  <2>6. SumFunctionOnSet(v, T) = SumFunctionOnSet(Q, A)
    BY ONLY <2>2, <2>3, <2>4, <2>5, SumByOperation
  <2> QED  BY <2>1, <2>3, <2>6 DEF v
<1>9. SumFunctionOnSet(Q, R) = SumFunctionOnSet(Q, other) + SumFunctionOnSet(Q, R \ other)
  <2> HIDE DEF Q
  <2>1. other \in SUBSET R
    OBVIOUS
  <2>2. \A r \in R : Q[r] \in Int
    BY <1>4
  <2> HIDE DEF other
  <2> QED  BY ONLY <1>3, <2>1, <2>2, SumOfBoth
<1>10. /\ SumFunctionOnSet(Q, R) \in Int /\ SumFunctionOnSet(Q, other) \in Int
       /\ SumFunctionOnSet(Q, R \ other) \in Int /\ SumFunctionOnSet(P, R) \in Int
  <2>1. other \subseteq R /\ IsFiniteSet(other) /\ IsFiniteSet(R \ other)
    BY <1>3, FS_Subset
  <2>2. (\A r \in other : Q[r] \in Int) /\ (\A r \in R \ other : Q[r] \in Int)
    BY <1>4
  <2> HIDE DEF Q, P, other
  <2> QED  BY <1>3, <1>4, <2>1, <2>2, SumInteger
<1>11. SumFunction(realised(R \ other)) = SumFunctionOnSet(Q, R \ other)
       /\ SumFunction(realised(other)) = SumFunctionOnSet(Q, other)
  <2>1. R \ other \in SUBSET R /\ other \in SUBSET R
    OBVIOUS
  <2> HIDE DEF other, realised, Q
  <2> QED  BY <1>8, <2>1
<1>12. RowsPaid(R) = SumFunctionOnSet(P, R) /\ RowsRealised(R) = SumFunctionOnSet(Q, R)
  BY DEF RowsPaid, RowsRealised
<1> HIDE DEF paid, realised, P, Q, other
<1> QED  BY <1>5, <1>7, <1>9, <1>10, <1>11, <1>12

\* The sums that SQL makes of a delivery.
LEMMA TotalsByRows ==
  ASSUME NEW d, IsDatabase(d), ColumnsAreNumbers(d), KindsClear(d), NEW id,
         NEW R, R = OperationRows(d, {id})
  PROVE  /\ PaymentTotal(d, id) = RowsPaid(R)
         /\ Expenses(d, id, TRUE) + Expenses(d, id, FALSE) = RowsRealised(R)
         /\ Expenses(d, id, TRUE) \in Int /\ Expenses(d, id, FALSE) \in Int
<1> DEFINE Counted(k) == {r \in R :
                    \/ r.oper.vozm = IF k THEN 1 ELSE 2
                    \/ /\ r.oper.vozm \notin {1, 2}
                       /\ r.spec.buyer # NoText
                       /\ (OperationContract(d, r) # r.spec.buyer) = k}
           Q == [r \in R |-> r.oper.realiz]
           A == Counted(TRUE)
           B == Counted(FALSE)
           C == (R \ A) \ B
<1>1. IsFiniteSet(R) /\ \A r \in R : r.oper \in d.opers /\ r.spec \in d.specs
  BY OperationRowsFinite DEF OperationRows
<1>2. \A r \in R : Q[r] \in Int /\ Q[r] = r.oper.realiz
  BY <1>1 DEF ColumnsAreNumbers
<1>3. ASSUME NEW k \in BOOLEAN
      PROVE  Expenses(d, id, k) = SumFunctionOnSet(Q, Counted(k))
  <2> DEFINE K == [r \in Counted(k) |-> r.oper.realiz]
  <2>1. Expenses(d, id, k) = SumFunction(K)
    BY DEF Expenses
  <2>2. SumFunction(K) = SumFunctionOnSet(K, Counted(k))
    BY DEF SumFunction
  <2>3. Counted(k) \subseteq R /\ \A r \in Counted(k) : K[r] = Q[r]
    BY <1>2
  <2> HIDE DEF K, Q, Counted
  <2>4. IsFiniteSet(Counted(k))
    BY <1>1, <2>3, FS_Subset
  <2>5. SumFunctionOnSet(K, Counted(k)) = SumFunctionOnSet(Q, Counted(k))
    BY <2>3, <2>4, SumAgrees
  <2> QED  BY <2>1, <2>2, <2>5
<1>4. A \in SUBSET R /\ B \in SUBSET (R \ A)
  OBVIOUS
<1>5. \A r \in C : Q[r] = 0
  <2> SUFFICES ASSUME NEW r \in C PROVE Q[r] = 0
    OBVIOUS
  <2>1. r \in R /\ r.oper.vozm \notin {1, 2} /\ r.spec.buyer = NoText
    <3>1. r \in R /\ r \notin A /\ r \notin B
      OBVIOUS
    <3>2. r.oper.vozm \notin {1, 2}
      BY <3>1
    <3>3. r.spec.buyer = NoText
      <4> SUFFICES ASSUME r.spec.buyer # NoText PROVE FALSE
        OBVIOUS
      <4>1. (OperationContract(d, r) # r.spec.buyer) # TRUE
        BY <3>1, <3>2
      <4>2. (OperationContract(d, r) # r.spec.buyer) # FALSE
        BY <3>1, <3>2
      <4> QED  BY <4>1, <4>2
    <3> QED  BY <3>1, <3>2, <3>3
  <2>2. r \in OperationRows(d, {s.id : s \in d.specs})
    BY <1>1, <2>1 DEF OperationRows
  <2>3. r.oper.realiz = 0
    BY <2>1, <2>2 DEF KindsClear
  <2> QED  BY <1>2, <2>1, <2>3
<1>6. /\ IsFiniteSet(A) /\ IsFiniteSet(B) /\ IsFiniteSet(R \ A) /\ IsFiniteSet(C)
      /\ A \subseteq R /\ R \ A \subseteq R /\ B \subseteq R
  BY <1>1, <1>4, FS_Subset
<1>7. Expenses(d, id, TRUE) = SumFunctionOnSet(Q, A) /\ Expenses(d, id, FALSE) = SumFunctionOnSet(Q, B)
  BY <1>3
<1>8. RowsRealised(R) = SumFunctionOnSet(Q, R)
  BY DEF RowsRealised
<1>9. PaymentTotal(d, id) = RowsPaid(R)
  BY DEF PaymentTotal, RowsPaid, SumFunction
<1>10. C = (R \ A) \ B
  OBVIOUS
<1> HIDE DEF Q, A, B, C
<1>11. SumFunctionOnSet(Q, R) = SumFunctionOnSet(Q, A) + SumFunctionOnSet(Q, R \ A)
  <2>1. IsFiniteSet(R) /\ (\A r \in R : Q[r] \in Int) /\ A \in SUBSET R
    BY <1>1, <1>2, <1>4
  <2> QED  BY ONLY <2>1, SumOfBoth
<1>12. SumFunctionOnSet(Q, R \ A) = SumFunctionOnSet(Q, B) + SumFunctionOnSet(Q, C)
  <2>1. \A r \in R \ A : Q[r] \in Int
    BY <1>2
  <2>2. SumFunctionOnSet(Q, R \ A) = SumFunctionOnSet(Q, B) + SumFunctionOnSet(Q, (R \ A) \ B)
    <3>1. IsFiniteSet(R \ A) /\ B \in SUBSET (R \ A)
      BY <1>4, <1>6
    <3>2. PICK S : S = R \ A
      OBVIOUS
    <3>3. IsFiniteSet(S) /\ B \in SUBSET S /\ \A r \in S : Q[r] \in Int
      BY <2>1, <3>1, <3>2
    <3>4. SumFunctionOnSet(Q, S) = SumFunctionOnSet(Q, B) + SumFunctionOnSet(Q, S \ B)
      BY ONLY <3>3, SumOfBoth
    <3> QED  BY <3>2, <3>4
  <2> QED  BY <1>10, <2>2
<1>13. SumFunctionOnSet(Q, C) = 0
  BY <1>5, <1>6, SumOfZeros
<1>14. SumFunctionOnSet(Q, A) \in Int /\ SumFunctionOnSet(Q, B) \in Int
  BY <1>2, <1>6, SumInteger
<1>15. RowsRealised(R) = SumFunctionOnSet(Q, A) + SumFunctionOnSet(Q, B)
  BY ONLY <1>8, <1>11, <1>12, <1>13, <1>14
<1> QED  BY ONLY <1>7, <1>9, <1>14, <1>15, Zenon

-----------------------------------------------------------------------------
(* The totals of all and the sums of a page of all                           *)

SelectedIds(d, f) == {s.id : s \in Selected(d, f)}

BalanceTotal(d, id) == PaymentTotal(d, id) - Expenses(d, id, TRUE) - Expenses(d, id, FALSE)

\* The sums of a row that a page shows are those that SQL makes of its delivery.
LEMMA RowByTotals ==
  ASSUME NEW d, IsDatabase(d), ColumnsAreNumbers(d), AttachedOnce(d), KindsClear(d),
         NEW specIds, NEW r, RowOf(d, specIds, r)
  PROVE  /\ r.payments = PaymentTotal(d, r.spec) /\ r.payments \in Int
         /\ r.balance = BalanceTotal(d, r.spec) /\ r.balance \in Int
<1> DEFINE id == r.spec
           sums == ReadAtOnce(d, specIds, id).calculation
           R == OperationRows(d, {id})
<1>1. id \in specIds /\ r.payments = sums.payments /\ r.balance = sums.balance
  BY DEF RowOf
<1>2. /\ sums.payments = RowsPaid(R)
      /\ sums.balance = RowsPaid(R) - RowsRealised(R)
      /\ RowsPaid(R) \in Int /\ RowsRealised(R) \in Int
  BY <1>1, CalculationByRows
<1>3. /\ PaymentTotal(d, id) = RowsPaid(R)
      /\ Expenses(d, id, TRUE) + Expenses(d, id, FALSE) = RowsRealised(R)
      /\ Expenses(d, id, TRUE) \in Int /\ Expenses(d, id, FALSE) \in Int
  BY TotalsByRows
<1>4. PICK p, a, b : p = RowsPaid(R) /\ a = Expenses(d, id, TRUE) /\ b = Expenses(d, id, FALSE)
  OBVIOUS
<1>5. p \in Int /\ a \in Int /\ b \in Int /\ a + b = RowsRealised(R)
  BY <1>2, <1>3, <1>4
<1>6. r.balance = p - (a + b)
  BY <1>1, <1>2, <1>4, <1>5
<1>7. r.balance = (p - a) - b /\ r.balance \in Int
  BY ONLY <1>5, <1>6
<1> HIDE DEF R, sums
<1>8. r.payments = p /\ PaymentTotal(d, id) = p
  BY <1>1, <1>2, <1>3, <1>4
<1>9. BalanceTotal(d, id) = (p - a) - b
  BY <1>4, <1>8 DEF BalanceTotal
<1> QED  BY <1>5, <1>7, <1>8, <1>9

\* A page of as many rows as there are deliveries has each of them once.
LEMMA PageOfEach ==
  ASSUME NEW d, IsDatabase(d), ColumnsAreNumbers(d), NEW f, NEW limit \in Int, NEW offset \in Int,
         NEW list, list = ListDeliveries(d, f, limit, offset),
         NEW n, n = CountDeliveries(d, f), Len(list) = n,
         NEW ids, ids = SelectedIds(d, f)
  PROVE  /\ n \in Nat /\ IsFiniteSet(ids)
         /\ \A k \in 1..n : list[k].id \in ids
         /\ \A j, k \in 1..n : list[j].id = list[k].id => j = k
         /\ \A id \in ids : \E k \in 1..n : list[k].id = id
<1> DEFINE S == Selected(d, f)
           all == InOrder(S, Newer)
<1> ids = {s.id : s \in Selected(d, f)}
  BY DEF SelectedIds
<1>1. Keyed(S) /\ IsFiniteSet(S) /\ \A s \in S : s.dt \in Nat
  <2>1. S \subseteq d.specs
    BY DEF Selected
  <2>2. IsFiniteSet(d.specs)
    BY DEF IsDatabase, Keyed
  <2>3. IsFiniteSet(S)
    BY <2>1, <2>2, FS_Subset
  <2> QED  BY <2>1, <2>3 DEF IsDatabase, Keyed, ColumnsAreNumbers
<1>2. n = Cardinality(S)
  BY DEF CountDeliveries
<1>3. /\ n \in Nat /\ all = [i \in 1..n |-> all[i]]
      /\ \A i \in 1..n : all[i] \in S
      /\ \A i, j \in 1..n : all[i] = all[j] => i = j
      /\ \A s \in S : \E i \in 1..n : all[i] = s
  <2> HIDE DEF S
  <2> QED  BY <1>1, <1>2, ListedInOrder DEF all
<1>4. list = Page(all, limit, Max({0, offset}))
  BY DEF ListDeliveries
<1>5. PICK whole : whole = all
  OBVIOUS
<1>6. \A i \in 1..n : list[i] = whole[i]
  <2>1. whole = [i \in 1..n |-> whole[i]] /\ list = Page(whole, limit, Max({0, offset}))
    BY <1>3, <1>4, <1>5
  <2> HIDE DEF all
  <2> QED  BY <1>3, <2>1, PageOfAll
<1>7. /\ \A i \in 1..n : whole[i] \in S
      /\ \A i, j \in 1..n : whole[i] = whole[j] => i = j
      /\ \A s \in S : \E i \in 1..n : whole[i] = s
  BY <1>3, <1>5
<1> HIDE DEF all
<1>8. IsFiniteSet(ids)
  <2> DEFINE g == [s \in S |-> s.id]
  <2>1. ids = {g[s] : s \in S}
    OBVIOUS
  <2>2. IsFiniteSet({g[s] : s \in S})
    <3> HIDE DEF g, S
    <3> QED  BY ONLY <1>1, ImageFinite
  <2> QED  BY ONLY <2>1, <2>2
<1>9. \A r, s \in S : r.id = s.id => r = s
  BY <1>1 DEF Keyed
<1>10. \A k \in 1..n : list[k].id \in ids
  BY <1>6, <1>7
<1>11. \A j, k \in 1..n : list[j].id = list[k].id => j = k
  BY <1>6, <1>7, <1>9
<1>12. \A id \in ids : \E k \in 1..n : list[k].id = id
  <2> SUFFICES ASSUME NEW s \in S PROVE \E k \in 1..n : list[k].id = s.id
    OBVIOUS
  <2> QED  BY <1>6, <1>7
<1> QED  BY <1>3, <1>8, <1>10, <1>11, <1>12

\* The n rows rs are those of the deliveries ids, one for each.
RowsOfEach(d, specIds, ids, n, rs) ==
  /\ Len(rs) = n /\ DOMAIN rs = 1..n
  /\ \A k \in 1..n : RowOf(d, specIds, rs[k]) /\ rs[k].spec \in ids
  /\ \A j, k \in 1..n : rs[j].spec = rs[k].spec => j = k
  /\ \A id \in ids : \E k \in 1..n : rs[k].spec = id

\* What the rows of all deliveries add up to is what SQL adds up.
LEMMA SummaryOfAll ==
  ASSUME NEW d, IsDatabase(d), ColumnsAreNumbers(d), AttachedOnce(d), KindsClear(d), NEW f,
         NEW n \in Nat, NEW ids, ids = SelectedIds(d, f), IsFiniteSet(ids),
         NEW specIds, NEW rs, RowsOfEach(d, specIds, ids, n, rs)
  PROVE  \A field \in {"deliveries", "payments", "balance", "debts", "overpayments"} :
           MatrixTotalSummary(d, f)[field] = MatrixSummary(rs)[field]
<1> DEFINE balance(id) == BalanceTotal(d, id)
           totals == MatrixTotalSummary(d, f)
           summary == MatrixSummary(rs)
           D == 1..n
           m == [k \in D |-> rs[k].spec]
           B == [k \in D |-> rs[k].balance]
           P == [k \in D |-> rs[k].payments]
           TB == [id \in ids |-> balance(id)]
           TP == [id \in ids |-> PaymentTotal(d, id)]
<1> ids = {s.id : s \in Selected(d, f)}
  BY DEF SelectedIds
<1> /\ Len(rs) = n /\ DOMAIN rs = 1..n
    /\ \A k \in 1..n : RowOf(d, specIds, rs[k]) /\ rs[k].spec \in ids
    /\ \A j, k \in 1..n : rs[j].spec = rs[k].spec => j = k
    /\ \A id \in ids : \E k \in 1..n : rs[k].spec = id
  BY DEF RowsOfEach
<1>1. /\ \A k \in D : m[k] \in ids
      /\ \A j, k \in D : m[j] = m[k] => j = k
      /\ \A id \in ids : \E k \in D : m[k] = id
  OBVIOUS
<1>2. IsFiniteSet(D)
  BY NumbersFinite
<1>3. ASSUME NEW k \in D
      PROVE  P[k] = TP[m[k]] /\ B[k] = TB[m[k]] /\ P[k] \in Int /\ B[k] \in Int
  <2>1. /\ rs[k].payments = PaymentTotal(d, rs[k].spec) /\ rs[k].payments \in Int
        /\ rs[k].balance = balance(rs[k].spec) /\ balance(rs[k].spec) \in Int
    <3>1. RowOf(d, specIds, rs[k])
      OBVIOUS
    <3>2. PICK r : r = rs[k]
      OBVIOUS
    <3>3. IsDatabase(d) /\ ColumnsAreNumbers(d) /\ AttachedOnce(d) /\ KindsClear(d)
          /\ RowOf(d, specIds, r)
      BY <3>1, <3>2
    <3>4. /\ r.payments = PaymentTotal(d, r.spec) /\ r.payments \in Int
          /\ r.balance = BalanceTotal(d, r.spec) /\ r.balance \in Int
      BY ONLY <3>3, RowByTotals
    <3> QED  BY <3>2, <3>4
  <2>2. m[k] \in ids /\ m[k] = rs[k].spec
    OBVIOUS
  <2> QED  BY <2>1, <2>2
<1>4. /\ totals.deliveries = Cardinality(ids)
      /\ totals.payments = SumFunction(TP) /\ totals.balance = SumFunction(TB)
      /\ totals.debts = Cardinality({id \in ids : balance(id) < 0})
      /\ totals.overpayments = Cardinality({id \in ids : balance(id) > 0})
  BY DEF MatrixTotalSummary, BalanceTotal
<1>5. /\ summary.deliveries = n
      /\ summary.payments = SumFunction(P) /\ summary.balance = SumFunction(B)
      /\ summary.debts = Cardinality({k \in D : rs[k].balance < 0})
      /\ summary.overpayments = Cardinality({k \in D : rs[k].balance > 0})
  BY DEF MatrixSummary
<1>6. totals.deliveries = summary.deliveries
  <2> HIDE DEF m, D
  <2>1. Cardinality(D) = Cardinality(ids)
    BY ONLY <1>1, <1>2, CountRenamed
  <2>2. Cardinality(D) = n
    BY FS_Interval DEF D
  <2> QED  BY <1>4, <1>5, <2>1, <2>2
<1>7. SumFunction(P) = SumFunctionOnSet(P, D) /\ SumFunction(B) = SumFunctionOnSet(B, D)
      /\ SumFunction(TP) = SumFunctionOnSet(TP, ids) /\ SumFunction(TB) = SumFunctionOnSet(TB, ids)
  BY DEF SumFunction
<1>8. TB = [id \in ids |-> balance(id)] /\ B = [k \in D |-> rs[k].balance]
  OBVIOUS
<1> HIDE DEF m, D, B, P, TB, TP, balance
<1>9. SumFunctionOnSet(P, D) = SumFunctionOnSet(TP, ids)
  <2>1. (\A k \in D : P[k] \in Int) /\ \A id \in ids : \E k \in D : m[k] = id /\ TP[id] = P[k]
    BY ONLY <1>1, <1>3
  <2>2. IsFiniteSet(ids)
    OBVIOUS
  <2> QED  BY ONLY <1>1, <1>2, <2>1, <2>2, SumRenamed
<1>10. SumFunctionOnSet(B, D) = SumFunctionOnSet(TB, ids)
  <2>1. (\A k \in D : B[k] \in Int) /\ \A id \in ids : \E k \in D : m[k] = id /\ TB[id] = B[k]
    BY ONLY <1>1, <1>3
  <2>2. IsFiniteSet(ids)
    OBVIOUS
  <2> QED  BY ONLY <1>1, <1>2, <2>1, <2>2, SumRenamed
<1>11. totals.debts = summary.debts
  <2> DEFINE U == {k \in D : rs[k].balance < 0}
             V == {id \in ids : balance(id) < 0}
  <2>1. /\ \A k \in U : m[k] \in V
        /\ \A j, k \in U : m[j] = m[k] => j = k
        /\ \A id \in V : \E k \in U : m[k] = id
    <3>1. \A k \in D : rs[k].balance = balance(m[k])
      BY ONLY <1>1, <1>3, <1>8
    <3> QED  BY ONLY <1>1, <3>1
  <2>2. IsFiniteSet(U)
    BY <1>2, FS_Subset
  <2> HIDE DEF U, V
  <2>3. Cardinality(U) = Cardinality(V)
    BY <2>1, <2>2, CountRenamed
  <2> QED  BY <1>4, <1>5, <2>3 DEF U, V
<1>12. totals.overpayments = summary.overpayments
  <2> DEFINE U == {k \in D : rs[k].balance > 0}
             V == {id \in ids : balance(id) > 0}
  <2>1. /\ \A k \in U : m[k] \in V
        /\ \A j, k \in U : m[j] = m[k] => j = k
        /\ \A id \in V : \E k \in U : m[k] = id
    <3>1. \A k \in D : rs[k].balance = balance(m[k])
      BY ONLY <1>1, <1>3, <1>8
    <3> QED  BY ONLY <1>1, <3>1
  <2>2. IsFiniteSet(U)
    BY <1>2, FS_Subset
  <2> HIDE DEF U, V
  <2>3. Cardinality(U) = Cardinality(V)
    BY <2>1, <2>2, CountRenamed
  <2> QED  BY <1>4, <1>5, <2>3 DEF U, V
<1> HIDE DEF totals, summary
<1> QED  BY <1>4, <1>5, <1>6, <1>7, <1>9, <1>10, <1>11, <1>12 DEF totals, summary

-----------------------------------------------------------------------------
(* The count, the totals and the list are of one moment                      *)

PageOf(erp, filter, list) ==
  \E limit, offset \in Int : list = ListDeliveries(erp, filter, limit, offset)

CountedRead ==
  pc \notin {"idle", "count"} =>
    "total" \in DOMAIN got /\ (Unedited => got.total = CountDeliveries(db, req.filter))

TotalsRead ==
  pc \notin {"idle", "count", "totals"} /\ req.includeTotal /\ req.filter.spec = NotGiven =>
    "totals" \in DOMAIN got /\ (Unedited => got.totals = MatrixTotalSummary(db, req.filter))

ListedRead == HasList \/ pc = "reply" => (Unedited => PageOf(db, req.filter, got.list))

TotalsReply ==
  Untouched =>
    /\ reply.total = CountDeliveries(ErpThen, reply.req.filter)
    /\ reply.summary = MatrixSummary(reply.items)
    /\ reply.totals \in {Nothing, reply.summary, MatrixTotalSummary(ErpThen, reply.req.filter)}
    /\ \E list : /\ PageOf(ErpThen, reply.req.filter, list)
                 /\ Len(reply.items) = Len(list) /\ DOMAIN reply.items = 1..Len(list)
                 /\ \A k \in 1..Len(list) : reply.items[k].spec = list[k].id

TotalsInv == CountedRead /\ TotalsRead /\ ListedRead /\ TotalsReply

LEMMA TotalsInit == Init => TotalsInv
BY DEF Init, TotalsInv, CountedRead, TotalsRead, ListedRead, TotalsReply, HasList, NoReply,
  Untouched, Answered

LEMMA TotalsReplyKept ==
  ASSUME TotalsReply, UNCHANGED <<hist, reply>> PROVE TotalsReply'
<1>1. ErpThen' = ErpThen /\ Untouched' = Untouched /\ reply' = reply
  BY DEF ErpThen, Untouched, Answered
<1> QED  BY <1>1 DEF TotalsReply

\* What no query, edit or answer touches.
LEMMA TotalsStay ==
  ASSUME TotalsInv, UNCHANGED <<req, reply, hist, now>>,
         pc \notin {"idle", "count", "totals"}, HasList' \/ pc' = "reply" => HasList \/ pc = "reply",
         {"began", "total", "totals", "list"} \cap DOMAIN got \subseteq DOMAIN got',
         got'.began = got.began, got'.total = got.total, got'.list = got.list,
         "totals" \in DOMAIN got => got'.totals = got.totals
  PROVE  TotalsInv'
<1>1. db' = db /\ Unedited' = Unedited /\ req' = req
  BY DEF db, Unedited
<1>2. TotalsReply'
  BY TotalsReplyKept DEF TotalsInv
<1>3. CountedRead'
  BY <1>1 DEF TotalsInv, CountedRead
<1>4. TotalsRead'
  BY <1>1 DEF TotalsInv, TotalsRead
<1>5. ListedRead'
  BY <1>1 DEF TotalsInv, ListedRead
<1> QED  BY <1>2, <1>3, <1>4, <1>5 DEF TotalsInv

LEMMA CountTotals == ASSUME ReadInv, TotalsInv, Count PROVE TotalsInv'
<1> DEFINE next == IF req.includeTotal /\ req.filter.spec = NotGiven THEN "totals" ELSE "list"
<1>1. /\ pc = "count" /\ pc' = next /\ "total" \in DOMAIN got'
      /\ got'.total = CountDeliveries(db, req.filter)
      /\ UNCHANGED <<req, rows, reply, hist, now>>
  BY Asked DEF Count
<1>2. db' = db /\ req' = req
  BY <1>1 DEF db
<1>3. CountedRead' /\ TotalsRead'
  BY <1>1, <1>2 DEF CountedRead, TotalsRead
<1>4. ListedRead'
  BY <1>1 DEF ListedRead, HasList
<1>5. TotalsReply'
  BY <1>1, TotalsReplyKept DEF TotalsInv
<1> QED  BY <1>3, <1>4, <1>5 DEF TotalsInv

LEMMA TotalsTotals == ASSUME ReadInv, TotalsInv, Totals PROVE TotalsInv'
<1>1. Ask("totals", "totals", MatrixTotalSummary(db, req.filter), "list")
  BY DEF Totals
<1>2. /\ pc = "totals" /\ pc' = "list" /\ "totals" \in DOMAIN got'
      /\ got'.totals = MatrixTotalSummary(db, req.filter)
      /\ UNCHANGED <<req, rows, reply, hist, now>>
  BY <1>1, Asked
<1>3. "began" \in DOMAIN got /\ "total" \in DOMAIN got
  BY <1>2 DEF ReadInv, Moment, TotalsInv, CountedRead
<1>4. "total" \in DOMAIN got' /\ got'.began = got.began /\ got'.total = got.total
  BY <1>1, <1>3, Asked
<1>5. db' = db /\ req' = req /\ Unedited' = Unedited
  BY <1>2, <1>4 DEF db, Unedited
<1>6. CountedRead' /\ TotalsRead'
  BY <1>2, <1>4, <1>5 DEF TotalsInv, CountedRead, TotalsRead
<1>7. ListedRead'
  BY <1>2 DEF ListedRead, HasList
<1>8. TotalsReply'
  BY <1>2, TotalsReplyKept DEF TotalsInv
<1> QED  BY <1>6, <1>7, <1>8 DEF TotalsInv

LEMMA ListTotals == ASSUME ReadInv, TotalsInv, List PROVE TotalsInv'
<1> DEFINE found == ListDeliveries(db, req.filter, Limit, Offset)
           next == IF found = <<>> THEN "reply" ELSE "invoices"
<1>1. Ask("list", "list", found, next)
  BY DEF List
<1>2. next \in {"reply", "invoices"}
  OBVIOUS
<1>3. PageOf(db, req.filter, found)
  <2>1. req \in Requests /\ got.total \in Nat
    <3>1. pc = "list"
      BY <1>1, Asked
    <3> QED  BY <3>1 DEF ReadInv, Moment, TotalRead
  <2>2. Limit \in Int /\ Offset \in Int
    BY <2>1, LimitIsNumber, RequestsAssumption DEF Offset
  <2> QED  BY <2>2 DEF PageOf
<1> HIDE DEF found, next
<1>4. /\ pc = "list" /\ pc' = next /\ "list" \in DOMAIN got' /\ got'.list = found
      /\ UNCHANGED <<req, rows, reply, hist, now>>
  BY <1>1, Asked
<1>5. /\ "began" \in DOMAIN got /\ "total" \in DOMAIN got
  BY <1>4 DEF ReadInv, Moment, TotalsInv, CountedRead
<1>6. /\ "total" \in DOMAIN got' /\ got'.began = got.began /\ got'.total = got.total
      /\ "totals" \in DOMAIN got => "totals" \in DOMAIN got' /\ got'.totals = got.totals
  BY <1>1, <1>5, Asked
<1>7. db' = db /\ req' = req /\ Unedited' = Unedited
  BY <1>4, <1>6 DEF db, Unedited
<1>8. CountedRead' /\ TotalsRead'
  BY <1>4, <1>6, <1>7 DEF TotalsInv, CountedRead, TotalsRead
<1>9. ListedRead'
  BY <1>3, <1>4, <1>7 DEF ListedRead
<1>10. TotalsReply'
  BY <1>4, TotalsReplyKept DEF TotalsInv
<1> QED  BY <1>8, <1>9, <1>10 DEF TotalsInv

\* The later queries and the making of a row leave these answers alone.
LEMMA LaterTotals ==
  ASSUME ReadInv, TotalsInv,
         Invoices \/ Operations \/ AmountsOf \/ Links \/ Closings \/ Payments \/ MakeRow
  PROVE  TotalsInv'
<1>1. CASE MakeRow
  <2>1. pc = "rows" /\ HasList /\ UNCHANGED <<req, got, reply, hist, now>>
    BY <1>1 DEF MakeRow, Others, HasList
  <2> QED  BY <2>1, TotalsStay
<1>2. CASE Invoices \/ Operations \/ AmountsOf \/ Links \/ Closings \/ Payments
  <2>1. PICK query, name, answer, next :
          /\ Ask(query, name, answer, next)
          /\ query \in {"invoices", "operations", "amounts", "links", "closings", "payments"}
          /\ name \in {"invoices", "ops", "amounts", "links", "closings", "payments"}
    <3>1. CASE Invoices
      BY <3>1 DEF Invoices
    <3>2. CASE Operations
      BY <3>2 DEF Operations
    <3>3. CASE AmountsOf
      BY <3>3 DEF AmountsOf
    <3>4. CASE Links
      BY <3>4 DEF Links
    <3>5. CASE Closings
      BY <3>5 DEF Closings
    <3>6. CASE Payments
      BY <3>6 DEF Payments
    <3> QED  BY <1>2, <3>1, <3>2, <3>3, <3>4, <3>5, <3>6
  <2>2. /\ pc = query /\ UNCHANGED <<req, reply, hist, now>>
        /\ DOMAIN got' = DOMAIN got \cup {name}
        /\ \A n \in DOMAIN got : n # name => got'[n] = got[n]
    BY <2>1, Asked
  <2>3. HasList /\ pc \notin {"idle", "count", "totals"}
    BY <2>1, <2>2 DEF HasList
  <2>4. "began" \in DOMAIN got /\ "total" \in DOMAIN got /\ "list" \in DOMAIN got
    BY <2>3 DEF ReadInv, Moment, ListRead, TotalsInv, CountedRead
  <2>5. /\ got'.began = got.began /\ got'.total = got.total /\ got'.list = got.list
        /\ "totals" \in DOMAIN got => got'.totals = got.totals
    BY <2>1, <2>2, <2>4
  <2> QED  BY <2>2, <2>3, <2>5, TotalsStay
<1> QED  BY <1>1, <1>2

LEMMA AnswerTotals ==
  ASSUME ReadInv, TotalsInv, NEW r, Answer(r), hist' = hist,
         (pc = "reply" /\ now' = now /\ r = Page200) \/ "items" \notin DOMAIN r
  PROVE  TotalsInv'
<1>1. reply' = r /\ pc' = "idle"
  BY DEF Answer
<1>2. CountedRead' /\ TotalsRead' /\ ListedRead'
  BY <1>1 DEF CountedRead, TotalsRead, ListedRead, HasList
<1>3. CASE "items" \notin DOMAIN r
  <2>1. TotalsReply'
    BY <1>1, <1>3 DEF TotalsReply, Untouched, Answered
  <2> QED  BY <1>2, <2>1 DEF TotalsInv
<1>4. CASE pc = "reply" /\ now' = now /\ r = Page200
  <2>1. /\ r.items = rows /\ r.req = req /\ r.total = got.total
        /\ r.summary = MatrixSummary(rows) /\ r.at = now /\ r.unedited = Unedited
        /\ r.totals = CASE req.includeTotal /\ req.filter.spec = NotGiven -> got.totals
                        [] req.includeTotal /\ req.filter.spec # NotGiven -> MatrixSummary(rows)
                        [] OTHER -> Nothing
    BY <1>4 DEF Page200, Unedited
  <2>2. ErpThen' = db
    BY <1>1, <2>1 DEF ErpThen, db
  <2>3. SUFFICES ASSUME Unedited PROVE TotalsReply'
    BY <1>1, <1>2, <2>1 DEF TotalsInv, TotalsReply, Untouched
  <2>4. /\ got.total = CountDeliveries(db, req.filter)
        /\ PageOf(db, req.filter, got.list)
    BY <1>4, <2>3 DEF TotalsInv, CountedRead, ListedRead
  <2>5. r.totals \in {Nothing, MatrixSummary(rows), MatrixTotalSummary(db, req.filter)}
    <3>1. CASE req.includeTotal /\ req.filter.spec = NotGiven
      <4>1. r.totals = got.totals
        BY <2>1, <3>1
      <4>2. got.totals = MatrixTotalSummary(db, req.filter)
        BY <1>4, <2>3, <3>1 DEF TotalsInv, TotalsRead
      <4> QED  BY <4>1, <4>2
    <3>2. CASE ~ (req.includeTotal /\ req.filter.spec = NotGiven)
      BY <2>1, <3>2
    <3> QED  BY <3>1, <3>2
  <2>6. /\ Len(rows) = Len(got.list) /\ DOMAIN rows = 1..Len(got.list)
        /\ \A k \in 1..Len(got.list) : rows[k].spec = got.list[k].id
    BY <1>4 DEF ReadInv, RowsMade
  <2>7. reply'.items = rows /\ reply'.req = req /\ reply'.total = got.total
        /\ reply'.summary = MatrixSummary(rows) /\ reply'.totals = r.totals
    BY <1>1, <2>1
  <2> QED  BY <2>2, <2>4, <2>5, <2>6, <2>7 DEF TotalsReply
<1> QED  BY <1>3, <1>4

LEMMA AnswersTotals ==
  ASSUME ReadInv, TotalsInv, Receive \/ Finish \/ QueryFails \/ Search \/ Restart
  PROVE  TotalsInv'
<1>1. CASE Receive
  <2>2. \/ Answer(Failed(401)) \/ Answer(Failed(400))
        \/ pc' = "count" /\ reply' = NoReply
    BY <1>1, ReceiveTakes
  <2>3. hist' = hist
    BY <1>1 DEF Receive, Others
  <2>4. CASE Answer(Failed(401)) \/ Answer(Failed(400))
    BY <2>3, <2>4, AnswerTotals DEF Failed
  <2>5. CASE pc' = "count" /\ reply' = NoReply
    BY <2>5 DEF TotalsInv, CountedRead, TotalsRead, ListedRead, TotalsReply, HasList, NoReply,
      Untouched, Answered
  <2> QED  BY <2>2, <2>4, <2>5
<1>2. CASE Finish
  <2>1. Answer(Failed(401)) \/ Answer(Page200)
    BY <1>2 DEF Finish
  <2>2. pc = "reply" /\ hist' = hist /\ now' = now
    BY <1>2 DEF Finish, Others
  <2>3. "items" \notin DOMAIN Failed(401)
    BY DEF Failed
  <2> QED  BY <2>1, <2>2, <2>3, AnswerTotals
<1>3. CASE QueryFails
  BY <1>3, AnswerTotals DEF QueryFails, Others, Failed
<1>4. CASE Search
  <2>1. PICK r : Answer(r) /\ "items" \notin DOMAIN r
    BY <1>4 DEF Search, Failed
  <2> QED  BY <1>4, <2>1, AnswerTotals DEF Search, Others
<1>5. CASE Restart
  BY <1>5, AnswerTotals DEF Restart, NoReply
<1> QED  BY <1>1, <1>2, <1>3, <1>4, <1>5

LEMMA EditTotals == ASSUME ReadInv, TotalsInv, Edit PROVE TotalsInv'
<1>1. now' = now + 1 /\ UNCHANGED <<hist, pc, req, got, rows, reply>>
  BY DEF Edit, requestVars
<1>2. pc # "idle" => ~ Unedited'
  <2>1. now \in Nat
    BY HistoriesAssumption DEF ReadInv, Moment
  <2> QED  BY <1>1, <2>1 DEF ReadInv, Moment, Unedited
<1>3. HasList' = HasList /\ (HasList => pc # "idle")
  BY <1>1 DEF HasList
<1>4. TotalsReply'
  BY <1>1, TotalsReplyKept DEF TotalsInv
<1> QED
  BY <1>1, <1>2, <1>3, <1>4 DEF TotalsInv, CountedRead, TotalsRead, ListedRead

LEMMA TotalsStep == ASSUME ReadInv, TotalsInv, [Next]_vars PROVE TotalsInv'
<1>1. CASE SessionStep \/ UNCHANGED vars
  <2>1. UNCHANGED <<hist, now, pc, req, got, reply>>
    BY <1>1 DEF SessionStep, vars, requestVars
  <2>2. db' = db /\ Unedited' = Unedited /\ HasList' = HasList
    BY <2>1 DEF db, Unedited, HasList
  <2>3. TotalsReply'
    BY <2>1, TotalsReplyKept DEF TotalsInv
  <2> QED  BY <2>1, <2>2, <2>3 DEF TotalsInv, CountedRead, TotalsRead, ListedRead
<1> QED
  BY <1>1, CountTotals, TotalsTotals, ListTotals, LaterTotals, AnswersTotals, EditTotals
  DEF Next

LEMMA TotalsOfAll == ASSUME ReadInv, TotalsInv PROVE TotalsAgree
<1> DEFINE d == ErpThen
           f == reply.req.filter
           rs == reply.items
           ids == SelectedIds(d, f)
<1>1. SUFFICES ASSUME Untouched, reply.totals # Nothing, Len(rs) = reply.total,
                      AttachedOnce(d), KindsClear(d)
               PROVE  \A field \in {"deliveries", "payments", "balance", "debts", "overpayments"} :
                        reply.totals[field] = reply.summary[field]
  BY DEF TotalsAgree
<1>2. /\ reply.total = CountDeliveries(d, f) /\ reply.summary = MatrixSummary(rs)
      /\ reply.totals \in {Nothing, reply.summary, MatrixTotalSummary(d, f)}
  BY <1>1 DEF TotalsInv, TotalsReply
<1>3. PICK list : /\ PageOf(d, f, list) /\ Len(rs) = Len(list) /\ DOMAIN rs = 1..Len(list)
                  /\ \A k \in 1..Len(list) : rs[k].spec = list[k].id
  BY <1>1 DEF TotalsInv, TotalsReply
<1>4. IsDatabase(d) /\ ColumnsAreNumbers(d)
  BY <1>1, HistoriesAssumption DEF ReadInv, Moment, ReplySound, Untouched, ErpThen
<1>5. PICK limit \in Int, offset \in Int : list = ListDeliveries(d, f, limit, offset)
  BY <1>3 DEF PageOf
<1>6. PICK n : n = CountDeliveries(d, f)
  OBVIOUS
<1>7. Len(list) = n /\ Len(rs) = n /\ DOMAIN rs = 1..n
  BY <1>1, <1>2, <1>3, <1>6
<1>8. \A k \in 1..n : RowOf(d, Shown, rs[k]) /\ rs[k].spec = list[k].id
  BY <1>1, <1>3, <1>7 DEF ReadInv, ReplySound, Untouched
<1>9. PICK D, F, R, I : D = d /\ F = f /\ R = rs /\ I = ids
  OBVIOUS
<1>10. /\ n \in Nat /\ IsFiniteSet(I)
       /\ \A k \in 1..n : list[k].id \in I
       /\ \A j, k \in 1..n : list[j].id = list[k].id => j = k
       /\ \A id \in I : \E k \in 1..n : list[k].id = id
  <2>1. /\ IsDatabase(D) /\ ColumnsAreNumbers(D) /\ limit \in Int /\ offset \in Int
        /\ list = ListDeliveries(D, F, limit, offset) /\ n = CountDeliveries(D, F)
        /\ Len(list) = n /\ I = SelectedIds(D, F)
    BY <1>4, <1>5, <1>6, <1>7, <1>9
  <2> QED  BY ONLY <2>1, PageOfEach
<1>11. \A field \in {"deliveries", "payments", "balance", "debts", "overpayments"} :
         MatrixTotalSummary(D, F)[field] = MatrixSummary(R)[field]
  <2>1. PICK shown : shown = Shown
    OBVIOUS
  <2>2. /\ IsDatabase(D) /\ ColumnsAreNumbers(D) /\ AttachedOnce(D) /\ KindsClear(D)
        /\ n \in Nat /\ I = SelectedIds(D, F) /\ IsFiniteSet(I)
    BY <1>1, <1>4, <1>9, <1>10
  <2>3. \A k \in 1..n : RowOf(D, shown, R[k]) /\ R[k].spec = list[k].id
    BY <1>8, <1>9, <2>1
  <2>4. RowsOfEach(D, shown, I, n, R)
    BY <1>7, <1>9, <1>10, <2>3 DEF RowsOfEach
  <2> QED  BY ONLY <2>2, <2>4, SummaryOfAll
<1> QED  BY <1>1, <1>2, <1>9, <1>11

-----------------------------------------------------------------------------
(* What holds of every behaviour                                             *)

\* What a request has in hand is what its queries answered, and a reply is made
\* of it: with no edit in between, of one read of the ERP.
THEOREM ReadInvHolds == Spec => []ReadInv
BY ReadInit, ReadStepInv, PTL DEF Spec

\* PaymentShownOnce: however the database orders the invoices of a delivery.
THEOREM PaymentsAreShownOnce == Spec => []PaymentShownOnce
BY ReadInvHolds, PaymentsShownOnce, PTL

\* ActsShown: whatever aggregates, acts and lines the ERP has.
THEOREM ActsOfOperationsAreShown == Spec => []ActsShown
BY ReadInvHolds, ActsAreShown, PTL

\* ListedIsFound: the list and the global search read the same document.
THEOREM ListedDocumentsAreFound == Spec => []ListedIsFound
BY ReadInvHolds, ListedAreFound, PTL

\* SameAsAlone: a page of any size agrees with the reads of its deliveries.
THEOREM PagesAgreeWithSingleReads == Spec => []SameAsAlone
BY ReadInvHolds, PagesAgree, PTL

\* PaidInv: where nothing in the tables is below zero, neither is what a request
\* has in hand nor what a row shows.
THEOREM NothingBelowZero == NothingRefunded => (Spec => []PaidInv)
<1> SUFFICES ASSUME NothingRefunded PROVE Spec => []PaidInv
  OBVIOUS
<1>1. ReadInv /\ PaidInv /\ [Next]_vars => PaidInv'
  BY PaidStep
<1> QED  BY <1>1, PaidInit, ReadInvHolds, PTL DEF Spec

\* PaidColumnAddsUp: no sum of a workbook is below zero, and what one read puts
\* into the column of payments adds up to what the delivery was paid.
THEOREM PaidColumnsAddUp == NothingRefunded => (Spec => []PaidColumnAddsUp)
<1> SUFFICES ASSUME NothingRefunded PROVE Spec => []PaidColumnAddsUp
  OBVIOUS
<1>1. ReadInv /\ PaidInv => PaidColumnAddsUp
  BY PaidColumns
<1> QED  BY <1>1, NothingBelowZero, ReadInvHolds, PTL

\* TotalsAgree: what SQL adds up over all deliveries is what Python adds up over
\* the rows of a page that has them all.
THEOREM TotalsOfAllAgree == Spec => []TotalsAgree
<1>1. ReadInv /\ TotalsInv /\ [Next]_vars => TotalsInv'
  BY TotalsStep
<1>2. ReadInv /\ TotalsInv => TotalsAgree
  BY TotalsOfAll
<1> QED  BY <1>1, <1>2, TotalsInit, ReadInvHolds, PTL DEF Spec
=============================================================================
