-------------------------- MODULE WebClientProofs --------------------------
(* What the page shows belongs together, for any number of deliveries, runs, *)
(* requests under way and visits: the selection is among the rows, the run   *)
(* and the address are of the selection, and a reload keeps the screen.      *)
EXTENDS WebClient, FiniteSetTheorems, WellFoundedInduction, TLAPS

Pages == [token : BOOLEAN, view : Views, screen : Views,
          matrix : SUBSET Spec_ids, drawn : SUBSET Spec_ids,
          selected : Spec_ids \cup {None}, stored : Spec_ids \cup {None},
          run : Runs \cup {None}, url : Addresses, overlay : BOOLEAN]

-----------------------------------------------------------------------------
(* What the functions of the page do to its parts.                           *)

\* The address is in step with the screen.
InStep(p) ==
  /\ p.screen = p.view
  /\ p.view # "recon" => p.url.view = p.view /\ p.url.run = None

LEMMA SyncDoes ==
  ASSUME NEW p \in Pages, NEW q, q = SyncBrowserUrl(p)
  PROVE  /\ q \in Pages
         /\ q.token = p.token /\ q.view = p.view /\ q.screen = p.screen
         /\ q.matrix = p.matrix /\ q.drawn = p.drawn /\ q.selected = p.selected
         /\ q.stored = p.stored /\ q.run = p.run /\ q.overlay = p.overlay
         /\ q.url.run # None => q.url.run = p.run /\ q.url.spec = p.selected
         /\ p.screen = p.view => InStep(q)
<1> DEFINE a == IF p.view = "recon" /\ p.selected # None
                  THEN [view |-> "recon", spec |-> p.selected, run |-> p.run]
                  ELSE [view |-> IF p.view = "history" THEN "history" ELSE "matrix",
                        spec |-> None, run |-> None]
<1>1. q = [p EXCEPT !.url = a]
  BY DEF SyncBrowserUrl
<1>2. p.view \in Views /\ p.selected \in Spec_ids \cup {None} /\ p.run \in Runs \cup {None}
  BY DEF Pages
<1>3. a \in Addresses
  <2>1. CASE p.view = "recon" /\ p.selected # None
    BY <1>2, <2>1 DEF Addresses
  <2>2. CASE ~ (p.view = "recon" /\ p.selected # None)
    BY <2>2 DEF Addresses, Views
  <2> QED  BY <2>1, <2>2
<1>4. a.run # None => a.run = p.run /\ a.spec = p.selected
  BY DEF None
<1>5. p.view # "recon" => a.view = p.view /\ a.run = None
  BY <1>2 DEF Views
<1> HIDE DEF a
<1>6. /\ q \in Pages /\ q.url = a
      /\ q.token = p.token /\ q.view = p.view /\ q.screen = p.screen
      /\ q.matrix = p.matrix /\ q.drawn = p.drawn /\ q.selected = p.selected
      /\ q.stored = p.stored /\ q.run = p.run /\ q.overlay = p.overlay
  BY <1>1, <1>3 DEF Pages
<1> QED  BY <1>4, <1>5, <1>6 DEF InStep

LEMMA SetViewDoes ==
  ASSUME NEW p \in Pages, NEW v \in Views, NEW q, q = SetView(p, v)
  PROVE  /\ q \in Pages
         /\ q.token = p.token /\ q.view = v /\ q.screen = v
         /\ q.matrix = p.matrix /\ q.drawn = p.drawn /\ q.selected = p.selected
         /\ q.stored = p.stored /\ q.run = p.run /\ q.overlay = p.overlay
         /\ q.url.run # None => q.url.run = p.run /\ q.url.spec = p.selected
         /\ InStep(q)
<1> DEFINE m == [p EXCEPT !.view = v, !.screen = v]
<1>1. q = SyncBrowserUrl(m)
  BY DEF SetView
<1>2. /\ m \in Pages /\ m.view = v /\ m.screen = v /\ m.token = p.token
      /\ m.matrix = p.matrix /\ m.drawn = p.drawn /\ m.selected = p.selected
      /\ m.stored = p.stored /\ m.run = p.run /\ m.overlay = p.overlay
  BY DEF Pages
<1> HIDE DEF m
<1> QED  BY <1>1, <1>2, SyncDoes

\* An answer with rows: what stays selected is among them.
LEMMA MatrixDoes ==
  ASSUME NEW p \in Pages, NEW q \in MatrixOutcomes(p)
  PROVE  /\ q \in Pages
         /\ q.token = p.token /\ q.view = p.view /\ q.screen = p.screen
         /\ q.url = p.url /\ q.overlay = p.overlay
         /\ q.drawn = q.matrix
         /\ q.matrix = {} \/ q.selected = None \/ q.selected \in q.matrix
         /\ \/ q.selected = p.selected /\ q.run = p.run
            \/ q.run = None /\ (q.selected = None \/ q.matrix # {})
<1>1. CASE q = MatrixFailed(p)
  <2>1. /\ q.matrix = {} /\ q.drawn = {} /\ q.selected = p.selected /\ q.run = p.run
        /\ q.token = p.token /\ q.view = p.view /\ q.screen = p.screen
        /\ q.url = p.url /\ q.overlay = p.overlay /\ q \in Pages
    BY <1>1 DEF MatrixFailed, Pages
  <2> QED  BY <2>1
<1>2. ASSUME NEW rows \in SUBSET Spec_ids, q = MatrixShown(p, rows)
      PROVE  /\ q \in Pages
             /\ q.token = p.token /\ q.view = p.view /\ q.screen = p.screen
             /\ q.url = p.url /\ q.overlay = p.overlay
             /\ q.drawn = q.matrix
             /\ q.matrix = {} \/ q.selected = None \/ q.selected \in q.matrix
             /\ \/ q.selected = p.selected /\ q.run = p.run
                \/ q.run = None /\ (q.selected = None \/ q.matrix # {})
  <2> DEFINE s == IF p.selected \in rows THEN p.selected
                  ELSE IF Cardinality(rows) = 1 THEN CHOOSE r \in rows : TRUE
                  ELSE None
             n == IF p.selected \in rows THEN p.run ELSE None
             k == IF p.selected \in rows THEN p.stored ELSE s
  <2>1. q = [p EXCEPT !.matrix = rows, !.drawn = rows, !.selected = s, !.run = n, !.stored = k]
    BY <1>2 DEF MatrixShown
  <2>2. p.stored \in Spec_ids \cup {None} /\ p.run \in Runs \cup {None}
    BY DEF Pages
  <2>3. rows = {} => Cardinality(rows) # 1
    BY FS_EmptySet
  <2>4. s = None \/ s \in rows
    BY <2>3
  <2>5. (s = p.selected /\ n = p.run) \/ (n = None /\ (s = None \/ rows # {}))
    BY <2>3
  <2>6. s \in Spec_ids \cup {None} /\ k \in Spec_ids \cup {None} /\ n \in Runs \cup {None}
    BY <2>2, <2>4
  <2> HIDE DEF s, n, k
  <2>7. /\ q \in Pages
        /\ q.token = p.token /\ q.view = p.view /\ q.screen = p.screen
        /\ q.url = p.url /\ q.overlay = p.overlay
        /\ q.matrix = rows /\ q.drawn = rows /\ q.selected = s /\ q.run = n
    BY <2>1, <2>6 DEF Pages
  <2> QED  BY <2>4, <2>5, <2>7
<1> QED  BY <1>1, <1>2 DEF MatrixOutcomes

LEMMA LogoutDoes ==
  ASSUME NEW p \in Pages, NEW q, q = LoggedOut(p)
  PROVE  /\ q \in Pages /\ ~ q.token
         /\ q.view = p.view /\ q.screen = p.screen /\ q.url = p.url
         /\ q.matrix = {} /\ q.drawn = {} /\ q.selected = None /\ q.run = None
BY DEF LoggedOut, Pages

LEMMA FreshDoes ==
  ASSUME NEW token \in BOOLEAN, NEW stored \in Spec_ids \cup {None}, NEW a \in Addresses,
         NEW q, q = FreshPage(token, stored, a)
  PROVE  /\ q \in Pages /\ q.url = a /\ q.matrix = {} /\ q.drawn = {} /\ q.run = None
         /\ a.spec = None \/ q.selected = a.spec
<1> DEFINE s == IF a.spec # None THEN a.spec ELSE stored
<1>1. /\ s \in Spec_ids \cup {None} /\ (a.spec = None \/ s = a.spec) /\ a.view \in Views
  BY DEF Addresses
<1>2. q = [token |-> token, view |-> a.view, screen |-> "matrix", matrix |-> {}, drawn |-> {},
           selected |-> s, stored |-> s, run |-> None, url |-> a, overlay |-> FALSE]
  BY DEF FreshPage
<1> HIDE DEF s
<1> QED  BY <1>1, <1>2 DEF Pages, Views

\* boot and login end in a screen of the selection.
LEMMA OpenedDoes ==
  ASSUME NEW p \in Pages, NEW v \in Views, NEW who, Opened(who, SetView(p, v))
  PROVE  /\ opening' = [opening EXCEPT ![who] = "idle"]
         /\ page' \in Pages /\ InStep(page')
         /\ page'.token = p.token /\ page'.matrix = p.matrix
         /\ page'.drawn = p.drawn \/ page'.drawn = p.matrix
         /\ page'.selected = p.selected /\ page'.run = p.run
         /\ page'.url.run # None => page'.url.run = p.run /\ page'.url.spec = p.selected
<1> DEFINE q == SetView(p, v)
<1>1. /\ q \in Pages /\ InStep(q)
      /\ q.token = p.token /\ q.matrix = p.matrix /\ q.drawn = p.drawn
      /\ q.selected = p.selected /\ q.run = p.run
      /\ q.url.run # None => q.url.run = p.run /\ q.url.spec = p.selected
  BY SetViewDoes
<1>2. /\ opening' = [opening EXCEPT ![who] = "idle"]
      /\ page' = IF who = "boot" THEN [q EXCEPT !.drawn = q.matrix, !.overlay = FALSE] ELSE q
  BY DEF Opened
<1> HIDE DEF q
<1>3. /\ page' \in Pages
      /\ page'.token = q.token /\ page'.matrix = q.matrix /\ page'.view = q.view
      /\ page'.screen = q.screen /\ page'.url = q.url
      /\ page'.drawn = q.drawn \/ page'.drawn = q.matrix
      /\ page'.selected = q.selected /\ page'.run = q.run
  BY <1>1, <1>2 DEF Pages
<1> QED  BY <1>1, <1>2, <1>3 DEF InStep
LEMMA MinIsThere ==
  ASSUME NEW S \in SUBSET Nat, S # {}
  PROVE  Min(S) \in S
<1>1. PICK x \in S : \A y \in S : ~ (<<y, x>> \in OpToRel(<, Nat))
  BY NatLessThanWellFounded, WFMin
<1>2. ASSUME NEW y \in S PROVE x <= y
  <2>1. ~ (<<y, x>> \in OpToRel(<, Nat)) /\ y \in Nat /\ x \in Nat
    BY <1>1
  <2> QED  BY <2>1 DEF OpToRel
<1> QED  BY <1>2 DEF Min

-----------------------------------------------------------------------------
(* The invariant.  As long as no answer came to a page that had moved on,    *)
(* the runs that are under way are of the selection, and so are the run      *)
(* shown and the address; a user who is logged out has no rows and no        *)
(* selection but that of the address; and only a login that waits for its    *)
(* rows may have a selection that is not among the rows.                     *)

Done == {"comments", "kept"}

RunsNamed == \A r \in Runs : runs[r].stage \in Done \cup {"asked"} => runs[r].spec \in Spec_ids
AskedRuns == \A r \in Runs : runs[r].stage = "asked" => runs[r].spec = page.selected
RunShownIs(r) == runs[r].stage \in Done /\ runs[r].spec = page.selected
RunHeld == page.run # None => RunShownIs(page.run)
UrlHeld ==
  page.url.run # None /\ opening.boot = "idle" =>
    runs[page.url.run].stage \in Done /\ runs[page.url.run].spec = page.url.spec
LoggedOutHeld ==
  ~ page.token => /\ page.matrix = {}
                  /\ entry.spec = None \/ page.selected = None \/ page.selected = entry.spec
RowHeld == \/ page.matrix = {} \/ page.selected = None \/ page.selected \in page.matrix
           \/ opening.login = "matrix"
ViewHeld == opening.boot = "idle" => InStep(page)
LoginHeld == opening.login = "login" => ~ page.token

PageInv ==
  /\ TypeOK /\ page.drawn \subseteq page.matrix
  /\ RunsNamed /\ ViewHeld /\ LoginHeld
  /\ ~ crossed => AskedRuns /\ RunHeld /\ UrlHeld /\ LoggedOutHeld /\ RowHeld

LEMMA PageInit == Init => PageInv
<1> SUFFICES ASSUME Init PROVE PageInv
  OBVIOUS
<1>1. PICK token \in BOOLEAN, stored \in Spec_ids \cup {None}, a \in Addresses :
        page = FreshPage(token, stored, a)
  BY DEF Init
<1>2. /\ page \in Pages /\ page.url = a /\ page.matrix = {} /\ page.drawn = {} /\ page.run = None
      /\ a.spec = None \/ page.selected = a.spec
  BY <1>1, FreshDoes
<1>3. PICK s \in Spec_ids : runs = [r \in Runs |->
        IF r = 1 THEN [stage |-> "kept", spec |-> s] ELSE [stage |-> "unused", spec |-> None]]
  BY DEF Init
<1>4. runs \in [Runs -> [stage : {"unused", "asked", "comments", "kept", "failed"},
                         spec : Spec_ids \cup {None}]]
  BY <1>3
<1>5. RunsNamed /\ \A r \in Runs : runs[r].stage # "asked"
  BY <1>3 DEF RunsNamed, Done
<1>6. entry = a /\ opening = [boot |-> "session", login |-> "idle"] /\ loads = 0 /\ visits = 1
      /\ crossed = FALSE
  BY <1>2 DEF Init
<1>7. opening \in [boot : Stages, login : Stages] /\ opening.boot = "session"
  BY <1>6 DEF Stages
<1>8. TypeOK
  <2>1. 0 \in 0..MaxLoads /\ 1 \in 1..MaxVisits
    BY WebClientAssumption
  <2>2. page \in Pages /\ entry \in Addresses
    BY <1>1, <1>2, <1>6
  <2> QED  BY <1>4, <1>6, <1>7, <2>1, <2>2 DEF TypeOK, Pages
<1>9. LoginHeld /\ ViewHeld /\ page.drawn \subseteq page.matrix
  BY <1>2, <1>6 DEF LoginHeld, ViewHeld
<1>10. AskedRuns /\ RunHeld /\ RowHeld
  BY <1>2, <1>5 DEF AskedRuns, RunHeld, RowHeld
<1>11. UrlHeld /\ LoggedOutHeld
  BY <1>2, <1>6 DEF UrlHeld, LoggedOutHeld
<1> QED  BY <1>5, <1>8, <1>9, <1>10, <1>11 DEF PageInv

-----------------------------------------------------------------------------
(* What a step on the same page has to show for the invariant to go on.      *)

Steady ==
  /\ entry' = entry
  /\ \A r \in Runs : runs[r].stage \in Done =>
        runs'[r].stage \in Done /\ runs'[r].spec = runs[r].spec
  /\ \A r \in Runs : runs'[r].stage = "asked" =>
        \/ runs[r].stage = "asked" /\ runs'[r].spec = runs[r].spec
        \/ runs'[r].spec = page'.selected
  /\ RunsNamed'

Followed ==
  /\ page'.drawn \subseteq page'.matrix
  /\ ViewHeld' /\ LoginHeld'
  /\ ~ crossed /\ ~ crossed' => RunHeld' /\ LoggedOutHeld' /\ RowHeld'
  /\ \/ page'.url = page.url /\ (opening'.boot = "idle" => opening.boot = "idle")
     \/ page'.url.run # None => page'.url.run = page'.run /\ page'.url.spec = page'.selected

LEMMA GoesOn ==
  ASSUME PageInv, TypeOK', Steady, Followed, Crossing
  PROVE  PageInv'
<1>1. SUFFICES ASSUME ~ crossed' PROVE AskedRuns' /\ UrlHeld'
  BY DEF PageInv, Steady, Followed, Crossing
<1>2. ~ crossed /\ AskedRuns /\ RunHeld /\ UrlHeld /\ RunHeld'
  BY <1>1 DEF PageInv, Followed, Crossing
<1>3. page'.selected = page.selected \/ \A r \in Runs : runs[r].stage # "asked"
  BY <1>1 DEF Crossing
<1>4. AskedRuns'
  <2> SUFFICES ASSUME NEW r \in Runs, runs'[r].stage = "asked"
               PROVE  runs'[r].spec = page'.selected
    BY DEF AskedRuns
  <2>1. \/ runs[r].stage = "asked" /\ runs'[r].spec = runs[r].spec
        \/ runs'[r].spec = page'.selected
    BY DEF Steady
  <2> QED  BY <1>2, <1>3, <2>1 DEF AskedRuns
<1>5. UrlHeld'
  <2> SUFFICES ASSUME page'.url.run # None, opening'.boot = "idle"
               PROVE  runs'[page'.url.run].stage \in Done
                      /\ runs'[page'.url.run].spec = page'.url.spec
    BY DEF UrlHeld
  <2>1. CASE page'.url = page.url /\ opening.boot = "idle"
    <3>1. runs[page.url.run].stage \in Done /\ runs[page.url.run].spec = page.url.spec
      BY <1>2, <2>1 DEF UrlHeld
    <3>2. page.url.run \in Runs
      BY <2>1 DEF PageInv, TypeOK, Addresses
    <3> QED  BY <2>1, <3>1, <3>2 DEF Steady
  <2>2. CASE page'.url.run = page'.run /\ page'.url.spec = page'.selected
    BY <1>2, <2>2 DEF RunHeld, RunShownIs
  <2> QED  BY <2>1, <2>2 DEF Followed
<1> QED  BY <1>4, <1>5

LEMMA RunsStay ==
  ASSUME PageInv, entry' = entry, runs' = runs
  PROVE  Steady
BY DEF PageInv, Steady, RunsNamed

LEMMA PageTyped ==
  ASSUME PageInv
  PROVE  /\ page \in Pages /\ entry \in Addresses /\ loads \in 0..MaxLoads
         /\ opening \in [boot : Stages, login : Stages]
         /\ page.drawn \subseteq page.matrix
BY DEF PageInv, TypeOK, Pages

\* A step that changes the page alone keeps its type.
LEMMA PageChanges ==
  ASSUME PageInv, Crossing, page' \in Pages, loads' \in 0..MaxLoads,
         opening' \in [boot : Stages, login : Stages],
         UNCHANGED <<entry, runs, visits>>
  PROVE  TypeOK'
BY DEF PageInv, TypeOK, Pages, Crossing

-----------------------------------------------------------------------------
(* The clicks.                                                               *)

\* A click on a page of a user who is logged in that leaves the selection and
\* the run alone.
LEMMA SameSelection ==
  ASSUME PageInv, Crossing, page.token, page' \in Pages, loads' \in 0..MaxLoads,
         UNCHANGED <<entry, opening, runs, visits>>,
         page'.token = page.token, page'.matrix = page.matrix,
         page'.drawn \in {{}, page.drawn, page.matrix}, page'.selected = page.selected,
         page'.run = page.run,
         \/ page'.url = page.url /\ page'.view = page.view /\ page'.screen = page.screen
         \/ /\ page'.url.run # None =>
                 page'.url.run = page'.run /\ page'.url.spec = page'.selected
            /\ InStep(page')
  PROVE  PageInv'
<1>1. TypeOK' /\ Steady
  BY PageTyped, PageChanges, RunsStay
<1>2. page'.drawn \subseteq page'.matrix
  BY PageTyped
<1>3. ViewHeld' /\ LoginHeld'
  BY DEF PageInv, ViewHeld, LoginHeld, InStep
<1>4. ~ crossed => RunHeld' /\ LoggedOutHeld' /\ RowHeld'
  BY DEF PageInv, RunHeld, RunShownIs, LoggedOutHeld, RowHeld
<1>5. Followed
  BY <1>2, <1>3, <1>4 DEF Followed
<1> QED  BY <1>1, <1>5, GoesOn

\* A click that changes the selection and drops the run.
LEMMA OtherSelection ==
  ASSUME PageInv, Crossing, page.token, page' \in Pages,
         UNCHANGED <<entry, loads, opening, runs, visits>>,
         page'.drawn = page'.matrix, page'.run = None, page'.token,
         page'.matrix = {} \/ page'.selected = None \/ page'.selected \in page'.matrix,
         page'.url.run # None => page'.url.run = page'.run /\ page'.url.spec = page'.selected,
         page.screen = page.view => InStep(page')
  PROVE  PageInv'
<1>1. TypeOK' /\ Steady
  BY PageTyped, PageChanges, RunsStay
<1>2. ViewHeld' /\ LoginHeld'
  BY DEF PageInv, ViewHeld, LoginHeld, InStep
<1>3. RunHeld' /\ LoggedOutHeld' /\ RowHeld'
  BY DEF RunHeld, LoggedOutHeld, RowHeld
<1>4. Followed
  BY <1>2, <1>3 DEF Followed
<1> QED  BY <1>1, <1>4, GoesOn

LEMMA LoadMatrixStep ==
  ASSUME PageInv, LoadMatrix, Crossing
  PROVE  PageInv'
<1>1. page \in Pages /\ page.token /\ page' = MatrixAsked(page) /\ loads < MaxLoads
      /\ loads \in 0..MaxLoads /\ loads' = loads + 1
  BY PageTyped DEF LoadMatrix, Usable
<1>2. loads' \in 0..MaxLoads
  BY <1>1, WebClientAssumption
<1>3. /\ page' \in Pages /\ page'.token = page.token /\ page'.matrix = page.matrix
      /\ page'.drawn = {} /\ page'.selected = page.selected /\ page'.run = page.run
      /\ page'.url = page.url /\ page'.view = page.view /\ page'.screen = page.screen
  BY <1>1 DEF MatrixAsked, Pages
<1>4. UNCHANGED <<entry, opening, runs, visits>>
  BY DEF LoadMatrix
<1> QED  BY <1>1, <1>2, <1>3, <1>4, SameSelection

LEMMA ToggleMatrixDetailsStep ==
  ASSUME PageInv, ToggleMatrixDetails, Crossing
  PROVE  PageInv'
<1>1. /\ page \in Pages /\ page.token /\ page' = [page EXCEPT !.drawn = page.matrix]
      /\ UNCHANGED <<entry, loads, opening, runs, visits>> /\ loads' \in 0..MaxLoads
  BY PageTyped DEF ToggleMatrixDetails, Usable
<1>2. /\ page' \in Pages /\ page'.token = page.token /\ page'.matrix = page.matrix
      /\ page'.drawn = page.matrix /\ page'.selected = page.selected /\ page'.run = page.run
      /\ page'.url = page.url /\ page'.view = page.view /\ page'.screen = page.screen
  BY <1>1 DEF Pages
<1> QED  BY <1>1, <1>2, SameSelection

LEMMA SelectSpecStep ==
  ASSUME PageInv, NEW s \in Spec_ids, SelectSpec(s), Crossing
  PROVE  PageInv'
<1> DEFINE q == [page EXCEPT !.selected = s, !.stored = s, !.run = None, !.drawn = page.matrix]
<1>1. /\ page \in Pages /\ page.token /\ s \in page.drawn /\ page' = SyncBrowserUrl(q)
      /\ page.drawn \subseteq page.matrix
  BY PageTyped DEF SelectSpec, Usable
<1>2. /\ q \in Pages /\ q.token = page.token /\ q.view = page.view /\ q.screen = page.screen
      /\ q.matrix = page.matrix /\ q.drawn = page.matrix /\ q.selected = s /\ q.run = None
  BY <1>1 DEF Pages
<1> HIDE DEF q
<1>3. /\ page' \in Pages /\ page'.token = q.token /\ page'.matrix = q.matrix
      /\ page'.drawn = q.drawn /\ page'.selected = q.selected /\ page'.run = q.run
      /\ page'.url.run # None => page'.url.run = q.run /\ page'.url.spec = q.selected
      /\ q.screen = q.view => InStep(page')
  BY <1>1, <1>2, SyncDoes
<1>4. UNCHANGED <<entry, loads, opening, runs, visits>>
  BY DEF SelectSpec
<1> QED  BY <1>1, <1>2, <1>3, <1>4, OtherSelection

LEMMA ResetFiltersStep ==
  ASSUME PageInv, ResetFilters, Crossing
  PROVE  PageInv'
<1> DEFINE q == [page EXCEPT !.matrix = {}, !.drawn = {}, !.selected = None,
                             !.stored = None, !.run = None]
<1>1. page \in Pages /\ page.token /\ page' = SyncBrowserUrl(q)
  BY PageTyped DEF ResetFilters, Usable
<1>2. /\ q \in Pages /\ q.token = page.token /\ q.view = page.view /\ q.screen = page.screen
      /\ q.matrix = {} /\ q.drawn = {} /\ q.selected = None /\ q.run = None
  BY <1>1 DEF Pages
<1> HIDE DEF q
<1>3. /\ page' \in Pages /\ page'.token = q.token /\ page'.matrix = q.matrix
      /\ page'.drawn = q.drawn /\ page'.selected = q.selected /\ page'.run = q.run
      /\ page'.url.run # None => page'.url.run = q.run /\ page'.url.spec = q.selected
      /\ q.screen = q.view => InStep(page')
  BY <1>1, <1>2, SyncDoes
<1>4. UNCHANGED <<entry, loads, opening, runs, visits>>
  BY DEF ResetFilters
<1> QED  BY <1>1, <1>2, <1>3, <1>4, OtherSelection

LEMMA SetViewStep ==
  ASSUME PageInv, Crossing, page.token, NEW v \in Views, NEW q, q = SetView(page, v),
         page' = q, UNCHANGED <<entry, loads, opening, runs, visits>>
  PROVE  PageInv'
<1>1. page \in Pages /\ loads' \in 0..MaxLoads
  BY PageTyped
<1>2. q = SetView(page, v) /\ v \in Views
  OBVIOUS
<1>3. /\ q \in Pages /\ q.token = page.token /\ q.matrix = page.matrix
      /\ q.drawn = page.drawn /\ q.selected = page.selected /\ q.run = page.run
      /\ q.url.run # None => q.url.run = page.run /\ q.url.spec = page.selected
      /\ InStep(q)
  BY ONLY <1>1, <1>2, SetViewDoes
<1> QED  BY <1>1, <1>3, SameSelection

LEMMA NavigateStep ==
  ASSUME PageInv, NEW v \in Views, Navigate(v), Crossing
  PROVE  PageInv'
BY SetViewStep DEF Navigate, Usable

LEMMA OpenReconGuardedStep ==
  ASSUME PageInv, OpenReconGuarded, Crossing
  PROVE  PageInv'
<1>1. PICK v \in Views : page' = SetView(page, v)
  BY DEF OpenReconGuarded, Views
<1> QED  BY <1>1, SetViewStep DEF OpenReconGuarded, Usable

LEMMA LogoutStep ==
  ASSUME PageInv, Logout, Crossing
  PROVE  PageInv'
<1>1. page \in Pages /\ page' = LoggedOut(page)
      /\ UNCHANGED <<entry, loads, opening, runs, visits>>
  BY PageTyped DEF Logout
<1>2. /\ page' \in Pages /\ ~ page'.token
      /\ page'.view = page.view /\ page'.screen = page.screen /\ page'.url = page.url
      /\ page'.matrix = {} /\ page'.drawn = {} /\ page'.selected = None /\ page'.run = None
  BY <1>1, LogoutDoes
<1>3. TypeOK' /\ Steady
  BY <1>1, <1>2, PageTyped, PageChanges, RunsStay
<1>4. ViewHeld' /\ LoginHeld'
  BY <1>1, <1>2 DEF PageInv, ViewHeld, LoginHeld, InStep
<1>5. RunHeld' /\ LoggedOutHeld' /\ RowHeld'
  BY <1>2 DEF RunHeld, LoggedOutHeld, RowHeld
<1>6. Followed
  BY <1>1, <1>2, <1>4, <1>5 DEF Followed
<1> QED  BY <1>3, <1>6, GoesOn

LEMMA LoginStep ==
  ASSUME PageInv, Login, Crossing
  PROVE  PageInv'
<1>1. /\ ~ page.token /\ opening.login = "idle" /\ page' = page
      /\ opening' = [opening EXCEPT !.login = "login"]
      /\ UNCHANGED <<entry, loads, runs, visits>>
      /\ opening \in [boot : Stages, login : Stages] /\ page \in Pages /\ loads \in 0..MaxLoads
  BY PageTyped DEF Login
<1>2. /\ opening' \in [boot : Stages, login : Stages]
      /\ opening'.boot = opening.boot /\ opening'.login = "login"
  BY <1>1 DEF Stages
<1>3. TypeOK' /\ Steady
  BY <1>1, <1>2, PageChanges, RunsStay
<1>4. ViewHeld' /\ LoginHeld' /\ page'.drawn \subseteq page'.matrix
  BY <1>1, <1>2 DEF PageInv, ViewHeld, LoginHeld
<1>5. ~ crossed => RunHeld' /\ LoggedOutHeld' /\ RowHeld'
  BY <1>1 DEF PageInv, RunHeld, RunShownIs, LoggedOutHeld, RowHeld
<1>6. Followed
  BY <1>1, <1>2, <1>4, <1>5 DEF Followed
<1> QED  BY <1>3, <1>6, GoesOn

LEMMA RunReconciliationStep ==
  ASSUME PageInv, RunReconciliation, Crossing
  PROVE  PageInv'
<1> DEFINE unused == {r \in Runs : runs[r].stage = "unused"}
           u == Min(unused)
<1>1. /\ page.token /\ page.selected # None /\ unused # {}
      /\ runs' = [runs EXCEPT ![u] = [stage |-> "asked", spec |-> page.selected]]
      /\ page' = [page EXCEPT !.overlay = TRUE]
      /\ UNCHANGED <<entry, loads, opening, visits>>
  BY DEF RunReconciliation, Usable
<1>2. unused \in SUBSET Nat
  BY WebClientAssumption DEF Runs
<1>3. u \in Runs /\ runs[u].stage = "unused"
  BY <1>1, <1>2, MinIsThere
<1> HIDE DEF u, unused
<1>4. /\ page' \in Pages /\ page'.token = page.token /\ page'.matrix = page.matrix
      /\ page'.drawn = page.drawn /\ page'.selected = page.selected /\ page'.run = page.run
      /\ page'.url = page.url /\ page'.view = page.view /\ page'.screen = page.screen
  BY <1>1, PageTyped DEF Pages
<1>5. page.selected \in Spec_ids /\ crossed' \in BOOLEAN
  BY <1>1, PageTyped DEF PageInv, Pages, TypeOK, Crossing
<1>6. /\ runs' \in [Runs -> [stage : {"unused", "asked", "comments", "kept", "failed"},
                             spec : Spec_ids \cup {None}]]
      /\ \A r \in Runs : r # u => runs'[r] = runs[r]
      /\ runs'[u].stage = "asked" /\ runs'[u].spec = page.selected
  BY <1>1, <1>3, <1>5 DEF PageInv, TypeOK
<1>7. TypeOK'
  BY <1>1, <1>4, <1>5, <1>6 DEF PageInv, TypeOK, Pages
<1>8. Steady
  <2>1. \A r \in Runs : runs[r].stage \in Done =>
          runs'[r].stage \in Done /\ runs'[r].spec = runs[r].spec
    BY <1>3, <1>6 DEF Done
  <2>2. \A r \in Runs : runs'[r].stage = "asked" =>
          \/ runs[r].stage = "asked" /\ runs'[r].spec = runs[r].spec
          \/ runs'[r].spec = page'.selected
    BY <1>4, <1>6
  <2>3. RunsNamed'
    BY <1>5, <1>6 DEF PageInv, RunsNamed
  <2> QED  BY <1>1, <2>1, <2>2, <2>3 DEF Steady
<1>9. ViewHeld' /\ LoginHeld' /\ page'.drawn \subseteq page'.matrix
  BY <1>1, <1>4 DEF PageInv, ViewHeld, LoginHeld, InStep
<1>10. ~ crossed => RunHeld'
  <2> SUFFICES ASSUME ~ crossed, page'.run # None
               PROVE  RunShownIs(page.run)'
    BY <1>4 DEF RunHeld
  <2>1. page.run \in Runs /\ RunShownIs(page.run)
    BY <1>4, PageTyped DEF PageInv, RunHeld, Pages
  <2> QED  BY <1>4, <1>8, <2>1 DEF Steady, RunShownIs
<1>11. ~ crossed => LoggedOutHeld' /\ RowHeld'
  BY <1>1, <1>4 DEF PageInv, LoggedOutHeld, RowHeld
<1>12. Followed
  BY <1>1, <1>4, <1>9, <1>10, <1>11 DEF Followed
<1> QED  BY <1>7, <1>8, <1>12, GoesOn

-----------------------------------------------------------------------------
(* The answers.                                                              *)

\* Rows that arrive: what they do to the selection and the run is in order
\* unless the user is logged out.
LEMMA RowsHold ==
  ASSUME PageInv, Crossing, ~ crossed, ~ crossed', entry' = entry, runs' = runs,
         NEW p \in MatrixOutcomes(page),
         page'.token = p.token, page'.matrix = p.matrix,
         page'.selected = p.selected, page'.run = p.run
  PROVE  RunHeld' /\ LoggedOutHeld' /\ RowHeld'
<1>1. /\ p.token = page.token
      /\ p.matrix = {} \/ p.selected = None \/ p.selected \in p.matrix
      /\ \/ p.selected = page.selected /\ p.run = page.run
         \/ p.run = None /\ (p.selected = None \/ p.matrix # {})
  BY PageTyped, MatrixDoes
<1>2. ~ page.token => p.matrix = {}
  BY DEF Crossing
<1>3. RunHeld'
  BY <1>1 DEF PageInv, RunHeld, RunShownIs
<1>4. LoggedOutHeld'
  BY <1>1, <1>2 DEF PageInv, LoggedOutHeld
<1>5. RowHeld'
  BY <1>1 DEF RowHeld
<1> QED  BY <1>3, <1>4, <1>5

LEMMA MatrixAnswerStep ==
  ASSUME PageInv, MatrixAnswer, Crossing
  PROVE  PageInv'
<1>1. /\ loads > 0 /\ loads' = loads - 1 /\ page' \in MatrixOutcomes(page)
      /\ UNCHANGED <<entry, opening, runs, visits>>
      /\ loads \in 0..MaxLoads /\ page \in Pages
  BY PageTyped DEF MatrixAnswer
<1> DEFINE q == page'
<1>2. /\ q \in Pages /\ q.token = page.token /\ q.view = page.view /\ q.screen = page.screen
      /\ q.url = page.url /\ q.drawn = q.matrix
  BY <1>1, MatrixDoes
<1>3. loads' \in 0..MaxLoads
  BY <1>1, WebClientAssumption
<1>4. TypeOK' /\ Steady
  BY <1>1, <1>2, <1>3, PageTyped, PageChanges, RunsStay
<1>5. ViewHeld' /\ LoginHeld'
  BY <1>1, <1>2 DEF PageInv, ViewHeld, LoginHeld, InStep
<1>6. ~ crossed /\ ~ crossed' => RunHeld' /\ LoggedOutHeld' /\ RowHeld'
  BY <1>1, RowsHold
<1>7. Followed
  BY <1>1, <1>2, <1>5, <1>6 DEF Followed
<1> QED  BY <1>4, <1>7, GoesOn

\* An answer about run r that leaves the rest of the page alone.
LEMMA RunMoves ==
  ASSUME PageInv, Crossing, NEW r \in Runs,
         NEW s \in {"asked", "comments", "kept", "failed"},
         runs[r].stage \in {"asked", "comments"},
         s \in Done \/ runs[r].stage = "asked",
         runs' = [runs EXCEPT ![r].stage = s],
         UNCHANGED <<entry, loads, opening, visits>>,
         page' \in Pages, page'.token = page.token, page'.matrix = page.matrix,
         page'.drawn = page.drawn, page'.selected = page.selected,
         page'.run = page.run \/ (page'.run = r /\ runs[r].stage = "asked" /\ s \in Done),
         \/ page'.url = page.url /\ page'.view = page.view /\ page'.screen = page.screen
         \/ /\ page'.url.run # None =>
                 page'.url.run = page'.run /\ page'.url.spec = page'.selected
            /\ page.screen = page.view => InStep(page')
  PROVE  PageInv'
<1>1. /\ runs' \in [Runs -> [stage : {"unused", "asked", "comments", "kept", "failed"},
                             spec : Spec_ids \cup {None}]]
      /\ \A t \in Runs : t # r => runs'[t] = runs[t]
      /\ runs'[r].stage = s /\ runs'[r].spec = runs[r].spec
  BY DEF PageInv, TypeOK
<1>2. TypeOK'
  BY <1>1 DEF PageInv, TypeOK, Pages, Crossing
<1>3. Steady
  <2>1. \A t \in Runs : runs[t].stage \in Done =>
          runs'[t].stage \in Done /\ runs'[t].spec = runs[t].spec
    BY <1>1 DEF Done
  <2>2. \A t \in Runs : runs'[t].stage = "asked" =>
          \/ runs[t].stage = "asked" /\ runs'[t].spec = runs[t].spec
          \/ runs'[t].spec = page'.selected
    BY <1>1 DEF Done
  <2>3. RunsNamed'
    BY <1>1 DEF PageInv, RunsNamed, Done
  <2> QED  BY <2>1, <2>2, <2>3 DEF Steady
<1>4. ViewHeld' /\ LoginHeld' /\ page'.drawn \subseteq page'.matrix
  BY DEF PageInv, ViewHeld, LoginHeld, InStep
<1>5. ~ crossed => RunHeld'
  <2> SUFFICES ASSUME ~ crossed, page'.run # None
               PROVE  runs'[page'.run].stage \in Done /\ runs'[page'.run].spec = page'.selected
    BY DEF RunHeld, RunShownIs
  <2>1. CASE page'.run = page.run
    <3>1. page.run \in Runs /\ RunShownIs(page.run)
      BY <2>1, PageTyped DEF PageInv, RunHeld, Pages
    <3> QED  BY <1>3, <2>1, <3>1 DEF Steady, RunShownIs
  <2>2. CASE page'.run = r /\ runs[r].stage = "asked" /\ s \in Done
    BY <1>1, <2>2 DEF PageInv, AskedRuns
  <2> QED  BY <2>1, <2>2
<1>6. ~ crossed => LoggedOutHeld' /\ RowHeld'
  BY DEF PageInv, LoggedOutHeld, RowHeld
<1>7. Followed
  <2>1. \/ page'.url = page.url /\ (opening'.boot = "idle" => opening.boot = "idle")
        \/ page'.url.run # None => page'.url.run = page'.run /\ page'.url.spec = page'.selected
    OBVIOUS
  <2> QED  BY <1>4, <1>5, <1>6, <2>1 DEF Followed
<1> QED  BY <1>2, <1>3, <1>7, GoesOn

LEMMA StagedProgressStep ==
  ASSUME PageInv, NEW r \in Runs, StagedProgress(r), Crossing
  PROVE  PageInv'
<1>1. /\ runs[r].stage \in {"asked", "comments"} /\ page' = [page EXCEPT !.overlay = TRUE]
      /\ UNCHANGED <<entry, loads, opening, runs, visits>> /\ page \in Pages
  BY PageTyped DEF StagedProgress, UnderWay
<1>2. /\ page' \in Pages /\ page'.token = page.token /\ page'.matrix = page.matrix
      /\ page'.drawn = page.drawn /\ page'.selected = page.selected /\ page'.run = page.run
      /\ page'.url = page.url /\ page'.view = page.view /\ page'.screen = page.screen
  BY <1>1 DEF Pages
<1>3. runs[r].stage \in Done \/ runs[r].stage = "asked"
  BY <1>1 DEF Done
<1>4. runs' = [runs EXCEPT ![r].stage = runs[r].stage]
  BY <1>1 DEF PageInv, TypeOK
<1> QED  BY <1>1, <1>2, <1>3, <1>4, RunMoves

LEMMA RunAnsweredStep ==
  ASSUME PageInv, NEW r \in Runs, RunAnswered(r), Crossing
  PROVE  PageInv'
<1>1. /\ runs[r].stage = "asked" /\ runs' = [runs EXCEPT ![r].stage = "comments"]
      /\ page' = [page EXCEPT !.run = r, !.overlay = TRUE]
      /\ UNCHANGED <<entry, loads, opening, visits>> /\ page \in Pages
  BY PageTyped DEF RunAnswered
<1>2. /\ page' \in Pages /\ page'.token = page.token /\ page'.matrix = page.matrix
      /\ page'.drawn = page.drawn /\ page'.selected = page.selected /\ page'.run = r
      /\ page'.url = page.url /\ page'.view = page.view /\ page'.screen = page.screen
  BY <1>1 DEF Pages
<1>3. "comments" \in Done
  BY DEF Done
<1> QED  BY <1>1, <1>2, <1>3, RunMoves

LEMMA RunFailedStep ==
  ASSUME PageInv, NEW r \in Runs, RunFailed(r), Crossing
  PROVE  PageInv'
<1>1. PICK s \in {"failed", "kept"} : runs' = [runs EXCEPT ![r].stage = s]
  BY DEF RunFailed
<1>2. /\ runs[r].stage = "asked" /\ page' = [page EXCEPT !.overlay = FALSE]
      /\ UNCHANGED <<entry, loads, opening, visits>> /\ page \in Pages
  BY PageTyped DEF RunFailed
<1>3. /\ page' \in Pages /\ page'.token = page.token /\ page'.matrix = page.matrix
      /\ page'.drawn = page.drawn /\ page'.selected = page.selected /\ page'.run = page.run
      /\ page'.url = page.url /\ page'.view = page.view /\ page'.screen = page.screen
  BY <1>2 DEF Pages
<1> QED  BY <1>1, <1>2, <1>3, RunMoves

LEMMA RunShownStep ==
  ASSUME PageInv, NEW r \in Runs, RunShown(r), Crossing
  PROVE  PageInv'
<1> DEFINE p == [page EXCEPT !.overlay = FALSE]
<1>1. /\ runs[r].stage = "comments" /\ runs' = [runs EXCEPT ![r].stage = "kept"]
      /\ page' = IF page.run = None THEN p ELSE SyncBrowserUrl(p)
      /\ UNCHANGED <<entry, loads, opening, visits>> /\ page \in Pages
  BY PageTyped DEF RunShown
<1>2. /\ p \in Pages /\ p.token = page.token /\ p.matrix = page.matrix
      /\ p.drawn = page.drawn /\ p.selected = page.selected /\ p.run = page.run
      /\ p.url = page.url /\ p.view = page.view /\ p.screen = page.screen
  BY <1>1 DEF Pages
<1>3. "kept" \in Done
  BY DEF Done
<1> HIDE DEF p
<1>4. CASE page' = p
  BY <1>1, <1>2, <1>3, <1>4, RunMoves
<1>5. CASE page' = SyncBrowserUrl(p)
  <2> DEFINE q == SyncBrowserUrl(p)
  <2>1. /\ q \in Pages /\ q.token = p.token /\ q.matrix = p.matrix
        /\ q.drawn = p.drawn /\ q.selected = p.selected /\ q.run = p.run
        /\ q.url.run # None => q.url.run = p.run /\ q.url.spec = p.selected
        /\ p.screen = p.view => InStep(q)
    BY <1>2, SyncDoes
  <2>2. page' = q
    BY <1>5
  <2> HIDE DEF q
  <2> QED  BY <1>1, <1>2, <1>3, <2>1, <2>2, RunMoves
<1> QED  BY <1>1, <1>4, <1>5

-----------------------------------------------------------------------------
(* boot and login.                                                           *)

Who == {"boot", "login"}

\* The request after the one that was answered is sent, or a login fails.
LEMMA OpeningMoves ==
  ASSUME PageInv, Crossing, NEW who \in Who, NEW s \in {"matrix", "stored", "comments", "idle"},
         UNCHANGED <<entry, loads, runs, visits>>,
         opening' = [opening EXCEPT ![who] = s], s # "idle" \/ who = "login",
         page' \in Pages, page'.drawn \subseteq page'.matrix, page'.url = page.url,
         page'.view = page.view, page'.screen = page.screen,
         who = "login" \/ (page'.token => page.token),
         ~ crossed /\ ~ crossed' => RunHeld' /\ LoggedOutHeld' /\ RowHeld'
  PROVE  PageInv'
<1>1. opening \in [boot : Stages, login : Stages] /\ loads \in 0..MaxLoads
  BY PageTyped
<1>2. /\ opening' \in [boot : Stages, login : Stages]
      /\ opening'.boot = "idle" => opening.boot = "idle"
      /\ opening'.login = "login" => opening.login = "login" /\ who = "boot"
  BY <1>1 DEF Who, Stages
<1>3. TypeOK' /\ Steady
  BY <1>1, <1>2, PageChanges, RunsStay
<1>4. ViewHeld' /\ LoginHeld'
  BY <1>2 DEF PageInv, ViewHeld, LoginHeld, InStep
<1>5. Followed
  BY <1>2, <1>4 DEF Followed
<1> QED  BY <1>3, <1>5, GoesOn

\* The page settles on a screen.
LEMMA OpenedStep ==
  ASSUME PageInv, Crossing, NEW who \in Who, NEW p \in Pages, NEW v \in Views,
         UNCHANGED <<entry, loads, runs, visits>>, Opened(who, SetView(p, v)),
         p.drawn \subseteq p.matrix,
         who = "login" \/ (p.token => page.token),
         page'.matrix = p.matrix /\ page'.selected = p.selected /\ ~ crossed /\ ~ crossed' =>
           /\ p.run = None \/ (p.run = page.run /\ p.selected = page.selected)
           /\ ~ p.token => /\ p.matrix = {}
                           /\ \/ entry.spec = None \/ p.selected = None
                              \/ p.selected = entry.spec
           /\ \/ p.matrix = {} \/ p.selected = None \/ p.selected \in p.matrix
              \/ who = "boot" /\ opening.login = "matrix"
  PROVE  PageInv'
<1>1. opening \in [boot : Stages, login : Stages] /\ loads \in 0..MaxLoads
  BY PageTyped
<1>2. /\ opening' = [opening EXCEPT ![who] = "idle"]
      /\ page' \in Pages /\ InStep(page')
      /\ page'.token = p.token /\ page'.matrix = p.matrix
      /\ page'.drawn = p.drawn \/ page'.drawn = p.matrix
      /\ page'.selected = p.selected /\ page'.run = p.run
      /\ page'.url.run # None => page'.url.run = p.run /\ page'.url.spec = p.selected
  BY OpenedDoes
<1>3. /\ opening' \in [boot : Stages, login : Stages]
      /\ opening'.login = "login" => opening.login = "login" /\ who = "boot"
      /\ who = "boot" => opening'.login = opening.login
  BY <1>1, <1>2 DEF Who, Stages
<1>4. TypeOK' /\ Steady
  BY <1>1, <1>2, <1>3, PageChanges, RunsStay
<1>5. ViewHeld' /\ LoginHeld'
  BY <1>2, <1>3 DEF PageInv, ViewHeld, LoginHeld
<1>6. ASSUME ~ crossed, ~ crossed' PROVE RunHeld' /\ LoggedOutHeld' /\ RowHeld'
  <2>1. /\ p.run = None \/ (p.run = page.run /\ p.selected = page.selected)
        /\ ~ p.token => /\ p.matrix = {}
                        /\ entry.spec = None \/ p.selected = None \/ p.selected = entry.spec
        /\ \/ p.matrix = {} \/ p.selected = None \/ p.selected \in p.matrix
           \/ who = "boot" /\ opening.login = "matrix"
    BY <1>2, <1>6
  <2>2. RunHeld'
    BY <1>2, <1>6, <2>1 DEF PageInv, RunHeld, RunShownIs
  <2>3. LoggedOutHeld'
    BY <1>2, <2>1 DEF LoggedOutHeld
  <2>4. RowHeld'
    BY <1>2, <1>3, <2>1 DEF RowHeld
  <2> QED  BY <2>2, <2>3, <2>4
<1>7. Followed
  BY <1>2, <1>5, <1>6 DEF Followed
<1> QED  BY <1>4, <1>7, GoesOn

\* A run that is shown is of a delivery, so that there is a selection.
LEMMA ShownIsSelected ==
  ASSUME PageInv, ~ crossed, page.run # None
  PROVE  page.selected # None
<1>1. page.run \in Runs /\ RunShownIs(page.run)
  BY PageTyped DEF PageInv, RunHeld, Pages
<1> QED  BY <1>1, WebClientAssumption DEF PageInv, RunsNamed, RunShownIs

LEMMA SessionAnswerStep ==
  ASSUME PageInv, SessionAnswer, Crossing
  PROVE  PageInv'
<1>1. PICK o \in IF page.token THEN {page, LoggedOut(page)} ELSE {page} :
        Proceed("boot", [o EXCEPT !.selected =
                           IF ~o.token /\ entry.spec # None THEN entry.spec ELSE @])
  BY DEF SessionAnswer
<1> DEFINE p == [o EXCEPT !.selected =
                   IF ~o.token /\ entry.spec # None THEN entry.spec ELSE @]
<1>2. UNCHANGED <<entry, loads, runs, visits>> /\ "boot" \in Who
      /\ page \in Pages /\ page.drawn \subseteq page.matrix /\ entry \in Addresses
  BY PageTyped DEF SessionAnswer, Who
<1>3. /\ o \in Pages /\ o.drawn \subseteq o.matrix
      /\ o.view = page.view /\ o.screen = page.screen /\ o.url = page.url
      /\ \/ o = page
         \/ ~ o.token /\ o.matrix = {} /\ o.selected = None /\ o.run = None
  <2>1. CASE o = page
    BY <1>2, <2>1
  <2>2. CASE o = LoggedOut(page)
    BY <1>2, <2>2, LogoutDoes
  <2> QED  BY <1>1, <2>1, <2>2
<1>4. entry.spec \in Spec_ids \cup {None}
  BY <1>2 DEF Addresses
<1>5. /\ p \in Pages /\ p.drawn = o.drawn /\ p.matrix = o.matrix /\ p.token = o.token
      /\ p.view = o.view /\ p.screen = o.screen /\ p.url = o.url /\ p.run = o.run
      /\ p.selected = IF ~o.token /\ entry.spec # None THEN entry.spec ELSE o.selected
  BY <1>3, <1>4 DEF Pages
<1>6. Proceed("boot", p)
  BY <1>1
<1> HIDE DEF p
<1>7. p.token => page.token /\ p.run = page.run /\ p.selected = page.selected
                 /\ p.matrix = page.matrix
  BY <1>3, <1>5
<1>8. ~ crossed =>
        /\ p.run = None \/ (p.run = page.run /\ p.selected = page.selected)
        /\ ~ p.token => /\ p.matrix = {}
                        /\ entry.spec = None \/ p.selected = None \/ p.selected = entry.spec
        /\ p.matrix = {} \/ p.selected = None \/ p.selected \in p.matrix
           \/ opening.login = "matrix"
  <2> SUFFICES ASSUME ~ crossed
               PROVE  /\ p.run = None \/ (p.run = page.run /\ p.selected = page.selected)
                      /\ ~ p.token =>
                           /\ p.matrix = {}
                           /\ entry.spec = None \/ p.selected = None \/ p.selected = entry.spec
                      /\ p.matrix = {} \/ p.selected = None \/ p.selected \in p.matrix
                         \/ opening.login = "matrix"
    OBVIOUS
  <2>1. LoggedOutHeld /\ RowHeld
    BY DEF PageInv
  <2>2. CASE o = page
    <3>1. page.run # None => page.selected # None
      BY ShownIsSelected
    <3>2. CASE page.token
      BY <1>5, <2>1, <2>2, <3>2 DEF RowHeld
    <3>3. CASE ~ page.token
      BY <1>5, <2>1, <2>2, <3>1, <3>3 DEF LoggedOutHeld
    <3> QED  BY <3>2, <3>3
  <2>3. CASE ~ o.token /\ o.matrix = {} /\ o.selected = None /\ o.run = None
    BY <1>5, <2>3
  <2> QED  BY <1>3, <2>2, <2>3
<1>9. CASE /\ p.token /\ opening' = [opening EXCEPT !["boot"] = "matrix"]
           /\ page' = MatrixAsked(p)
  <2>1. /\ page' \in Pages /\ page'.drawn = {} /\ page'.matrix = p.matrix
        /\ page'.token = p.token /\ page'.run = p.run /\ page'.selected = p.selected
        /\ page'.view = p.view /\ page'.screen = p.screen /\ page'.url = p.url
    BY <1>5, <1>9 DEF MatrixAsked, Pages
  <2>2. opening'.login = opening.login
    BY <1>9, PageTyped
  <2>3. ~ crossed => RunHeld' /\ LoggedOutHeld' /\ RowHeld'
    BY <1>2, <1>7, <1>9, <2>1, <2>2
       DEF PageInv, RunHeld, RunShownIs, LoggedOutHeld, RowHeld
  <2>4. /\ page'.drawn \subseteq page'.matrix
        /\ page'.view = page.view /\ page'.screen = page.screen /\ page'.url = page.url
        /\ page'.token => page.token
    BY <1>3, <1>5, <1>7, <2>1
  <2> QED  BY <1>2, <1>9, <2>1, <2>3, <2>4, OpeningMoves
<1>10. CASE \E v \in Views : Opened("boot", SetView(p, v))
  <2>1. PICK v \in Views : Opened("boot", SetView(p, v))
    BY <1>10
  <2>2. p.drawn \subseteq p.matrix /\ (p.token => page.token)
    BY <1>3, <1>5, <1>7
  <2> QED  BY <1>2, <1>5, <1>8, <2>1, <2>2, OpenedStep
<1> QED  BY <1>6, <1>9, <1>10 DEF Proceed, Views

LEMMA LoginAnswerStep ==
  ASSUME PageInv, LoginAnswer, Crossing
  PROVE  PageInv'
<1> DEFINE p == [page EXCEPT !.token = TRUE]
<1>1. /\ opening.login = "login" /\ UNCHANGED <<entry, loads, runs, visits>>
      /\ "login" \in Who /\ page \in Pages /\ page.drawn \subseteq page.matrix
      /\ opening \in [boot : Stages, login : Stages] /\ entry \in Addresses /\ ~ page.token
  BY PageTyped DEF PageInv, LoginHeld, LoginAnswer, Who
<1>2. /\ p \in Pages /\ p.token /\ p.matrix = page.matrix /\ p.drawn = page.drawn
      /\ p.view = page.view /\ p.screen = page.screen /\ p.url = page.url
      /\ p.run = page.run /\ p.selected = page.selected
  BY <1>1 DEF Pages
<1>3. \/ Proceed("login", p)
      \/ opening' = [opening EXCEPT !.login = "idle"] /\ page' = page
  BY DEF LoginAnswer
<1> HIDE DEF p
<1>4. ~ crossed =>
        /\ page.run # None => RunShownIs(page.run) /\ page.selected # None
        /\ page.matrix = {}
        /\ entry.spec = None \/ page.selected = None \/ page.selected = entry.spec
  BY <1>1, ShownIsSelected DEF PageInv, RunHeld, LoggedOutHeld
<1>5. CASE /\ entry.spec # None /\ opening' = [opening EXCEPT !["login"] = "matrix"]
           /\ page' = MatrixAsked([p EXCEPT !.selected = entry.spec])
  <2> DEFINE q == [p EXCEPT !.selected = entry.spec]
  <2>1. entry.spec \in Spec_ids
    BY <1>1, <1>5 DEF Addresses
  <2>2. /\ q \in Pages /\ q.matrix = p.matrix /\ q.token = p.token /\ q.run = p.run
        /\ q.selected = entry.spec
        /\ q.view = p.view /\ q.screen = p.screen /\ q.url = p.url
    BY <1>2, <2>1 DEF Pages
  <2>3. page' = MatrixAsked(q)
    BY <1>5
  <2> HIDE DEF q
  <2>4. /\ page' \in Pages /\ page'.drawn = {} /\ page'.matrix = q.matrix
        /\ page'.token = q.token /\ page'.run = q.run /\ page'.selected = q.selected
        /\ page'.view = q.view /\ page'.screen = q.screen /\ page'.url = q.url
    BY <2>2, <2>3 DEF MatrixAsked, Pages
  <2>5. ~ crossed => RunHeld' /\ LoggedOutHeld' /\ RowHeld'
    BY <1>1, <1>2, <1>4, <1>5, <2>2, <2>4 DEF RunHeld, RunShownIs, LoggedOutHeld, RowHeld
  <2>6. /\ page'.drawn \subseteq page'.matrix
        /\ page'.view = page.view /\ page'.screen = page.screen /\ page'.url = page.url
    BY <1>2, <2>2, <2>4
  <2> QED  BY <1>1, <1>5, <2>4, <2>5, <2>6, OpeningMoves
<1>6. CASE \E v \in Views : Opened("login", SetView(p, v))
  <2>1. PICK v \in Views : Opened("login", SetView(p, v))
    BY <1>6
  <2> QED  BY <1>1, <1>2, <1>4, <2>1, OpenedStep
<1>7. CASE opening' = [opening EXCEPT !["login"] = "idle"] /\ page' = page
  <2>1. ~ crossed => RunHeld' /\ LoggedOutHeld' /\ RowHeld'
    BY <1>1, <1>4, <1>7 DEF PageInv, RunHeld, RunShownIs, LoggedOutHeld, RowHeld
  <2> QED  BY <1>1, <1>7, <2>1, OpeningMoves
<1> QED  BY <1>3, <1>5, <1>6, <1>7 DEF Proceed, Views

LEMMA OpeningMatrixStep ==
  ASSUME PageInv, NEW who \in Who, OpeningMatrix(who), Crossing
  PROVE  PageInv'
<1>1. PICK p \in MatrixOutcomes(page) :
        IF entry.run # None
          THEN opening' = [opening EXCEPT ![who] = "stored"] /\ page' = p
          ELSE OpenedOnSelection(who, p)
  BY DEF OpeningMatrix
<1>2. UNCHANGED <<entry, loads, runs, visits>> /\ page \in Pages /\ opening[who] = "matrix"
  BY PageTyped DEF OpeningMatrix
<1>3. /\ p \in Pages /\ p.token = page.token /\ p.drawn = p.matrix
      /\ p.view = page.view /\ p.screen = page.screen /\ p.url = page.url
      /\ p.matrix = {} \/ p.selected = None \/ p.selected \in p.matrix
      /\ \/ p.selected = page.selected /\ p.run = page.run
         \/ p.run = None /\ (p.selected = None \/ p.matrix # {})
  BY <1>2, MatrixDoes
<1>4. CASE opening' = [opening EXCEPT ![who] = "stored"] /\ page' = p
  <2>1. ~ crossed /\ ~ crossed' => RunHeld' /\ LoggedOutHeld' /\ RowHeld'
    BY <1>2, <1>4, RowsHold
  <2> QED  BY <1>2, <1>3, <1>4, <2>1, OpeningMoves
<1>5. CASE OpenedOnSelection(who, p)
  <2>1. PICK v \in Views : Opened(who, SetView(p, v))
    BY <1>5 DEF OpenedOnSelection, Views
  <2>2. /\ page'.token = p.token /\ page'.matrix = p.matrix
        /\ page'.selected = p.selected /\ page'.run = p.run
    BY <1>3, <2>1, OpenedDoes
  <2>3. ~ crossed /\ ~ crossed' => LoggedOutHeld'
    BY <1>2, <2>2, RowsHold
  <2>4. ~ crossed /\ ~ crossed' /\ ~ p.token =>
          /\ p.matrix = {}
          /\ entry.spec = None \/ p.selected = None \/ p.selected = entry.spec
    BY <1>2, <2>2, <2>3 DEF LoggedOutHeld
  <2> QED  BY <1>2, <1>3, <2>1, <2>4, OpenedStep
<1> QED  BY <1>1, <1>4, <1>5

\* The page settles after the stored run, or without it.
LEMMA SettledStep ==
  ASSUME PageInv, Crossing, NEW who \in Who, opening[who] # "matrix",
         UNCHANGED <<entry, loads, runs, visits>>, OpenedOnSelection(who, page)
  PROVE  PageInv'
<1>1. PICK v \in Views : Opened(who, SetView(page, v))
  BY DEF OpenedOnSelection, Views
<1>2. ~ crossed =>
        /\ ~ page.token => /\ page.matrix = {}
                           /\ \/ entry.spec = None \/ page.selected = None
                              \/ page.selected = entry.spec
        /\ \/ page.matrix = {} \/ page.selected = None \/ page.selected \in page.matrix
           \/ who = "boot" /\ opening.login = "matrix"
  BY DEF PageInv, LoggedOutHeld, RowHeld, Who
<1> QED  BY <1>1, <1>2, PageTyped, OpenedStep

LEMMA LoadStoredRunStep ==
  ASSUME PageInv, NEW who \in Who, LoadStoredRun(who), Crossing
  PROVE  PageInv'
<1>1. /\ opening[who] = "stored" /\ UNCHANGED <<entry, loads, runs, visits>>
      /\ page \in Pages /\ entry.run \in Runs \cup {None} /\ page.drawn \subseteq page.matrix
      /\ opening \in [boot : Stages, login : Stages]
  BY PageTyped DEF LoadStoredRun, Addresses
<1>2. CASE /\ runs[entry.run] = [stage |-> "kept", spec |-> page.selected]
           /\ page' = [page EXCEPT !.run = entry.run]
           /\ opening' = [opening EXCEPT ![who] = "comments"]
  <2>1. /\ page' \in Pages /\ page'.token = page.token /\ page'.matrix = page.matrix
        /\ page'.drawn = page.drawn /\ page'.selected = page.selected /\ page'.run = entry.run
        /\ page'.url = page.url /\ page'.view = page.view /\ page'.screen = page.screen
    BY <1>1, <1>2 DEF Pages
  <2>2. runs[entry.run].stage \in Done /\ runs[entry.run].spec = page.selected
    BY <1>2 DEF Done
  <2>3. opening'.login = "matrix" \/ opening.login # "matrix"
    BY <1>1, <1>2 DEF Who
  <2>4. ~ crossed => RunHeld' /\ LoggedOutHeld' /\ RowHeld'
    BY <1>1, <2>1, <2>2, <2>3 DEF PageInv, RunHeld, RunShownIs, LoggedOutHeld, RowHeld
  <2> QED  BY <1>1, <1>2, <2>1, <2>4, OpeningMoves
<1>3. CASE OpenedOnSelection(who, page)
  BY <1>1, <1>3, SettledStep
<1> QED  BY <1>2, <1>3 DEF LoadStoredRun

LEMMA StoredRunShownStep ==
  ASSUME PageInv, NEW who \in Who, StoredRunShown(who), Crossing
  PROVE  PageInv'
BY SettledStep DEF StoredRunShown

-----------------------------------------------------------------------------
(* A page that is loaded again has nothing on it that could be out of step.  *)

LEMMA LoadPageStep ==
  ASSUME PageInv, NEW a \in Addresses, LoadPage(a), crossed' = FALSE
  PROVE  PageInv'
<1>1. /\ visits < MaxVisits /\ visits' = visits + 1 /\ page' = FreshPage(page.token, page.stored, a)
      /\ entry' = a /\ loads' = 0 /\ opening' = [boot |-> "session", login |-> "idle"]
      /\ page.token \in BOOLEAN /\ page.stored \in Spec_ids \cup {None}
  BY PageTyped DEF LoadPage, Pages
<1>2. PICK s \in {"failed", "kept"} : runs' = [r \in Runs |->
        CASE runs[r].stage = "asked" -> [runs[r] EXCEPT !.stage = s]
          [] runs[r].stage = "comments" -> [runs[r] EXCEPT !.stage = "kept"]
          [] OTHER -> runs[r]]
  BY DEF LoadPage
<1>3. /\ page' \in Pages /\ page'.url = a /\ page'.matrix = {} /\ page'.drawn = {}
      /\ page'.run = None
      /\ a.spec = None \/ page'.selected = a.spec
  BY <1>1, FreshDoes
<1>4. runs \in [Runs -> [stage : {"unused", "asked", "comments", "kept", "failed"},
                         spec : Spec_ids \cup {None}]]
  BY DEF PageInv, TypeOK
<1>5. /\ \A r \in Runs : runs'[r] \in [stage : {"unused", "comments", "kept", "failed"},
                                       spec : Spec_ids \cup {None}]
      /\ \A r \in Runs : runs'[r].stage \in Done => runs[r].stage \in Done \cup {"asked"}
      /\ \A r \in Runs : runs'[r].spec = runs[r].spec
  <2> SUFFICES ASSUME NEW r \in Runs
               PROVE  /\ runs'[r] \in [stage : {"unused", "comments", "kept", "failed"},
                                       spec : Spec_ids \cup {None}]
                      /\ runs'[r].stage \in Done => runs[r].stage \in Done \cup {"asked"}
                      /\ runs'[r].spec = runs[r].spec
    OBVIOUS
  <2> DEFINE o == runs[r]
  <2>0. /\ o \in [stage : {"unused", "asked", "comments", "kept", "failed"},
                  spec : Spec_ids \cup {None}]
        /\ runs'[r] = CASE o.stage = "asked" -> [o EXCEPT !.stage = s]
                        [] o.stage = "comments" -> [o EXCEPT !.stage = "kept"]
                        [] OTHER -> o
    BY <1>2, <1>4
  <2> HIDE DEF o
  <2>1. CASE o.stage = "asked"
    BY <2>0, <2>1 DEF Done, o
  <2>2. CASE o.stage = "comments"
    BY <2>0, <2>2 DEF Done, o
  <2>3. CASE o.stage \notin {"asked", "comments"}
    BY <2>0, <2>3 DEF Done, o
  <2> QED  BY <2>1, <2>2, <2>3
<1>6. runs' \in [Runs -> [stage : {"unused", "asked", "comments", "kept", "failed"},
                          spec : Spec_ids \cup {None}]]
  BY <1>2, <1>5
<1>7. visits' \in 1..MaxVisits /\ 0 \in 0..MaxLoads
  BY <1>1, WebClientAssumption DEF PageInv, TypeOK
<1>8. opening' \in [boot : Stages, login : Stages]
  BY <1>1 DEF Stages
<1>9. TypeOK'
  BY <1>1, <1>3, <1>6, <1>7, <1>8 DEF TypeOK, Pages
<1>10. RunsNamed' /\ \A r \in Runs : runs'[r].stage # "asked"
  BY <1>5 DEF PageInv, RunsNamed
<1>11. ViewHeld' /\ LoginHeld' /\ page'.drawn \subseteq page'.matrix
  BY <1>1, <1>3 DEF ViewHeld, LoginHeld
<1>12. AskedRuns' /\ RunHeld' /\ RowHeld'
  BY <1>3, <1>10 DEF AskedRuns, RunHeld, RowHeld
<1>13. UrlHeld' /\ LoggedOutHeld'
  BY <1>1, <1>3 DEF UrlHeld, LoggedOutHeld
<1> QED  BY <1>9, <1>10, <1>11, <1>12, <1>13 DEF PageInv

-----------------------------------------------------------------------------
LEMMA PageStep == PageInv /\ [Next]_vars => PageInv'
<1> SUFFICES ASSUME PageInv, [Next]_vars PROVE PageInv'
  OBVIOUS
<1>1. CASE User /\ Crossing
  BY <1>1, LoadMatrixStep, OpenReconGuardedStep, ResetFiltersStep, LogoutStep, LoginStep,
     RunReconciliationStep, SelectSpecStep, ToggleMatrixDetailsStep, NavigateStep DEF User, Views
<1>2. CASE Answers /\ Crossing
  BY <1>2, MatrixAnswerStep, SessionAnswerStep, LoginAnswerStep, RunAnsweredStep,
     RunFailedStep, RunShownStep, StagedProgressStep, OpeningMatrixStep, LoadStoredRunStep,
     StoredRunShownStep
     DEF Answers, RunAnswer, Who
<1>3. CASE Reload /\ crossed' = FALSE
  <2>1. page.url \in Addresses
    BY PageTyped DEF Pages
  <2> QED  BY <1>3, <2>1, LoadPageStep DEF Reload
<1>4. ASSUME NEW r \in Runs, OpenFromHistory(r), crossed' = FALSE PROVE PageInv'
  <2>1. [view |-> "recon", spec |-> runs[r].spec, run |-> r] \in Addresses
    BY DEF PageInv, TypeOK, Addresses, Views
  <2> QED  BY <1>4, <2>1, LoadPageStep DEF OpenFromHistory
<1>5. CASE UNCHANGED vars
  BY <1>5 DEF vars, PageInv, TypeOK, RunsNamed, ViewHeld, InStep, LoginHeld, AskedRuns,
     RunHeld, RunShownIs, UrlHeld, LoggedOutHeld, RowHeld
<1> QED  BY <1>1, <1>2, <1>3, <1>4, <1>5 DEF Next

THEOREM PageInvHolds == Spec => []PageInv
<1>1. PageInv /\ [Next]_vars => PageInv'
  BY PageStep
<1> QED  BY PageInit, <1>1, PTL DEF Spec

(* Whatever the user clicks and in whatever order answers arrive, a        *)
(* delivery is selected only as long as its row can be seen                *)
(* (matrixAction, loadMatrix of reconciliation.js).                        *)
THEOREM SelectionIsShown == Spec => []SelectionShown
<1>1. PageInv => SelectionShown
  BY DEF PageInv, RowHeld, SelectionShown, MatrixAwaited
<1> QED  BY <1>1, PageInvHolds, PTL

(* Whatever the user clicks and in whatever order answers arrive, the run  *)
(* on the screen and the run in the address are of the delivery that goes  *)
(* with them (runReconciliation, loadStoredRun, syncBrowserUrl).           *)
THEOREM RunIsOfSelection == Spec => []RunOfSelection
<1>1. PageInv => RunOfSelection
  BY DEF PageInv, RunHeld, RunShownIs, UrlHeld, RunOfSelection
<1> QED  BY <1>1, PageInvHolds, PTL

(* Acceptance criterion AC-16 for every page the user can reach.           *)
THEOREM ReloadComesBack == Spec => ReloadKeepsScreen
<1>1. PageInv /\ [Next]_vars =>
        [Reload /\ opening.boot = "idle" /\ page.token /\ page.screen # "recon"
         => entry'.view = page.screen /\ entry'.run = None]_vars
  BY DEF PageInv, ViewHeld, InStep, Reload, LoadPage
<1> QED  BY <1>1, PageInvHolds, PTL DEF Spec, ReloadKeepsScreen
=============================================================================
