------------------------------ MODULE WebClient ------------------------------
(***************************************************************************)
(* The page of interfaces/web/reconciliation.js: which delivery is         *)
(* selected, which run is shown, which address the browser holds, and the  *)
(* answers of the server that arrive while the user goes on.               *)
(*                                                                         *)
(* JavaScript runs one handler at a time up to its next await, so a        *)
(* handler is one action and every await ends one.  A handler is a         *)
(* composition of functions of the page: SetView, MatrixShown, LoggedOut.  *)
(* An answer may come in any order and may be an error.                    *)
(*                                                                         *)
(* Left out: the comments (IssueComments), the list of the history screen, *)
(* the exports, the texts, and the filter on the status of the rows, whose *)
(* only option is "all" (reconciliation.html:148), so that every loaded    *)
(* row is visible.                                                         *)
(***************************************************************************)
EXTENDS Naturals, FiniteSets, FiniteSetsExt

CONSTANTS
  Spec_ids,    \* the deliveries
  MaxRuns,     \* bound: runs, those stored before the page was opened included
  MaxLoads,    \* bound: matrix requests under way at once
  MaxVisits    \* bound: loads of the page

None == 0

ASSUME WebClientAssumption ==
  None \notin Spec_ids /\ MaxRuns \in Nat /\ MaxLoads \in Nat
  /\ MaxVisits \in Nat \ {0}

Runs == 1..MaxRuns
Views == {"matrix", "recon", "history"}
Stages == {"idle", "session", "login", "matrix", "stored", "comments"}
Addresses == [view : Views, spec : Spec_ids \cup {None}, run : Runs \cup {None}]

VARIABLES
  page,      \* what the page, localStorage and the address bar hold
  entry,     \* the address the page was opened with
  loads,     \* matrix requests of the user under way
  opening,   \* boot() and login(): the answer each is waiting for
  runs,      \* the runs: stored by the server, or under way
  visits,
  crossed    \* history: an answer came to a page that had moved on (Crossing)

vars == <<page, entry, loads, opening, runs, visits, crossed>>

-----------------------------------------------------------------------------
(* The functions the handlers are composed of.                             *)

SyncBrowserUrl(p) ==
  [p EXCEPT !.url =
    IF p.view = "recon" /\ p.selected # None
      THEN [view |-> "recon", spec |-> p.selected, run |-> p.run]
      ELSE [view |-> IF p.view = "history" THEN "history" ELSE "matrix",
            spec |-> None, run |-> None]]

\* Mutant: the screen changes and the address does not.
SetViewOnly(p, v) == [p EXCEPT !.view = v, !.screen = v]

SetView(p, v) == SyncBrowserUrl([p EXCEPT !.view = v, !.screen = v])

MatrixAsked(p) == [p EXCEPT !.drawn = {}]

\* Mutant: the selection outlives its row.
MatrixReplaced(p, rows) == [p EXCEPT !.matrix = rows, !.drawn = rows]

(* A selection that the new rows do not hold is dropped with its run; the  *)
(* only row of an answer is selected.                                      *)
MatrixShown(p, rows) ==
  LET s == IF p.selected \in rows THEN p.selected
           ELSE IF Cardinality(rows) = 1 THEN CHOOSE r \in rows : TRUE
           ELSE None
  IN  [p EXCEPT !.matrix = rows, !.drawn = rows, !.selected = s,
                !.run = IF p.selected \in rows THEN @ ELSE None,
                !.stored = IF p.selected \in rows THEN @ ELSE s]

MatrixFailed(p) == [p EXCEPT !.matrix = {}, !.drawn = {}]

MatrixOutcomes(p) == {MatrixShown(p, rows) : rows \in SUBSET Spec_ids} \cup {MatrixFailed(p)}

LoggedOut(p) ==
  [p EXCEPT !.token = FALSE, !.matrix = {}, !.drawn = {},
            !.selected = None, !.run = None, !.stored = None]

(* A page just opened: localStorage survives, the rest starts anew.        *)
FreshPage(token, stored, a) ==
  LET s == IF a.spec # None THEN a.spec ELSE stored
  IN  [token |-> token, view |-> a.view, screen |-> "matrix", matrix |-> {}, drawn |-> {},
       selected |-> s, stored |-> s, run |-> None, url |-> a, overlay |-> FALSE]

Init ==
  /\ \E token \in BOOLEAN, stored \in Spec_ids \cup {None}, a \in Addresses :
        page = FreshPage(token, stored, a)
  /\ entry = page.url
  /\ loads = 0
  /\ opening = [boot |-> "session", login |-> "idle"]
  /\ \E s \in Spec_ids : runs = [r \in Runs |->
        IF r = 1 THEN [stage |-> "kept", spec |-> s] ELSE [stage |-> "unused", spec |-> None]]
  /\ visits = 1
  /\ crossed = FALSE

(* What the user can click: the screen on view, unless the overlay of a    *)
(* run, which belongs to the reconciliation screen, covers the page.       *)
Usable(screens) ==
  page.token /\ page.screen \in screens /\ ~(page.overlay /\ page.screen = "recon")

MatrixAwaited == loads > 0 \/ "matrix" \in {opening.boot, opening.login}

-----------------------------------------------------------------------------
(* The user's clicks.                                                      *)

(* The search button is off while a request runs; the pager, the refresh   *)
(* button and Enter in the field of the delivery are not.                  *)
LoadMatrix ==
  /\ Usable({"matrix"}) /\ loads < MaxLoads
  /\ page' = MatrixAsked(page)
  /\ loads' = loads + 1
  /\ UNCHANGED <<entry, opening, runs, visits>>

SelectSpec(s) ==
  /\ Usable({"matrix"}) /\ s \in page.drawn
  /\ page' = SyncBrowserUrl([page EXCEPT !.selected = s, !.stored = s, !.run = None,
                                         !.drawn = page.matrix])
  /\ UNCHANGED <<entry, loads, opening, runs, visits>>

(* The documents of the selected delivery are folded out or in: the rows   *)
(* that the page holds are drawn, also while others are being loaded.      *)
ToggleMatrixDetails ==
  /\ Usable({"matrix"}) /\ page.selected # None
  /\ page' = [page EXCEPT !.drawn = page.matrix]
  /\ UNCHANGED <<entry, loads, opening, runs, visits>>

Navigate(v) ==
  /\ Usable(Views)
  /\ page' = SetView(page, v)
  /\ UNCHANGED <<entry, loads, opening, runs, visits>>

OpenReconGuarded ==
  /\ Usable(Views)
  /\ page' = SetView(page, IF page.matrix = {} \/ page.selected = None THEN "matrix" ELSE "recon")
  /\ UNCHANGED <<entry, loads, opening, runs, visits>>

ResetFilters ==
  /\ Usable({"matrix"})
  /\ page' = SyncBrowserUrl([page EXCEPT !.matrix = {}, !.drawn = {},
                                         !.selected = None, !.stored = None, !.run = None])
  /\ UNCHANGED <<entry, loads, opening, runs, visits>>

Logout ==
  /\ Usable(Views)
  /\ page' = LoggedOut(page)
  /\ UNCHANGED <<entry, loads, opening, runs, visits>>

Login ==
  /\ ~page.token /\ opening.login = "idle" /\ opening.boot # "session"
  /\ opening' = [opening EXCEPT !.login = "login"]
  /\ UNCHANGED <<page, entry, loads, runs, visits>>

RunReconciliation ==
  /\ Usable({"recon"}) /\ page.selected # None
  /\ LET unused == {r \in Runs : runs[r].stage = "unused"}
     IN  /\ unused # {}
         /\ runs' = [runs EXCEPT ![Min(unused)] = [stage |-> "asked", spec |-> page.selected]]
  /\ page' = [page EXCEPT !.overlay = TRUE]
  /\ UNCHANGED <<entry, loads, opening, visits>>

-----------------------------------------------------------------------------
(* The answers.                                                            *)

MatrixAnswer ==
  /\ loads > 0
  /\ loads' = loads - 1
  /\ page' \in MatrixOutcomes(page)
  /\ UNCHANGED <<entry, opening, runs, visits>>

UnderWay(r) == runs[r].stage \in {"asked", "comments"}

StagedProgress(r) ==
  /\ UnderWay(r)
  /\ page' = [page EXCEPT !.overlay = TRUE]
  /\ UNCHANGED <<entry, loads, opening, runs, visits>>

RunAnswered(r) ==
  /\ runs[r].stage = "asked"
  /\ runs' = [runs EXCEPT ![r].stage = "comments"]
  /\ page' = [page EXCEPT !.run = r, !.overlay = TRUE]
  /\ UNCHANGED <<entry, loads, opening, visits>>

\* Mutant: an error leaves the overlay on the page.
OverlayLeft(r) ==
  /\ runs[r].stage = "asked"
  /\ \E s \in {"failed", "kept"} : runs' = [runs EXCEPT ![r].stage = s]
  /\ UNCHANGED <<page, entry, loads, opening, visits>>

(* The run failed, or it was stored and its answer lost.                   *)
RunFailed(r) ==
  /\ runs[r].stage = "asked"
  /\ \E s \in {"failed", "kept"} : runs' = [runs EXCEPT ![r].stage = s]
  /\ page' = [page EXCEPT !.overlay = FALSE]
  /\ UNCHANGED <<entry, loads, opening, visits>>

(* loadRunComments has returned.  When the run shown is gone by then, the  *)
(* handler fails on state.run.metrics before it sets the address.          *)
RunShown(r) ==
  /\ runs[r].stage = "comments"
  /\ runs' = [runs EXCEPT ![r].stage = "kept"]
  /\ page' = LET p == [page EXCEPT !.overlay = FALSE]
             IN  IF page.run = None THEN p ELSE SyncBrowserUrl(p)
  /\ UNCHANGED <<entry, loads, opening, visits>>

-----------------------------------------------------------------------------
(* boot() and login(): the page opened on an address of a delivery loads   *)
(* the matrix, then the stored run of the address, then its comments.      *)

Opened(who, p) ==
  /\ opening' = [opening EXCEPT ![who] = "idle"]
  /\ page' = IF who = "boot" THEN [p EXCEPT !.drawn = p.matrix, !.overlay = FALSE] ELSE p

OpenedOnSelection(who, p) ==
  Opened(who, SetView(p, IF p.selected # None THEN "recon" ELSE "matrix"))

Proceed(who, p) ==
  IF p.token /\ entry.view = "recon" /\ entry.spec # None
    THEN /\ opening' = [opening EXCEPT ![who] = "matrix"]
         /\ page' = MatrixAsked(IF who = "login" THEN [p EXCEPT !.selected = entry.spec] ELSE p)
    ELSE Opened(who, SetView(p, IF p.token /\ entry.view = "history" THEN "history" ELSE "matrix"))

SessionAnswer ==
  /\ opening.boot = "session"
  /\ \E p \in IF page.token THEN {page, LoggedOut(page)} ELSE {page} :
        Proceed("boot", [p EXCEPT !.selected =
                           IF ~p.token /\ entry.spec # None THEN entry.spec ELSE @])
  /\ UNCHANGED <<entry, loads, runs, visits>>

LoginAnswer ==
  /\ opening.login = "login"
  /\ \/ Proceed("login", [page EXCEPT !.token = TRUE])
     \/ /\ opening' = [opening EXCEPT !.login = "idle"]
        /\ UNCHANGED page
  /\ UNCHANGED <<entry, loads, runs, visits>>

OpeningMatrix(who) ==
  /\ opening[who] = "matrix"
  /\ \E p \in MatrixOutcomes(page) :
        IF entry.run # None
          THEN opening' = [opening EXCEPT ![who] = "stored"] /\ page' = p
          ELSE OpenedOnSelection(who, p)
  /\ UNCHANGED <<entry, loads, runs, visits>>

\* Mutant: the stored run is shown whatever its delivery.
StoredRunTaken(who) ==
  /\ opening[who] = "stored"
  /\ \/ /\ runs[entry.run].stage = "kept"
        /\ page' = [page EXCEPT !.run = entry.run]
        /\ opening' = [opening EXCEPT ![who] = "comments"]
     \/ OpenedOnSelection(who, page)
  /\ UNCHANGED <<entry, loads, runs, visits>>

(* The answer of the history: refused when the run is of another delivery  *)
(* than the one selected by then.                                          *)
LoadStoredRun(who) ==
  /\ opening[who] = "stored"
  /\ \/ /\ runs[entry.run] = [stage |-> "kept", spec |-> page.selected]
        /\ page' = [page EXCEPT !.run = entry.run]
        /\ opening' = [opening EXCEPT ![who] = "comments"]
     \/ OpenedOnSelection(who, page)
  /\ UNCHANGED <<entry, loads, runs, visits>>

StoredRunShown(who) ==
  /\ opening[who] = "comments"
  /\ OpenedOnSelection(who, page)
  /\ UNCHANGED <<entry, loads, runs, visits>>

-----------------------------------------------------------------------------
(* The page is loaded again: reloaded, or left by a link of the history.   *)
(* The requests under way lose their page; the server may finish the runs. *)
LoadPage(a) ==
  /\ visits < MaxVisits
  /\ visits' = visits + 1
  /\ page' = FreshPage(page.token, page.stored, a)
  /\ entry' = a
  /\ loads' = 0
  /\ opening' = [boot |-> "session", login |-> "idle"]
  /\ \E s \in {"failed", "kept"} : runs' = [r \in Runs |->
        CASE runs[r].stage = "asked" -> [runs[r] EXCEPT !.stage = s]
          [] runs[r].stage = "comments" -> [runs[r] EXCEPT !.stage = "kept"]
          [] OTHER -> runs[r]]

Reload == LoadPage(page.url)

OpenFromHistory(r) ==
  /\ Usable({"history"}) /\ runs[r].stage = "kept"
  /\ LoadPage([view |-> "recon", spec |-> runs[r].spec, run |-> r])

-----------------------------------------------------------------------------
User ==
  \/ LoadMatrix \/ ToggleMatrixDetails \/ OpenReconGuarded \/ ResetFilters
  \/ Logout \/ Login \/ RunReconciliation
  \/ \E s \in Spec_ids : SelectSpec(s)
  \/ \E v \in {"matrix", "history"} : Navigate(v)

RunAnswer(r) == RunAnswered(r) \/ RunFailed(r) \/ RunShown(r)

Answers ==
  \/ MatrixAnswer \/ SessionAnswer \/ LoginAnswer
  \/ \E r \in Runs : RunAnswer(r) \/ StagedProgress(r)
  \/ \E who \in {"boot", "login"} :
        OpeningMatrix(who) \/ LoadStoredRun(who) \/ StoredRunShown(who)

(* The two ways for an answer to come to a page that has moved on: the     *)
(* selection changes while the server works on a run, and rows arrive      *)
(* after the user has logged out.                                          *)
Crossing ==
  crossed' = \/ crossed
             \/ /\ page'.selected # page.selected
                /\ \E r \in Runs : runs[r].stage = "asked"
             \/ ~page.token /\ page'.matrix # {}

Next ==
  \/ (User \/ Answers) /\ Crossing
  \/ (Reload \/ \E r \in Runs : OpenFromHistory(r)) /\ crossed' = FALSE

(* The server answers the run it was asked for, or the request fails: its  *)
(* own requests to 1C and to the ERP carry timeouts.                       *)
Fairness == \A r \in Runs : WF_vars(RunAnswer(r) /\ Crossing)

Spec == Init /\ [][Next]_vars /\ Fairness

-----------------------------------------------------------------------------
(* Properties.                                                             *)

TypeOK ==
  /\ page \in [token : BOOLEAN, view : Views, screen : Views,
               matrix : SUBSET Spec_ids, drawn : SUBSET Spec_ids,
               selected : Spec_ids \cup {None}, stored : Spec_ids \cup {None},
               run : Runs \cup {None}, url : Addresses, overlay : BOOLEAN]
  /\ entry \in Addresses
  /\ loads \in 0..MaxLoads
  /\ opening \in [boot : Stages, login : Stages]
  /\ runs \in [Runs -> [stage : {"unused", "asked", "comments", "kept", "failed"},
                        spec : Spec_ids \cup {None}]]
  /\ visits \in 1..MaxVisits
  /\ crossed \in BOOLEAN

(* What is selected for a check or an export is a row the user can see,    *)
(* as soon as there are rows and none are being loaded: a selection that   *)
(* outlives its row would send the check to a delivery that is not on the  *)
(* screen.                                                                 *)
SelectionShown ==
  page.matrix # {} /\ page.selected # None /\ ~MatrixAwaited /\ ~crossed
  => page.selected \in page.matrix

(* The results on the screen are those of the selected delivery, whatever  *)
(* the order of clicks and answers, and the address the page writes names  *)
(* a run together with its own delivery, so that it can be opened again    *)
(* (loadStoredRun refuses a run of another delivery).  The exception is an *)
(* answer that came to a page that had moved on.                           *)
RunOfSelection ==
  ~crossed =>
    /\ page.run # None => runs[page.run].spec = page.selected
    /\ page.url.run # None /\ opening.boot = "idle"
         => runs[page.url.run].spec = page.url.spec

(* Acceptance criterion AC-16: who is on the matrix or on the history when *)
(* the page is reloaded comes back to that screen and to no stored run.    *)
ReloadKeepsScreen ==
  [][Reload /\ opening.boot = "idle" /\ page.token /\ page.screen # "recon"
     => entry'.view = page.screen /\ entry'.run = None]_vars

(* The overlay that covers the page during a run goes away, whether the    *)
(* server answers, fails or the comments cannot be read.                   *)
EveryRunEnds == page.overlay ~> ~page.overlay
=============================================================================
