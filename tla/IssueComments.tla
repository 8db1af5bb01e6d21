--------------------------- MODULE IssueComments ---------------------------
(* The analysis of a discrepancy: users type a comment at a row of a run and *)
(* save it; the API upserts it by run and issue key; whoever opens a run of  *)
(* the delivery next is shown the latest comment of each key.  A save and    *)
(* its answer travel while the user types on, filters the rows or opens      *)
(* another run, and several users save at once.                              *)
(*                                                                           *)
(* updated_at counts whole seconds.  A key is the issue with its place in    *)
(* the run; the reason of a comment travels with its text.                   *)
EXTENDS Integers, Sequences, FiniteSets

CONSTANTS User, Text,
          RunIssues, \* the runs of the delivery: the issues of each, in order
          MaxSaves,  \* bound of the model on clicks on the save button
          MaxAtOnce, \* bound of the model on saves under way at once
          MaxClock   \* bound of the model on time

VARIABLES
  latest,   \* the runs so far
  clock,    \* the second it is
  table,    \* veda_reconciliation_comments
  stored,   \* history: the texts stored for each key
  last,     \* history: the comment stored last for each key
  shown,    \* shown[u]: the run on the page of u, 0 for none
  feedback, \* feedback[u][k]: state.feedback, and whether it has an updated_at
  typed,    \* typed[u][k]: the text area of the row
  status,   \* status[u][k]: the word beside its button
  posts,    \* the saves under way
  clicks    \* saves so far

commentVars == <<latest, clock, table, stored, last, shown, feedback, typed, status, posts, clicks>>
record == <<table, stored, last>>
screens == <<shown, feedback, typed, status>>

Run == DOMAIN RunIssues
Keys(r) == {<<n, RunIssues[r][n]>> : n \in DOMAIN RunIssues[r]}
Key == UNION {Keys(r) : r \in Run}
NoText == ""
Texts == Text \cup {NoText}
Unsaved(t) == [text |-> t, saved |-> FALSE]

InitComments ==
  /\ latest = 1 /\ clock = 0 /\ clicks = 0
  /\ table = {} /\ posts = {}
  /\ stored = [k \in Key |-> {}]
  /\ last = [k \in Key |-> [text |-> NoText, at |-> 0, changed |-> FALSE, alone |-> TRUE]]
  /\ shown = [u \in User |-> 0]
  /\ feedback = [u \in User |-> [k \in Key |-> Unsaved(NoText)]]
  /\ typed = [u \in User |-> [k \in Key |-> NoText]]
  /\ status = [u \in User |-> [k \in Key |-> "dirty"]]

Tick ==
  /\ clock < MaxClock
  /\ clock' = clock + 1
  /\ UNCHANGED <<latest, record, screens, posts, clicks>>

Rerun ==
  /\ latest < Len(RunIssues)
  /\ latest' = latest + 1
  /\ UNCHANGED <<clock, record, screens, posts, clicks>>

-----------------------------------------------------------------------------
(* The API and the table.                                                    *)

\* Mutant: the last inserted comes first.
FirstInserted(a, b) == a.id > b.id

\* ORDER BY updated_at DESC, id DESC
First(a, b) == a.updated_at > b.updated_at \/ (a.updated_at = b.updated_at /\ a.id > b.id)

Of(k) == {c \in table : c.key = k}
Latest(k) == CHOOSE c \in Of(k) : \A d \in Of(k) \ {c} : First(c, d)

\* ON DUPLICATE KEY UPDATE; updated_at moves on only when a column changes.
Upsert(p) ==
  LET old == {c \in table : c.run = p.run /\ c.key = p.key}
      new(id, at) == [id |-> id, run |-> p.run, key |-> p.key, text |-> p.text,
                      user_login |-> p.user, updated_at |-> at]
  IN  IF old = {} THEN table \cup {new(Cardinality(table) + 1, clock)}
      ELSE LET c == CHOOSE c \in old : TRUE
               same == c.text = p.text /\ c.user_login = p.user
           IN  (table \ old) \cup {new(c.id, IF same THEN c.updated_at ELSE clock)}

Move(p, s) == posts' = (posts \ {p}) \cup {[p EXCEPT !.at = s]}

Store(p) ==
  /\ p.at = "sent"
  /\ table' = Upsert(p)
  /\ stored' = [stored EXCEPT ![p.key] = @ \cup {p.text}]
  /\ last' = [last EXCEPT ![p.key] =
       [text |-> p.text, at |-> clock, changed |-> table' # table,
        alone |-> stored[p.key] = {} \/ @.at # clock]]
  /\ Move(p, "stored")
  /\ UNCHANGED <<latest, clock, screens, clicks>>

Refuse(p) ==
  /\ p.at = "sent"
  /\ Move(p, "refused")
  /\ UNCHANGED <<latest, clock, record, screens, clicks>>

-----------------------------------------------------------------------------
(* The page.                                                                 *)

\* renderResults: the rows are built anew from state.feedback; an answer still
\* under way has lost its row.
Render(u, kept) ==
  /\ typed' = [typed EXCEPT ![u] = [k \in Key |-> kept[k].text]]
  /\ status' = [status EXCEPT ![u] =
                  [k \in Key |-> IF kept[k].saved THEN "saved" ELSE "dirty"]]
  /\ posts' = {IF p.user = u THEN [p EXCEPT !.row = FALSE] ELSE p : p \in posts}

\* A run is executed or opened, with the comments of its delivery; when these
\* cannot be loaded, the page shows what it has kept.
OpenRun(u, r) ==
  /\ r <= latest
  /\ shown' = [shown EXCEPT ![u] = r]
  /\ \E loaded \in BOOLEAN :
       LET kept == [k \in Key |-> IF loaded /\ Of(k) # {}
                                  THEN [text |-> Latest(k).text, saved |-> TRUE]
                                  ELSE feedback[u][k]]
       IN  feedback' = [feedback EXCEPT ![u] = kept] /\ Render(u, kept)
  /\ UNCHANGED <<latest, clock, record, clicks>>

\* A filter of the results.
FilterRows(u) ==
  /\ shown[u] # 0
  /\ Render(u, feedback[u])
  /\ UNCHANGED <<latest, clock, record, shown, feedback, clicks>>

updateFeedbackDraft(u, k, t) ==
  /\ shown[u] # 0 /\ k \in Keys(shown[u])
  /\ t # typed[u][k]
  /\ feedback' = [feedback EXCEPT ![u][k] = Unsaved(t)]
  /\ typed' = [typed EXCEPT ![u][k] = t]
  /\ status' = [status EXCEPT ![u][k] = "dirty"]
  /\ UNCHANGED <<latest, clock, record, shown, posts, clicks>>

\* The button of a row is disabled while its save is under way.
Click(u, k) ==
  /\ shown[u] # 0 /\ k \in Keys(shown[u])
  /\ clicks < MaxSaves /\ Cardinality(posts) < MaxAtOnce
  /\ ~ \E p \in posts : p.user = u /\ p.key = k /\ p.row
  /\ posts' = posts \cup {[id |-> clicks, user |-> u, run |-> shown[u], key |-> k,
                           text |-> feedback[u][k].text, row |-> TRUE, at |-> "sent"]}
  /\ clicks' = clicks + 1
  /\ status' = [status EXCEPT ![u][k] = "saving"]
  /\ UNCHANGED <<latest, clock, record, shown, feedback, typed>>

\* Mutant: any answer counts as a success.
SavedUnchecked(p) ==
  /\ p.at \in {"stored", "refused"}
  /\ posts' = posts \ {p}
  /\ feedback' = [feedback EXCEPT ![p.user][p.key] = [text |-> p.text, saved |-> TRUE]]
  /\ status' = IF p.row THEN [status EXCEPT ![p.user][p.key] = "saved"] ELSE status
  /\ UNCHANGED <<latest, clock, record, shown, typed, clicks>>

\* The answer says that the comment is stored.
Saved(p) ==
  /\ p.at = "stored"
  /\ posts' = posts \ {p}
  /\ feedback' = [feedback EXCEPT ![p.user][p.key] = [text |-> p.text, saved |-> TRUE]]
  /\ status' = IF p.row THEN [status EXCEPT ![p.user][p.key] = "saved"] ELSE status
  /\ UNCHANGED <<latest, clock, record, shown, typed, clicks>>

\* It says otherwise, or does not arrive.
NotSaved(p) ==
  /\ p.at \in {"stored", "refused"}
  /\ posts' = posts \ {p}
  /\ status' = IF p.row THEN [status EXCEPT ![p.user][p.key] = "error"] ELSE status
  /\ UNCHANGED <<latest, clock, record, shown, feedback, typed, clicks>>

-----------------------------------------------------------------------------
PageStep(u) ==
  \/ \E r \in Run : OpenRun(u, r)
  \/ FilterRows(u)
  \/ \E k \in Key : (\E t \in Text : updateFeedbackDraft(u, k, t)) \/ Click(u, k)
PostStep(p) == Store(p) \/ Refuse(p) \/ Saved(p) \/ NotSaved(p)

NextComments == Tick \/ Rerun \/ (\E u \in User : PageStep(u)) \/ (\E p \in posts : PostStep(p))

CommentsSpec == InitComments /\ [][NextComments]_commentVars

-----------------------------------------------------------------------------
\* What the page keeps as saved, for the next rendering and for the workbook,
\* was stored by the server, and where the row of an issue says "saved", the
\* page keeps a saved comment of the issue. That the text in the row is that
\* comment it does not say.
SavedWasStored ==
  \A u \in User, k \in Key :
    /\ feedback[u][k].saved => feedback[u][k].text \in stored[k]
    /\ status[u][k] = "saved" => feedback[u][k].saved

\* "A local draft is not a saved record": the text in a row that says "saved"
\* was stored by the server.
RowSaidSavedIsStored ==
  \A u \in User, k \in Key : status[u][k] = "saved" => typed[u][k] \in stored[k]

\* The analysis of an issue stored last is the one shown from then on, whatever
\* runs and users the others came from, if it came in a second of its own and
\* changed its record.
LatestChangeShown ==
  \A k \in Key : last[k].changed /\ last[k].alone => Latest(k).text = last[k].text

\* The last analysis of an issue is shown also after the next run: a run that
\* has the issue again shows a comment that was stored for it.
AnalysisSurvivesRerun ==
  \A u \in User, r \in Run : shown[u] = r =>
    \A n \in DOMAIN RunIssues[r] : \A c \in table :
      c.key[2] = RunIssues[r][n] => \E d \in table : d.key = <<n, RunIssues[r][n]>>
=============================================================================
