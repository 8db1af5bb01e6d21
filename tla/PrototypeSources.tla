-------------------------- MODULE PrototypeSources --------------------------
\* What the prototype server (reference/prototype/prototype_server.py) compares
\* a delivery with: the documents, the movements of accounts and the lines of
\* documents of 1C, from the tables that a synchronisation fills or from the
\* REST service, and which of them belong to the delivery.
\*
\* A code or a number is the set of the keys that strong_doc_number_keys makes
\* of it, and {} when it is empty; a contract is named by its key, "" for none,
\* and the text of a contract is the set of the keys it contains; a date is a
\* natural number, 0 for none.
EXTENDS Integers, Sequences, FiniteSets, FiniteSetsExt, SequencesExt

NoSum == 0 - 1

Elements(s) == {s[i] : i \in DOMAIN s}
IsSequence(s) == s \in Seq(Elements(s))

\* The members of a finite set of numbers in their order, and what a sequence
\* has at such places.
Ascending(places) ==
  [k \in 1..Cardinality(places) |->
     CHOOSE i \in places : Cardinality({j \in places : j < i}) = k - 1]

At(seq, places) ==
  LET order == Ascending(places) IN [k \in DOMAIN order |-> seq[order[k]]]

\* A closing act of the ERP is dated by itself, or else by its main document.
DateOfAct(act) == IF act.date # 0 THEN act.date ELSE act.main.date

\* build_onec_filter_context: what the ERP knows of a delivery. The main
\* document of an act is entered under the date of the act.
Context(snap) ==
  LET entry(kind, codes, date) == {[key |-> k, date |-> date, kind |-> kind] : k \in codes}
      known ==
        UNION ({entry("invoice", r.number \cup r.code, r.date) : r \in Elements(snap.invoices)}
          \cup {entry("act", a.number \cup a.code \cup a.main.number \cup a.main.code,
                        DateOfAct(a)) : a \in Elements(snap.acts)}
          \cup {entry("payment", p.code \cup p.number, p.date) : p \in Elements(snap.payments)})
      d == snap.delivery
  IN [specs |-> {d.spec} \ {""},
      bases |-> {d.base} \ {""},
      contracts |-> ({d.own} \cup d.codes \cup snap.contracts) \ {""},
      index |-> {e \in known : e.date # 0},
      keys |-> {e.key : e \in known},
      invoices |-> UNION {r.invoice : r \in Elements(snap.invoices) \cup Elements(snap.acts)
                                              \cup Elements(snap.payments)}]

Empty(context) == \A f \in DOMAIN context : context[f] = {}

OneCKinds(erpKind) ==
  CASE erpKind = "invoice" -> {"invoice"}
    [] erpKind = "payment" -> {"bank_receipt"}
    [] erpKind = "act" -> {"sale_act", "purchase_act"}

\* onec_doc_match_reasons: is there any reason to take the document?
InContract(doc, c) ==
  LET named == {doc.base, doc.contract}
      own == doc.spec \in c.specs
  IN \/ named \cap c.contracts # {}
     \/ own /\ (named \cap c.bases # {})
     \/ doc.text \cap c.contracts # {} /\ (doc.spec = "" \/ own)

ByNumber(doc, c) ==
  LET keys == doc.code \cup doc.number
  IN IF c.index = {} THEN keys \cap c.keys # {}
     ELSE \E e \in c.index : /\ e.key \in keys /\ e.date = doc.date
                             /\ doc.kind \in OneCKinds(e.kind)

ByInvoice(doc, c) ==
  /\ doc.invoice \cap c.invoices # {}
  /\ doc.base # "" \/ doc.contract # "" \/ doc.spec # "" => InContract(doc, c)

Relevant(doc, c) ==
  \/ InContract(doc, c)
  \/ /\ doc.kind = "contract" /\ doc.spec = ""
     /\ {doc.base, doc.contract} \cap c.bases # {}
  \/ /\ doc.kind # "contract" /\ doc.spec \in c.specs \cup {""}
     /\ (ByNumber(doc, c) \/ ByInvoice(doc, c))

DocsFor(docs, snap) ==
  LET c == Context(snap) IN
  At(docs, {i \in DOMAIN docs : Empty(c) \/ Relevant(docs[i], c)})

Placed(spec, base, text, c) ==
  (spec \in c.specs /\ base \in c.bases) \/ text \cap c.contracts # {}

Indexed(codes, date, kind, c) ==
  \E e \in c.index : e.key \in codes /\ e.date = date /\ e.kind = kind

Sides == {"debit", "credit"}

MovementsFor(movements, snap) ==
  LET c == Context(snap)
      ours(m) == \/ \E s \in Sides : Placed(m[s].spec, m[s].base, m[s].text, c)
                 \/ Indexed(m.code, m.date, "payment", c)
  IN At(movements, {i \in DOMAIN movements : ours(movements[i])})

LinesFor(lines, snap) ==
  LET c == Context(snap)
      ours(l) == Placed(l.spec, l.base, l.text, c) \/ Indexed(l.code, l.date, "act", c)
  IN At(lines, {i \in DOMAIN lines : ours(lines[i])})

-----------------------------------------------------------------------------
(* Where they come from                                                      *)

\* The REST service answers with documents, movements and lines. A line is kept
\* with its amount under another name than the one the comparison reads, so that
\* for the comparison it has no sum.
NormalizeSnapshot(answer, snap) ==
  [docs |-> DocsFor(answer.docs, snap),
   movements |-> MovementsFor(answer.movements, snap),
   lines |-> LinesFor([i \in DOMAIN answer.lines |->
                         [answer.lines[i] EXCEPT !.sum = NoSum]], snap)]

\* The tables: for every file, in the order of their names, its contents.
AllOf(field, tables) == FlattenSeq([i \in DOMAIN tables |-> tables[i][field]])

SpecGiven(l, d) == d.spec # "" /\ l.spec = d.spec /\ (d.base # "" => l.base = d.base)

\* SELECT ... FROM onec_account_movements, and what the context leaves of it.
TableMovements(tables, snap) ==
  LET all == AllOf("movements", tables)
      given(m) == \E s \in Sides : SpecGiven(m[s], snap.delivery)
  IN MovementsFor(At(all, {i \in DOMAIN all : given(all[i])}), snap)

\* A row of a sheet of a file is read once. (The file goes by its name alone.)
OncePerRow(lines) ==
  LET again(i) == \E j \in 1..(i - 1) : /\ lines[j].file = lines[i].file
                                        /\ lines[j].row = lines[i].row
  IN At(lines, {i \in DOMAIN lines : ~ again(i)})

\* The lines of the delivery, then those of its acts.
TableLines(tables, snap) ==
  LET all == AllOf("lines", tables)
      ofCode(l, code, date) == code # {} /\ date # 0 /\ l.code = code /\ l.date = date
      ofAct(l) == \E a \in Elements(snap.acts) :
                    \/ ofCode(l, a.code, a.date)
                    \/ ofCode(l, a.main.code, IF a.main.date # 0 THEN a.main.date ELSE a.date)
      placed == At(all, {i \in DOMAIN all : SpecGiven(all[i], snap.delivery)})
      ofActs == At(all, {i \in DOMAIN all : ofAct(all[i])})
  IN LinesFor(OncePerRow(placed \o ofActs), snap)
=============================================================================
