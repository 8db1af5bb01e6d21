----------------------------- MODULE Documents -----------------------------
(* The accounting documents that the reconciliation compares, and the        *)
(* comparison of one ERP document with one 1C document.                      *)
(*                                                                           *)
(* A text field holds a short string and "" where the code holds an empty    *)
(* string; document numbers are already in the normal form that              *)
(* normalize_document_number produces.  A date is a natural number and 0     *)
(* stands for None.  operation and parent are identifiers with 0 for None.   *)
EXTENDS Integers, Sequences

Text == STRING
Date == Nat
Money == [value : Int, currency : Text]

Kinds == {"customer_invoice", "payment", "sale", "purchase", "closing_document",
          "account_movement"}

\* A row of the tabular part of a 1C document.
Line == [id : Text, amount : Money, contract : Text, vat : Text]

\* A part of a 1C document that 1C attributes to a contract or to a line.
Allocation == [line : Text, amount : Money, contract : Text]

Document ==
  [kind : Kinds, code : Text, number : Text, incoming : Text, date : Date,
   amount : Money, contract : Text, vat : Text, source_id : Text,
   operation : Nat, parent : Nat, related : BOOLEAN,
   lines : Seq(Line), allocations : Seq(Allocation)]

Statuses ==
  {"match", "not_found_in_1c", "erp_code1c_missing", "not_found_in_erp",
   "not_linked_to_delivery_in_erp", "missing_erp_invoice",
   "erp_invoice_link_missing", "missing_erp_closing_document",
   "duplicate_in_1c", "ambiguous_match", "amount_mismatch",
   "number_mismatch", "date_mismatch", "contract_mismatch", "vat_mismatch",
   "not_comparable", "contract_context_missing"}

Confidences == {"", "exact", "strong", "code_date", "code_only", "ambiguous", "detail"}

Bases == {"", "document_header", "payment_header_allocations",
          "payment_allocation", "document_allocation", "document_line"}

-----------------------------------------------------------------------------
Both(x, y) == x # "" /\ y # ""

\* The number the supplier gave the document, which ERP keeps in either field.
IncomingNumber(e) == IF e.incoming # "" THEN e.incoming ELSE e.number

NumbersDiffer(e, d) ==
  IF Both(IncomingNumber(e), d.incoming)
  THEN IncomingNumber(e) # d.incoming
  ELSE /\ ~(Both(e.code, d.code) /\ e.code = d.code)
       /\ Both(e.number, d.number)
       /\ e.number # d.number

\* Mutant: the comparison forgets the date.
MismatchFieldsDateless(e, d) ==
  {f \in {"code1c", "number", "amount"} :
     CASE f = "code1c" -> Both(e.code, d.code) /\ e.code # d.code
       [] f = "number" -> NumbersDiffer(e, d)
       [] f = "amount" -> e.amount # d.amount}

\* The fields in which ERP document e and 1C document d disagree.
MismatchFields(e, d) ==
  {f \in {"code1c", "number", "date", "currency", "amount",
          "contract_code1c", "contract_context", "vat_rate"} :
     CASE f = "code1c"   -> Both(e.code, d.code) /\ e.code # d.code
       [] f = "number"   -> NumbersDiffer(e, d)
       [] f = "date"     -> e.date # 0 /\ d.date # 0 /\ e.date # d.date
       [] f = "currency" -> e.amount.currency # d.amount.currency
       [] f = "amount"   -> /\ e.amount.currency = d.amount.currency
                            /\ e.amount.value # d.amount.value
       [] f = "contract_code1c"  -> /\ Both(e.contract, d.contract)
                                    /\ e.contract # d.contract
       [] f = "contract_context" -> (e.contract = "") # (d.contract = "")
       [] f = "vat_rate" -> Both(e.vat, d.vat) /\ e.vat # d.vat}

STATUS_PRIORITY ==
  << <<"amount", "amount_mismatch">>,
     <<"currency", "amount_mismatch">>,
     <<"contract_code1c", "contract_mismatch">>,
     <<"contract_context", "contract_context_missing">>,
     <<"date", "date_mismatch">>,
     <<"code1c", "number_mismatch">>,
     <<"number", "number_mismatch">>,
     <<"vat_rate", "vat_mismatch">> >>

\* k is the place in STATUS_PRIORITY of the mismatch that names the issue.
Decides(k, fields) ==
  /\ STATUS_PRIORITY[k][1] \in fields
  /\ \A j \in 1..(k - 1) : STATUS_PRIORITY[j][1] \notin fields

StatusOf(fields) ==
  IF fields = {}
  THEN "match"
  ELSE STATUS_PRIORITY[CHOOSE k \in 1..8 : Decides(k, fields)][2]

CompareDocuments(e, d) == StatusOf(MismatchFields(e, d))
=============================================================================
