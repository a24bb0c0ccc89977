-------------------------- MODULE DocumentNumbers --------------------------
(***************************************************************************)
(* The printed form of a document number, "PREFIX/YYYY-YY/NNNN", reduced   *)
(* to the one thing the program decides on: its length (every character    *)
(* the format can produce is allowed by the pattern).                      *)
(***************************************************************************)
EXTENDS Integers, FiniteSets

\* The document types that have a counter of their own.
DocumentTypes ==
    {"sales", "purchase", "credit_note", "debit_note", "payment", "refund"}

\* Len of INV, PUR, CN, DN, PAY, REF.
prefix_length(type) == IF type \in {"credit_note", "debit_note"} THEN 2 ELSE 3

SEQUENCE_PADDING == 4
MAX_NUMBER_LENGTH == 16

\* Decimal digits of a 32-bit counter.
digits(n) == 1 + Cardinality({k \in 1..9 : n >= 10^k})

\* Two slashes and the seven characters of the financial year in between.
formatted_length(type, n) ==
    prefix_length(type) + 9
      + (IF digits(n) > SEQUENCE_PADDING THEN digits(n) ELSE SEQUENCE_PADDING)

validate_invoice_number_format(type, n) ==
    formatted_length(type, n) <= MAX_NUMBER_LENGTH

=============================================================================
