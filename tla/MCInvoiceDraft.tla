--------------------------- MODULE MCInvoiceDraft ---------------------------
(* A small instance of InvoiceDraft for TLC: half units, tenths of a paisa. *)
EXTENDS InvoiceDraftProperties

MCRequests ==
    [invoice_type : {"sales", "purchase"}, is_service : BOOLEAN, tenant_state : {"27"},
     party : [state_code : {"27", "29"}, registered : BOOLEAN],
     annual_turnover : {150, 501}]

Code(digits, starts_99) == [digits |-> digits, starts_99 |-> starts_99]

priced(quantity, rate, percent, gst_rate, cess_rate, code) ==
    [quantity |-> quantity, rate |-> rate, discount_percent |-> percent,
     gst_rate |-> gst_rate, cess_rate |-> cess_rate, hsn_sac_code |-> code]

\* Fractions on either side of one half at each rounding, and the ends of each range;
\* amounts some of whose sums fit a column and some of whose do not.
MCLines ==
    {priced(1, 1, 0, 18000, 0, NoCode),
     priced(15, 1003, 25, 28000, 1333, NoCode),
     priced(7, 3009, 200, 5000, 0, NoCode),
     priced(3, 15, 200, 40000, 100000, NoCode),
     priced(1, 333, 99, 28000, 99999, NoCode),
     priced(5, 5, 1, 250, 0, Code(4, FALSE)),
     priced(25, 170, 0, 12000, 0, Code(6, TRUE)),
     priced(1, 99, 131, 0, 500, Code(8, FALSE)),
     priced(2, 333, 7, 18000, 50000, NoCode)}

\* On either side of the tolerance of one and two lines, and of what quantize can return.
MCOffsets == {-125, -124, -75, -74, 0, 74, 75, 124, 125, 9994, 9995}

=============================================================================
