------------------------------ MODULE MCBulkOut ------------------------------
(***************************************************************************)
(* A small instance of BulkOut for TLC.                                    *)
(***************************************************************************)
EXTENDS BulkOut

\* To Omron the first byte is a header: 4 says one byte, 9 two and 13 three,
\* of which two came; 132 says 33 or, where char is signed, less than none; 16
\* says the four bytes of a bare ATD, whose end may also be left of a payload.
SomeTransfers ==
  {<<>>, <<4, CR>>, <<9, 65, CR>>, <<13, 65, CR>>, <<132, 65>>,
   <<NUL, NUL, CR, 66>>, <<16, NUL, 65, CR, 66>>, <<8, 66, 67>>,
   <<16, 65, 84, 68, CR>>, <<65, 84>>, <<68, CR>>}

=============================================================================
