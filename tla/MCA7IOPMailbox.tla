-------------------------- MODULE MCA7IOPMailbox --------------------------
(* Values of the constants of A7IOPMailbox for TLC. *)
EXTENDS A7IOPMailbox

\* The SEP masks the two "empty" lines of its own bank, or the line never falls.
SepMasks == {<<"iop", "iop_empty">>, <<"iop", "ap_empty">>}

\* The AP's driver masks the line of the inbox it fills while it has nothing to send.
ApMasks == {<<"ap", "iop_empty">>}
=============================================================================
