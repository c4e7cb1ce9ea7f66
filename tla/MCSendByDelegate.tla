------------------------- MODULE MCSendByDelegate --------------------------
(* The dialog with two recipients and at most two entries: enough for a   *)
(* URI to arrive while a one-entry send is confirmed and for it to be     *)
(* appended as a second entry.                                            *)
EXTENDS SendByDelegate, TLC

CONSTANTS p1, p2, blank, bad

MCRecipients == {p1, p2}

RecipientSymmetry == Permutations(MCRecipients)

=============================================================================
