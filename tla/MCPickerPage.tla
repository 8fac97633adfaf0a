----------------------------- MODULE MCPickerPage -----------------------------
(* Instances of PickerPage for TLC. *)
EXTENDS PickerPage

CONSTANTS s1, s2, c1, w1, w2, f1, f2

=============================================================================
