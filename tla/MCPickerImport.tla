---------------------------- MODULE MCPickerImport ----------------------------
(* Instances of PickerImport for TLC: two sessions that share an image. *)
EXTENDS PickerImport, TLC

CONSTANTS u1, u2, s1, s2, a, b, v

TwoOwners == s1 :> u1 @@ s2 :> u2

SharedPick == s1 :> {a, b, v} @@ s2 :> {b}

=============================================================================
