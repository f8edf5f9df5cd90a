---------------------------- MODULE MCJiveMatrix ----------------------------
(* Small matrices for TLC: the position <<0, 0>> has no key code. *)
EXTENDS JiveMatrix

MCUnknown == {<<0, 0>>}
=============================================================================
