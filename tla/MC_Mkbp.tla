------------------------------ MODULE MC_Mkbp ------------------------------
(***************************************************************************)
(* Instances of Mkbp: keys, buttons and one type without FIFO.             *)
(***************************************************************************)
EXTENDS Mkbp

KeysAndButtons == {<<2, 0>>, <<0, 2>>, <<0, 1>>}
=============================================================================
