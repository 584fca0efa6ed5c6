------------------------------ MODULE MCImages ------------------------------
(***************************************************************************)
(* Instance of Images.tla: images of no, one and two mips; levels at both   *)
(* ends of a 4-bit int and around a range.                                  *)
(***************************************************************************)
EXTENDS Images

MCSizes == {<<1, 4>>, <<2, 3>>, <<4, 4>>}
MCLevels == {-8, -1, 0, 1, 7}
=============================================================================
