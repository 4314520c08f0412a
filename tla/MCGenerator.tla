------------------------------ MODULE MCGenerator ------------------------------
(* Instances of Generator for TLC: files of one to three rules over three          *)
(* characters, one of them the newline.                                            *)
EXTENDS Generator, MCThompson

OneRule == {<<Plain(Small)>>}
=============================================================================
