------------------------------- MODULE MCTftp -------------------------------
(* Instances of Tftp: two files, the second one shorter.                   *)
EXTENDS Tftp

CONSTANTS f1, f2

MCFileLen == [f \in Files |-> IF f = f1 THEN 5 ELSE 1]
=============================================================================
