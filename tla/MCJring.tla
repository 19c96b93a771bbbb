------------------------------- MODULE MCJring -------------------------------
(***************************************************************************)
(* jring for model checking: a shell with a few requests and a child with  *)
(* fewer.                                                                  *)
(***************************************************************************)
EXTENDS Jring

ShellThree == [p \in Pids |-> IF p = Shell THEN 3 ELSE 1]
ShellOnly == [p \in Pids |-> IF p = Shell THEN 3 ELSE 0]
=============================================================================
