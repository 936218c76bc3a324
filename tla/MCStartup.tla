------------------------------ MODULE MCStartup ------------------------------
(* Small instances of Startup: a rolling release, with an instance that has *)
(* one migration less than the others.                                     *)
EXTENDS Startup

CONSTANTS i1, i2, i3, vendor

MCFiles == [i \in Instances |-> IF i = i1 THEN LastMigration - 1 ELSE LastMigration]

(* i2 is not given an account, the others are given the same.               *)
SomeAdmins == [i \in Instances |-> IF i = i2 THEN Unset ELSE vendor]
==============================================================================
