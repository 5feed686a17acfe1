------------------------------ MODULE MCDatabases ------------------------------
(***************************************************************************)
(* Databases with two tables: one whose rows fill more than a batch, and   *)
(* one that SyncTables does after it.                                      *)
(***************************************************************************)
EXTENDS Databases, TLC

CONSTANTS k1, k2, k3, a, b

MCTableOf    == [k \in Keys |-> IF k = k3 THEN "second" ELSE "first"]
MCTableOrder == <<"first", "second">>

MCOneTableOf == [k \in Keys |-> "first"]
MCOneTable   == <<"first">>

MCColumns    == <<a>>
MCAB         == <<a, b>>
MCBA         == <<b, a>>

SameTable == Permutations({k1, k2})
================================================================================
