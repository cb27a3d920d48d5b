------------------------------- MODULE MCBoard -------------------------------
(***************************************************************************)
(* The engines of the sweep: kv's two, an embedded rival, a server that    *)
(* leaves its class to its mode, a reference rail, and an engine of a      *)
(* class that the board does not know. Each command asks one question:     *)
(* who shares a table and who has none; what kv's verdicts are; what three *)
(* and four repetitions make of failed, panicked and unequal ones, and the *)
(* cells no server has; a sweep that names a cell twice, and an engine     *)
(* that is not built in; and regimes whose files have the same name.       *)
(***************************************************************************)
EXTENDS Board, TLC

E(mode, class, reference) == [mode |-> mode, class |-> class, reference |-> reference]

MCMeta ==
  "kv-btree" :> E("in-proc", "embedded", FALSE) @@
  "kv-lsm"   :> E("in-proc", "embedded", FALSE) @@
  "bbolt"    :> E("in-proc", "", FALSE) @@
  "valkey"   :> E("network", "", FALSE) @@
  "faster"   :> E("in-proc", "", TRUE) @@
  "newkv"    :> E("network", "tiered", FALSE)

MCSlashless(s) == IF s = "warm/1" THEN "warm_1" ELSE s

Cell(e, r, c, d) ==
  [engine |-> e, workload |-> "ycsb-a", regime |-> r, value |-> 1024, conc |-> c, dur |-> d]
C(e) == Cell(e, "cache-resident", 8, "DEFAULT")
Full(e) == Cell(e, "cache-resident", 8, "FULL")

Default ==
  [cells |-> <<C("bbolt"), C("faster"), C("kv-btree"), C("newkv"), C("valkey")>>,
   named |-> {}, reps |-> 1]

Versus ==
  [cells |-> <<C("kv-btree"), C("kv-lsm"), C("bbolt"), C("valkey")>>,
   named |-> {"kv-btree", "kv-lsm", "bbolt", "valkey"}, reps |-> 1]

Thrice == [cells |-> <<Full("bbolt"), Full("valkey")>>, named |-> {"bbolt", "valkey"}, reps |-> 3]

FourTimes == [cells |-> <<C("bbolt")>>, named |-> {"bbolt"}, reps |-> 4]

Twice ==
  [cells |-> <<C("bbolt"), C("lmdb"), C("bbolt")>>, named |-> {"bbolt", "lmdb"}, reps |-> 1]

Slashes ==
  [cells |-> <<Cell("bbolt", "warm/1", 1, "DEFAULT"), Cell("bbolt", "warm/1", 8, "DEFAULT"),
               Cell("bbolt", "warm_1", 1, "DEFAULT"), Cell("bbolt", "warm_1", 8, "DEFAULT")>>,
   named |-> {"bbolt"}, reps |-> 1]

MCCommands == {Default, Versus, Thrice, FourTimes, Twice, Slashes}
=============================================================================
