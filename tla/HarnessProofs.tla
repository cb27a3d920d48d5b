---------------------------- MODULE HarnessProofs ----------------------------
(***************************************************************************)
(* The harness. For any number of clients, operations and keys, any batch  *)
(* size and any engine that may fail or panic anywhere: RunCell cleans up  *)
(* on every way out, and what it calls a measurement is a complete one.    *)
(* For every word size, seed and keyspace, every number of runs, clients   *)
(* and operations, and every workload of the catalogue: the streams of two *)
(* runs agree, their keys are in the dataset, and the mix is exact.        *)
(***************************************************************************)
EXTENDS RunCell, Workload, FiniteSetTheorems, SequenceTheorems, NaturalsInduction, TLAPS

(***************************************************************************)
(* A cell (module RunCell).                                                *)
(***************************************************************************)
\* Every client has at least one operation to do (perClient is made 1 when the
\* division gives 0).
LEMMA PerClientType ==
  /\ perClient \in Nat \ {0} /\ Cardinality(Clients) \in Nat \ {0}
<1>1. Cardinality(Clients) \in Nat \ {0}
  BY RunCellAssumption, FS_CardinalityType, FS_EmptySet
<1>2. PICK n : n = Cardinality(Clients)
  OBVIOUS
<1>3. Operations \div n \in Nat
  BY <1>1, <1>2, RunCellAssumption
<1> QED BY <1>1, <1>2, <1>3 DEF perClient

\* Arming one more deferred function, over one or two that are armed.
LEMMA Arm ==
  ASSUME NEW a, NEW b, NEW c
  PROVE  <<a>> \o <<b>> = <<a, b>> /\ <<a>> \o <<b, c>> = <<a, b, c>>
<1> DEFINE S == {a, b, c}
<1>0. /\ <<a>> \in Seq(S) /\ <<b>> \in Seq(S) /\ <<b, c>> \in Seq(S)
      /\ <<a, b>> \in Seq(S) /\ <<a, b, c>> \in Seq(S)
  OBVIOUS
<1>1. PICK x \in Seq(S) : x = <<a>>
  BY <1>0, Zenon
<1>2. PICK y \in Seq(S) : y = <<b>>
  BY <1>0, Zenon
<1>3. PICK z \in Seq(S) : z = <<b, c>>
  BY <1>0, Zenon
<1>4. PICK v \in Seq(S) : v = <<a, b>>
  BY <1>0, Zenon
<1>5. PICK w \in Seq(S) : w = <<a, b, c>>
  BY <1>0, Zenon
<1>6. x \o y \in Seq(S) /\ x \o z \in Seq(S)
  BY ConcatProperties
<1>7. Len(x \o y) = Len(v) /\ \A i \in 1..Len(x \o y) : (x \o y)[i] = v[i]
  BY <1>1, <1>2, <1>4, ConcatProperties
<1>8. Len(x \o z) = Len(w) /\ \A i \in 1..Len(x \o z) : (x \o z)[i] = w[i]
  BY <1>1, <1>3, <1>5, ConcatProperties
<1>9. x \o y = v
  BY <1>6, <1>7, SeqEqual, Zenon
<1>10. x \o z = w
  BY <1>6, <1>8, SeqEqual, Zenon
<1> QED BY <1>1, <1>2, <1>3, <1>4, <1>5, <1>9, <1>10

\* What a return statement sets, and a failure adds.
LEMMA ResultType ==
  /\ \A e, m, s \in BOOLEAN : ReturnResult(e, m, s) => slot' \in Results
  /\ ReturnError => slot' \in Results
<1>1. \A e, m, s \in BOOLEAN : [error |-> e, measured |-> m, star |-> s] \in Results
  BY DEF Results
<1> QED BY <1>1, Zenon DEF ReturnResult, ReturnError

-----------------------------------------------------------------------------
\* The types of all variables are kept by each step.
LEMMA TypesKept == TypeOK /\ [Next]_vars => TypeOK'
<1> SUFFICES ASSUME TypeOK, [Next]_vars
             PROVE  TypeOK'
  OBVIOUS
<1> USE PerClientType DEF TypeOK, counters
<1>0. ReturnError => slot' \in Results /\ pc' = "unwind" /\ UNCHANGED panicking
  BY ResultType DEF ReturnError, ReturnResult
<1>f. \A p \in Phases : {<<p, "error">>, <<p, "panic">>} \subseteq Failures
  BY DEF Failures
<1>1. CASE New
  BY <1>0, <1>1 DEF New, Goto
<1>2. CASE Mkdir
  BY <1>0, <1>2, Zenon DEF Mkdir, Goto
<1>3. CASE Open
  BY <1>0, <1>f, <1>3, Zenon DEF Open, EngineCall, Goto, Phases
<1>4. CASE Load
  <2>1. loaded' \in [0..(NKeys - 1) -> Nat]
    BY <1>4 DEF Load, EngineCall
  <2> QED BY <1>0, <1>f, <1>4, <2>1, Zenon DEF Load, EngineCall, Goto, Phases
<1>5. CASE Flush
  <2>1. left' \in [Clients -> 0..perClient]
    BY <1>5 DEF Flush, EngineCall
  <2> QED BY <1>f, <1>5, <2>1, Zenon DEF Flush, EngineCall, Goto, Phases
<1>6. ASSUME NEW c \in Clients, ClientOp(c)
      PROVE  TypeOK'
  <2>1. left' \in [Clients -> 0..perClient]
    BY <1>6 DEF ClientOp
  <2>2. failed' \subseteq Failures
    <3>1. \/ failed' = failed
          \/ failed' = failed \cup {<<"measure", "error">>}
          \/ failed' = failed \cup {<<"measure", "panic">>}
      BY <1>6 DEF ClientOp
    <3>2. <<"measure", "error">> \in Failures /\ <<"measure", "panic">> \in Failures
      BY DEF Failures, Phases
    <3>3. failed \subseteq Failures
      OBVIOUS
    <3> QED BY <3>1, <3>2, <3>3, Zenon
  <2>3. reads' \in Nat /\ writes' \in Nat /\ hist' \in Nat
    BY <1>6 DEF ClientOp
  <2>4. crashed' \in BOOLEAN /\ UNCHANGED <<cell, pc, panicking, slot, eng, dir, loaded>>
    BY <1>6, Zenon DEF ClientOp
  <2> QED BY <2>1, <2>2, <2>3, <2>4
<1>7. CASE Join
  BY <1>7 DEF Join, Goto
<1>8. CASE Account
  <2>1. (cell.full /\ ~cell.durable) \in BOOLEAN
    OBVIOUS
  <2>2. slot' \in Results /\ pc' = "unwind" /\ panicking' \in BOOLEAN
    BY <1>8, <2>1, ResultType, Zenon DEF Account, EngineCall, ReturnResult
  <2> QED BY <1>f, <1>8, <2>2, Zenon DEF Account, EngineCall, Phases
<1>9. CASE Unwind
  BY <1>f, <1>9, Zenon DEF Unwind, Phases
<1>10. CASE Over \/ UNCHANGED vars
  BY <1>10 DEF Over, vars
<1> QED BY <1>1, <1>2, <1>3, <1>4, <1>5, <1>6, <1>7, <1>8, <1>9, <1>10, Zenon DEF Next

\* Close, RemoveAll and recover are armed and run as the engine and the directory
\* come and go.
LEMMA DefersKept == TypeOK /\ DefersArmed /\ [Next]_vars => DefersArmed'
<1> SUFFICES ASSUME TypeOK, DefersArmed, [Next]_vars
             PROVE  DefersArmed'
  OBVIOUS
<1>1. PICK d0, d1, d2, d3 : /\ d0 = <<>> /\ d1 = <<"recover">>
                            /\ d2 = <<"remove", "recover">> /\ d3 = AllDefers
  BY Zenon
<1>2. d0 # d1 /\ d0 # d2 /\ d0 # d3 /\ d1 # d2 /\ d1 # d3 /\ d2 # d3
  BY <1>1 DEF AllDefers
<1>3. <<"remove">> \o d1 = d2 /\ <<"close">> \o d2 = d3
  BY <1>1, Arm, Zenon DEF AllDefers
<1>4. Head(d3) = "close" /\ Tail(d3) = d2
  BY <1>1 DEF AllDefers
<1>5. Head(d2) = "remove" /\ Tail(d2) = d1 /\ Head(d1) = "recover" /\ Tail(d1) = d0
  BY <1>1
<1> DEFINE Armed == /\ pc \in {"new", "mkdir"} => defers = d1
                    /\ pc = "open" => defers = d2
                    /\ pc \in Started => defers = d3
                    /\ defers \in {d3, d2, d1, d0}
                    /\ eng = "open" <=> defers = d3
                    /\ dir <=> defers \in {d3, d2}
                    /\ panicking => pc = "unwind" /\ defers # d0
                    /\ crashed => pc = "measure" /\ \E c \in Clients : left[c] > 0
                    /\ pc # "measure" => \A c \in Clients : left[c] = 0
<1>6. Armed
  BY <1>1 DEF DefersArmed
<1>7. SUFFICES Armed'
  BY <1>1 DEF DefersArmed
<1> USE <1>2, <1>6 DEF Started, counters
<1>8. CASE New
  BY <1>8 DEF New, ReturnError, ReturnResult, Goto
<1>9. CASE Mkdir
  <2>1. /\ pc = "mkdir" /\ UNCHANGED <<panicking, eng, left, crashed>>
        /\ \/ pc' = "unwind" /\ dir' = FALSE /\ defers' = defers
           \/ pc' = "open" /\ dir' = TRUE /\ defers' = d2
    BY <1>9, <1>3, Zenon DEF Mkdir, ReturnError, ReturnResult, Goto
  <2>2. CASE pc' = "unwind" /\ dir' = FALSE /\ defers' = defers
    BY <2>1, <2>2, Zenon
  <2>3. CASE pc' = "open" /\ dir' = TRUE /\ defers' = d2
    BY <2>1, <2>3, Zenon
  <2> QED BY <2>1, <2>2, <2>3
<1>10. CASE Open
  <2>1. /\ pc = "open" /\ UNCHANGED <<dir, left, crashed>>
        /\ \/ pc' = "load" /\ eng' = "open" /\ defers' = d3 /\ panicking' = panicking
           \/ pc' = "unwind" /\ eng' = eng /\ defers' = defers
    BY <1>10, <1>3, Zenon DEF Open, EngineCall, ReturnError, ReturnResult, Goto
  <2>2. CASE pc' = "load" /\ eng' = "open" /\ defers' = d3 /\ panicking' = panicking
    BY <2>1, <2>2, Zenon
  <2>3. CASE pc' = "unwind" /\ eng' = eng /\ defers' = defers
    BY <2>1, <2>3, Zenon
  <2> QED BY <2>1, <2>2, <2>3
<1>11. CASE Load
  BY <1>11 DEF Load, EngineCall, ReturnError, ReturnResult, Goto
<1>12. CASE Flush
  BY <1>12 DEF Flush, EngineCall, Goto
<1>13. ASSUME NEW c \in Clients, ClientOp(c)
       PROVE  Armed'
  <2>1. pc = "measure" /\ UNCHANGED <<pc, defers, panicking, eng, dir>>
    BY <1>13 DEF ClientOp
  <2>2. left[c] > 0 /\ ~crashed /\ (crashed' = crashed \/ left' = left)
    BY <1>13 DEF ClientOp
  <2>3. crashed' => \E d \in Clients : left'[d] > 0
    BY <2>2, Zenon
  <2> QED BY <2>1, <2>3, Zenon
<1>14. CASE Join
  <2>1. /\ pc' = "account" /\ pc = "measure" /\ \A c \in Clients : left[c] = 0
        /\ UNCHANGED <<defers, panicking, eng, dir, left, crashed>>
    BY <1>14 DEF Join, Goto
  <2>2. ~crashed
    BY <2>1
  <2> QED BY <2>1, <2>2, Zenon
<1>15. CASE Account
  BY <1>15 DEF Account, EngineCall, ReturnResult
<1>16. CASE Unwind
  <2>1. /\ pc' = "unwind" /\ pc = "unwind" /\ defers' = Tail(defers)
        /\ UNCHANGED <<crashed, left>>
    BY <1>16 DEF Unwind
  <2>2. CASE defers = d3
    <3>1. defers' = d2 /\ eng' = "closed" /\ dir' = dir
      BY <1>16, <1>4, <2>1, <2>2, Zenon DEF Unwind
    <3> QED BY <2>1, <2>2, <3>1, Zenon
  <2>3. CASE defers = d2
    <3>1. defers' = d1 /\ eng' = eng /\ dir' = FALSE
      BY <1>16, <1>5, <2>1, <2>3, Zenon DEF Unwind
    <3> QED BY <2>1, <2>3, <3>1, Zenon
  <2>4. CASE defers = d1
    <3>1. defers' = d0 /\ eng' = eng /\ dir' = dir /\ panicking' = FALSE
      BY <1>16, <1>5, <2>1, <2>4 DEF Unwind
    <3> QED BY <2>1, <2>4, <3>1, Zenon
  <2> QED BY <1>1, <1>16, <2>2, <2>3, <2>4, Zenon DEF Unwind
<1>17. CASE Over \/ UNCHANGED vars
  BY <1>17 DEF Over, vars
<1> QED
  BY <1>8, <1>9, <1>10, <1>11, <1>12, <1>13, <1>14, <1>15, <1>16, <1>17, Zenon DEF Next

\* A result says what its return statement knows.
LEMMA ResultKept == TypeOK /\ ResultEarned /\ [Next]_vars => ResultEarned'
<1> SUFFICES ASSUME TypeOK, ResultEarned, [Next]_vars
             PROVE  ResultEarned'
  OBVIOUS
<1> USE DEF ResultEarned, counters
<1>1. CASE New
  BY <1>1 DEF New, ReturnError, ReturnResult, Goto
<1>2. CASE Mkdir
  BY <1>2 DEF Mkdir, ReturnError, ReturnResult, Goto
<1>3. CASE Open
  BY <1>3 DEF Open, EngineCall, ReturnError, ReturnResult, Goto, ZeroResult
<1>4. CASE Load
  BY <1>4 DEF Load, EngineCall, ReturnError, ReturnResult, Goto, ZeroResult
<1>5. CASE Flush
  BY <1>5 DEF Flush, EngineCall, Goto
<1>6. ASSUME NEW c \in Clients, ClientOp(c)
      PROVE  ResultEarned'
  BY <1>6 DEF ClientOp
<1>7. CASE Join
  BY <1>7 DEF Join, Goto
<1>8. CASE Account
  BY <1>8 DEF Account, EngineCall, ReturnResult
<1>9. CASE Unwind
  BY <1>9 DEF Unwind
<1>10. CASE Over \/ UNCHANGED vars
  BY <1>10 DEF Over, vars
<1> QED BY <1>1, <1>2, <1>3, <1>4, <1>5, <1>6, <1>7, <1>8, <1>9, <1>10 DEF Next

-----------------------------------------------------------------------------
\* What the generator of loadDataset hands out when the first n keys are in.
LEMMA BatchKeys ==
  ASSUME NEW n \in 0..NKeys,
         loaded = [k \in 0..(NKeys - 1) |-> IF k < n THEN 1 ELSE 0]
  PROVE  NextBatch = {k \in 0..(NKeys - 1) : k >= n /\ k < n + BatchSize}
<1> USE RunCellAssumption
<1>1. {k \in DOMAIN loaded : loaded[k] > 0} = 0..(n - 1)
  OBVIOUS
<1>2. Cardinality(0..(n - 1)) = n
  BY FS_Interval
<1>3. DOMAIN loaded = 0..(NKeys - 1)
  OBVIOUS
<1> QED BY <1>1, <1>2, <1>3, Zenon DEF NextBatch

\* loadDataset commits the keys batch by batch, and nothing loads a key after it.
LEMMA LoadKept ==
  TypeOK /\ ResultEarned /\ LoadedInOrder /\ [Next]_vars => LoadedInOrder'
<1> SUFFICES ASSUME TypeOK, ResultEarned, LoadedInOrder, [Next]_vars
             PROVE  LoadedInOrder'
  OBVIOUS
<1> USE RunCellAssumption DEF counters
<1>1. PICK n \in 0..NKeys : loaded = [k \in 0..(NKeys - 1) |-> IF k < n THEN 1 ELSE 0]
  BY Zenon DEF LoadedInOrder
<1>2. pc # "unwind" => slot.measured = FALSE
  BY DEF ResultEarned, ZeroResult
<1>3. ReturnError => pc' = "unwind" /\ slot'.measured = FALSE
  BY DEF ReturnError, ReturnResult
<1>4. ASSUME UNCHANGED loaded,
             \/ pc' \notin {"flush", "measure", "account"} /\ slot'.measured = FALSE
             \/ pc \in {"flush", "measure", "account"}
             \/ UNCHANGED <<pc, slot>>
      PROVE  LoadedInOrder'
  BY <1>4, Zenon DEF LoadedInOrder
<1>5. CASE New \/ Mkdir \/ Open
  <2>1. UNCHANGED loaded /\ pc' \notin {"flush", "measure", "account"}
    BY <1>5, <1>3 DEF New, Mkdir, Open, EngineCall, Goto
  <2>2. slot'.measured = FALSE
    BY <1>5, <1>2, <1>3 DEF New, Mkdir, Open, EngineCall, Goto
  <2> QED BY <1>4, <2>1, <2>2, Zenon
<1>6. CASE Load
  <2>0. NextBatch = {k \in 0..(NKeys - 1) : k >= n /\ k < n + BatchSize}
    BY <1>1, BatchKeys
  <2>1. CASE UNCHANGED loaded /\ pc' = "unwind" /\ slot'.measured = FALSE
    BY <1>4, <2>1, Zenon
  <2>2. CASE NextBatch = {} /\ UNCHANGED loaded
    <3>1. n = NKeys
      <4>1. n \in 0..(NKeys - 1) => n \in NextBatch
        BY <2>0
      <4> QED BY <2>2, <4>1
    <3> QED BY <1>1, <2>2, <3>1 DEF LoadedInOrder
  <2>3. CASE /\ pc' = "load" /\ slot'.measured = FALSE
             /\ loaded' = [k \in DOMAIN loaded |-> loaded[k] + (IF k \in NextBatch THEN 1 ELSE 0)]
    <3>1. PICK m \in 0..NKeys : m = IF n + BatchSize <= NKeys THEN n + BatchSize ELSE NKeys
      OBVIOUS
    <3>2. \A k \in 0..(NKeys - 1) : loaded'[k] = IF k < m THEN 1 ELSE 0
      <4>1. \A k \in 0..(NKeys - 1) :
              loaded'[k] = (IF k < n THEN 1 ELSE 0) + (IF k \in NextBatch THEN 1 ELSE 0)
        BY <1>1, <2>3
      <4>2. \A k \in 0..(NKeys - 1) : k \in NextBatch <=> k >= n /\ k < n + BatchSize
        BY <2>0
      <4> QED BY <3>1, <4>1, <4>2
    <3>3. loaded' = [k \in 0..(NKeys - 1) |-> IF k < m THEN 1 ELSE 0]
      BY <1>1, <2>3, <3>2
    <3> QED BY <2>3, <3>3, Zenon DEF LoadedInOrder
  <2>4. pc = "load"
    BY <1>6 DEF Load
  <2> QED BY <1>2, <1>3, <1>6, <2>1, <2>2, <2>3, <2>4, Zenon DEF Load, EngineCall, Goto
<1>7. CASE Flush \/ Join \/ Account
  BY <1>4, <1>7, Zenon DEF Flush, Join, Account, EngineCall
<1>8. ASSUME NEW c \in Clients, ClientOp(c)
      PROVE  LoadedInOrder'
  BY <1>4, <1>8 DEF ClientOp
<1>9. CASE Unwind \/ Over \/ UNCHANGED vars
  BY <1>4, <1>9, Zenon DEF Unwind, Over, vars
<1> QED BY <1>5, <1>6, <1>7, <1>8, <1>9 DEF Next

-----------------------------------------------------------------------------
\* Before the first operation everything is to do.
LEMMA UndoneFirst ==
  ASSUME NEW l, l = [c \in Clients |-> perClient]
  PROVE  Cardinality({p \in Clients \X (1..perClient) : p[2] <= l[p[1]]})
           = perClient * Cardinality(Clients)
<1> USE PerClientType
<1>1. {p \in Clients \X (1..perClient) : p[2] <= l[p[1]]} = Clients \X (1..perClient)
  OBVIOUS
<1>2. IsFiniteSet(1..perClient) /\ Cardinality(1..perClient) = perClient
  BY FS_Interval
<1>3. Cardinality(Clients \X (1..perClient)) = Cardinality(Clients) * perClient
  BY <1>2, FS_Product, RunCellAssumption, Zenon
<1>4. \A m, n \in Nat : m * n = n * m
  OBVIOUS
<1>5. Cardinality(Clients) * perClient = perClient * Cardinality(Clients)
  BY <1>4
<1> QED BY <1>1, <1>3, <1>5, Zenon

\* What is to do is a finite set, and nothing once no client has any left.
LEMMA UndoneLast ==
  ASSUME TypeOK
  PROVE  /\ IsFiniteSet(Undone) /\ Cardinality(Undone) \in Nat
         /\ (\A c \in Clients : left[c] = 0) => Cardinality(Undone) = 0
<1> USE PerClientType
<1>1. IsFiniteSet(Clients \X (1..perClient))
  <2>1. IsFiniteSet(1..perClient)
    BY FS_Interval
  <2> QED BY <2>1, FS_Product, RunCellAssumption
<1>2. Undone \in SUBSET (Clients \X (1..perClient))
  BY DEF Undone
<1>3. IsFiniteSet(Undone)
  BY <1>1, <1>2, FS_Subset
<1>4. (\A c \in Clients : left[c] = 0) => Undone = {}
  BY DEF Undone, TypeOK
<1> QED BY <1>3, <1>4, FS_CardinalityType, FS_EmptySet

\* One operation of a client leaves one less to do.
LEMMA UndoneOneLess ==
  ASSUME TypeOK, NEW c \in Clients, left[c] > 0, left' = [left EXCEPT ![c] = @ - 1]
  PROVE  Cardinality(Undone') = Cardinality(Undone) - 1
<1> USE PerClientType
<1>1. left[c] \in 1..perClient /\ \A d \in Clients : left[d] \in 0..perClient
  BY DEF TypeOK
<1>2. <<c, left[c]>> \in Undone
  BY <1>1 DEF Undone
<1>3. \A d \in Clients : left'[d] = IF d = c THEN left[c] - 1 ELSE left[d]
  BY DEF TypeOK
<1>4. \A d \in Clients, i \in 1..perClient :
        i <= left'[d] <=> i <= left[d] /\ <<d, i>> # <<c, left[c]>>
  BY <1>1, <1>3
<1>5. Undone' = Undone \ {<<c, left[c]>>}
  BY <1>4 DEF Undone
<1> QED BY <1>2, <1>5, UndoneLast, FS_RemoveElement, Zenon

\* Every operation ends up in the histograms and in a counter, once.
LEMMA CountKept ==
  TypeOK /\ ResultEarned /\ OperationsCounted /\ [Next]_vars => OperationsCounted'
<1> SUFFICES ASSUME TypeOK, ResultEarned, OperationsCounted, [Next]_vars
             PROVE  OperationsCounted'
  OBVIOUS
<1> USE PerClientType DEF counters
<1>1. PICK Total \in Nat : Total = perClient * Cardinality(Clients)
  OBVIOUS
<1>2. pc # "unwind" => slot.measured = FALSE
  BY DEF ResultEarned, ZeroResult
<1>3. ReturnError => pc' = "unwind" /\ slot'.measured = FALSE
  BY DEF ReturnError, ReturnResult
<1>4. ASSUME UNCHANGED <<reads, writes, hist>>,
             pc' \in {"mkdir", "open", "load", "flush"} => hist = 0,
             pc' = "new" => pc = "new",
             pc' = "measure" => hist + Cardinality(Undone') = Total,
             pc' = "account" \/ slot'.measured => hist = Total
      PROVE  OperationsCounted'
  BY <1>1, <1>4 DEF OperationsCounted
<1>5. CASE New \/ Mkdir \/ Open
  <2>1. /\ UNCHANGED <<reads, writes, hist>> /\ hist = 0
        /\ pc' \in {"mkdir", "open", "load", "unwind"}
    BY <1>5, <1>3 DEF New, Mkdir, Open, EngineCall, Goto, OperationsCounted
  <2>2. slot'.measured = FALSE
    BY <1>5, <1>2, <1>3 DEF New, Mkdir, Open, EngineCall, Goto
  <2> QED BY <1>4, <2>1, <2>2
<1>6. CASE Load
  <2>1. /\ UNCHANGED <<reads, writes, hist>> /\ hist = 0
        /\ pc' \in {"load", "flush", "unwind"}
    BY <1>6, <1>3 DEF Load, EngineCall, Goto, OperationsCounted
  <2>2. slot'.measured = FALSE
    BY <1>6, <1>2, <1>3 DEF Load, EngineCall, Goto
  <2> QED BY <1>4, <2>1, <2>2
<1>7. CASE Flush
  <2>1. UNCHANGED <<reads, writes, hist, slot>> /\ hist = 0 /\ slot'.measured = FALSE
    BY <1>7, <1>2 DEF Flush, EngineCall, Goto, OperationsCounted
  <2>2. \/ pc' = "unwind"
        \/ pc' = "measure" /\ left' = [c \in Clients |-> perClient]
    BY <1>7 DEF Flush, EngineCall, Goto
  <2>3. pc' = "measure" => Cardinality(Undone') = Total
    BY <1>1, <2>2, UndoneFirst DEF Undone
  <2> QED BY <1>4, <2>1, <2>2, <2>3
<1>8. ASSUME NEW c \in Clients, ClientOp(c)
      PROVE  OperationsCounted'
  <2>1. CASE UNCHANGED <<reads, writes, hist, left, pc, slot>>
    BY <2>1 DEF OperationsCounted, Undone
  <2>2. CASE hist' # hist
    <3>1. /\ pc = "measure" /\ pc' = "measure" /\ slot'.measured = FALSE /\ left[c] > 0
          /\ left' = [left EXCEPT ![c] = @ - 1] /\ hist' = hist + 1
          /\ \E r, w \in 0..1 : r + w > 0 /\ reads' = reads + r /\ writes' = writes + w
      BY <1>2, <1>8, <2>2 DEF ClientOp
    <3>2. Cardinality(Undone') = Cardinality(Undone) - 1
      BY <3>1, UndoneOneLess, Zenon
    <3>3. Cardinality(Undone) \in Nat
      BY UndoneLast
    <3>4. hist' + Cardinality(Undone') = hist + Cardinality(Undone)
      BY <3>1, <3>2, <3>3 DEF TypeOK
    <3>5. reads' + writes' >= hist' /\ reads' <= hist' /\ writes' <= hist'
      BY <3>1 DEF OperationsCounted, TypeOK
    <3>6. hist + Cardinality(Undone) = Total
      BY <1>1, <3>1 DEF OperationsCounted
    <3>7. hist' + Cardinality(Undone') = Total
      BY <3>4, <3>6, Zenon
    <3>8. pc' \notin {"new", "mkdir", "open", "load", "flush"} /\ ~(pc' = "account" \/ slot'.measured)
      BY <3>1
    <3>9. hist' + Cardinality(Undone') = perClient * Cardinality(Clients)
      BY <1>1, <3>7, Zenon
    <3> QED BY <3>5, <3>8, <3>9, Zenon DEF OperationsCounted
  <2>3. hist + 1 # hist
    BY DEF TypeOK
  <2> QED BY <1>8, <2>1, <2>2, <2>3 DEF ClientOp
<1>9. CASE Join
  <2>1. /\ UNCHANGED <<reads, writes, hist, slot>> /\ pc = "measure" /\ pc' = "account"
        /\ \A c \in Clients : left[c] = 0
    BY <1>9 DEF Join, Goto
  <2>2. hist = Total
    BY <1>1, <2>1, UndoneLast DEF OperationsCounted, TypeOK
  <2> QED BY <1>4, <2>1, <2>2
<1>10. CASE Account
  <2>1. UNCHANGED <<reads, writes, hist>> /\ pc' = "unwind" /\ hist = Total
    BY <1>1, <1>10 DEF Account, EngineCall, ReturnResult, OperationsCounted
  <2> QED BY <1>4, <2>1
<1>11. CASE Unwind \/ Over \/ UNCHANGED vars
  <2>1. UNCHANGED <<reads, writes, hist, left, pc, slot>>
    BY <1>11 DEF Unwind, Over, vars
  <2> QED BY <2>1, Zenon DEF OperationsCounted, Undone
<1> QED BY <1>5, <1>6, <1>7, <1>8, <1>9, <1>10, <1>11, Zenon DEF Next

-----------------------------------------------------------------------------
\* An asterisk goes with every FULL measurement of an engine that does not sync.
LEMMA LabelKept ==
  TypeOK /\ ResultEarned /\ FullLabelHonest /\ [Next]_vars => FullLabelHonest'
<1> SUFFICES ASSUME TypeOK, ResultEarned, FullLabelHonest, [Next]_vars
             PROVE  FullLabelHonest'
  OBVIOUS
<1>1. CASE UNCHANGED <<cell, slot>>
  BY <1>1 DEF FullLabelHonest
<1>2. CASE slot'.measured = FALSE
  BY <1>2 DEF FullLabelHonest
<1>3. CASE Account /\ slot' # slot
  <2>1. UNCHANGED cell /\ slot'.star = (cell.full /\ ~cell.durable) /\ ~(cell.full /\ cell.network)
    <3>1. pc = "account" /\ UNCHANGED cell
      BY <1>3, Zenon DEF Account
    <3>2. slot' = [error |-> FALSE, measured |-> TRUE, star |-> cell.full /\ ~cell.durable]
      BY <1>3, Zenon DEF Account, EngineCall, ReturnResult
    <3>3. ~(cell.full /\ cell.network)
      BY <3>1 DEF ResultEarned
    <3> QED BY <3>1, <3>2, <3>3
  <2> QED BY <2>1 DEF FullLabelHonest, TypeOK, Cells
<1>4. UNCHANGED cell
  BY Zenon DEF Next, New, Mkdir, Open, Load, Flush, ClientOp, Join, Account, Unwind, Over, vars
<1>5. UNCHANGED slot \/ slot'.measured = FALSE \/ Account
  <2>1. ReturnError => slot'.measured = FALSE
    BY DEF ReturnError, ReturnResult
  <2> QED
    BY <2>1, Zenon DEF Next, New, Mkdir, Open, Load, Flush, ClientOp, Join, Unwind, Over, vars,
                       EngineCall, Goto
<1> QED BY <1>1, <1>2, <1>3, <1>4, <1>5, Zenon

-----------------------------------------------------------------------------
CellIInv ==
  /\ TypeOK /\ DefersArmed /\ ResultEarned /\ LoadedInOrder /\ OperationsCounted
  /\ FullLabelHonest

\* A cell starts with nothing opened, made, loaded or measured.
LEMMA InitCell == Init => CellIInv
<1> SUFFICES ASSUME Init
             PROVE  CellIInv
  OBVIOUS
<1> USE RunCellAssumption, PerClientType
<1>1. TypeOK
  <2>1. ZeroResult \in Results /\ {} \subseteq Failures
    BY DEF ZeroResult, Results
  <2>2. cell \in Cells /\ left \in [Clients -> 0..perClient]
    BY DEF Init
  <2>3. loaded \in [0..(NKeys - 1) -> Nat]
    BY DEF Init
  <2> QED BY <2>1, <2>2, <2>3, Zenon DEF Init, TypeOK
<1>2. DefersArmed
  BY DEF Init, DefersArmed, AllDefers, Started
<1>3. ResultEarned
  BY DEF Init, ResultEarned
<1>4. LoadedInOrder
  <2>1. loaded = [k \in 0..(NKeys - 1) |-> IF k < 0 THEN 1 ELSE 0]
    BY DEF Init
  <2> QED BY <2>1 DEF Init, LoadedInOrder, ZeroResult
<1>5. OperationsCounted /\ FullLabelHonest
  BY DEF Init, OperationsCounted, FullLabelHonest, ZeroResult
<1> QED BY <1>1, <1>2, <1>3, <1>4, <1>5 DEF CellIInv

\* What holds on the way gives what RunCell owes on every way out.
LEMMA CellOwes == CellIInv => CellInv /\ MeasurementComplete
<1> SUFFICES ASSUME CellIInv
             PROVE  CellInv /\ MeasurementComplete
  OBVIOUS
<1> USE DEF CellIInv
<1>1. EngineOutlivesNoOne
  BY DEF EngineOutlivesNoOne, DefersArmed, Started
<1>2. NothingLeftBehind
  BY DEF NothingLeftBehind, Returned, DefersArmed, AllDefers
<1>3. LookedAtErrorsReported
  BY DEF LookedAtErrorsReported, ResultEarned
<1>4. MeasurementComplete
  BY DEF MeasurementComplete, LoadedInOrder, OperationsCounted
<1> QED BY <1>1, <1>2, <1>3, <1>4 DEF CellInv

\* The invariant is kept by every step.
LEMMA CellKept == CellIInv /\ [Next]_vars => CellIInv'
  BY TypesKept, DefersKept, ResultKept, LoadKept, CountKept, LabelKept DEF CellIInv

\* Theorem: whatever the engine does in whichever phase, the directory of an open
\* engine is there and no client runs on a closed one, RunCell leaves no engine
\* open, no directory and no panic behind, an error of Open or of the load is
\* reported, and no FULL label is a lie.
THEOREM CellCorrect == Spec => []CellInv
  BY InitCell, CellKept, CellOwes, PTL DEF Spec

\* Theorem: for any number of clients, operations and keys and any batch size, a
\* result that claims a measurement rests on a complete one: every key loaded
\* once, and every operation of every client in the histograms and the counters.
THEOREM CellMeasures == Spec => []MeasurementComplete
  BY InitCell, CellKept, CellOwes, PTL DEF Spec

-----------------------------------------------------------------------------
(***************************************************************************)
(* The catalogue.                                                          *)
(***************************************************************************)
\* A mix: percentages that add up.
IsMix(pct) ==
  /\ pct \in [read : Nat, update : Nat, insert : Nat, scan : Nat, rmw : Nat, delete : Nat]
  /\ pct.read + pct.update + pct.insert + pct.scan + pct.rmw + pct.delete = 100

\* The percentages of every workload of the catalogue add up to a hundred.
LEMMA CatalogMixes ==
  ASSUME NEW w \in DOMAIN Catalog
  PROVE  IsMix(Catalog[w].pct)
<1> DEFINE Names == {"ycsb_a", "ycsb_b", "ycsb_c", "ycsb_d", "ycsb_e", "ycsb_f", "fillseq",
                     "fillrandom", "overwrite", "readrandom", "readseq", "deleterandom"}
<1>1. DOMAIN Catalog = Names
  BY Zenon DEF Catalog
<1>2. /\ Catalog["ycsb_a"].pct = Mix(50, 50, 0, 0, 0, 0)
      /\ Catalog["ycsb_b"].pct = Mix(95, 5, 0, 0, 0, 0)
      /\ Catalog["ycsb_c"].pct = Mix(100, 0, 0, 0, 0, 0)
      /\ Catalog["ycsb_d"].pct = Mix(95, 0, 5, 0, 0, 0)
      /\ Catalog["ycsb_e"].pct = Mix(0, 0, 5, 95, 0, 0)
      /\ Catalog["ycsb_f"].pct = Mix(50, 0, 0, 0, 50, 0)
  BY Zenon DEF Catalog
<1>3. /\ Catalog["fillseq"].pct = Mix(0, 0, 100, 0, 0, 0)
      /\ Catalog["fillrandom"].pct = Mix(0, 0, 100, 0, 0, 0)
      /\ Catalog["overwrite"].pct = Mix(0, 100, 0, 0, 0, 0)
      /\ Catalog["readrandom"].pct = Mix(100, 0, 0, 0, 0, 0)
      /\ Catalog["readseq"].pct = Mix(0, 0, 0, 100, 0, 0)
      /\ Catalog["deleterandom"].pct = Mix(0, 0, 0, 0, 0, 100)
  BY Zenon DEF Catalog
<1>4. /\ IsMix(Mix(50, 50, 0, 0, 0, 0)) /\ IsMix(Mix(95, 5, 0, 0, 0, 0))
      /\ IsMix(Mix(100, 0, 0, 0, 0, 0)) /\ IsMix(Mix(95, 0, 5, 0, 0, 0))
      /\ IsMix(Mix(0, 0, 5, 95, 0, 0)) /\ IsMix(Mix(50, 0, 0, 0, 50, 0))
  BY DEF IsMix, Mix
<1>5. /\ IsMix(Mix(0, 0, 100, 0, 0, 0)) /\ IsMix(Mix(0, 100, 0, 0, 0, 0))
      /\ IsMix(Mix(0, 0, 0, 100, 0, 0)) /\ IsMix(Mix(0, 0, 0, 0, 0, 100))
  BY DEF IsMix, Mix
<1>6. w \in Names
  BY <1>1, Zenon
<1>7. CASE w \in {"ycsb_a", "ycsb_b", "ycsb_c", "ycsb_d", "ycsb_e", "ycsb_f"}
  BY <1>2, <1>4, <1>7
<1>8. CASE w \in {"fillseq", "fillrandom", "overwrite", "readrandom", "readseq", "deleterandom"}
  BY <1>3, <1>4, <1>5, <1>8
<1> QED BY <1>6, <1>7, <1>8

-----------------------------------------------------------------------------
(***************************************************************************)
(* pick.                                                                   *)
(***************************************************************************)
\* The numbers that stand for the i-th kind lie between two running sums.
Below(pct, i) == IF i = 1 THEN 0 ELSE Running(pct)[i - 1]

\* The running sums go up by the percentages, from 0 to 100.
LEMMA Sums ==
  ASSUME NEW pct, IsMix(pct)
  PROVE  /\ \A i \in 1..6 : /\ Running(pct)[i] \in Nat /\ Below(pct, i) \in Nat
                            /\ Running(pct)[i] = Below(pct, i) + pct[Kinds[i]]
                            /\ pct[Kinds[i]] \in Nat
         /\ Running(pct)[6] = 100
<1>1. PICK a, b, c, d, e, f :
        /\ a = pct.read /\ b = pct.update /\ c = pct.insert
        /\ d = pct.scan /\ e = pct.rmw /\ f = pct.delete
  BY Zenon
<1>2. /\ a \in Nat /\ b \in Nat /\ c \in Nat /\ d \in Nat /\ e \in Nat /\ f \in Nat
      /\ a + b + c + d + e + f = 100
  BY <1>1 DEF IsMix
<1>3. Running(pct) = <<a, a + b, a + b + c, a + b + c + d, a + b + c + d + e, a + b + c + d + e + f>>
  BY <1>1, <1>2 DEF Running
<1>4. /\ pct[Kinds[1]] = a /\ pct[Kinds[2]] = b /\ pct[Kinds[3]] = c
      /\ pct[Kinds[4]] = d /\ pct[Kinds[5]] = e /\ pct[Kinds[6]] = f
  BY <1>1 DEF Kinds
<1>5. /\ Below(pct, 1) = 0 /\ Below(pct, 2) = a /\ Below(pct, 3) = a + b
      /\ Below(pct, 4) = a + b + c /\ Below(pct, 5) = a + b + c + d
      /\ Below(pct, 6) = a + b + c + d + e
  BY <1>3 DEF Below
<1>6. \A i \in 1..6 : i \in {1, 2, 3, 4, 5, 6}
  OBVIOUS
<1> QED BY <1>2, <1>3, <1>4, <1>5, <1>6

\* They never go down.
LEMMA SumsGrow ==
  ASSUME NEW pct, IsMix(pct), NEW i \in 1..6, NEW j \in 1..6, i < j
  PROVE  Running(pct)[i] <= Below(pct, j)
<1> DEFINE R(k) == Running(pct)[k]
<1>1. R(1) \in Nat /\ R(2) \in Nat /\ R(3) \in Nat /\ R(4) \in Nat /\ R(5) \in Nat /\ R(6) \in Nat
  BY Sums
<1>2. R(1) <= R(2) /\ R(2) <= R(3) /\ R(3) <= R(4) /\ R(4) <= R(5) /\ R(5) <= R(6)
  BY Sums DEF Below
<1>3. Below(pct, j) = R(j - 1)
  BY DEF Below
<1>4. i \in {1, 2, 3, 4, 5} /\ j - 1 \in {1, 2, 3, 4, 5} /\ i <= j - 1
  OBVIOUS
<1> HIDE DEF R
<1>5. R(i) <= R(j - 1)
  BY <1>1, <1>2, <1>4
<1> QED BY <1>3, <1>5 DEF R

\* A number below a hundred stands for the kind between whose sums it lies.
LEMMA Picked ==
  ASSUME NEW pct, IsMix(pct), NEW n \in 0..99
  PROVE  \E i \in 1..6 : /\ PickAt(pct, n) = Kinds[i]
                         /\ Below(pct, i) <= n /\ n < Running(pct)[i]
<1> DEFINE hit == {i \in DOMAIN Kinds : n < Running(pct)[i]}
<1>1. DOMAIN Kinds = 1..6
  BY DEF Kinds
<1>2. 6 \in hit
  BY <1>1, Sums
<1>3. \E i \in hit : \A j \in hit : i <= j
  <2>1. hit \subseteq {1, 2, 3, 4, 5, 6}
    BY <1>1
  <2> HIDE DEF hit
  <2> QED BY <1>2, <2>1
<1> DEFINE i == CHOOSE i \in hit : \A j \in hit : i <= j
<1>4. i \in hit /\ \A j \in hit : i <= j
  BY <1>3, Zenon
<1>5. PickAt(pct, n) = Kinds[i]
  BY <1>2, Zenon DEF PickAt
<1> HIDE DEF i
<1>6. i \in 1..6 /\ n < Running(pct)[i]
  BY <1>1, <1>4
<1>7. Below(pct, i) <= n
  <2>1. CASE i = 1
    BY <2>1 DEF Below
  <2>2. CASE i # 1
    <3>1. i - 1 \in 1..6 /\ i - 1 \notin hit
      BY <1>4, <1>6, <2>2
    <3>2. ~(n < Running(pct)[i - 1])
      BY <1>1, <3>1
    <3>3. Running(pct)[i - 1] \in Nat
      BY <3>1, Sums, Zenon
    <3>4. Below(pct, i) = Running(pct)[i - 1]
      BY <2>2, Zenon DEF Below
    <3>5. \A x \in Nat : ~(n < x) => x <= n
      OBVIOUS
    <3> QED BY <3>2, <3>3, <3>4, <3>5, Zenon
  <2> QED BY <2>1, <2>2
<1> QED BY <1>5, <1>6, <1>7

\* The names of the kinds are six different ones.
LEMMA KindsDiffer ==
  /\ KindSet = {"read", "update", "insert", "scan", "rmw", "delete"}
  /\ \A i \in 1..6 : Kinds[i] \in KindSet
  /\ \A k \in KindSet : \E i \in 1..6 : k = Kinds[i]
  /\ \A i, j \in 1..6 : Kinds[i] = Kinds[j] => i = j
<1>1. DOMAIN Kinds = 1..6 /\ DOMAIN Kinds = {1, 2, 3, 4, 5, 6}
  BY DEF Kinds
<1>2. /\ Kinds[1] = "read" /\ Kinds[2] = "update" /\ Kinds[3] = "insert"
      /\ Kinds[4] = "scan" /\ Kinds[5] = "rmw" /\ Kinds[6] = "delete"
  BY DEF Kinds
<1>3. KindSet = {"read", "update", "insert", "scan", "rmw", "delete"}
  BY <1>1, <1>2 DEF KindSet
<1>4. \A i, j \in {1, 2, 3, 4, 5, 6} : Kinds[i] = Kinds[j] => i = j
  BY <1>2
<1> QED BY <1>1, <1>3, <1>4 DEF KindSet

\* Each kind has as many numbers below a hundred as its percentage says.
LEMMA PickExact ==
  ASSUME NEW pct, IsMix(pct), NEW k \in KindSet
  PROVE  Cardinality({n \in 0..99 : PickAt(pct, n) = k}) = pct[k]
<1>1. PICK i \in 1..6 : k = Kinds[i]
  BY KindsDiffer
<1>2. PICK a \in Nat, b \in Nat : a = Below(pct, i) /\ b = Running(pct)[i]
  BY Sums
<1>3. b = a + pct[k] /\ pct[k] \in Nat
  BY <1>1, <1>2, Sums
<1>4. b <= 100
  <2>1. CASE i = 6
    BY <1>2, <2>1, Sums
  <2>2. CASE i # 6
    <3>1. b <= Below(pct, 6)
      BY <1>2, <2>2, SumsGrow
    <3> QED BY <3>1, Sums
  <2> QED BY <2>1, <2>2
<1>5. \A n \in 0..99 : PickAt(pct, n) = k <=> a <= n /\ n < b
  <2> TAKE n \in 0..99
  <2>1. PICK j \in 1..6 : PickAt(pct, n) = Kinds[j] /\ Below(pct, j) <= n /\ n < Running(pct)[j]
    BY Picked, Zenon
  <2>2. PickAt(pct, n) = k <=> j = i
    <3>1. Kinds[j] = Kinds[i] <=> j = i
      BY KindsDiffer, Zenon
    <3> QED BY <1>1, <2>1, <3>1, Zenon
  <2>3. CASE j = i
    BY <1>2, <2>1, <2>2, <2>3
  <2>4. CASE j < i
    <3>1. Running(pct)[j] <= a
      BY <1>2, <2>4, SumsGrow
    <3>2. Running(pct)[j] \in Nat
      BY Sums
    <3> QED BY <2>1, <2>2, <2>4, <3>1, <3>2
  <2>5. CASE i < j
    <3>1. b <= Below(pct, j)
      BY <1>2, <2>5, SumsGrow
    <3>2. Below(pct, j) \in Nat
      BY Sums
    <3> QED BY <2>1, <2>2, <2>5, <3>1, <3>2
  <2> QED BY <2>3, <2>4, <2>5
<1>6. {n \in 0..99 : PickAt(pct, n) = k} = a..(b - 1)
  <2>1. \A n : n \in a..(b - 1) <=> n \in 0..99 /\ a <= n /\ n < b
    BY <1>4
  <2>2. a..(b - 1) \subseteq 0..99
    BY <2>1, Zenon
  <2>3. \A n \in 0..99 : n \in a..(b - 1) <=> PickAt(pct, n) = k
    BY <1>5, <2>1, Zenon
  <2> QED BY <2>2, <2>3, Zenon
<1>7. Cardinality(a..(b - 1)) = b - a
  <2>1. Cardinality(a..(b - 1)) = IF a > b - 1 THEN 0 ELSE (b - 1) - a + 1
    BY FS_Interval
  <2> QED BY <1>3, <2>1
<1>8. b - a = pct[k]
  <2> HIDE DEF KindSet
  <2>1. PICK m \in Nat : m = pct[k]
    BY <1>3, Zenon
  <2> QED BY <1>3, <2>1
<1> QED BY <1>6, <1>7, <1>8, Zenon

\* And what it picks is in the mix.
LEMMA PickInMix ==
  ASSUME NEW pct, IsMix(pct), NEW n \in 0..99
  PROVE  PickAt(pct, n) \in KindSet /\ pct[PickAt(pct, n)] > 0
<1>1. PICK i \in 1..6 : PickAt(pct, n) = Kinds[i] /\ Below(pct, i) <= n /\ n < Running(pct)[i]
  BY Picked, Zenon
<1>2. pct[Kinds[i]] > 0
  BY <1>1, Sums
<1> QED BY <1>1, <1>2, KindsDiffer, Zenon

-----------------------------------------------------------------------------
(***************************************************************************)
(* Words and keys.                                                         *)
(***************************************************************************)
\* A remainder is below its divisor, and not above a natural dividend.
LEMMA Remainder ==
  ASSUME NEW x \in Nat, NEW n \in Nat \ {0}
  PROVE  x % n \in 0..(n - 1) /\ x % n <= x
OBVIOUS

\* The sizes that are divided by are not zero, and words are numbers.
LEMMA Sizes ==
  /\ Keyspace \in Nat \ {0} /\ Word \in Nat \ {0} /\ Gamma \in Nat
  /\ \A x \in Words : x \in Nat
  /\ \A x \in 0..(Keyspace - 1) : x \in Nat /\ x < Keyspace
<1>1. Keyspace \in Nat \ {0} /\ Word \in Nat \ {0} /\ Gamma \in Nat
  BY WorkloadAssumption, Zenon
<1> QED BY <1>1 DEF Words

\* splitmix64 draws words.
LEMMA DrawsWords ==
  ASSUME NEW s \in Words, NEW i \in Nat
  PROVE  Draw(s, i) \in Words
<1> DEFINE z0 == (s + i * Gamma) % Word
           y0 == XorBits(z0, ShiftRight(z0, ShiftA))
           z1 == (y0 * MulA) % Word
           y1 == XorBits(z1, ShiftRight(z1, ShiftB))
           z2 == (y1 * MulB) % Word
<1>1. \A x \in Nat : x % Word \in Words
  BY WorkloadAssumption, Remainder, Zenon DEF Words
<1>2. \A x \in Words, m \in Nat : x * m \in Nat
  BY WorkloadAssumption DEF Words
<1>3. Gamma \in Nat /\ MulA \in Nat /\ MulB \in Nat
  BY WorkloadAssumption, Zenon
<1>4. z0 \in Words
  <2>1. s + i * Gamma \in Nat
    BY <1>3, WorkloadAssumption DEF Words
  <2> QED BY <1>1, <2>1
<1>5. \A x \in Words : /\ XorBits(x, ShiftRight(x, ShiftA)) \in Words
                       /\ XorBits(x, ShiftRight(x, ShiftB)) \in Words
                       /\ XorBits(x, ShiftRight(x, ShiftC)) \in Words
  BY WorkloadAssumption, Zenon
<1>6. Draw(s, i) = XorBits(z2, ShiftRight(z2, ShiftC))
  BY Zenon DEF Draw
<1>7. y0 \in Words
  BY <1>4, <1>5, Zenon
<1>8. z1 \in Words
  BY <1>1, <1>2, <1>3, <1>7, Zenon
<1>9. z2 \in Words
  BY <1>1, <1>2, <1>3, <1>5, <1>8, Zenon
<1> QED BY <1>5, <1>6, <1>9, Zenon

\* A generator is seeded with a word.
LEMMA SeedsWords ==
  ASSUME NEW c \in ClientIDs
  PROVE  SeedOf(c) \in Words
<1>1. (c + 1) * Gamma \in Nat
  BY WorkloadAssumption
<1>2. ((c + 1) * Gamma) % Word \in Words
  BY <1>1, WorkloadAssumption, Remainder, Zenon DEF Words
<1> QED BY <1>2, WorkloadAssumption, Zenon DEF SeedOf

\* zipf.next returns the number of a key, by the cuts, the clamp and the last
\* remainder.
LEMMA ZipfInRange ==
  ASSUME NEW x \in Words
  PROVE  ZipfNext(x) \in 0..(Keyspace - 1)
<1>1. /\ Keyspace \in Nat \ {0} /\ Word \in Nat \ {0} /\ PowRank(x) \in Nat
      /\ ZipfMul \in Nat /\ ZipfAdd \in Nat /\ ZipfCut0 \in Nat /\ ZipfCut1 \in Nat
      /\ Keyspace = 1 => ZipfCut0 >= Word
  BY WorkloadAssumption, Zenon
<1>2. PICK idx : idx = IF PowRank(x) >= Keyspace THEN Keyspace - 1 ELSE PowRank(x)
  BY Zenon
<1>3. idx \in Nat
  BY <1>1, <1>2
<1>4. idx * ZipfMul + ZipfAdd \in Nat
  BY <1>1, <1>3
<1>5. (idx * ZipfMul + ZipfAdd) % Word \in Nat
  BY <1>1, <1>4, Remainder
<1>6. ((idx * ZipfMul + ZipfAdd) % Word) % Keyspace \in 0..(Keyspace - 1)
  BY <1>1, <1>5, Remainder, Zenon
<1>7. ZipfNext(x) = IF x < ZipfCut0 THEN 0 ELSE IF x < ZipfCut1 THEN 1
                    ELSE ((idx * ZipfMul + ZipfAdd) % Word) % Keyspace
  BY <1>2, Zenon DEF ZipfNext
<1>8. ~(x < ZipfCut0) => 1 \in 0..(Keyspace - 1)
  BY <1>1 DEF Words
<1>9. 0 \in 0..(Keyspace - 1)
  BY <1>1
<1> QED BY <1>6, <1>7, <1>8, <1>9, Zenon

\* The square of the recency skew, wrapped or not, is less than the keyspace times
\* the keyspace, so its quotient stays below the head.
LEMMA SkewInRange ==
  ASSUME NEW z \in 0..(Keyspace - 1)
  PROVE  Keyspace - 1 - (((z * z) % Word) \div Keyspace) \in 0..(Keyspace - 1)
<1>1. Keyspace \in Nat \ {0} /\ Word \in Nat \ {0}
  BY WorkloadAssumption, Zenon
<1>2. z * z \in Nat /\ z * z < Keyspace * Keyspace
  BY <1>1
<1>3. PICK y : y = (z * z) % Word
  BY Zenon
<1>4. y \in Nat /\ y < Keyspace * Keyspace
  <2>1. PICK p \in Nat : p = z * z /\ p < Keyspace * Keyspace
    BY <1>2
  <2>2. y \in 0..(Word - 1) /\ y <= p
    BY <1>1, <1>3, <2>1, Remainder, Zenon
  <2>3. PICK k \in Nat : k = Keyspace * Keyspace
    BY <1>1
  <2> QED BY <1>1, <2>1, <2>2, <2>3
<1>5. PICK q : q = y \div Keyspace
  BY Zenon
<1>6. q \in Nat /\ q * Keyspace <= y
  BY <1>1, <1>4, <1>5
<1>7. q < Keyspace
  <2> SUFFICES ASSUME q >= Keyspace PROVE FALSE
    BY <1>1, <1>6
  <2>1. q * Keyspace >= Keyspace * Keyspace
    BY <1>1, <1>6
  <2>2. q * Keyspace \in Nat /\ Keyspace * Keyspace \in Nat
    BY <1>1, <1>6
  <2> QED BY <1>4, <1>6, <2>1, <2>2
<1>8. Keyspace - 1 - q \in 0..(Keyspace - 1)
  BY <1>1, <1>6, <1>7
<1> QED BY <1>3, <1>5, <1>8, Zenon

\* selectKey selects a key of the dataset.
LEMMA SelectInRange ==
  ASSUME NEW dist, NEW x \in Words
  PROVE  SelectKey(dist, x) \in 0..(Keyspace - 1)
<1>1. x % Keyspace \in 0..(Keyspace - 1)
  <2>1. x \in Nat /\ Keyspace \in Nat \ {0}
    BY WorkloadAssumption DEF Words
  <2> QED BY <2>1, Remainder, Zenon
<1>2. CASE dist = "zipfian"
  BY <1>2, ZipfInRange DEF SelectKey
<1>3. CASE dist = "latest"
  BY <1>1, <1>3, SkewInRange DEF SelectKey
<1>4. CASE dist \notin {"zipfian", "latest"}
  BY <1>1, <1>4 DEF SelectKey
<1> QED BY <1>2, <1>3, <1>4

-----------------------------------------------------------------------------
(***************************************************************************)
(* Next of a generator.                                                    *)
(***************************************************************************)
\* What a workload of the catalogue is.
LEMMA SpecFields ==
  ASSUME spec \in {Catalog[w] : w \in Specs}
  PROVE  IsMix(spec.pct)
  BY CatalogMixes, WorkloadAssumption, Zenon

OpRecords == [kind : KindSet, key : Nat, tail : Nat]

\* Next leaves a generator, and returns an operation of the mix on a key of the
\* dataset, a sequential fill excepted.
LEMMA StepSound ==
  ASSUME spec \in {Catalog[w] : w \in Specs}, NEW g \in Generators
  PROVE  /\ Step(spec, g).gen \in Generators
         /\ Step(spec, g).op \in OpRecords /\ Operation(Step(spec, g).op)
         /\ spec.pct[Step(spec, g).op.kind] > 0
         /\ ~spec.sequential => Step(spec, g).op.key < Keyspace
<1> DEFINE pure == PurelyOf(spec)
           drawn == IF pure = {} THEN 1 ELSE 0
           kind == IF pure = {} THEN PickAt(spec.pct, Draw(g.s, 1) % 100)
                   ELSE CHOOSE k \in pure : TRUE
           cursor == kind = "insert" /\ spec.sequential
           keyAt == IF cursor THEN drawn ELSE drawn + 1
           key == IF cursor THEN g.seqCursor
                  ELSE IF kind = "insert" THEN Draw(g.s, keyAt) % Keyspace
                  ELSE SelectKey(spec.dist, Draw(g.s, keyAt))
           more == IF kind \in {"read", "delete"} THEN 0 ELSE 1
           tail == IF kind = "scan" THEN ScanLen(Draw(g.s, keyAt + 1))
                   ELSE IF more = 1 THEN Draw(g.s, keyAt + 1) ELSE 0
           op == [kind |-> kind, key |-> key, tail |-> tail]
           after == [s |-> (g.s + (keyAt + more) * Gamma) % Word,
                     seqCursor |-> g.seqCursor + IF cursor THEN 1 ELSE 0]
<1>1. Step(spec, g) = [op |-> op, gen |-> after]
  BY Zenon DEF Step
<1>2. Step(spec, g).op = op /\ Step(spec, g).gen = after
  <2> HIDE DEF op, after
  <2> QED BY <1>1
<1>3. op.kind = kind /\ op.key = key /\ op.tail = tail
  <2> HIDE DEF kind, key, tail
  <2> QED OBVIOUS
<1>4. IsMix(spec.pct) /\ g.s \in Words /\ g.seqCursor \in Nat
  BY SpecFields DEF Generators
<1>5. drawn \in Nat /\ more \in Nat /\ keyAt \in Nat
  OBVIOUS
<1>6. kind \in KindSet /\ spec.pct[kind] > 0
  <2>1. CASE pure = {}
    <3>1. Draw(g.s, 1) \in Nat
      BY <1>4, DrawsWords DEF Words
    <3>2. Draw(g.s, 1) % 100 \in 0..99
      BY <3>1
    <3>3. kind = PickAt(spec.pct, Draw(g.s, 1) % 100)
      BY <2>1, Zenon
    <3> HIDE DEF kind, pure
    <3> QED BY <1>4, <3>2, <3>3, PickInMix, Zenon
  <2>2. CASE pure # {}
    <3>1. kind \in pure
      BY <2>2, Zenon
    <3>2. kind \in {"insert", "update", "delete"} /\ spec.pct[kind] = 100
      <4> HIDE DEF kind
      <4> QED BY <3>1 DEF PurelyOf
    <3> HIDE DEF kind, pure
    <3>3. kind \in KindSet
      BY <3>2, KindsDiffer, Zenon
    <3>4. 100 > 0
      OBVIOUS
    <3> QED BY <3>2, <3>3, <3>4, Zenon
  <2> HIDE DEF kind, pure
  <2> QED BY <2>1, <2>2, Zenon
<1> HIDE DEF drawn, pure, more
<1>7. key \in Nat /\ (~spec.sequential => key < Keyspace)
  <2>1. CASE cursor
    <3>1. key = g.seqCursor /\ spec.sequential
      BY <2>1, Zenon
    <3> HIDE DEF key
    <3> QED BY <1>4, <3>1, Zenon
  <2>2. CASE ~cursor
    <3>1. PICK x \in Words : x = Draw(g.s, keyAt)
      BY <1>4, <1>5, DrawsWords, Zenon
    <3>2. x % Keyspace \in 0..(Keyspace - 1)
      BY Sizes, Remainder, Zenon
    <3>3. SelectKey(spec.dist, x) \in 0..(Keyspace - 1)
      BY SelectInRange, Zenon
    <3>4. key \in 0..(Keyspace - 1)
      <4> HIDE DEF keyAt, cursor
      <4> QED BY <2>2, <3>1, <3>2, <3>3, Zenon
    <3> HIDE DEF key
    <3> QED BY <3>4, Sizes, Zenon
  <2> QED BY <2>1, <2>2, Zenon
<1>8. tail \in IF kind = "scan" THEN 1..100 ELSE Words
  <2>1. keyAt + 1 \in Nat
    BY <1>5
  <2>2. PICK x \in Words : x = Draw(g.s, keyAt + 1)
    BY <1>4, <2>1, DrawsWords, Zenon
  <2>3. ScanLen(x) \in 1..100 /\ 0 \in Words
    <3>1. x \in Nat /\ Word \in Nat \ {0}
      BY Sizes, Zenon
    <3> QED BY <3>1 DEF ScanLen, Words
  <2> HIDE DEF keyAt, kind
  <2> QED BY <2>2, <2>3, Zenon
<1>9. after \in Generators
  <2>1. (g.s + (keyAt + more) * Gamma) % Word \in Words
    <3>1. Gamma \in Nat /\ Word \in Nat \ {0} /\ g.s \in Nat
      BY <1>4, Sizes, Zenon
    <3>2. g.s + (keyAt + more) * Gamma \in Nat
      <4> HIDE DEF keyAt
      <4> QED BY <1>5, <3>1
    <3> QED BY <3>1, <3>2, Remainder, Zenon DEF Words
  <2>2. g.seqCursor + (IF cursor THEN 1 ELSE 0) \in Nat
    <3> HIDE DEF cursor
    <3> QED BY <1>4
  <2> HIDE DEF keyAt, cursor
  <2> QED BY <2>1, <2>2, Zenon DEF Generators
<1> HIDE DEF kind, key, tail, after
<1>10. op \in OpRecords
  <2>1. tail \in Nat
    BY <1>8, WorkloadAssumption DEF Words
  <2> QED BY <1>6, <1>7, <2>1, Zenon DEF OpRecords
<1> HIDE DEF op
<1> QED BY <1>10, <1>2, <1>3, <1>6, <1>7, <1>8, <1>9, Zenon DEF Operation

-----------------------------------------------------------------------------
(***************************************************************************)
(* The streams. What a client has issued is what its generator returns on  *)
(* the way from its seed: h is the way, a state for each operation and the *)
(* one it is in.                                                           *)
(***************************************************************************)
Seeded(c) == [s |-> SeedOf(c), seqCursor |-> c]

Way(h, c, ops) ==
  /\ h[1] = Seeded(c)
  /\ \A i \in 1..Len(ops) : ops[i] = Step(spec, h[i]).op /\ h[i + 1] = Step(spec, h[i]).gen

Leads(c, ops, g) ==
  \E h \in [1..(Len(ops) + 1) -> Generators] : Way(h, c, ops) /\ h[Len(ops) + 1] = g

\* A stream of its own for every client of every run.
StreamOf(r, c) == Leads(c, out[r][c], gen[r][c])

\* The inductive invariant. An operation is sound on its own.
Sound(o) ==
  /\ Operation(o) /\ spec.pct[o.kind] > 0
  /\ ~spec.sequential => o.key < Keyspace

Ind ==
  /\ spec \in {Catalog[w] : w \in Specs}
  /\ gen \in [Runs -> [ClientIDs -> Generators]]
  /\ out \in [Runs -> [ClientIDs -> Seq(OpRecords)]]
  /\ AllIssued(Sound)
  /\ \A r \in Runs, c \in ClientIDs : StreamOf(r, c)

\* The invariant says what the runs check of the operations.
LEMMA IndSuffices == Ind => StreamInv /\ MixExact
<1> SUFFICES ASSUME Ind PROVE StreamInv /\ MixExact
  OBVIOUS
<1>1. AllIssued(Sound) /\ IsMix(spec.pct)
  BY SpecFields, Zenon DEF Ind
<1>2. StreamTypeOK /\ KeysInRange
  BY <1>1, Zenon DEF Ind, StreamTypeOK, KeysInRange, AllIssued, Sound
<1>3. \A k \in KindSet : Cardinality({n \in 0..99 : PickAt(spec.pct, n) = k}) = spec.pct[k]
  BY <1>1, PickExact, Zenon
<1> QED BY <1>1, <1>2, <1>3, Zenon DEF StreamInv, MixExact, AllIssued, Sound

\* At first nothing is issued, and the way is the seed.
LEMMA IndBegins == StreamInit => Ind
<1> SUFFICES ASSUME StreamInit PROVE Ind
  OBVIOUS
<1>1. \A c \in ClientIDs : Seeded(c) \in Generators
  BY SeedsWords, WorkloadAssumption DEF Seeded, Generators
<1>2. \A r \in Runs, c \in ClientIDs : gen[r][c] = Seeded(c) /\ out[r][c] = <<>>
  BY Zenon DEF StreamInit, Seeded
<1>3. gen \in [Runs -> [ClientIDs -> Generators]]
  BY <1>1, Zenon DEF StreamInit, Seeded
<1>4. out \in [Runs -> [ClientIDs -> Seq(OpRecords)]]
  BY DEF StreamInit
<1>5. AllIssued(Sound)
  BY <1>2 DEF AllIssued
<1>6. ASSUME NEW r \in Runs, NEW c \in ClientIDs
      PROVE  StreamOf(r, c)
  <2>1. PICK h : h = [i \in 1..1 |-> Seeded(c)]
    BY Zenon
  <2>2. h \in [1..1 -> Generators] /\ h[1] = Seeded(c)
    BY <1>1, <2>1
  <2>3. Len(out[r][c]) = 0
    BY <1>2
  <2>4. Way(h, c, out[r][c])
    BY <2>2, <2>3 DEF Way
  <2> QED BY <1>2, <2>2, <2>3, <2>4 DEF StreamOf, Leads
<1> QED BY <1>3, <1>4, <1>5, <1>6, Zenon DEF StreamInit, Ind

\* A way goes on by the next operation.
LEMMA WayGoesOn ==
  ASSUME NEW c, NEW ops \in Seq(OpRecords), NEW g, Leads(c, ops, g),
         Step(spec, g).gen \in Generators, NEW more, more = Append(ops, Step(spec, g).op)
  PROVE  Leads(c, more, Step(spec, g).gen)
<1> PICK h \in [1..(Len(ops) + 1) -> Generators] : Way(h, c, ops) /\ h[Len(ops) + 1] = g
  BY Zenon DEF Leads
<1>1. PICK n \in Nat : n = Len(ops)
  OBVIOUS
<1>2. Len(more) = n + 1 /\ more[n + 1] = Step(spec, g).op /\ \A i \in 1..n : more[i] = ops[i]
  BY <1>1
<1>3. PICK w : w = [i \in 1..(n + 2) |-> IF i = n + 2 THEN Step(spec, g).gen ELSE h[i]]
  BY Zenon
<1>4. w[n + 2] = Step(spec, g).gen /\ \A i \in 1..(n + 1) : w[i] = h[i]
  BY <1>3
<1>5. w \in [1..(n + 2) -> Generators]
  BY <1>1, <1>3
<1>6. w[1] = Seeded(c)
  <2>1. 1 \in 1..(n + 1)
    OBVIOUS
  <2> QED BY <1>4, <2>1, Zenon DEF Way
<1>7. ASSUME NEW i \in 1..(n + 1)
      PROVE  more[i] = Step(spec, w[i]).op /\ w[i + 1] = Step(spec, w[i]).gen
  <2>1. CASE i = n + 1
    <3>1. w[i] = g /\ w[i + 1] = Step(spec, g).gen
      <4>1. n + 1 \in 1..(n + 1) /\ (n + 1) + 1 = n + 2
        OBVIOUS
      <4> QED BY <1>1, <1>4, <2>1, <4>1, Zenon
    <3> QED BY <1>2, <2>1, <3>1, Zenon
  <2>2. CASE i # n + 1
    <3>1. i \in 1..n /\ i + 1 \in 1..(n + 1)
      BY <2>2
    <3>2. ops[i] = Step(spec, h[i]).op /\ h[i + 1] = Step(spec, h[i]).gen
      BY <1>1, <3>1, Zenon DEF Way
    <3> QED BY <1>2, <1>4, <3>1, <3>2, Zenon
  <2> QED BY <2>1, <2>2, Zenon
<1>8. Way(w, c, more)
  BY <1>2, <1>6, <1>7, Zenon DEF Way
<1>9. Len(more) + 1 = n + 2
  BY <1>2
<1> QED BY <1>4, <1>5, <1>8, <1>9, Zenon DEF Leads

\* The next operation of one client leaves the streams of the others alone.
LEMMA NextOpKeeps ==
  ASSUME Ind, NEW r \in Runs, NEW c \in ClientIDs, NextOp(r, c)
  PROVE  Ind'
<1>1. PICK g : g = gen[r][c]
  BY Zenon
<1>2. g \in Generators /\ spec \in {Catalog[w] : w \in Specs}
  BY <1>1, Zenon DEF Ind
<1>3. /\ Step(spec, g).gen \in Generators /\ Step(spec, g).op \in OpRecords /\ Sound(Step(spec, g).op)
  BY <1>2, StepSound, Zenon DEF Sound
<1>4. PICK ops \in Seq(OpRecords) : ops = out[r][c]
  BY Zenon DEF Ind
<1>5. PICK more : more = Append(ops, Step(spec, g).op)
  BY Zenon
<1>6. more \in Seq(OpRecords)
  BY <1>3, <1>4, <1>5
<1>7. /\ out' = [out EXCEPT ![r][c] = more]
      /\ gen' = [gen EXCEPT ![r][c] = Step(spec, g).gen]
      /\ spec' = spec
  BY <1>1, <1>4, <1>5, Zenon DEF NextOp
<1>8. /\ out' \in [Runs -> [ClientIDs -> Seq(OpRecords)]]
      /\ gen' \in [Runs -> [ClientIDs -> Generators]]
  BY <1>3, <1>6, <1>7, Zenon DEF Ind
<1>9. out'[r][c] = more /\ gen'[r][c] = Step(spec, g).gen
  BY <1>7, Zenon DEF Ind
<1>10. \A q \in Runs, d \in ClientIDs :
         <<q, d>> # <<r, c>> => out'[q][d] = out[q][d] /\ gen'[q][d] = gen[q][d]
  BY <1>7, Zenon DEF Ind
<1>11. \A o : Sound(o)' <=> Sound(o)
  BY <1>7, Zenon DEF Sound, Operation
<1>12. AllIssued(Sound)'
  <2>1. ASSUME NEW q \in Runs, NEW d \in ClientIDs, NEW i \in DOMAIN out'[q][d]
        PROVE  Sound(out'[q][d][i])
    <3>1. CASE <<q, d>> # <<r, c>>
      BY <1>10, <3>1, Zenon DEF Ind, AllIssued
    <3>2. CASE q = r /\ d = c
      <4>1. \A j \in DOMAIN ops : Sound(ops[j])
        BY <1>4, Zenon DEF Ind, AllIssued
      <4>2. i \in DOMAIN more /\ out'[q][d][i] = more[i]
        BY <1>9, <3>2, Zenon
      <4>3. \/ i \in DOMAIN ops /\ more[i] = ops[i]
            \/ more[i] = Step(spec, g).op
        <5>1. PICK o : o = Step(spec, g).op
          BY Zenon
        <5>2. more = Append(ops, o)
          BY <1>5, <5>1, Zenon
        <5>3. \A j \in DOMAIN Append(ops, o) :
                \/ j \in DOMAIN ops /\ Append(ops, o)[j] = ops[j]
                \/ Append(ops, o)[j] = o
          OBVIOUS
        <5> QED BY <4>2, <5>1, <5>2, <5>3, Zenon
      <4> QED BY <1>3, <4>1, <4>2, <4>3, Zenon
    <3> QED BY <3>1, <3>2, Zenon
  <2> QED BY <1>11, <2>1, Zenon DEF AllIssued
<1>13. ASSUME NEW q \in Runs, NEW d \in ClientIDs
       PROVE  StreamOf(q, d)'
  <2>1. \A h, t : Way(h, d, t)' <=> Way(h, d, t)
    BY <1>7, Zenon DEF Way, Seeded
  <2>2. StreamOf(q, d)
    BY Zenon DEF Ind
  <2>3. CASE <<q, d>> # <<r, c>>
    BY <1>10, <2>1, <2>2, <2>3, Zenon DEF StreamOf, Leads
  <2>4. CASE q = r /\ d = c
    <3>1. Leads(c, ops, g)
      BY <1>1, <1>4, <2>2, <2>4, Zenon DEF StreamOf
    <3>2. Leads(c, more, Step(spec, g).gen)
      BY <1>3, <1>5, <3>1, WayGoesOn, Zenon
    <3> QED BY <1>9, <2>1, <2>4, <3>2, Zenon DEF StreamOf, Leads
  <2> QED BY <2>3, <2>4, Zenon
<1> QED BY <1>2, <1>7, <1>8, <1>12, <1>13, Zenon DEF Ind

\* A set of numbers has a least one.
LEMMA LeastOf ==
  ASSUME NEW S \in SUBSET Nat, S # {}
  PROVE  \E m \in S : \A k \in S : m <= k
<1>1. PICK R : R = OpToRel(<, Nat)
  BY Zenon
<1>2. IsWellFoundedOn(R, Nat)
  BY <1>1, NatLessThanWellFounded, Zenon
<1>3. PICK m \in S : \A k \in S : ~ (<<k, m>> \in R)
  BY <1>2, WFMin, Zenon
<1>4. ASSUME NEW k \in S PROVE m <= k
  <2>1. k \in Nat /\ m \in Nat
    BY Zenon
  <2>2. ~ (k < m)
    BY <1>1, <1>3, <2>1, Zenon DEF OpToRel
  <2> QED BY <2>1, <2>2
<1> QED BY <1>4, Zenon

\* Two ways from one seed agree as far as both have come: the first state in which
\* they differed would come after one in which they agree.
LEMMA WaysAgree ==
  ASSUME NEW c, NEW a, NEW b, NEW n \in Nat, NEW m \in Nat, Len(a) = n, Len(b) = m, n <= m,
         NEW h, NEW w, Way(h, c, a), Way(w, c, b)
  PROVE  Begins(a, b)
<1>1. PICK S : S = {i \in 1..(n + 1) : h[i] # w[i]}
  BY Zenon
<1>2. S = {}
  <2> SUFFICES ASSUME S # {} PROVE FALSE
    BY Zenon
  <2>1. S \in SUBSET Nat
    BY <1>1
  <2>2. PICK i \in S : \A k \in S : i <= k
    BY <2>1, LeastOf, Zenon
  <2>3. i \in 1..(n + 1) /\ h[i] # w[i]
    BY <1>1, <2>2, Zenon
  <2>4. i # 1
    BY <2>3, Zenon DEF Way
  <2>5. i - 1 \in 1..n /\ i - 1 \in 1..m /\ i - 1 \in 1..(n + 1) /\ (i - 1) + 1 = i /\ ~(i <= i - 1)
    BY <2>3, <2>4
  <2>6. h[i - 1] = w[i - 1]
    BY <1>1, <2>2, <2>5, Zenon
  <2>7. h[i] = Step(spec, h[i - 1]).gen /\ w[i] = Step(spec, w[i - 1]).gen
    BY <2>5, Zenon DEF Way
  <2> QED BY <2>3, <2>6, <2>7, Zenon
<1>3. ASSUME NEW i \in 1..n PROVE a[i] = b[i]
  <2>1. i \in 1..(n + 1) /\ i \in 1..m
    OBVIOUS
  <2>2. h[i] = w[i]
    BY <1>1, <1>2, <2>1, Zenon
  <2> QED BY <2>1, <2>2, Zenon DEF Way
<1> QED BY <1>3, Zenon DEF Begins

\* The streams of two runs agree.
LEMMA StreamsAgree == Ind => StreamsReproducible
<1> SUFFICES ASSUME Ind, NEW r \in Runs, NEW q \in Runs, NEW c \in ClientIDs,
                    Len(out[r][c]) <= Len(out[q][c])
             PROVE  Begins(out[r][c], out[q][c])
  BY Zenon DEF StreamsReproducible
<1>1. PICK h : Way(h, c, out[r][c])
  BY Zenon DEF Ind, StreamOf, Leads
<1>2. PICK w : Way(w, c, out[q][c])
  BY Zenon DEF Ind, StreamOf, Leads
<1>3. Len(out[r][c]) \in Nat /\ Len(out[q][c]) \in Nat
  BY DEF Ind
<1> QED BY <1>1, <1>2, <1>3, WaysAgree, Zenon

-----------------------------------------------------------------------------
(***************************************************************************)
(* The theorems.                                                           *)
(***************************************************************************)
\* The invariant of the streams.
LEMMA IndAlways == StreamSpec => []Ind
<1>1. Ind /\ [StreamNext]_streamVars => Ind'
  <2> SUFFICES ASSUME Ind, [StreamNext]_streamVars PROVE Ind'
    OBVIOUS
  <2>1. CASE StreamNext
    BY <2>1, NextOpKeeps, Zenon DEF StreamNext
  <2>2. CASE UNCHANGED streamVars
    <3>1. spec' = spec /\ gen' = gen /\ out' = out
      BY <2>2 DEF streamVars
    <3>2. \A h, c, t : Way(h, c, t)' <=> Way(h, c, t)
      BY <3>1, Zenon DEF Way, Seeded
    <3>3. \A r \in Runs, c \in ClientIDs : StreamOf(r, c)'
      BY <3>1, <3>2, Zenon DEF Ind, StreamOf, Leads
    <3>4. \A o : Sound(o)' <=> Sound(o)
      BY <3>1, Zenon DEF Sound, Operation
    <3>5. AllIssued(Sound)'
      BY <3>1, <3>4, Zenon DEF Ind, AllIssued
    <3> QED BY <3>1, <3>3, <3>5, Zenon DEF Ind
  <2> QED BY <2>1, <2>2
<1> QED BY <1>1, IndBegins, PTL DEF StreamSpec

\* Every operation that any client of any run is given is one the loaded dataset
\* can serve, for every seed and word size: the clamp and the scramble of
\* zipf.next and the wrapping square of selectKey stay inside the keyspace.
THEOREM StreamsServed == StreamSpec => []StreamInv
  BY IndAlways, IndSuffices, PTL

\* The mix of the operations is that of the workload: pick gives each kind as many
\* numbers as its percentage says and no operation of another kind is issued.
THEOREM MixAlways == StreamSpec => []MixExact
  BY IndAlways, IndSuffices, PTL

\* "the same seed reproduces the exact stream": what NewGenerator and Next give a
\* client is the same in every run, however the clients of a run interleave.
THEOREM SameStreams == StreamSpec => []StreamsReproducible
  BY IndAlways, StreamsAgree, PTL
=============================================================================
