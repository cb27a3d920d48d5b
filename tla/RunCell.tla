------------------------------ MODULE RunCell ------------------------------
(***************************************************************************)
(* RunCell of harness/driver.go: one engine opened, loaded, measured by    *)
(* Concurrency client goroutines, and closed. Every call into the engine   *)
(* may succeed, return an error or panic, and RunCell leaves through its   *)
(* deferred functions whichever way it goes: Close, RemoveAll, recover.    *)
(*                                                                         *)
(* The result of RunCell is not named, so what the caller gets is the      *)
(* value of the return statement that ran, and the zero Result when a      *)
(* panic came before any; the deferred recover assigns to a local copy.    *)
(***************************************************************************)
EXTENDS Naturals, Sequences, FiniteSets

CONSTANTS
  Clients,         \* the client goroutines; Concurrency is their number
  Operations,      \* c.Operations
  NKeys,           \* c.Cardinality, the keys to load
  BatchSize,       \* keys per load batch (1000)
  Engines,         \* the engines and workloads a cell may pair, see Cells
  Panics           \* the phases in which the engine may panic

Cells == [known : BOOLEAN,      \* engine.New knows the name
          scan : BOOLEAN,       \* c.Workload.NeedsScan
          ordered : BOOLEAN,    \* meta.Caps.Ordered
          full : BOOLEAN,       \* c.Durability = "FULL"
          network : BOOLEAN,    \* a RESP or distributed class
          durable : BOOLEAN]    \* meta.Caps.Durable

ASSUME RunCellAssumption ==
  /\ IsFiniteSet(Clients) /\ Clients # {}
  /\ Operations \in Nat /\ NKeys \in Nat /\ BatchSize \in Nat \ {0}
  /\ Engines \subseteq Cells

VARIABLES
  cell,        \* the cell
  pc,          \* where RunCell is
  defers,      \* its deferred functions, the last one first
  panicking,   \* a panic is unwinding RunCell
  slot,        \* the result slot
  eng,         \* the engine: none, open or closed
  dir,         \* the data directory exists
  loaded,      \* how often each key was loaded
  left,        \* operations each client has still to do
  reads, writes, hist,   \* the shared counters, and all latencies recorded
  crashed,     \* a panic of a client goroutine has ended the process
  failed       \* history: the calls into the engine that failed, and how

counters == <<reads, writes, hist>>
vars == <<cell, pc, defers, panicking, slot, eng, dir, loaded, left, counters, crashed, failed>>

ZeroResult == [error |-> FALSE, measured |-> FALSE, star |-> FALSE]

perClient ==
  LET n == Operations \div Cardinality(Clients)
  IN  IF n = 0 THEN 1 ELSE n

Init ==
  /\ cell \in Engines
  /\ pc = "new"
  /\ defers = <<"recover">>
  /\ panicking = FALSE
  /\ slot = ZeroResult
  /\ eng = "none" /\ dir = FALSE
  /\ loaded = [k \in 0..(NKeys - 1) |-> 0]
  /\ left = [c \in Clients |-> 0]
  /\ reads = 0 /\ writes = 0 /\ hist = 0
  /\ crashed = FALSE /\ failed = {}

-----------------------------------------------------------------------------
(***************************************************************************)
(* The ways a step of RunCell can end.                                     *)
(***************************************************************************)
Goto(l) == pc' = l /\ UNCHANGED <<panicking, slot>>

\* return r
ReturnResult(e, m, s) ==
  /\ pc' = "unwind"
  /\ slot' = [error |-> e, measured |-> m, star |-> s]
  /\ UNCHANGED panicking

ReturnError == ReturnResult(TRUE, FALSE, FALSE)

\* A call into the engine during a phase: what follows a success, and what
\* follows an error.
EngineCall(phase, Ok, Err) ==
  \/ Ok /\ UNCHANGED failed
  \/ Err /\ failed' = failed \cup {<<phase, "error">>}
  \/ /\ phase \in Panics
     /\ pc' = "unwind" /\ panicking' = TRUE
     /\ failed' = failed \cup {<<phase, "panic">>}
     /\ UNCHANGED <<slot, eng, defers, loaded, left>>

-----------------------------------------------------------------------------
\* engine.New, and the cells that are refused.
New ==
  /\ pc = "new"
  /\ IF \/ ~cell.known
        \/ cell.scan /\ ~cell.ordered
        \/ cell.full /\ cell.network
     THEN ReturnError ELSE Goto("mkdir")
  /\ UNCHANGED <<cell, defers, eng, dir, loaded, left, counters, crashed, failed>>

\* RemoveAll and MkdirAll; the deferred RemoveAll is only armed on success.
Mkdir ==
  /\ pc = "mkdir"
  /\ \/ ReturnError /\ dir' = FALSE /\ UNCHANGED defers
     \/ Goto("open") /\ dir' = TRUE /\ defers' = <<"remove">> \o defers
  /\ UNCHANGED <<cell, eng, loaded, left, counters, crashed, failed>>

\* Mutant: Close is deferred before RemoveAll, and so runs after it.
MutOpen ==
  /\ pc = "open"
  /\ EngineCall("open",
       Goto("load") /\ eng' = "open" /\ defers' = <<"remove", "close", "recover">>
         /\ UNCHANGED <<loaded, left>>,
       ReturnError /\ UNCHANGED <<eng, defers, loaded, left>>)
  /\ UNCHANGED <<cell, dir, counters, crashed>>

Open ==
  /\ pc = "open"
  /\ EngineCall("open",
       Goto("load") /\ eng' = "open" /\ defers' = <<"close">> \o defers /\ UNCHANGED <<loaded, left>>,
       ReturnError /\ UNCHANGED <<eng, defers, loaded, left>>)
  /\ UNCHANGED <<cell, dir, counters, crashed>>

\* Mutant: a last batch that is not full is forgotten.
MutNextBatch ==
  LET n == Cardinality({k \in DOMAIN loaded : loaded[k] > 0})
  IN  {k \in DOMAIN loaded : k >= n /\ k < n + BatchSize /\ n + BatchSize <= NKeys}

\* The keys of the next batch: the generator hands them out from 0 up.
NextBatch ==
  LET n == Cardinality({k \in DOMAIN loaded : loaded[k] > 0})
  IN  {k \in DOMAIN loaded : k >= n /\ k < n + BatchSize}

\* loadDataset: one Commit, of a full batch or of what is left at the end.
Load ==
  /\ pc = "load"
  /\ \/ /\ NextBatch = {}
        /\ Goto("flush")
        /\ UNCHANGED <<loaded, left, eng, defers, failed>>
     \/ /\ NextBatch # {}
        /\ EngineCall("load",
             /\ Goto("load")
             /\ loaded' = [k \in DOMAIN loaded |-> loaded[k] + (IF k \in NextBatch THEN 1 ELSE 0)]
             /\ UNCHANGED <<eng, defers, left>>,
             ReturnError /\ UNCHANGED <<eng, defers, loaded, left>>)
  /\ UNCHANGED <<cell, dir, counters, crashed>>

\* Flush, whose error is ignored, and the start of the clients.
Flush ==
  /\ pc = "flush"
  /\ LET Go == /\ Goto("measure")
               /\ left' = [c \in Clients |-> perClient]
               /\ UNCHANGED <<eng, defers, loaded>>
     IN  EngineCall("flush", Go, Go)
  /\ UNCHANGED <<cell, dir, counters, crashed>>

\* One operation of a client: its engine calls, whose errors are discarded,
\* its counters, its latency. A panic here is in no one's recover.
ClientOp(c) ==
  /\ pc = "measure" /\ left[c] > 0 /\ ~crashed
  /\ \/ /\ \E r, w \in 0..1 : r + w > 0 /\ reads' = reads + r /\ writes' = writes + w
        /\ hist' = hist + 1
        /\ left' = [left EXCEPT ![c] = @ - 1]
        /\ failed' \in {failed, failed \cup {<<"measure", "error">>}}
        /\ UNCHANGED crashed
     \/ /\ "measure" \in Panics
        /\ crashed' = TRUE
        /\ failed' = failed \cup {<<"measure", "panic">>}
        /\ UNCHANGED <<counters, left>>
  /\ UNCHANGED <<cell, pc, defers, panicking, slot, eng, dir, loaded>>

\* Mutant: the cell waits for c.Operations latencies.
MutJoin ==
  /\ pc = "measure" /\ hist = Operations
  /\ Goto("account")
  /\ UNCHANGED <<cell, defers, eng, dir, loaded, left, counters, crashed, failed>>

\* wg.Wait returns and the histograms are merged.
Join ==
  /\ pc = "measure" /\ \A c \in Clients : left[c] = 0
  /\ Goto("account")
  /\ UNCHANGED <<cell, defers, eng, dir, loaded, left, counters, crashed, failed>>

\* The second Flush, Stats, the asterisk of a FULL cell that is not durable,
\* and the return.
Account ==
  /\ pc = "account"
  /\ LET Done == /\ ReturnResult(FALSE, TRUE, cell.full /\ ~cell.durable)
                 /\ UNCHANGED <<eng, defers, loaded, left>>
     IN  EngineCall("account", Done, Done)
  /\ UNCHANGED <<cell, dir, counters, crashed>>

\* The deferred functions, the last one first. Errors of Close are ignored.
Unwind ==
  /\ pc = "unwind" /\ defers # <<>>
  /\ defers' = Tail(defers)
  /\ \/ /\ Head(defers) = "close"
        /\ eng' = "closed"
        /\ \/ UNCHANGED <<panicking, failed>>
           \/ /\ "close" \in Panics
              /\ panicking' = TRUE /\ failed' = failed \cup {<<"close", "panic">>}
        /\ UNCHANGED dir
     \/ /\ Head(defers) = "remove"
        /\ dir' = FALSE
        /\ UNCHANGED <<eng, panicking, failed>>
     \/ /\ Head(defers) = "recover"
        /\ panicking' = FALSE
        /\ UNCHANGED <<eng, dir, failed>>
  /\ UNCHANGED <<cell, pc, slot, loaded, left, counters, crashed>>

Returned == pc = "unwind" /\ defers = <<>>

\* RunCell has returned, or the process is gone.
Over == (Returned \/ crashed) /\ UNCHANGED vars

Next ==
  \/ New \/ Mkdir \/ Open \/ Load \/ Flush
  \/ \E c \in Clients : ClientOp(c)
  \/ Join \/ Account \/ Unwind \/ Over

Spec == Init /\ [][Next]_vars

\* The engine calls return, and the Go scheduler runs every goroutine.
FairSpec ==
  /\ Spec
  /\ WF_vars(New \/ Mkdir \/ Open \/ Load \/ Flush \/ Join \/ Account \/ Unwind)
  /\ \A c \in Clients : WF_vars(ClientOp(c))

-----------------------------------------------------------------------------
(***************************************************************************)
(* Properties.                                                             *)
(***************************************************************************)
Phases == {"open", "load", "flush", "measure", "account", "close"}
Failures == Phases \X {"error", "panic"}
Results == [error : BOOLEAN, measured : BOOLEAN, star : BOOLEAN]

\* Every variable has its type; that of defers is in DefersArmed.
TypeOK ==
  /\ cell \in Cells
  /\ pc \in {"new", "mkdir", "open", "load", "flush", "measure", "account", "unwind"}
  /\ panicking \in BOOLEAN /\ dir \in BOOLEAN /\ crashed \in BOOLEAN
  /\ slot \in Results
  /\ eng \in {"none", "open", "closed"}
  /\ loaded \in [0..(NKeys - 1) -> Nat]
  /\ left \in [Clients -> 0..perClient]
  /\ reads \in Nat /\ writes \in Nat /\ hist \in Nat
  /\ failed \subseteq Failures

\* The directory of an open engine is there until Close has run, and no client
\* is left to use the engine once it is closed: on every way out of RunCell.
EngineOutlivesNoOne ==
  /\ eng = "open" => dir
  /\ eng = "closed" => \A c \in Clients : left[c] = 0

\* However a cell ends, short of the process dying, RunCell has closed every
\* engine it opened, removed the directory it made and let no panic through.
NothingLeftBehind == Returned => eng # "open" /\ ~dir /\ ~panicking

\* A result that claims a measurement rests on a complete one: every key was
\* loaded once, every client did its share, every operation left one latency,
\* and none was lost between the two counters.
MeasurementComplete ==
  slot.measured =>
    /\ \A k \in DOMAIN loaded : loaded[k] = 1
    /\ hist = perClient * Cardinality(Clients)
    /\ reads + writes >= hist /\ reads <= hist /\ writes <= hist

\* "a number that would be everysec wearing a FULL label" never comes out: a
\* FULL measurement is of an engine that syncs, or carries the asterisk.
FullLabelHonest ==
  slot.measured /\ cell.full => ~cell.network /\ (cell.durable \/ slot.star)

\* An error of Open or of the load, the steps whose errors RunCell looks at,
\* reaches the caller as Result.Error and never as a measurement.
LookedAtErrorsReported ==
  \A p \in {"open", "load"} :
    <<p, "error">> \in failed /\ Returned => slot.error /\ ~slot.measured

Started == {"load", "flush", "measure", "account"}
AllDefers == <<"close", "remove", "recover">>

\* What each deferred function is there for, at every point of RunCell: Close is
\* armed exactly while the engine is open, RemoveAll while the directory exists,
\* recover until the end, and clients have work in the measured part alone, where
\* one that panics leaves some undone.
DefersArmed ==
  /\ pc \in {"new", "mkdir"} => defers = <<"recover">>
  /\ pc = "open" => defers = <<"remove", "recover">>
  /\ pc \in Started => defers = AllDefers
  /\ defers \in {AllDefers, <<"remove", "recover">>, <<"recover">>, <<>>}
  /\ eng = "open" <=> defers = AllDefers
  /\ dir <=> defers \in {AllDefers, <<"remove", "recover">>}
  /\ panicking => pc = "unwind" /\ defers # <<>>
  /\ crashed => pc = "measure" /\ \E c \in Clients : left[c] > 0
  /\ pc # "measure" => \A c \in Clients : left[c] = 0

\* A result is set by a return statement only, with what that statement knows: the
\* cell was not refused, and no step whose error counts has failed.
ResultEarned ==
  /\ pc # "unwind" => slot = ZeroResult /\ \A p \in {"open", "load"} : <<p, "error">> \notin failed
  /\ pc \notin {"new", "unwind"} => ~(cell.full /\ cell.network)
  /\ \A p \in {"open", "load"} : <<p, "error">> \in failed => slot.error /\ ~slot.measured

\* The load goes through the keys from 0 up, and the measured part has them all.
LoadedInOrder ==
  /\ \E n \in 0..NKeys : loaded = [k \in 0..(NKeys - 1) |-> IF k < n THEN 1 ELSE 0]
  /\ pc \in {"flush", "measure", "account"} \/ slot.measured =>
       \A k \in 0..(NKeys - 1) : loaded[k] = 1

\* The operations the clients have still to do.
Undone == {p \in Clients \X (1..perClient) : p[2] <= left[p[1]]}

\* Every operation is still to do or in the histograms, and in one counter at least.
OperationsCounted ==
  /\ pc \in {"new", "mkdir", "open", "load", "flush"} => hist = 0
  /\ pc = "measure" => hist + Cardinality(Undone) = perClient * Cardinality(Clients)
  /\ pc = "account" \/ slot.measured => hist = perClient * Cardinality(Clients)
  /\ reads + writes >= hist /\ reads <= hist /\ writes <= hist

\* The deferred calls, early returns and marks of RunCell do their work on every
\* way out, and at every point before it what that takes is in place.
CellInv ==
  /\ TypeOK /\ DefersArmed /\ ResultEarned /\ LoadedInOrder /\ OperationsCounted
  /\ EngineOutlivesNoOne /\ NothingLeftBehind
  /\ LookedAtErrorsReported /\ FullLabelHonest

\* RunCell comes to an end when the engine's calls do.
CellEnds == <>(Returned \/ crashed)

\* "It never panics out: an engine failure is captured in Result.Error": of
\* an engine that panicked under RunCell.
PanicCaptured == Returned /\ (\E p \in Phases : <<p, "panic">> \in failed) => slot.error
=============================================================================
