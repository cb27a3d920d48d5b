---------------------------- MODULE RespNetProofs ----------------------------
(***************************************************************************)
(* For any number of cells, any box and any lists: a cell measures the     *)
(* server it started, what was closed is torn down, and a run that is not  *)
(* split has the whole box.                                                *)
(***************************************************************************)
EXTENDS RespNet, FiniteSetTheorems, TLAPS

\* The parts of the invariant that read the processes and the sockets, and the
\* ones that read where they run.
Private == TypeOK /\ SocketsPrivate /\ MeasuresOwnServer /\ ClosedIsTornDown
Whole == WholeUntilPinned /\ FallsBackWhole

\* The sweep begins with no server, on all the cores.
LEMMA CellsBegin == Init => CellsInv
  BY RespNetAssumption
  DEF Init, SplitInit, CellsInv, TypeOK, SocketsPrivate, WholeUntilPinned,
      MeasuresOwnServer, ClosedIsTornDown, FallsBackWhole, Servers, Paths,
      Alive, NoEngine, NoEnv

\* The counters of the sweep, and what is within them.
LEMMA Bounds ==
  ASSUME CellsInv
  PROVE  /\ cells \in Nat /\ sockSeq \in Nat /\ started \in Nat /\ MaxCells \in Nat
         /\ started <= sockSeq /\ sockSeq <= cells /\ cells <= MaxCells
         /\ 1..started \subseteq Servers /\ 0..sockSeq \subseteq Paths
         /\ answered \in Nat /\ answered <= started
<1>1. /\ cells \in Nat /\ sockSeq \in Nat /\ started \in Nat /\ MaxCells \in Nat
      /\ started <= sockSeq /\ sockSeq <= cells /\ cells <= MaxCells
  BY RespNetAssumption DEF CellsInv, TypeOK
<1> QED BY <1>1 DEF CellsInv, TypeOK, Servers, Paths

\* A pass of resolveCPUSplit: no cell runs, and only the one under taskset has
\* its mask changed.
LEMMA SplitKeeps ==
  ASSUME CellsInv, Split, UNCHANGED netVars
  PROVE  CellsInv'
<1> USE DEF CellsInv, netVars, procs
<1>1. CASE RunColocated
  BY <1>1 DEF RunColocated, box, TypeOK, SocketsPrivate, WholeUntilPinned,
              MeasuresOwnServer, ClosedIsTornDown, FallsBackWhole
<1>2. CASE ReExec
  BY <1>2 DEF ReExec, box, TypeOK, SocketsPrivate, WholeUntilPinned,
              MeasuresOwnServer, ClosedIsTornDown, FallsBackWhole
<1>3. CASE Taskset
  BY <1>3 DEF Taskset, box, TypeOK, SocketsPrivate, WholeUntilPinned,
              MeasuresOwnServer, ClosedIsTornDown, FallsBackWhole
<1>4. CASE Resume
  BY <1>4 DEF Resume, box, TypeOK, SocketsPrivate, WholeUntilPinned,
              MeasuresOwnServer, ClosedIsTornDown, FallsBackWhole
<1> QED BY <1>1, <1>2, <1>3, <1>4 DEF Split

\* Only Open places a server, and it places it where the harness runs.
LEMMA CellsKeepWhole ==
  ASSUME CellsInv, pass = "run", Cells, UNCHANGED splitVars
  PROVE  Whole'
<1> USE DEF CellsInv, splitVars, box
<1>1. CASE Open
  <2>1. CASE UNCHANGED procs
    BY <2>1 DEF Whole, WholeUntilPinned, FallsBackWhole, procs
  <2>2. CASE cores' = [cores EXCEPT ![started + 1] = mask] /\ started' = started + 1
    <3>1. started + 1 \in Servers
      BY <1>1, Bounds DEF Open, Servers
    <3>2. \A i \in 1..(started + 1) : i # started + 1 => i \in 1..started
      BY Bounds
    <3> QED BY <2>2, <3>1, <3>2, Bounds DEF Whole, WholeUntilPinned, FallsBackWhole, TypeOK
  <2> QED BY <1>1, <2>1, <2>2 DEF Open, ServerWrap, ConfigServerCPUList
<1>2. CASE UNCHANGED procs
  BY <1>2 DEF Whole, WholeUntilPinned, FallsBackWhole, procs
<1> QED
  BY <1>1, <1>2
  DEF Cells, Adapter, OpenNotFound, PingAnswered, Deadline, Shutdown, Kill,
      Wait, RemoveSock, ServerUp, ServerHangs, ServerDies

\* Open takes a fresh path for a fresh process.
LEMMA OpenKeeps ==
  ASSUME CellsInv, Open, UNCHANGED splitVars
  PROVE  Private'
<1> USE DEF CellsInv, splitVars, box, procs
<1>1. started < MaxCells /\ started + 1 \in Servers /\ sockSeq + 1 \in Paths
  BY Bounds DEF Open, Servers, Paths
<1>2. CASE pc' = "idle"
  BY <1>1, <1>2, Bounds DEF Open, Private, TypeOK, SocketsPrivate, MeasuresOwnServer, ClosedIsTornDown
<1>3. CASE pc' = "ping"
  <2>1. /\ started' = started + 1 /\ sockSeq' = sockSeq + 1 /\ cells' = cells + 1
        /\ eng' = [cmd |-> started + 1, cli |-> sockSeq + 1, sock |-> sockSeq + 1]
        /\ server' = [server EXCEPT ![started + 1] = "starting"]
        /\ pathOf' = [pathOf EXCEPT ![started + 1] = sockSeq + 1]
        /\ cores' = [cores EXCEPT ![started + 1] = mask]
        /\ UNCHANGED <<killed, file, answered>>
        /\ pc = "idle" /\ cells < MaxCells
    BY <1>3 DEF Open, ServerWrap, ConfigServerCPUList
  <2>2. TypeOK'
    <3>1. /\ cells' \in 0..MaxCells /\ sockSeq' \in 0..cells' /\ started' \in 0..sockSeq'
          /\ killed' \subseteq 1..started' /\ answered' \in 0..started'
          /\ eng' \in [cmd : 0..started', cli : 0..sockSeq', sock : 0..sockSeq']
      BY <1>1, <2>1, Bounds DEF TypeOK
    <3>2. file' \in [Paths -> 0..started'] /\ \A p \in Paths : file[p] # started + 1
      BY <2>1, Bounds DEF TypeOK
    <3>3. /\ server' \in [Servers -> Alive \cup {"none", "zombie", "reaped"}]
          /\ pathOf' \in [Servers -> Paths] /\ cores' \in [Servers -> SUBSET allowed']
      BY <1>1, <2>1 DEF TypeOK, Alive
    <3>4. \A p \in Paths : file'[p] # 0 => pathOf'[file'[p]] = p
      BY <2>1, <3>2, Bounds DEF TypeOK
    <3> QED BY <1>3, <3>1, <3>2, <3>3, <3>4 DEF TypeOK
  <2>3. SocketsPrivate'
    <3>1. \A i \in 1..(started + 1) : i # started + 1 => i \in 1..started
      BY Bounds
    <3>2. \A i \in 1..started : pathOf[i] # sockSeq + 1 /\ pathOf'[i] = pathOf[i]
      BY <2>1, Bounds DEF TypeOK, SocketsPrivate
    <3>3. pathOf'[started + 1] = sockSeq + 1
      BY <1>1, <2>1 DEF TypeOK
    <3>4. \A i \in 1..started' : pathOf'[i] \in 1..sockSeq'
      BY <2>1, <3>1, <3>2, <3>3, Bounds DEF SocketsPrivate
    <3>5. \A i, j \in 1..started' : pathOf'[i] = pathOf'[j] => i = j
      BY <2>1, <3>1, <3>2, <3>3 DEF SocketsPrivate
    <3>6. \A i \in Servers : i > started' => server'[i] = "none"
      BY <1>1, <2>1, Bounds DEF TypeOK, SocketsPrivate, Servers
    <3>7. answered # 0 => server'[answered] = "reaped" /\ file'[pathOf'[answered]] = 0
      BY <2>1, <3>2, Bounds DEF TypeOK, ClosedIsTornDown
    <3>8. eng'.cmd \in 1..started' /\ eng'.cli = pathOf'[eng'.cmd] /\ eng'.sock = pathOf'[eng'.cmd]
      BY <2>1, <3>3, Bounds
    <3> QED BY <1>3, <2>1, <3>4, <3>5, <3>6, <3>7, <3>8 DEF SocketsPrivate
  <2> QED BY <1>3, <2>2, <2>3 DEF Private, MeasuresOwnServer, ClosedIsTornDown
<1> QED BY <1>2, <1>3 DEF Open

\* The server that answers is the only one that ever had the path.
LEMMA PingKeeps ==
  ASSUME CellsInv, PingAnswered, UNCHANGED splitVars
  PROVE  Private'
<1> USE DEF CellsInv, splitVars, box, procs, PingAnswered
<1>1. file[eng.cli] \in 1..started /\ pathOf[file[eng.cli]] = eng.cli
  BY RespNetAssumption DEF TypeOK, SocketsPrivate, Paths
<1>2. answered' = eng.cmd
  BY <1>1 DEF SocketsPrivate
<1>3. TypeOK'
  BY <1>1 DEF TypeOK
<1>4. SocketsPrivate'
  BY DEF SocketsPrivate
<1> QED BY <1>2, <1>3, <1>4 DEF Private, MeasuresOwnServer, ClosedIsTornDown

\* The deadline drops an engine that nothing was measured on.
LEMMA DeadlineKeeps ==
  ASSUME CellsInv, Deadline, UNCHANGED splitVars
  PROVE  Private'
<1> USE DEF CellsInv, splitVars, box, procs, Deadline
<1>1. TypeOK'
  <2>1. killed' \subseteq 1..started
    BY Zenon DEF TypeOK, SocketsPrivate
  <2>2. eng' \in [cmd : 0..started, cli : 0..sockSeq, sock : 0..sockSeq]
    BY Bounds DEF NoEngine
  <2> QED BY <2>1, <2>2 DEF TypeOK
<1>2. SocketsPrivate'
  BY DEF SocketsPrivate
<1> QED BY <1>1, <1>2 DEF Private, SocketsPrivate, MeasuresOwnServer, ClosedIsTornDown

\* Close: the shutdown, the kill, the wait and the removal, of the server the
\* engine measured.
LEMMA CloseKeeps ==
  ASSUME CellsInv, Shutdown \/ Kill \/ Wait \/ RemoveSock, UNCHANGED splitVars
  PROVE  Private'
<1> USE DEF CellsInv, splitVars, box, procs
<1>0. pc # "idle" => eng.cmd \in Servers /\ eng.cli \in Paths /\ eng.sock = eng.cli
  BY Bounds DEF TypeOK, SocketsPrivate
<1>1. CASE Shutdown
  <2>1. CASE UNCHANGED <<server, file>>
    BY <1>1, <2>1
    DEF Shutdown, Private, TypeOK, SocketsPrivate, MeasuresOwnServer, ClosedIsTornDown
  <2>2. ASSUME server' = [server EXCEPT ![file[eng.cli]] = "zombie"],
               file' = [file EXCEPT ![eng.cli] = 0]
        PROVE  TypeOK'
    <3>1. server' \in [Servers -> Alive \cup {"none", "zombie", "reaped"}]
      BY <2>2, Zenon DEF TypeOK
    <3>2. file' \in [Paths -> 0..started] /\ \A p \in Paths : file'[p] # 0 => file'[p] = file[p]
      BY <1>0, <1>1, <2>2, Bounds DEF Shutdown, TypeOK
    <3> QED BY <1>1, <3>1, <3>2 DEF Shutdown, TypeOK
  <2>3. ASSUME server' = [server EXCEPT ![file[eng.cli]] = "zombie"], file[eng.cli] # 0
        PROVE  SocketsPrivate'
    BY <1>0, <1>1, <2>3, Bounds DEF Shutdown, TypeOK, SocketsPrivate
  <2> QED
    BY <1>1, <2>1, <2>2, <2>3
    DEF Shutdown, Private, MeasuresOwnServer, ClosedIsTornDown
<1>2. CASE Kill
  <2>1. killed' \subseteq 1..started
    BY <1>2, Zenon DEF Kill, TypeOK, SocketsPrivate
  <2>2. TypeOK'
    BY <1>2, <2>1 DEF Kill, TypeOK
  <2>3. SocketsPrivate'
    BY <1>2 DEF Kill, SocketsPrivate
  <2> QED BY <1>2, <2>2, <2>3, Zenon DEF Kill, Private, MeasuresOwnServer, ClosedIsTornDown
<1>3. CASE Wait
  <2>1. TypeOK'
    BY <1>0, <1>3 DEF Wait, TypeOK, Servers, Paths, Alive
  <2> QED
    BY <1>0, <1>3, <2>1
    DEF Wait, Private, TypeOK, SocketsPrivate, MeasuresOwnServer, ClosedIsTornDown, Servers
<1>4. CASE RemoveSock
  <2>1. TypeOK'
    BY <1>0, <1>4 DEF RemoveSock, TypeOK, NoEngine, Servers, Paths
  <2>2. server[answered] = "reaped" /\ file'[pathOf[answered]] = 0
    BY <1>0, <1>4
    DEF RemoveSock, TypeOK, SocketsPrivate, MeasuresOwnServer, Servers
  <2> QED
    BY <1>0, <1>4, <2>1, <2>2
    DEF RemoveSock, Private, SocketsPrivate, MeasuresOwnServer, ClosedIsTornDown
<1> QED BY <1>1, <1>2, <1>3, <1>4

\* What a server does by itself, to its own path and its own state.
LEMMA ServerKeeps ==
  ASSUME CellsInv, NEW i \in Servers,
         ServerUp(i) \/ ServerHangs(i) \/ ServerDies(i), UNCHANGED splitVars
  PROVE  Private'
<1> USE DEF CellsInv, splitVars, box, procs
<1>0. server[i] \in Alive /\ "none" \notin Alive /\ "reaped" \notin Alive
  BY DEF ServerUp, ServerHangs, ServerDies, Alive
<1>1. i \in 1..started /\ pathOf[i] \in Paths
  <2>1. ~(i > started)
    BY <1>0, Zenon DEF SocketsPrivate
  <2>2. pathOf[i] \in Paths
    BY DEF TypeOK
  <2> QED BY <2>1, <2>2, Bounds DEF Servers
<1>step. PICK st \in Alive \cup {"zombie"} :
           /\ server' = [server EXCEPT ![i] = st]
           /\ UNCHANGED file \/ file' = [file EXCEPT ![pathOf[i]] = i]
           /\ UNCHANGED <<cells, sockSeq, procs, killed, eng, answered, pc>>
  <2>1. CASE ServerUp(i)
    BY <2>1, Zenon DEF ServerUp, Alive
  <2>2. CASE ServerHangs(i)
    BY <2>2 DEF ServerHangs, Alive
  <2>3. CASE ServerDies(i)
    BY <2>3 DEF ServerDies, Alive
  <2> QED BY <2>1, <2>2, <2>3
<1>2. TypeOK'
  <2>1. server' \in [Servers -> Alive \cup {"none", "zombie", "reaped"}]
    BY <1>step DEF TypeOK
  <2>2. file' \in [Paths -> 0..started]
    BY <1>1, <1>step, Bounds DEF TypeOK
  <2>3. \A p \in Paths : file'[p] # 0 => pathOf[file'[p]] = p
    BY <1>1, <1>step DEF TypeOK
  <2> QED BY <1>step, <2>1, <2>2, <2>3 DEF TypeOK
<1>rest. \A j \in Servers : j # i => server'[j] = server[j]
  BY <1>step DEF TypeOK
<1>3. \A j \in Servers : server[j] = "reaped" => server'[j] = "reaped"
  BY <1>0, <1>rest
<1>4. \A j \in Servers : server[j] = "none" => server'[j] = "none"
  BY <1>0, <1>rest
<1>5. \A j \in 1..started : server[j] = "reaped" /\ file[pathOf[j]] = 0 => file'[pathOf[j]] = 0
  <2>1. \A j \in 1..started : server[j] = "reaped" => pathOf[j] # pathOf[i]
    BY <1>0, <1>1 DEF SocketsPrivate
  <2>2. \A j \in 1..started : pathOf[j] \in Paths
    BY Bounds DEF TypeOK
  <2> QED BY <1>step, <2>1, <2>2 DEF TypeOK
<1>6. UNCHANGED <<cells, sockSeq, started, pathOf, eng, answered, pc>>
  BY <1>step
<1>7. pc = "remove" => answered \in 1..started
  BY DEF MeasuresOwnServer, SocketsPrivate
<1>8. answered \in 0..started /\ 1..started \subseteq Servers
  BY Bounds DEF TypeOK
<1>9. SocketsPrivate'
  BY <1>3, <1>4, <1>5, <1>6, <1>7, <1>8 DEF SocketsPrivate
<1>10. ClosedIsTornDown' /\ MeasuresOwnServer'
  BY <1>3, <1>5, <1>6, <1>8 DEF ClosedIsTornDown, MeasuresOwnServer
<1> QED BY <1>2, <1>9, <1>10 DEF Private

\* Every step of the harness and of the servers keeps the invariant.
LEMMA CellsStep == CellsInv /\ [Next]_vars => CellsInv'
<1> SUFFICES ASSUME CellsInv, [Next]_vars PROVE CellsInv'
  OBVIOUS
<1>1. CASE Split /\ UNCHANGED netVars
  BY <1>1, SplitKeeps
<1>2. CASE pass = "run" /\ Cells /\ UNCHANGED splitVars
  <2>1. ASSUME OpenNotFound PROVE Private'
    BY <1>2, <2>1, RespNetAssumption DEF OpenNotFound, splitVars, box, procs, CellsInv, Private, TypeOK,
      SocketsPrivate, MeasuresOwnServer, ClosedIsTornDown
  <2>2. Private'
    BY <1>2, <2>1, OpenKeeps, PingKeeps, DeadlineKeeps, CloseKeeps, ServerKeeps
    DEF Cells, Adapter, CellsInv, Private
  <2> QED BY <1>2, <2>2, CellsKeepWhole DEF CellsInv, Private, Whole
<1>3. CASE UNCHANGED vars
  BY <1>3 DEF vars, netVars, splitVars, box, procs, CellsInv, TypeOK, SocketsPrivate,
    WholeUntilPinned, MeasuresOwnServer, ClosedIsTornDown, FallsBackWhole
<1> QED BY <1>1, <1>2, <1>3 DEF Next

\* Init establishes the invariant of the cells and every step keeps it.
THEOREM CellsAlways == Spec => []CellsInv
  BY CellsBegin, CellsStep, PTL DEF Spec

\* The server an open engine measures is the process that its own Open started,
\* whatever the servers of the earlier cells did and however many there were:
\* a path is taken from sockSeq once, and the file on it is bound by the one
\* process that was given it.
THEOREM OwnServer == Spec => []MeasuresOwnServer
<1>1. CellsInv => MeasuresOwnServer
  BY DEF CellsInv
<1> QED BY <1>1, CellsAlways, PTL

\* Once Close has returned, the process it killed has been reaped and its
\* socket is gone, and stays so: no later server binds that path.
THEOREM TornDown == Spec => []ClosedIsTornDown
<1>1. CellsInv => ClosedIsTornDown
  BY DEF CellsInv
<1> QED BY <1>1, CellsAlways, PTL

\* A run whose split was not asked for or could not be done has the whole box,
\* and so has every server it starts.
THEOREM Colocated == Spec => []FallsBackWhole
<1>1. CellsInv => FallsBackWhole
  BY DEF CellsInv
<1> QED BY <1>1, CellsAlways, PTL

-----------------------------------------------------------------------------
(***************************************************************************)
(* The split of the cores.                                                 *)
(***************************************************************************)
\* Partition cuts a box of at least two cores between two of them.
LEMMA PartitionCuts ==
  ASSUME NEW n \in Nat, n >= 2, NEW k \in Int
  PROVE  \E s \in 1..(n - 1) :
           Partition(n, k) = [server |-> <<<<0, s - 1>>>>, client |-> <<<<s, n - 1>>>>]
<1>1. PICK s : s = n - ClientShare(n, k)
  BY Zenon
<1>2. s \in 1..(n - 1)
  BY <1>1 DEF ClientShare, Lower, Higher
<1>3. Partition(n, k) = [server |-> <<<<0, s - 1>>>>, client |-> <<<<s, n - 1>>>>]
  BY <1>1, Zenon DEF Partition
<1> QED BY <1>2, <1>3, Zenon

\* The cores that a list of one range names, and their number.
LEMMA OneRange ==
  ASSUME NEW a \in Nat, NEW b \in Nat, NEW l, l = <<<<a, b>>>>
  PROVE  /\ IsList(l) /\ Named(l) = a..b
         /\ a <= b => Countable(l) /\ Count(l) = Cardinality(a..b)
<1>1. IsList(l) /\ DOMAIN l = {1} /\ l[1] = <<a, b>> /\ l[1][1] = a /\ l[1][2] = b /\ l # <<>>
  BY DEF IsList
<1>2. Named(l) = a..b
  BY <1>1, Zenon DEF Named
<1>3. a <= b => Countable(l)
  BY <1>1 DEF Countable
<1>4. Count(l) = Cardinality(a..b)
  <2>1. {p \in (DOMAIN l) \X Named(l) : p[2] \in l[p[1]][1]..l[p[1]][2]} = {1} \X (a..b)
    <3>1. \A p \in {1} \X (a..b) : l[p[1]][1] = a /\ l[p[1]][2] = b /\ p[2] \in a..b
      BY <1>1
    <3>2. (DOMAIN l) \X Named(l) = {1} \X (a..b)
      BY <1>1, <1>2
    <3> QED BY <3>1, <3>2, Zenon
  <2>2. IsFiniteSet({1}) /\ Cardinality({1}) = 1 /\ IsFiniteSet(a..b) /\ Cardinality(a..b) \in Nat
    <3>1. IsFiniteSet({1}) /\ Cardinality({1}) = 1
      BY FS_Singleton, Zenon
    <3>2. IsFiniteSet(a..b)
      BY FS_Interval
    <3>3. Cardinality(a..b) \in Nat
      BY <3>2, FS_CardinalityType, Zenon
    <3> QED BY <3>1, <3>2, <3>3
  <2>3. Cardinality({1} \X (a..b)) = Cardinality({1}) * Cardinality(a..b)
    BY <2>2, FS_Product, Zenon
  <2>4. Cardinality({1} \X (a..b)) = Cardinality(a..b)
    <3>1. PICK c \in Nat : c = Cardinality(a..b)
      BY <2>2, Zenon
    <3>2. Cardinality({1} \X (a..b)) = 1 * c
      BY <2>2, <2>3, <3>1, Zenon
    <3> QED BY <3>1, <3>2
  <2> QED BY <2>1, <2>4, Zenon DEF Count
<1> QED BY <1>1, <1>2, <1>3, <1>4

\* A list that Count accepts names at least one core.
LEMMA CountPositive ==
  ASSUME NEW l, IsList(l), Countable(l)
  PROVE  Count(l) \in Nat \ {0}
<1> DEFINE range == [i \in DOMAIN l |-> l[i][1]..l[i][2]]
           ranges == {l[i][1]..l[i][2] : i \in DOMAIN l}
           pairs == {p \in (DOMAIN l) \X Named(l) : p[2] \in l[p[1]][1]..l[p[1]][2]}
<1>1. IsFiniteSet(DOMAIN l) /\ 1 \in DOMAIN l
  <2>1. PICK n \in Nat : DOMAIN l = 1..n /\ n # 0
    BY DEF IsList, Countable
  <2> QED BY <2>1, FS_Interval
<1>2. \A i \in DOMAIN l : l[i][1] \in Nat /\ l[i][2] \in Nat /\ l[i][1] <= l[i][2]
  BY DEF IsList, Countable
<1>3. IsFiniteSet(Named(l))
  <2>1. range \in Surjection(DOMAIN l, ranges)
    BY DEF Surjection
  <2>2. IsFiniteSet(ranges)
    BY <1>1, <2>1, FS_Surjection
  <2>3. \A i \in DOMAIN l : IsFiniteSet(l[i][1]..l[i][2])
    <3> TAKE i \in DOMAIN l
    <3>1. l[i][1] \in Int /\ l[i][2] \in Int
      BY <1>2
    <3> QED BY <3>1, FS_Interval, Zenon
  <2> QED BY <2>2, <2>3, FS_UNION, Zenon DEF Named
<1>4. IsFiniteSet(pairs)
  <2>1. IsFiniteSet((DOMAIN l) \X Named(l))
    BY <1>1, <1>3, FS_Product
  <2>2. pairs \subseteq (DOMAIN l) \X Named(l)
    OBVIOUS
  <2> HIDE DEF pairs
  <2> QED BY <2>1, <2>2, FS_Subset
<1>5. pairs # {}
  <2>1. l[1][1] \in l[1][1]..l[1][2] /\ l[1][1] \in Named(l)
    BY <1>1, <1>2 DEF Named
  <2>2. <<1, l[1][1]>> \in pairs
    BY <1>1, <2>1
  <2> QED BY <2>2
<1>6. Cardinality(pairs) \in Nat \ {0}
  <2> HIDE DEF pairs
  <2> QED BY <1>4, <1>5, FS_CardinalityType, FS_EmptySet
<1> QED BY <1>6 DEF Count

\* What SplitInv rests on: until the process is pinned it has the whole box; once
\* it is, the lists are the user's or the one partition of the box that the first
\* pass saw, and the mask and GOMAXPROCS are the client's.
SplitInd ==
  /\ SplitTypeOK
  /\ ~env.pinned => mask = allowed /\ pass # "exec"
  /\ env.pinned =>
       /\ flags.split /\ taskset
       /\ Derives => numCPU >= 2 /\ LET p == Partition(numCPU, DefaultClientCores(numCPU))
                                    IN  env.server = p.server /\ env.client = p.client
       /\ pass \in {"start", "run"} => mask = Named(env.client) \cap allowed /\ Countable(env.client)
       /\ pass = "run" => serverCPUList = env.server /\ gomaxprocs = Count(env.client)

\* The box of the first pass.
LEMMA BoxFinite ==
  ASSUME SplitInd
  PROVE  /\ IsFiniteSet(allowed) /\ numCPU \in Nat \ {0}
         /\ \A S \in SUBSET allowed : S # {} => Cardinality(S) \in Nat \ {0}
<1>1. IsFiniteSet(allowed) /\ numCPU = Cardinality(allowed) /\ allowed # {}
  BY CpuSplitAssumption DEF SplitInd, SplitTypeOK
<1>2. ASSUME NEW S \in SUBSET allowed, S # {} PROVE Cardinality(S) \in Nat \ {0}
  <2>1. IsFiniteSet(S)
    BY <1>1, FS_Subset, Zenon
  <2>2. Cardinality(S) \in Nat /\ Cardinality(S) # 0
    BY <1>2, <2>1, FS_CardinalityType, FS_EmptySet, Zenon
  <2> QED BY <2>2
<1> QED BY <1>1, <1>2

\* The derived lists are lists, and they divide the box.
LEMMA DerivedLists ==
  ASSUME NEW n \in Nat, n >= 2, NEW sv, NEW cl, NEW k \in Int,
         sv = Partition(n, k).server, cl = Partition(n, k).client
  PROVE  /\ IsList(sv) /\ IsList(cl) /\ Countable(cl)
         /\ Named(sv) \cap Named(cl) = {} /\ Named(sv) # {} /\ Named(cl) # {}
         /\ Named(sv) \cup Named(cl) = 0..(n - 1)
         /\ Count(cl) = Cardinality(Named(cl))
<1>1. PICK s \in 1..(n - 1) :
        Partition(n, k) = [server |-> <<<<0, s - 1>>>>, client |-> <<<<s, n - 1>>>>]
  BY PartitionCuts
<1>2. sv = <<<<0, s - 1>>>> /\ cl = <<<<s, n - 1>>>>
  BY <1>1
<1>3. s \in Nat /\ s - 1 \in Nat /\ n - 1 \in Nat /\ s <= n - 1
  BY <1>1
<1>4. IsList(sv) /\ Named(sv) = 0..(s - 1)
  BY <1>2, <1>3, OneRange
<1>5. IsList(cl) /\ Named(cl) = s..(n - 1) /\ Countable(cl) /\ Count(cl) = Cardinality(s..(n - 1))
  BY <1>2, <1>3, OneRange
<1>6. /\ (0..(s - 1)) \cap (s..(n - 1)) = {} /\ 0..(s - 1) # {} /\ s..(n - 1) # {}
      /\ (0..(s - 1)) \cup (s..(n - 1)) = 0..(n - 1)
  BY <1>3
<1> QED BY <1>4, <1>5, <1>6

\* The argument of Partition in Split is a number.
LEMMA DefaultIsInt ==
  ASSUME NEW n \in Nat
  PROVE  DefaultClientCores(n) \in Int
  BY DEF DefaultClientCores, Lower, Higher

\* The invariant says what SplitInv does.
LEMMA SplitSuffices == SplitInd => SplitInv
<1> SUFFICES ASSUME SplitInd PROVE SplitsWholeBox /\ ClientPinned
  BY DEF SplitInv, SplitInd
<1>1. ASSUME env.pinned, Derives
      PROVE  /\ Named(env.server) \cap Named(env.client) = {}
             /\ Named(env.server) # {} /\ Named(env.client) # {}
             /\ Named(env.server) \cup Named(env.client) = 0..(numCPU - 1)
             /\ Count(env.client) = Cardinality(Named(env.client))
  <2>1. PICK k : k = DefaultClientCores(numCPU)
    BY Zenon
  <2>2. k \in Int /\ numCPU \in Nat /\ numCPU >= 2
    BY <1>1, <2>1, BoxFinite, DefaultIsInt, Zenon DEF SplitInd
  <2>3. env.server = Partition(numCPU, k).server /\ env.client = Partition(numCPU, k).client
    BY <1>1, <2>1, Zenon DEF SplitInd
  <2> QED BY <2>2, <2>3, DerivedLists
<1>2. SplitsWholeBox
  BY <1>1 DEF SplitsWholeBox
<1>3. ClientPinned
  <2> SUFFICES ASSUME env.pinned, pass = "run"
               PROVE  /\ mask \subseteq Named(env.client)
                      /\ serverCPUList = env.server
                      /\ Derives /\ allowed = 0..(numCPU - 1) => gomaxprocs = Cardinality(mask)
    BY DEF ClientPinned
  <2>1. /\ mask = Named(env.client) \cap allowed
        /\ serverCPUList = env.server /\ gomaxprocs = Count(env.client)
    BY DEF SplitInd
  <2>2. ASSUME Derives, allowed = 0..(numCPU - 1) PROVE gomaxprocs = Cardinality(mask)
    <3>1. mask = Named(env.client)
      BY <1>1, <2>1, <2>2, Zenon
    <3> QED BY <1>1, <2>1, <2>2, <3>1, Zenon
  <2> QED BY <2>1, <2>2
<1> QED BY <1>2, <1>3

\* The first pass has the whole box.
LEMMA SplitBegins == Init => SplitInd
<1> SUFFICES ASSUME Init PROVE SplitInd
  OBVIOUS
<1>1. /\ allowed \in Boxes /\ taskset \in BOOLEAN /\ serverCPUList = <<>>
      /\ flags \in [split : BOOLEAN, server : UserLists, client : UserLists]
      /\ env = NoEnv /\ pass = "start" /\ mask = allowed
      /\ gomaxprocs = Cardinality(allowed) /\ numCPU = Cardinality(allowed)
  BY DEF Init, SplitInit
<1>2. IsFiniteSet(allowed) /\ allowed # {}
  BY <1>1, CpuSplitAssumption
<1>3. Cardinality(allowed) \in Nat /\ Cardinality(allowed) # 0
  BY <1>2, FS_CardinalityType, FS_EmptySet, Zenon
<1>4. IsList(<<>>)
  BY DEF IsList
<1>5. SplitTypeOK
  BY <1>1, <1>2, <1>3, <1>4 DEF SplitTypeOK, NoEnv
<1> QED BY <1>1, <1>5 DEF SplitInd, NoEnv

\* A run that is not split keeps what it has.
LEMMA ColocatedSplit ==
  ASSUME SplitInd, RunColocated
  PROVE  SplitInd'
<1>1. UNCHANGED <<allowed, taskset, flags, numCPU, env, mask, gomaxprocs, serverCPUList>> /\ pass' = "run"
      /\ ~env.pinned
  BY DEF RunColocated, box, SplitInd
<1>2. SplitTypeOK'
  BY <1>1, Zenon DEF SplitInd, SplitTypeOK
<1> QED BY <1>1, <1>2, Zenon DEF SplitInd

\* The first pass leaves the lists in the environment.
LEMMA ReExecSplit ==
  ASSUME SplitInd, ReExec
  PROVE  SplitInd'
<1>1. /\ UNCHANGED <<allowed, taskset, flags, numCPU, mask, gomaxprocs, serverCPUList>>
      /\ pass' = "exec" /\ ~env.pinned /\ flags.split /\ taskset
      /\ env' = [pinned |-> TRUE, server |-> Lists.server, client |-> Lists.client]
  BY DEF ReExec, box
<1>2. mask = allowed /\ numCPU = Cardinality(mask) /\ (Derives => numCPU >= 2)
  BY <1>1, Zenon DEF SplitInd, SplitTypeOK, ReExec
<1>3. PICK sv, cl : sv = Lists.server /\ cl = Lists.client
  BY Zenon
<1>4. env'.pinned = TRUE /\ env'.server = sv /\ env'.client = cl
  BY <1>1, <1>3
<1>5. IsList(sv) /\ IsList(cl)
  <2>1. CASE Derives
    <3>1. PICK k : k = DefaultClientCores(numCPU)
      BY Zenon
    <3>2. k \in Int /\ numCPU \in Nat /\ numCPU >= 2
      BY <1>2, <2>1, <3>1, BoxFinite, DefaultIsInt
    <3>3. sv = Partition(numCPU, k).server /\ cl = Partition(numCPU, k).client
      BY <1>2, <1>3, <2>1, <3>1, Zenon DEF Lists
    <3> QED BY <3>2, <3>3, DerivedLists
  <2>2. CASE ~Derives
    <3>1. sv = flags.server /\ cl = flags.client
      BY <1>3, <2>2 DEF Lists
    <3>2. flags.server \in UserLists /\ flags.client \in UserLists
      BY DEF SplitInd, SplitTypeOK
    <3> QED BY <3>1, <3>2, CpuSplitAssumption
  <2> QED BY <2>1, <2>2
<1>6. SplitTypeOK'
  BY <1>1, <1>4, <1>5, Zenon DEF SplitInd, SplitTypeOK
<1>7. Derives' =>
        /\ numCPU' >= 2
        /\ LET p == Partition(numCPU', DefaultClientCores(numCPU'))
           IN  env'.server = p.server /\ env'.client = p.client
  <2>1. Derives' = Derives
    BY <1>1 DEF Derives
  <2>2. Derives => Lists = Partition(numCPU, DefaultClientCores(numCPU))
    BY <1>2 DEF Lists
  <2> QED BY <1>1, <1>2, <1>3, <1>4, <2>1, <2>2, Zenon
<1> QED BY <1>1, <1>4, <1>6, <1>7, Zenon DEF SplitInd

\* taskset gives the process the cores of the client's list, or it dies.
LEMMA TasksetSplit ==
  ASSUME SplitInd, Taskset
  PROVE  SplitInd'
<1>1. UNCHANGED <<allowed, taskset, flags, numCPU, env, serverCPUList>> /\ env.pinned
  BY Zenon DEF Taskset, box, SplitInd
<1>2. PICK own : own = Named(env.client) \cap allowed
  BY Zenon
<1>3. CASE pass' = "dead" /\ UNCHANGED <<mask, gomaxprocs>>
  <2>1. SplitTypeOK'
    BY <1>1, <1>3, Zenon DEF SplitInd, SplitTypeOK
  <2> QED BY <1>1, <1>3, <2>1, Zenon DEF SplitInd, Derives
<1>4. CASE /\ own # {} /\ Countable(env.client)
           /\ pass' = "start" /\ mask' = own /\ gomaxprocs' = Cardinality(own)
  <2>1. own \subseteq allowed /\ Cardinality(own) \in Nat \ {0}
    BY <1>2, <1>4, BoxFinite
  <2>2. SplitTypeOK'
    BY <1>1, <1>4, <2>1, Zenon DEF SplitInd, SplitTypeOK
  <2> QED BY <1>1, <1>2, <1>4, <2>2, Zenon DEF SplitInd, Derives
<1> QED BY <1>2, <1>3, <1>4 DEF Taskset

\* The second pass reads its lists back and sizes GOMAXPROCS.
LEMMA ResumeSplit ==
  ASSUME SplitInd, Resume
  PROVE  SplitInd'
<1>1. /\ UNCHANGED <<allowed, taskset, flags, numCPU, env, mask>> /\ env.pinned
      /\ pass = "start" /\ pass' = "run" /\ serverCPUList' = env.server
  BY DEF Resume, box
<1>2. Countable(env.client) /\ mask = Named(env.client) \cap allowed /\ IsList(env.client)
  BY <1>1, Zenon DEF SplitInd, SplitTypeOK
<1>3. gomaxprocs' = Count(env.client) /\ Count(env.client) \in Nat \ {0}
  BY <1>2, CountPositive DEF Resume
<1>4. SplitTypeOK'
  BY <1>1, <1>3, Zenon DEF SplitInd, SplitTypeOK
<1> QED BY <1>1, <1>2, <1>3, <1>4, Zenon DEF SplitInd, Derives

\* Split is all that touches what the invariant reads.
LEMMA SplitStep == SplitInd /\ [Next]_vars => SplitInd'
<1> SUFFICES ASSUME SplitInd, [Next]_vars PROVE SplitInd'
  OBVIOUS
<1>1. CASE Split
  BY <1>1, ColocatedSplit, ReExecSplit, TasksetSplit, ResumeSplit DEF Split
<1>2. CASE UNCHANGED splitVars
  BY <1>2, Zenon DEF splitVars, box, SplitInd, SplitTypeOK, Derives
<1> QED BY <1>1, <1>2 DEF Next, vars

\* On every box and for all lists of the user: a derived split divides all the
\* cores the first pass saw, neither side without one, and the second pass does
\* not divide its own part again; the harness stays on its list, and GOMAXPROCS
\* is the size of its mask where the cores are numbered from 0.
THEOREM SplitAlways == Spec => []SplitInv
  BY SplitBegins, SplitStep, SplitSuffices, PTL DEF Spec
=============================================================================
