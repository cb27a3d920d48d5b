------------------------------ MODULE CpuSplit ------------------------------
(***************************************************************************)
(* --cpu-split: the harness pins itself to one part of the cores by        *)
(* executing itself again under taskset (cpuset/cpuset.go,                 *)
(* cpuset_linux.go, resolveCPUSplit of cmd/kvbench/main.go). RespNet goes  *)
(* on from here: it launches the network servers of the cells.             *)
(*                                                                         *)
(* A taskset -c list is the sequence of its ranges <<lo, hi>>, and the     *)
(* empty string is the empty sequence. The kernel lets the processes run   *)
(* on the allowed cores only; a mask with none of them is refused.         *)
(***************************************************************************)
EXTENDS Integers, Sequences, FiniteSets

CONSTANTS
  Boxes,        \* the sets of allowed cores
  UserLists     \* the values of --cpu-server and --cpu-client, <<>> included

IsList(l) == l \in Seq(Nat \X Nat)

ASSUME CpuSplitAssumption ==
  /\ \A b \in Boxes : b \subseteq Nat /\ IsFiniteSet(b) /\ b # {}
  /\ \A l \in UserLists : IsList(l)

VARIABLES
  allowed, taskset,   \* the box: its cores, and whether taskset is on PATH
  flags,              \* --cpu-split, --cpu-server, --cpu-client
  numCPU,             \* runtime.NumCPU of the first pass
  env,                \* the three KVBENCH_CPU variables
  pass,               \* start, exec (taskset runs), run, dead
  mask, gomaxprocs,   \* the affinity mask of the process, its GOMAXPROCS
  serverCPUList       \* what resolveCPUSplit returned

box == <<allowed, taskset, flags, numCPU>>
splitVars == <<box, env, pass, mask, gomaxprocs, serverCPUList>>

NoEnv == [pinned |-> FALSE, server |-> <<>>, client |-> <<>>]

-----------------------------------------------------------------------------
Lower(a, b) == IF a < b THEN a ELSE b
Higher(a, b) == IF a > b THEN a ELSE b

\* The clamp of Partition: neither side is left without a core.
ClientShare(n, clientCores) == Lower(Higher(clientCores, 1), n - 1)

\* Mutant: the server's range ends at the first core of the client's.
MutPartition(n, clientCores) ==
  LET s == n - ClientShare(n, clientCores)
  IN  [server |-> <<<<0, s>>>>, client |-> <<<<s, n - 1>>>>]

\* The low cores for the server, the high ones for the client, of a box of at
\* least two.
Partition(n, clientCores) ==
  LET s == n - ClientShare(n, clientCores)
  IN  [server |-> <<<<0, s - 1>>>>, client |-> <<<<s, n - 1>>>>]

DefaultClientCores(n) == Lower(Higher(n \div 2, 2), n - 1)

\* The cores a list names.
Named(l) == UNION {l[i][1]..l[i][2] : i \in DOMAIN l}

\* The lists that Count does not refuse.
Countable(l) == l # <<>> /\ \A i \in DOMAIN l : l[i][1] <= l[i][2]

\* A core counts once for every range that names it.
Count(l) == Cardinality({p \in (DOMAIN l) \X Named(l) : p[2] \in l[p[1]][1]..l[p[1]][2]})

-----------------------------------------------------------------------------
SplitInit ==
  /\ allowed \in Boxes /\ taskset \in BOOLEAN
  /\ flags \in [split : BOOLEAN, server : UserLists, client : UserLists]
  /\ env = NoEnv /\ pass = "start"
  /\ mask = allowed /\ gomaxprocs = Cardinality(allowed) /\ numCPU = Cardinality(allowed)
  /\ serverCPUList = <<>>

Derives == flags.server = <<>> \/ flags.client = <<>>

\* The lists Split works with: the given ones, or a partition of the cores the
\* runtime sees.
Lists ==
  IF Derives
  THEN Partition(Cardinality(mask), DefaultClientCores(Cardinality(mask)))
  ELSE [server |-> flags.server, client |-> flags.client]

\* No split: switched off, no taskset, too few cores, or a failing exec. The
\* run goes on where it is.
RunColocated ==
  /\ pass = "start"
  /\ flags.split /\ taskset => ~env.pinned   \* then Executable or Exec may fail
  /\ pass' = "run"
  /\ UNCHANGED <<box, env, mask, gomaxprocs, serverCPUList>>

\* Mutant: the process executes itself again though the guard variable is set.
MutReExec ==
  /\ pass = "start" /\ flags.split /\ taskset
  /\ Derives => Cardinality(mask) >= 2
  /\ env' = IF env.pinned THEN env
            ELSE [pinned |-> TRUE, server |-> Lists.server, client |-> Lists.client]
  /\ pass' = "exec"
  /\ UNCHANGED <<box, mask, gomaxprocs, serverCPUList>>

\* The first pass of Split: taskset replaces the process image.
ReExec ==
  /\ pass = "start" /\ flags.split /\ taskset /\ ~env.pinned
  /\ Derives => Cardinality(mask) >= 2
  /\ env' = [pinned |-> TRUE, server |-> Lists.server, client |-> Lists.client]
  /\ pass' = "exec"
  /\ UNCHANGED <<box, mask, gomaxprocs, serverCPUList>>

\* taskset sets the mask and executes the harness again, or gives up.
Taskset ==
  LET cores == Named(env.client) \cap allowed
  IN
  /\ pass = "exec"
  /\ \/ /\ cores # {} /\ Countable(env.client)
        /\ pass' = "start" /\ mask' = cores /\ gomaxprocs' = Cardinality(cores)
     \/ /\ cores = {} \/ ~Countable(env.client)
        /\ pass' = "dead"
        /\ UNCHANGED <<mask, gomaxprocs>>
  /\ UNCHANGED <<box, env, serverCPUList>>

\* The second pass of Split reads the lists back.
Resume ==
  /\ pass = "start" /\ flags.split /\ taskset /\ env.pinned
  /\ pass' = "run"
  /\ gomaxprocs' = IF Countable(env.client) THEN Count(env.client) ELSE gomaxprocs
  /\ serverCPUList' = env.server
  /\ UNCHANGED <<box, env, mask>>

\* Where ServerWrap makes a command run.
ServerWrap(list) == IF list = <<>> \/ ~taskset THEN mask ELSE Named(list) \cap allowed

Split == RunColocated \/ ReExec \/ Taskset \/ Resume

-----------------------------------------------------------------------------
(***************************************************************************)
(* Properties.                                                             *)
(***************************************************************************)
\* Every variable has its type; the mask is never empty.
SplitTypeOK ==
  /\ allowed \in Boxes /\ taskset \in BOOLEAN
  /\ flags \in [split : BOOLEAN, server : UserLists, client : UserLists]
  /\ numCPU = Cardinality(allowed)
  /\ env.pinned \in BOOLEAN /\ IsList(env.server) /\ IsList(env.client)
  /\ pass \in {"start", "exec", "run", "dead"}
  /\ mask \subseteq allowed /\ mask # {} /\ gomaxprocs \in Nat \ {0}
  /\ IsList(serverCPUList)

\* The lists of a split that was derived divide all the cores the first pass
\* saw: disjoint, none empty, none missing. The second pass, which sees only
\* its own part, must not derive them anew.
SplitsWholeBox ==
  env.pinned /\ Derives =>
    /\ Named(env.server) \cap Named(env.client) = {}
    /\ Named(env.server) # {} /\ Named(env.client) # {}
    /\ Named(env.server) \cup Named(env.client) = 0..(numCPU - 1)

\* After a split the harness stays on its own list, and on a box whose cores
\* are numbered from 0 a derived one is what GOMAXPROCS is sized to: "so the
\* scheduler does not oversubscribe the partition".
ClientPinned ==
  env.pinned /\ pass = "run" =>
    /\ mask \subseteq Named(env.client)
    /\ serverCPUList = env.server
    /\ Derives /\ allowed = 0..(numCPU - 1) => gomaxprocs = Cardinality(mask)

\* The split, in the first pass and in the second.
SplitInv == SplitTypeOK /\ SplitsWholeBox /\ ClientPinned

\* The process executes itself at most once and then runs, or dies of a list
\* that names no allowed core: "pinnedEnv breaks the re-exec loop".
SplitSettles == <>[](pass \in {"run", "dead"})
=============================================================================
