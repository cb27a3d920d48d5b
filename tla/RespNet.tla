------------------------------- MODULE RespNet -------------------------------
(***************************************************************************)
(* The life of the servers behind the RESP adapters                        *)
(* (adapters/respnet/respnet.go): one harness process runs cell after cell *)
(* (RunCell of harness/driver.go), and each cell of a network engine       *)
(* starts a server process of its own, reached over a unix socket of its   *)
(* own, and closes it.                                                     *)
(*                                                                         *)
(* Server i is the i-th process started. A socket path is the number that  *)
(* sockSeq gave it; file[p] is the server that last bound the path, 0 when *)
(* there is no file. A process that has exited is a zombie until it is     *)
(* waited for. The harness process is CpuSplit's: the sweep begins when    *)
(* --cpu-split is settled, and a server runs where ServerWrap puts it.     *)
(***************************************************************************)
EXTENDS CpuSplit

CONSTANT MaxCells      \* cells of the sweep

ASSUME RespNetAssumption == MaxCells \in Nat \ {0}

Servers == 1..MaxCells
Paths == 0..MaxCells
Alive == {"starting", "up", "hung"}

VARIABLES
  cells,        \* cells begun
  sockSeq,
  started,      \* processes started
  server,       \* server[i]: none, starting, up, hung, zombie, reaped
  killed,       \* the processes that were sent SIGKILL
  pathOf,       \* pathOf[i]: the socket path server i was given
  cores,        \* cores[i]: the cores it runs on
  file,         \* file[p]: the server that bound path p, or 0
  eng,          \* the engine of the cell: its cmd, its cli's path and its sock
  answered,     \* the server that answered the ping of Open
  pc            \* idle, ping (Open), open, kill, wait, remove (Close)

procs == <<started, pathOf, cores>>
netVars == <<cells, sockSeq, procs, server, killed, file, eng, answered, pc>>
vars == <<splitVars, netVars>>

NoEngine == [cmd |-> 0, cli |-> 0, sock |-> 0]

Init ==
  /\ SplitInit
  /\ cells = 0 /\ sockSeq = 0 /\ started = 0 /\ killed = {} /\ answered = 0
  /\ server = [i \in Servers |-> "none"]
  /\ pathOf = [i \in Servers |-> 0]
  /\ cores = [i \in Servers |-> {}]
  /\ file = [p \in Paths |-> 0]
  /\ eng = NoEngine /\ pc = "idle"

-----------------------------------------------------------------------------
\* The binary is not on PATH: the cell ends.
OpenNotFound ==
  /\ pc = "idle" /\ cells < MaxCells
  /\ cells' = cells + 1
  /\ UNCHANGED <<sockSeq, procs, server, killed, file, eng, answered, pc>>

\* The ServerCPUList of the engine.Config that RunCell builds: it copies six
\* fields of the CellConfig, and this is not one of them.
ConfigServerCPUList == <<>>

\* Mutant: every path is the same.
MutOpenSame ==
  LET p == sockSeq + 1
  IN
  /\ pc = "idle" /\ cells < MaxCells
  /\ cells' = cells + 1 /\ sockSeq' = p
  /\ \/ /\ eng' = [cmd |-> started + 1, cli |-> 1, sock |-> 1]
        /\ started' = started + 1
        /\ server' = [server EXCEPT ![started + 1] = "starting"]
        /\ pathOf' = [pathOf EXCEPT ![started + 1] = 1]
        /\ cores' = [cores EXCEPT ![started + 1] = ServerWrap(ConfigServerCPUList)]
        /\ pc' = "ping"
     \/ UNCHANGED <<procs, server, eng, pc>>
  /\ UNCHANGED <<killed, file, answered>>

\* Open up to its loop: the path, the process (or Start fails and the cell
\* ends), the client.
Open ==
  LET p == sockSeq + 1
  IN
  /\ pc = "idle" /\ cells < MaxCells
  /\ cells' = cells + 1 /\ sockSeq' = p
  /\ \/ /\ eng' = [cmd |-> started + 1, cli |-> p, sock |-> p]
        /\ started' = started + 1
        /\ server' = [server EXCEPT ![started + 1] = "starting"]
        /\ pathOf' = [pathOf EXCEPT ![started + 1] = p]
        /\ cores' = [cores EXCEPT ![started + 1] = ServerWrap(ConfigServerCPUList)]
        /\ pc' = "ping"
     \/ UNCHANGED <<procs, server, eng, pc>>
  /\ UNCHANGED <<killed, file, answered>>

\* A ping gets through to whoever listens on the path, and Open returns.
PingAnswered ==
  LET l == file[eng.cli]
  IN
  /\ pc = "ping"
  /\ l # 0 /\ server[l] = "up"
  /\ answered' = l /\ pc' = "open"
  /\ UNCHANGED <<cells, sockSeq, procs, server, killed, file, eng>>

\* The deadline passes first: the process is killed, Open fails, and RunCell,
\* which has not deferred its Close yet, drops the engine.
Deadline ==
  /\ pc = "ping"
  /\ killed' = killed \cup {eng.cmd}
  /\ eng' = NoEngine /\ pc' = "idle"
  /\ UNCHANGED <<cells, sockSeq, procs, server, file, answered>>

\* The cell's work is done: Close asks the server to shut down. It may exit,
\* removing its socket as it goes, or not.
Shutdown ==
  LET l == file[eng.cli]
  IN
  /\ pc = "open" /\ pc' = "kill"
  /\ \/ /\ l # 0 /\ server[l] = "up"
        /\ server' = [server EXCEPT ![l] = "zombie"]
        /\ file' = [file EXCEPT ![eng.cli] = 0]
     \/ UNCHANGED <<server, file>>
  /\ UNCHANGED <<cells, sockSeq, procs, killed, eng, answered>>

\* Mutant: Close relies on the shutdown.
MutKill ==
  /\ pc = "kill" /\ pc' = "wait"
  /\ UNCHANGED <<cells, sockSeq, procs, server, killed, file, eng, answered>>

Kill ==
  /\ pc = "kill" /\ pc' = "wait"
  /\ killed' = killed \cup {eng.cmd}
  /\ UNCHANGED <<cells, sockSeq, procs, server, file, eng, answered>>

Wait ==
  /\ pc = "wait" /\ server[eng.cmd] = "zombie"
  /\ server' = [server EXCEPT ![eng.cmd] = "reaped"]
  /\ pc' = "remove"
  /\ UNCHANGED <<cells, sockSeq, procs, killed, file, eng, answered>>

\* The socket is removed, Close returns and the cell ends.
RemoveSock ==
  /\ pc = "remove" /\ pc' = "idle"
  /\ file' = [file EXCEPT ![eng.sock] = 0]
  /\ eng' = NoEngine
  /\ UNCHANGED <<cells, sockSeq, procs, server, killed, answered>>

-----------------------------------------------------------------------------
\* The server (external). It binds its path, over a file left there, and serves.
ServerUp(i) ==
  /\ server[i] = "starting" /\ i \notin killed
  /\ server' = [server EXCEPT ![i] = "up"]
  /\ file' = [file EXCEPT ![pathOf[i]] = i]
  /\ UNCHANGED <<cells, sockSeq, procs, killed, eng, answered, pc>>

\* It stops answering.
ServerHangs(i) ==
  /\ server[i] \in {"starting", "up"} /\ i \notin killed
  /\ server' = [server EXCEPT ![i] = "hung"]
  /\ UNCHANGED <<cells, sockSeq, procs, killed, file, eng, answered, pc>>

\* It crashes, or SIGKILL gets to it. The socket file stays.
ServerDies(i) ==
  /\ server[i] \in Alive
  /\ server' = [server EXCEPT ![i] = "zombie"]
  /\ UNCHANGED <<cells, sockSeq, procs, killed, file, eng, answered, pc>>

Adapter ==
  \/ OpenNotFound \/ Open \/ PingAnswered \/ Deadline
  \/ Shutdown \/ Kill \/ Wait \/ RemoveSock

Cells == Adapter \/ \E i \in Servers : ServerUp(i) \/ ServerHangs(i) \/ ServerDies(i)

Next ==
  \/ Split /\ UNCHANGED netVars
  \/ pass = "run" /\ Cells /\ UNCHANGED splitVars

Spec == Init /\ [][Next]_vars

\* The clock runs, the harness is scheduled, and SIGKILL kills. No server is
\* assumed to come up, or to stop by itself.
FairSpec ==
  /\ Spec
  /\ WF_vars(Split /\ UNCHANGED netVars)
  /\ WF_vars((PingAnswered \/ Deadline) /\ UNCHANGED splitVars)
  /\ WF_vars((Shutdown \/ Kill \/ Wait \/ RemoveSock) /\ UNCHANGED splitVars)
  /\ \A i \in Servers : WF_vars(i \in killed /\ ServerDies(i) /\ UNCHANGED splitVars)

-----------------------------------------------------------------------------
(***************************************************************************)
(* Properties.                                                             *)
(***************************************************************************)
\* Types; every socket file is bound by a server that was given its path.
TypeOK ==
  /\ cells \in 0..MaxCells /\ sockSeq \in 0..cells /\ started \in 0..sockSeq
  /\ server \in [Servers -> Alive \cup {"none", "zombie", "reaped"}]
  /\ killed \subseteq 1..started /\ pathOf \in [Servers -> Paths]
  /\ mask \subseteq allowed /\ cores \in [Servers -> SUBSET allowed]
  /\ file \in [Paths -> 0..started]
  /\ eng \in [cmd : 0..started, cli : 0..sockSeq, sock : 0..sockSeq]
  /\ answered \in 0..started
  /\ pc \in {"idle", "ping", "open", "kill", "wait", "remove"}
  /\ \A p \in Paths : file[p] # 0 => pathOf[file[p]] = p

\* The server an open engine measures is the one it started: "reached over a
\* private unix socket". A server of an earlier cell, killed at its deadline
\* and never waited for, may still listen, but not on this path.
MeasuresOwnServer ==
  pc \in {"open", "kill", "wait", "remove"} => answered = eng.cmd

\* An engine that was opened is torn down by its Close: once the next cell may
\* begin its process is reaped and its socket is gone.
ClosedIsTornDown ==
  pc = "idle" /\ answered # 0 =>
    server[answered] = "reaped" /\ file[pathOf[answered]] = 0

\* What the two rest on: no two servers have one path, an engine talks to the
\* path of its own process, and what it leaves behind stays as it is.
SocketsPrivate ==
  /\ \A i \in Servers : i > started => server[i] = "none"
  /\ \A i \in 1..started : pathOf[i] \in 1..sockSeq
  /\ \A i, j \in 1..started : pathOf[i] = pathOf[j] => i = j
  /\ pc # "idle" =>
       eng.cmd \in 1..started /\ eng.cli = pathOf[eng.cmd] /\ eng.sock = pathOf[eng.cmd]
  /\ pc = "remove" => server[answered] = "reaped"
  /\ pc = "ping" /\ answered # 0 =>
       server[answered] = "reaped" /\ file[pathOf[answered]] = 0

\* A run that is not split, because nobody asked or because the split could not
\* be done, has the whole box, its servers as well: "the run continues
\* co-located".
FallsBackWhole ==
  pass = "run" /\ ~env.pinned =>
    mask = allowed /\ \A i \in 1..started : cores[i] = allowed

\* What it rests on: only a process that carries the guard variable is masked,
\* and no server is started before the split is settled.
WholeUntilPinned ==
  /\ ~env.pinned => mask = allowed
  /\ pass = "exec" => env.pinned
  /\ pass # "run" => started = 0

\* The processes and sockets of the cells so far, and where they run.
CellsInv ==
  /\ TypeOK /\ SocketsPrivate /\ WholeUntilPinned
  /\ MeasuresOwnServer /\ ClosedIsTornDown /\ FallsBackWhole

\* Every cell that starts a server ends, though the server never answers, hangs
\* or ignores the shutdown: Open has its deadline, and Close kills before it
\* waits.
CellReturns == pc # "idle" ~> pc = "idle"
=============================================================================
