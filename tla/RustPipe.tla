----------------------------- MODULE RustPipe ------------------------------
(***************************************************************************)
(* The subprocess engines redb, sled and fjall. The adapter                *)
(* (adapters/rustkv/rustkv_subprocess.go) multiplexes the calls of many    *)
(* clients over the stdin and stdout of one helper process, each under an  *)
(* id; the helper (rust/src/main.rs) reads the requests into a queue that  *)
(* a pool of workers serves, so the answers come back in any order.        *)
(*                                                                         *)
(* Ids count from 1 here, from 0 in the code. A pipe holds PipeCap         *)
(* frames, and a writer waits while it is full. The store of the helper    *)
(* is a map whose operations are atomic. The helper may die at any moment, *)
(* and an unwrap in engines.rs may end a worker thread in the middle of a  *)
(* request.                                                                *)
(***************************************************************************)
EXTENDS Naturals, Sequences

CONSTANTS
  Clients, Workers, Keys, Values, Absent,
  PipeCap,          \* frames a pipe holds
  MaxCalls          \* bound: calls that get an id

ASSUME RustPipeAssumption ==
  /\ Absent \notin Values
  /\ PipeCap \in Nat \ {0} /\ MaxCalls \in Nat

VARIABLES
  pc, req, chan,     \* each client: where it is in call, its request, its channel
  nextID, wait, readErr,   \* the adapter's fields: wait is the set of ids in the map
  stage,             \* of the adapter: open, closing, closed
  stdin, stdout,     \* frames in the two pipes
  proc,              \* the helper process: up, draining (stdin ended), gone
  queue, worker,     \* the helper's channel, and what each worker is at
  db,                \* what the helper's store holds
  seen,              \* history: what the key of a call has held since its start
  applied            \* history: the ids whose request reached the store

adapter == <<nextID, wait, readErr, stage>>
helper == <<proc, queue, worker, db>>
vars == <<pc, req, chan, adapter, stdin, stdout, helper, seen, applied>>

NoReq == [id |-> 0, op |-> "none", key |-> Absent, val |-> Absent]
Requests == [op : {"get"}, key : Keys, val : {Absent}] \cup
            [op : {"put"}, key : Keys, val : Values \cup {Absent}]

\* The states of a channel: empty, closed by failAll, or one response.
NoAnswer == [st |-> "empty", id |-> 0, val |-> Absent]
Closed == [st |-> "closed", id |-> 0, val |-> Absent]
Answer(id, v) == [st |-> "ok", id |-> id, val |-> v]

Idle == [st |-> "idle", frame |-> NoReq]
Ended == [st |-> "ended", frame |-> NoReq]
Panicked == [st |-> "panicked", frame |-> NoReq]

\* The helper is there to read from stdin and to write to stdout.
Up == proc # "gone"

Init ==
  /\ pc = [c \in Clients |-> "idle"]
  /\ req = [c \in Clients |-> NoReq]
  /\ chan = [c \in Clients |-> NoAnswer]
  /\ nextID = 1 /\ wait = {} /\ readErr = FALSE /\ stage = "open"
  /\ stdin = <<>> /\ stdout = <<>>
  /\ proc = "up" /\ queue = <<>> /\ worker = [w \in Workers |-> Idle]
  /\ db = [k \in Keys |-> Absent]
  /\ seen = [c \in Clients |-> {}]
  /\ applied = {}

-----------------------------------------------------------------------------
(***************************************************************************)
(* The adapter: call, reader, failAll, Close.                              *)
(***************************************************************************)
\* Mutant: call does not look at readErr.
MutCallBlind(c, r) ==
  /\ pc[c] = "idle" /\ stage = "open" /\ nextID <= MaxCalls
  /\ pc' = [pc EXCEPT ![c] = "send"]
  /\ req' = [req EXCEPT ![c] = [id |-> nextID, op |-> r.op, key |-> r.key, val |-> r.val]]
  /\ nextID' = nextID + 1
  /\ wait' = wait \cup {nextID}
  /\ chan' = [chan EXCEPT ![c] = NoAnswer]
  /\ seen' = [seen EXCEPT ![c] = {db[r.key]}]
  /\ UNCHANGED <<readErr, stage, stdin, stdout, helper, applied>>

\* Under idmu: a call after failAll returns its error, any other takes an id
\* and registers the channel it will wait on.
Call(c, r) ==
  /\ pc[c] = "idle" /\ stage = "open"
  /\ \/ /\ readErr
        /\ pc' = [pc EXCEPT ![c] = "failed"]
        /\ UNCHANGED <<req, nextID, wait>>
     \/ /\ ~readErr /\ nextID <= MaxCalls
        /\ pc' = [pc EXCEPT ![c] = "send"]
        /\ req' = [req EXCEPT ![c] = [id |-> nextID, op |-> r.op, key |-> r.key, val |-> r.val]]
        /\ nextID' = nextID + 1
        /\ wait' = wait \cup {nextID}
  /\ chan' = [chan EXCEPT ![c] = NoAnswer]
  /\ seen' = [seen EXCEPT ![c] = {db[r.key]}]
  /\ UNCHANGED <<readErr, stage, stdin, stdout, helper, applied>>

\* Under wmu: the frame goes into the pipe when there is room, or the write
\* fails because the helper is gone. The failed call leaves its channel
\* registered.
Send(c) ==
  /\ pc[c] = "send"
  /\ \/ /\ Up /\ Len(stdin) < PipeCap
        /\ stdin' = Append(stdin, req[c])
        /\ pc' = [pc EXCEPT ![c] = "wait"]
     \/ /\ ~Up
        /\ pc' = [pc EXCEPT ![c] = "failed"]
        /\ UNCHANGED stdin
  /\ UNCHANGED <<req, chan, adapter, stdout, helper, seen, applied>>

\* The end of call: the response, or the error of a closed channel.
Receive(c) ==
  /\ pc[c] = "wait" /\ chan[c] # NoAnswer
  /\ pc' = [pc EXCEPT ![c] = IF chan[c] = Closed THEN "failed" ELSE "answered"]
  /\ UNCHANGED <<req, chan, adapter, stdin, stdout, helper, seen, applied>>

Return(c) ==
  /\ pc[c] \in {"answered", "failed"}
  /\ pc' = [pc EXCEPT ![c] = "idle"]
  /\ req' = [req EXCEPT ![c] = NoReq]
  /\ chan' = [chan EXCEPT ![c] = NoAnswer]
  /\ seen' = [seen EXCEPT ![c] = {}]
  /\ UNCHANGED <<adapter, stdin, stdout, helper, applied>>

\* Mutant: responses are matched to calls in the order of the calls.
MutDeliver ==
  LET oldest == {id \in wait : \A j \in wait : id <= j}
  IN
  /\ ~readErr /\ stdout # <<>>
  /\ stdout' = Tail(stdout)
  /\ wait' = wait \ oldest
  /\ chan' = [c \in Clients |-> IF req[c].id \in oldest THEN Head(stdout) ELSE chan[c]]
  /\ UNCHANGED <<pc, req, nextID, readErr, stage, stdin, helper, seen, applied>>

\* reader: one response, handed to the channel registered under its id.
Deliver ==
  LET r == Head(stdout)
  IN
  /\ ~readErr /\ stdout # <<>>
  /\ stdout' = Tail(stdout)
  /\ wait' = wait \ {r.id}
  /\ chan' = [c \in Clients |-> IF r.id \in wait /\ req[c].id = r.id THEN r ELSE chan[c]]
  /\ UNCHANGED <<pc, req, nextID, readErr, stage, stdin, helper, seen, applied>>

\* Mutant: the map is dropped and its channels are left open.
MutFailAll ==
  /\ ~readErr /\ stdout = <<>> /\ ~Up
  /\ readErr' = TRUE
  /\ wait' = {}
  /\ UNCHANGED <<pc, req, chan, nextID, stage, stdin, stdout, helper, seen, applied>>

\* reader meets the end of stdout: under idmu, every channel still registered
\* is closed.
failAll ==
  /\ ~readErr /\ stdout = <<>> /\ ~Up
  /\ readErr' = TRUE
  /\ chan' = [c \in Clients |-> IF req[c].id \in wait THEN Closed ELSE chan[c]]
  /\ wait' = {}
  /\ UNCHANGED <<pc, req, nextID, stage, stdin, stdout, helper, seen, applied>>

\* The driver closes an engine when its clients are done.
CloseStdin ==
  /\ stage = "open" /\ \A c \in Clients : pc[c] = "idle"
  /\ stage' = "closing"
  /\ UNCHANGED <<pc, req, chan, nextID, wait, readErr, stdin, stdout, helper, seen, applied>>

\* Process.Wait returns.
CloseWait ==
  /\ stage = "closing" /\ ~Up
  /\ stage' = "closed"
  /\ UNCHANGED <<pc, req, chan, nextID, wait, readErr, stdin, stdout, helper, seen, applied>>

-----------------------------------------------------------------------------
(***************************************************************************)
(* The helper: the reader loop, the workers, the end of the process.       *)
(***************************************************************************)
\* Mutant: the sender is kept at the end of stdin, so the queue never ends.
MutReadRequest ==
  /\ proc = "up" /\ stdin # <<>>
  /\ queue' = Append(queue, Head(stdin))
  /\ stdin' = Tail(stdin)
  /\ UNCHANGED <<pc, req, chan, adapter, stdout, proc, worker, db, seen, applied>>

\* The reader loop feeds the queue; at the end of stdin it drops the sender.
ReadRequest ==
  /\ proc = "up"
  /\ \/ /\ stdin # <<>>
        /\ queue' = Append(queue, Head(stdin))
        /\ stdin' = Tail(stdin)
        /\ UNCHANGED proc
     \/ /\ stdin = <<>> /\ stage # "open"
        /\ proc' = "draining"
        /\ UNCHANGED <<queue, stdin>>
  /\ UNCHANGED <<pc, req, chan, adapter, stdout, worker, db, seen, applied>>

\* A free worker receives the next request, or learns that the queue has ended.
Take(w) ==
  /\ Up /\ worker[w] = Idle
  /\ \/ /\ queue # <<>>
        /\ worker' = [worker EXCEPT ![w] = [st |-> "busy", frame |-> Head(queue)]]
        /\ queue' = Tail(queue)
     \/ /\ queue = <<>> /\ proc = "draining"
        /\ worker' = [worker EXCEPT ![w] = Ended]
        /\ UNCHANGED queue
  /\ UNCHANGED <<pc, req, chan, adapter, stdin, stdout, proc, db, seen, applied>>

\* handle: the store does what the request says and a response is made.
Handle(w) ==
  LET f == worker[w].frame
      now == IF f.op = "get" THEN db[f.key] ELSE f.val
  IN
  /\ Up /\ worker[w].st = "busy"
  /\ db' = [db EXCEPT ![f.key] = now]
  /\ worker' = [worker EXCEPT ![w] = [st |-> "reply", frame |-> [f EXCEPT !.val = now]]]
  /\ applied' = applied \cup {f.id}
  /\ seen' = [c \in Clients |-> IF req[c].key = f.key THEN seen[c] \cup {now} ELSE seen[c]]
  /\ UNCHANGED <<pc, req, chan, adapter, stdin, stdout, proc, queue>>

\* An unwrap on an error of a write (reads map it to None): the thread unwinds
\* without an answer.
Panic(w) ==
  /\ Up /\ worker[w].st = "busy" /\ worker[w].frame.op = "put"
  /\ worker' = [worker EXCEPT ![w] = Panicked]
  /\ UNCHANGED <<pc, req, chan, adapter, stdin, stdout, proc, queue, db, seen, applied>>

\* write_response: under the lock of stdout, when the pipe has room.
write_response(w) ==
  LET f == worker[w].frame
  IN
  /\ Up /\ worker[w].st = "reply" /\ Len(stdout) < PipeCap
  /\ stdout' = Append(stdout, Answer(f.id, f.val))
  /\ worker' = [worker EXCEPT ![w] = Idle]
  /\ UNCHANGED <<pc, req, chan, adapter, stdin, proc, queue, db, seen, applied>>

\* main has joined its workers; it ignores how they ended.
Exit ==
  /\ proc = "draining" /\ \A w \in Workers : worker[w] \in {Ended, Panicked}
  /\ proc' = "gone"
  /\ UNCHANGED <<pc, req, chan, adapter, stdin, stdout, queue, worker, db, seen, applied>>

\* The process dies, or never got past opening its store. What it had not read
\* or not written is lost.
Die ==
  /\ Up
  /\ proc' = "gone"
  /\ stdin' = <<>> /\ queue' = <<>>
  /\ worker' = [w \in Workers |-> Ended]
  /\ UNCHANGED <<pc, req, chan, adapter, stdout, db, seen, applied>>

\* Nothing is left to do.
Finished == stage = "closed" /\ UNCHANGED vars

Client(c) == (\E r \in Requests : Call(c, r)) \/ Send(c) \/ Receive(c) \/ Return(c)

Worker(w) == Take(w) \/ Handle(w) \/ Panic(w) \/ write_response(w)

Next ==
  \/ \E c \in Clients : Client(c)
  \/ Deliver \/ failAll \/ CloseStdin \/ CloseWait
  \/ ReadRequest \/ (\E w \in Workers : Worker(w)) \/ Exit \/ Die
  \/ Finished

Spec == Init /\ [][Next]_vars

\* Both schedulers run every goroutine and thread that can go on. A client
\* waiting for wmu gets it in the end (a Go mutex hands over to a starved
\* waiter). Nothing obliges a client to call or the helper to fail.
FairSpec ==
  /\ Spec
  /\ \A c \in Clients : SF_vars(Send(c)) /\ WF_vars(Receive(c)) /\ WF_vars(Return(c))
  /\ WF_vars(Deliver) /\ WF_vars(failAll) /\ WF_vars(CloseWait)
  /\ WF_vars(ReadRequest) /\ WF_vars(Exit)
  /\ \A w \in Workers : WF_vars(Take(w)) /\ WF_vars(Handle(w)) /\ SF_vars(write_response(w))

-----------------------------------------------------------------------------
(***************************************************************************)
(* Properties.                                                             *)
(***************************************************************************)
Frames == [id : 0..MaxCalls, op : {"none", "get", "put"},
           key : Keys \cup {Absent}, val : Values \cup {Absent}]
Answers == [st : {"empty", "closed", "ok"}, id : 0..MaxCalls, val : Values \cup {Absent}]

\* Every variable has its type.
TypeOK ==
  /\ pc \in [Clients -> {"idle", "send", "wait", "answered", "failed"}]
  /\ req \in [Clients -> Frames] /\ chan \in [Clients -> Answers]
  /\ nextID \in 1..(MaxCalls + 1) /\ wait \in SUBSET (1..(nextID - 1)) /\ readErr \in BOOLEAN
  /\ stage \in {"open", "closing", "closed"}
  /\ stdin \in Seq(Frames) /\ stdout \in Seq(Answers) /\ queue \in Seq(Frames)
  /\ proc \in {"up", "draining", "gone"}
  /\ worker \in [Workers -> [st : {"idle", "busy", "reply", "ended", "panicked"}, frame : Frames]]
  /\ db \in [Keys -> Values \cup {Absent}]
  /\ seen \in [Clients -> SUBSET (Values \cup {Absent})]
  /\ applied \in SUBSET (1..MaxCalls)

\* A call that succeeds has the response to its own request, whatever order
\* the workers answered in; its operation has reached the store, and a Get
\* returns a value its key had between the call and the return.
AnswerIsOwn ==
  \A c \in Clients : pc[c] = "answered" =>
    /\ chan[c].id = req[c].id
    /\ req[c].id \in applied
    /\ IF req[c].op = "get" THEN chan[c].val \in seen[c] ELSE chan[c].val = req[c].val

\* What it rests on. A frame on its way through the helper is the request of the
\* call whose id it bears, if that call is still there to wait for it; an answer
\* on its way back is the answer to that request.
Sent(f) ==
  /\ f.id \in 1..(nextID - 1) /\ f.op \in {"get", "put"} /\ f.key \in Keys
  /\ \A c \in Clients : req[c].id = f.id => f = req[c]

Served(id, v) ==
  /\ id \in 1..(nextID - 1) /\ id \in applied
  /\ \A c \in Clients : req[c].id = id =>
       IF req[c].op = "get" THEN v \in seen[c] ELSE v = req[c].val

FramesInv ==
  /\ \A i \in DOMAIN stdin : Sent(stdin[i])
  /\ \A i \in DOMAIN queue : Sent(queue[i])
  /\ \A w \in Workers :
       /\ worker[w].st = "busy" => Sent(worker[w].frame)
       /\ worker[w].st = "reply" => Served(worker[w].frame.id, worker[w].frame.val)
  /\ \A i \in DOMAIN stdout : stdout[i].st = "ok" /\ Served(stdout[i].id, stdout[i].val)

\* And an id is nobody else's: a channel that has been filled is not registered
\* any more.
ChannelsInv ==
  /\ wait \subseteq 1..(nextID - 1)
  /\ \A c, d \in Clients : req[c].id # 0 /\ req[c].id = req[d].id => c = d
  /\ \A c \in Clients :
       /\ req[c].id \in 0..(nextID - 1) /\ (pc[c] = "idle" => req[c].id = 0)
       /\ pc[c] = "send" => req[c].id # 0 /\ req[c].op \in {"get", "put"} /\ req[c].key \in Keys
       /\ pc[c] = "answered" => chan[c].st = "ok"
       /\ \/ chan[c] \in {NoAnswer, Closed}
          \/ /\ chan[c].st = "ok" /\ chan[c].id = req[c].id /\ req[c].id \notin wait
             /\ Served(chan[c].id, chan[c].val)

\* The way of a request and of its answer, and what the caller gets.
AnswersInv == FramesInv /\ ChannelsInv /\ AnswerIsOwn

\* The ids in the frames of a pipe or of the queue, and that none is there twice.
IdsIn(s) == {s[i].id : i \in DOMAIN s}
NoRepeat(s) == \A i, j \in DOMAIN s : s[i].id = s[j].id => i = j

\* The workers with a request, and its id.
Working == {w \in Workers : worker[w].st \in {"busy", "reply"}}
AtWork == {worker[w].frame.id : w \in Working}

\* The requests and answers on their way through the helper.
OnWay == IdsIn(stdin) \cup IdsIn(queue) \cup AtWork \cup IdsIn(stdout)

\* A request is in one place at a time.
OnePlace ==
  /\ NoRepeat(stdin) /\ NoRepeat(queue) /\ NoRepeat(stdout)
  /\ \A v, w \in Working : worker[v].frame.id = worker[w].frame.id => v = w
  /\ IdsIn(stdin) \cap (IdsIn(queue) \cup AtWork \cup IdsIn(stdout)) = {}
  /\ IdsIn(queue) \cap (AtWork \cup IdsIn(stdout)) = {}
  /\ AtWork \cap IdsIn(stdout) = {}

\* And not on its way before its call has sent it, nor any more once the call has
\* its answer: none is answered twice.
NotTwice ==
  \A c \in Clients :
    /\ pc[c] = "send" => chan[c].st # "ok"
    /\ pc[c] = "send" \/ chan[c].st = "ok" => req[c].id \notin OnWay

\* Nobody waits on a channel that no one will use: it is registered, for the
\* reader to fill or failAll to close; and while the helper and all its workers
\* live, its answer is on its way.
NoLostWaiter ==
  \A c \in Clients : pc[c] \in {"send", "wait"} /\ chan[c] = NoAnswer =>
    /\ req[c].id \in wait /\ ~readErr
    /\ pc[c] = "wait" /\ Up /\ (\A w \in Workers : worker[w] # Panicked) => req[c].id \in OnWay

\* call checks readErr and registers under one idmu section, so no channel is
\* registered once failAll has run.
NoneRegisteredAfterFailure == readErr => wait = {}

\* The bookkeeping of call, reader and failAll, whatever became of the helper.
PipeInv == TypeOK /\ OnePlace /\ NotTwice /\ NoLostWaiter /\ NoneRegisteredAfterFailure

\* Every call returns, with an answer or with an error, even when the helper
\* dies at the worst moment: no pipe, lock or channel is waited on for ever. A
\* worker that panicked in a helper that lives on is the one exception.
CallReturns ==
  \A c \in Clients :
    pc[c] = "send" ~> \/ pc[c] = "idle"
                      \/ Up /\ \E w \in Workers : worker[w] = Panicked

\* Close returns: the helper drains what it has read and exits.
CloseReturns == stage = "closing" ~> stage = "closed"
=============================================================================
