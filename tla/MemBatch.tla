----------------------------- MODULE MemBatch ------------------------------
(***************************************************************************)
(* Batches of the in-memory engines (adapters/inmem/inmem.go). A memBatch  *)
(* buffers the writes of one client; Commit hands them to the engine's     *)
(* applyBatch and empties the buffer. faster and swiss apply the batch in  *)
(* one critical section of their only lock; otter and f2 split the keys    *)
(* over shards and lock the key's shard for every operation (perOp). The   *)
(* structures behind the locks are OpenTable's and F2Shard's: here the     *)
(* engine is the map they implement.                                       *)
(***************************************************************************)
EXTENDS Naturals, Sequences, FiniteSetsExt, Inmem

CONSTANT MaxOps   \* bound: operations buffered in a batch

ASSUME MemBatchAssumption == MaxOps \in Nat

VARIABLES
  perOp,    \* the engine is otter or f2: a critical section per operation
  store,    \* what each key holds
  mu,       \* the client that holds the engine's lock, or {}
  buf,      \* b.ops of each client's memBatch
  pc,       \* "idle", "commit" (applyBatch called), "apply" (in its loop)
  pos,      \* how many operations the loop has applied
  want,     \* history: the operations put in a batch since its last Commit
  before,   \* history: the store when a client's applyBatch got going
  alone     \* history: no other client has written since then

vars == <<perOp, store, mu, buf, pc, pos, want, before, alone>>
history == <<want, before, alone>>

\* The operations of a batch that write a key, and a map after all of them: the
\* last one counts.
WritesTo(ops, k) == {i \in DOMAIN ops : ops[i].key = k}

Replayed(f, ops) ==
  [k \in Keys |-> IF WritesTo(ops, k) = {} THEN f[k] ELSE ops[Max(WritesTo(ops, k))].val]

Init ==
  /\ perOp \in BOOLEAN
  /\ store = [k \in Keys |-> Absent]
  /\ mu = {}
  /\ buf = [c \in Clients |-> <<>>]
  /\ pc = [c \in Clients |-> "idle"]
  /\ pos = [c \in Clients |-> 0]
  /\ want = [c \in Clients |-> <<>>]
  /\ before = [c \in Clients |-> store]
  /\ alone = [c \in Clients |-> FALSE]

\* memBatch.Put and memBatch.Delete.
Buffer(c, o) ==
  /\ pc[c] = "idle" /\ Len(buf[c]) < MaxOps
  /\ buf' = [buf EXCEPT ![c] = Append(@, o)]
  /\ want' = [want EXCEPT ![c] = Append(@, o)]
  /\ UNCHANGED <<perOp, store, mu, pc, pos, before, alone>>

\* memBatch.Commit calls applyBatch. A Commit may follow another one.
Commit(c) ==
  /\ pc[c] = "idle"
  /\ pc' = [pc EXCEPT ![c] = "commit"]
  /\ UNCHANGED <<perOp, store, mu, buf, pos, history>>

\* Mutant: applyBatch leaves the locking to putLocked and deleteLocked.
MutBegin(c) ==
  /\ pc[c] = "commit"
  /\ pc' = [pc EXCEPT ![c] = "apply"]
  /\ before' = [before EXCEPT ![c] = store]
  /\ alone' = [alone EXCEPT ![c] = TRUE]
  /\ UNCHANGED <<perOp, store, mu, buf, pos, want>>

\* applyBatch of faster and swiss takes the lock; that of otter and f2 takes
\* none before its loop.
Begin(c) ==
  /\ pc[c] = "commit"
  /\ \/ perOp /\ UNCHANGED mu
     \/ ~perOp /\ mu = {} /\ mu' = {c}
  /\ pc' = [pc EXCEPT ![c] = "apply"]
  /\ before' = [before EXCEPT ![c] = store]
  /\ alone' = [alone EXCEPT ![c] = TRUE]
  /\ UNCHANGED <<perOp, store, buf, pos, want>>

\* One turn of the loop. In otter and f2 it locks and unlocks the key's shard,
\* so it stays one step.
ApplyOp(c) ==
  LET o == buf[c][pos[c] + 1]
  IN
  /\ pc[c] = "apply" /\ pos[c] < Len(buf[c])
  /\ store' = [store EXCEPT ![o.key] = o.val]
  /\ pos' = [pos EXCEPT ![c] = @ + 1]
  /\ alone' = [d \in Clients |-> alone[d] /\ d = c]
  /\ UNCHANGED <<perOp, mu, buf, pc, want, before>>

\* Mutant: Commit keeps the operations it has applied.
MutFinishKeeps(c) ==
  /\ pc[c] = "apply" /\ pos[c] = Len(buf[c])
  /\ mu' = mu \ {c}
  /\ pc' = [pc EXCEPT ![c] = "idle"]
  /\ pos' = [pos EXCEPT ![c] = 0]
  /\ want' = [want EXCEPT ![c] = <<>>]
  /\ UNCHANGED <<perOp, store, buf, before, alone>>

\* The loop ends, the lock is released, and Commit empties the buffer.
Finish(c) ==
  /\ pc[c] = "apply" /\ pos[c] = Len(buf[c])
  /\ mu' = mu \ {c}
  /\ pc' = [pc EXCEPT ![c] = "idle"]
  /\ pos' = [pos EXCEPT ![c] = 0]
  /\ buf' = [buf EXCEPT ![c] = <<>>]
  /\ want' = [want EXCEPT ![c] = <<>>]
  /\ UNCHANGED <<perOp, store, before, alone>>

Next ==
  \E c \in Clients :
    (\E o \in Ops : Buffer(c, o)) \/ Commit(c) \/ Begin(c) \/ ApplyOp(c) \/ Finish(c)

Spec == Init /\ [][Next]_vars

-----------------------------------------------------------------------------
(***************************************************************************)
(* Properties.                                                             *)
(***************************************************************************)
\* Every variable has its type.
TypeOK ==
  /\ perOp \in BOOLEAN /\ store \in [Keys -> Values \cup {Absent}]
  /\ mu \in SUBSET Clients
  /\ buf \in [Clients -> Seq(Ops)] /\ want \in [Clients -> Seq(Ops)]
  /\ pc \in [Clients -> {"idle", "commit", "apply"}]
  /\ pos \in [Clients -> 0..MaxOps]
  /\ \A c \in Clients : pos[c] <= Len(buf[c]) /\ Len(buf[c]) <= MaxOps
  /\ before \in [Clients -> [Keys -> Values \cup {Absent}]]
  /\ alone \in [Clients -> BOOLEAN]

\* What Gets can see: while the lock is held they wait, and the next thing
\* they will know to have been there is the store before it was taken.
Visible == IF mu = {} THEN store ELSE before[CHOOSE c \in mu : TRUE]

\* "AtomicBatch: batch Commit is atomic", of faster and swiss: whenever what Gets
\* can see changes, it changes by the whole batch of a client that is committing.
BatchAtomic ==
  [][~perOp /\ Visible' # Visible =>
       \E c \in Clients : pc[c] = "apply" /\ Visible' = Replayed(Visible, want[c])]_vars

\* A Commit that no other write overlaps has, at every moment of its loop, done
\* exactly the first pos operations its client buffered since the last Commit,
\* in that order, and when the loop ends all of them.
SoloCommitExact ==
  \A c \in Clients : pc[c] = "apply" /\ alone[c] =>
    /\ pos[c] <= Len(want[c]) /\ (pos[c] = Len(buf[c]) => pos[c] = Len(want[c]))
    /\ store = Replayed(before[c], SubSeq(want[c], 1, pos[c]))

\* What the two rest on: a buffer has what its client put there, the loop of faster
\* and swiss runs in the hands of the one lock holder, and so alone, and otter and
\* f2 never hold the lock over a step.
LockInv ==
  /\ \A c \in Clients : buf[c] = want[c] /\ (pc[c] # "apply" => pos[c] = 0)
  /\ perOp => mu = {}
  /\ ~perOp => \A c \in Clients : c \in mu <=> pc[c] = "apply"
  /\ \A c \in mu : alone[c] /\ \A d \in mu : d = c

\* The buffers, and what the commits under way have done with them.
BatchInv == TypeOK /\ LockInv /\ SoloCommitExact
=============================================================================
