------------------------------- MODULE KVMap -------------------------------
(***************************************************************************)
(* What the engine SPI promises of the point operations of one store       *)
(* (Get, Put and Delete of engine.Engine) when several clients call it at  *)
(* once: a map from keys to values, every write taking effect at one       *)
(* moment, and every Get answering with the value, or the absence, its key *)
(* had at some moment between the call and the return.                     *)
(***************************************************************************)
CONSTANTS Keys, Values, Clients, Absent

VARIABLES
  store,    \* the map: what each key holds now, Absent included
  calls     \* the Get each client is in: none, pending or answered

vars == <<store, calls>>

NoCall == [st |-> "none", key |-> Absent, seen |-> {}, res |-> Absent]

Init ==
  /\ store = [k \in Keys |-> Absent]
  /\ calls = [c \in Clients |-> NoCall]

\* A write becomes visible. Every pending Get of the key may from now on
\* answer with the new value as well.
Write(k, x) ==
  /\ store' = [store EXCEPT ![k] = x]
  /\ calls' = [c \in Clients |->
                 IF calls[c].st = "pending" /\ calls[c].key = k
                 THEN [calls[c] EXCEPT !.seen = @ \cup {x}]
                 ELSE calls[c]]

Put(k, v) == Write(k, v)

Delete(k) == Write(k, Absent)

GetCall(c, k) ==
  /\ calls[c].st = "none"
  /\ calls' = [calls EXCEPT ![c] = [st |-> "pending", key |-> k,
                                    seen |-> {store[k]}, res |-> Absent]]
  /\ UNCHANGED store

\* The answer is one of the values the key held while the Get was pending.
GetAnswer(c) ==
  /\ calls[c].st = "pending"
  /\ \E x \in calls[c].seen :
       calls' = [calls EXCEPT ![c] = [st |-> "answered", key |-> calls[c].key,
                                      seen |-> calls[c].seen, res |-> x]]
  /\ UNCHANGED store

GetReturn(c) ==
  /\ calls[c].st = "answered"
  /\ calls' = [calls EXCEPT ![c] = NoCall]
  /\ UNCHANGED store

Next ==
  \/ \E k \in Keys, v \in Values : Put(k, v)
  \/ \E k \in Keys : Delete(k)
  \/ \E c \in Clients : (\E k \in Keys : GetCall(c, k)) \/ GetAnswer(c) \/ GetReturn(c)

Spec == Init /\ [][Next]_vars
=============================================================================
