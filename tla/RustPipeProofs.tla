--------------------------- MODULE RustPipeProofs ---------------------------
(***************************************************************************)
(* For any number of clients, workers, keys, calls and frames in a pipe:   *)
(* the answer a call of the subprocess engines returns is the answer to    *)
(* its own request.                                                        *)
(***************************************************************************)
EXTENDS RustPipe, TLAPS

Ind == TypeOK /\ FramesInv /\ ChannelsInv

\* No call has been made and the pipes are empty.
LEMMA PipeBegins == Init => Ind
<1> SUFFICES ASSUME Init PROVE Ind
  OBVIOUS
<1>1. NoReq \in Frames /\ NoAnswer \in Answers
  BY RustPipeAssumption DEF NoReq, NoAnswer, Frames, Answers
<1>2. TypeOK
  <2>1. /\ pc \in [Clients -> {"idle", "send", "wait", "answered", "failed"}]
        /\ req \in [Clients -> Frames] /\ chan \in [Clients -> Answers]
        /\ worker \in [Workers -> [st : {"idle", "busy", "reply", "ended", "panicked"}, frame : Frames]]
    BY <1>1 DEF Init, Idle
  <2>2. stdin \in Seq(Frames) /\ stdout \in Seq(Answers) /\ queue \in Seq(Frames)
    BY DEF Init
  <2>3. nextID \in 1..(MaxCalls + 1) /\ wait \in SUBSET (1..(nextID - 1)) /\ applied \in SUBSET (1..MaxCalls)
    BY RustPipeAssumption DEF Init
  <2>4. /\ db \in [Keys -> Values \cup {Absent}]
        /\ seen \in [Clients -> SUBSET (Values \cup {Absent})]
    BY DEF Init
  <2> QED BY <2>1, <2>2, <2>3, <2>4, Zenon DEF Init, TypeOK
<1>3. FramesInv
  BY DEF Init, FramesInv, Idle
<1>4. ChannelsInv
  BY DEF Init, ChannelsInv, NoReq, NoAnswer
<1> QED BY <1>2, <1>3, <1>4 DEF Ind

\* What is true of a frame or an answer on its way stays true while the calls
\* in progress stay what they are, and the ids of new ones are new.
LEMMA OnTheWay ==
  ASSUME nextID \in Nat, nextID' \in Nat, nextID <= nextID', applied \subseteq applied',
         \A c \in Clients : \/ req'[c] = req[c] /\ seen[c] \subseteq seen'[c]
                            \/ req'[c].id \notin 1..(nextID - 1)
  PROVE  /\ \A f : Sent(f) => Sent(f)'
         /\ \A id, v : Served(id, v) => Served(id, v)'
<1>1. 1..(nextID - 1) \subseteq 1..(nextID' - 1)
  <2>1. \A m, n \in Nat : m <= n => 1..(m - 1) \subseteq 1..(n - 1)
    OBVIOUS
  <2> QED BY <2>1, Zenon
<1>2. ASSUME NEW f, Sent(f) PROVE Sent(f)'
  BY <1>1, <1>2 DEF Sent
<1>3. ASSUME NEW id, NEW v, Served(id, v) PROVE Served(id, v)'
  BY <1>1, <1>3, Zenon DEF Served
<1> QED BY <1>2, <1>3

\* A call registers an id that nothing on its way bears.
LEMMA CallKeeps ==
  ASSUME Ind, NEW c \in Clients, NEW r \in Requests, Call(c, r)
  PROVE  Ind'
<1> USE DEF Call, helper
<1>1. nextID \in Nat /\ nextID' \in {nextID, nextID + 1} /\ MaxCalls \in Nat
      /\ nextID' \in 1..(MaxCalls + 1)
  BY RustPipeAssumption DEF Ind, TypeOK
<1>2. /\ r.op \in {"get", "put"} /\ r.key \in Keys /\ r.val \in Values \cup {Absent}
  BY DEF Requests
<1>3. req[c].id = 0
  BY DEF Ind, ChannelsInv
<1>4. /\ chan' = [chan EXCEPT ![c] = NoAnswer] /\ chan'[c] = NoAnswer
      /\ \A d \in Clients : d # c => chan'[d] = chan[d] /\ seen'[d] = seen[d]
  BY DEF Ind, TypeOK
<1>5. CASE readErr /\ UNCHANGED <<req, nextID, wait>> /\ pc' = [pc EXCEPT ![c] = "failed"]
  <2>1. /\ \A f : Sent(f) => Sent(f)'
        /\ \A id, v : Served(id, v) => Served(id, v)'
    <3>1. \A d \in Clients : \/ req'[d] = req[d] /\ seen[d] \subseteq seen'[d]
                             \/ req'[d].id \notin 1..(nextID - 1)
      BY <1>1, <1>3, <1>4, <1>5
    <3> QED BY <1>1, <1>5, <3>1, OnTheWay
  <2>2. TypeOK'
    <3>1. /\ pc' \in [Clients -> {"idle", "send", "wait", "answered", "failed"}]
          /\ chan' \in [Clients -> Answers]
      BY <1>5, RustPipeAssumption DEF Ind, TypeOK, NoAnswer, Answers
    <3>2. seen' \in [Clients -> SUBSET (Values \cup {Absent})]
      BY <1>2 DEF Ind, TypeOK
    <3> QED BY <1>5, <3>1, <3>2 DEF Ind, TypeOK
  <2>3. FramesInv'
    BY <2>1 DEF Ind, FramesInv
  <2>4. \A d \in Clients : d # c => pc'[d] = pc[d]
    BY <1>5 DEF Ind, TypeOK
  <2>5. pc'[c] = "failed"
    BY <1>5 DEF Ind, TypeOK
  <2>6. ChannelsInv'
    BY <1>3, <1>4, <1>5, <2>1, <2>4, <2>5 DEF Ind, ChannelsInv
  <2> QED BY <2>2, <2>3, <2>6 DEF Ind
<1>6. CASE /\ nextID <= MaxCalls /\ pc' = [pc EXCEPT ![c] = "send"]
           /\ req' = [req EXCEPT ![c] = [id |-> nextID, op |-> r.op, key |-> r.key, val |-> r.val]]
           /\ nextID' = nextID + 1 /\ wait' = wait \cup {nextID}
  <2>1. /\ req'[c] = [id |-> nextID, op |-> r.op, key |-> r.key, val |-> r.val]
        /\ \A d \in Clients : d # c => req'[d] = req[d] /\ pc'[d] = pc[d]
        /\ pc'[c] = "send"
    BY <1>6 DEF Ind, TypeOK
  <2>2. /\ \A f : Sent(f) => Sent(f)'
        /\ \A id, v : Served(id, v) => Served(id, v)'
    <3>1. \A d \in Clients : \/ req'[d] = req[d] /\ seen[d] \subseteq seen'[d]
                             \/ req'[d].id \notin 1..(nextID - 1)
      BY <1>1, <1>4, <2>1
    <3> QED BY <1>1, <1>6, <3>1, OnTheWay
  <2>3. TypeOK'
    <3>1. /\ pc' \in [Clients -> {"idle", "send", "wait", "answered", "failed"}]
          /\ chan' \in [Clients -> Answers]
      BY <1>6, RustPipeAssumption DEF Ind, TypeOK, NoAnswer, Answers
    <3>2. req' \in [Clients -> Frames]
      <4>1. [id |-> nextID, op |-> r.op, key |-> r.key, val |-> r.val] \in Frames
        BY <1>1, <1>2, <1>6 DEF Frames
      <4> QED BY <1>6, <4>1 DEF Ind, TypeOK
    <3>3. seen' \in [Clients -> SUBSET (Values \cup {Absent})]
      BY <1>2 DEF Ind, TypeOK
    <3>4. wait' \in SUBSET (1..(nextID' - 1))
      BY <1>1, <1>6 DEF Ind, TypeOK
    <3> QED BY <1>1, <3>1, <3>2, <3>3, <3>4, Zenon DEF Ind, TypeOK
  <2>4. FramesInv'
    BY <2>2 DEF Ind, FramesInv
  <2>5. /\ wait' \subseteq 1..(nextID' - 1) /\ 0..(nextID - 1) \subseteq 0..(nextID' - 1)
        /\ nextID \in 1..(nextID' - 1)
    BY <1>1, <1>6 DEF Ind, ChannelsInv, TypeOK
  <2>6. \A d \in Clients : d # c => req[d].id # nextID
    BY <1>1 DEF Ind, ChannelsInv
  <2>7. \A d, e \in Clients : req'[d].id # 0 /\ req'[d].id = req'[e].id => d = e
    BY <1>1, <2>1, <2>6 DEF Ind, ChannelsInv
  <2>8. ChannelsInv'
    <3> SUFFICES ASSUME NEW d \in Clients
                 PROVE  /\ req'[d].id \in 0..(nextID' - 1) /\ (pc'[d] = "idle" => req'[d].id = 0)
                        /\ pc'[d] = "send" => req'[d].id # 0 /\ req'[d].op \in {"get", "put"} /\ req'[d].key \in Keys
                        /\ pc'[d] = "answered" => chan'[d].st = "ok"
                        /\ \/ chan'[d] \in {NoAnswer, Closed}
                           \/ /\ chan'[d].st = "ok" /\ chan'[d].id = req'[d].id /\ req'[d].id \notin wait'
                              /\ Served(chan[d].id, chan[d].val)'
      BY <2>5, <2>7 DEF ChannelsInv, NoAnswer, Closed
    <3>1. CASE d = c
      BY <1>1, <1>2, <1>4, <2>1, <2>5, <3>1
    <3>2. CASE d # c
      BY <1>4, <1>6, <2>1, <2>2, <2>5, <2>6, <3>2 DEF Ind, ChannelsInv
    <3> QED BY <3>1, <3>2
  <2> QED BY <2>3, <2>4, <2>8 DEF Ind
<1> QED BY <1>5, <1>6
\* Most steps leave the calls alone.
LEMMA SameCalls ==
  ASSUME Ind, UNCHANGED <<req, nextID, seen, applied>>
  PROVE  /\ \A f : Sent(f) => Sent(f)'
         /\ \A id, v : Served(id, v) => Served(id, v)'
<1>1. nextID \in Nat
  BY DEF Ind, TypeOK
<1> QED BY <1>1, OnTheWay

\* A client goes on, and is answered only by a channel that was filled.
LEMMA SameChannels ==
  ASSUME Ind, UNCHANGED <<req, chan, nextID, wait, seen, applied>>,
         \A d \in Clients : \/ pc'[d] = pc[d]
                            \/ pc'[d] \in {"wait", "failed"}
                            \/ pc'[d] = "answered" /\ chan[d].st = "ok"
  PROVE  ChannelsInv'
<1>1. \A id, v : Served(id, v) => Served(id, v)'
  BY SameCalls
<1> QED BY <1>1 DEF Ind, ChannelsInv, NoAnswer, Closed

\* The frame of a call enters stdin, or the call fails.
LEMMA SendKeeps ==
  ASSUME Ind, NEW c \in Clients, Send(c)
  PROVE  Ind'
<1> USE DEF adapter, helper
<1>1. UNCHANGED <<req, chan, adapter, stdout, helper, seen, applied>> /\ pc[c] = "send"
  BY DEF Send
<1>2. /\ \A f : Sent(f) => Sent(f)'
      /\ \A id, v : Served(id, v) => Served(id, v)'
  BY <1>1, SameCalls
<1>3. PICK p \in {"wait", "failed"} : pc' = [pc EXCEPT ![c] = p]
  BY DEF Send
<1>4. /\ pc' \in [Clients -> {"idle", "send", "wait", "answered", "failed"}]
      /\ \A d \in Clients : pc'[d] = pc[d] \/ pc'[d] \in {"wait", "failed"}
  BY <1>3 DEF Ind, TypeOK
<1>5. ChannelsInv'
  <2>1. UNCHANGED <<req, chan, nextID, wait, seen, applied>>
    BY <1>1
  <2>2. \A d \in Clients : \/ pc'[d] = pc[d]
                           \/ pc'[d] \in {"wait", "failed"}
                           \/ pc'[d] = "answered" /\ chan[d].st = "ok"
    BY <1>4
  <2> QED BY <2>1, <2>2, SameChannels, Zenon
<1>6. req[c] \in Frames /\ Sent(req[c])
  <2>1. req[c] \in Frames /\ nextID \in Nat
    BY DEF Ind, TypeOK
  <2>2. /\ req[c].id \in 0..(nextID - 1) /\ req[c].id # 0
        /\ req[c].op \in {"get", "put"} /\ req[c].key \in Keys
    BY <1>1 DEF Ind, ChannelsInv
  <2>3. \A d \in Clients : req[d].id = req[c].id => req[c] = req[d]
    BY <2>2 DEF Ind, ChannelsInv
  <2> QED BY <2>1, <2>2, <2>3 DEF Sent
<1>7. stdin' \in Seq(Frames) /\ \A i \in DOMAIN stdin' : Sent(stdin'[i])
  <2>1. stdin \in Seq(Frames) /\ \A i \in DOMAIN stdin : Sent(stdin[i])
    BY DEF Ind, TypeOK, FramesInv
  <2>2. CASE stdin' = Append(stdin, req[c])
    BY <1>6, <2>1, <2>2
  <2>3. CASE UNCHANGED stdin
    BY <2>1, <2>3
  <2> QED BY <2>2, <2>3 DEF Send
<1>8. TypeOK'
  BY <1>1, <1>4, <1>7 DEF Ind, TypeOK
<1>9. FramesInv'
  BY <1>1, <1>2, <1>7, Zenon DEF Ind, FramesInv
<1> QED BY <1>5, <1>8, <1>9 DEF Ind

\* The caller takes what is in its channel.
LEMMA ReceiveKeeps ==
  ASSUME Ind, NEW c \in Clients, Receive(c)
  PROVE  Ind'
<1> USE DEF adapter, helper
<1>1. UNCHANGED <<req, chan, adapter, stdin, stdout, helper, seen, applied>>
  BY DEF Receive
<1>2. /\ \A f : Sent(f) => Sent(f)'
      /\ \A id, v : Served(id, v) => Served(id, v)'
  BY <1>1, SameCalls
<1>3. /\ pc' \in [Clients -> {"idle", "send", "wait", "answered", "failed"}]
      /\ \A d \in Clients : d # c => pc'[d] = pc[d]
      /\ pc'[c] = IF chan[c] = Closed THEN "failed" ELSE "answered"
  BY DEF Receive, Ind, TypeOK
<1>4. chan[c] # Closed => chan[c].st = "ok"
  BY DEF Receive, Ind, ChannelsInv
<1>5. ChannelsInv'
  <2>1. UNCHANGED <<req, chan, nextID, wait, seen, applied>>
    BY <1>1
  <2>2. \A d \in Clients : \/ pc'[d] = pc[d]
                           \/ pc'[d] \in {"wait", "failed"}
                           \/ pc'[d] = "answered" /\ chan[d].st = "ok"
    BY <1>3, <1>4
  <2> QED BY <2>1, <2>2, SameChannels, Zenon
<1>6. TypeOK'
  BY <1>1, <1>3 DEF Ind, TypeOK
<1>7. FramesInv'
  BY <1>1, <1>2, Zenon DEF Ind, FramesInv
<1> QED BY <1>5, <1>6, <1>7 DEF Ind

\* The call is over: what is still on its way under its id is nobody's.
LEMMA ReturnKeeps ==
  ASSUME Ind, NEW c \in Clients, Return(c)
  PROVE  Ind'
<1> USE DEF adapter, helper
<1>1. UNCHANGED <<adapter, stdin, stdout, helper, applied>>
  BY DEF Return
<1>2. /\ req' = [req EXCEPT ![c] = NoReq] /\ chan' = [chan EXCEPT ![c] = NoAnswer]
      /\ pc' = [pc EXCEPT ![c] = "idle"] /\ seen' = [seen EXCEPT ![c] = {}]
  BY DEF Return
<1>3. /\ req'[c] = NoReq /\ chan'[c] = NoAnswer /\ pc'[c] = "idle" /\ NoReq.id = 0
      /\ \A d \in Clients : d # c =>
           req'[d] = req[d] /\ chan'[d] = chan[d] /\ pc'[d] = pc[d] /\ seen'[d] = seen[d]
  BY <1>2 DEF Ind, TypeOK, NoReq
<1>4. nextID \in Nat /\ nextID # 0
  BY DEF Ind, TypeOK
<1>5. /\ \A f : Sent(f) => Sent(f)'
      /\ \A id, v : Served(id, v) => Served(id, v)'
  <2>1. \A d \in Clients : \/ req'[d] = req[d] /\ seen[d] \subseteq seen'[d]
                           \/ req'[d].id \notin 1..(nextID - 1)
    BY <1>3, <1>4
  <2> QED BY <1>1, <1>4, <2>1, OnTheWay
<1>6. TypeOK'
  <2>1. NoReq \in Frames /\ NoAnswer \in Answers
    BY RustPipeAssumption DEF NoReq, NoAnswer, Frames, Answers
  <2>2. /\ pc' \in [Clients -> {"idle", "send", "wait", "answered", "failed"}]
        /\ req' \in [Clients -> Frames] /\ chan' \in [Clients -> Answers]
        /\ seen' \in [Clients -> SUBSET (Values \cup {Absent})]
    BY <1>2, <2>1 DEF Ind, TypeOK
  <2> QED BY <1>1, <2>2 DEF Ind, TypeOK
<1>7. FramesInv'
  BY <1>1, <1>5, Zenon DEF Ind, FramesInv
<1>8. ChannelsInv'
  <2>1. 0 \in 0..(nextID - 1)
    BY <1>4
  <2>2. wait' \subseteq 1..(nextID' - 1)
    BY <1>1, Zenon DEF Ind, ChannelsInv
  <2>3. \A d, e \in Clients : req'[d].id # 0 /\ req'[d].id = req'[e].id => d = e
    <3>1. req'[c].id = 0 /\ \A d \in Clients : d # c => req'[d] = req[d]
      BY <1>3, Zenon
    <3>2. \A d, e \in Clients : req[d].id # 0 /\ req[d].id = req[e].id => d = e
      BY Zenon DEF Ind, ChannelsInv
    <3> SUFFICES ASSUME NEW d \in Clients, NEW e \in Clients,
                        req'[d].id # 0, req'[d].id = req'[e].id
                 PROVE  d = e
      BY Zenon
    <3>3. d # c /\ e # c
      BY <3>1, Zenon
    <3> QED BY <3>1, <3>2, <3>3, Zenon
  <2>4. ASSUME NEW d \in Clients
        PROVE  /\ req'[d].id \in 0..(nextID' - 1) /\ (pc'[d] = "idle" => req'[d].id = 0)
               /\ pc'[d] = "send" =>
                    req'[d].id # 0 /\ req'[d].op \in {"get", "put"} /\ req'[d].key \in Keys
               /\ pc'[d] = "answered" => chan'[d].st = "ok"
               /\ \/ chan'[d] \in {NoAnswer, Closed}
                  \/ /\ chan'[d].st = "ok" /\ chan'[d].id = req'[d].id /\ req'[d].id \notin wait'
                     /\ Served(chan[d].id, chan[d].val)'
    <3>1. nextID' = nextID /\ wait' = wait
      BY <1>1, Zenon
    <3>2. CASE d = c
      BY <1>3, <2>1, <3>1, <3>2, Zenon
    <3>3. CASE d # c
      <4>1. req'[d] = req[d] /\ chan'[d] = chan[d] /\ pc'[d] = pc[d]
        BY <1>3, <3>3, Zenon
      <4>2. \/ chan[d] \in {NoAnswer, Closed}
            \/ /\ chan[d].st = "ok" /\ chan[d].id = req[d].id /\ req[d].id \notin wait
               /\ Served(chan[d].id, chan[d].val)
        BY Zenon DEF Ind, ChannelsInv
      <4>3. Served(chan[d].id, chan[d].val) => Served(chan[d].id, chan[d].val)'
        BY <1>5, <4>1
      <4>4. /\ req[d].id \in 0..(nextID - 1) /\ (pc[d] = "idle" => req[d].id = 0)
            /\ pc[d] = "send" =>
                 req[d].id # 0 /\ req[d].op \in {"get", "put"} /\ req[d].key \in Keys
            /\ pc[d] = "answered" => chan[d].st = "ok"
        BY Zenon DEF Ind, ChannelsInv
      <4> QED BY <3>1, <4>1, <4>2, <4>3, <4>4, Zenon
    <3> QED BY <3>2, <3>3, Zenon
  <2> QED BY <2>2, <2>3, <2>4, Zenon DEF ChannelsInv
<1> QED BY <1>6, <1>7, <1>8 DEF Ind
\* The reader fills the channel of the call whose id the response bears.
LEMMA DeliverKeeps ==
  ASSUME Ind, Deliver
  PROVE  Ind'
<1> USE DEF adapter, helper
<1>1. UNCHANGED <<pc, req, nextID, readErr, stage, stdin, helper, seen, applied>>
  BY DEF Deliver
<1>2. /\ \A f : Sent(f) => Sent(f)'
      /\ \A id, v : Served(id, v) => Served(id, v)'
  BY <1>1, SameCalls
<1>3. PICK r : r = Head(stdout)
  OBVIOUS
<1>4. /\ stdout \in Seq(Answers) /\ stdout # <<>> /\ stdout' = Tail(stdout)
      /\ wait' = wait \ {r.id}
      /\ chan' = [c \in Clients |-> IF r.id \in wait /\ req[c].id = r.id THEN r ELSE chan[c]]
  BY <1>3 DEF Deliver, Ind, TypeOK
<1>5. /\ r \in Answers /\ r = stdout[1] /\ 1 \in DOMAIN stdout
      /\ stdout' \in Seq(Answers)
      /\ \A i \in DOMAIN stdout' : i + 1 \in DOMAIN stdout /\ stdout'[i] = stdout[i + 1]
  BY <1>3, <1>4
<1>6. r.st = "ok" /\ Served(r.id, r.val)
  BY <1>5 DEF Ind, FramesInv
<1>7. TypeOK'
  <2>1. chan' \in [Clients -> Answers] /\ wait' \in SUBSET (1..(nextID' - 1))
    BY <1>1, <1>4, <1>5, Zenon DEF Ind, TypeOK
  <2> QED BY <1>1, <1>5, <2>1, Zenon DEF Ind, TypeOK
<1>8. FramesInv'
  <2>1. \A i \in DOMAIN stdout' : stdout'[i].st = "ok" /\ Served(stdout[i].id, stdout[i].val)'
    <3>1. \A i \in DOMAIN stdout : stdout[i].st = "ok" /\ Served(stdout[i].id, stdout[i].val)
      BY Zenon DEF Ind, FramesInv
    <3> QED BY <1>2, <1>5, <3>1
  <2>2. \A i \in DOMAIN stdin' : Sent(stdin[i])'
    BY <1>1, <1>2, Zenon DEF Ind, FramesInv
  <2>3. \A i \in DOMAIN queue' : Sent(queue[i])'
    BY <1>1, <1>2, Zenon DEF Ind, FramesInv
  <2>4. \A w \in Workers :
          /\ worker'[w].st = "busy" => Sent(worker[w].frame)'
          /\ worker'[w].st = "reply" => Served(worker[w].frame.id, worker[w].frame.val)'
    BY <1>1, <1>2, Zenon DEF Ind, FramesInv
  <2> QED BY <2>1, <2>2, <2>3, <2>4, Zenon DEF FramesInv
<1>9. ASSUME NEW c \in Clients
      PROVE  \/ chan'[c] \in {NoAnswer, Closed}
             \/ /\ chan'[c].st = "ok" /\ chan'[c].id = req'[c].id /\ req'[c].id \notin wait'
                /\ Served(chan[c].id, chan[c].val)'
  <2>1. CASE chan'[c] = r /\ req[c].id = r.id
    BY <1>1, <1>2, <1>4, <1>6, <2>1
  <2>2. CASE chan'[c] = chan[c]
    BY <1>1, <1>2, <1>4, <2>2 DEF Ind, ChannelsInv
  <2> QED BY <1>4, <2>1, <2>2
<1>10. \A c \in Clients : chan'[c] = chan[c] \/ chan'[c].st = "ok"
  BY <1>4, <1>6
<1>11. ChannelsInv'
  <2>1. wait' \subseteq 1..(nextID' - 1)
    BY <1>1, <1>4, Zenon DEF Ind, ChannelsInv
  <2>2. \A c, d \in Clients : req'[c].id # 0 /\ req'[c].id = req'[d].id => c = d
    BY <1>1 DEF Ind, ChannelsInv
  <2>3. \A c \in Clients :
          /\ req'[c].id \in 0..(nextID' - 1) /\ (pc'[c] = "idle" => req'[c].id = 0)
          /\ pc'[c] = "send" => req'[c].id # 0 /\ req'[c].op \in {"get", "put"} /\ req'[c].key \in Keys
    BY <1>1 DEF Ind, ChannelsInv
  <2>4. \A c \in Clients : pc'[c] = "answered" => chan'[c].st = "ok"
    BY <1>1, <1>10 DEF Ind, ChannelsInv
  <2> QED BY <1>9, <2>1, <2>2, <2>3, <2>4, Zenon DEF ChannelsInv, NoAnswer, Closed
<1> QED BY <1>7, <1>8, <1>11 DEF Ind

\* failAll closes the channels that are registered, and only those.
LEMMA FailKeeps ==
  ASSUME Ind, failAll
  PROVE  Ind'
<1> USE DEF adapter, helper
<1>1. /\ UNCHANGED <<pc, req, nextID, stage, stdin, stdout, helper, seen, applied>>
      /\ readErr' = TRUE /\ wait' = {}
      /\ chan' = [c \in Clients |-> IF req[c].id \in wait THEN Closed ELSE chan[c]]
  BY DEF failAll
<1>2. /\ \A f : Sent(f) => Sent(f)'
      /\ \A id, v : Served(id, v) => Served(id, v)'
  BY <1>1, SameCalls
<1>3. TypeOK'
  <2>1. Closed \in Answers
    BY RustPipeAssumption DEF Closed, Answers
  <2>2. chan' \in [Clients -> Answers]
    BY <1>1, <2>1 DEF Ind, TypeOK
  <2> QED BY <1>1, <2>2 DEF Ind, TypeOK
<1>4. FramesInv'
  BY <1>1, <1>2, Zenon DEF Ind, FramesInv
<1>5. ASSUME NEW c \in Clients
      PROVE  \/ chan'[c] \in {NoAnswer, Closed}
             \/ /\ chan'[c].st = "ok" /\ chan'[c].id = req'[c].id /\ req'[c].id \notin wait'
                /\ Served(chan[c].id, chan[c].val)'
  <2>1. CASE chan'[c] = Closed
    BY <2>1
  <2>2. CASE chan'[c] = chan[c]
    BY <1>1, <1>2, <2>2, Zenon DEF Ind, ChannelsInv
  <2> QED BY <1>1, <2>1, <2>2, Zenon
<1>6. \A c \in Clients : pc[c] = "answered" => chan'[c].st = "ok"
  <2> SUFFICES ASSUME NEW c \in Clients, pc[c] = "answered" PROVE chan'[c].st = "ok"
    OBVIOUS
  <2>1. chan[c].st = "ok" /\ req[c].id \notin wait
    BY DEF Ind, ChannelsInv, NoAnswer, Closed
  <2> QED BY <1>1, <2>1
<1>7. ChannelsInv'
  BY <1>1, <1>5, <1>6, ZenonT(60) DEF Ind, ChannelsInv, NoAnswer, Closed
<1> QED BY <1>3, <1>4, <1>7 DEF Ind

\* The helper's steps leave the adapter alone.
LEMMA HelperKeeps ==
  ASSUME Ind, UNCHANGED <<pc, req, chan, nextID, wait, seen, applied>>
  PROVE  /\ ChannelsInv'
         /\ \A f : Sent(f) => Sent(f)'
         /\ \A id, v : Served(id, v) => Served(id, v)'
<1>1. /\ \A f : Sent(f) => Sent(f)'
      /\ \A id, v : Served(id, v) => Served(id, v)'
  BY SameCalls
<1>2. ChannelsInv'
  BY SameChannels
<1> QED BY <1>1, <1>2

\* Close of the engine, the end of the helper, and its death, which only loses
\* frames.
LEMMA EndsKeep ==
  ASSUME Ind, CloseStdin \/ CloseWait \/ Exit \/ Die \/ Finished \/ UNCHANGED vars
  PROVE  Ind'
<1> USE DEF adapter, helper, vars
<1>1. UNCHANGED <<pc, req, chan, nextID, wait, readErr, stdout, db, seen, applied>>
  BY DEF CloseStdin, CloseWait, Exit, Die, Finished
<1>2. /\ ChannelsInv'
      /\ \A f : Sent(f) => Sent(f)'
      /\ \A id, v : Served(id, v) => Served(id, v)'
  <2>1. UNCHANGED <<pc, req, chan, nextID, wait, seen, applied>>
    BY <1>1
  <2> QED BY <2>1, HelperKeeps, Zenon
<1>3. stage' \in {"open", "closing", "closed"} /\ proc' \in {"up", "draining", "gone"}
  BY DEF CloseStdin, CloseWait, Exit, Die, Finished, Ind, TypeOK
<1>4. CASE UNCHANGED <<stdin, queue, worker>>
  <2>1. TypeOK'
    BY <1>1, <1>3, <1>4 DEF Ind, TypeOK
  <2>2. FramesInv'
    BY <1>1, <1>2, <1>4 DEF Ind, FramesInv
  <2> QED BY <1>2, <2>1, <2>2 DEF Ind
<1>5. CASE stdin' = <<>> /\ queue' = <<>> /\ worker' = [w \in Workers |-> Ended]
  <2>1. NoReq \in Frames
    BY RustPipeAssumption DEF NoReq, Frames
  <2>2. /\ worker' \in [Workers -> [st : {"idle", "busy", "reply", "ended", "panicked"}, frame : Frames]]
        /\ stdin' \in Seq(Frames) /\ queue' \in Seq(Frames)
    BY <1>5, <2>1 DEF Ended
  <2>3. TypeOK'
    BY <1>1, <1>3, <2>2 DEF Ind, TypeOK
  <2>4. FramesInv'
    BY <1>1, <1>2, <1>5 DEF Ind, FramesInv, Ended
  <2> QED BY <1>2, <2>3, <2>4 DEF Ind
<1> QED BY <1>4, <1>5 DEF CloseStdin, CloseWait, Exit, Die, Finished
\* A frame goes from stdin to the queue.
LEMMA ReadKeeps ==
  ASSUME Ind, ReadRequest
  PROVE  Ind'
<1> USE DEF adapter, helper
<1>1. UNCHANGED <<pc, req, chan, nextID, wait, seen, applied>>
      /\ UNCHANGED <<readErr, stage, stdout, worker, db>>
  BY DEF ReadRequest
<1>2. /\ ChannelsInv'
      /\ \A f : Sent(f) => Sent(f)'
      /\ \A id, v : Served(id, v) => Served(id, v)'
  BY <1>1, HelperKeeps, Zenon
<1>3. /\ stdin \in Seq(Frames) /\ queue \in Seq(Frames)
      /\ \A i \in DOMAIN stdin : Sent(stdin[i])
      /\ \A i \in DOMAIN queue : Sent(queue[i])
  BY DEF Ind, TypeOK, FramesInv
<1>4. /\ stdin' \in Seq(Frames) /\ queue' \in Seq(Frames)
      /\ \A i \in DOMAIN stdin' : Sent(stdin'[i])
      /\ \A i \in DOMAIN queue' : Sent(queue'[i])
  <2>1. CASE stdin # <<>> /\ queue' = Append(queue, Head(stdin)) /\ stdin' = Tail(stdin)
    <3>1. Head(stdin) \in Frames /\ Sent(Head(stdin))
      BY <1>3, <2>1
    <3>2. queue' \in Seq(Frames) /\ \A i \in DOMAIN queue' : Sent(queue'[i])
      BY <1>3, <2>1, <3>1
    <3>3. stdin' \in Seq(Frames) /\ \A i \in DOMAIN stdin' : i + 1 \in DOMAIN stdin /\ stdin'[i] = stdin[i + 1]
      BY <1>3, <2>1
    <3> QED BY <1>3, <3>2, <3>3
  <2>2. CASE UNCHANGED <<queue, stdin>>
    BY <1>3, <2>2
  <2> QED BY <2>1, <2>2 DEF ReadRequest
<1>5. TypeOK'
  <2>1. proc' \in {"up", "draining", "gone"}
    BY DEF ReadRequest, Ind, TypeOK
  <2> QED BY <1>1, <1>4, <2>1, Zenon DEF Ind, TypeOK
<1>6. FramesInv'
  BY <1>1, <1>2, <1>4, Zenon DEF Ind, FramesInv
<1> QED BY <1>2, <1>5, <1>6 DEF Ind

\* The workers and what they are at.
Threads == [st : {"idle", "busy", "reply", "ended", "panicked"}, frame : Frames]

\* A worker that becomes idle, ends, panics or takes the first of the queue.
LEMMA TakeKeeps ==
  ASSUME Ind, NEW w \in Workers, Take(w) \/ Panic(w)
  PROVE  Ind'
<1> USE DEF adapter, helper
<1>1. UNCHANGED <<pc, req, chan, nextID, wait, seen, applied>>
      /\ UNCHANGED <<readErr, stage, stdin, stdout, proc, db>>
  BY DEF Take, Panic
<1>2. /\ ChannelsInv'
      /\ \A f : Sent(f) => Sent(f)'
      /\ \A id, v : Served(id, v) => Served(id, v)'
  BY <1>1, HelperKeeps, Zenon
<1>3. /\ queue \in Seq(Frames) /\ \A i \in DOMAIN queue : Sent(queue[i])
      /\ worker \in [Workers -> Threads]
  BY Zenon DEF Ind, TypeOK, FramesInv, Threads
<1>4. NoReq \in Frames
  BY RustPipeAssumption DEF NoReq, Frames
<1>5. \E t \in Threads :
        /\ worker' = [worker EXCEPT ![w] = t]
        /\ t.st \in {"busy", "ended", "panicked"} /\ (t.st = "busy" => Sent(t.frame))
        /\ queue' \in Seq(Frames) /\ \A i \in DOMAIN queue' : Sent(queue'[i])
  <2>1. CASE /\ queue # <<>> /\ worker' = [worker EXCEPT ![w] = [st |-> "busy", frame |-> Head(queue)]]
             /\ queue' = Tail(queue)
    <3>1. Head(queue) \in Frames /\ Sent(Head(queue))
      BY <1>3, <2>1
    <3>2. queue' \in Seq(Frames) /\ \A i \in DOMAIN queue' : i + 1 \in DOMAIN queue /\ queue'[i] = queue[i + 1]
      BY <1>3, <2>1
    <3>3. \A i \in DOMAIN queue' : Sent(queue'[i])
      BY <1>3, <3>2
    <3>4. [st |-> "busy", frame |-> Head(queue)] \in Threads
      BY <3>1, Zenon DEF Threads
    <3> QED BY <2>1, <3>1, <3>2, <3>3, <3>4, Zenon
  <2>2. CASE worker' = [worker EXCEPT ![w] = Ended] /\ UNCHANGED queue
    <3>1. Ended \in Threads /\ Ended.st = "ended"
      BY <1>4 DEF Ended, Threads
    <3> QED BY <1>3, <2>2, <3>1, Zenon
  <2>3. CASE worker' = [worker EXCEPT ![w] = Panicked] /\ UNCHANGED queue
    <3>1. Panicked \in Threads /\ Panicked.st = "panicked"
      BY <1>4 DEF Panicked, Threads
    <3> QED BY <1>3, <2>3, <3>1, Zenon
  <2> QED BY <2>1, <2>2, <2>3, Zenon DEF Take, Panic
<1>6. PICK t \in Threads :
        /\ worker' = [worker EXCEPT ![w] = t]
        /\ t.st \in {"busy", "ended", "panicked"} /\ (t.st = "busy" => Sent(t.frame))
        /\ queue' \in Seq(Frames) /\ \A i \in DOMAIN queue' : Sent(queue'[i])
  BY <1>5, Zenon
<1>7. worker' \in [Workers -> Threads] /\ worker'[w] = t
      /\ \A x \in Workers : x # w => worker'[x] = worker[x]
  BY <1>3, <1>6
<1>8. TypeOK'
  BY <1>1, <1>6, <1>7, Zenon DEF Ind, TypeOK, Threads
<1>9. FramesInv'
  BY <1>1, <1>2, <1>6, <1>7 DEF Ind, FramesInv
<1> QED BY <1>2, <1>8, <1>9 DEF Ind
\* The store does what the request says: the answer is to that request, and for
\* a Get a value its key has at that moment.
LEMMA HandleKeeps ==
  ASSUME Ind, NEW w \in Workers, Handle(w)
  PROVE  Ind'
<1> USE DEF adapter, helper
<1>1. PICK f : f = worker[w].frame
  OBVIOUS
<1>2. PICK now : now = IF f.op = "get" THEN db[f.key] ELSE f.val
  OBVIOUS
<1>3. /\ worker[w].st = "busy"
      /\ db' = [db EXCEPT ![f.key] = now]
      /\ worker' = [worker EXCEPT ![w] = [st |-> "reply", frame |-> [f EXCEPT !.val = now]]]
      /\ applied' = applied \cup {f.id}
      /\ seen' = [c \in Clients |-> IF req[c].key = f.key THEN seen[c] \cup {now} ELSE seen[c]]
      /\ UNCHANGED <<pc, req, chan, adapter, stdin, stdout, proc, queue>>
  BY <1>1, <1>2 DEF Handle
<1>4. Sent(f) /\ f \in Frames
  BY <1>1, <1>3 DEF Ind, FramesInv, TypeOK
<1>5. /\ f.id \in 1..(nextID - 1) /\ f.op \in {"get", "put"} /\ f.key \in Keys
      /\ \A c \in Clients : req[c].id = f.id => f = req[c]
      /\ nextID \in 1..(MaxCalls + 1) /\ MaxCalls \in Nat
  BY <1>4, RustPipeAssumption DEF Sent, Ind, TypeOK
<1>6. now \in Values \cup {Absent}
  <2>1. f.val \in Values \cup {Absent}
    BY <1>4 DEF Frames
  <2>2. db[f.key] \in Values \cup {Absent}
    BY <1>5 DEF Ind, TypeOK
  <2> QED BY <1>2, <2>1, <2>2, Zenon
<1>7. /\ \A g : Sent(g) => Sent(g)'
      /\ \A id, v : Served(id, v) => Served(id, v)'
  <2>1. \A c \in Clients : req'[c] = req[c] /\ seen[c] \subseteq seen'[c]
    BY <1>3
  <2>2. nextID \in Nat /\ nextID' = nextID /\ applied \subseteq applied'
    BY <1>3, <1>5
  <2> QED BY <2>1, <2>2, OnTheWay
<1>8. Served(f.id, now)'
  <2>1. f.id \in 1..(nextID' - 1) /\ f.id \in applied'
    BY <1>3, <1>5
  <2>2. ASSUME NEW c \in Clients, req'[c].id = f.id
        PROVE  IF req'[c].op = "get" THEN now \in seen'[c] ELSE now = req'[c].val
    <3>1. f = req[c] /\ req'[c] = req[c]
      BY <1>3, <1>5, <2>2
    <3> QED BY <1>2, <1>3, <3>1
  <2> QED BY <2>1, <2>2 DEF Served
<1>9. PICK g : g = [f EXCEPT !.val = now]
  BY Zenon
<1>10. g \in Frames /\ g.id = f.id /\ g.val = now
  BY <1>4, <1>6, <1>9 DEF Frames
<1>11. /\ worker' \in [Workers -> Threads] /\ worker'[w] = [st |-> "reply", frame |-> g]
       /\ \A x \in Workers : x # w => worker'[x] = worker[x]
  <2>1. worker \in [Workers -> Threads]
    BY DEF Ind, TypeOK, Threads
  <2>2. [st |-> "reply", frame |-> g] \in Threads
    BY <1>10 DEF Threads
  <2> QED BY <1>3, <1>9, <2>1, <2>2
<1>12. TypeOK'
  <2>1. db' \in [Keys -> Values \cup {Absent}]
    BY <1>3, <1>5, <1>6 DEF Ind, TypeOK
  <2>2. seen' \in [Clients -> SUBSET (Values \cup {Absent})]
    BY <1>3, <1>6 DEF Ind, TypeOK
  <2>3. applied' \in SUBSET (1..MaxCalls)
    <3>1. f.id \in 1..MaxCalls
      BY <1>5
    <3> QED BY <1>3, <3>1 DEF Ind, TypeOK
  <2> QED BY <1>3, <1>11, <2>1, <2>2, <2>3 DEF Ind, TypeOK, Threads
<1>13. FramesInv'
  <2>1. \A x \in Workers : x # w =>
          /\ (worker[x].st = "busy" => Sent(worker[x].frame))'
          /\ (worker[x].st = "reply" => Served(worker[x].frame.id, worker[x].frame.val))'
    BY <1>7, <1>11, Zenon DEF Ind, FramesInv
  <2>2. /\ (worker[w].st = "busy" => Sent(worker[w].frame))'
        /\ (worker[w].st = "reply" => Served(worker[w].frame.id, worker[w].frame.val))'
    BY <1>8, <1>10, <1>11
  <2> QED BY <1>3, <1>7, <2>1, <2>2 DEF Ind, FramesInv
<1>14. ChannelsInv'
  BY <1>3, <1>7 DEF Ind, ChannelsInv, NoAnswer, Closed
<1> QED BY <1>12, <1>13, <1>14 DEF Ind
\* The answer goes from the worker to stdout.
LEMMA WriteKeeps ==
  ASSUME Ind, NEW w \in Workers, write_response(w)
  PROVE  Ind'
<1> USE DEF adapter, helper
<1>1. UNCHANGED <<pc, req, chan, nextID, wait, seen, applied>>
      /\ UNCHANGED <<readErr, stage, stdin, proc, queue, db>>
  BY DEF write_response
<1>2. /\ ChannelsInv'
      /\ \A f : Sent(f) => Sent(f)'
      /\ \A id, v : Served(id, v) => Served(id, v)'
  BY <1>1, HelperKeeps, Zenon
<1>3. PICK f : f = worker[w].frame
  OBVIOUS
<1>4. /\ worker[w].st = "reply" /\ stdout' = Append(stdout, Answer(f.id, f.val))
      /\ worker' = [worker EXCEPT ![w] = Idle]
  BY <1>3 DEF write_response
<1>5. Served(f.id, f.val) /\ f \in Frames
  BY <1>3, <1>4, Zenon DEF Ind, FramesInv, TypeOK
<1>6. PICK a : a = Answer(f.id, f.val)
  OBVIOUS
<1>7. a \in Answers /\ a.st = "ok" /\ a.id = f.id /\ a.val = f.val
  BY <1>5, <1>6 DEF Answer, Answers, Frames
<1>8. /\ stdout' \in Seq(Answers)
      /\ \A i \in DOMAIN stdout' : stdout'[i].st = "ok" /\ Served(stdout'[i].id, stdout'[i].val)
  <2>1. /\ stdout \in Seq(Answers)
        /\ \A i \in DOMAIN stdout : stdout[i].st = "ok" /\ Served(stdout[i].id, stdout[i].val)
    BY Zenon DEF Ind, TypeOK, FramesInv
  <2>2. /\ stdout' \in Seq(Answers)
        /\ \A i \in DOMAIN stdout' : stdout'[i] = a \/ (i \in DOMAIN stdout /\ stdout'[i] = stdout[i])
    BY <1>4, <1>6, <1>7, <2>1
  <2> QED BY <1>5, <1>7, <2>1, <2>2, Zenon
<1>9. /\ worker' \in [Workers -> Threads] /\ worker'[w] = Idle /\ Idle.st = "idle"
      /\ \A x \in Workers : x # w => worker'[x] = worker[x]
  <2>1. worker \in [Workers -> Threads]
    BY DEF Ind, TypeOK, Threads
  <2>2. Idle \in Threads /\ Idle.st = "idle"
    BY RustPipeAssumption DEF Idle, Threads, NoReq, Frames
  <2> QED BY <1>4, <2>1, <2>2
<1>10. TypeOK'
  BY <1>1, <1>8, <1>9, Zenon DEF Ind, TypeOK, Threads
<1>11. FramesInv'
  BY <1>1, <1>2, <1>8, <1>9, Zenon DEF Ind, FramesInv
<1> QED BY <1>2, <1>10, <1>11 DEF Ind

\* Every step of the clients, of the reader and of the helper.
LEMMA PipeStep == Ind /\ [Next]_vars => Ind'
<1> SUFFICES ASSUME Ind, [Next]_vars PROVE Ind'
  OBVIOUS
<1>1. ASSUME NEW c \in Clients, Client(c) PROVE Ind'
  BY <1>1, CallKeeps, SendKeeps, ReceiveKeeps, ReturnKeeps DEF Client
<1>2. ASSUME NEW w \in Workers, Worker(w) PROVE Ind'
  BY <1>2, TakeKeeps, HandleKeeps, WriteKeeps DEF Worker
<1> QED BY <1>1, <1>2, DeliverKeeps, FailKeeps, EndsKeep, ReadKeeps DEF Next

\* The answer that a call of redb, sled or fjall returns is the one to its own
\* request, in whatever order the workers of the helper answer, while calls
\* fail, return and begin and whenever the helper dies; a Get returns a value
\* its key had during the call.
THEOREM AnswersAlways == Spec => []AnswersInv
<1>1. Ind => AnswersInv
  <2> SUFFICES ASSUME Ind PROVE AnswerIsOwn
    BY DEF Ind, AnswersInv
  <2> SUFFICES ASSUME NEW c \in Clients, pc[c] = "answered"
               PROVE  /\ chan[c].id = req[c].id
                      /\ req[c].id \in applied
                      /\ IF req[c].op = "get" THEN chan[c].val \in seen[c] ELSE chan[c].val = req[c].val
    BY DEF AnswerIsOwn
  <2>1. chan[c].id = req[c].id /\ Served(chan[c].id, chan[c].val)
    BY DEF Ind, ChannelsInv, NoAnswer, Closed
  <2> QED BY <2>1, Zenon DEF Served
<1> QED BY <1>1, PipeBegins, PipeStep, PTL DEF Spec

-----------------------------------------------------------------------------
(***************************************************************************)
(* No call is forgotten and none is answered twice.                        *)
(***************************************************************************)
\* What a pipe or the queue holds after a frame is added, and after one is taken.
LEMMA AddedIds ==
  ASSUME NEW S, NEW s \in Seq(S), NEW f \in S
  PROVE  /\ IdsIn(Append(s, f)) = IdsIn(s) \cup {f.id}
         /\ NoRepeat(s) /\ f.id \notin IdsIn(s) => NoRepeat(Append(s, f))
<1>1. PICK t : t = Append(s, f)
  BY Zenon
<1>2. PICK n \in Nat : n = Len(s)
  OBVIOUS
<1>3. /\ DOMAIN s = 1..n /\ DOMAIN t = 1..(n + 1) /\ t[n + 1] = f
      /\ \A i \in 1..n : t[i] = s[i]
  BY <1>1, <1>2
<1>4. \A i \in 1..(n + 1) : i \in 1..n \/ i = n + 1
  BY <1>2
<1>5. \A i \in 1..n : i \in 1..(n + 1) /\ i # n + 1
  BY <1>2
<1>6. n + 1 \in 1..(n + 1)
  BY <1>2
<1>7. IdsIn(t) = IdsIn(s) \cup {f.id}
  BY <1>3, <1>4, <1>5, <1>6, Zenon DEF IdsIn
<1>8. ASSUME NoRepeat(s), f.id \notin IdsIn(s)
      PROVE  NoRepeat(t)
  BY <1>3, <1>4, <1>8 DEF IdsIn, NoRepeat
<1> QED BY <1>1, <1>7, <1>8

\* And after the first is taken.
LEMMA TakenIds ==
  ASSUME NEW S, NEW s \in Seq(S), s # <<>>, NoRepeat(s)
  PROVE  /\ Head(s).id \in IdsIn(s)
         /\ IdsIn(Tail(s)) = IdsIn(s) \ {Head(s).id}
         /\ NoRepeat(Tail(s))
<1>1. PICK t, h : t = Tail(s) /\ h = Head(s)
  BY Zenon
<1>2. PICK n \in Nat : n = Len(t)
  BY <1>1
<1>3. /\ DOMAIN t = 1..n /\ DOMAIN s = 1..(n + 1) /\ h = s[1]
      /\ \A i \in 1..n : t[i] = s[i + 1]
  BY <1>1, <1>2
<1>4. \A i \in 1..(n + 1) : i = 1 \/ \E j \in 1..n : i = j + 1
  BY <1>2
<1>5. \A i \in 1..n : i + 1 \in 1..(n + 1) /\ i + 1 # 1
  BY <1>2
<1>6. 1 \in 1..(n + 1) /\ \A i, j \in 1..n : i + 1 = j + 1 => i = j
  BY <1>2
<1>7. h.id \in IdsIn(s)
  BY <1>3, <1>6 DEF IdsIn
<1>11. \A i, j \in 1..(n + 1) : s[i].id = s[j].id => i = j
  BY <1>3, Zenon DEF NoRepeat
<1>8. NoRepeat(t)
  <2> SUFFICES ASSUME NEW i \in 1..n, NEW j \in 1..n, t[i].id = t[j].id
               PROVE  i = j
    BY <1>3, Zenon DEF NoRepeat
  <2>1. s[i + 1].id = s[j + 1].id
    BY <1>3
  <2>2. i + 1 = j + 1
    BY <1>5, <1>11, <2>1, Zenon
  <2> QED BY <1>6, <2>2
<1>9. \A x \in IdsIn(t) : x \in IdsIn(s) /\ x # h.id
  <2> SUFFICES ASSUME NEW i \in 1..n
               PROVE  t[i].id \in IdsIn(s) /\ t[i].id # h.id
    BY <1>3 DEF IdsIn
  <2>1. s[i + 1].id # s[1].id
    BY <1>5, <1>6, <1>11, Zenon
  <2>2. t[i].id \in IdsIn(s)
    BY <1>3, <1>5, Zenon DEF IdsIn
  <2> QED BY <1>3, <2>1, <2>2
<1>10. \A x \in IdsIn(s) : x # h.id => x \in IdsIn(t)
  <2> SUFFICES ASSUME NEW i \in 1..(n + 1), s[i].id # h.id
               PROVE  s[i].id \in IdsIn(t)
    BY <1>3, Zenon DEF IdsIn
  <2>1. PICK j \in 1..n : i = j + 1
    BY <1>3, <1>4
  <2>2. s[i].id = t[j].id
    BY <1>3, <2>1
  <2> QED BY <1>3, <2>2, Zenon DEF IdsIn
<1> QED BY <1>1, <1>7, <1>8, <1>9, <1>10

\* The workers after one of them goes on to t: it takes a request, goes on with the
\* one it has, or is done with it.
LEMMA WorkersIds ==
  ASSUME worker \in [Workers -> Threads], NEW w \in Workers, NEW t \in Threads,
         worker' = [worker EXCEPT ![w] = t], OnePlace
  PROVE  LET Unique == \A v, x \in Working : worker[v].frame.id = worker[x].frame.id => v = x
             busy == t.st \in {"busy", "reply"}
         IN  /\ w \notin Working /\ ~busy => AtWork' = AtWork /\ Unique'
             /\ w \notin Working /\ busy /\ t.frame.id \notin AtWork =>
                  AtWork' = AtWork \cup {t.frame.id} /\ Unique'
             /\ w \in Working /\ busy /\ t.frame.id = worker[w].frame.id => AtWork' = AtWork /\ Unique'
             /\ w \in Working /\ ~busy => AtWork' = AtWork \ {worker[w].frame.id} /\ Unique'
<1>1. worker'[w] = t /\ \A x \in Workers : x # w => worker'[x] = worker[x]
  OBVIOUS
<1>2. \A v, x \in Working : worker[v].frame.id = worker[x].frame.id => v = x
  BY DEF OnePlace
<1>3. /\ \A x \in Workers : x # w => (x \in Working' <=> x \in Working)
      /\ w \in Working' <=> t.st \in {"busy", "reply"}
      /\ Working \subseteq Workers /\ Working' \subseteq Workers
  BY <1>1 DEF Working
<1>4. CASE w \notin Working /\ t.st \notin {"busy", "reply"}
  <2>1. Working' = Working
    BY <1>3, <1>4
  <2> QED BY <1>1, <1>2, <1>4, <2>1 DEF AtWork
<1>5. CASE w \notin Working /\ t.st \in {"busy", "reply"} /\ t.frame.id \notin AtWork
  <2>1. Working' = Working \cup {w}
    BY <1>3, <1>5
  <2>2. AtWork' = AtWork \cup {t.frame.id}
    BY <1>1, <1>3, <1>5, <2>1 DEF AtWork
  <2>3. \A v, x \in Working' : worker'[v].frame.id = worker'[x].frame.id => v = x
    BY <1>1, <1>2, <1>3, <1>5, <2>1 DEF AtWork
  <2> QED BY <1>5, <2>2, <2>3
<1>6. CASE w \in Working /\ t.st \in {"busy", "reply"}
  <2>1. Working' = Working
    BY <1>3, <1>6
  <2>2. ASSUME t.frame.id = worker[w].frame.id
        PROVE  \A x \in Workers : worker'[x].frame.id = worker[x].frame.id
    BY <1>1, <2>2
  <2>3. ASSUME t.frame.id = worker[w].frame.id
        PROVE  AtWork' = AtWork /\ \A v, x \in Working' : worker'[v].frame.id = worker'[x].frame.id => v = x
    BY <1>2, <1>3, <2>1, <2>2, <2>3 DEF AtWork
  <2> QED BY <1>6, <2>3
<1>7. CASE w \in Working /\ t.st \notin {"busy", "reply"}
  <2>1. Working' = Working \ {w}
    BY <1>3, <1>7
  <2>2. AtWork' = AtWork \ {worker[w].frame.id}
    BY <1>1, <1>2, <1>3, <1>7, <2>1 DEF AtWork
  <2>3. \A v, x \in Working' : worker'[v].frame.id = worker'[x].frame.id => v = x
    BY <1>1, <1>2, <1>3, <2>1
  <2> QED BY <1>7, <2>2, <2>3
<1> QED BY <1>4, <1>5, <1>6, <1>7, Zenon

\* The helper lives and so do all its workers.
Well == Up /\ \A w \in Workers : worker[w] # Panicked

\* What the adapter has on its books.
Books == OnePlace /\ NotTwice /\ NoLostWaiter /\ NoneRegisteredAfterFailure

\* A step of the helper takes requests on, or loses them when it is no longer well.
LEMMA HelperBooks ==
  ASSUME Books, UNCHANGED <<pc, req, chan, wait, readErr>>, OnePlace', OnWay' \subseteq OnWay,
         Well' => Well /\ OnWay \subseteq OnWay'
  PROVE  Books'
<1>1. NotTwice'
  BY DEF Books, NotTwice
<1>2. NoLostWaiter'
  BY Zenon DEF Books, NoLostWaiter, Well, NoAnswer, Up
<1>3. NoneRegisteredAfterFailure'
  BY DEF Books, NoneRegisteredAfterFailure
<1> QED BY <1>1, <1>2, <1>3 DEF Books

\* The reader loop moves a request from stdin to the queue.
LEMMA ReadBooks ==
  ASSUME Ind, Books, ReadRequest
  PROVE  Books'
<1>1. UNCHANGED <<pc, req, chan, wait, readErr, worker, stdout>>
  BY DEF ReadRequest, adapter
<1>2. UNCHANGED <<AtWork, Working>> /\ (Well' => Well)
  BY <1>1 DEF AtWork, Working, Well, Up, ReadRequest
<1>3. stdin \in Seq(Frames) /\ queue \in Seq(Frames) /\ OnePlace
  BY DEF Ind, TypeOK, Books
<1>4. CASE stdin # <<>> /\ queue' = Append(queue, Head(stdin)) /\ stdin' = Tail(stdin)
  <2>1. PICK h \in Frames : h = Head(stdin)
    BY <1>3, <1>4
  <2>2. h.id \in IdsIn(stdin) /\ IdsIn(stdin') = IdsIn(stdin) \ {h.id} /\ NoRepeat(stdin')
    BY <1>3, <1>4, <2>1, TakenIds DEF OnePlace
  <2>3. h.id \notin IdsIn(queue) /\ NoRepeat(queue)
    BY <1>3, <2>2 DEF OnePlace
  <2>4. IdsIn(queue') = IdsIn(queue) \cup {h.id} /\ NoRepeat(queue')
    BY <1>3, <1>4, <2>1, <2>3, AddedIds
  <2>5. OnePlace'
    BY <1>1, <1>2, <1>3, <2>2, <2>4 DEF OnePlace
  <2>6. OnWay' = OnWay
    BY <1>1, <1>2, <2>2, <2>4 DEF OnWay
  <2> QED BY <1>1, <1>2, <2>5, <2>6, HelperBooks
<1>5. CASE UNCHANGED <<queue, stdin>>
  <2>1. OnePlace' /\ OnWay' = OnWay
    BY <1>1, <1>2, <1>3, <1>5 DEF OnePlace, OnWay
  <2> QED BY <1>1, <1>2, <2>1, HelperBooks
<1> QED BY <1>4, <1>5 DEF ReadRequest

\* A worker takes the first request of the queue, or has nothing more to take.
LEMMA TakeBooks ==
  ASSUME Ind, Books, NEW w \in Workers, Take(w)
  PROVE  Books'
<1>1. UNCHANGED <<pc, req, chan, wait, readErr, stdin, stdout, proc>> /\ worker[w] = Idle
  BY DEF Take, adapter
<1>2. worker \in [Workers -> Threads] /\ queue \in Seq(Frames) /\ OnePlace /\ NoReq \in Frames
  BY RustPipeAssumption DEF Ind, TypeOK, Threads, Books, NoReq, Frames
<1>3. w \notin Working /\ Idle # Panicked
  BY <1>1 DEF Working, Idle, Panicked
<1>4. PICK t \in Threads :
        /\ worker' = [worker EXCEPT ![w] = t] /\ t # Panicked
        /\ \/ queue # <<>> /\ t.st = "busy" /\ t.frame = Head(queue) /\ queue' = Tail(queue)
           \/ t.st = "ended" /\ UNCHANGED queue
  <2>1. CASE /\ queue # <<>> /\ queue' = Tail(queue)
             /\ worker' = [worker EXCEPT ![w] = [st |-> "busy", frame |-> Head(queue)]]
    <3>1. PICK t : t = [st |-> "busy", frame |-> Head(queue)]
      BY Zenon
    <3>2. t \in Threads /\ t.st = "busy" /\ t.frame = Head(queue) /\ t # Panicked
      BY <1>2, <2>1, <3>1 DEF Threads, Panicked
    <3> QED BY <2>1, <3>1, <3>2, Zenon
  <2>2. CASE worker' = [worker EXCEPT ![w] = Ended] /\ UNCHANGED queue
    <3>1. Ended \in Threads /\ Ended.st = "ended" /\ Ended # Panicked
      BY <1>2 DEF Threads, Ended, Panicked
    <3> QED BY <2>2, <3>1, Zenon
  <2> QED BY <2>1, <2>2, Zenon DEF Take
<1>5. Well' => Well
  <2>1. \A x \in Workers : x # w => worker'[x] = worker[x]
    BY <1>2, <1>4
  <2> QED BY <1>1, <1>3, <2>1 DEF Well, Up
<1>6. CASE queue # <<>> /\ t.st = "busy" /\ t.frame = Head(queue) /\ queue' = Tail(queue)
  <2>1. PICK id : id = t.frame.id
    BY Zenon
  <2>2. id \in IdsIn(queue) /\ IdsIn(queue') = IdsIn(queue) \ {id} /\ NoRepeat(queue')
    BY <1>2, <1>6, <2>1, TakenIds, Zenon DEF OnePlace
  <2>3. id \notin AtWork
    BY <1>2, <2>2 DEF OnePlace
  <2>4. /\ AtWork' = AtWork \cup {id}
        /\ (\A v, x \in Working : worker[v].frame.id = worker[x].frame.id => v = x)'
    BY <1>2, <1>3, <1>4, <1>6, <2>1, <2>3, WorkersIds, Zenon
  <2>5. OnePlace'
    BY <1>1, <1>2, <2>2, <2>4 DEF OnePlace
  <2>6. OnWay' = OnWay
    BY <1>1, <2>2, <2>4 DEF OnWay
  <2> QED BY <1>1, <1>5, <2>5, <2>6, HelperBooks
<1>7. CASE t.st = "ended" /\ UNCHANGED queue
  <2>1. /\ AtWork' = AtWork
        /\ (\A v, x \in Working : worker[v].frame.id = worker[x].frame.id => v = x)'
    BY <1>2, <1>3, <1>4, <1>7, WorkersIds, Zenon
  <2>2. OnePlace' /\ OnWay' = OnWay
    BY <1>1, <1>2, <1>7, <2>1, Zenon DEF OnePlace, OnWay
  <2> QED BY <1>1, <1>5, <2>2, HelperBooks
<1> QED BY <1>4, <1>6, <1>7

\* A worker goes on with its request, gives it up, or answers it.
LEMMA HandleBooks ==
  ASSUME Ind, Books, NEW w \in Workers, Handle(w)
  PROVE  Books'
<1>1. UNCHANGED <<pc, req, chan, wait, readErr, stdin, stdout, queue, proc>> /\ worker[w].st = "busy"
  BY DEF Handle, adapter
<1>2. worker \in [Workers -> Threads] /\ OnePlace
  BY DEF Ind, TypeOK, Threads, Books
<1>3. PICK t \in Threads :
        /\ worker' = [worker EXCEPT ![w] = t] /\ t.st = "reply" /\ t.frame.id = worker[w].frame.id
  <2>1. PICK f : f = worker[w].frame
    BY Zenon
  <2>2. f \in Frames /\ f.id \in 0..MaxCalls /\ Sent(f)
    BY <1>1, <1>2, <2>1, Zenon DEF Threads, Frames, Ind, FramesInv
  <2>3. PICK now : now = IF f.op = "get" THEN db[f.key] ELSE f.val
    BY Zenon
  <2>4. now \in Values \cup {Absent}
    <3>1. f.key \in Keys /\ f.val \in Values \cup {Absent}
      BY <2>2 DEF Sent, Frames
    <3>2. db[f.key] \in Values \cup {Absent}
      BY <3>1 DEF Ind, TypeOK
    <3> QED BY <2>3, <3>1, <3>2
  <2>5. PICK t : t = [st |-> "reply", frame |-> [f EXCEPT !.val = now]]
    BY Zenon
  <2>6. t \in Threads /\ t.st = "reply" /\ t.frame.id = f.id
    BY <2>2, <2>4, <2>5 DEF Threads, Frames
  <2>7. worker' = [worker EXCEPT ![w] = t]
    BY <2>1, <2>3, <2>5, Zenon DEF Handle
  <2> QED BY <2>1, <2>6, <2>7, Zenon
<1>4. w \in Working
  BY <1>1, Zenon DEF Working
<1>5. /\ AtWork' = AtWork
      /\ (\A v, x \in Working : worker[v].frame.id = worker[x].frame.id => v = x)'
  BY <1>2, <1>3, <1>4, WorkersIds, Zenon
<1>6. OnePlace' /\ OnWay' = OnWay
  BY <1>1, <1>2, <1>5, Zenon DEF OnePlace, OnWay
<1>7. Well' => Well
  <2>1. worker[w] # Panicked /\ \A x \in Workers : x # w => worker'[x] = worker[x]
    BY <1>1, <1>2, <1>3 DEF Panicked
  <2> QED BY <1>1, <2>1 DEF Well, Up
<1> QED BY <1>1, <1>6, <1>7, HelperBooks, Zenon

\* The request of a worker that panics is lost, and the helper is not well.
LEMMA PanicBooks ==
  ASSUME Ind, Books, NEW w \in Workers, Panic(w)
  PROVE  Books'
<1>1. UNCHANGED <<pc, req, chan, wait, readErr, stdin, stdout, queue, proc>> /\ worker[w].st = "busy"
      /\ worker' = [worker EXCEPT ![w] = Panicked]
  BY DEF Panic, adapter
<1>2. worker \in [Workers -> Threads] /\ OnePlace /\ Panicked \in Threads /\ Panicked.st = "panicked"
  BY RustPipeAssumption DEF Ind, TypeOK, Threads, Books, Panicked, NoReq, Frames
<1>3. w \in Working
  BY <1>1 DEF Working
<1>4. /\ AtWork' = AtWork \ {worker[w].frame.id}
      /\ (\A v, x \in Working : worker[v].frame.id = worker[x].frame.id => v = x)'
  BY <1>1, <1>2, <1>3, WorkersIds, Zenon
<1>5. OnePlace' /\ OnWay' \subseteq OnWay
  BY <1>1, <1>2, <1>4, Zenon DEF OnePlace, OnWay
<1>6. ~Well'
  BY <1>1, <1>2 DEF Well
<1> QED BY <1>1, <1>5, <1>6, HelperBooks

\* The answer goes from the worker into stdout.
LEMMA WriteBooks ==
  ASSUME Ind, Books, NEW w \in Workers, write_response(w)
  PROVE  Books'
<1>1. UNCHANGED <<pc, req, chan, wait, readErr, stdin, queue, proc>> /\ worker[w].st = "reply"
      /\ worker' = [worker EXCEPT ![w] = Idle]
  BY DEF write_response, adapter
<1>2. worker \in [Workers -> Threads] /\ OnePlace /\ Idle \in Threads /\ Idle.st = "idle"
      /\ stdout \in Seq(Answers) /\ Idle # Panicked
  BY RustPipeAssumption DEF Ind, TypeOK, Threads, Books, Idle, Panicked, NoReq, Frames
<1>3. w \in Working
  BY <1>1 DEF Working
<1>4. PICK id : id = worker[w].frame.id
  BY Zenon
<1>5. /\ AtWork' = AtWork \ {id}
      /\ (\A v, x \in Working : worker[v].frame.id = worker[x].frame.id => v = x)'
  BY <1>1, <1>2, <1>3, <1>4, WorkersIds, Zenon
<1>6. id \in AtWork /\ id \notin IdsIn(stdout) /\ NoRepeat(stdout)
  <2>1. id \in AtWork
    BY <1>3, <1>4, Zenon DEF AtWork
  <2> QED BY <1>2, <2>1 DEF OnePlace
<1>7. PICK a \in Answers : a.id = id /\ stdout' = Append(stdout, a)
  <2>1. PICK f : f = worker[w].frame
    BY Zenon
  <2>2. f \in Frames
    BY <1>2, <2>1 DEF Threads
  <2>3. Answer(f.id, f.val) \in Answers /\ Answer(f.id, f.val).id = f.id
    BY <2>2 DEF Answer, Answers, Frames
  <2>4. stdout' = Append(stdout, Answer(f.id, f.val))
    BY <2>1, Zenon DEF write_response
  <2> QED BY <1>4, <2>1, <2>3, <2>4, Zenon
<1>8. IdsIn(stdout') = IdsIn(stdout) \cup {id} /\ NoRepeat(stdout')
  BY <1>2, <1>6, <1>7, AddedIds
<1>9. OnePlace'
  BY <1>1, <1>2, <1>5, <1>6, <1>8 DEF OnePlace
<1>10. OnWay' = OnWay
  BY <1>1, <1>5, <1>6, <1>8 DEF OnWay
<1>11. Well' => Well
  <2>1. worker[w] # Panicked /\ \A x \in Workers : x # w => worker'[x] = worker[x]
    BY <1>1, <1>2 DEF Panicked
  <2> QED BY <1>1, <2>1 DEF Well, Up
<1> QED BY <1>1, <1>9, <1>10, <1>11, HelperBooks

\* Close, the end of the helper and its death: what is lost is lost with it.
LEMMA EndsBooks ==
  ASSUME Ind, Books, CloseStdin \/ CloseWait \/ Exit \/ Die \/ Finished \/ UNCHANGED vars
  PROVE  Books'
<1>1. UNCHANGED <<pc, req, chan, wait, readErr, stdout>>
  BY Zenon DEF CloseStdin, CloseWait, Exit, Die, Finished, vars, adapter
<1>2. CASE UNCHANGED <<stdin, queue, worker>>
  <2>1. UNCHANGED <<AtWork, Working>>
    BY <1>2 DEF AtWork, Working
  <2>2. OnePlace' /\ OnWay' = OnWay
    BY <1>1, <1>2, <2>1 DEF OnePlace, OnWay, Books
  <2>3. Up' => Up
    BY Zenon DEF CloseStdin, CloseWait, Exit, Die, Finished, vars, helper, Up
  <2>4. Well' => Well
    BY <1>2, <2>3 DEF Well
  <2> QED BY <1>1, <2>2, <2>4, HelperBooks
<1>3. CASE Die
  <2>1. stdin' = <<>> /\ queue' = <<>> /\ worker' = [w \in Workers |-> Ended] /\ proc' = "gone"
    BY <1>3 DEF Die
  <2>2. Working' = {} /\ AtWork' = {}
    BY <2>1, Zenon DEF Working, AtWork, Ended
  <2>3. IdsIn(stdin') = {} /\ IdsIn(queue') = {} /\ NoRepeat(stdin') /\ NoRepeat(queue')
    BY <2>1 DEF IdsIn, NoRepeat
  <2>4. OnePlace'
    BY <1>1, <2>2, <2>3 DEF OnePlace, Books
  <2>5. OnWay' \subseteq OnWay /\ ~Well'
    BY <1>1, <2>1, <2>2, <2>3 DEF OnWay, Well, Up
  <2> QED BY <1>1, <2>4, <2>5, HelperBooks
<1> QED BY <1>2, <1>3, Zenon DEF CloseStdin, CloseWait, Exit, Finished, vars, helper

\* The ids on their way have been given out: a new call's is not among them.
LEMMA WayIds ==
  ASSUME Ind
  PROVE  OnWay \subseteq 1..(nextID - 1)
<1>1. IdsIn(stdin) \subseteq 1..(nextID - 1) /\ IdsIn(queue) \subseteq 1..(nextID - 1)
  BY Zenon DEF Ind, FramesInv, Sent, IdsIn
<1>2. IdsIn(stdout) \subseteq 1..(nextID - 1)
  BY Zenon DEF Ind, FramesInv, Served, IdsIn
<1>3. AtWork \subseteq 1..(nextID - 1)
  BY Zenon DEF Ind, FramesInv, Sent, Served, AtWork, Working
<1> QED BY <1>1, <1>2, <1>3, Zenon DEF OnWay

\* A step of the adapter that leaves the helper and the pipes alone.
LEMMA SameWay ==
  ASSUME OnePlace, UNCHANGED <<stdin, stdout, queue, worker>>
  PROVE  OnePlace' /\ OnWay' = OnWay
<1>1. UNCHANGED <<AtWork, Working>>
  BY DEF AtWork, Working
<1> QED BY <1>1 DEF OnePlace, OnWay

\* A call takes an id that nothing bears, and registers it while readErr is unset.
LEMMA CallBooks ==
  ASSUME Ind, Books, NEW c \in Clients, NEW r \in Requests, Call(c, r)
  PROVE  Books'
<1>1. OnePlace' /\ OnWay' = OnWay
  BY SameWay, Zenon DEF Call, helper, Books
<1>2. UNCHANGED <<readErr, proc, worker>> /\ chan' = [chan EXCEPT ![c] = NoAnswer]
  BY Zenon DEF Call, helper
<1>3. chan \in [Clients -> Answers] /\ pc \in [Clients -> {"idle", "send", "wait", "answered", "failed"}]
      /\ req \in [Clients -> Frames] /\ nextID \in Nat
  BY DEF Ind, TypeOK
<1>4. chan'[c].st = "empty" /\ \A d \in Clients : d # c => chan'[d] = chan[d]
  BY <1>2, <1>3, Zenon DEF NoAnswer
<1>5. CASE readErr
  <2>1. pc' = [pc EXCEPT ![c] = "failed"] /\ UNCHANGED <<req, wait>>
    BY <1>5, Zenon DEF Call
  <2>2. pc'[c] = "failed" /\ \A d \in Clients : d # c => pc'[d] = pc[d]
    BY <1>3, <2>1
  <2>3. NotTwice'
    BY <1>1, <1>4, <2>1, <2>2, Zenon DEF Books, NotTwice
  <2>4. NoLostWaiter'
    <3>1. \A d \in Clients : pc'[d] \in {"send", "wait"} /\ chan'[d] = NoAnswer =>
            pc[d] = pc'[d] /\ chan[d] = NoAnswer
      BY <1>4, <2>2, Zenon
    <3>2. \A d \in Clients : pc[d] \in {"send", "wait"} /\ chan[d] = NoAnswer =>
            /\ req[d].id \in wait /\ ~readErr
            /\ pc[d] = "wait" /\ Up /\ (\A w \in Workers : worker[w] # Panicked) =>
                 req[d].id \in OnWay
      BY Zenon DEF Books, NoLostWaiter
    <3> QED BY <1>5, <3>1, <3>2, Zenon DEF NoLostWaiter
  <2> QED BY <1>1, <1>2, <2>1, <2>3, <2>4 DEF Books, NoneRegisteredAfterFailure
<1>6. CASE ~readErr
  <2>1. /\ pc' = [pc EXCEPT ![c] = "send"] /\ wait' = wait \cup {nextID}
        /\ req' = [req EXCEPT ![c] = [id |-> nextID, op |-> r.op, key |-> r.key, val |-> r.val]]
    BY <1>6, Zenon DEF Call
  <2>2. pc'[c] = "send" /\ \A d \in Clients : d # c => pc'[d] = pc[d] /\ req'[d] = req[d]
    BY <1>3, <2>1
  <2>3. req'[c].id = nextID
    BY <1>3, <2>1
  <2>4. nextID \notin OnWay
    BY <1>3, WayIds
  <2>5. NotTwice'
    BY <1>1, <1>4, <2>2, <2>3, <2>4, Zenon DEF Books, NotTwice
  <2>6. NoLostWaiter'
    <3>1. \A d \in Clients : pc[d] \in {"send", "wait"} /\ chan[d] = NoAnswer =>
            /\ req[d].id \in wait /\ ~readErr
            /\ pc[d] = "wait" /\ Up /\ (\A w \in Workers : worker[w] # Panicked) =>
                 req[d].id \in OnWay
      BY Zenon DEF Books, NoLostWaiter
    <3>2. OnWay' = OnWay /\ readErr' = readErr /\ worker' = worker /\ (Up' <=> Up)
      BY <1>1, <1>2 DEF Up
    <3>3. nextID \in wait' /\ \A i \in wait : i \in wait'
      BY <2>1
    <3>4. ASSUME NEW d \in Clients, pc'[d] \in {"send", "wait"}, chan'[d] = NoAnswer
          PROVE  /\ req'[d].id \in wait' /\ ~readErr'
                 /\ pc'[d] = "wait" /\ Up' /\ (\A w \in Workers : worker'[w] # Panicked) =>
                      req'[d].id \in OnWay'
      <4>1. ~readErr'
        BY <1>6, <3>2
      <4>2. CASE d = c
        BY <2>2, <2>3, <3>3, <4>1, <4>2, Zenon
      <4>3. CASE d # c
        BY <1>4, <2>2, <3>1, <3>2, <3>3, <3>4, <4>1, <4>3, Zenon
      <4> QED BY <4>2, <4>3, Zenon
    <3> QED BY <3>4, Zenon DEF NoLostWaiter
  <2> QED BY <1>1, <1>2, <1>6, <2>5, <2>6 DEF Books, NoneRegisteredAfterFailure
<1> QED BY <1>5, <1>6

\* The request of a call that sends it is on its way from then on, for the first time.
LEMMA SendBooks ==
  ASSUME Ind, Books, NEW c \in Clients, Send(c)
  PROVE  Books'
<1>1. UNCHANGED <<req, chan, wait, readErr, stdout, proc, queue, worker>> /\ pc[c] = "send"
  BY DEF Send, adapter, helper
<1>2. pc \in [Clients -> {"idle", "send", "wait", "answered", "failed"}] /\ req \in [Clients -> Frames]
      /\ stdin \in Seq(Frames)
  BY DEF Ind, TypeOK
<1>3. CASE stdin' = Append(stdin, req[c]) /\ pc' = [pc EXCEPT ![c] = "wait"]
  <2>1. PICK id : id = req[c].id
    BY Zenon
  <2>2. id \notin OnWay /\ chan[c].st # "ok"
    BY <1>1, <2>1 DEF Books, NotTwice
  <2>3. id \notin IdsIn(stdin) /\ id \notin IdsIn(queue) /\ id \notin AtWork /\ id \notin IdsIn(stdout)
        /\ OnePlace
    BY <2>2 DEF OnWay, Books
  <2>4. NoRepeat(stdin)
    BY <2>3 DEF OnePlace
  <2>5. IdsIn(stdin') = IdsIn(stdin) \cup {id} /\ NoRepeat(stdin')
    BY <1>2, <1>3, <2>1, <2>3, <2>4, AddedIds
  <2>6. UNCHANGED <<AtWork, Working>>
    BY <1>1, Zenon DEF AtWork, Working
  <2>7. OnePlace'
    BY <1>1, <2>3, <2>5, <2>6 DEF OnePlace
  <2>8. OnWay' = OnWay \cup {id}
    BY <1>1, <2>5, <2>6 DEF OnWay
  <2>9. pc'[c] = "wait" /\ \A d \in Clients : d # c => pc'[d] = pc[d] /\ req[d].id # id
    BY <1>1, <1>2, <1>3, <2>1, Zenon DEF Ind, ChannelsInv
  <2>10. NotTwice'
    BY <1>1, <2>2, <2>8, <2>9, Zenon DEF Books, NotTwice
  <2>11. NoLostWaiter'
    BY <1>1, <2>1, <2>8, <2>9, Zenon DEF Books, NoLostWaiter, Up
  <2> QED BY <1>1, <2>7, <2>10, <2>11 DEF Books, NoneRegisteredAfterFailure
<1>4. CASE UNCHANGED stdin /\ pc' = [pc EXCEPT ![c] = "failed"]
  <2>1. OnePlace' /\ OnWay' = OnWay
    BY <1>1, <1>4, SameWay DEF Books
  <2>2. pc'[c] = "failed" /\ \A d \in Clients : d # c => pc'[d] = pc[d]
    BY <1>2, <1>4
  <2>3. NotTwice'
    BY <1>1, <2>1, <2>2, Zenon DEF Books, NotTwice
  <2>4. NoLostWaiter'
    BY <1>1, <2>1, <2>2, Zenon DEF Books, NoLostWaiter, Up
  <2> QED BY <1>1, <2>1, <2>3, <2>4 DEF Books, NoneRegisteredAfterFailure
<1> QED BY <1>3, <1>4 DEF Send

\* The end of a call: it waits no longer, and its channel goes with it.
LEMMA ReturnBooks ==
  ASSUME Ind, Books, NEW c \in Clients, Receive(c) \/ Return(c)
  PROVE  Books'
<1>1. OnePlace' /\ OnWay' = OnWay /\ UNCHANGED <<wait, readErr, proc, worker>>
  BY SameWay, Zenon DEF Receive, Return, helper, adapter, Books
<1>2. pc \in [Clients -> {"idle", "send", "wait", "answered", "failed"}] /\ req \in [Clients -> Frames]
      /\ chan \in [Clients -> Answers]
  BY DEF Ind, TypeOK
<1>3. /\ pc'[c] \notin {"send", "wait"}
      /\ \A d \in Clients : d # c => pc'[d] = pc[d] /\ req'[d] = req[d] /\ chan'[d] = chan[d]
  BY <1>2 DEF Receive, Return
<1>4. chan'[c].st = "ok" => chan'[c] = chan[c] /\ req'[c] = req[c]
  BY <1>2 DEF Receive, Return, NoAnswer
<1>5. NotTwice'
  BY <1>1, <1>3, <1>4, Zenon DEF Books, NotTwice
<1>6. NoLostWaiter'
  BY <1>1, <1>3, Zenon DEF Books, NoLostWaiter, Up
<1> QED BY <1>1, <1>5, <1>6 DEF Books, NoneRegisteredAfterFailure

\* The reader takes an answer off the way and hands it to the call that waits for
\* it, which is then no longer registered.
LEMMA DeliverBooks ==
  ASSUME Ind, Books, Deliver
  PROVE  Books'
<1>1. PICK r : r = Head(stdout)
  BY Zenon
<1>2. /\ UNCHANGED <<pc, req, readErr, stdin, proc, queue, worker>> /\ stdout # <<>>
      /\ stdout' = Tail(stdout) /\ wait' = wait \ {r.id}
      /\ chan' = [c \in Clients |-> IF r.id \in wait /\ req[c].id = r.id THEN r ELSE chan[c]]
  BY <1>1, Zenon DEF Deliver, helper
<1>3. stdout \in Seq(Answers) /\ OnePlace
  BY DEF Ind, TypeOK, Books
<1>4. r.st = "ok"
  <2>1. r = stdout[1] /\ 1 \in DOMAIN stdout
    BY <1>1, <1>2, <1>3
  <2> QED BY <2>1, Zenon DEF Ind, FramesInv
<1>5. r.id \in IdsIn(stdout) /\ IdsIn(stdout') = IdsIn(stdout) \ {r.id} /\ NoRepeat(stdout')
  BY <1>1, <1>2, <1>3, TakenIds, Zenon DEF OnePlace
<1>6. UNCHANGED <<AtWork, Working>>
  BY <1>2, Zenon DEF AtWork, Working
<1>7. OnePlace'
  <2>1. IdsIn(stdin)' = IdsIn(stdin) /\ IdsIn(queue)' = IdsIn(queue)
        /\ IdsIn(stdout)' \subseteq IdsIn(stdout)
    BY <1>2, <1>5
  <2>2. NoRepeat(stdin)' /\ NoRepeat(queue)' /\ NoRepeat(stdout)'
    <3>1. NoRepeat(stdin) /\ NoRepeat(queue)
      BY <1>3, Zenon DEF OnePlace
    <3> QED BY <1>2, <1>5, <3>1
  <2>3. \A v, w \in Working' : worker'[v].frame.id = worker'[w].frame.id => v = w
    BY <1>2, <1>3, <1>6, Zenon DEF OnePlace
  <2>4. /\ IdsIn(stdin)' \cap (IdsIn(queue)' \cup AtWork' \cup IdsIn(stdout)') = {}
        /\ IdsIn(queue)' \cap (AtWork' \cup IdsIn(stdout)') = {}
        /\ AtWork' \cap IdsIn(stdout)' = {}
    BY <1>3, <1>6, <2>1 DEF OnePlace
  <2> QED BY <2>2, <2>3, <2>4, Zenon DEF OnePlace
<1>8. r.id \in OnWay /\ OnWay' = OnWay \ {r.id}
  BY <1>2, <1>3, <1>5, <1>6 DEF OnePlace, OnWay
<1>9. \A c \in Clients : chan'[c] = IF r.id \in wait /\ req[c].id = r.id THEN r ELSE chan[c]
  BY <1>2
<1>10. NotTwice'
  BY <1>2, <1>8, <1>9, Zenon DEF Books, NotTwice
<1>11. NoLostWaiter'
  <2> SUFFICES ASSUME NEW c \in Clients, pc[c] \in {"send", "wait"}, chan'[c] = NoAnswer
               PROVE  /\ req[c].id \in wait' /\ ~readErr
                      /\ pc[c] = "wait" /\ Well => req[c].id \in OnWay'
    BY <1>2, Zenon DEF NoLostWaiter, Well, Up
  <2>1. chan[c] = NoAnswer /\ ~(r.id \in wait /\ req[c].id = r.id)
    BY <1>4, <1>9 DEF NoAnswer
  <2>2. req[c].id \in wait /\ ~readErr /\ (pc[c] = "wait" /\ Well => req[c].id \in OnWay)
    BY <2>1, Zenon DEF Books, NoLostWaiter, Well
  <2> QED BY <1>2, <1>8, <2>1, <2>2, Zenon
<1> QED BY <1>2, <1>7, <1>10, <1>11, Zenon DEF Books, NoneRegisteredAfterFailure

\* failAll closes the channel of every call that is registered, and so of every
\* call that waits.
LEMMA FailBooks ==
  ASSUME Ind, Books, failAll
  PROVE  Books'
<1>1. /\ OnePlace' /\ OnWay' = OnWay
      /\ UNCHANGED <<pc, req, proc, worker>> /\ wait' = {}
      /\ chan' = [c \in Clients |-> IF req[c].id \in wait THEN Closed ELSE chan[c]]
  BY SameWay, Zenon DEF failAll, helper, Books
<1>2. \A c \in Clients : chan'[c] = IF req[c].id \in wait THEN Closed ELSE chan[c]
  BY <1>1, Zenon
<1>3. NotTwice'
  BY <1>1, <1>2, Zenon DEF Books, NotTwice, Closed
<1>4. NoLostWaiter'
  BY <1>1, <1>2, Zenon DEF Books, NoLostWaiter, Closed, NoAnswer
<1> QED BY <1>1, <1>3, <1>4, Zenon DEF Books, NoneRegisteredAfterFailure

\* Nothing is on its way, and nobody waits, before the first call.
LEMMA BooksBegin == Init => Books
<1> SUFFICES ASSUME Init PROVE Books
  OBVIOUS
<1>1. IdsIn(stdin) = {} /\ IdsIn(queue) = {} /\ IdsIn(stdout) = {}
      /\ NoRepeat(stdin) /\ NoRepeat(queue) /\ NoRepeat(stdout)
  BY DEF Init, IdsIn, NoRepeat
<1>2. Working = {} /\ AtWork = {}
  BY Zenon DEF Init, Working, AtWork, Idle
<1>3. OnePlace /\ OnWay = {}
  BY <1>1, <1>2 DEF OnePlace, OnWay
<1>4. NotTwice /\ NoLostWaiter
  BY Zenon DEF Init, NotTwice, NoLostWaiter, NoAnswer
<1> QED BY <1>3, <1>4 DEF Books, Init, NoneRegisteredAfterFailure

\* No step of the adapter or of the helper upsets the books.
LEMMA BooksStep == Ind /\ Books /\ [Next]_vars => Books'
<1> SUFFICES ASSUME Ind, Books, [Next]_vars PROVE Books'
  OBVIOUS
<1>1. ASSUME NEW c \in Clients, Client(c) PROVE Books'
  BY <1>1, CallBooks, SendBooks, ReturnBooks DEF Client
<1>2. ASSUME NEW w \in Workers, Worker(w) PROVE Books'
  BY <1>2, TakeBooks, HandleBooks, PanicBooks, WriteBooks DEF Worker
<1>3. CASE Deliver
  BY <1>3, DeliverBooks
<1>4. CASE failAll
  BY <1>4, FailBooks
<1>5. CASE ReadRequest
  BY <1>5, ReadBooks
<1>6. CASE CloseStdin \/ CloseWait \/ Exit \/ Die \/ Finished \/ UNCHANGED vars
  BY <1>6, EndsBooks
<1> QED BY <1>1, <1>2, <1>3, <1>4, <1>5, <1>6 DEF Next

\* A request is in one place at a time, from the pipe through the queue and a
\* worker to the pipe back, and is not answered twice; a call that waits is
\* registered, so that reader fills its channel or failAll closes it, and its
\* answer is on its way while the helper and its workers live; and call registers
\* nothing once failAll has run. For any number of clients, workers and calls, and
\* wherever the helper dies or a worker panics.
THEOREM BooksAlways == Spec => []PipeInv
<1>1. Ind /\ Books => PipeInv
  BY DEF Ind, Books, PipeInv
<1> QED BY <1>1, PipeBegins, PipeStep, BooksBegin, BooksStep, PTL DEF Spec
=============================================================================
