--------------------------- MODULE MidTierPromises ---------------------------
(* What the server promises its clients, for every number of threads,       *)
(* addresses, buckets and requests: it never loses a listener, keeps every  *)
(* stored answer until the reply it is part of, implements ScatterGather,   *)
(* never loses an accepted call and never comes to a standstill.            *)
EXTENDS MidTierProofs, MidTierImplements, FiniteSetTheorems

-----------------------------------------------------------------------------
(* Listeners: what is armed, what has been accepted and what is about to be *)
(* succeeded add up to the pollers that have started.                       *)

RequestEvents == {e \in EventsUnderway : e.kind = "request"}

Accepting == {w \in Workers : wpc[w] = "proceed" /\ status[wcall[w]] = "PROCESS"}

\* The four sets are finite although threads and addresses need not be.
Listening ==
    /\ IsFiniteSet(armed) /\ IsFiniteSet(RequestEvents)
    /\ IsFiniteSet(Accepting) /\ IsFiniteSet(started)
    /\ Cardinality(armed) + Cardinality(RequestEvents) + Cardinality(Accepting)
         = Cardinality(started)

\* How many elements a set has when one joins or leaves it.
LEMMA OneMore ==
  ASSUME NEW S, IsFiniteSet(S), NEW x, x \notin S
  PROVE  /\ IsFiniteSet(S \cup {x}) /\ Cardinality(S \cup {x}) = Cardinality(S) + 1
         /\ Cardinality(S) \in Nat
BY FS_AddElement, FS_CardinalityType

\* ... and the other way round.
LEMMA OneLess ==
  ASSUME NEW S, IsFiniteSet(S), NEW x \in S
  PROVE  /\ IsFiniteSet(S \ {x}) /\ Cardinality(S \ {x}) = Cardinality(S) - 1
         /\ Cardinality(S) \in Nat
BY FS_RemoveElement, FS_CardinalityType

\* The four numbers.
LEMMA ListenerCounts ==
  ASSUME Listening
  PROVE  /\ Cardinality(armed) \in Nat /\ Cardinality(RequestEvents) \in Nat
         /\ Cardinality(Accepting) \in Nat /\ Cardinality(started) \in Nat
BY FS_CardinalityType DEF Listening

\* A step that moves nobody between the sets.
LEMMA NobodyMoves ==
  ASSUME Listening, armed' = armed, RequestEvents' = RequestEvents,
         Accepting' = Accepting, started' = started
  PROVE  Listening'
BY DEF Listening

\* Every event is one of a CallData.
LEMMA EventsTyped == ASSUME TypeOK PROVE EventsUnderway \subseteq Events
<1>1. dispatchQueue \in Seq(Events) BY DEF TypeOK
<1>2. \A i \in DOMAIN dispatchQueue : dispatchQueue[i] \in Events BY <1>1
<1>. QED BY <1>2 DEF TypeOK, EventsUnderway

\* The step leaves the server's completion queue, both queues and Proceed() alone.
LEMMA QueuesUntouched ==
  ASSUME Listening, UNCHANGED <<grpcVars, queueVars>>, UNCHANGED wcall,
         \A w \in Workers : wpc'[w] = "proceed" <=> wpc[w] = "proceed"
  PROVE  Listening'
<1>. USE DEF grpcVars, queueVars
<1>1. EventsUnderway' = EventsUnderway BY DEF EventsUnderway
<1>2. RequestEvents' = RequestEvents BY <1>1 DEF RequestEvents
<1>3. Accepting' = Accepting BY DEF Accepting
<1>. QED BY <1>2, <1>3, NobodyMoves

\* gRPC fills in a request: the CallData is armed no more, its event is new.
LEMMA MatchListens ==
  ASSUME IInv, Listening, NEW a \in Addr, NEW r \in Requests, GrpcMatch(a, r)
  PROVE  Listening'
<1>. DEFINE new == [tag |-> a, kind |-> "request"]
<1>g. /\ a \in armed /\ armed' = armed \ {a} /\ cq' = cq \cup {new}
      /\ UNCHANGED <<status, holding, dispatchQueue, started, wpc, wcall>>
  BY DEF GrpcMatch, queueVars, workerVars
<1>1. EventsUnderway' = EventsUnderway \cup {new} BY <1>g DEF EventsUnderway
<1>2. new \notin EventsUnderway
  BY <1>g DEF IInv, AddressesHeld, HasEvent
<1>3. RequestEvents' = RequestEvents \cup {new} /\ new \notin RequestEvents
  BY <1>1, <1>2 DEF RequestEvents
<1>4. Accepting' = Accepting BY <1>g DEF Accepting
<1>. HIDE DEF new
<1>5. /\ IsFiniteSet(RequestEvents')
      /\ Cardinality(RequestEvents') = Cardinality(RequestEvents) + 1
  BY <1>3, OneMore DEF Listening
<1>6. IsFiniteSet(armed') /\ Cardinality(armed') = Cardinality(armed) - 1
  BY <1>g, OneLess DEF Listening
<1>. QED BY <1>g, <1>4, <1>5, <1>6, ListenerCounts DEF Listening

\* A poller that starts arms its first CallData.
LEMMA StartListens ==
  ASSUME IInv, Listening, NEW p \in Pollers, NEW a \in Addr, PollerStart(p, a)
  PROVE  Listening'
<1>g. /\ p \notin started /\ started' = started \cup {p}
      /\ status[a] = "FREE" /\ status' = [status EXCEPT ![a] = "PROCESS"]
      /\ armed' = armed \cup {a}
      /\ UNCHANGED <<cq, holding, dispatchQueue, wpc, wcall>>
  BY DEF PollerStart, NewCallData, workerVars
<1>1. a \notin armed /\ \A w \in Workers : ~Runs(w, a)
  BY <1>g DEF IInv, AddressesHeld
<1>2. EventsUnderway' = EventsUnderway BY <1>g DEF EventsUnderway
<1>3. RequestEvents' = RequestEvents BY <1>2 DEF RequestEvents
<1>4. Accepting' = Accepting BY <1>g, <1>1 DEF Accepting, Runs, IInv, TypeOK
<1>5. IsFiniteSet(armed') /\ Cardinality(armed') = Cardinality(armed) + 1
  BY <1>g, <1>1, OneMore DEF Listening
<1>6. IsFiniteSet(started') /\ Cardinality(started') = Cardinality(started) + 1
  BY <1>g, OneMore DEF Listening
<1>. QED BY <1>3, <1>4, <1>5, <1>6, ListenerCounts DEF Listening

\* An event goes from the completion queue to a poller ...
LEMMA NextEvents ==
  ASSUME TypeOK, NEW p \in Pollers, NEW e \in cq, PollerNext(p, e)
  PROVE  EventsUnderway' = EventsUnderway
<1>g. /\ holding' = [holding EXCEPT ![p] = e] /\ cq' = cq \ {e}
      /\ holding[p] = None /\ UNCHANGED dispatchQueue
  BY DEF PollerNext
<1>1. e # None BY ThreadsAssumption DEF TypeOK
<1>. QED BY <1>g, <1>1 DEF EventsUnderway, TypeOK

\* ... and on to the tail of the dispatch queue.
LEMMA PushEvents ==
  ASSUME TypeOK, NEW p \in Pollers, PollerPush(p)
  PROVE  EventsUnderway' = EventsUnderway
<1>. DEFINE e == holding[p]
            last == Len(dispatchQueue) + 1
<1>g. /\ e \in Events /\ e # None
      /\ holding' = [holding EXCEPT ![p] = None]
      /\ dispatchQueue' = Append(dispatchQueue, e)
      /\ UNCHANGED cq
  BY DEF PollerPush, TypeOK, grpcVars
<1>h. /\ DOMAIN dispatchQueue = 1 .. Len(dispatchQueue)
      /\ DOMAIN dispatchQueue' = 1 .. last
      /\ Len(dispatchQueue) \in Nat
      /\ \A i \in 1 .. Len(dispatchQueue) : dispatchQueue'[i] = dispatchQueue[i]
      /\ dispatchQueue'[last] = e
  BY <1>g, AppendProperties DEF TypeOK
<1>1. /\ \A i \in DOMAIN dispatchQueue' : i \in DOMAIN dispatchQueue \/ i = last
      /\ DOMAIN dispatchQueue \subseteq DOMAIN dispatchQueue'
      /\ last \in DOMAIN dispatchQueue'
  BY <1>h
<1>. HIDE DEF last
<1>. QED BY <1>g, <1>h, <1>1 DEF EventsUnderway, TypeOK

\* A poller only carries events about.
LEMMA PollerListens ==
  ASSUME TypeOK, Listening, UNCHANGED <<status, armed, started, wpc, wcall>>,
         EventsUnderway' = EventsUnderway
  PROVE  Listening'
BY NobodyMoves DEF RequestEvents, Accepting

\* The head of the dispatch queue is the only event with its tag; without it the
\* other events are left.
LEMMA PopEvents ==
  ASSUME IInv, NEW w \in Workers, Pop(w)
  PROVE  /\ Head(dispatchQueue) \in EventsUnderway
         /\ EventsUnderway' = EventsUnderway \ {Head(dispatchQueue)}
<1>0. TypeOK BY DEF IInv
<1>. DEFINE e == Head(dispatchQueue)
            n == Len(dispatchQueue)
<1>g. /\ dispatchQueue \in Seq(Events) /\ dispatchQueue # <<>>
      /\ dispatchQueue' = Tail(dispatchQueue) /\ UNCHANGED <<cq, holding>>
  BY <1>0 DEF Pop, TypeOK, grpcVars
<1>h. /\ 1 \in DOMAIN dispatchQueue /\ dispatchQueue[1] = e
      /\ DOMAIN dispatchQueue = 1 .. n /\ DOMAIN dispatchQueue' = 1 .. (n - 1)
      /\ n \in Nat
      /\ \A i \in DOMAIN dispatchQueue' : dispatchQueue'[i] = dispatchQueue[i + 1]
  BY <1>g, HeadTailProperties
<1>. HIDE DEF e, n
<1>1. /\ \A i \in DOMAIN dispatchQueue' : i + 1 \in DOMAIN dispatchQueue /\ i + 1 # 1
      /\ \A i \in DOMAIN dispatchQueue :
            i = 1 \/ (i - 1 \in DOMAIN dispatchQueue' /\ (i - 1) + 1 = i)
  BY <1>h
<1>2. \A i \in DOMAIN dispatchQueue : i # 1 => dispatchQueue[i].tag # e.tag
  BY <1>h DEF IInv, EventsUnique
<1>3. /\ \A f \in cq : f # e
      /\ \A p \in Pollers : holding[p] # None => holding[p] # e
      /\ \A i \in DOMAIN dispatchQueue' : dispatchQueue'[i] # e
  BY <1>h, <1>1, <1>2 DEF IInv, EventsUnique
<1>4. \A i \in DOMAIN dispatchQueue :
         dispatchQueue[i] = e \/ \E j \in DOMAIN dispatchQueue' : dispatchQueue'[j] = dispatchQueue[i]
  BY <1>h, <1>1
<1>5. \A f \in EventsUnderway : f # e => f \in EventsUnderway'
  BY <1>g, <1>4 DEF EventsUnderway
<1>6. \A f \in EventsUnderway' : f \in EventsUnderway /\ f # e
  BY <1>g, <1>h, <1>1, <1>3 DEF EventsUnderway
<1>7. e \in EventsUnderway BY <1>h DEF EventsUnderway
<1>. QED BY <1>5, <1>6, <1>7 DEF e

\* A worker that takes a request is about to arm its successor; one that takes the
\* event of a finished call is not.
LEMMA PopListens ==
  ASSUME IInv, Listening, NEW w \in Workers, Pop(w)
  PROVE  Listening'
<1>0. TypeOK BY DEF IInv
<1>. DEFINE e == Head(dispatchQueue)
<1>g. /\ wpc[w] = "idle" /\ wpc' = [wpc EXCEPT ![w] = "proceed"]
      /\ wcall' = [wcall EXCEPT ![w] = e.tag]
      /\ UNCHANGED <<status, armed, started>>
  BY DEF Pop, WorkerGoes, grpcVars
<1>h. e \in EventsUnderway /\ EventsUnderway' = EventsUnderway \ {e}
  BY PopEvents
<1>. HIDE DEF e
<1>1. e \in Events /\ e.tag \in Addr /\ e.kind \in {"request", "finished"}
  BY <1>0, <1>h, EventsTyped DEF Events
<1>2. status[e.tag] = IF e.kind = "request" THEN "PROCESS" ELSE "FINISH"
  BY <1>h, <1>1 DEF IInv, EventsAlone
<1>3. /\ wpc'[w] = "proceed" /\ wcall'[w] = e.tag /\ w \notin Accepting
      /\ \A v \in Workers : v # w => wpc'[v] = wpc[v] /\ wcall'[v] = wcall[v]
  BY <1>0, <1>g DEF TypeOK, Accepting
<1>4. CASE e.kind = "request"
  <2>1. RequestEvents' = RequestEvents \ {e} /\ e \in RequestEvents
    BY <1>h, <1>4 DEF RequestEvents
  <2>2. Accepting' = Accepting \cup {w}
    BY <1>g, <1>2, <1>3, <1>4 DEF Accepting
  <2>3. /\ IsFiniteSet(RequestEvents')
        /\ Cardinality(RequestEvents') = Cardinality(RequestEvents) - 1
    BY <2>1, OneLess DEF Listening
  <2>4. IsFiniteSet(Accepting') /\ Cardinality(Accepting') = Cardinality(Accepting) + 1
    BY <1>3, <2>2, OneMore DEF Listening
  <2>. QED BY <1>g, <2>3, <2>4, ListenerCounts DEF Listening
<1>5. CASE e.kind = "finished"
  <2>1. RequestEvents' = RequestEvents BY <1>h, <1>5 DEF RequestEvents
  <2>2. Accepting' = Accepting BY <1>g, <1>2, <1>3, <1>5 DEF Accepting
  <2>. QED BY <1>g, <2>1, <2>2, NobodyMoves
<1>. QED BY <1>1, <1>4, <1>5

\* The successor takes the place of the accepted CallData.
LEMMA RespawnListens ==
  ASSUME IInv, Listening, NEW w \in Workers, NEW b \in Addr, Respawn(w, b)
  PROVE  Listening'
<1>0. TypeOK BY DEF IInv
<1>g. /\ wpc[w] = "proceed" /\ wpc' = [wpc EXCEPT ![w] = "register"]
      /\ status[wcall[w]] = "PROCESS"
      /\ status[b] = "FREE" /\ status' = [status EXCEPT ![b] = "PROCESS"]
      /\ armed' = armed \cup {b}
      /\ UNCHANGED <<cq, holding, dispatchQueue, started, wcall>>
  BY DEF Respawn, WorkerGoes, NewCallData, queueVars
<1>1. b \notin armed /\ \A v \in Workers : ~Runs(v, b)
  BY <1>g DEF IInv, AddressesHeld
<1>2. EventsUnderway' = EventsUnderway BY <1>g DEF EventsUnderway
<1>3. RequestEvents' = RequestEvents BY <1>2 DEF RequestEvents
<1>4. Accepting' = Accepting \ {w} /\ w \in Accepting
  BY <1>0, <1>g, <1>1 DEF Accepting, Runs, TypeOK
<1>5. IsFiniteSet(armed') /\ Cardinality(armed') = Cardinality(armed) + 1
  BY <1>g, <1>1, OneMore DEF Listening
<1>6. IsFiniteSet(Accepting') /\ Cardinality(Accepting') = Cardinality(Accepting) - 1
  BY <1>4, OneLess DEF Listening
<1>. QED BY <1>g, <1>3, <1>5, <1>6, ListenerCounts DEF Listening

\* A finished CallData is deleted by the one worker that has it.
LEMMA DeleteListens ==
  ASSUME IInv, Listening, NEW w \in Workers, Delete(w)
  PROVE  Listening'
<1>0. TypeOK BY DEF IInv
<1>g. /\ wpc[w] = "proceed" /\ wpc' = [wpc EXCEPT ![w] = "idle"]
      /\ status[wcall[w]] # "PROCESS"
      /\ status' = [status EXCEPT ![wcall[w]] = "FREE"]
      /\ wcall' = [wcall EXCEPT ![w] = None]
      /\ UNCHANGED <<cq, armed, holding, dispatchQueue, started>>
  BY DEF Delete, WorkerGoes, queueVars
<1>1. wcall[w] \in Addr /\ \A v \in Workers : v # w => ~Runs(v, wcall[w])
  BY <1>0, <1>g DEF IInv, WorkersAlone, Runs, TypeOK
<1>2. EventsUnderway' = EventsUnderway BY <1>g DEF EventsUnderway
<1>3. RequestEvents' = RequestEvents BY <1>2 DEF RequestEvents
<1>4. Accepting' = Accepting BY <1>0, <1>g, <1>1 DEF Accepting, Runs, TypeOK
<1>. QED BY <1>g, <1>3, <1>4, NobodyMoves

\* A call that is finished is not about to be succeeded: Proceed() of it is over.
LEMMA FinishListens ==
  ASSUME TypeOK, Listening, NEW a \in Addr, NEW reply, Finish(a, reply),
         \A v \in Workers : wpc[v] = "proceed" => wcall[v] # a,
         UNCHANGED <<queueVars, wcall>>,
         \A v \in Workers : wpc'[v] = "proceed" <=> wpc[v] = "proceed"
  PROVE  Listening'
<1>. DEFINE new == [tag |-> a, kind |-> "finished"]
<1>g. /\ cq' = cq \cup {new} /\ status' = [status EXCEPT ![a] = "FINISH"]
      /\ UNCHANGED <<armed, holding, dispatchQueue, started>>
  BY DEF Finish, queueVars
<1>1. EventsUnderway' = EventsUnderway \cup {new} BY <1>g DEF EventsUnderway
<1>2. RequestEvents' = RequestEvents BY <1>1 DEF RequestEvents
<1>3. Accepting' = Accepting BY <1>g DEF Accepting, TypeOK
<1>. QED BY <1>g, <1>2, <1>3, NobodyMoves

\* One worker's steps.
LEMMA WorkerListens ==
  ASSUME IInv, Listening, NEW w \in Workers, WorkerStep(w)
  PROVE  Listening'
<1>0. TypeOK BY DEF IInv
<1>1. CASE LockCoarse(w) \/ Register(w) \/ LockFine(w) \/ Fill(w)
  BY <1>0, <1>1, QueuesUntouched
     DEF LockCoarse, Register, LockFine, Fill, WorkerGoes, TypeOK
<1>2. CASE Sent(w)
  <2>1. /\ wpc' = [wpc EXCEPT ![w] = "idle"] /\ wpc[w] = "send"
        /\ wcall' = [wcall EXCEPT ![w] = None]
        /\ UNCHANGED <<cq, holding, dispatchQueue, status, armed, started>>
    BY <1>2 DEF Sent, WorkerGoes, grpcVars, queueVars
  <2>2. EventsUnderway' = EventsUnderway BY <2>1 DEF EventsUnderway
  <2>3. RequestEvents' = RequestEvents BY <2>2 DEF RequestEvents
  <2>4. Accepting' = Accepting BY <1>0, <2>1 DEF Accepting, TypeOK
  <2>. QED BY <2>1, <2>3, <2>4, NobodyMoves
<1>3. CASE Send(w) BY <1>3, QueuesUntouched DEF Send
<1>4. CASE KillExit(w) BY <1>4, QueuesUntouched DEF KillExit, Exit, workerVars
<1>5. CASE AckKill(w)
  <2>1. /\ wpc[w] = "fill" /\ wpc' = [wpc EXCEPT ![w] = "sleep"]
        /\ UNCHANGED <<queueVars, wcall>>
        /\ Finish(wcall[w], [answers |-> {}, time |-> {}, kill |-> TRUE])
    BY <1>5 DEF AckKill, WorkerGoes
  <2>2. wcall[w] \in Addr /\ \A v \in Workers : wpc[v] = "proceed" => wcall[v] # wcall[w]
    BY <1>0, <2>1 DEF IInv, WorkersAlone, Runs, TypeOK
  <2>3. \A v \in Workers : wpc'[v] = "proceed" <=> wpc[v] = "proceed"
    BY <1>0, <2>1 DEF TypeOK
  <2>. QED BY <1>0, <2>1, <2>2, <2>3, FinishListens
<1>. QED
  BY <1>1, <1>2, <1>3, <1>4, <1>5, PopListens, DeleteListens, RespawnListens
  DEF WorkerStep

\* One response thread's steps.
LEMMA ResponderListens ==
  ASSUME IInv, Listening, NEW x \in Responders, ResponderStep(x)
  PROVE  Listening'
<1>0. TypeOK BY DEF IInv
<1>1. ASSUME UNCHANGED <<grpcVars, queueVars, workerVars>> PROVE Listening'
  BY <1>1, QueuesUntouched DEF workerVars
<1>2. CASE FinishCall(x)
  <2>1. /\ xpc[x] = "finish" /\ UNCHANGED <<queueVars, wpc, wcall>>
        /\ Finish(xcall[x].id, [answers |-> answers[xcall[x].id],
                                time |-> time[xcall[x].id], kill |-> FALSE])
    BY <1>2 DEF FinishCall, ResponderGoes, workerVars
  <2>2. xcall[x].id \in Addr BY <1>0, <2>1 DEF TypeOK, Calls
  <2>3. Busy(xcall[x].id) BY <2>1 DEF Busy, Counting, Counts
  <2>4. \A v \in Workers : wpc[v] = "proceed" => wcall[v] # xcall[x].id
    BY <2>2, <2>3 DEF IInv, WorkersAlone, Runs
  <2>. QED BY <1>0, <2>1, <2>2, <2>4, FinishListens
<1>3. CASE CheckEntry(x)
  BY <1>1, <1>3 DEF CheckEntry, Exit
<1>4. ASSUME NEW d \in bucketCq, Receive(x, d) \/ BucketLost(x, d) PROVE Listening'
  BY <1>1, <1>4 DEF Receive, BucketLost, Exit
<1>5. CASE TakeFine(x) \/ Store(x) \/ CountDown(x) \/ Merge(x)
  BY <1>1, <1>5 DEF TakeFine, Store, CountDown, Merge
<1>. QED BY <1>2, <1>3, <1>4, <1>5 DEF ResponderStep

\* Every step keeps the listeners.
LEMMA NextListening == ASSUME IInv, Listening, [Next]_vars PROVE Listening'
<1>0. TypeOK BY DEF IInv
<1>1. ASSUME NEW p \in Pollers, PollerStep(p) PROVE Listening'
  <2>1. ASSUME NEW e \in cq, PollerNext(p, e) PROVE Listening'
    BY <1>0, <2>1, NextEvents, PollerListens DEF PollerNext, workerVars
  <2>2. CASE PollerPush(p)
    BY <1>0, <2>2, PushEvents, PollerListens DEF PollerPush, grpcVars, workerVars
  <2>. QED BY <1>1, <2>1, <2>2, StartListens DEF PollerStep
<1>2. ASSUME NEW c \in calls, NEW ok \in BOOLEAN, BucketAnswer(c, ok) PROVE Listening'
  BY <1>2, QueuesUntouched DEF BucketAnswer, workerVars
<1>3. ASSUME NEW t \in Threads, MissedLookup(t) PROVE Listening'
  BY <1>3, QueuesUntouched DEF MissedLookup, Exit, workerVars
<1>4. ASSUME UNCHANGED vars PROVE Listening'
  BY <1>4, QueuesUntouched DEF vars, workerVars
<1>. QED
  BY <1>1, <1>2, <1>3, <1>4, MatchListens, WorkerListens, ResponderListens
  DEF Next, Rest

\* Listening is an invariant of the server.
LEMMA ListeningAlways == Spec => []Listening
<1>1. Init => Listening
  <2>. SUFFICES ASSUME Init PROVE Listening
    OBVIOUS
  <2>1. armed = {} /\ started = {} BY DEF Init
  <2>2. EventsUnderway = {} BY DEF Init, EventsUnderway
  <2>3. RequestEvents = {} BY <2>2 DEF RequestEvents
  <2>4. Accepting = {} BY DEF Init, Accepting
  <2>. QED BY <2>1, <2>3, <2>4, FS_EmptySet DEF Listening
<1>2. IInv /\ Listening /\ [Next]_vars => Listening'
  BY NextListening
<1>. QED BY <1>1, <1>2, InvariantCorrect, PTL DEF Spec

\* The number of listeners is the number of pollers that have started: no accepted
\* request, kill or deleted call leaves the server with one less.
THEOREM ListenersNeverLost == Spec => []ListenersKept
<1>1. Listening => ListenersKept
  BY DEF Listening, ListenersKept, RequestEvents, Accepting
<1>. QED BY <1>1, ListeningAlways, PTL

-----------------------------------------------------------------------------
(* Answers: where they are from the slot to the reply.                      *)

\* The CallData at a serves the request of the answer c, and is between its
\* sends and its reply.
Protected(a, c) ==
    /\ status[a] = "PROCESS" /\ request[a] = c.req
    /\ ~HasEvent(a)
    /\ \A w \in Workers : Runs(w, a) => wpc[w] = "send"

\* Every answer in a slot is one to a query: to the one the address serves, or to
\* one that has its reply.
Kept ==
    \A a \in Addr : \A c \in Stored(a) :
        /\ c.req \in Requests \ Kills
        /\ replies[c.req] = <<>> => Protected(a, c)

\* What has been merged is what is in the slots.
MergedKept ==
    \A x \in Responders : xpc[x] = "finish" => answers[xcall[x].id] = Stored(xcall[x].id)

\* Nobody but the worker that sends may run a CallData meanwhile.
LEMMA KeptSame ==
  ASSUME Kept, UNCHANGED <<slots, status, request, replies>>,
         \A a \in Addr : HasEvent(a)' => HasEvent(a),
         \A w \in Workers : \A a \in Addr :
             Runs(w, a)' => Runs(w, a) /\ (wpc[w] = "send" => wpc'[w] = "send")
  PROVE  Kept'
<1>1. \A a \in Addr : Stored(a)' = Stored(a) BY DEF Stored
<1>. SUFFICES ASSUME NEW a \in Addr, NEW c \in Stored(a)
              PROVE  /\ c.req \in Requests \ Kills
                     /\ replies'[c.req] = <<>> => Protected(a, c)'
  BY <1>1 DEF Kept
<1>2. c.req \in Requests \ Kills /\ (replies[c.req] = <<>> => Protected(a, c))
  BY DEF Kept
<1>. QED BY <1>2 DEF Protected

\* Nobody wipes an entry between its merge and its reply.
LEMMA MergedKeptSame ==
  ASSUME MergedKept, UNCHANGED <<slots, answers>>,
         \A x \in Responders : xpc'[x] = "finish" => xpc[x] = "finish" /\ xcall'[x] = xcall[x]
  PROVE  MergedKept'
<1>1. \A a : Stored(a)' = Stored(a) BY DEF Stored
<1>. SUFFICES ASSUME NEW x \in Responders, xpc'[x] = "finish"
              PROVE  answers'[xcall'[x].id] = Stored(xcall[x].id)
  BY <1>1 DEF MergedKept, Stored
<1>. QED BY DEF MergedKept

\* Steps that leave CallData, replies and slots alone and add no event.
LEMMA ThreadsMove ==
  ASSUME Kept, MergedKept, UNCHANGED <<status, request, replies, slots, answers>>,
         EventsUnderway' = EventsUnderway,
         \A w \in Workers : \/ wpc'[w] = wpc[w] /\ wcall'[w] = wcall[w]
                            \/ /\ wpc[w] \in {"register", "registering", "lockFine", "fill"}
                               /\ wcall'[w] = wcall[w]
                            \/ wpc'[w] = "idle",
         \A x \in Responders : xpc'[x] = "finish" => xpc[x] = "finish" /\ xcall'[x] = xcall[x]
  PROVE  Kept' /\ MergedKept'
<1>1. \A a \in Addr : HasEvent(a)' => HasEvent(a) BY DEF HasEvent
<1>2. \A w \in Workers : \A a \in Addr :
         Runs(w, a)' => Runs(w, a) /\ (wpc[w] = "send" => wpc'[w] = "send")
  BY DEF Runs
<1>. QED BY <1>1, <1>2, KeptSame, MergedKeptSame

\* The CallData that gRPC fills in served nothing.
LEMMA MatchKeeps ==
  ASSUME IInv, Kept, MergedKept, NEW a0 \in Addr, NEW r \in Requests, GrpcMatch(a0, r)
  PROVE  Kept' /\ MergedKept'
<1>. DEFINE new == [tag |-> a0, kind |-> "request"]
<1>g. /\ a0 \in armed /\ cq' = cq \cup {new} /\ new.tag = a0
      /\ request' = [request EXCEPT ![a0] = r]
      /\ UNCHANGED <<status, replies, holding, dispatchQueue, wpc, wcall, slots, answers, xpc, xcall>>
  BY DEF GrpcMatch, queueVars, workerVars, mapVars, entryVars, respVars
<1>1. EventsUnderway' = EventsUnderway \cup {new} BY <1>g DEF EventsUnderway
<1>2. request[a0] = None BY <1>g DEF IInv, AddressesHeld
<1>3. \A a \in Addr : Stored(a)' = Stored(a) BY <1>g DEF Stored
<1>4. ASSUME NEW a \in Addr, NEW c \in Stored(a)
      PROVE  /\ c.req \in Requests \ Kills
             /\ replies'[c.req] = <<>> => Protected(a, c)'
  <2>1. c.req \in Requests \ Kills /\ (replies[c.req] = <<>> => Protected(a, c))
    BY DEF Kept
  <2>2. CASE a = a0
    BY <1>g, <1>2, <2>1, <2>2, ThreadsAssumption DEF Protected
  <2>3. CASE a # a0
    <3>1. HasEvent(a)' <=> HasEvent(a) BY <1>1, <1>g, <2>3 DEF HasEvent
    <3>2. request'[a] = request[a] BY <1>g, <2>3 DEF IInv, TypeOK
    <3>. QED BY <1>g, <2>1, <3>1, <3>2 DEF Protected, Runs
  <2>. QED BY <2>2, <2>3
<1>5. Kept' BY <1>3, <1>4 DEF Kept
<1>. QED BY <1>g, <1>5, MergedKeptSame

\* A new CallData at a free address.
LEMMA NewCallKeeps ==
  ASSUME IInv, Kept, MergedKept, NEW b \in Addr, NewCallData(b),
         UNCHANGED <<holding, dispatchQueue, wcall, slots, answers, xpc, xcall>>,
         \A w \in Workers : wpc'[w] = wpc[w] \/ (wpc[w] = "proceed" /\ wpc'[w] = "register")
  PROVE  Kept' /\ MergedKept'
<1>g. /\ status[b] = "FREE" /\ status' = [status EXCEPT ![b] = "PROCESS"]
      /\ request' = [request EXCEPT ![b] = None]
      /\ UNCHANGED <<cq, replies>>
  BY DEF NewCallData
<1>1. EventsUnderway' = EventsUnderway BY <1>g DEF EventsUnderway
<1>2. \A a \in Addr : HasEvent(a)' <=> HasEvent(a) BY <1>1 DEF HasEvent
<1>3. \A a \in Addr : Stored(a)' = Stored(a) BY <1>g DEF Stored
<1>4. ASSUME NEW a \in Addr, NEW c \in Stored(a)
      PROVE  /\ c.req \in Requests \ Kills
             /\ replies'[c.req] = <<>> => Protected(a, c)'
  <2>1. c.req \in Requests \ Kills /\ (replies[c.req] = <<>> => Protected(a, c))
    BY DEF Kept
  <2>2. CASE a = b BY <1>g, <2>1, <2>2 DEF Protected
  <2>3. CASE a # b
    <3>1. request'[a] = request[a] /\ status'[a] = status[a]
      BY <1>g, <2>3 DEF IInv, TypeOK
    <3>. QED BY <1>g, <1>2, <2>1, <3>1 DEF Protected, Runs
  <2>. QED BY <2>2, <2>3
<1>5. Kept' BY <1>3, <1>4 DEF Kept
<1>. QED BY <1>5, MergedKeptSame

\* The popped event is of a CallData that no stored answer needs.
LEMMA PopKept ==
  ASSUME IInv, Kept, MergedKept, NEW w \in Workers, Pop(w)
  PROVE  Kept' /\ MergedKept'
<1>0. TypeOK BY DEF IInv
<1>. DEFINE e == Head(dispatchQueue)
<1>g. /\ wpc[w] = "idle" /\ wpc' = [wpc EXCEPT ![w] = "proceed"]
      /\ wcall' = [wcall EXCEPT ![w] = e.tag]
      /\ UNCHANGED <<status, request, replies, slots, answers, xpc, xcall>>
  BY DEF Pop, WorkerGoes, grpcVars, mapVars, entryVars, respVars
<1>h. e \in EventsUnderway /\ EventsUnderway' = EventsUnderway \ {e}
  BY PopEvents
<1>. HIDE DEF e
<1>1. \A v \in Workers : v # w => wpc'[v] = wpc[v] /\ wcall'[v] = wcall[v]
  BY <1>0, <1>g DEF TypeOK
<1>2. wcall'[w] = e.tag BY <1>0, <1>g DEF TypeOK
<1>3. \A a \in Addr : Stored(a)' = Stored(a) BY <1>g DEF Stored
<1>4. ASSUME NEW a \in Addr, NEW c \in Stored(a)
      PROVE  /\ c.req \in Requests \ Kills
             /\ replies'[c.req] = <<>> => Protected(a, c)'
  <2>1. c.req \in Requests \ Kills /\ (replies[c.req] = <<>> => Protected(a, c))
    BY DEF Kept
  <2>2. ASSUME Protected(a, c) PROVE Protected(a, c)'
    <3>1. e.tag # a BY <1>h, <2>2 DEF Protected, HasEvent
    <3>2. ~HasEvent(a)' BY <1>h, <2>2 DEF Protected, HasEvent
    <3>3. \A v \in Workers : Runs(v, a)' => wpc'[v] = "send"
      BY <1>1, <1>2, <2>2, <3>1 DEF Protected, Runs
    <3>. QED BY <1>g, <2>2, <3>2, <3>3 DEF Protected
  <2>. QED BY <1>g, <2>1, <2>2
<1>5. Kept' BY <1>3, <1>4 DEF Kept
<1>. QED BY <1>g, <1>5, MergedKeptSame

\* A CallData that is deleted is finished.
LEMMA DeleteKept ==
  ASSUME IInv, Kept, MergedKept, NEW w \in Workers, Delete(w)
  PROVE  Kept' /\ MergedKept'
<1>0. TypeOK BY DEF IInv
<1>g. /\ wpc[w] = "proceed" /\ wpc' = [wpc EXCEPT ![w] = "idle"]
      /\ status[wcall[w]] # "PROCESS"
      /\ status' = [status EXCEPT ![wcall[w]] = "FREE"]
      /\ request' = [request EXCEPT ![wcall[w]] = None]
      /\ wcall' = [wcall EXCEPT ![w] = None]
      /\ UNCHANGED <<cq, holding, dispatchQueue, replies, slots, answers, xpc, xcall>>
  BY DEF Delete, WorkerGoes, queueVars, mapVars, entryVars, respVars
<1>1. EventsUnderway' = EventsUnderway BY <1>g DEF EventsUnderway
<1>2. \A a \in Addr : HasEvent(a)' <=> HasEvent(a) BY <1>1 DEF HasEvent
<1>3. \A a \in Addr : Stored(a)' = Stored(a) BY <1>g DEF Stored
<1>6. \A v \in Workers : \A a \in Addr : Runs(v, a)' => Runs(v, a) /\ wpc'[v] = wpc[v]
  BY <1>0, <1>g DEF TypeOK, Runs
<1>4. ASSUME NEW a \in Addr, NEW c \in Stored(a)
      PROVE  /\ c.req \in Requests \ Kills
             /\ replies'[c.req] = <<>> => Protected(a, c)'
  <2>1. c.req \in Requests \ Kills /\ (replies[c.req] = <<>> => Protected(a, c))
    BY DEF Kept
  <2>2. ASSUME Protected(a, c) PROVE Protected(a, c)'
    <3>1. a # wcall[w] BY <1>g, <2>2 DEF Protected
    <3>2. request'[a] = request[a] /\ status'[a] = status[a]
      BY <1>0, <1>g, <3>1 DEF TypeOK
    <3>. QED BY <1>2, <1>6, <2>2, <3>2 DEF Protected
  <2>. QED BY <1>g, <2>1, <2>2
<1>5. Kept' BY <1>3, <1>4 DEF Kept
<1>. QED BY <1>g, <1>5, MergedKeptSame

\* A worker that registers an address or fills its entry has it alone, and wipes
\* answers only to requests that have their reply.
LEMMA WipeKept ==
  ASSUME IInv, Kept, MergedKept, NEW w \in Workers, Register(w) \/ Fill(w)
  PROVE  /\ Kept' /\ MergedKept'
         /\ \E b \in Addr : /\ \A c \in Stored(b) : replies[c.req] # <<>>
                            /\ Stored(b)' = {}
                            /\ \A a \in Addr \ {b} : Stored(a)' = Stored(a)
<1>0. TypeOK BY DEF IInv
<1>. DEFINE b == wcall[w]
<1>g. /\ wpc[w] \in {"registering", "fill"}
      /\ \/ wpc' = [wpc EXCEPT ![w] = "lockFine"]
         \/ wpc' = [wpc EXCEPT ![w] = "send"]
      /\ UNCHANGED <<status, request, replies, cq, holding, dispatchQueue, wcall, xpc, xcall>>
  BY DEF Register, Fill, WorkerGoes, grpcVars, queueVars, respVars
<1>h. /\ \/ slots' = [slots EXCEPT ![b] = NoSlots]
         \/ slots' = [slots EXCEPT ![b] = [i \in 1 .. NumBuckets |-> None]]
      /\ \/ answers' = [answers EXCEPT ![b] = {}]
         \/ answers' = answers
  BY DEF Register, Fill
<1>1. b \in Addr /\ Runs(w, b) /\ ~Busy(b)
  BY <1>0, <1>g DEF IInv, TypeOK, Runs, WorkersAlone
<1>2. EventsUnderway' = EventsUnderway BY <1>g DEF EventsUnderway
<1>3. \A a \in Addr : HasEvent(a)' <=> HasEvent(a) BY <1>2 DEF HasEvent
<1>4. \A c \in Stored(b) : replies[c.req] # <<>>
  BY <1>g, <1>1 DEF Kept, Protected
<1>5. slots' \in [Addr -> {slots'[a] : a \in Addr}] /\ \A a \in Addr \ {b} : slots'[a] = slots[a]
  BY <1>0, <1>h DEF TypeOK
<1>6. \A a \in Addr \ {b} : Stored(a)' = Stored(a) BY <1>5 DEF Stored
<1>7. slots'[b] = NoSlots \/ slots'[b] = [i \in 1 .. NumBuckets |-> None]
  BY <1>0, <1>1, <1>h DEF TypeOK
<1>8. {slots'[b][i] : i \in DOMAIN slots'[b]} \ {None} = {}
  BY <1>7 DEF NoSlots
<1>9. \E d \in Addr : /\ \A c \in Stored(d) : replies[c.req] # <<>>
                      /\ Stored(d)' = {}
                      /\ \A a \in Addr \ {d} : Stored(a)' = Stored(a)
  <2>. PICK d \in Addr : d = b BY <1>1
  <2>1. Stored(d)' = {} BY <1>8 DEF Stored
  <2>. QED BY <1>4, <1>6, <2>1
<1>10. Kept'
  <2>. SUFFICES ASSUME NEW a \in Addr, NEW c \in Stored(a)'
                PROVE  /\ c.req \in Requests \ Kills
                       /\ replies'[c.req] = <<>> => Protected(a, c)'
    BY DEF Kept
  <2>1. a # b /\ c \in Stored(a)
    <3>1. CASE a = b BY <1>8, <3>1 DEF Stored
    <3>2. CASE a # b BY <1>6, <3>2
    <3>. QED BY <3>1, <3>2
  <2>2. c.req \in Requests \ Kills /\ (replies[c.req] = <<>> => Protected(a, c))
    BY <2>1 DEF Kept
  <2>3. \A v \in Workers : Runs(v, a)' => Runs(v, a) /\ wpc'[v] = wpc[v]
    BY <1>0, <1>g, <2>1 DEF TypeOK, Runs
  <2>. QED BY <1>g, <1>3, <2>2, <2>3 DEF Protected
<1>11. MergedKept'
  <2>. SUFFICES ASSUME NEW x \in Responders, xpc[x] = "finish"
                PROVE  answers'[xcall[x].id] = Stored(xcall[x].id)'
    BY <1>g DEF MergedKept, Stored
  <2>1. xcall[x].id \in Addr BY <1>0 DEF TypeOK, Calls
  <2>2. Busy(xcall[x].id) BY DEF Busy, Counting, Counts
  <2>3. xcall[x].id # b BY <1>1, <2>2
  <2>4. answers'[xcall[x].id] = answers[xcall[x].id] BY <1>0, <1>h, <2>1, <2>3 DEF TypeOK
  <2>5. slots'[xcall[x].id] = slots[xcall[x].id] BY <1>5, <2>1, <2>3
  <2>. QED BY <1>g, <2>4, <2>5 DEF MergedKept, Stored
<1>. QED BY <1>9, <1>10, <1>11

\* The reply that is sent is to the request of this address: no other answer is
\* part of it.
LEMMA FinishKept ==
  ASSUME IInv, Kept, NEW b \in Addr, NEW reply \in Replies, Finish(b, reply),
         request[b] \in Requests, status[b] = "PROCESS",
         UNCHANGED <<slots, holding, dispatchQueue, wcall>>,
         \A w \in Workers : wpc'[w] = wpc[w] \/ wpc'[w] = "sleep"
  PROVE  Kept'
<1>. DEFINE new == [tag |-> b, kind |-> "finished"]
<1>g. /\ cq' = cq \cup {new} /\ new.tag = b
      /\ status' = [status EXCEPT ![b] = "FINISH"] /\ request' = request
  BY DEF Finish
<1>r. /\ replies'[request[b]] # <<>>
      /\ \A r \in Requests : r # request[b] => replies'[r] = replies[r]
  BY FinishReplies
<1>1. EventsUnderway' = EventsUnderway \cup {new} BY <1>g DEF EventsUnderway
<1>2. \A a \in Addr : Stored(a)' = Stored(a) BY DEF Stored
<1>3. \A w \in Workers : \A a \in Addr : Runs(w, a)' => Runs(w, a) /\ wpc'[w] = wpc[w]
  BY DEF Runs
<1>. SUFFICES ASSUME NEW a \in Addr, NEW c \in Stored(a)
              PROVE  /\ c.req \in Requests \ Kills
                     /\ replies'[c.req] = <<>> => Protected(a, c)'
  BY <1>2 DEF Kept
<1>4. c.req \in Requests \ Kills /\ (replies[c.req] = <<>> => Protected(a, c))
  BY DEF Kept
<1>5. ASSUME replies'[c.req] = <<>> PROVE Protected(a, c)'
  <2>1. c.req # request[b] BY <1>5, <1>r
  <2>2. Protected(a, c) BY <1>4, <1>5, <1>r, <2>1
  <2>3. a # b BY <2>1, <2>2 DEF Protected
  <2>4. status'[a] = status[a] BY <1>g, <2>3 DEF IInv, TypeOK
  <2>5. HasEvent(a)' => HasEvent(a) BY <1>1, <1>g, <2>3 DEF HasEvent
  <2>. QED BY <1>g, <1>3, <2>2, <2>4, <2>5 DEF Protected
<1>. QED BY <1>4, <1>5

\* A kill has nothing in its entry.
LEMMA AckKept ==
  ASSUME IInv, Kept, MergedKept, NEW w \in Workers, AckKill(w)
  PROVE  Kept' /\ MergedKept'
<1>0. TypeOK BY DEF IInv
<1>. DEFINE ack == [answers |-> {}, time |-> {}, kill |-> TRUE]
            b == wcall[w]
<1>g. /\ wpc[w] = "fill" /\ wpc' = [wpc EXCEPT ![w] = "sleep"]
      /\ request[b] \in Kills /\ Finish(b, ack)
      /\ UNCHANGED <<holding, dispatchQueue, wcall, slots, answers, xpc, xcall>>
  BY DEF AckKill, WorkerGoes, queueVars, mapVars, entryVars, respVars
<1>1. b \in Addr /\ Runs(w, b) BY <1>0, <1>g DEF TypeOK, Runs
<1>2. status[b] = "PROCESS" BY <1>g, <1>1 DEF IInv, WorkersAlone
<1>3. ack \in Replies BY DEF Replies, Times
<1>4. \A v \in Workers : wpc'[v] = wpc[v] \/ wpc'[v] = "sleep" BY <1>0, <1>g DEF TypeOK
<1>. HIDE DEF ack, b
<1>5. Kept' BY <1>g, <1>1, <1>2, <1>3, <1>4, KillsAssumption, FinishKept
<1>. QED BY <1>g, <1>5, MergedKeptSame

\* What a thread that finishes a call has in its hands.
LEMMA FinishCallFacts ==
  ASSUME IInv, NEW x \in Responders, FinishCall(x)
  PROVE  \E b \in Addr, reply \in Replies :
            /\ xpc[x] = "finish" /\ b = xcall[x].id
            /\ request[b] \in Requests \ Kills /\ status[b] = "PROCESS"
            /\ reply.answers = answers[b] /\ Packed(b)
            /\ Finish(b, reply)
            /\ xpc' = [xpc EXCEPT ![x] = "idle"] /\ xcall' = [xcall EXCEPT ![x] = None]
            /\ UNCHANGED <<holding, dispatchQueue, wpc, wcall, slots, answers>>
<1>0. TypeOK BY DEF IInv
<1>. DEFINE b == xcall[x].id
            reply == [answers |-> answers[b], time |-> time[b], kill |-> FALSE]
<1>g. /\ xpc[x] = "finish" /\ Finish(b, reply)
      /\ xpc' = [xpc EXCEPT ![x] = "idle"] /\ xcall' = [xcall EXCEPT ![x] = None]
      /\ UNCHANGED <<holding, dispatchQueue, wpc, wcall, slots, answers>>
  BY DEF FinishCall, ResponderGoes, queueVars, workerVars, mapVars, entryVars
<1>1. b \in Addr /\ xcall[x] \in OutstandingCalls
  BY <1>0, <1>g DEF TypeOK, Calls, OutstandingCalls
<1>2. request[b] \in Requests \ Kills /\ status[b] = "PROCESS"
  BY <1>1 DEF IInv, CallsLive
<1>3. reply \in Replies BY <1>0, <1>1 DEF TypeOK, Replies
<1>4. Packed(b) BY <1>g, <1>1 DEF IInv, MergedAlone
<1>5. reply.answers = answers[b] OBVIOUS
<1>. HIDE DEF reply, b
<1>6. b = xcall[x].id BY DEF b
<1>. QED BY <1>g, <1>1, <1>2, <1>3, <1>4, <1>5, <1>6

\* A finished call.
LEMMA FinishCallKept ==
  ASSUME IInv, Kept, MergedKept, NEW x \in Responders, FinishCall(x)
  PROVE  Kept' /\ MergedKept'
<1>. PICK b \in Addr, reply \in Replies :
            /\ xpc[x] = "finish" /\ b = xcall[x].id
            /\ request[b] \in Requests \ Kills /\ status[b] = "PROCESS"
            /\ reply.answers = answers[b] /\ Packed(b)
            /\ Finish(b, reply)
            /\ xpc' = [xpc EXCEPT ![x] = "idle"] /\ xcall' = [xcall EXCEPT ![x] = None]
            /\ UNCHANGED <<holding, dispatchQueue, wpc, wcall, slots, answers>>
  BY FinishCallFacts
<1>1. Kept' BY FinishKept
<1>2. \A y \in Responders : xpc'[y] = "finish" => xpc[y] = "finish" /\ xcall'[y] = xcall[y]
  BY DEF IInv, TypeOK
<1>. QED BY <1>1, <1>2, MergedKeptSame

\* The answer that is stored is new, is to the request that the address serves,
\* and takes a slot that was empty.
LEMMA StoreFacts ==
  ASSUME IInv, NEW x \in Responders, Store(x)
  PROVE  \E c \in Calls :
            /\ xcall[x] = c /\ c.id \in Addr /\ c.bucket \in Buckets
            /\ c.req \in Requests \ Kills
            /\ request[c.id] = c.req /\ status[c.id] = "PROCESS"
            /\ Busy(c.id) /\ ~Finishing(c.id)
            /\ c \notin Stored(c.id)
            /\ \A d \in Stored(c.id) : d.id = c.id /\ d.req = c.req
            /\ Stored(c.id)' = Stored(c.id) \cup {c}
            /\ \A a \in Addr \ {c.id} : slots'[a] = slots[a]
            /\ UNCHANGED <<status, request, cq, replies, holding, dispatchQueue, wpc, wcall,
                           answers, xcall, process>>
            /\ xpc' = [xpc EXCEPT ![x] = "count"] /\ process = "up"
<1>0. TypeOK BY DEF IInv
<1>g. /\ xpc[x] = "store" /\ xpc' = [xpc EXCEPT ![x] = "count"]
      /\ slots' = [slots EXCEPT ![xcall[x].id][recvd[xcall[x].id] + 1] = xcall[x]]
      /\ UNCHANGED <<status, request, cq, replies, holding, dispatchQueue, wpc, wcall,
                     answers, xcall, process>>
      /\ process = "up"
  BY DEF Store, ResponderGoes, StaysUp, grpcVars, queueVars, workerVars
<1>. PICK c \in Calls : c = xcall[x] BY <1>0, <1>g DEF TypeOK
<1>. PICK b \in Addr : b = c.id BY DEF Calls
<1>1. /\ Carries(x) /\ c \in Pending /\ c \in OutstandingCalls
      /\ fine[b] = x /\ c # None /\ c.bucket \in Buckets
  BY <1>g, ThreadsAssumption DEF Pending, OutstandingCalls, Carries, IInv, LocksHeld, Calls
<1>2. /\ c.req \in Requests \ Kills /\ request[b] = c.req /\ status[b] = "PROCESS"
  BY <1>1 DEF IInv, CallsLive
<1>3. Busy(b) BY <1>1 DEF Busy
<1>4. \A y \in Responders : xpc[y] = "finish" => xcall[y].id # b
  BY <1>1 DEF IInv, MergedAlone
<1>5. \A y \in Responders : xpc[y] = "count" => xcall[y].id # b
  BY <1>1, <1>g DEF IInv, LocksHeld
<1>6. ~Finishing(b) /\ ~Counting(b) BY <1>4, <1>5 DEF Finishing, Counting, Counts
<1>. PICK n \in Nat : n = recvd[b] + 1 /\ n \in 1 .. NumBuckets
  BY <1>0, BucketsAssumption DEF TypeOK, Buckets
<1>7. /\ slots[b] \in [1 .. NumBuckets -> Calls \cup {None}]
      /\ slots[b][n] = None
      /\ \A i \in 1 .. NumBuckets : slots[b][i] # None =>
            slots[b][i].id = b /\ slots[b][i].req = c.req /\ slots[b][i] \notin Pending
  <2>1. SlotsAt(b) BY <1>3 DEF IInv, SlotsFilled
  <2>2. recvd[b] \in Nat BY <1>0 DEF TypeOK, Buckets
  <2>3. ~(n <= recvd[b]) BY <2>2
  <2>. QED BY <1>2, <1>6, <2>1, <2>3 DEF SlotsAt
<1>8. slots'[b] = [slots[b] EXCEPT ![n] = c] BY <1>0, <1>g DEF TypeOK
<1>9. \A a \in Addr \ {b} : slots'[a] = slots[a] BY <1>0, <1>g DEF TypeOK
<1>10. Stored(b)' = Stored(b) \cup {c}
  <2>1. /\ DOMAIN slots'[b] = 1 .. NumBuckets /\ DOMAIN slots[b] = 1 .. NumBuckets
        /\ slots'[b][n] = c
        /\ \A i \in 1 .. NumBuckets : i # n => slots'[b][i] = slots[b][i]
    BY <1>7, <1>8
  <2>. QED BY <1>1, <1>7, <2>1 DEF Stored
<1>11. /\ c \notin Stored(b)
       /\ \A d \in Stored(b) : d.id = b /\ d.req = c.req
  <2>1. \A d \in Stored(b) : \E i \in 1 .. NumBuckets : d = slots[b][i] /\ slots[b][i] # None
    BY <1>7 DEF Stored
  <2>. QED BY <1>1, <1>7, <2>1
<1>. QED BY <1>g, <1>1, <1>2, <1>3, <1>6, <1>9, <1>10, <1>11

\* A new answer in a slot is protected like the others.
LEMMA StoreKept ==
  ASSUME IInv, Kept, MergedKept, NEW x \in Responders, Store(x)
  PROVE  Kept' /\ MergedKept'
<1>0. TypeOK BY DEF IInv
<1>. PICK c \in Calls :
            /\ xcall[x] = c /\ c.id \in Addr /\ c.bucket \in Buckets
            /\ c.req \in Requests \ Kills
            /\ request[c.id] = c.req /\ status[c.id] = "PROCESS"
            /\ Busy(c.id) /\ ~Finishing(c.id)
            /\ c \notin Stored(c.id)
            /\ \A d \in Stored(c.id) : d.id = c.id /\ d.req = c.req
            /\ Stored(c.id)' = Stored(c.id) \cup {c}
            /\ \A a \in Addr \ {c.id} : slots'[a] = slots[a]
            /\ UNCHANGED <<status, request, cq, replies, holding, dispatchQueue, wpc, wcall,
                           answers, xcall, process>>
            /\ xpc' = [xpc EXCEPT ![x] = "count"] /\ process = "up"
  BY StoreFacts
<1>. PICK b \in Addr : b = c.id OBVIOUS
<1>1. EventsUnderway' = EventsUnderway BY DEF EventsUnderway
<1>2. \A a \in Addr : HasEvent(a)' <=> HasEvent(a) BY <1>1 DEF HasEvent
<1>3. \A a \in Addr \ {b} : Stored(a)' = Stored(a) BY DEF Stored
<1>4. \A a \in Addr : \A d \in Stored(a)' : d \in Stored(a) \/ (a = b /\ d = c)
  <2>. SUFFICES ASSUME NEW a \in Addr, NEW d \in Stored(a)'
                PROVE  d \in Stored(a) \/ (a = b /\ d = c)
    OBVIOUS
  <2>1. CASE a = b BY <2>1
  <2>2. CASE a # b BY <1>3, <2>2
  <2>. QED BY <2>1, <2>2
<1>5. Protected(b, c)
  <2>1. ~HasEvent(b) BY DEF IInv, EventsAlone, HasEvent
  <2>2. \A w \in Workers : Runs(w, b) => wpc[w] = "send" BY DEF IInv, WorkersAlone
  <2>. QED BY <2>1, <2>2 DEF Protected
<1>6. \A a \in Addr : \A d : Protected(a, d) => Protected(a, d)'
  BY <1>2 DEF Protected, Runs
<1>7. Kept' BY <1>4, <1>5, <1>6 DEF Kept
<1>8. MergedKept'
  <2>. SUFFICES ASSUME NEW y \in Responders, xpc'[y] = "finish"
                PROVE  answers[xcall[y].id] = Stored(xcall[y].id)'
    BY DEF MergedKept, Stored
  <2>1. xpc[y] = "finish" BY <1>0 DEF TypeOK
  <2>2. xcall[y].id # b BY <2>1 DEF Finishing
  <2>3. xcall[y].id \in Addr BY <1>0, <2>1 DEF TypeOK, Calls
  <2>4. slots'[xcall[y].id] = slots[xcall[y].id] BY <2>2, <2>3
  <2>. QED BY <2>1, <2>4 DEF MergedKept, Stored
<1>. QED BY <1>7, <1>8

\* The merge takes what the slots hold.
LEMMA MergeKept ==
  ASSUME IInv, Kept, MergedKept, NEW x \in Responders, Merge(x)
  PROVE  Kept' /\ MergedKept'
<1>0. TypeOK BY DEF IInv
<1>g. /\ xpc[x] = "count" /\ xpc' = [xpc EXCEPT ![x] = "finish"]
      /\ answers' = [answers EXCEPT ![xcall[x].id] = Stored(xcall[x].id)]
      /\ UNCHANGED <<status, request, cq, replies, holding, dispatchQueue, wpc, wcall,
                     slots, xcall>>
  BY DEF Merge, ResponderGoes, grpcVars, queueVars, workerVars
<1>1. xcall[x].id \in Addr BY <1>0, <1>g DEF TypeOK, Calls
<1>2. EventsUnderway' = EventsUnderway BY <1>g DEF EventsUnderway
<1>3. \A a \in Addr : HasEvent(a)' <=> HasEvent(a) BY <1>2 DEF HasEvent
<1>4. Kept' BY <1>g, <1>3, KeptSame DEF Runs
<1>5. \A a : Stored(a)' = Stored(a) BY <1>g DEF Stored
<1>6. MergedKept'
  <2>. SUFFICES ASSUME NEW y \in Responders, xpc'[y] = "finish"
                PROVE  answers'[xcall[y].id] = Stored(xcall[y].id)
    BY <1>g, <1>5 DEF MergedKept, Stored
  <2>1. CASE y = x BY <1>0, <1>g, <1>1, <2>1 DEF TypeOK
  <2>2. CASE y # x
    <3>1. xpc[y] = "finish" BY <1>0, <1>g, <2>2 DEF TypeOK
    <3>2. xcall[y].id \in Addr BY <1>0, <3>1 DEF TypeOK, Calls
    <3>3. Counts(x) BY <1>g DEF Counts
    <3>4. xcall[y].id # xcall[x].id BY <1>1, <2>2, <3>1, <3>3 DEF IInv, MergedAlone
    <3>5. answers'[xcall[y].id] = answers[xcall[y].id]
      BY <1>0, <1>g, <1>1, <3>2, <3>4 DEF TypeOK
    <3>. QED BY <3>1, <3>5 DEF MergedKept
  <2>. QED BY <2>1, <2>2
<1>. QED BY <1>4, <1>6

\* Where all answers are.
RInv == Kept /\ MergedKept

\* One worker's steps.
LEMMA WorkerRInv == ASSUME IInv, RInv, NEW w \in Workers, WorkerStep(w) PROVE RInv'
<1>0. TypeOK /\ Kept /\ MergedKept BY DEF IInv, RInv
<1>1. CASE LockCoarse(w) \/ LockFine(w) \/ Send(w) \/ Sent(w) \/ KillExit(w)
  <2>1. /\ UNCHANGED <<status, request, replies, slots, answers, xpc, xcall, cq,
                       holding, dispatchQueue>>
        /\ \/ UNCHANGED <<wpc, wcall>>
           \/ /\ wpc[w] = "register" /\ wpc' = [wpc EXCEPT ![w] = "registering"]
              /\ UNCHANGED wcall
           \/ /\ wpc[w] = "lockFine" /\ wpc' = [wpc EXCEPT ![w] = "fill"]
              /\ UNCHANGED wcall
           \/ /\ wpc' = [wpc EXCEPT ![w] = "idle"]
              /\ wcall' = [wcall EXCEPT ![w] = None]
    BY <1>1 DEF LockCoarse, LockFine, Send, Sent, KillExit, Exit, WorkerGoes, grpcVars,
       queueVars, workerVars, mapVars, entryVars, respVars
  <2>2. EventsUnderway' = EventsUnderway BY <2>1 DEF EventsUnderway
  <2>3. \A v \in Workers : \/ wpc'[v] = wpc[v] /\ wcall'[v] = wcall[v]
                           \/ /\ wpc[v] \in {"register", "registering", "lockFine", "fill"}
                              /\ wcall'[v] = wcall[v]
                           \/ wpc'[v] = "idle"
    BY <1>0, <2>1 DEF TypeOK
  <2>. QED BY <1>0, <2>1, <2>2, <2>3, ThreadsMove DEF RInv
<1>2. ASSUME NEW b \in Addr, Respawn(w, b) PROVE RInv'
  <2>1. /\ NewCallData(b) /\ wpc[w] = "proceed" /\ wpc' = [wpc EXCEPT ![w] = "register"]
        /\ UNCHANGED <<holding, dispatchQueue, wcall, slots, answers, xpc, xcall>>
    BY <1>2 DEF Respawn, WorkerGoes, queueVars, mapVars, entryVars, respVars
  <2>2. \A v \in Workers : wpc'[v] = wpc[v] \/ (wpc[v] = "proceed" /\ wpc'[v] = "register")
    BY <1>0, <2>1 DEF TypeOK
  <2>. QED BY <1>0, <2>1, <2>2, NewCallKeeps DEF RInv
<1>. QED BY <1>0, <1>1, <1>2, PopKept, DeleteKept, WipeKept, AckKept DEF WorkerStep, RInv

\* One response thread's steps.
LEMMA ResponderRInv == ASSUME IInv, RInv, NEW x \in Responders, ResponderStep(x) PROVE RInv'
<1>0. TypeOK /\ Kept /\ MergedKept BY DEF IInv, RInv
<1>1. ASSUME UNCHANGED <<grpcVars, queueVars, workerVars, slots, answers>>,
             \A y \in Responders : xpc'[y] = "finish" => xpc[y] = "finish" /\ xcall'[y] = xcall[y]
      PROVE  RInv'
  <2>1. EventsUnderway' = EventsUnderway BY <1>1 DEF EventsUnderway, grpcVars, queueVars
  <2>2. UNCHANGED <<status, request, replies, slots, answers, wpc, wcall>>
    BY <1>1 DEF grpcVars, workerVars
  <2>. QED BY <1>0, <1>1, <2>1, <2>2, ThreadsMove DEF RInv
<1>2. ASSUME NEW d \in bucketCq, Receive(x, d) \/ BucketLost(x, d) PROVE RInv'
  <2>1. UNCHANGED <<grpcVars, queueVars, workerVars, slots, answers>>
    BY <1>2 DEF Receive, BucketLost, Exit, mapVars, entryVars
  <2>2. \A y \in Responders : xpc'[y] = "finish" => xpc[y] = "finish" /\ xcall'[y] = xcall[y]
    BY <1>0, <1>2 DEF Receive, BucketLost, Exit, ResponderGoes, respVars, TypeOK
  <2>. QED BY <1>1, <2>1, <2>2
<1>3. CASE CheckEntry(x) \/ TakeFine(x) \/ CountDown(x)
  <2>1. UNCHANGED <<grpcVars, queueVars, workerVars, slots, answers>>
    BY <1>3 DEF CheckEntry, TakeFine, CountDown, Exit, mapVars, entryVars
  <2>2. \A y \in Responders : xpc'[y] = "finish" => xpc[y] = "finish" /\ xcall'[y] = xcall[y]
    BY <1>0, <1>3 DEF CheckEntry, TakeFine, CountDown, Exit, ResponderGoes, respVars, TypeOK
  <2>. QED BY <1>1, <2>1, <2>2
<1>. QED BY <1>0, <1>2, <1>3, StoreKept, MergeKept, FinishCallKept DEF ResponderStep, RInv

\* Every step keeps the answers.
LEMMA NextRInv == ASSUME IInv, RInv, [Next]_vars PROVE RInv'
<1>0. TypeOK /\ Kept /\ MergedKept BY DEF IInv, RInv
<1>1. ASSUME UNCHANGED <<grpcVars, queueVars, workerVars, slots, answers, respVars>> PROVE RInv'
  <2>1. EventsUnderway' = EventsUnderway BY <1>1 DEF EventsUnderway, grpcVars, queueVars
  <2>2. UNCHANGED <<status, request, replies, slots, answers, wpc, wcall, xpc, xcall>>
    BY <1>1 DEF grpcVars, workerVars, respVars
  <2>. QED BY <1>0, <2>1, <2>2, ThreadsMove DEF RInv
<1>2. ASSUME NEW p \in Pollers, PollerStep(p) PROVE RInv'
  <2>1. ASSUME NEW a \in Addr, PollerStart(p, a) PROVE RInv'
    <3>1. /\ NewCallData(a)
          /\ UNCHANGED <<holding, dispatchQueue, wpc, wcall, slots, answers, xpc, xcall>>
      BY <2>1 DEF PollerStart, workerVars, mapVars, entryVars, respVars
    <3>. QED BY <1>0, <3>1, NewCallKeeps DEF RInv
  <2>2. ASSUME EventsUnderway' = EventsUnderway,
               UNCHANGED <<status, request, replies, slots, answers, wpc, wcall, xpc, xcall>>
        PROVE  RInv'
    BY <1>0, <2>2, ThreadsMove DEF RInv
  <2>3. ASSUME NEW e \in cq, PollerNext(p, e) PROVE RInv'
    BY <1>0, <2>2, <2>3, NextEvents DEF PollerNext, workerVars, mapVars, entryVars, respVars
  <2>4. CASE PollerPush(p)
    BY <1>0, <2>2, <2>4, PushEvents
    DEF PollerPush, grpcVars, workerVars, mapVars, entryVars, respVars
  <2>. QED BY <1>2, <2>1, <2>3, <2>4 DEF PollerStep
<1>3. ASSUME NEW c \in calls, NEW ok \in BOOLEAN, BucketAnswer(c, ok) PROVE RInv'
  BY <1>1, <1>3 DEF BucketAnswer, mapVars, entryVars
<1>4. ASSUME NEW t \in Threads, MissedLookup(t) PROVE RInv'
  BY <1>1, <1>4 DEF MissedLookup, Exit, mapVars, entryVars
<1>5. ASSUME UNCHANGED vars PROVE RInv'
  BY <1>1, <1>5 DEF vars, mapVars, entryVars
<1>. QED
  BY <1>0, <1>2, <1>3, <1>4, <1>5, MatchKeeps, WorkerRInv, ResponderRInv DEF Next, Rest, RInv

\* Nothing is stored at first.
LEMMA InitRInv == ASSUME Init PROVE RInv
<1>1. \A a \in Addr : Stored(a) = {} BY DEF Init, Stored, NoSlots
<1>2. \A x \in Responders : xpc[x] = "idle" BY DEF Init
<1>. QED BY <1>1, <1>2 DEF RInv, Kept, MergedKept

\* The steps that touch the slots.
LEMMA SlotsMove ==
  ASSUME [Next]_vars
  PROVE  \/ slots' = slots
         \/ \E w \in Workers : Register(w) \/ Fill(w)
         \/ \E x \in Responders : Store(x)
<1>. USE DEF mapVars, entryVars
<1>1. ASSUME NEW p \in Pollers, PollerStep(p) PROVE slots' = slots
  BY <1>1 DEF PollerStep, PollerStart, PollerNext, PollerPush
<1>2. ASSUME NEW w \in Workers, WorkerStep(w) PROVE slots' = slots \/ Register(w) \/ Fill(w)
  BY <1>2 DEF WorkerStep, Pop, Delete, LockCoarse, LockFine, AckKill, KillExit, Exit, Send,
     Sent, Respawn
<1>3. ASSUME NEW x \in Responders, ResponderStep(x) PROVE slots' = slots \/ Store(x)
  BY <1>3 DEF ResponderStep, Receive, BucketLost, Exit, CheckEntry, TakeFine, CountDown,
     Merge, FinishCall
<1>4. ASSUME NEW a \in Addr, NEW r \in Requests, GrpcMatch(a, r) PROVE slots' = slots
  BY <1>4 DEF GrpcMatch
<1>5. ASSUME NEW c \in calls, NEW ok \in BOOLEAN, BucketAnswer(c, ok) PROVE slots' = slots
  BY <1>5 DEF BucketAnswer
<1>6. ASSUME NEW t \in Threads, MissedLookup(t) PROVE slots' = slots
  BY <1>6 DEF MissedLookup, Exit
<1>7. ASSUME UNCHANGED vars PROVE slots' = slots BY <1>7 DEF vars
<1>. QED BY <1>1, <1>2, <1>3, <1>4, <1>5, <1>6, <1>7 DEF Next, Rest

\* No answer of a request that waits for its reply is ever overwritten or wiped.
THEOREM AnswersNeverLost == Spec => AnswersKept
<1>1. ASSUME IInv, RInv, [Next]_vars
      PROVE  \A a \in Addr : \A c \in Stored(a) : replies[c.req] = <<>> => c \in Stored(a)'
  <2>. SUFFICES ASSUME NEW a \in Addr, NEW c \in Stored(a), replies[c.req] = <<>>
                PROVE  c \in Stored(a)'
    OBVIOUS
  <2>0. Kept /\ MergedKept BY <1>1 DEF RInv
  <2>1. CASE slots' = slots BY <2>1 DEF Stored
  <2>2. ASSUME NEW w \in Workers, Register(w) \/ Fill(w) PROVE c \in Stored(a)'
    <3>1. PICK b \in Addr : /\ \A d \in Stored(b) : replies[d.req] # <<>>
                            /\ \A e \in Addr \ {b} : Stored(e)' = Stored(e)
      BY <1>1, <2>0, <2>2, WipeKept
    <3>2. a # b BY <3>1
    <3>. QED BY <3>1, <3>2
  <2>3. ASSUME NEW x \in Responders, Store(x) PROVE c \in Stored(a)'
    <3>1. PICK d \in Calls : /\ Stored(d.id)' = Stored(d.id) \cup {d}
                             /\ \A b \in Addr \ {d.id} : slots'[b] = slots[b]
      BY <1>1, <2>3, StoreFacts
    <3>2. CASE a = d.id BY <3>1, <3>2
    <3>3. CASE a # d.id
      <4>1. slots'[a] = slots[a] BY <3>1, <3>3
      <4>. QED BY <4>1 DEF Stored
    <3>. QED BY <3>2, <3>3
  <2>. QED BY <1>1, <2>1, <2>2, <2>3, SlotsMove
<1>2. RInv /\ IInv /\ [Next]_vars => RInv' BY NextRInv
<1>3. Init => RInv BY InitRInv
<1>. QED BY <1>1, <1>2, <1>3, InvariantCorrect, PTL DEF Spec, AnswersKept

-----------------------------------------------------------------------------
(* The refinement: every step is one of ScatterGather or changes nothing    *)
(* that ScatterGather speaks of.                                            *)

\* What a step that leaves requests, replies and slots alone means to a client.
LEMMA PromiseSame ==
  ASSUME UNCHANGED <<request, replies, slots>>
  PROVE  /\ Accepted' = Accepted
         /\ [q \in Requests |-> HeardOf(q)]' = [q \in Requests |-> HeardOf(q)]
         /\ [q \in Requests |-> MergedOf(q)]' = [q \in Requests |-> MergedOf(q)]
<1>1. Accepted' = Accepted BY DEF Accepted
<1>2. \A a \in Addr : Stored(a)' = Stored(a) BY DEF Stored
<1>3. \A q \in Requests : HeardOf(q)' = HeardOf(q) BY <1>2 DEF HeardOf
<1>4. \A q \in Requests : MergedOf(q)' = MergedOf(q) BY DEF MergedOf
<1>5. [q \in Requests |-> HeardOf(q)]' = [q \in Requests |-> HeardOf(q)] BY <1>3
<1>6. [q \in Requests |-> MergedOf(q)]' = [q \in Requests |-> MergedOf(q)] BY <1>4
<1>. QED BY <1>1, <1>5, <1>6

\* The process goes down ...
LEMMA ExitRefines ==
  ASSUME NEW why, why # "up", Exit(why)
  PROVE  SG!GoDown
<1>1. UNCHANGED <<request, replies, slots>> /\ process = "up" /\ process' # "up"
  BY DEF Exit, grpcVars, mapVars, entryVars
<1>. QED BY <1>1, PromiseSame DEF SG!GoDown

\* ... or works on.
LEMMA QuietRefines ==
  ASSUME UNCHANGED <<request, replies, slots, process>>
  PROVE  UNCHANGED SG!vars
BY PromiseSame DEF SG!vars

\* gRPC matches a request: it is accepted.
LEMMA MatchRefines ==
  ASSUME IInv, NEW a0 \in Addr, NEW r \in Requests, GrpcMatch(a0, r)
  PROVE  SG!Accept(r)
<1>g. /\ a0 \in armed /\ r \notin Accepted
      /\ request' = [request EXCEPT ![a0] = r]
      /\ UNCHANGED <<replies, slots, process>> /\ process = "up"
  BY DEF GrpcMatch, StaysUp, mapVars, entryVars
<1>i. request[a0] = None /\ request \in [Addr -> Requests \cup {None}]
  BY <1>g DEF IInv, AddressesHeld, TypeOK
<1>1. Accepted' = Accepted \cup {r} BY <1>g, <1>i, ThreadsAssumption DEF Accepted
<1>2. \A a \in Addr : Stored(a)' = Stored(a) BY <1>g DEF Stored
<1>3. \A q \in Requests : HeardOf(q)' = HeardOf(q) BY <1>g, <1>2 DEF HeardOf
<1>4. \A q \in Requests : MergedOf(q)' = MergedOf(q) BY <1>g DEF MergedOf
<1>5. [q \in Requests |-> HeardOf(q)]' = [q \in Requests |-> HeardOf(q)] BY <1>3
<1>6. [q \in Requests |-> MergedOf(q)]' = [q \in Requests |-> MergedOf(q)] BY <1>4
<1>. QED BY <1>g, <1>1, <1>5, <1>6 DEF SG!Accept

\* A CallData that is deleted has its reply: its request stays accepted.
LEMMA DeleteRefines ==
  ASSUME IInv, NEW w \in Workers, Delete(w)
  PROVE  UNCHANGED SG!vars
<1>g. /\ wpc[w] = "proceed" /\ status[wcall[w]] # "PROCESS"
      /\ request' = [request EXCEPT ![wcall[w]] = None]
      /\ UNCHANGED <<replies, slots, process>>
  BY DEF Delete, WorkerGoes, StaysUp, mapVars, entryVars
<1>i. wcall[w] \in Addr /\ request \in [Addr -> Requests \cup {None}]
  BY <1>g DEF IInv, TypeOK
<1>h. request[wcall[w]] # None => replies[request[wcall[w]]] # <<>>
  BY <1>g, <1>i DEF IInv, RequestsOnce
<1>1. Accepted' = Accepted
  BY <1>g, <1>i, <1>h, ThreadsAssumption DEF Accepted
<1>2. \A a \in Addr : Stored(a)' = Stored(a) BY <1>g DEF Stored
<1>3. \A q \in Requests : HeardOf(q)' = HeardOf(q) BY <1>g, <1>2 DEF HeardOf
<1>4. \A q \in Requests : MergedOf(q)' = MergedOf(q) BY <1>g DEF MergedOf
<1>5. [q \in Requests |-> HeardOf(q)]' = [q \in Requests |-> HeardOf(q)] BY <1>3
<1>6. [q \in Requests |-> MergedOf(q)]' = [q \in Requests |-> MergedOf(q)] BY <1>4
<1>. QED BY <1>g, <1>1, <1>5, <1>6 DEF SG!vars

\* What is wiped from an entry has been merged into a reply: it stays heard.
LEMMA WipeRefines ==
  ASSUME IInv, RInv, NEW w \in Workers, Register(w) \/ Fill(w)
  PROVE  UNCHANGED SG!vars
<1>0. TypeOK /\ Kept /\ MergedKept BY DEF IInv, RInv
<1>g. UNCHANGED <<request, replies, process>>
  BY DEF Register, Fill, WorkerGoes, StaysUp, grpcVars
<1>. PICK b \in Addr :
       /\ \A c \in Stored(b) : replies[c.req] # <<>>
       /\ Stored(b)' = {}
       /\ \A a \in Addr \ {b} : Stored(a)' = Stored(a)
  BY <1>0, WipeKept
<1>1. Accepted' = Accepted BY <1>g DEF Accepted
<1>2. ASSUME NEW c \in Stored(b)
      PROVE  \E i \in DOMAIN replies[c.req] :
                c.bucket \in {d.bucket : d \in replies[c.req][i].answers}
  <2>1. c.req \in Requests \ Kills /\ replies[c.req] # <<>> BY <1>0 DEF Kept
  <2>2. c.bucket \in Buckets BY <1>0, StoredType DEF Calls
  <2>3. /\ {d.bucket : d \in replies[c.req][1].answers} = Buckets
        /\ Len(replies[c.req]) = 1 /\ replies[c.req] \in Seq(Replies)
    BY <1>0, <2>1 DEF IInv, ReplyComplete, TypeOK
  <2>4. 1 \in DOMAIN replies[c.req] BY <2>3
  <2>. QED BY <2>2, <2>3, <2>4
<1>3. ASSUME NEW q \in Requests PROVE HeardOf(q)' = HeardOf(q)
  <2>1. HeardOf(q)' \subseteq HeardOf(q)
    <3>1. \A a \in Addr : Stored(a)' \subseteq Stored(a) BY <1>0
    <3>. QED BY <1>g, <3>1 DEF HeardOf
  <2>2. HeardOf(q) \subseteq HeardOf(q)'
    <3>. SUFFICES ASSUME NEW k \in HeardOf(q) PROVE k \in HeardOf(q)'
      OBVIOUS
    <3>1. CASE \E i \in DOMAIN replies[q] : k \in {c.bucket : c \in replies[q][i].answers}
      BY <1>g, <3>1 DEF HeardOf
    <3>2. ASSUME NEW a \in Addr, NEW c \in Stored(a), c.req = q, c.bucket = k
          PROVE  k \in HeardOf(q)'
      <4>1. CASE a = b BY <1>g, <1>2, <3>2, <4>1 DEF HeardOf
      <4>2. CASE a # b
        <5>1. c \in Stored(a)' BY <4>2
        <5>. QED BY <3>2, <5>1 DEF HeardOf
      <4>. QED BY <4>1, <4>2
    <3>. QED BY <3>1, <3>2 DEF HeardOf
  <2>. QED BY <2>1, <2>2
<1>4. \A q \in Requests : MergedOf(q)' = MergedOf(q) BY <1>g DEF MergedOf
<1>5. [q \in Requests |-> HeardOf(q)]' = [q \in Requests |-> HeardOf(q)] BY <1>3
<1>6. [q \in Requests |-> MergedOf(q)]' = [q \in Requests |-> MergedOf(q)] BY <1>4
<1>. QED BY <1>g, <1>1, <1>5, <1>6 DEF SG!vars

\* An answer that is stored is heard for the first time.
LEMMA StoreRefines ==
  ASSUME IInv, RInv, NEW x \in Responders, Store(x)
  PROVE  \E r \in Requests, k \in Buckets : SG!Hear(r, k)
<1>0. TypeOK /\ Kept /\ MergedKept BY DEF IInv, RInv
<1>. PICK c \in Calls :
            /\ xcall[x] = c /\ c.id \in Addr /\ c.bucket \in Buckets
            /\ c.req \in Requests \ Kills
            /\ request[c.id] = c.req /\ status[c.id] = "PROCESS"
            /\ Busy(c.id) /\ ~Finishing(c.id)
            /\ c \notin Stored(c.id)
            /\ \A d \in Stored(c.id) : d.id = c.id /\ d.req = c.req
            /\ Stored(c.id)' = Stored(c.id) \cup {c}
            /\ \A a \in Addr \ {c.id} : slots'[a] = slots[a]
            /\ UNCHANGED <<status, request, cq, replies, holding, dispatchQueue, wpc, wcall,
                           answers, xcall, process>>
            /\ xpc' = [xpc EXCEPT ![x] = "count"] /\ process = "up"
  BY StoreFacts
<1>. PICK b \in Addr, r \in Requests, k \in Buckets : b = c.id /\ r = c.req /\ k = c.bucket
  OBVIOUS
<1>1. replies[r] = <<>> /\ request[b] # None /\ r \in Accepted \ Kills
  BY ThreadsAssumption DEF IInv, RequestsOnce, Accepted
<1>2. \A a \in Addr \ {b} : Stored(a)' = Stored(a) BY DEF Stored
<1>3. k \notin HeardOf(r)
  <2>1. \A a \in Addr : \A d \in Stored(a) : d.req = r => a = b
    BY <1>0, <1>1 DEF Kept, Protected, IInv, RequestsOnce
  <2>2. \A d \in Stored(b) : d.bucket # k
    <3>1. \A d \in Stored(b) : d \in Calls BY <1>0, StoredType
    <3>2. \A d \in Calls : d.id = c.id /\ d.req = c.req /\ d.bucket = c.bucket => d = c
      BY DEF Calls
    <3>. QED BY <3>1, <3>2
  <2>3. DOMAIN replies[r] = {} BY <1>1
  <2>. QED BY <2>1, <2>2, <2>3 DEF HeardOf
<1>4. HeardOf(r)' = HeardOf(r) \cup {k}
  <2>1. \A a \in Addr : Stored(a) \subseteq Stored(a)' BY <1>2
  <2>2. HeardOf(r) \subseteq HeardOf(r)' BY <2>1 DEF HeardOf
  <2>3. k \in HeardOf(r)' BY DEF HeardOf
  <2>4. \A a \in Addr : \A d \in Stored(a)' : d \in Stored(a) \/ d = c
    <3>. SUFFICES ASSUME NEW a \in Addr PROVE \A d \in Stored(a)' : d \in Stored(a) \/ d = c
      OBVIOUS
    <3>1. CASE a = b BY <3>1
    <3>2. CASE a # b BY <1>2, <3>2
    <3>. QED BY <3>1, <3>2
  <2>5. HeardOf(r)' \subseteq HeardOf(r) \cup {k} BY <2>4 DEF HeardOf
  <2>. QED BY <2>2, <2>3, <2>5
<1>5. ASSUME NEW q \in Requests, q # r PROVE HeardOf(q)' = HeardOf(q)
  <2>1. \A a \in Addr : {d \in Stored(a)' : d.req = q} = {d \in Stored(a) : d.req = q}
    <3>. SUFFICES ASSUME NEW a \in Addr
                  PROVE  {d \in Stored(a)' : d.req = q} = {d \in Stored(a) : d.req = q}
      OBVIOUS
    <3>1. CASE a = b BY <1>5, <3>1
    <3>2. CASE a # b BY <1>2, <3>2
    <3>. QED BY <3>1, <3>2
  <2>2. \A a \in Addr : \A d : d.req = q => (d \in Stored(a)' <=> d \in Stored(a))
    BY <2>1
  <2>. QED BY <2>2 DEF HeardOf
<1>6. [q \in Requests |-> HeardOf(q)]'
        = [[q \in Requests |-> HeardOf(q)] EXCEPT ![r] = @ \cup {k}]
  BY <1>4, <1>5
<1>7. \A q \in Requests : MergedOf(q)' = MergedOf(q) BY DEF MergedOf
<1>8. [q \in Requests |-> MergedOf(q)]' = [q \in Requests |-> MergedOf(q)] BY <1>7
<1>9. Accepted' = Accepted BY DEF Accepted
<1>10. SG!Hear(r, k) BY <1>1, <1>3, <1>6, <1>8, <1>9 DEF SG!Hear
<1>. QED BY <1>10

\* A Finish() that merges exactly what has been heard is the reply.
LEMMA FinishRefines ==
  ASSUME IInv, NEW b \in Addr, NEW reply \in Replies, Finish(b, reply),
         request[b] \in Requests, status[b] = "PROCESS",
         process = "up", UNCHANGED <<slots, process>>,
         HeardOf(request[b]) = IF request[b] \in Kills THEN {} ELSE Buckets,
         {c.bucket : c \in reply.answers} = HeardOf(request[b]),
         \A c \in reply.answers : c.req = request[b]
  PROVE  SG!Reply(request[b])
<1>. PICK r \in Requests : r = request[b] OBVIOUS
<1>. PICK heard : heard = HeardOf(r) OBVIOUS
<1>g. request' = request BY DEF Finish
<1>r. /\ replies'[r] # <<>> /\ Len(replies'[r]) = 1 /\ replies'[r][1] = reply
      /\ \A q \in Requests : q # r => replies'[q] = replies[q]
  BY FinishReplies
<1>d. DOMAIN replies'[r] = {1}
  <2>1. replies'[r] \in Seq(Replies) BY FinishTypeOK DEF IInv
  <2>. QED BY <1>r, <2>1
<1>1. replies[r] = <<>> /\ r \in Accepted
  BY ThreadsAssumption DEF IInv, RequestsOnce, Accepted
<1>2. Accepted' = Accepted BY <1>g, <1>r, <1>1 DEF Accepted
<1>3. \A a \in Addr : Stored(a)' = Stored(a) BY DEF Stored
<1>4. \A q \in Requests : q # r => HeardOf(q)' = HeardOf(q) BY <1>r, <1>3 DEF HeardOf
<1>5. HeardOf(r)' = HeardOf(r)
  <2>1. HeardOf(r) = {c.bucket : c \in {d \in UNION {Stored(a) : a \in Addr} : d.req = r}}
    <3>1. DOMAIN replies[r] = {} BY <1>1
    <3>. QED BY <3>1 DEF HeardOf
  <2>2. HeardOf(r)' = {c.bucket : c \in {d \in UNION {Stored(a) : a \in Addr} : d.req = r}}
                        \cup {c.bucket : c \in reply.answers}
    BY <1>d, <1>r, <1>3 DEF HeardOf
  <2>. QED BY <2>1, <2>2
<1>6. \A q \in Requests : q # r => MergedOf(q)' = MergedOf(q) BY <1>r DEF MergedOf
<1>7. MergedOf(r)' = <<heard>>
  <2>1. {c.bucket : c \in {d \in reply.answers : d.req = r}} = heard OBVIOUS
  <2>2. MergedOf(r)' = [i \in {1} |-> heard] BY <1>d, <1>r, <2>1 DEF MergedOf
  <2>. QED BY <2>2
<1>8. MergedOf(r) = <<>> BY <1>1 DEF MergedOf
<1>9. [q \in Requests |-> HeardOf(q)]' = [q \in Requests |-> HeardOf(q)] BY <1>4, <1>5
<1>10. [q \in Requests |-> MergedOf(q)]'
         = [[q \in Requests |-> MergedOf(q)] EXCEPT ![r] = <<heard>>]
  BY <1>6, <1>7
<1>. QED BY <1>1, <1>2, <1>8, <1>9, <1>10 DEF SG!Reply

\* A kill is acknowledged although nothing has been heard for it ...
LEMMA AckRefines ==
  ASSUME IInv, RInv, NEW w \in Workers, AckKill(w)
  PROVE  \E r \in Requests : SG!Reply(r)
<1>0. TypeOK /\ Kept /\ MergedKept BY DEF IInv, RInv
<1>. PICK ack : ack = [answers |-> {}, time |-> {}, kill |-> TRUE] OBVIOUS
<1>. PICK b : b = wcall[w] OBVIOUS
<1>g. /\ wpc[w] = "fill" /\ request[b] \in Kills /\ Finish(b, ack)
      /\ process = "up" /\ UNCHANGED <<slots, process>>
  BY DEF AckKill, WorkerGoes, StaysUp, mapVars, entryVars
<1>1. b \in Addr /\ Runs(w, b) BY <1>0, <1>g DEF TypeOK, Runs
<1>2. status[b] = "PROCESS" /\ request[b] \in Requests
  BY <1>g, <1>1, KillsAssumption DEF IInv, WorkersAlone
<1>3. ack \in Replies /\ ack.answers = {} BY DEF Replies, Times
<1>4. replies[request[b]] = <<>> BY <1>1, <1>2, ThreadsAssumption DEF IInv, RequestsOnce
<1>5. DOMAIN replies[request[b]] = {} BY <1>4
<1>6. HeardOf(request[b]) = {} BY <1>0, <1>g, <1>5 DEF HeardOf, Kept
<1>7. SG!Reply(request[b]) BY <1>g, <1>1, <1>2, <1>3, <1>6, FinishRefines
<1>. QED BY <1>2, <1>7

\* ... any other request is answered once every bucket has been heard.
LEMMA FinishCallRefines ==
  ASSUME IInv, RInv, NEW x \in Responders, FinishCall(x)
  PROVE  \E r \in Requests : SG!Reply(r)
<1>0. TypeOK /\ Kept /\ MergedKept BY DEF IInv, RInv
<1>. PICK b \in Addr, reply \in Replies :
            /\ xpc[x] = "finish" /\ b = xcall[x].id
            /\ request[b] \in Requests \ Kills /\ status[b] = "PROCESS"
            /\ reply.answers = answers[b] /\ Packed(b)
            /\ Finish(b, reply)
            /\ xpc' = [xpc EXCEPT ![x] = "idle"] /\ xcall' = [xcall EXCEPT ![x] = None]
            /\ UNCHANGED <<holding, dispatchQueue, wpc, wcall, slots, answers>>
  BY FinishCallFacts
<1>. PICK r \in Requests \ Kills : r = request[b] OBVIOUS
<1>g. process = "up" /\ UNCHANGED process BY DEF FinishCall, ResponderGoes, StaysUp
<1>1. answers[b] = Stored(b) BY <1>0 DEF MergedKept
<1>2. /\ {c.bucket : c \in Stored(b)} = Buckets /\ {c.req : c \in Stored(b)} = {r}
  BY <1>1 DEF Packed
<1>3. \A c \in Stored(b) : c.req = r BY <1>2
<1>4. replies[r] = <<>> BY ThreadsAssumption DEF IInv, RequestsOnce
<1>5. \A a \in Addr : \A c \in Stored(a) : c.req = r => a = b
  BY <1>0, <1>4, ThreadsAssumption DEF Kept, Protected, IInv, RequestsOnce
<1>6. HeardOf(r) = Buckets
  <2>1. DOMAIN replies[r] = {} BY <1>4
  <2>2. {d \in UNION {Stored(a) : a \in Addr} : d.req = r} = Stored(b) BY <1>3, <1>5
  <2>. QED BY <1>2, <2>1, <2>2 DEF HeardOf
<1>7. SG!Reply(request[b]) BY <1>g, <1>1, <1>2, <1>3, <1>6, FinishRefines
<1>. QED BY <1>7

\* One worker's steps.
LEMMA WorkerRefines ==
  ASSUME IInv, RInv, NEW w \in Workers, WorkerStep(w)
  PROVE  SG!Next \/ UNCHANGED SG!vars
<1>1. CASE Pop(w) \/ LockCoarse(w) \/ LockFine(w) \/ Send(w) \/ Sent(w)
  BY <1>1, QuietRefines
  DEF Pop, LockCoarse, LockFine, Send, Sent, WorkerGoes, StaysUp, grpcVars, mapVars, entryVars
<1>2. ASSUME NEW b \in Addr, Respawn(w, b) PROVE UNCHANGED SG!vars
  <2>1. status[b] = "FREE" BY <1>2 DEF Respawn, NewCallData
  <2>2. request[b] = None BY <2>1 DEF IInv, AddressesHeld
  <2>. QED BY <1>2, <2>2, QuietRefines
       DEF Respawn, NewCallData, WorkerGoes, StaysUp, mapVars, entryVars, IInv, TypeOK
<1>3. CASE KillExit(w) BY <1>3, ExitRefines DEF KillExit, SG!Next
<1>4. CASE AckKill(w) BY <1>4, AckRefines DEF SG!Next
<1>. QED BY <1>1, <1>2, <1>3, <1>4, DeleteRefines, WipeRefines DEF WorkerStep

\* One response thread's steps.
LEMMA ResponderRefines ==
  ASSUME IInv, RInv, NEW x \in Responders, ResponderStep(x)
  PROVE  SG!Next \/ UNCHANGED SG!vars
<1>1. ASSUME NEW d \in bucketCq, Receive(x, d) PROVE UNCHANGED SG!vars
  BY <1>1, QuietRefines DEF Receive, ResponderGoes, StaysUp, grpcVars, mapVars, entryVars
<1>2. ASSUME NEW d \in bucketCq, BucketLost(x, d) PROVE SG!Next
  BY <1>2, ExitRefines DEF BucketLost, SG!Next
<1>3. CASE CheckEntry(x)
  <2>1. CASE ResponderGoes(x, "check", "lockFine")
             /\ UNCHANGED <<grpcVars, queueVars, workerVars, mapVars, bucketVars, xcall>>
    BY <2>1, QuietRefines DEF ResponderGoes, StaysUp, grpcVars, mapVars, entryVars
  <2>2. CASE Exit("noEntry") BY <2>2, ExitRefines DEF SG!Next
  <2>. QED BY <1>3, <2>1, <2>2 DEF CheckEntry
<1>4. CASE TakeFine(x) \/ CountDown(x) \/ Merge(x)
  BY <1>4, QuietRefines
  DEF TakeFine, CountDown, Merge, ResponderGoes, StaysUp, grpcVars, mapVars, entryVars
<1>5. CASE Store(x) BY <1>5, StoreRefines DEF SG!Next
<1>6. CASE FinishCall(x) BY <1>6, FinishCallRefines DEF SG!Next
<1>. QED BY <1>1, <1>2, <1>3, <1>4, <1>5, <1>6 DEF ResponderStep

\* Every step.
LEMMA NextRefines ==
  ASSUME IInv, RInv, [Next]_vars
  PROVE  [SG!Next]_(SG!vars)
<1>1. ASSUME NEW a \in Addr, NEW r \in Requests, GrpcMatch(a, r) PROVE SG!Next
  BY <1>1, MatchRefines DEF SG!Next
<1>2. ASSUME NEW p \in Pollers, PollerStep(p) PROVE UNCHANGED SG!vars
  <2>1. ASSUME NEW b \in Addr, PollerStart(p, b) PROVE UNCHANGED SG!vars
    <3>1. status[b] = "FREE" BY <2>1 DEF PollerStart, NewCallData
    <3>2. request[b] = None BY <3>1 DEF IInv, AddressesHeld
    <3>. QED BY <2>1, <3>2, QuietRefines
         DEF PollerStart, NewCallData, StaysUp, mapVars, entryVars, IInv, TypeOK
  <2>2. ASSUME NEW e \in cq, PollerNext(p, e) PROVE UNCHANGED SG!vars
    BY <2>2, QuietRefines DEF PollerNext, StaysUp, mapVars, entryVars
  <2>3. CASE PollerPush(p)
    BY <2>3, QuietRefines DEF PollerPush, StaysUp, grpcVars, mapVars, entryVars
  <2>. QED BY <1>2, <2>1, <2>2, <2>3 DEF PollerStep
<1>3. ASSUME NEW c \in calls, NEW ok \in BOOLEAN, BucketAnswer(c, ok) PROVE UNCHANGED SG!vars
  BY <1>3, QuietRefines DEF BucketAnswer, StaysUp, grpcVars, mapVars, entryVars
<1>4. ASSUME NEW t \in Threads, MissedLookup(t) PROVE SG!Next
  BY <1>4, ExitRefines DEF MissedLookup, SG!Next
<1>5. ASSUME UNCHANGED vars PROVE UNCHANGED SG!vars
  BY <1>5, QuietRefines DEF vars, grpcVars, mapVars, entryVars
<1>. QED BY <1>1, <1>2, <1>3, <1>4, <1>5, WorkerRefines, ResponderRefines DEF Next, Rest

\* At first nothing is accepted, heard or answered.
LEMMA InitRefines == ASSUME Init PROVE SG!Init
<1>1. Accepted = {} BY ThreadsAssumption DEF Init, Accepted
<1>2. \A a \in Addr : Stored(a) = {} BY DEF Init, Stored, NoSlots
<1>3. \A q \in Requests : HeardOf(q) = {} /\ MergedOf(q) = <<>>
  <2>. SUFFICES ASSUME NEW q \in Requests PROVE HeardOf(q) = {} /\ MergedOf(q) = <<>>
    OBVIOUS
  <2>1. replies[q] = <<>> BY DEF Init
  <2>2. DOMAIN replies[q] = {} BY <2>1
  <2>3. HeardOf(q) = {} BY <1>2, <2>2 DEF HeardOf
  <2>4. MergedOf(q) = <<>> BY <2>1 DEF MergedOf
  <2>. QED BY <2>3, <2>4
<1>. QED BY <1>1, <1>3 DEF SG!Init, Init

\* The mid-tier keeps its promise whatever the number of its threads: a request is
\* answered once, after one answer of every bucket to it, and to no other, is heard.
THEOREM ServerKeepsPromise == Spec => Implements
<1>1. Init => SG!Init BY InitRefines
<1>2. IInv /\ RInv /\ [Next]_vars => [SG!Next]_(SG!vars) BY NextRefines
<1>3. IInv /\ RInv /\ [Next]_vars => RInv' BY NextRInv
<1>4. Init => RInv BY InitRInv
<1>. QED BY <1>1, <1>2, <1>3, <1>4, InvariantCorrect, PTL DEF Spec, Implements, SG!Spec
-----------------------------------------------------------------------------
(* Nothing is lost: every accepted call has its next step ahead.            *)

\* A step that takes no CallData out of everybody's hands.
LEMMA StillHeld ==
  ASSUME CallsHeld,
         \A a \in Addr : status'[a] # "FREE" /\ a \notin armed' =>
             \/ HasEvent(a)' \/ Busy(a)' \/ \E w \in Workers : Runs(w, a)'
             \/ /\ status[a] # "FREE" /\ a \notin armed
                /\ HasEvent(a) => HasEvent(a)'
                /\ Busy(a) => Busy(a)'
                /\ \A w \in Workers : Runs(w, a) => Runs(w, a)'
  PROVE  CallsHeld'
BY DEF CallsHeld

\* A step that asks no bucket and takes no answer away.
LEMMA StillComing ==
  ASSUME AnswersComing,
         \A a \in Addr : Busy(a)' \/ Sending(a)' =>
             /\ Busy(a) \/ Sending(a)
             /\ AskedOf(a)' \subseteq AskedOf(a)
             /\ \A c \in Pending \cup Stored(a) : c.id = a => c \in Pending' \cup Stored(a)'
  PROVE  AnswersComing'
<1>. SUFFICES ASSUME NEW a \in Addr, Busy(a)' \/ Sending(a)', NEW b \in AskedOf(a)'
              PROVE  \E c \in Pending' \cup Stored(a)' : c.id = a /\ c.bucket = b
  BY DEF AnswersComing
<1>1. b \in AskedOf(a) /\ (Busy(a) \/ Sending(a))
  OBVIOUS
<1>2. PICK c \in Pending \cup Stored(a) : c.id = a /\ c.bucket = b
  BY <1>1 DEF AnswersComing
<1>. QED BY <1>2

\* A step that leaves the answers and the sending workers alone.
LEMMA AnswersAlone ==
  ASSUME AnswersComing, UNCHANGED slots,
         Pending' = Pending, \A a \in Addr : Counting(a)' => Counting(a),
         \A w \in Workers : (wpc'[w] = "send" <=> wpc[w] = "send"),
         \A w \in Workers : wpc[w] = "send" => wcall'[w] = wcall[w] /\ wnext'[w] = wnext[w]
  PROVE  AnswersComing'
<1>1. \A a : Stored(a)' = Stored(a) BY DEF Stored
<1>2. \A a \in Addr : Busy(a)' => Busy(a) BY DEF Busy
<1>3. \A a \in Addr : Sending(a)' => Sending(a) BY DEF Sending
<1>4. \A a \in Addr : AskedOf(a)' = AskedOf(a) BY DEF AskedOf, Buckets
<1>. QED BY <1>1, <1>2, <1>3, <1>4, StillComing

\* A step that moves nothing but the process itself.
LEMMA NothingMoves ==
  ASSUME NoCallLost, UNCHANGED <<grpcVars, queueVars, workerVars, slots, bucketVars, respVars>>
  PROVE  NoCallLost'
<1>1. Pending' = Pending /\ \A a : Counting(a)' <=> Counting(a)
  BY DEF Pending, Carries, Counting, Counts, bucketVars, respVars
<1>2. EventsUnderway' = EventsUnderway BY DEF EventsUnderway, queueVars, grpcVars
<1>3. CallsHeld'
  BY <1>1, <1>2, StillHeld DEF NoCallLost, Busy, HasEvent, Runs, grpcVars, workerVars
<1>4. AnswersComing' BY <1>1, AnswersAlone DEF NoCallLost, workerVars
<1>. QED BY <1>3, <1>4 DEF NoCallLost

\* What gRPC does and what the pollers carry about.
LEMMA GrpcLoses ==
  ASSUME IInv, NoCallLost, NEW a0 \in Addr, NEW r \in Requests, GrpcMatch(a0, r)
  PROVE  NoCallLost'
<1>g. /\ armed' = armed \ {a0} /\ cq' = cq \cup {[tag |-> a0, kind |-> "request"]}
      /\ UNCHANGED <<status, holding, dispatchQueue, workerVars, slots, bucketVars, respVars>>
  BY DEF GrpcMatch, queueVars, mapVars, entryVars
<1>1. EventsUnderway' = EventsUnderway \cup {[tag |-> a0, kind |-> "request"]}
  BY <1>g DEF EventsUnderway
<1>2. HasEvent(a0)' /\ \A a \in Addr : HasEvent(a) => HasEvent(a)'
  <2>1. [tag |-> a0, kind |-> "request"].tag = a0 OBVIOUS
  <2>. QED BY <1>1, <2>1 DEF HasEvent
<1>3. Pending' = Pending /\ \A a : Counting(a)' <=> Counting(a)
  BY <1>g DEF Pending, Carries, Counting, Counts, bucketVars, respVars
<1>4. CallsHeld'
  BY <1>g, <1>2, <1>3, StillHeld DEF NoCallLost, Busy, Runs, workerVars
<1>5. AnswersComing'
  BY <1>g, <1>3, AnswersAlone DEF NoCallLost, workerVars
<1>. QED BY <1>4, <1>5 DEF NoCallLost

LEMMA PollersLose ==
  ASSUME IInv, NoCallLost, NEW p \in Pollers, PollerStep(p)
  PROVE  NoCallLost'
<1>0. TypeOK BY DEF IInv
<1>1. EventsUnderway' = EventsUnderway /\ UNCHANGED <<workerVars, slots, bucketVars, respVars>>
  <2>1. ASSUME NEW a \in Addr, PollerStart(p, a)
        PROVE  /\ EventsUnderway' = EventsUnderway
               /\ UNCHANGED <<workerVars, slots, bucketVars, respVars>>
    BY <2>1 DEF PollerStart, NewCallData, EventsUnderway, mapVars, entryVars
  <2>2. ASSUME NEW e \in cq, PollerNext(p, e)
        PROVE  /\ EventsUnderway' = EventsUnderway
               /\ UNCHANGED <<workerVars, slots, bucketVars, respVars>>
    BY <1>0, <2>2, NextEvents DEF PollerNext, mapVars, entryVars
  <2>3. CASE PollerPush(p)
    BY <1>0, <2>3, PushEvents DEF PollerPush, mapVars, entryVars
  <2>. QED BY <2>1, <2>2, <2>3 DEF PollerStep
<1>2. \A a \in Addr : status'[a] # "FREE" /\ a \notin armed' => status[a] # "FREE" /\ a \notin armed
  BY <1>0 DEF PollerStep, PollerStart, NewCallData, PollerNext, PollerPush, grpcVars, TypeOK
<1>3. Pending' = Pending /\ \A a : Counting(a)' <=> Counting(a)
  BY <1>1 DEF Pending, Carries, Counting, Counts, bucketVars, respVars
<1>4. CallsHeld'
  BY <1>1, <1>2, <1>3, StillHeld DEF NoCallLost, Busy, Runs, HasEvent, workerVars
<1>5. AnswersComing'
  BY <1>1, <1>3, AnswersAlone DEF NoCallLost, workerVars
<1>. QED BY <1>4, <1>5 DEF NoCallLost

\* A worker that takes an event has the CallData instead.
LEMMA PopLoses ==
  ASSUME IInv, NoCallLost, NEW w \in Workers, Pop(w)
  PROVE  NoCallLost'
<1>0. TypeOK BY DEF IInv
<1>. PICK e : e = Head(dispatchQueue) OBVIOUS
<1>g. /\ wpc[w] = "idle" /\ wpc' = [wpc EXCEPT ![w] = "proceed"]
      /\ wcall' = [wcall EXCEPT ![w] = e.tag]
      /\ UNCHANGED <<status, armed, wnext, slots, bucketVars, respVars>>
  BY DEF Pop, WorkerGoes, grpcVars, mapVars, entryVars
<1>h. EventsUnderway' = EventsUnderway \ {e} BY PopEvents
<1>1. Pending' = Pending /\ \A a : Counting(a)' <=> Counting(a)
  BY <1>g DEF Pending, Carries, Counting, Counts, bucketVars, respVars
<1>2. \A a \in Addr : HasEvent(a) => HasEvent(a)' \/ a = e.tag
  BY <1>h DEF HasEvent
<1>3. Runs(w, e.tag)' BY <1>0, <1>g DEF Runs, TypeOK
<1>4. \A a \in Addr : \A v \in Workers : Runs(v, a) => Runs(v, a)'
  BY <1>0, <1>g DEF Runs, TypeOK
<1>5. CallsHeld' BY <1>g, <1>1, <1>2, <1>3, <1>4, StillHeld DEF NoCallLost, Busy
<1>6. AnswersComing' BY <1>0, <1>g, <1>1, AnswersAlone DEF NoCallLost, TypeOK
<1>. QED BY <1>5, <1>6 DEF NoCallLost

\* The worker's steps before the sends: it keeps its CallData, which has no answers.
LEMMA WorkLoses ==
  ASSUME IInv, NoCallLost, NEW w \in Workers,
         wpc[w] \in {"proceed", "register", "registering", "lockFine"},
         \E to \in {"register", "registering", "lockFine", "fill"} :
             wpc' = [wpc EXCEPT ![w] = to],
         \A a \in Addr : a # wcall[w] => slots'[a] = slots[a],
         slots' = slots \/ wpc[w] # "proceed",
         \A a \in Addr : status'[a] # "FREE" /\ a \notin armed' => status[a] # "FREE" /\ a \notin armed,
         UNCHANGED <<cq, queueVars, wcall, wnext, bucketVars, respVars>>
  PROVE  NoCallLost'
<1>0. TypeOK BY DEF IInv
<1>1. Pending' = Pending /\ \A a : Counting(a)' <=> Counting(a)
  BY DEF Pending, Carries, Counting, Counts, bucketVars, respVars
<1>2. EventsUnderway' = EventsUnderway BY DEF EventsUnderway, queueVars
<1>3. \A a \in Addr : \A v \in Workers : Runs(v, a) => Runs(v, a)'
  BY <1>0 DEF Runs, TypeOK
<1>4. CallsHeld' BY <1>1, <1>2, <1>3, StillHeld DEF NoCallLost, Busy, HasEvent
<1>5. Runs(w, wcall[w]) /\ wcall[w] \in Addr BY <1>0 DEF Runs, TypeOK
<1>6. ~Busy(wcall[w]) /\ ~Sending(wcall[w])
  BY <1>5 DEF IInv, WorkersAlone, Runs, Sending
<1>7. \A v \in Workers : wpc'[v] = "send" <=> wpc[v] = "send" BY <1>0 DEF TypeOK
<1>8. \A a \in Addr : /\ Busy(a)' <=> Busy(a)
                      /\ Sending(a)' <=> Sending(a)
                      /\ AskedOf(a)' = AskedOf(a)
  BY <1>1, <1>7 DEF Busy, Sending, AskedOf, Buckets
<1>9. \A a \in Addr : a # wcall[w] => Stored(a)' = Stored(a) BY DEF Stored
<1>10. AnswersComing' BY <1>1, <1>6, <1>8, <1>9, StillComing DEF NoCallLost
<1>. QED BY <1>4, <1>10 DEF NoCallLost

\* The worker that has the CallData of a finished call deletes it.
LEMMA DeleteLoses ==
  ASSUME IInv, NoCallLost, NEW w \in Workers, Delete(w)
  PROVE  NoCallLost'
<1>0. TypeOK BY DEF IInv
<1>g. /\ wpc[w] = "proceed" /\ wpc' = [wpc EXCEPT ![w] = "idle"]
      /\ status' = [status EXCEPT ![wcall[w]] = "FREE"]
      /\ wcall' = [wcall EXCEPT ![w] = None]
      /\ UNCHANGED <<armed, cq, queueVars, wnext, slots, bucketVars, respVars>>
  BY DEF Delete, WorkerGoes, mapVars, entryVars
<1>1. Pending' = Pending /\ \A a : Counting(a)' <=> Counting(a)
  BY <1>g DEF Pending, Carries, Counting, Counts, bucketVars, respVars
<1>2. EventsUnderway' = EventsUnderway BY <1>g DEF EventsUnderway, queueVars
<1>3. \A a \in Addr : \A v \in Workers : Runs(v, a) => Runs(v, a)' \/ status'[a] = "FREE"
  BY <1>0, <1>g DEF Runs, TypeOK
<1>4. CallsHeld'
  BY <1>0, <1>g, <1>1, <1>2, <1>3, StillHeld DEF NoCallLost, Busy, HasEvent, TypeOK
<1>5. AnswersComing' BY <1>0, <1>g, <1>1, AnswersAlone DEF NoCallLost, TypeOK
<1>. QED BY <1>4, <1>5 DEF NoCallLost

\* A call that is finished has its event.
LEMMA FinishLoses ==
  ASSUME IInv, NoCallLost, NEW a0 \in Addr, NEW reply, Finish(a0, reply),
         UNCHANGED <<queueVars, wcall, wnext, slots, bucketVars>>,
         Pending' = Pending,
         \A a \in Addr : a # a0 => (Counting(a)' <=> Counting(a)),
         Counting(a0)' => Counting(a0),
         \A w \in Workers : \/ wpc'[w] = wpc[w]
                            \/ wcall[w] = a0 /\ wpc[w] = "fill" /\ wpc'[w] = "sleep"
  PROVE  NoCallLost'
<1>0. TypeOK BY DEF IInv
<1>g. /\ cq' = cq \cup {[tag |-> a0, kind |-> "finished"]}
      /\ status' = [status EXCEPT ![a0] = "FINISH"]
      /\ UNCHANGED <<armed, holding, dispatchQueue>>
  BY DEF Finish, queueVars
<1>1. EventsUnderway' = EventsUnderway \cup {[tag |-> a0, kind |-> "finished"]}
  BY <1>g DEF EventsUnderway
<1>2. HasEvent(a0)' /\ \A a \in Addr : HasEvent(a) => HasEvent(a)'
  <2>1. [tag |-> a0, kind |-> "finished"].tag = a0 OBVIOUS
  <2>. QED BY <1>1, <2>1 DEF HasEvent
<1>3. \A a \in Addr : a # a0 =>
         /\ Busy(a) => Busy(a)'
         /\ \A w \in Workers : Runs(w, a) => Runs(w, a)'
  BY DEF Busy, Runs
<1>4. \A a \in Addr : a # a0 => status'[a] = status[a] BY <1>0, <1>g DEF TypeOK
<1>5. CallsHeld' BY <1>g, <1>2, <1>3, <1>4, StillHeld DEF NoCallLost
<1>6. AnswersComing' BY AnswersAlone DEF NoCallLost
<1>. QED BY <1>5, <1>6 DEF NoCallLost

\* Before the first send no bucket has been asked.
LEMMA FillLoses ==
  ASSUME IInv, NoCallLost, NEW w \in Workers, Fill(w)
  PROVE  NoCallLost'
<1>0. TypeOK BY DEF IInv
<1>. PICK a0 \in Addr : a0 = wcall[w] BY <1>0 DEF Fill, WorkerGoes, TypeOK
<1>g. /\ wpc[w] = "fill" /\ wpc' = [wpc EXCEPT ![w] = "send"]
      /\ wnext' = [wnext EXCEPT ![w] = 0]
      /\ \A a \in Addr : a # a0 => slots'[a] = slots[a]
      /\ UNCHANGED <<grpcVars, queueVars, wcall, bucketVars, respVars>>
  BY <1>0 DEF Fill, WorkerGoes, TypeOK
<1>1. Pending' = Pending /\ \A a : Counting(a)' <=> Counting(a)
  BY <1>g DEF Pending, Carries, Counting, Counts, bucketVars, respVars
<1>2. EventsUnderway' = EventsUnderway BY <1>g DEF EventsUnderway, queueVars, grpcVars
<1>3. \A a \in Addr : \A v \in Workers : Runs(v, a) => Runs(v, a)'
  BY <1>0, <1>g DEF Runs, TypeOK
<1>4. CallsHeld' BY <1>g, <1>1, <1>2, <1>3, StillHeld DEF NoCallLost, Busy, HasEvent, grpcVars
<1>5. /\ wpc'[w] = "send" /\ wnext'[w] = 0 /\ wcall'[w] = a0
      /\ \A v \in Workers : v # w => wpc'[v] = wpc[v] /\ wnext'[v] = wnext[v]
  BY <1>0, <1>g DEF TypeOK
<1>6. AskedOf(a0)' = {} BY <1>5 DEF AskedOf, Buckets
<1>7. \A a \in Addr : a # a0 => /\ Sending(a)' => Sending(a)
                                /\ AskedOf(a)' \subseteq AskedOf(a)
                                /\ Stored(a)' = Stored(a)
                                /\ Busy(a)' => Busy(a)
  <2>. SUFFICES ASSUME NEW a \in Addr, a # a0
                PROVE  /\ Sending(a)' => Sending(a)
                       /\ AskedOf(a)' \subseteq AskedOf(a)
                       /\ Stored(a)' = Stored(a)
                       /\ Busy(a)' => Busy(a)
    OBVIOUS
  <2>1. Sending(a)' => Sending(a) BY <1>g, <1>5 DEF Sending
  <2>2. AskedOf(a)' \subseteq AskedOf(a) BY <1>g, <1>5 DEF AskedOf, Buckets
  <2>. QED BY <1>g, <1>1, <2>1, <2>2 DEF Stored, Busy
<1>8. AnswersComing'
  <2>. SUFFICES ASSUME NEW a \in Addr, Busy(a)' \/ Sending(a)', NEW b \in AskedOf(a)'
                PROVE  \E c \in Pending' \cup Stored(a)' : c.id = a /\ c.bucket = b
    BY DEF AnswersComing
  <2>1. a # a0 BY <1>6
  <2>. QED BY <1>1, <1>7, <2>1 DEF NoCallLost, AnswersComing
<1>. QED BY <1>4, <1>8 DEF NoCallLost

\* The bucket that is asked has its call under way.
LEMMA SendLoses ==
  ASSUME IInv, NoCallLost, NEW w \in Workers, Send(w)
  PROVE  NoCallLost'
<1>0. TypeOK BY DEF IInv
<1>. PICK a0 \in Addr : a0 = wcall[w] BY <1>0 DEF Send, TypeOK
<1>. DEFINE new == [id |-> wcall[w], bucket |-> wnext[w], req |-> request[wcall[w]]]
<1>g. /\ wpc[w] = "send" /\ calls' = calls \cup {new}
      /\ wnext' = [wnext EXCEPT ![w] = @ + 1]
      /\ UNCHANGED <<grpcVars, queueVars, wpc, wcall, slots, bucketCq, respVars>>
  BY DEF Send, mapVars, entryVars
<1>n. new.id = a0 /\ new.bucket = wnext[w] OBVIOUS
<1>. HIDE DEF new
<1>1. Pending' = Pending \cup {new} /\ \A a : Counting(a)' <=> Counting(a)
  BY <1>g DEF Pending, Carries, Counting, Counts, respVars
<1>2. EventsUnderway' = EventsUnderway BY <1>g DEF EventsUnderway, queueVars, grpcVars
<1>3. CallsHeld'
  BY <1>g, <1>1, <1>2, StillHeld DEF NoCallLost, Busy, HasEvent, Runs, grpcVars
<1>4. \A v \in Workers : v # w => wnext'[v] = wnext[v] /\ (wpc[v] = "send" => wcall[v] # a0)
  BY <1>0, <1>g DEF IInv, WorkersAlone, Runs, TypeOK
<1>5. wnext'[w] = wnext[w] + 1 /\ wnext[w] \in Nat BY <1>0, <1>g DEF TypeOK
<1>6. \A a \in Addr : Sending(a)' <=> Sending(a) BY <1>g DEF Sending
<1>7. AnswersComing'
  <2>. SUFFICES ASSUME NEW a \in Addr, Busy(a)' \/ Sending(a)', NEW b \in AskedOf(a)'
                PROVE  \E c \in Pending' \cup Stored(a)' : c.id = a /\ c.bucket = b
    BY DEF AnswersComing
  <2>1. Stored(a)' = Stored(a) BY <1>g DEF Stored
  <2>2. CASE a = a0
    <3>1. Sending(a) BY <1>g, <2>2 DEF Sending
    <3>2. b \in AskedOf(a) \/ b = wnext[w]
      BY <1>g, <1>4, <1>5, <2>2 DEF AskedOf, Buckets
    <3>. QED BY <1>n, <1>1, <2>1, <2>2, <3>1, <3>2 DEF NoCallLost, AnswersComing
  <2>3. CASE a # a0
    <3>1. Busy(a) \/ Sending(a) BY <1>n, <1>1, <1>6, <2>3 DEF Busy
    <3>2. b \in AskedOf(a) BY <1>g, <1>4, <2>3 DEF AskedOf, Buckets
    <3>. QED BY <1>1, <2>1, <3>1, <3>2 DEF NoCallLost, AnswersComing
  <2>. QED BY <2>2, <2>3
<1>. QED BY <1>3, <1>7 DEF NoCallLost

\* Once all are asked the CallData is left to the answers, and there is one to come.
LEMMA SentLoses ==
  ASSUME IInv, NoCallLost, NEW w \in Workers, Sent(w)
  PROVE  NoCallLost'
<1>0. TypeOK BY DEF IInv
<1>. PICK a0 \in Addr : a0 = wcall[w] BY <1>0 DEF Sent, WorkerGoes, TypeOK
<1>g. /\ wpc[w] = "send" /\ wpc' = [wpc EXCEPT ![w] = "idle"]
      /\ wcall' = [wcall EXCEPT ![w] = None]
      /\ ~(wnext[w] < NumBuckets)
      /\ UNCHANGED <<grpcVars, queueVars, wnext, slots, bucketVars, respVars>>
  BY DEF Sent, WorkerGoes, MoreToSend
<1>1. Pending' = Pending /\ \A a : Counting(a)' <=> Counting(a)
  BY <1>g DEF Pending, Carries, Counting, Counts, bucketVars, respVars
<1>2. EventsUnderway' = EventsUnderway BY <1>g DEF EventsUnderway, queueVars, grpcVars
<1>3. \A v \in Workers : v # w => ~(wpc[v] = "send" /\ wcall[v] = a0)
  BY <1>g DEF IInv, WorkersAlone, Runs
<1>4. AskedOf(a0) = Buckets
  BY <1>0, <1>g, <1>3, BucketsAssumption DEF AskedOf, Buckets, TypeOK
<1>5. Busy(a0)
  <2>1. Sending(a0) BY <1>g DEF Sending
  <2>2. 0 \in AskedOf(a0) BY <1>4, BucketsAssumption DEF Buckets
  <2>3. Stored(a0) = {}
    <3>1. SlotsAt(a0) /\ recvd[a0] = 0 /\ ~Counting(a0)
      BY <1>g, <2>1 DEF IInv, SlotsFilled, SendingAlone
    <3>2. \A i \in 1 .. NumBuckets : slots[a0][i] = None BY <3>1 DEF SlotsAt
    <3>3. DOMAIN slots[a0] = 1 .. NumBuckets BY <3>1 DEF SlotsAt
    <3>. QED BY <3>2, <3>3 DEF Stored
  <2>4. PICK c \in Pending \cup Stored(a0) : c.id = a0
    BY <2>1, <2>2 DEF NoCallLost, AnswersComing
  <2>. QED BY <2>3, <2>4 DEF Busy
<1>6. \A a \in Addr : Busy(a)' <=> Busy(a) BY <1>1 DEF Busy
<1>7. \A a \in Addr : a # a0 => \A v \in Workers : Runs(v, a) => Runs(v, a)'
  BY <1>0, <1>g DEF Runs, TypeOK
<1>8. CallsHeld'
  BY <1>g, <1>2, <1>5, <1>6, <1>7, StillHeld DEF NoCallLost, HasEvent, grpcVars
<1>9. \A v \in Workers : v # w => wpc'[v] = wpc[v] /\ wcall'[v] = wcall[v]
  BY <1>0, <1>g DEF TypeOK
<1>10. \A a \in Addr : Sending(a)' => Sending(a) BY <1>0, <1>g, <1>9 DEF Sending, TypeOK
<1>11. \A a \in Addr : AskedOf(a)' \subseteq AskedOf(a)
  <2>. SUFFICES ASSUME NEW a \in Addr PROVE AskedOf(a)' \subseteq AskedOf(a)
    OBVIOUS
  <2>1. CASE a = a0 BY <1>4, <2>1 DEF AskedOf, Buckets
  <2>2. CASE a # a0 BY <1>g, <1>9, <2>2 DEF AskedOf, Buckets
  <2>. QED BY <2>1, <2>2
<1>12. \A a : Stored(a)' = Stored(a) BY <1>g DEF Stored
<1>13. AnswersComing' BY <1>1, <1>6, <1>10, <1>11, <1>12, StillComing DEF NoCallLost
<1>. QED BY <1>8, <1>13 DEF NoCallLost

\* One worker's steps.
LEMMA WorkerLoses ==
  ASSUME IInv, NoCallLost, NEW w \in Workers, WorkerStep(w)
  PROVE  NoCallLost'
<1>0. TypeOK BY DEF IInv
<1>1. CASE LockCoarse(w)
  BY <1>1, WorkLoses DEF LockCoarse, WorkerGoes, grpcVars, entryVars
<1>2. CASE Register(w)
  <2>1. \A a \in Addr : a # wcall[w] => slots'[a] = slots[a]
    BY <1>0, <1>2 DEF Register, TypeOK
  <2>. QED BY <1>2, <2>1, WorkLoses DEF Register, WorkerGoes, grpcVars
<1>3. CASE LockFine(w)
  BY <1>3, WorkLoses DEF LockFine, WorkerGoes, grpcVars, entryVars
<1>4. ASSUME NEW b \in Addr, Respawn(w, b) PROVE NoCallLost'
  <2>1. \A a \in Addr : status'[a] # "FREE" /\ a \notin armed' => status[a] # "FREE" /\ a \notin armed
    BY <1>0, <1>4 DEF Respawn, NewCallData, TypeOK
  <2>. QED BY <1>4, <2>1, WorkLoses DEF Respawn, WorkerGoes, NewCallData, mapVars, entryVars
<1>5. CASE AckKill(w)
  <2>1. /\ wpc[w] = "fill" /\ wpc' = [wpc EXCEPT ![w] = "sleep"] /\ wcall[w] \in Addr
        /\ UNCHANGED <<queueVars, wcall, wnext, slots, bucketVars, respVars>>
        /\ Finish(wcall[w], [answers |-> {}, time |-> {}, kill |-> TRUE])
    BY <1>0, <1>5 DEF AckKill, WorkerGoes, mapVars, entryVars, TypeOK
  <2>2. Pending' = Pending /\ \A a : Counting(a)' <=> Counting(a)
    BY <2>1 DEF Pending, Carries, Counting, Counts, bucketVars, respVars
  <2>3. \A v \in Workers : \/ wpc'[v] = wpc[v]
                           \/ wcall[v] = wcall[w] /\ wpc[v] = "fill" /\ wpc'[v] = "sleep"
    BY <1>0, <2>1 DEF TypeOK
  <2>. QED BY <2>1, <2>2, <2>3, FinishLoses
<1>6. CASE KillExit(w)
  BY <1>6, NothingMoves DEF KillExit, Exit, mapVars, entryVars
<1>. QED
  BY <1>1, <1>2, <1>3, <1>4, <1>5, <1>6, PopLoses, DeleteLoses, FillLoses, SendLoses, SentLoses
  DEF WorkerStep

-----------------------------------------------------------------------------
(* ... and so has every answer.                                             *)

\* A step of the buckets or the response threads that leaves pending what is pending.
LEMMA AnswerMoves ==
  ASSUME IInv, NoCallLost, Pending' = Pending,
         \A x \in Responders : /\ Counts(x)' <=> Counts(x)
                               /\ Counts(x) => xcall'[x] = xcall[x],
         UNCHANGED <<grpcVars, queueVars, workerVars, slots>>
  PROVE  NoCallLost'
<1>1. \A a \in Addr : Counting(a)' <=> Counting(a) BY DEF Counting
<1>2. EventsUnderway' = EventsUnderway BY DEF EventsUnderway, queueVars, grpcVars
<1>3. CallsHeld'
  BY <1>1, <1>2, StillHeld DEF NoCallLost, Busy, HasEvent, Runs, grpcVars, workerVars
<1>4. AnswersComing' BY <1>1, AnswersAlone DEF NoCallLost, workerVars
<1>. QED BY <1>3, <1>4 DEF NoCallLost

\* The answer that is stored is not pending any more, but in a slot.
LEMMA StoreLoses ==
  ASSUME IInv, NoCallLost, NEW x \in Responders, Store(x)
  PROVE  NoCallLost'
<1>0. TypeOK BY DEF IInv
<1>. PICK c \in Calls :
            /\ xcall[x] = c /\ c.id \in Addr
            /\ Busy(c.id)
            /\ Stored(c.id)' = Stored(c.id) \cup {c}
            /\ \A a \in Addr \ {c.id} : slots'[a] = slots[a]
            /\ xpc' = [xpc EXCEPT ![x] = "count"]
  BY StoreFacts
<1>g. xpc[x] = "store" /\ UNCHANGED <<grpcVars, queueVars, workerVars, bucketVars, xcall>>
  BY DEF Store, ResponderGoes
<1>1. \A d \in Pending : d \in Pending' \/ d = c
  BY <1>0, <1>g DEF Pending, Carries, TypeOK, bucketVars
<1>2. \A a : Counting(a) => Counting(a)' BY <1>0, <1>g DEF Counting, Counts, TypeOK
<1>3. Counting(c.id)' BY <1>0, <1>g DEF Counting, Counts, TypeOK
<1>4. \A a \in Addr : Busy(a) => Busy(a)' BY <1>1, <1>2, <1>3 DEF Busy
<1>5. EventsUnderway' = EventsUnderway BY <1>g DEF EventsUnderway, queueVars, grpcVars
<1>6. CallsHeld'
  BY <1>g, <1>4, <1>5, StillHeld DEF NoCallLost, HasEvent, Runs, grpcVars, workerVars
<1>7. Pending' \subseteq Pending BY <1>0, <1>g DEF Pending, Carries, TypeOK, bucketVars
<1>8. \A a \in Addr : Counting(a)' => Counting(a) \/ a = c.id
  BY <1>0, <1>g DEF Counting, Counts, TypeOK
<1>9. \A a \in Addr : Busy(a)' => Busy(a) BY <1>7, <1>8 DEF Busy
<1>10. \A a \in Addr : /\ Sending(a)' <=> Sending(a)
                       /\ AskedOf(a)' = AskedOf(a)
  BY <1>g DEF Sending, AskedOf, Buckets, workerVars
<1>11. \A a \in Addr : a # c.id => Stored(a)' = Stored(a) BY DEF Stored
<1>12. \A a \in Addr : \A d \in Pending \cup Stored(a) : d.id = a => d \in Pending' \cup Stored(a)'
  <2>. SUFFICES ASSUME NEW a \in Addr, NEW d \in Pending \cup Stored(a), d.id = a
                PROVE  d \in Pending' \cup Stored(a)'
    OBVIOUS
  <2>1. CASE a = c.id BY <1>1, <2>1
  <2>2. CASE a # c.id BY <1>1, <1>11, <2>2
  <2>. QED BY <2>1, <2>2
<1>13. AnswersComing' BY <1>9, <1>10, <1>12, StillComing DEF NoCallLost
<1>. QED BY <1>6, <1>13 DEF NoCallLost

\* Fewer slots than buckets cannot hold an answer of each.
LEMMA SlotsTooFew ==
  ASSUME NEW k \in Nat, k < NumBuckets, NEW f \in [1 .. k -> Buckets]
  PROVE  \E b \in Buckets : \A i \in 1 .. k : f[i] # b
<1>. SUFFICES ASSUME \A b \in Buckets : \E i \in 1 .. k : f[i] = b
              PROVE  FALSE
  OBVIOUS
<1>1. f \in Surjection(1 .. k, Buckets) BY DEF Surjection
<1>2. ExistsSurjection(1 .. k, Buckets) BY <1>1 DEF ExistsSurjection
<1>3. Cardinality(Buckets) <= k BY <1>2, FS_SurjCardinalityBound
<1>4. Cardinality(Buckets) = NumBuckets BY BucketsAssumption, FS_Interval DEF Buckets
<1>. QED BY <1>3, <1>4, BucketsAssumption

\* An answer that is not the last leaves another to come.
LEMMA CountDownLoses ==
  ASSUME IInv, NoCallLost, NEW x \in Responders, CountDown(x)
  PROVE  NoCallLost'
<1>0. TypeOK BY DEF IInv
<1>. PICK a0 \in Addr : a0 = xcall[x].id
  BY <1>0 DEF CountDown, ResponderGoes, TypeOK, Calls
<1>g. /\ xpc[x] = "count" /\ xpc' = [xpc EXCEPT ![x] = "idle"]
      /\ xcall' = [xcall EXCEPT ![x] = None]
      /\ recvd[a0] # NumBuckets - 1
      /\ UNCHANGED <<grpcVars, queueVars, workerVars, slots, bucketVars>>
  BY DEF CountDown, ResponderGoes, IsLast
<1>1. Counting(a0) /\ Busy(a0) BY <1>g DEF Busy, Counting, Counts
<1>2. ~Sending(a0) BY <1>1 DEF IInv, SendingAlone, Sending
<1>3. \E c \in Pending : c.id = a0
  <2>1. SlotsAt(a0) BY <1>1 DEF IInv, SlotsFilled
  <2>. PICK k \in Nat : k = recvd[a0] + 1 /\ k < NumBuckets
    BY <1>0, <1>g, BucketsAssumption DEF TypeOK, Buckets
  <2>2. \A i \in 1 .. NumBuckets : slots[a0][i] # None <=> i \in 1 .. k
    <3>1. recvd[a0] \in Nat BY <1>0 DEF TypeOK, Buckets
    <3>2. \A i \in 1 .. NumBuckets : (i <= recvd[a0] \/ i = recvd[a0] + 1) <=> i \in 1 .. k
      BY <3>1, BucketsAssumption
    <3>. QED BY <1>1, <2>1, <3>2 DEF SlotsAt
  <2>3. /\ DOMAIN slots[a0] = 1 .. NumBuckets
        /\ \A i \in 1 .. k : i \in 1 .. NumBuckets /\ slots[a0][i] \in Calls
    <3>1. \A i \in 1 .. k : i \in 1 .. NumBuckets BY BucketsAssumption
    <3>. QED BY <2>1, <2>2, <3>1 DEF SlotsAt
  <2>4. \A d \in Stored(a0) : \E i \in 1 .. k : d = slots[a0][i]
    BY <2>2, <2>3 DEF Stored
  <2>. PICK f : f = [i \in 1 .. k |-> slots[a0][i].bucket] OBVIOUS
  <2>5. f \in [1 .. k -> Buckets] BY <2>3 DEF Calls
  <2>6. PICK b \in Buckets : \A i \in 1 .. k : f[i] # b BY <2>5, SlotsTooFew
  <2>7. \A d \in Stored(a0) : d.bucket # b
    <3>. SUFFICES ASSUME NEW d \in Stored(a0) PROVE d.bucket # b
      OBVIOUS
    <3>1. PICK i \in 1 .. k : d = slots[a0][i] BY <2>4
    <3>2. f[i] = d.bucket BY <3>1
    <3>. QED BY <2>6, <3>2
  <2>8. b \in AskedOf(a0) BY <1>2 DEF AskedOf, Sending
  <2>9. PICK c \in Pending \cup Stored(a0) : c.id = a0 /\ c.bucket = b
    BY <1>1, <2>8 DEF NoCallLost, AnswersComing
  <2>. QED BY <2>7, <2>9
<1>4. Pending' = Pending
  BY <1>0, <1>g DEF Pending, Carries, TypeOK, bucketVars
<1>5. \A a \in Addr : /\ Counting(a)' => Counting(a)
                      /\ Counting(a) => Counting(a)' \/ a = a0
  BY <1>0, <1>g DEF Counting, Counts, TypeOK
<1>6. \A a \in Addr : Busy(a) => Busy(a)' BY <1>3, <1>4, <1>5 DEF Busy
<1>7. EventsUnderway' = EventsUnderway BY <1>g DEF EventsUnderway, queueVars, grpcVars
<1>8. CallsHeld'
  BY <1>g, <1>6, <1>7, StillHeld DEF NoCallLost, HasEvent, Runs, grpcVars, workerVars
<1>9. AnswersComing' BY <1>g, <1>4, <1>5, AnswersAlone DEF NoCallLost, workerVars
<1>. QED BY <1>8, <1>9 DEF NoCallLost

\* One response thread's steps.
LEMMA ResponderLoses ==
  ASSUME IInv, NoCallLost, NEW x \in Responders, ResponderStep(x)
  PROVE  NoCallLost'
<1>0. TypeOK BY DEF IInv
<1>1. ASSUME NEW d \in bucketCq, Receive(x, d) PROVE NoCallLost'
  <2>1. Pending' = Pending
    BY <1>0, <1>1 DEF Receive, ResponderGoes, Pending, Carries, TypeOK
  <2>. QED
    BY <1>0, <1>1, <2>1, AnswerMoves DEF Receive, ResponderGoes, Counts, TypeOK, mapVars, entryVars
<1>2. ASSUME Exit("bucketLost") \/ Exit("noEntry") PROVE NoCallLost'
  BY <1>2, NothingMoves DEF Exit, mapVars, entryVars
<1>3. CASE CheckEntry(x) /\ ~Exit("noEntry")
  <2>1. Pending' = Pending
    BY <1>0, <1>3 DEF CheckEntry, ResponderGoes, Pending, Carries, TypeOK, bucketVars
  <2>. QED
    BY <1>0, <1>3, <2>1, AnswerMoves
       DEF CheckEntry, ResponderGoes, Counts, TypeOK, mapVars, entryVars
<1>4. CASE TakeFine(x)
  <2>1. Pending' = Pending
    BY <1>0, <1>4 DEF TakeFine, ResponderGoes, Pending, Carries, TypeOK, bucketVars
  <2>. QED
    BY <1>0, <1>4, <2>1, AnswerMoves DEF TakeFine, ResponderGoes, Counts, TypeOK, entryVars
<1>5. CASE Merge(x)
  <2>1. Pending' = Pending
    BY <1>0, <1>5 DEF Merge, ResponderGoes, Pending, Carries, TypeOK, bucketVars
  <2>. QED
    BY <1>0, <1>5, <2>1, AnswerMoves DEF Merge, ResponderGoes, Counts, TypeOK
<1>6. CASE FinishCall(x)
  <2>. PICK a0 \in Addr : a0 = xcall[x].id
    BY <1>0, <1>6 DEF FinishCall, ResponderGoes, TypeOK, Calls
  <2>1. /\ xpc[x] = "finish" /\ xpc' = [xpc EXCEPT ![x] = "idle"]
        /\ xcall' = [xcall EXCEPT ![x] = None]
        /\ UNCHANGED <<queueVars, workerVars, slots, bucketVars>>
        /\ Finish(a0, [answers |-> answers[a0], time |-> time[a0], kill |-> FALSE])
    BY <1>6 DEF FinishCall, ResponderGoes, mapVars, entryVars
  <2>2. Pending' = Pending BY <1>0, <2>1 DEF Pending, Carries, TypeOK, bucketVars
  <2>3. \A a \in Addr : /\ Counting(a)' => Counting(a)
                        /\ a # a0 => (Counting(a)' <=> Counting(a))
    BY <1>0, <2>1 DEF Counting, Counts, TypeOK
  <2>. QED BY <2>1, <2>2, <2>3, FinishLoses DEF workerVars
<1>. QED
  BY <1>1, <1>2, <1>3, <1>4, <1>5, <1>6, StoreLoses, CountDownLoses
  DEF ResponderStep, BucketLost, CheckEntry

\* Every step keeps every call.
LEMMA NextLoses == ASSUME IInv, NoCallLost, [Next]_vars PROVE NoCallLost'
<1>1. ASSUME NEW c \in calls, NEW ok \in BOOLEAN, BucketAnswer(c, ok) PROVE NoCallLost'
  <2>1. {d.call : d \in bucketCq}' = {d.call : d \in bucketCq} \cup {c}
    <3>1. [call |-> c, ok |-> ok].call = c OBVIOUS
    <3>. QED BY <1>1, <3>1 DEF BucketAnswer
  <2>2. calls' = calls \ {c} /\ UNCHANGED <<xpc, xcall>> BY <1>1 DEF BucketAnswer, respVars
  <2>3. Pending' = Pending BY <2>1, <2>2 DEF Pending, Carries
  <2>. QED BY <1>1, <2>3, AnswerMoves DEF BucketAnswer, Counts, respVars, mapVars, entryVars
<1>2. ASSUME NEW t \in Threads, MissedLookup(t) PROVE NoCallLost'
  BY <1>2, NothingMoves DEF MissedLookup, Exit, mapVars, entryVars
<1>3. ASSUME UNCHANGED vars PROVE NoCallLost'
  BY <1>3, NothingMoves DEF vars, mapVars, entryVars
<1>. QED
  BY <1>1, <1>2, <1>3, GrpcLoses, PollersLose, WorkerLoses, ResponderLoses DEF Next, Rest

\* No accepted call is lost: in every reachable state, and for every number of threads,
\* addresses and buckets, it has its event, its worker or an answer under way, and each
\* bucket it asked is pending or stored.
THEOREM CallsNeverLost == Spec => []NoCallLost
<1>1. ASSUME Init PROVE NoCallLost
  <2>1. \A a \in Addr : status[a] = "FREE" /\ ~Busy(a) /\ ~Sending(a)
    BY <1>1 DEF Init, Busy, Sending, Counting, Counts, Pending, Carries
  <2>. QED BY <2>1 DEF NoCallLost, CallsHeld, AnswersComing
<1>2. IInv /\ NoCallLost /\ [Next]_vars => NoCallLost' BY NextLoses
<1>. QED BY <1>1, <1>2, InvariantCorrect, PTL DEF Spec

\* Nobody comes to need a sleeper's mutex by a step that sends nothing and puts nobody to
\* sleep, as long as who comes to wait for a mutex has just replaced it.
LEMMA SleepersSame ==
  ASSUME SleepersAlone, Pending' \subseteq Pending,
         \A w \in Workers : \A a \in Addr :
             wpc'[w] = "sleep" /\ fine'[a] = w => wpc[w] = "sleep" /\ fine[a] = w,
         \A v \in Workers : wpc'[v] = "lockFine" =>
             \/ wpc[v] = "lockFine" /\ wcall'[v] = wcall[v]
             \/ wcall'[v] \in Addr /\ fine'[wcall'[v]] = None
  PROVE  SleepersAlone'
BY ThreadsAssumption DEF SleepersAlone, Threads

\* A worker keeps the mutexes of sleepers to themselves.
LEMMA WorkerSleepers ==
  ASSUME IInv, SleepersAlone, NEW w \in Workers, WorkerStep(w)
  PROVE  SleepersAlone'
<1>0. TypeOK BY DEF IInv
<1>1. CASE Send(w)
  <2>. DEFINE new == [id |-> wcall[w], bucket |-> wnext[w], req |-> request[wcall[w]]]
  <2>1. /\ wpc[w] = "send" /\ calls' = calls \cup {new}
        /\ UNCHANGED <<wpc, wcall, fine, bucketCq, xpc, xcall>>
    BY <1>1 DEF Send, mapVars, respVars
  <2>2. wcall[w] \in Addr /\ new.id = wcall[w] BY <1>0, <2>1 DEF TypeOK
  <2>. HIDE DEF new
  <2>3. Pending' = Pending \cup {new} BY <2>1 DEF Pending, Carries
  <2>4. fine[wcall[w]] = w BY <2>1, <2>2 DEF IInv, LocksHeld
  <2>. QED BY <2>1, <2>2, <2>3, <2>4 DEF SleepersAlone
<1>2. CASE AckKill(w)
  <2>1. /\ wpc[w] = "fill" /\ wpc' = [wpc EXCEPT ![w] = "sleep"]
        /\ UNCHANGED <<wcall, fine, calls, bucketCq, xpc, xcall>>
    BY <1>2 DEF AckKill, WorkerGoes, mapVars, bucketVars, respVars
  <2>2. Pending' = Pending BY <2>1 DEF Pending, Carries
  <2>. SUFFICES ASSUME NEW v \in Workers, NEW a \in Addr, wpc'[v] = "sleep", fine'[a] = v
                PROVE  /\ \A c \in Pending' : c.id # a
                       /\ \A u \in Workers : wpc'[u] = "lockFine" => wcall'[u] # a
    BY DEF SleepersAlone
  <2>3. CASE v = w
    <3>1. wcall[w] = a BY <2>1, <2>3 DEF IInv, LocksHeld
    <3>2. Runs(w, a) BY <2>1, <3>1 DEF Runs
    <3>3. ~Busy(a) BY <2>1, <3>2 DEF IInv, WorkersAlone
    <3>4. \A u \in Workers : Runs(u, a) => u = w BY <3>2 DEF IInv, WorkersAlone
    <3>. QED BY <1>0, <2>1, <2>2, <3>3, <3>4 DEF Busy, Runs, TypeOK
  <2>4. CASE v # w
    BY <1>0, <2>1, <2>2, <2>4 DEF SleepersAlone, TypeOK
  <2>. QED BY <2>3, <2>4
<1>3. CASE KillExit(w)
  <2>1. UNCHANGED <<wpc, wcall, fine, calls, bucketCq, xpc, xcall>>
    BY <1>3 DEF KillExit, Exit, workerVars, mapVars, bucketVars, respVars
  <2>2. Pending' = Pending BY <2>1 DEF Pending, Carries
  <2>. QED BY <2>1, <2>2 DEF SleepersAlone
<1>4. CASE Register(w)
  <2>1. /\ wpc[w] = "registering" /\ wpc' = [wpc EXCEPT ![w] = "lockFine"]
        /\ fine' = [fine EXCEPT ![wcall[w]] = None]
        /\ UNCHANGED <<wcall, calls, bucketCq, xpc, xcall>>
    BY <1>4 DEF Register, WorkerGoes, bucketVars, respVars
  <2>2. Pending' = Pending BY <2>1 DEF Pending, Carries
  <2>3. wcall[w] \in Addr BY <1>0, <2>1 DEF TypeOK
  <2>4. \A v \in Workers : v # None BY ThreadsAssumption DEF Threads
  <2>. QED BY <1>0, <2>1, <2>2, <2>3, <2>4, SleepersSame DEF TypeOK
<1>5. CASE LockFine(w) \/ Sent(w)
  <2>1. /\ \/ wpc[w] = "lockFine" /\ wpc' = [wpc EXCEPT ![w] = "fill"]
              /\ fine' = [fine EXCEPT ![wcall[w]] = w] /\ wcall' = wcall
           \/ wpc[w] = "send" /\ wpc' = [wpc EXCEPT ![w] = "idle"]
              /\ fine' = [fine EXCEPT ![wcall[w]] = None]
              /\ wcall' = [wcall EXCEPT ![w] = None]
        /\ UNCHANGED <<calls, bucketCq, xpc, xcall>>
    BY <1>5 DEF LockFine, Sent, WorkerGoes, bucketVars, respVars
  <2>2. Pending' = Pending BY <2>1 DEF Pending, Carries
  <2>3. wcall[w] \in Addr BY <1>0, <2>1 DEF TypeOK
  <2>4. \A v \in Workers : v # None BY ThreadsAssumption DEF Threads
  <2>. QED BY <1>0, <2>1, <2>2, <2>3, <2>4, SleepersSame DEF TypeOK
<1>6. CASE Pop(w) \/ Delete(w) \/ LockCoarse(w) \/ Fill(w) \/ \E b \in Addr : Respawn(w, b)
  <2>1. /\ \E p \in {"idle", "proceed", "register", "registering", "send"} :
              wpc' = [wpc EXCEPT ![w] = p]
        /\ \E a : wcall' = [wcall EXCEPT ![w] = a]
        /\ UNCHANGED <<fine, calls, bucketCq, xpc, xcall>>
    <3>0. wcall = [wcall EXCEPT ![w] = wcall[w]] BY <1>0 DEF TypeOK
    <3>. QED BY <1>6, <3>0
                DEF Pop, Delete, LockCoarse, Fill, Respawn, WorkerGoes, mapVars, bucketVars,
                    respVars
  <2>2. Pending' = Pending BY <2>1 DEF Pending, Carries
  <2>. QED BY <1>0, <2>1, <2>2, SleepersSame DEF TypeOK
<1>. QED
  BY <1>1, <1>2, <1>3, <1>4, <1>5, <1>6 DEF WorkerStep

\* A response thread has a sleeper's mutex neither when it comes nor when it goes.
LEMMA ResponderSleepers ==
  ASSUME IInv, SleepersAlone, NEW x \in Responders, ResponderStep(x)
  PROVE  SleepersAlone'
<1>0. TypeOK BY DEF IInv
<1>1. UNCHANGED <<wpc, wcall>>
  BY DEF ResponderStep, Receive, BucketLost, CheckEntry, TakeFine, Store, CountDown, Merge,
         FinishCall, Exit, workerVars
<1>2. \/ fine' = fine
      \/ \E a : fine' = [fine EXCEPT ![a] = x]
      \/ \E a : fine' = [fine EXCEPT ![a] = None]
  BY DEF ResponderStep, Receive, BucketLost, CheckEntry, TakeFine, Store, CountDown, Merge,
         FinishCall, Exit, mapVars
<1>3. Pending' \subseteq Pending
  <2>1. CASE \E d \in bucketCq : Receive(x, d)
    BY <1>0, <2>1 DEF Receive, ResponderGoes, Pending, Carries, TypeOK
  <2>2. CASE \/ \E d \in bucketCq : BucketLost(x, d)
             \/ CheckEntry(x) /\ Exit("noEntry")
    BY <2>2 DEF BucketLost, Exit, Pending, Carries, bucketVars, respVars
  <2>3. CASE CheckEntry(x) /\ ~Exit("noEntry")
    BY <1>0, <2>3 DEF CheckEntry, ResponderGoes, Pending, Carries, TypeOK, bucketVars
  <2>4. CASE TakeFine(x) \/ Store(x)
    BY <1>0, <2>4 DEF TakeFine, Store, ResponderGoes, Pending, Carries, TypeOK, bucketVars
  <2>5. CASE CountDown(x) \/ Merge(x) \/ FinishCall(x)
    <3>1. /\ \E p \in {"idle", "finish"} : xpc' = [xpc EXCEPT ![x] = p]
          /\ \E c : xcall' = [xcall EXCEPT ![x] = c]
          /\ UNCHANGED <<calls, bucketCq>>
      <4>0. xcall = [xcall EXCEPT ![x] = xcall[x]] BY <1>0 DEF TypeOK
      <4>. QED BY <2>5, <4>0 DEF CountDown, Merge, FinishCall, ResponderGoes, bucketVars
    <3>2. \A y \in Responders : Carries(y)' => Carries(y) /\ xcall'[y] = xcall[y]
      BY <1>0, <3>1 DEF Carries, TypeOK
    <3>. QED BY <3>1, <3>2 DEF Pending
  <2>. QED BY <2>1, <2>2, <2>3, <2>4, <2>5 DEF ResponderStep
<1>4. \A w \in Workers : w # None /\ w # x BY ThreadsAssumption DEF Threads
<1>5. \A w \in Workers : \A a \in Addr : fine'[a] = w => fine[a] = w
  BY <1>0, <1>2, <1>4 DEF TypeOK
<1>. QED BY <1>1, <1>3, <1>5, SleepersSame

\* Every step keeps the mutexes of sleepers to themselves.
LEMMA NextSleepers == ASSUME IInv, SleepersAlone, [Next]_vars PROVE SleepersAlone'
<1>1. ASSUME UNCHANGED <<wpc, wcall, fine, calls, bucketCq, xpc, xcall>> PROVE SleepersAlone'
  <2>1. Pending' = Pending BY <1>1 DEF Pending, Carries
  <2>. QED BY <1>1, <2>1 DEF SleepersAlone
<1>2. ASSUME NEW a \in Addr, NEW r \in Requests, GrpcMatch(a, r) PROVE SleepersAlone'
  BY <1>1, <1>2 DEF GrpcMatch, workerVars, mapVars, bucketVars, respVars
<1>3. ASSUME NEW p \in Pollers, PollerStep(p) PROVE SleepersAlone'
  BY <1>1, <1>3
     DEF PollerStep, PollerStart, PollerNext, PollerPush, workerVars, mapVars, bucketVars, respVars
<1>4. ASSUME NEW c \in calls, NEW ok \in BOOLEAN, BucketAnswer(c, ok) PROVE SleepersAlone'
  <2>1. {d.call : d \in bucketCq}' = {d.call : d \in bucketCq} \cup {c}
    <3>1. [call |-> c, ok |-> ok].call = c OBVIOUS
    <3>. QED BY <1>4, <3>1 DEF BucketAnswer
  <2>2. /\ calls' = calls \ {c}
        /\ UNCHANGED <<xpc, xcall, wpc, wcall, fine>>
    BY <1>4 DEF BucketAnswer, workerVars, mapVars, respVars
  <2>3. Pending' = Pending BY <2>1, <2>2 DEF Pending, Carries
  <2>. QED BY <2>2, <2>3 DEF SleepersAlone
<1>5. ASSUME NEW t \in Threads, MissedLookup(t) PROVE SleepersAlone'
  BY <1>1, <1>5 DEF MissedLookup, Exit, workerVars, mapVars, bucketVars, respVars
<1>6. ASSUME UNCHANGED vars PROVE SleepersAlone'
  BY <1>1, <1>6 DEF vars, workerVars, mapVars, bucketVars, respVars
<1>. QED
  BY <1>2, <1>3, <1>4, <1>5, <1>6, WorkerSleepers, ResponderSleepers DEF Next, Rest

\* In every reachable state nobody needs a sleeper's mutex.
LEMMA SleepersAlways == Spec => []SleepersAlone
<1>1. ASSUME Init PROVE SleepersAlone
  BY <1>1 DEF Init, SleepersAlone
<1>2. IInv /\ SleepersAlone /\ [Next]_vars => SleepersAlone' BY NextSleepers
<1>. QED BY <1>1, <1>2, InvariantCorrect, PTL DEF Spec

\* When every thread waits or sleeps, nothing holds the lock another waits for.
LEMMA NobodyBlocked ==
  ASSUME IInv, SleepersAlone, AllWait
  PROVE  /\ \A w \in Workers : wpc[w] = "sleep" \/ (wpc[w] = "idle" /\ dispatchQueue = <<>>)
         /\ \A x \in Responders : xpc[x] = "idle" /\ bucketCq = {}
<1>0. TypeOK BY DEF IInv
<1>1. coarse = None
  BY <1>0 DEF AllWait, WorkerWaits, IInv, LocksHeld, TypeOK
<1>2. \A a \in Addr : fine[a] = None \/ \E w \in Workers : fine[a] = w /\ wpc[w] = "sleep"
  <2>. SUFFICES ASSUME NEW a \in Addr, fine[a] # None
                PROVE  \E w \in Workers : fine[a] = w /\ wpc[w] = "sleep"
    OBVIOUS
  <2>1. fine[a] \in Workers \cup Responders BY <1>0 DEF TypeOK, Threads
  <2>2. CASE fine[a] \in Workers
    BY <2>2 DEF AllWait, WorkerWaits, IInv, LocksHeld
  <2>3. CASE fine[a] \in Responders
    BY <2>3 DEF AllWait, ResponderWaits, IInv, LocksHeld
  <2>. QED BY <2>1, <2>2, <2>3
<1>3. \A w \in Workers : wpc[w] # "lockFine"
  <2>. SUFFICES ASSUME NEW w \in Workers, wpc[w] = "lockFine" PROVE FALSE
    OBVIOUS
  <2>1. wcall[w] \in Addr BY <1>0 DEF TypeOK
  <2>2. fine[wcall[w]] # None BY DEF AllWait, WorkerWaits, FineFree
  <2>. QED BY <1>2, <2>1, <2>2 DEF SleepersAlone
<1>4. \A x \in Responders : xpc[x] # "lockFine"
  <2>. SUFFICES ASSUME NEW x \in Responders, xpc[x] = "lockFine" PROVE FALSE
    OBVIOUS
  <2>1. xcall[x].id \in Addr BY <1>0 DEF TypeOK, Calls
  <2>2. fine[xcall[x].id] # None BY DEF AllWait, ResponderWaits, FineFree
  <2>3. xcall[x] \in Pending BY DEF Pending, Carries
  <2>. QED BY <1>2, <2>1, <2>2, <2>3 DEF SleepersAlone
<1>. QED BY <1>1, <1>3, <1>4 DEF AllWait, WorkerWaits, ResponderWaits

\* With a thread of each kind the server cannot come to a standstill while a worker is
\* awake: once all threads wait, every accepted request has its reply, every finished
\* CallData is deleted and a CallData listens for each poller.
THEOREM ServerNeverStuck ==
  ASSUME Pollers # {}, Workers # {}, Responders # {}
  PROVE  Spec => []NeverStuck
<1>1. ASSUME IInv, NoCallLost, Listening, SleepersAlone PROVE NeverStuck
  <2>0. TypeOK BY <1>1 DEF IInv
  <2>. SUFFICES ASSUME AllWait, \E w \in Workers : wpc[w] # "sleep"
                PROVE  /\ \A a \in Addr : status[a] # "FREE" => a \in armed
                       /\ \A r \in Accepted : replies[r] # <<>>
                       /\ Cardinality(armed) = Cardinality(Pollers)
    BY DEF NeverStuck
  <2>1. /\ started = Pollers /\ cq = {} /\ calls = {} /\ bucketCq = {}
        /\ dispatchQueue = <<>>
        /\ \A p \in Pollers : holding[p] = None
        /\ \A w \in Workers : wpc[w] \in {"idle", "sleep"}
        /\ \A x \in Responders : xpc[x] = "idle"
    BY <1>1, <2>0, NobodyBlocked DEF AllWait, PollerWaits, TypeOK
  <2>2. EventsUnderway = {} /\ Pending = {} BY <2>1 DEF EventsUnderway, Pending, Carries
  <2>3. \A a \in Addr : ~HasEvent(a) /\ ~Busy(a) /\ \A w \in Workers : ~Runs(w, a)
    BY <2>1, <2>2 DEF HasEvent, Busy, Counting, Counts, Runs
  <2>4. \A a \in Addr : status[a] # "FREE" => a \in armed
    BY <1>1, <2>3 DEF NoCallLost, CallsHeld
  <2>5. \A a \in Addr : request[a] = None BY <1>1, <2>4 DEF IInv, AddressesHeld
  <2>6. \A r \in Accepted : replies[r] # <<>>
    BY <2>5, ThreadsAssumption DEF Accepted
  <2>7. RequestEvents = {} /\ Accepting = {} BY <2>1, <2>2 DEF RequestEvents, Accepting
  <2>8. Cardinality(armed) = Cardinality(started)
    BY <1>1, <2>7, FS_EmptySet, ListenerCounts DEF Listening
  <2>. QED BY <2>1, <2>4, <2>6, <2>8
<1>. QED BY <1>1, InvariantCorrect, CallsNeverLost, ListeningAlways, SleepersAlways, PTL
=============================================================================
