--------------------------- MODULE MidTierProofs ---------------------------
(* Theorems about MidTier for every number of threads, addresses, buckets   *)
(* and requests.                                                            *)
EXTENDS MidTierResponders

LEMMA InitTypeOK == ASSUME Init PROVE TypeOK
BY BucketsAssumption DEF Init, TypeOK, Buckets, Slots, NoSlots, Times

\* A step that only ends the process, or changes nothing at all.
LEMMA ExitTypeOK ==
    ASSUME TypeOK, NEW why \in {"killed", "bucketLost", "noEntry", "crashed"},
           Exit(why)
    PROVE  TypeOK'
BY DEF Exit, TypeOK, grpcVars, queueVars, workerVars, mapVars, entryVars, bucketVars, respVars

\* The variables a Finish() assigns keep their types.
LEMMA FinishTypeOK ==
    ASSUME TypeOK, NEW a \in Addr, NEW reply \in Replies, Finish(a, reply)
    PROVE  /\ status' \in [Addr -> {"FREE", "PROCESS", "FINISH"}]
           /\ request' \in [Addr -> Requests \cup {None}]
           /\ armed' \subseteq Addr
           /\ cq' \subseteq Events
           /\ replies' \in [Requests -> Seq(Replies)]
<1>1. \A r \in Requests : Append(replies[r], reply) \in Seq(Replies)
  BY AppendProperties DEF TypeOK
<1>2. replies' \in [Requests -> Seq(Replies)]
  BY <1>1 DEF TypeOK, Finish
<1>. QED
  BY <1>2 DEF TypeOK, Finish, Events

\* The slots of an entry hold bucket RPCs.
LEMMA StoredType == ASSUME TypeOK, NEW a \in Addr PROVE Stored(a) \subseteq Calls
<1>1. slots[a] \in Slots
  BY DEF TypeOK
<1>. QED
  BY <1>1 DEF Stored, Slots

\* One step per action of Next: the variables it assigns keep their types.
LEMMA NextTypeOK == ASSUME TypeOK, Next PROVE TypeOK'
<1>. USE ThreadsAssumption, BucketsAssumption, FlagsAssumption
     DEF TypeOK, grpcVars, queueVars, workerVars, mapVars, entryVars, bucketVars, respVars
<1>1. ASSUME NEW a \in Addr, NEW r \in Requests, GrpcMatch(a, r) PROVE TypeOK'
  BY <1>1 DEF GrpcMatch, StaysUp, Events
<1>2. ASSUME NEW p \in Pollers, NEW a \in Addr, PollerStart(p, a) PROVE TypeOK'
  BY <1>2 DEF PollerStart, NewCallData, StaysUp
<1>3. ASSUME NEW p \in Pollers, NEW e \in cq, PollerNext(p, e) PROVE TypeOK'
  BY <1>3 DEF PollerNext, StaysUp
<1>4. ASSUME NEW p \in Pollers, PollerPush(p) PROVE TypeOK'
  BY <1>4 DEF PollerPush, StaysUp
<1>5. ASSUME NEW w \in Workers, WorkerStep(w) PROVE TypeOK'
  <2>. USE DEF WorkerGoes, StaysUp
  <2>1. CASE Pop(w)
    <3>1. dispatchQueue \in Seq(Events) /\ dispatchQueue # <<>>
      BY <2>1 DEF Pop
    <3>2. Head(dispatchQueue) \in Events /\ Tail(dispatchQueue) \in Seq(Events)
      BY <3>1, HeadTailProperties
    <3>3. Head(dispatchQueue).tag \in Addr
      BY <3>2 DEF Events
    <3>. QED
      BY <2>1, <3>2, <3>3 DEF Pop
  <2>2. CASE Delete(w)
    BY <2>2 DEF Delete
  <2>3. CASE LockCoarse(w)
    BY <2>3 DEF LockCoarse
  <2>4. CASE Register(w)
    BY <2>4 DEF Register, Inserted, Buckets, Slots, NoSlots, Times
  <2>5. CASE LockFine(w)
    BY <2>5 DEF LockFine, Threads
  <2>6. CASE AckKill(w)
    <3>1. [answers |-> {}, time |-> {}, kill |-> TRUE] \in Replies
      BY DEF Replies, Times
    <3>. QED
      BY <2>6, <3>1, FinishTypeOK DEF AckKill
  <2>7. CASE KillExit(w)
    BY <2>7, ExitTypeOK DEF KillExit
  <2>8. CASE Fill(w)
    BY <2>8 DEF Fill, Slots, Buckets
  <2>9. CASE Send(w)
    BY <2>9 DEF Send, MoreToSend, Calls, Buckets
  <2>10. CASE Sent(w)
    BY <2>10 DEF Sent, Times
  <2>11. ASSUME NEW b \in Addr, Respawn(w, b) PROVE TypeOK'
    BY <2>11 DEF Respawn, NewCallData
  <2>. QED
    BY <1>5, <2>1, <2>2, <2>3, <2>4, <2>5, <2>6, <2>7, <2>8, <2>9, <2>10, <2>11
    DEF WorkerStep
<1>6. ASSUME NEW c \in calls, NEW ok \in BOOLEAN, BucketAnswer(c, ok) PROVE TypeOK'
  BY <1>6 DEF BucketAnswer, StaysUp
<1>7. ASSUME NEW x \in Responders, ResponderStep(x) PROVE TypeOK'
  <2>. USE DEF ResponderGoes, StaysUp
  <2>1. ASSUME NEW d \in bucketCq, Receive(x, d) PROVE TypeOK'
    BY <2>1 DEF Receive
  <2>2. ASSUME NEW d \in bucketCq, BucketLost(x, d) PROVE TypeOK'
    BY <2>2, ExitTypeOK DEF BucketLost
  <2>3. CASE CheckEntry(x)
    <3>1. CASE Exit("noEntry")
      BY <3>1, ExitTypeOK
    <3>2. CASE ~Exit("noEntry")
      BY <2>3, <3>2 DEF CheckEntry
    <3>. QED
      BY <3>1, <3>2
  <2>4. CASE TakeFine(x)
    BY <2>4 DEF TakeFine, Threads
  <2>5. CASE Store(x)
    <3>1. \A s \in Slots : \A k : [s EXCEPT ![k] = xcall[x]] \in Slots
      <4>1. xcall[x] \in Calls
        BY <2>5 DEF Store
      <4>. QED
        BY <4>1 DEF Slots
    <3>. QED
      BY <2>5, <3>1 DEF Store, Calls
  <2>6. CASE CountDown(x)
    BY <2>6 DEF CountDown, IsLast, Buckets, Calls
  <2>7. CASE Merge(x)
    <3>1. xcall[x].id \in Addr
      BY <2>7 DEF Merge, Calls
    <3>. QED
      BY <2>7, <3>1, StoredType DEF Merge, Times
  <2>8. CASE FinishCall(x)
    <3>1. xcall[x].id \in Addr
      BY <2>8 DEF FinishCall, Calls
    <3>2. [answers |-> answers[xcall[x].id], time |-> time[xcall[x].id],
           kill |-> FALSE] \in Replies
      BY <3>1 DEF Replies
    <3>. QED
      BY <2>8, <3>1, <3>2, FinishTypeOK DEF FinishCall
  <2>. QED
    BY <1>7, <2>1, <2>2, <2>3, <2>4, <2>5, <2>6, <2>7, <2>8 DEF ResponderStep
<1>8. ASSUME NEW t \in Threads, MissedLookup(t) PROVE TypeOK'
  BY <1>8, ExitTypeOK DEF MissedLookup
<1>9. CASE Rest
  BY <1>9 DEF Rest, vars
<1>. QED
  BY <1>1, <1>2, <1>3, <1>4, <1>5, <1>6, <1>7, <1>8, <1>9 DEF Next, PollerStep

\* Every reachable state is well typed: bucket numbers, count-downs and loop
\* counters stay in range whatever the interleaving of pollers, workers,
\* response threads and buckets.
THEOREM TypeCorrect == Spec => []TypeOK
<1>1. Init => TypeOK
  BY InitTypeOK
<1>2. TypeOK /\ [Next]_vars => TypeOK'
  <2>1. ASSUME TypeOK, UNCHANGED vars PROVE TypeOK'
    BY <2>1 DEF TypeOK, vars, grpcVars, queueVars, workerVars, mapVars,
                entryVars, bucketVars, respVars
  <2>. QED
    BY <2>1, NextTypeOK
<1>. QED
  BY <1>1, <1>2, PTL DEF Spec
-----------------------------------------------------------------------------
(* The inductive invariant.                                                *)

\* Nothing is under way when main has launched the threads.
LEMMA InitIInv == ASSUME Init PROVE IInv
<1>. USE ThreadsAssumption DEF Init
<1>1. TypeOK BY InitTypeOK
<1>2. EventsUnderway = {} /\ Pending = {} /\ OutstandingCalls = {}
  BY DEF EventsUnderway, Pending, OutstandingCalls, Carries
<1>3. \A a \in Addr : ~Busy(a) /\ ~Sending(a) /\ ~HasEvent(a)
  BY <1>2 DEF Busy, Sending, HasEvent, Counting, Counts
<1>4. \A w \in Workers : \A a \in Addr : ~Runs(w, a) BY DEF Runs
<1>5. AddressesHeld BY <1>3, <1>4 DEF AddressesHeld
<1>6. EventsUnique BY DEF EventsUnique
<1>7. EventsAlone BY <1>2 DEF EventsAlone
<1>8. WorkersAlone BY <1>4 DEF WorkersAlone
<1>9. CallsLive BY <1>2 DEF CallsLive
<1>10. CallsUnique BY DEF CallsUnique, Carries
<1>11. SlotsFilled BY <1>3 DEF SlotsFilled
<1>12. SendingAlone BY DEF SendingAlone
<1>13. WorkerTimeIn BY <1>3 DEF WorkerTimeIn
<1>14. LocksHeld BY DEF LocksHeld, Threads
<1>15. MergedAlone BY DEF MergedAlone
<1>16. RequestsOnce BY DEF RequestsOnce
<1>17. ReplyComplete BY DEF ReplyComplete
<1>18. EntryAlwaysFound BY DEF EntryAlwaysFound
<1>. QED
  BY <1>1, <1>5, <1>6, <1>7, <1>8, <1>9, <1>10, <1>11, <1>12, <1>13, <1>14,
     <1>15, <1>16, <1>17, <1>18 DEF IInv

\* An RPC under way has an entry, so CHECK at 552 lets the thread go on.
LEMMA CheckEntryKeeps ==
  ASSUME IInv, NEW x \in Responders, CheckEntry(x), TypeOK' PROVE IInv'
<1>1. xcall[x] \in OutstandingCalls BY DEF CheckEntry, OutstandingCalls
<1>2. xcall[x].id \in Addr BY DEF IInv, TypeOK, CheckEntry, Calls
<1>3. xcall[x].id \in registered BY <1>1, <1>2 DEF IInv, CallsLive
<1>. QED BY <1>3, CheckedKeeps DEF CheckEntry

\* Every step keeps the invariant: one lemma per action.
LEMMA NextIInv == ASSUME IInv, Next PROVE IInv'
<1>0. TypeOK' BY NextTypeOK DEF IInv
<1>1. ASSUME NEW p \in Pollers, PollerStep(p) PROVE IInv'
  BY <1>0, <1>1, PollerStartKeeps, PollerNextKeeps, PollerPushKeeps DEF PollerStep
<1>2. ASSUME NEW w \in Workers, WorkerStep(w) PROVE IInv'
  <2>1. ASSUME KillExit(w) PROVE IInv' BY <1>0, <2>1, ExitKeeps DEF KillExit
  <2>. QED
    BY <1>0, <1>2, <2>1, PopKeeps, RespawnKeeps, DeleteKeeps, LockCoarseKeeps,
       RegisterKeeps, LockFineKeeps, AckKillKeeps, FillKeeps, SendKeeps, SentKeeps
    DEF WorkerStep
<1>3. ASSUME NEW x \in Responders, ResponderStep(x) PROVE IInv'
  <2>1. ASSUME NEW d \in bucketCq, BucketLost(x, d) PROVE IInv'
    BY <1>0, <2>1, ExitKeeps DEF BucketLost
  <2>. QED
    BY <1>0, <1>3, <2>1, ReceiveKeeps, CheckEntryKeeps, TakeFineKeeps, StoreKeeps,
       CountDownKeeps, MergeKeeps, FinishCallKeeps
    DEF ResponderStep
<1>4. ASSUME NEW t \in Threads, MissedLookup(t) PROVE IInv'
  BY <1>0, <1>4, ExitKeeps DEF MissedLookup
<1>. QED
  BY <1>0, <1>1, <1>2, <1>3, <1>4, GrpcMatchKeeps, BucketAnswerKeeps,
     UnchangedKeeps DEF Next, Rest

\* The server keeps track of every CallData, event, bucket RPC and lock: the
\* inductive invariant holds in every reachable state.
THEOREM InvariantCorrect == Spec => []IInv
<1>1. Init => IInv BY InitIInv
<1>2. IInv /\ [Next]_vars => IInv'
  <2>1. ASSUME IInv, UNCHANGED vars PROVE IInv'
    <3>1. TypeOK'
      BY <2>1 DEF IInv, TypeOK, vars, grpcVars, queueVars, workerVars, mapVars,
                  entryVars, bucketVars, respVars
    <3>. QED BY <2>1, <3>1, UnchangedKeeps
  <2>. QED BY <2>1, NextIInv
<1>. QED BY <1>1, <1>2, PTL DEF Spec

-----------------------------------------------------------------------------
(* What it gives.                                                          *)

\* Every bucket RPC under way, wherever it is, belongs to the request its
\* address denotes: a reused address never brings a stale answer.
THEOREM AnswersNeverStale == Spec => []NoStaleAnswer
<1>1. IInv => NoStaleAnswer
  <2>1. IInv => OutstandingCalls \subseteq Calls
    BY DEF IInv, TypeOK, OutstandingCalls
  <2>. QED BY <2>1 DEF IInv, CallsLive, NoStaleAnswer, Calls
<1>. QED BY <1>1, InvariantCorrect, PTL

\* Whoever is inside a request's critical section owns its fine mutex, kills
\* and reused addresses included.
THEOREM CriticalSectionsOwned == Spec => []FineLockKept
<1>1. IInv => FineLockKept BY DEF IInv, TypeOK, LocksHeld, FineLockKept, Calls
<1>. QED BY <1>1, InvariantCorrect, PTL

\* No worker touches a CallData that has been deleted or handed to gRPC.
THEOREM WorkersNeverDangle == Spec => []NoUseAfterDelete
<1>1. ASSUME IInv PROVE NoUseAfterDelete
  <2>1. \A w \in Workers :
          /\ wpc[w] \in {"proceed", "register", "registering", "lockFine", "fill", "send"}
               => wcall[w] \in Addr /\ Runs(w, wcall[w])
          /\ wpc[w] = "proceed" => status[wcall[w]] # "FREE"
    BY <1>1 DEF IInv, TypeOK, Runs, AddressesHeld
  <2>2. \A w \in Workers :
          wpc[w] \in {"register", "registering", "lockFine", "fill", "send"} =>
             /\ status[wcall[w]] = "PROCESS"
             /\ request[wcall[w]] \in Requests
    BY <1>1, <2>1 DEF IInv, AddressesHeld, WorkersAlone
  <2>3. \A w \in Workers : wpc[w] \notin {"idle", "sleep"} => wcall[w] \notin armed
    BY <1>1, <2>1 DEF IInv, TypeOK, AddressesHeld
  <2>. QED BY <2>1, <2>2, <2>3 DEF NoUseAfterDelete
<1>. QED BY <1>1, InvariantCorrect, PTL

\* Every reply is the only one to its request and merges one answer of every
\* bucket to that request; a kill gets its acknowledgement.
THEOREM RepliesComplete == Spec => []ReplyComplete
<1>1. IInv => ReplyComplete BY DEF IInv
<1>. QED BY <1>1, InvariantCorrect, PTL

\* status_ always tells which operation an event reports, and no CallData is
\* handed to two workers.
THEOREM StatusNeverLies == Spec => []StatusTellsEvent
<1>1. ASSUME IInv PROVE StatusTellsEvent
  <2>. SUFFICES ASSUME NEW e \in EventsUnderway
       PROVE  /\ status[e.tag] = IF e.kind = "request" THEN "PROCESS" ELSE "FINISH"
              /\ \A f \in EventsUnderway : f.tag = e.tag => f = e
              /\ \A w \in Workers : wpc[w] \notin {"idle", "sleep"} => wcall[w] # e.tag
    BY DEF StatusTellsEvent
  <2>1. e.tag \in Addr
    <3>1. dispatchQueue \in Seq(Events) BY <1>1 DEF IInv, TypeOK
    <3>2. \A i \in DOMAIN dispatchQueue : dispatchQueue[i] \in Events BY <3>1
    <3>. QED BY <1>1, <3>2 DEF IInv, TypeOK, EventsUnderway, Events
  <2>2. \A f \in EventsUnderway : f.tag = e.tag => f = e
    <3>1. /\ \A f \in EventsUnderway :
                \/ f \in cq
                \/ \E p \in Pollers : holding[p] # None /\ f = holding[p]
                \/ \E i \in DOMAIN dispatchQueue : f = dispatchQueue[i]
      BY DEF EventsUnderway
    <3>. QED BY <1>1, <3>1 DEF IInv, EventsUnique
  <2>. QED BY <1>1, <2>1, <2>2 DEF IInv, EventsAlone, Runs, TypeOK
<1>. QED BY <1>1, InvariantCorrect, PTL

\* The CHECK at 552 never ends the process.
THEOREM EntriesFound == Spec => []EntryAlwaysFound
<1>1. IInv => EntryAlwaysFound BY DEF IInv
<1>. QED BY <1>1, InvariantCorrect, PTL

\* Without kills, the erase at 686 never destroys a mutex that is held.
THEOREM NoMutexErasedHeld == ASSUME Kills = {} PROVE Spec => []NoHeldMutexErased
<1>1. ASSUME IInv PROVE NoHeldMutexErased
  <2>. SUFFICES ASSUME NEW w \in Workers, wpc[w] = "registering"
                PROVE  fine[wcall[w]] = None
    BY DEF NoHeldMutexErased
  <2>1. wcall[w] \in Addr /\ Runs(w, wcall[w]) BY <1>1 DEF IInv, TypeOK, Runs
  <2>2. \A v \in Workers : fine[wcall[w]] # v
    BY <1>1, <2>1 DEF IInv, LocksHeld, WorkersAlone, Runs
  <2>3. \A x \in Responders : fine[wcall[w]] # x
    BY <1>1, <2>1 DEF IInv, LocksHeld, WorkersAlone, Runs, Busy, Pending, Carries,
                      Counting, Counts
  <2>. QED BY <1>1, <2>1, <2>2, <2>3 DEF IInv, TypeOK, Threads
<1>. QED BY <1>1, InvariantCorrect, PTL
=============================================================================
