--------------------------- MODULE MidTierWorkers ----------------------------
(* Every step of gRPC, the network pollers and the dispatch workers keeps   *)
(* the inductive invariant of MidTierInv.                                   *)
(*                                                                          *)
(* All these lemmas have the same shape.  Steps <1>a .. <1>f say how the    *)
(* step changes what the invariant is stated with: the events under way     *)
(* (a), the pending RPCs (b) and all RPCs under way (c), who counts (d),    *)
(* who runs a CallData (e), which addresses are busy (f) and which replies  *)
(* are packed (p); the other letters name facts about this very step.       *)
(* Steps <1>1 .. <1>14 are the conjuncts of IInv, in their order.           *)
EXTENDS MidTierInv, SequenceTheorems, TLAPS

\* The reply appended to an empty sequence is its only element.
LEMMA FirstReply ==
  ASSUME NEW S, NEW s \in Seq(S), s = <<>>, NEW z \in S
  PROVE  /\ Len(Append(s, z)) = 1
         /\ Append(s, z)[1] = z
         /\ Append(s, z) # <<>>
<1>1. Append(s, z) \in Seq(S) /\ Len(Append(s, z)) = Len(s) + 1 /\ Append(s, z)[Len(s) + 1] = z
  BY AppendProperties
<1>2. Len(s) = 0 OBVIOUS
<1>3. Len(<<>>) = 0 OBVIOUS
<1>. QED BY <1>1, <1>2, <1>3

\* Finish() of a call in state PROCESS sends the first reply to its request and
\* leaves every other request alone.
LEMMA FinishReplies ==
  ASSUME IInv, NEW a \in Addr, NEW reply \in Replies, Finish(a, reply),
         request[a] \in Requests, status[a] = "PROCESS"
  PROVE  /\ replies'[request[a]] # <<>>
         /\ Len(replies'[request[a]]) = 1
         /\ replies'[request[a]][1] = reply
         /\ \A r \in Requests : r # request[a] => replies'[r] = replies[r]
<1>1. TypeOK BY DEF IInv
<1>2. replies[request[a]] = <<>> BY ThreadsAssumption DEF IInv, RequestsOnce
<1>3. replies[request[a]] \in Seq(Replies) BY <1>1 DEF TypeOK
<1>4. replies'[request[a]] = Append(replies[request[a]], reply) BY <1>1 DEF Finish,
        TypeOK
<1>5. \A r \in Requests : r # request[a] => replies'[r] = replies[r] BY <1>1 DEF Finish, TypeOK
<1>. QED BY <1>2, <1>3, <1>4, <1>5, FirstReply

\* A Finish() with a complete reply keeps every reply complete.
LEMMA FinishReplyComplete ==
  ASSUME IInv, NEW a \in Addr, NEW reply \in Replies, Finish(a, reply),
         request[a] \in Requests, status[a] = "PROCESS",
         reply.kill <=> request[a] \in Kills,
         request[a] \notin Kills =>
              /\ {c.req : c \in reply.answers} = {request[a]}
              /\ {c.bucket : c \in reply.answers} = Buckets
              /\ reply.time = {"worker", "merge"}
  PROVE  ReplyComplete'
<1>1. ASSUME NEW r \in Requests, r # request[a] PROVE replies'[r] = replies[r]
  BY <1>1, FinishReplies
<1>2. /\ Len(replies'[request[a]]) = 1
      /\ replies'[request[a]][1] = reply
  BY FinishReplies
<1>3. ReplyComplete BY DEF IInv
<1>. HIDE DEF IInv, Finish
<1>. QED BY <1>1, <1>2, <1>3 DEF ReplyComplete

\* A CHECK that fails, or a crash, changes nothing else.
LEMMA ExitKeeps ==
  ASSUME IInv, NEW why \in {"killed", "bucketLost", "crashed"}, Exit(why), TypeOK'
  PROVE  IInv'
<1>. USE ThreadsAssumption, BucketsAssumption
     DEF Exit, grpcVars, queueVars, workerVars, mapVars,
         entryVars, bucketVars, respVars
<1>0. TypeOK BY DEF IInv
<1>a. EventsUnderway' = EventsUnderway BY DEF EventsUnderway
<1>b. Pending' = Pending BY DEF Pending, Carries
<1>c. OutstandingCalls' = OutstandingCalls BY DEF OutstandingCalls
<1>d. \A a \in Addr : Counting(a)' <=> Counting(a) BY DEF Counting, Counts
<1>e. \A v \in Workers : \A a \in Addr : Runs(v, a)' <=> Runs(v, a) BY <1>0 DEF Runs,
        TypeOK
<1>p. \A a \in Addr : Packed(a)' <=> Packed(a) BY DEF Packed
<1>f. \A a \in Addr :
         /\ Busy(a)' <=> Busy(a)
         /\ Sending(a)' <=> Sending(a)
         /\ HasEvent(a)' <=> HasEvent(a)
         /\ Finishing(a)' <=> Finishing(a)
  BY <1>0, <1>a, <1>b, <1>d DEF Busy, Sending, HasEvent, Finishing, TypeOK
<1>1. AddressesHeld' BY <1>e, <1>f DEF IInv, AddressesHeld
<1>2. EventsUnique' BY DEF IInv, EventsUnique
<1>3. EventsAlone' BY <1>0, <1>a, <1>f, <1>e DEF IInv, EventsAlone
<1>4. WorkersAlone' BY <1>0, <1>e, <1>f DEF IInv, WorkersAlone, TypeOK, Runs
<1>5. CallsLive' BY <1>c DEF IInv, CallsLive
<1>6. CallsUnique' BY DEF IInv, CallsUnique, Carries
<1>7. SlotsFilled' BY <1>b, <1>d, <1>f DEF IInv, SlotsFilled, SlotsAt
<1>8. SendingAlone' BY <1>0, <1>b, <1>d, <1>f DEF IInv, SendingAlone, TypeOK
<1>9. WorkerTimeIn' BY <1>f DEF IInv, WorkerTimeIn
<1>10. LocksHeld' BY <1>0 DEF IInv, LocksHeld, TypeOK, Threads
<1>11. MergedAlone' BY <1>b, <1>f, <1>p DEF IInv, MergedAlone, Counts
<1>12. RequestsOnce' BY DEF IInv, RequestsOnce
<1>13. ReplyComplete' BY DEF IInv, ReplyComplete
<1>14. EntryAlwaysFound' BY DEF EntryAlwaysFound
<1>. QED BY <1>1, <1>2, <1>3, <1>4, <1>5, <1>6, <1>7, <1>8, <1>9,
     <1>10, <1>11, <1>12, <1>13, <1>14 DEF IInv

\* A step of a server at rest, or a stutter, changes nothing at all.
LEMMA UnchangedKeeps ==
  ASSUME IInv, UNCHANGED vars, TypeOK'
  PROVE  IInv'
<1>. USE ThreadsAssumption, BucketsAssumption
     DEF vars, grpcVars, queueVars, workerVars, mapVars,
         entryVars, bucketVars, respVars
<1>0. TypeOK BY DEF IInv
<1>a. EventsUnderway' = EventsUnderway BY DEF EventsUnderway
<1>b. Pending' = Pending BY DEF Pending, Carries
<1>c. OutstandingCalls' = OutstandingCalls BY DEF OutstandingCalls
<1>d. \A a \in Addr : Counting(a)' <=> Counting(a) BY DEF Counting, Counts
<1>e. \A v \in Workers : \A a \in Addr : Runs(v, a)' <=> Runs(v, a) BY <1>0 DEF Runs,
        TypeOK
<1>p. \A a \in Addr : Packed(a)' <=> Packed(a) BY DEF Packed
<1>f. \A a \in Addr :
         /\ Busy(a)' <=> Busy(a)
         /\ Sending(a)' <=> Sending(a)
         /\ HasEvent(a)' <=> HasEvent(a)
         /\ Finishing(a)' <=> Finishing(a)
  BY <1>0, <1>a, <1>b, <1>d DEF Busy, Sending, HasEvent, Finishing, TypeOK
<1>1. AddressesHeld' BY <1>e, <1>f DEF IInv, AddressesHeld
<1>2. EventsUnique' BY DEF IInv, EventsUnique
<1>3. EventsAlone' BY <1>0, <1>a, <1>f, <1>e DEF IInv, EventsAlone
<1>4. WorkersAlone' BY <1>0, <1>e, <1>f DEF IInv, WorkersAlone, TypeOK, Runs
<1>5. CallsLive' BY <1>c DEF IInv, CallsLive
<1>6. CallsUnique' BY DEF IInv, CallsUnique, Carries
<1>7. SlotsFilled' BY <1>b, <1>d, <1>f DEF IInv, SlotsFilled, SlotsAt
<1>8. SendingAlone' BY <1>0, <1>b, <1>d, <1>f DEF IInv, SendingAlone, TypeOK
<1>9. WorkerTimeIn' BY <1>f DEF IInv, WorkerTimeIn
<1>10. LocksHeld' BY <1>0 DEF IInv, LocksHeld, TypeOK, Threads
<1>11. MergedAlone' BY <1>b, <1>f, <1>p DEF IInv, MergedAlone, Counts
<1>12. RequestsOnce' BY DEF IInv, RequestsOnce
<1>13. ReplyComplete' BY DEF IInv, ReplyComplete
<1>14. EntryAlwaysFound' BY DEF IInv, EntryAlwaysFound, StaysUp
<1>. QED BY <1>1, <1>2, <1>3, <1>4, <1>5, <1>6, <1>7, <1>8, <1>9,
     <1>10, <1>11, <1>12, <1>13, <1>14 DEF IInv

\* gRPC fills in a request that no CallData has: the armed CallData is in
\* nobody's hands, so its event is the only one with this tag.
LEMMA GrpcMatchKeeps ==
  ASSUME IInv, NEW a0 \in Addr, NEW r \in Requests, GrpcMatch(a0, r), TypeOK'
  PROVE  IInv'
<1>. USE ThreadsAssumption, BucketsAssumption
     DEF GrpcMatch, StaysUp, grpcVars, queueVars, workerVars, mapVars,
         entryVars, bucketVars, respVars
<1>0. TypeOK BY DEF IInv
<1>. DEFINE new == [tag |-> a0, kind |-> "request"]
<1>n. /\ armed' = armed \ {a0} /\ cq' = cq \cup {new}
      /\ new.tag = a0 /\ new.kind = "request"
      /\ request' = [request EXCEPT ![a0] = r]
  OBVIOUS
<1>h. /\ a0 \in armed /\ ~Busy(a0) /\ ~HasEvent(a0)
      /\ request[a0] = None /\ status[a0] = "PROCESS"
      /\ \A v \in Workers : ~Runs(v, a0)
  BY DEF IInv, AddressesHeld
<1>i. /\ \A c \in Addr : request[c] # r
      /\ replies[r] = <<>>
  BY DEF Accepted
<1>l. \A v \in Workers : ~(wpc[v] = "send" /\ wcall[v] = a0) BY <1>h DEF Runs
<1>m. \A d \in OutstandingCalls : d.id # a0
  BY <1>0, <1>h DEF Busy, OutstandingCalls, Pending, Counting, Carries, Counts, TypeOK
<1>a. EventsUnderway' = EventsUnderway \cup {new} BY <1>n DEF EventsUnderway
<1>b. Pending' = Pending BY DEF Pending, Carries
<1>c. OutstandingCalls' = OutstandingCalls BY DEF OutstandingCalls
<1>d. \A a \in Addr : Counting(a)' <=> Counting(a) BY DEF Counting, Counts
<1>e. \A v \in Workers : \A a \in Addr : Runs(v, a)' <=> Runs(v, a) BY <1>0 DEF Runs,
        TypeOK
<1>p. \A a \in Addr : a # a0 => (Packed(a)' <=> Packed(a)) BY <1>0, <1>n DEF Packed,
        TypeOK
<1>f. \A a \in Addr :
         /\ Busy(a)' <=> Busy(a)
         /\ Sending(a)' <=> Sending(a)
         /\ Finishing(a)' <=> Finishing(a)
  BY <1>0, <1>a, <1>b, <1>d, <1>n DEF Busy, Sending, Finishing, TypeOK
<1>q. \A a \in Addr : HasEvent(a)' <=> HasEvent(a) \/ a = a0 BY <1>a, <1>n DEF HasEvent
<1>1. AddressesHeld' BY <1>0, <1>e, <1>f, <1>q, <1>h, <1>n DEF IInv, AddressesHeld,
        TypeOK
<1>2. EventsUnique' BY <1>h, <1>n DEF IInv, EventsUnique, HasEvent, EventsUnderway
<1>3. EventsAlone'
  BY <1>0, <1>a, <1>e, <1>f, <1>q, <1>h, <1>n DEF IInv, EventsAlone, HasEvent, TypeOK
<1>4. WorkersAlone'
  <2>1. \A v \in Workers : \A a \in Addr : wpc[v] = "send" /\ Runs(v, a) => request'[a] = request[a]
    BY <1>0, <1>l, <1>n DEF TypeOK, Runs
  <2>. QED BY <1>0, <1>e, <1>f, <1>n, <2>1 DEF IInv, WorkersAlone, TypeOK, Runs
<1>5. CallsLive' BY <1>0, <1>c, <1>m, <1>n DEF IInv, CallsLive, TypeOK
<1>6. CallsUnique' BY DEF IInv, CallsUnique, Carries
<1>7. SlotsFilled'
  <2>1. ~(Busy(a0) \/ Sending(a0)) BY <1>l, <1>h DEF Sending, Runs
  <2>2. \A a \in Addr : a # a0 => request'[a] = request[a] BY <1>0, <1>n DEF TypeOK
  <2>. QED BY <1>b, <1>d, <1>f, <2>1, <2>2 DEF IInv, SlotsFilled, SlotsAt
<1>8. SendingAlone' BY <1>0, <1>b, <1>d, <1>f DEF IInv, SendingAlone, TypeOK
<1>9. WorkerTimeIn' BY <1>f DEF IInv, WorkerTimeIn
<1>10. LocksHeld' BY <1>0 DEF IInv, LocksHeld, TypeOK, Threads
<1>11. MergedAlone'
  BY <1>b, <1>f, <1>p, <1>h, <1>d DEF IInv, MergedAlone, Counts, Busy, Counting
<1>12. RequestsOnce' BY <1>0, <1>h, <1>i, <1>n DEF IInv, RequestsOnce, TypeOK
<1>13. ReplyComplete' BY DEF IInv, ReplyComplete
<1>14. EntryAlwaysFound' BY DEF IInv, EntryAlwaysFound, StaysUp
<1>. QED BY <1>1, <1>2, <1>3, <1>4, <1>5, <1>6, <1>7, <1>8, <1>9,
     <1>10, <1>11, <1>12, <1>13, <1>14 DEF IInv

\* A fresh CallData is allocated where nothing refers to any more.
LEMMA PollerStartKeeps ==
  ASSUME IInv, NEW p \in Pollers, NEW c \in Addr, PollerStart(p, c), TypeOK'
  PROVE  IInv'
<1>. USE ThreadsAssumption, BucketsAssumption
     DEF PollerStart, NewCallData, StaysUp, grpcVars, queueVars, workerVars, mapVars,
         entryVars, bucketVars, respVars
<1>0. TypeOK BY DEF IInv
<1>i. /\ ~Busy(c) /\ ~HasEvent(c) /\ request[c] = None
      /\ \A v \in Workers : ~Runs(v, c)
      /\ c \notin armed
  BY <1>0 DEF IInv, AddressesHeld, TypeOK
<1>k. request' = request BY <1>0, <1>i DEF TypeOK
<1>m. \A d \in OutstandingCalls : d.id # c
  BY <1>0, <1>i DEF Busy, OutstandingCalls, Pending, Counting, Carries, Counts, TypeOK
<1>a. EventsUnderway' = EventsUnderway BY DEF EventsUnderway
<1>b. Pending' = Pending BY DEF Pending, Carries
<1>c. OutstandingCalls' = OutstandingCalls BY DEF OutstandingCalls
<1>d. \A a \in Addr : Counting(a)' <=> Counting(a) BY DEF Counting, Counts
<1>e. \A v \in Workers : \A a \in Addr : Runs(v, a)' <=> Runs(v, a) BY <1>0 DEF Runs,
        TypeOK
<1>p. \A a \in Addr : Packed(a)' <=> Packed(a) BY <1>k DEF Packed
<1>f. \A a \in Addr :
         /\ Busy(a)' <=> Busy(a)
         /\ Sending(a)' <=> Sending(a)
         /\ HasEvent(a)' <=> HasEvent(a)
         /\ Finishing(a)' <=> Finishing(a)
  BY <1>0, <1>a, <1>b, <1>d DEF Busy, Sending, HasEvent, Finishing, TypeOK
<1>1. AddressesHeld' BY <1>0, <1>e, <1>f, <1>i, <1>k DEF IInv, AddressesHeld, TypeOK
<1>2. EventsUnique' BY DEF IInv, EventsUnique
<1>3. EventsAlone' BY <1>0, <1>a, <1>f, <1>e, <1>i DEF IInv, EventsAlone, HasEvent,
        TypeOK
<1>4. WorkersAlone' BY <1>0, <1>e, <1>f, <1>i, <1>k DEF IInv, WorkersAlone, TypeOK, Runs
<1>5. CallsLive' BY <1>0, <1>c, <1>m DEF IInv, CallsLive, TypeOK
<1>6. CallsUnique' BY DEF IInv, CallsUnique, Carries
<1>7. SlotsFilled' BY <1>b, <1>d, <1>f, <1>k DEF IInv, SlotsFilled, SlotsAt
<1>8. SendingAlone' BY <1>0, <1>b, <1>d, <1>f DEF IInv, SendingAlone, TypeOK
<1>9. WorkerTimeIn' BY <1>f DEF IInv, WorkerTimeIn
<1>10. LocksHeld' BY <1>0 DEF IInv, LocksHeld, TypeOK, Threads
<1>11. MergedAlone' BY <1>b, <1>f, <1>p DEF IInv, MergedAlone, Counts
<1>12. RequestsOnce' BY <1>0, <1>k, <1>i DEF IInv, RequestsOnce, TypeOK
<1>13. ReplyComplete' BY DEF IInv, ReplyComplete
<1>14. EntryAlwaysFound' BY DEF IInv, EntryAlwaysFound, StaysUp
<1>. QED BY <1>1, <1>2, <1>3, <1>4, <1>5, <1>6, <1>7, <1>8, <1>9,
     <1>10, <1>11, <1>12, <1>13, <1>14 DEF IInv

\* An event moves from the completion queue to a poller ...
LEMMA PollerNextKeeps ==
  ASSUME IInv, NEW p \in Pollers, NEW e \in cq, PollerNext(p, e), TypeOK'
  PROVE  IInv'
<1>. USE ThreadsAssumption, BucketsAssumption
     DEF PollerNext, StaysUp, grpcVars, queueVars, workerVars, mapVars,
         entryVars, bucketVars, respVars
<1>0. TypeOK BY DEF IInv
<1>g. e \in Events /\ e # None BY <1>0 DEF TypeOK
<1>h. holding' = [holding EXCEPT ![p] = e] /\ cq' = cq \ {e} OBVIOUS
<1>a. EventsUnderway' = EventsUnderway BY <1>0, <1>g, <1>h DEF EventsUnderway, TypeOK
<1>b. Pending' = Pending BY DEF Pending, Carries
<1>c. OutstandingCalls' = OutstandingCalls BY DEF OutstandingCalls
<1>d. \A a \in Addr : Counting(a)' <=> Counting(a) BY DEF Counting, Counts
<1>e. \A v \in Workers : \A a \in Addr : Runs(v, a)' <=> Runs(v, a) BY <1>0 DEF Runs,
        TypeOK
<1>p. \A a \in Addr : Packed(a)' <=> Packed(a) BY DEF Packed
<1>f. \A a \in Addr :
         /\ Busy(a)' <=> Busy(a)
         /\ Sending(a)' <=> Sending(a)
         /\ HasEvent(a)' <=> HasEvent(a)
         /\ Finishing(a)' <=> Finishing(a)
  BY <1>0, <1>a, <1>b, <1>d DEF Busy, Sending, HasEvent, Finishing, TypeOK
<1>1. AddressesHeld' BY <1>e, <1>f DEF IInv, AddressesHeld
<1>2. EventsUnique' BY <1>0, <1>g, <1>h DEF IInv, EventsUnique, TypeOK
<1>3. EventsAlone' BY <1>0, <1>a, <1>f, <1>e DEF IInv, EventsAlone
<1>4. WorkersAlone' BY <1>0, <1>e, <1>f DEF IInv, WorkersAlone, TypeOK, Runs
<1>5. CallsLive' BY <1>c DEF IInv, CallsLive
<1>6. CallsUnique' BY DEF IInv, CallsUnique, Carries
<1>7. SlotsFilled' BY <1>b, <1>d, <1>f DEF IInv, SlotsFilled, SlotsAt
<1>8. SendingAlone' BY <1>0, <1>b, <1>d, <1>f DEF IInv, SendingAlone, TypeOK
<1>9. WorkerTimeIn' BY <1>f DEF IInv, WorkerTimeIn
<1>10. LocksHeld' BY <1>0 DEF IInv, LocksHeld, TypeOK, Threads
<1>11. MergedAlone' BY <1>b, <1>f, <1>p DEF IInv, MergedAlone, Counts
<1>12. RequestsOnce' BY DEF IInv, RequestsOnce
<1>13. ReplyComplete' BY DEF IInv, ReplyComplete
<1>14. EntryAlwaysFound' BY DEF IInv, EntryAlwaysFound, StaysUp
<1>. QED BY <1>1, <1>2, <1>3, <1>4, <1>5, <1>6, <1>7, <1>8, <1>9,
     <1>10, <1>11, <1>12, <1>13, <1>14 DEF IInv

\* ... and from the poller to the tail of the dispatch queue.
LEMMA PollerPushKeeps ==
  ASSUME IInv, NEW p \in Pollers, PollerPush(p), TypeOK'
  PROVE  IInv'
<1>. USE ThreadsAssumption, BucketsAssumption
     DEF PollerPush, StaysUp, grpcVars, queueVars, workerVars, mapVars,
         entryVars, bucketVars, respVars
<1>0. TypeOK BY DEF IInv
<1>. DEFINE e == holding[p]
<1>g. e \in Events /\ e # None BY <1>0 DEF TypeOK
<1>h. holding' = [holding EXCEPT ![p] = None] /\ dispatchQueue' = Append(dispatchQueue, e)
  OBVIOUS
<1>i. /\ dispatchQueue \in Seq(Events)
      /\ DOMAIN dispatchQueue = 1 .. Len(dispatchQueue)
      /\ DOMAIN dispatchQueue' = 1 .. (Len(dispatchQueue) + 1)
      /\ Len(dispatchQueue) \in Nat
      /\ \A i \in 1 .. Len(dispatchQueue) : dispatchQueue'[i] = dispatchQueue[i]
      /\ dispatchQueue'[Len(dispatchQueue) + 1] = e
  BY <1>0, <1>g, <1>h, AppendProperties DEF TypeOK
<1>j. /\ \A i \in DOMAIN dispatchQueue' :
            i \in DOMAIN dispatchQueue \/ i = Len(dispatchQueue) + 1
      /\ DOMAIN dispatchQueue \subseteq DOMAIN dispatchQueue'
      /\ Len(dispatchQueue) + 1 \in DOMAIN dispatchQueue'
      /\ Len(dispatchQueue) + 1 \notin DOMAIN dispatchQueue
  BY <1>i
<1>a. EventsUnderway' = EventsUnderway
  BY <1>0, <1>g, <1>h, <1>i, <1>j DEF EventsUnderway, TypeOK
<1>b. Pending' = Pending BY DEF Pending, Carries
<1>c. OutstandingCalls' = OutstandingCalls BY DEF OutstandingCalls
<1>d. \A a \in Addr : Counting(a)' <=> Counting(a) BY DEF Counting, Counts
<1>e. \A v \in Workers : \A a \in Addr : Runs(v, a)' <=> Runs(v, a) BY <1>0 DEF Runs,
        TypeOK
<1>p. \A a \in Addr : Packed(a)' <=> Packed(a) BY DEF Packed
<1>f. \A a \in Addr :
         /\ Busy(a)' <=> Busy(a)
         /\ Sending(a)' <=> Sending(a)
         /\ HasEvent(a)' <=> HasEvent(a)
         /\ Finishing(a)' <=> Finishing(a)
  BY <1>0, <1>a, <1>b, <1>d DEF Busy, Sending, HasEvent, Finishing, TypeOK
<1>1. AddressesHeld' BY <1>e, <1>f DEF IInv, AddressesHeld
<1>2. EventsUnique'
  <2>1. \A q \in Pollers : holding'[q] # None => q # p /\ holding'[q] = holding[q]
    BY <1>0, <1>h DEF TypeOK
  <2>2. \A q \in Pollers : holding'[q] # None => holding'[q].tag # e.tag
    BY <1>g, <2>1 DEF IInv, EventsUnique
  <2>3. \A f \in cq : f.tag # e.tag BY <1>g DEF IInv, EventsUnique
  <2>4. \A i \in DOMAIN dispatchQueue : dispatchQueue[i].tag # e.tag
    BY <1>g DEF IInv, EventsUnique
  <2>. QED BY <1>i, <1>j, <2>1, <2>2, <2>3, <2>4 DEF IInv, EventsUnique
<1>3. EventsAlone' BY <1>0, <1>a, <1>f, <1>e DEF IInv, EventsAlone
<1>4. WorkersAlone' BY <1>0, <1>e, <1>f DEF IInv, WorkersAlone, TypeOK, Runs
<1>5. CallsLive' BY <1>c DEF IInv, CallsLive
<1>6. CallsUnique' BY DEF IInv, CallsUnique, Carries
<1>7. SlotsFilled' BY <1>b, <1>d, <1>f DEF IInv, SlotsFilled, SlotsAt
<1>8. SendingAlone' BY <1>0, <1>b, <1>d, <1>f DEF IInv, SendingAlone, TypeOK
<1>9. WorkerTimeIn' BY <1>f DEF IInv, WorkerTimeIn
<1>10. LocksHeld' BY <1>0 DEF IInv, LocksHeld, TypeOK, Threads
<1>11. MergedAlone' BY <1>b, <1>f, <1>p DEF IInv, MergedAlone, Counts
<1>12. RequestsOnce' BY DEF IInv, RequestsOnce
<1>13. ReplyComplete' BY DEF IInv, ReplyComplete
<1>14. EntryAlwaysFound' BY DEF IInv, EntryAlwaysFound, StaysUp
<1>. QED BY <1>1, <1>2, <1>3, <1>4, <1>5, <1>6, <1>7, <1>8, <1>9,
     <1>10, <1>11, <1>12, <1>13, <1>14 DEF IInv

\* A worker takes the head of the dispatch queue: by EventsUnique no other
\* event has this tag, by EventsAlone no other worker runs this CallData.
LEMMA PopKeeps ==
  ASSUME IInv, NEW w \in Workers, Pop(w), TypeOK'
  PROVE  IInv'
<1>. USE ThreadsAssumption, BucketsAssumption
     DEF Pop, WorkerGoes, StaysUp, grpcVars, queueVars, workerVars, mapVars,
         entryVars, bucketVars, respVars
<1>0. TypeOK BY DEF IInv
<1>. DEFINE e == Head(dispatchQueue)
              a0 == e.tag
<1>g. /\ dispatchQueue \in Seq(Events) /\ dispatchQueue # <<>>
      /\ e \in Events /\ a0 \in Addr
      /\ wcall' = [wcall EXCEPT ![w] = a0]
      /\ wpc[w] = "idle" /\ wpc' = [wpc EXCEPT ![w] = "proceed"]
  <2>1. dispatchQueue \in Seq(Events) /\ dispatchQueue # <<>> BY <1>0 DEF TypeOK
  <2>2. e \in Events BY <2>1, HeadTailProperties
  <2>3. a0 \in Addr BY <2>2 DEF Events
  <2>. QED BY <2>1, <2>2, <2>3
<1>h. /\ 1 \in DOMAIN dispatchQueue /\ dispatchQueue[1] = e
      /\ dispatchQueue' \in Seq(Events)
      /\ DOMAIN dispatchQueue = 1 .. Len(dispatchQueue)
      /\ DOMAIN dispatchQueue' = 1 .. (Len(dispatchQueue) - 1)
      /\ Len(dispatchQueue) \in Nat
      /\ \A i \in DOMAIN dispatchQueue' :
            i + 1 \in DOMAIN dispatchQueue /\ dispatchQueue'[i] = dispatchQueue[i + 1]
  BY <1>g, HeadTailProperties
<1>i. /\ \A f \in cq : f.tag # a0
      /\ \A p \in Pollers : holding[p] # None => holding[p].tag # a0
      /\ \A i \in DOMAIN dispatchQueue' : dispatchQueue'[i].tag # a0
  <2>1. \A i \in DOMAIN dispatchQueue' : i \in Nat /\ i + 1 # 1 BY <1>h
  <2>. QED BY <1>h, <2>1 DEF IInv, EventsUnique
<1>j. /\ e \in EventsUnderway
      /\ ~Busy(a0)
      /\ \A v \in Workers : ~Runs(v, a0)
      /\ status[a0] # "FREE" /\ a0 \notin armed
  BY <1>g, <1>h DEF IInv, EventsAlone, EventsUnderway, AddressesHeld, HasEvent
<1>a. EventsUnderway' = EventsUnderway \ {e}
  <2>1. \A f \in EventsUnderway : f \in EventsUnderway' \/ f = e
    <3>1. \A i \in DOMAIN dispatchQueue : i # 1 =>
             i - 1 \in DOMAIN dispatchQueue' /\ dispatchQueue'[i - 1] = dispatchQueue[i]
      <4>1. \A i \in DOMAIN dispatchQueue : i # 1 =>
               i - 1 \in 1 .. (Len(dispatchQueue) - 1) /\ (i - 1) + 1 = i
        BY <1>h
      <4>. QED BY <1>h, <4>1
    <3>2. \A i \in DOMAIN dispatchQueue :
             \/ dispatchQueue[i] = e
             \/ \E j \in DOMAIN dispatchQueue' : dispatchQueue'[j] = dispatchQueue[i]
      BY <1>h, <3>1
    <3>. HIDE DEF e
    <3>. QED BY <1>h, <3>2 DEF EventsUnderway
  <2>2. \A f \in EventsUnderway' : f \in EventsUnderway /\ f # e
    BY <1>h, <1>i DEF EventsUnderway
  <2>. QED BY <2>1, <2>2
<1>b. Pending' = Pending BY DEF Pending, Carries
<1>c. OutstandingCalls' = OutstandingCalls BY DEF OutstandingCalls
<1>d. \A a \in Addr : Counting(a)' <=> Counting(a) BY DEF Counting, Counts
<1>e. \A v \in Workers : \A a \in Addr : Runs(v, a)' <=> Runs(v, a) \/ (v = w /\ a = a0)
  <2>. HIDE DEF e
  <2>1. wcall'[w] = a0 /\ wpc'[w] = "proceed" BY <1>0, <1>g DEF TypeOK
  <2>2. \A v \in Workers : v # w => wcall'[v] = wcall[v] /\ wpc'[v] = wpc[v]
    BY <1>0, <1>g DEF TypeOK
  <2>. QED BY <1>g, <2>1, <2>2 DEF Runs
<1>p. \A a \in Addr : Packed(a)' <=> Packed(a) BY DEF Packed
<1>f. \A a \in Addr :
         /\ Busy(a)' <=> Busy(a)
         /\ Sending(a)' <=> Sending(a)
         /\ Finishing(a)' <=> Finishing(a)
         /\ HasEvent(a)' <=> HasEvent(a) /\ a # a0
  <2>1. \A f \in EventsUnderway' : f.tag # a0 BY <1>h, <1>i DEF EventsUnderway
  <2>2. \A a \in Addr : HasEvent(a)' <=> HasEvent(a) /\ a # a0 BY <1>a,
          <2>1 DEF HasEvent
  <2>. QED BY <1>0, <1>a, <1>b, <1>d, <2>2 DEF Busy, Sending, Finishing, TypeOK
<1>1. AddressesHeld' BY <1>e, <1>f, <1>j DEF IInv, AddressesHeld
<1>2. EventsUnique'
  <2>1. \A i, j \in DOMAIN dispatchQueue' :
           dispatchQueue'[i].tag = dispatchQueue'[j].tag => i = j
    <3>1. \A i, j \in DOMAIN dispatchQueue' :
             dispatchQueue'[i].tag = dispatchQueue'[j].tag => i + 1 = j + 1
      BY <1>h DEF IInv, EventsUnique
    <3>. QED BY <1>h, <3>1
  <2>. QED BY <1>h, <2>1 DEF IInv, EventsUnique
<1>3. EventsAlone' BY <1>0, <1>a, <1>f, <1>e, <1>i DEF IInv, EventsAlone, HasEvent
<1>4. WorkersAlone' BY <1>0, <1>e, <1>f, <1>j DEF IInv, WorkersAlone, TypeOK, Runs
<1>5. CallsLive' BY <1>c DEF IInv, CallsLive
<1>6. CallsUnique' BY DEF IInv, CallsUnique, Carries
<1>7. SlotsFilled' BY <1>b, <1>d, <1>f DEF IInv, SlotsFilled, SlotsAt
<1>8. SendingAlone' BY <1>0, <1>b, <1>d, <1>f DEF IInv, SendingAlone, TypeOK
<1>9. WorkerTimeIn' BY <1>f DEF IInv, WorkerTimeIn
<1>10. LocksHeld' BY <1>0 DEF IInv, LocksHeld, TypeOK, Threads
<1>11. MergedAlone' BY <1>b, <1>f, <1>p DEF IInv, MergedAlone, Counts
<1>12. RequestsOnce' BY DEF IInv, RequestsOnce
<1>13. ReplyComplete' BY DEF IInv, ReplyComplete
<1>14. EntryAlwaysFound' BY DEF IInv, EntryAlwaysFound, StaysUp
<1>. QED BY <1>1, <1>2, <1>3, <1>4, <1>5, <1>6, <1>7, <1>8, <1>9,
     <1>10, <1>11, <1>12, <1>13, <1>14 DEF IInv

\* The successor is allocated at a free address, which no event, RPC or worker
\* refers to.
LEMMA RespawnKeeps ==
  ASSUME IInv, NEW w \in Workers, NEW c \in Addr, Respawn(w, c), TypeOK'
  PROVE  IInv'
<1>. USE ThreadsAssumption, BucketsAssumption
     DEF Respawn, NewCallData, WorkerGoes, StaysUp, grpcVars, queueVars, workerVars,
         mapVars,
         entryVars, bucketVars, respVars
<1>0. TypeOK BY DEF IInv
<1>. DEFINE b == wcall[w]
<1>g. /\ b \in Addr /\ Runs(w, b) /\ wpc[w] = "proceed" BY <1>0 DEF TypeOK, Runs
<1>h. /\ ~Busy(b) /\ ~HasEvent(b)
      /\ b \notin armed
  BY <1>g DEF IInv, WorkersAlone, EventsAlone, AddressesHeld, HasEvent
<1>i. /\ c # b /\ ~Busy(c) /\ ~HasEvent(c) /\ request[c] = None
      /\ \A v \in Workers : ~Runs(v, c)
      /\ c \notin armed
      /\ ~ \E x \in Responders : Carries(x) /\ xcall[x].id = c
      /\ ~ \E x \in Responders : Counts(x) /\ xcall[x].id = c
  BY <1>0, <1>g DEF IInv, AddressesHeld, TypeOK, Busy, Pending, Counting
<1>k. request' = request BY <1>0, <1>i DEF TypeOK
<1>l. \A v \in Workers : ~(wpc[v] = "send" /\ wcall[v] = c) BY <1>i DEF Runs
<1>m. \A d \in OutstandingCalls : d.id # c
  BY <1>0, <1>i DEF Busy, OutstandingCalls, Pending, Counting, Carries, Counts, TypeOK
<1>a. EventsUnderway' = EventsUnderway BY DEF EventsUnderway
<1>b. Pending' = Pending BY DEF Pending, Carries
<1>c. OutstandingCalls' = OutstandingCalls BY DEF OutstandingCalls
<1>d. \A a \in Addr : Counting(a)' <=> Counting(a) BY DEF Counting, Counts
<1>e. \A v \in Workers : \A a \in Addr : Runs(v, a)' <=> Runs(v, a) BY <1>0 DEF Runs,
        TypeOK
<1>p. \A a \in Addr : Packed(a)' <=> Packed(a) BY <1>k DEF Packed
<1>f. \A a \in Addr :
         /\ Busy(a)' <=> Busy(a)
         /\ Sending(a)' <=> Sending(a)
         /\ HasEvent(a)' <=> HasEvent(a)
         /\ Finishing(a)' <=> Finishing(a)
  BY <1>0, <1>a, <1>b, <1>d DEF Busy, Sending, HasEvent, Finishing, TypeOK
<1>1. AddressesHeld' BY <1>0, <1>e, <1>f, <1>i, <1>k DEF IInv, AddressesHeld, TypeOK
<1>2. EventsUnique' BY DEF IInv, EventsUnique
<1>3. EventsAlone' BY <1>0, <1>a, <1>f, <1>e, <1>i DEF IInv, EventsAlone, HasEvent,
        TypeOK
<1>4. WorkersAlone' BY <1>0, <1>e, <1>f, <1>g, <1>i, <1>k DEF IInv, WorkersAlone,
        TypeOK, Runs
<1>5. CallsLive' BY <1>0, <1>c, <1>m DEF IInv, CallsLive, TypeOK
<1>6. CallsUnique' BY DEF IInv, CallsUnique, Carries
<1>7. SlotsFilled' BY <1>b, <1>d, <1>f, <1>k DEF IInv, SlotsFilled, SlotsAt
<1>8. SendingAlone' BY <1>0, <1>b, <1>d, <1>f DEF IInv, SendingAlone, TypeOK
<1>9. WorkerTimeIn' BY <1>f DEF IInv, WorkerTimeIn
<1>10. LocksHeld' BY <1>0 DEF IInv, LocksHeld, TypeOK, Threads
<1>11. MergedAlone' BY <1>b, <1>f, <1>p DEF IInv, MergedAlone, Counts
<1>12. RequestsOnce' BY <1>0, <1>k, <1>i DEF IInv, RequestsOnce, TypeOK
<1>13. ReplyComplete' BY DEF IInv, ReplyComplete
<1>14. EntryAlwaysFound' BY DEF IInv, EntryAlwaysFound, StaysUp
<1>. QED BY <1>1, <1>2, <1>3, <1>4, <1>5, <1>6, <1>7, <1>8, <1>9,
     <1>10, <1>11, <1>12, <1>13, <1>14 DEF IInv

\* A CallData whose status is not PROCESS is finished; nothing of it is left
\* when the worker deletes it.
LEMMA DeleteKeeps ==
  ASSUME IInv, NEW w \in Workers, Delete(w), TypeOK'
  PROVE  IInv'
<1>. USE ThreadsAssumption, BucketsAssumption
     DEF Delete, WorkerGoes, StaysUp, grpcVars, queueVars, workerVars, mapVars,
         entryVars, bucketVars, respVars
<1>0. TypeOK BY DEF IInv
<1>. DEFINE b == wcall[w]
<1>g. /\ b \in Addr /\ Runs(w, b) /\ wpc[w] = "proceed" BY <1>0 DEF TypeOK, Runs
<1>h. /\ ~Busy(b) /\ ~HasEvent(b)
      /\ b \notin armed
  BY <1>g DEF IInv, WorkersAlone, EventsAlone, AddressesHeld, HasEvent
<1>i. status[b] = "FINISH" /\ \A v \in Workers : Runs(v, b) => v = w
  BY <1>0, <1>g DEF IInv, AddressesHeld, TypeOK, WorkersAlone
<1>m. \A d \in OutstandingCalls : d.id # b
  BY <1>0, <1>h DEF Busy, OutstandingCalls, Pending, Counting, Carries, Counts, TypeOK
<1>n. /\ status' = [status EXCEPT ![b] = "FREE"]
      /\ request' = [request EXCEPT ![b] = None]
  OBVIOUS
<1>a. EventsUnderway' = EventsUnderway BY DEF EventsUnderway
<1>b. Pending' = Pending BY DEF Pending, Carries
<1>c. OutstandingCalls' = OutstandingCalls BY DEF OutstandingCalls
<1>d. \A a \in Addr : Counting(a)' <=> Counting(a) BY DEF Counting, Counts
<1>e. \A v \in Workers : \A a \in Addr : Runs(v, a)' <=> Runs(v, a) /\ v # w
  BY <1>0, <1>g DEF Runs, TypeOK
<1>p. \A a \in Addr : a # b => (Packed(a)' <=> Packed(a)) BY <1>0 DEF Packed, TypeOK
<1>f. \A a \in Addr :
         /\ Busy(a)' <=> Busy(a)
         /\ Sending(a)' <=> Sending(a)
         /\ HasEvent(a)' <=> HasEvent(a)
         /\ Finishing(a)' <=> Finishing(a)
  BY <1>0, <1>a, <1>b, <1>d DEF Busy, Sending, HasEvent, Finishing, TypeOK
<1>1. AddressesHeld' BY <1>0, <1>e, <1>f, <1>g, <1>h, <1>i, <1>n DEF IInv,
        AddressesHeld, TypeOK
<1>2. EventsUnique' BY DEF IInv, EventsUnique
<1>3. EventsAlone' BY <1>0, <1>a, <1>f, <1>e, <1>h, <1>n DEF IInv, EventsAlone,
        HasEvent, TypeOK
<1>4. WorkersAlone' BY <1>0, <1>e, <1>f, <1>g, <1>i, <1>n DEF IInv, WorkersAlone,
        TypeOK, Runs
<1>5. CallsLive' BY <1>0, <1>c, <1>m, <1>n DEF IInv, CallsLive, TypeOK
<1>6. CallsUnique' BY DEF IInv, CallsUnique, Carries
<1>7. SlotsFilled'
  <2>1. ~(Busy(b) \/ Sending(b)) BY <1>g, <1>h, <1>i DEF Sending, Runs
  <2>2. \A a \in Addr : a # b => request'[a] = request[a] BY <1>0, <1>n DEF TypeOK
  <2>. QED BY <1>b, <1>d, <1>f, <2>1, <2>2 DEF IInv, SlotsFilled, SlotsAt
<1>8. SendingAlone' BY <1>0, <1>b, <1>d, <1>f, <1>g DEF IInv, SendingAlone, TypeOK
<1>9. WorkerTimeIn' BY <1>f DEF IInv, WorkerTimeIn
<1>10. LocksHeld' BY <1>0, <1>g DEF IInv, LocksHeld, TypeOK, Threads
<1>11. MergedAlone'
  BY <1>b, <1>f, <1>p, <1>h, <1>d DEF IInv, MergedAlone, Counts, Busy, Counting
<1>12. RequestsOnce' BY <1>0, <1>n DEF IInv, RequestsOnce, TypeOK
<1>13. ReplyComplete' BY DEF IInv, ReplyComplete
<1>14. EntryAlwaysFound' BY DEF IInv, EntryAlwaysFound, StaysUp
<1>. QED BY <1>1, <1>2, <1>3, <1>4, <1>5, <1>6, <1>7, <1>8, <1>9,
     <1>10, <1>11, <1>12, <1>13, <1>14 DEF IInv

\* Taking the coarse lock.
LEMMA LockCoarseKeeps ==
  ASSUME IInv, NEW w \in Workers, LockCoarse(w), TypeOK'
  PROVE  IInv'
<1>. USE ThreadsAssumption, BucketsAssumption
     DEF LockCoarse, WorkerGoes, StaysUp, grpcVars, queueVars, workerVars, mapVars,
         entryVars, bucketVars, respVars
<1>0. TypeOK BY DEF IInv
<1>a. EventsUnderway' = EventsUnderway BY DEF EventsUnderway
<1>b. Pending' = Pending BY DEF Pending, Carries
<1>c. OutstandingCalls' = OutstandingCalls BY DEF OutstandingCalls
<1>d. \A a \in Addr : Counting(a)' <=> Counting(a) BY DEF Counting, Counts
<1>e. \A v \in Workers : \A a \in Addr : Runs(v, a)' <=> Runs(v, a) BY <1>0 DEF Runs,
        TypeOK
<1>p. \A a \in Addr : Packed(a)' <=> Packed(a) BY DEF Packed
<1>f. \A a \in Addr :
         /\ Busy(a)' <=> Busy(a)
         /\ Sending(a)' <=> Sending(a)
         /\ HasEvent(a)' <=> HasEvent(a)
         /\ Finishing(a)' <=> Finishing(a)
  BY <1>0, <1>a, <1>b, <1>d DEF Busy, Sending, HasEvent, Finishing, TypeOK
<1>1. AddressesHeld' BY <1>e, <1>f DEF IInv, AddressesHeld
<1>2. EventsUnique' BY DEF IInv, EventsUnique
<1>3. EventsAlone' BY <1>0, <1>a, <1>f, <1>e DEF IInv, EventsAlone
<1>4. WorkersAlone' BY <1>0, <1>e, <1>f DEF IInv, WorkersAlone, TypeOK, Runs
<1>5. CallsLive' BY <1>c DEF IInv, CallsLive
<1>6. CallsUnique' BY DEF IInv, CallsUnique, Carries
<1>7. SlotsFilled' BY <1>b, <1>d, <1>f DEF IInv, SlotsFilled, SlotsAt
<1>8. SendingAlone' BY <1>0, <1>b, <1>d, <1>f DEF IInv, SendingAlone, TypeOK
<1>9. WorkerTimeIn' BY <1>f DEF IInv, WorkerTimeIn
<1>10. LocksHeld' BY <1>0 DEF IInv, LocksHeld, TypeOK, Threads
<1>11. MergedAlone' BY <1>b, <1>f, <1>p DEF IInv, MergedAlone, Counts
<1>12. RequestsOnce' BY DEF IInv, RequestsOnce
<1>13. ReplyComplete' BY DEF IInv, ReplyComplete
<1>14. EntryAlwaysFound' BY DEF IInv, EntryAlwaysFound, StaysUp
<1>. QED BY <1>1, <1>2, <1>3, <1>4, <1>5, <1>6, <1>7, <1>8, <1>9,
     <1>10, <1>11, <1>12, <1>13, <1>14 DEF IInv

\* Replacing both map entries: no RPC of this address is under way and nobody
\* is inside its old critical section, except a worker asleep after a kill.
LEMMA RegisterKeeps ==
  ASSUME IInv, NEW w \in Workers, Register(w), TypeOK'
  PROVE  IInv'
<1>. USE ThreadsAssumption, BucketsAssumption
     DEF Register, Inserted, WorkerGoes, StaysUp, grpcVars, queueVars, workerVars,
         mapVars,
         entryVars, bucketVars, respVars
<1>0. TypeOK BY DEF IInv
<1>g. wcall[w] \in Addr /\ Runs(w, wcall[w]) /\ wpc[w] # "send" BY <1>0 DEF TypeOK, Runs
<1>h. ~Busy(wcall[w]) /\ ~Sending(wcall[w]) BY <1>g DEF IInv, WorkersAlone, Sending,
        Runs
<1>i. \A v \in Workers : wpc[v] \in {"fill", "send"} => wcall[v] # wcall[w]
  BY <1>g DEF IInv, WorkersAlone, Runs
<1>j. \A x \in Responders : xpc[x] \in {"store", "count"} => xcall[x].id # wcall[w]
  BY <1>h DEF Busy, Pending, Counting, Carries, Counts
<1>a. EventsUnderway' = EventsUnderway BY DEF EventsUnderway
<1>b. Pending' = Pending BY DEF Pending, Carries
<1>c. OutstandingCalls' = OutstandingCalls BY DEF OutstandingCalls
<1>d. \A a \in Addr : Counting(a)' <=> Counting(a) BY DEF Counting, Counts
<1>e. \A v \in Workers : \A a \in Addr : Runs(v, a)' <=> Runs(v, a) BY <1>0 DEF Runs,
        TypeOK
<1>p. \A a \in Addr : a # wcall[w] => (Packed(a)' <=> Packed(a)) BY <1>0 DEF Packed,
        TypeOK
<1>f. \A a \in Addr :
         /\ Busy(a)' <=> Busy(a)
         /\ Sending(a)' <=> Sending(a)
         /\ HasEvent(a)' <=> HasEvent(a)
         /\ Finishing(a)' <=> Finishing(a)
  BY <1>0, <1>a, <1>b, <1>d DEF Busy, Sending, HasEvent, Finishing, TypeOK
<1>1. AddressesHeld' BY <1>e, <1>f DEF IInv, AddressesHeld
<1>2. EventsUnique' BY DEF IInv, EventsUnique
<1>3. EventsAlone' BY <1>0, <1>a, <1>f, <1>e DEF IInv, EventsAlone
<1>4. WorkersAlone' BY <1>0, <1>e, <1>f DEF IInv, WorkersAlone, TypeOK, Runs
<1>5. CallsLive' BY <1>c DEF IInv, CallsLive
<1>6. CallsUnique' BY DEF IInv, CallsUnique, Carries
<1>7. SlotsFilled' BY <1>0, <1>b, <1>d, <1>f, <1>h DEF IInv, SlotsFilled, SlotsAt,
        TypeOK
<1>8. SendingAlone' BY <1>0, <1>b, <1>d, <1>f, <1>h DEF IInv, SendingAlone, TypeOK,
        Sending
<1>9. WorkerTimeIn' BY <1>0, <1>f, <1>h DEF IInv, WorkerTimeIn, TypeOK
<1>10. LocksHeld' BY <1>0, <1>g, <1>i, <1>j DEF IInv, LocksHeld, TypeOK, Threads
<1>11. MergedAlone'
  BY <1>b, <1>d, <1>f, <1>h, <1>p DEF IInv, MergedAlone, Counts, Busy, Counting
<1>12. RequestsOnce' BY DEF IInv, RequestsOnce
<1>13. ReplyComplete' BY DEF IInv, ReplyComplete
<1>14. EntryAlwaysFound' BY DEF IInv, EntryAlwaysFound, StaysUp
<1>. QED BY <1>1, <1>2, <1>3, <1>4, <1>5, <1>6, <1>7, <1>8, <1>9,
     <1>10, <1>11, <1>12, <1>13, <1>14 DEF IInv

\* Taking the fine lock.
LEMMA LockFineKeeps ==
  ASSUME IInv, NEW w \in Workers, LockFine(w), TypeOK'
  PROVE  IInv'
<1>. USE ThreadsAssumption, BucketsAssumption
     DEF LockFine, FineFree, WorkerGoes, StaysUp, grpcVars, queueVars, workerVars,
         mapVars,
         entryVars, bucketVars, respVars
<1>0. TypeOK BY DEF IInv
<1>a. EventsUnderway' = EventsUnderway BY DEF EventsUnderway
<1>b. Pending' = Pending BY DEF Pending, Carries
<1>c. OutstandingCalls' = OutstandingCalls BY DEF OutstandingCalls
<1>d. \A a \in Addr : Counting(a)' <=> Counting(a) BY DEF Counting, Counts
<1>e. \A v \in Workers : \A a \in Addr : Runs(v, a)' <=> Runs(v, a) BY <1>0 DEF Runs,
        TypeOK
<1>p. \A a \in Addr : Packed(a)' <=> Packed(a) BY DEF Packed
<1>f. \A a \in Addr :
         /\ Busy(a)' <=> Busy(a)
         /\ Sending(a)' <=> Sending(a)
         /\ HasEvent(a)' <=> HasEvent(a)
         /\ Finishing(a)' <=> Finishing(a)
  BY <1>0, <1>a, <1>b, <1>d DEF Busy, Sending, HasEvent, Finishing, TypeOK
<1>1. AddressesHeld' BY <1>e, <1>f DEF IInv, AddressesHeld
<1>2. EventsUnique' BY DEF IInv, EventsUnique
<1>3. EventsAlone' BY <1>0, <1>a, <1>f, <1>e DEF IInv, EventsAlone
<1>4. WorkersAlone' BY <1>0, <1>e, <1>f DEF IInv, WorkersAlone, TypeOK, Runs
<1>5. CallsLive' BY <1>c DEF IInv, CallsLive
<1>6. CallsUnique' BY DEF IInv, CallsUnique, Carries
<1>7. SlotsFilled' BY <1>b, <1>d, <1>f DEF IInv, SlotsFilled, SlotsAt
<1>8. SendingAlone' BY <1>0, <1>b, <1>d, <1>f DEF IInv, SendingAlone, TypeOK
<1>9. WorkerTimeIn' BY <1>f DEF IInv, WorkerTimeIn
<1>10. LocksHeld' BY <1>0 DEF IInv, LocksHeld, TypeOK, Threads
<1>11. MergedAlone' BY <1>b, <1>f, <1>p DEF IInv, MergedAlone, Counts
<1>12. RequestsOnce' BY DEF IInv, RequestsOnce
<1>13. ReplyComplete' BY DEF IInv, ReplyComplete
<1>14. EntryAlwaysFound' BY DEF IInv, EntryAlwaysFound, StaysUp
<1>. QED BY <1>1, <1>2, <1>3, <1>4, <1>5, <1>6, <1>7, <1>8, <1>9,
     <1>10, <1>11, <1>12, <1>13, <1>14 DEF IInv

\* The fresh slots of an address without RPCs are all empty.
LEMMA FillKeeps ==
  ASSUME IInv, NEW w \in Workers, Fill(w), TypeOK'
  PROVE  IInv'
<1>. USE ThreadsAssumption, BucketsAssumption
     DEF Fill, WorkerGoes, StaysUp, grpcVars, queueVars, workerVars, mapVars,
         entryVars, bucketVars, respVars
<1>0. TypeOK BY DEF IInv
<1>g. wcall[w] \in Addr /\ Runs(w, wcall[w]) /\ wpc[w] # "send" BY <1>0 DEF TypeOK, Runs
<1>h. ~Busy(wcall[w]) /\ ~Sending(wcall[w]) BY <1>g DEF IInv, WorkersAlone, Sending,
        Runs
<1>a. EventsUnderway' = EventsUnderway BY DEF EventsUnderway
<1>b. Pending' = Pending BY DEF Pending, Carries
<1>c. OutstandingCalls' = OutstandingCalls BY DEF OutstandingCalls
<1>d. \A a \in Addr : Counting(a)' <=> Counting(a) BY DEF Counting, Counts
<1>e. \A v \in Workers : \A a \in Addr : Runs(v, a)' <=> Runs(v, a) BY <1>0 DEF Runs,
        TypeOK
<1>p. \A a \in Addr : Packed(a)' <=> Packed(a) BY DEF Packed
<1>f. \A a \in Addr :
         /\ Busy(a)' <=> Busy(a)
         /\ Sending(a)' <=> Sending(a) \/ a = wcall[w]
         /\ HasEvent(a)' <=> HasEvent(a)
         /\ Finishing(a)' <=> Finishing(a)
  BY <1>0, <1>a, <1>b, <1>d DEF Busy, Sending, HasEvent, Finishing, TypeOK
<1>1. AddressesHeld' BY <1>e, <1>f DEF IInv, AddressesHeld
<1>2. EventsUnique' BY DEF IInv, EventsUnique
<1>3. EventsAlone' BY <1>0, <1>a, <1>f, <1>e DEF IInv, EventsAlone
<1>4. WorkersAlone' BY <1>0, <1>e, <1>f DEF IInv, WorkersAlone, TypeOK, Runs
<1>5. CallsLive' BY <1>c DEF IInv, CallsLive
<1>6. CallsUnique' BY DEF IInv, CallsUnique, Carries
<1>7. SlotsFilled'
  <2>1. /\ slots'[wcall[w]] = [i \in 1 .. NumBuckets |-> None] /\ recvd'[wcall[w]] = 0
        /\ \A a \in Addr : a # wcall[w] => slots'[a] = slots[a] /\ recvd'[a] = recvd[a]
        /\ request' = request
    BY <1>0, <1>g DEF TypeOK
  <2>2. SlotsFilled BY DEF IInv
  <2>3. \A a \in Addr : a = wcall[w] => ~Counting(a)' BY <1>d, <1>h DEF Busy
  <2>. HIDE DEF IInv, Fill
  <2>. SUFFICES ASSUME NEW a \in Addr, (Busy(a) \/ Sending(a))'
                PROVE SlotsAt(a)'
    BY DEF SlotsFilled
  <2>4. CASE a = wcall[w] BY <2>1, <2>3, <2>4 DEF SlotsAt
  <2>5. CASE a # wcall[w] BY <1>b, <1>d, <1>f, <2>1, <2>2, <2>5 DEF SlotsFilled, SlotsAt
  <2>. QED BY <2>4, <2>5
<1>8. SendingAlone'
  BY <1>0, <1>b, <1>d, <1>f, <1>g, <1>h DEF IInv, SendingAlone, TypeOK, Busy, Sending
<1>9. WorkerTimeIn' BY <1>f DEF IInv, WorkerTimeIn
<1>10. LocksHeld' BY <1>0 DEF IInv, LocksHeld, TypeOK, Threads
<1>11. MergedAlone'
  BY <1>b, <1>d, <1>f, <1>h, <1>p DEF IInv, MergedAlone, Counts, Busy, Counting
<1>12. RequestsOnce' BY DEF IInv, RequestsOnce
<1>13. ReplyComplete' BY DEF IInv, ReplyComplete
<1>14. EntryAlwaysFound' BY DEF IInv, EntryAlwaysFound, StaysUp
<1>. QED BY <1>1, <1>2, <1>3, <1>4, <1>5, <1>6, <1>7, <1>8, <1>9,
     <1>10, <1>11, <1>12, <1>13, <1>14 DEF IInv

\* The RPC to the next bucket is new: those pending go to earlier buckets.
LEMMA SendKeeps ==
  ASSUME IInv, NEW w \in Workers, Send(w), TypeOK'
  PROVE  IInv'
<1>. USE ThreadsAssumption, BucketsAssumption
     DEF Send, MoreToSend, WorkerGoes, StaysUp, grpcVars, queueVars, workerVars,
         mapVars,
         entryVars, bucketVars, respVars
<1>0. TypeOK BY DEF IInv
<1>g. wcall[w] \in Addr /\ Runs(w, wcall[w]) /\ Sending(wcall[w])
  BY <1>0 DEF TypeOK, Runs, Sending
<1>. DEFINE new == [id |-> wcall[w], bucket |-> wnext[w], req |-> request[wcall[w]]]
<1>n. /\ new.id = wcall[w] /\ new.bucket = wnext[w] /\ new.req = request[wcall[w]]
      /\ new \notin Pending
  <2>1. wnext[w] \in Nat /\ \A c \in Pending : c.id = wcall[w] => c.bucket < wnext[w]
    BY <1>0, <1>g DEF IInv, SendingAlone, TypeOK
  <2>. QED BY <2>1
<1>u. \A v \in Workers : wpc[v] = "send" /\ wcall[v] = wcall[w] => v = w
  BY <1>g DEF IInv, WorkersAlone, Runs
<1>a. EventsUnderway' = EventsUnderway BY DEF EventsUnderway
<1>b. Pending' = Pending \cup {new} BY DEF Pending, Carries
<1>c. OutstandingCalls' = OutstandingCalls \cup {new} BY DEF OutstandingCalls
<1>d. \A a \in Addr : Counting(a)' <=> Counting(a) BY DEF Counting, Counts
<1>e. \A v \in Workers : \A a \in Addr : Runs(v, a)' <=> Runs(v, a) BY <1>0 DEF Runs,
        TypeOK
<1>p. \A a \in Addr : Packed(a)' <=> Packed(a) BY DEF Packed
<1>f. \A a \in Addr :
         /\ Busy(a)' <=> Busy(a) \/ a = wcall[w]
         /\ Sending(a)' <=> Sending(a)
         /\ HasEvent(a)' <=> HasEvent(a)
         /\ Finishing(a)' <=> Finishing(a)
  BY <1>0, <1>a, <1>b, <1>d, <1>n DEF Busy, Sending, HasEvent, Finishing, TypeOK
<1>1. AddressesHeld' BY <1>e, <1>f, <1>g DEF IInv, AddressesHeld
<1>2. EventsUnique' BY DEF IInv, EventsUnique
<1>3. EventsAlone' BY <1>0, <1>a, <1>f, <1>e, <1>g DEF IInv, EventsAlone
<1>4. WorkersAlone' BY <1>0, <1>e, <1>f, <1>g DEF IInv, WorkersAlone, TypeOK, Runs
<1>5. CallsLive' BY <1>c, <1>g, <1>n DEF IInv, CallsLive, WorkersAlone, AddressesHeld,
        Runs
<1>6. CallsUnique' BY <1>n DEF IInv, CallsUnique, Carries, Pending
<1>7. SlotsFilled'
  BY <1>0, <1>b, <1>d, <1>f, <1>g, <1>n DEF IInv, SlotsFilled, SlotsAt, SendingAlone
<1>8. SendingAlone'
  <2>. SUFFICES ASSUME NEW v \in Workers, NEW a \in Addr, wpc[v] = "send", wcall[v] = a
                PROVE  /\ recvd[a] = 0
                       /\ ~Counting(a)
                       /\ \A c \in Pending' : c.id = a => c.bucket < wnext'[v]
    BY <1>d DEF SendingAlone
  <2>1. /\ recvd[a] = 0
        /\ ~Counting(a)
        /\ \A c \in Pending : c.id = a => c.bucket < wnext[v]
    BY DEF IInv, SendingAlone
  <2>2. CASE v = w
    <3>1. \A c \in Pending : c.bucket \in Nat
      BY <1>0 DEF Pending, Carries, TypeOK, Calls, Buckets
    <3>. QED BY <1>0, <1>b, <1>n, <2>1, <2>2, <3>1 DEF TypeOK
  <2>3. CASE v # w BY <1>0, <1>b, <1>n, <1>u, <2>1, <2>3 DEF TypeOK
  <2>. QED BY <2>2, <2>3
<1>9. WorkerTimeIn' BY <1>f, <1>g DEF IInv, WorkerTimeIn
<1>10. LocksHeld' BY <1>0 DEF IInv, LocksHeld, TypeOK, Threads
<1>11. MergedAlone' BY <1>b, <1>f, <1>g, <1>n, <1>p DEF IInv, MergedAlone, Counts
<1>12. RequestsOnce' BY DEF IInv, RequestsOnce
<1>13. ReplyComplete' BY DEF IInv, ReplyComplete
<1>14. EntryAlwaysFound' BY DEF IInv, EntryAlwaysFound, StaysUp
<1>. QED BY <1>1, <1>2, <1>3, <1>4, <1>5, <1>6, <1>7, <1>8, <1>9,
     <1>10, <1>11, <1>12, <1>13, <1>14 DEF IInv

\* The worker leaves: index_time is its share, the responders may count.
LEMMA SentKeeps ==
  ASSUME IInv, NEW w \in Workers, Sent(w), TypeOK'
  PROVE  IInv'
<1>. USE ThreadsAssumption, BucketsAssumption
     DEF Sent, MoreToSend, WorkerGoes, StaysUp, grpcVars, queueVars, workerVars,
         mapVars,
         entryVars, bucketVars, respVars
<1>0. TypeOK BY DEF IInv
<1>g. wcall[w] \in Addr /\ Runs(w, wcall[w]) /\ Sending(wcall[w])
  BY <1>0 DEF TypeOK, Runs, Sending
<1>a. EventsUnderway' = EventsUnderway BY DEF EventsUnderway
<1>b. Pending' = Pending BY DEF Pending, Carries
<1>c. OutstandingCalls' = OutstandingCalls BY DEF OutstandingCalls
<1>d. \A a \in Addr : Counting(a)' <=> Counting(a) BY DEF Counting, Counts
<1>e. \A v \in Workers : \A a \in Addr : Runs(v, a)' <=> Runs(v, a) /\ v # w
  BY <1>0 DEF Runs, TypeOK
<1>p. \A a \in Addr : a # wcall[w] => (Packed(a)' <=> Packed(a)) BY <1>0 DEF Packed,
        TypeOK
<1>f. \A a \in Addr :
         /\ Busy(a)' <=> Busy(a)
         /\ Sending(a)' <=> Sending(a) /\ a # wcall[w]
         /\ HasEvent(a)' <=> HasEvent(a)
         /\ Finishing(a)' <=> Finishing(a)
  BY <1>0, <1>a, <1>b, <1>d, <1>g DEF IInv, WorkersAlone, Runs, Busy, Sending,
     HasEvent, Finishing, TypeOK
<1>1. AddressesHeld' BY <1>e, <1>f DEF IInv, AddressesHeld
<1>2. EventsUnique' BY DEF IInv, EventsUnique
<1>3. EventsAlone' BY <1>0, <1>a, <1>f, <1>e DEF IInv, EventsAlone
<1>4. WorkersAlone' BY <1>0, <1>e, <1>f DEF IInv, WorkersAlone, TypeOK, Runs
<1>5. CallsLive' BY <1>c DEF IInv, CallsLive
<1>6. CallsUnique' BY DEF IInv, CallsUnique, Carries
<1>7. SlotsFilled' BY <1>b, <1>d, <1>f DEF IInv, SlotsFilled, SlotsAt
<1>8. SendingAlone' BY <1>0, <1>b, <1>d, <1>f DEF IInv, SendingAlone, TypeOK
<1>9. WorkerTimeIn' BY <1>0, <1>f, <1>g DEF IInv, WorkerTimeIn, TypeOK
<1>10. LocksHeld' BY <1>0 DEF IInv, LocksHeld, TypeOK, Threads
<1>11. MergedAlone' BY <1>b, <1>f, <1>g, <1>p DEF IInv, MergedAlone, Counts
<1>12. RequestsOnce' BY DEF IInv, RequestsOnce
<1>13. ReplyComplete' BY DEF IInv, ReplyComplete
<1>14. EntryAlwaysFound' BY DEF IInv, EntryAlwaysFound, StaysUp
<1>. QED BY <1>1, <1>2, <1>3, <1>4, <1>5, <1>6, <1>7, <1>8, <1>9,
     <1>10, <1>11, <1>12, <1>13, <1>14 DEF IInv

\* A kill has no RPC under way when it is acknowledged and finished.
LEMMA AckKillKeeps ==
  ASSUME IInv, NEW w \in Workers, AckKill(w), TypeOK'
  PROVE  IInv'
<1>. USE ThreadsAssumption, BucketsAssumption
     DEF AckKill, WorkerGoes, StaysUp, grpcVars, queueVars, workerVars, mapVars,
         entryVars, bucketVars, respVars
<1>0. TypeOK BY DEF IInv
<1>g. wcall[w] \in Addr /\ Runs(w, wcall[w]) /\ wpc[w] = "fill" BY <1>0 DEF TypeOK, Runs
<1>h. /\ ~Busy(wcall[w]) /\ ~HasEvent(wcall[w])
      /\ wcall[w] \notin armed /\ status[wcall[w]] = "PROCESS"
      /\ request[wcall[w]] \in Kills /\ request[wcall[w]] \in Requests
  BY <1>g DEF IInv, WorkersAlone, EventsAlone, AddressesHeld, HasEvent
<1>. DEFINE new == [tag |-> wcall[w], kind |-> "finished"]
<1>n. /\ cq' = cq \cup {new} /\ new.tag = wcall[w] /\ new.kind = "finished"
      /\ status' = [status EXCEPT ![wcall[w]] = "FINISH"]
      /\ UNCHANGED <<request, armed>>
      /\ replies' = [replies EXCEPT ![request[wcall[w]]] =
                        Append(@, [answers |-> {}, time |-> {}, kill |-> TRUE])]
  BY DEF Finish
<1>. DEFINE ack == [answers |-> {}, time |-> {}, kill |-> TRUE]
<1>k. ack \in Replies /\ ack.kill BY DEF Replies, Times
<1>r. /\ replies'[request[wcall[w]]] # <<>>
      /\ \A r \in Requests : r # request[wcall[w]] => replies'[r] = replies[r]
  BY <1>h, <1>g, <1>k, FinishReplies
<1>a. EventsUnderway' = EventsUnderway \cup {new} BY <1>n DEF EventsUnderway
<1>b. Pending' = Pending BY DEF Pending, Carries
<1>c. OutstandingCalls' = OutstandingCalls BY DEF OutstandingCalls
<1>d. \A a \in Addr : Counting(a)' <=> Counting(a) BY DEF Counting, Counts
<1>e. \A v \in Workers : \A a \in Addr : Runs(v, a)' <=> Runs(v, a) /\ v # w
  BY <1>0 DEF Runs, TypeOK
<1>p. \A a \in Addr : Packed(a)' <=> Packed(a) BY <1>n DEF Packed
<1>f. \A a \in Addr :
         /\ Busy(a)' <=> Busy(a)
         /\ Sending(a)' <=> Sending(a)
         /\ Finishing(a)' <=> Finishing(a)
  BY <1>0, <1>a, <1>b, <1>d, <1>n DEF Busy, Sending, Finishing, TypeOK
<1>q. \A a \in Addr : HasEvent(a)' <=> HasEvent(a) \/ a = wcall[w] BY <1>a,
        <1>n DEF HasEvent
<1>1. AddressesHeld' BY <1>0, <1>e, <1>f, <1>q, <1>h, <1>n DEF IInv, AddressesHeld,
        TypeOK
<1>2. EventsUnique' BY <1>h, <1>n DEF IInv, EventsUnique, HasEvent, EventsUnderway
<1>3. EventsAlone'
  BY <1>0, <1>a, <1>e, <1>f, <1>q, <1>g, <1>h, <1>n DEF IInv, EventsAlone, HasEvent,
     WorkersAlone, TypeOK
<1>4. WorkersAlone'
  BY <1>0, <1>e, <1>f, <1>g, <1>h, <1>n, KillsAssumption DEF IInv, WorkersAlone,
     TypeOK, Runs
<1>5. CallsLive'
  BY <1>0, <1>c, <1>h, <1>n DEF IInv, CallsLive, TypeOK, Busy, OutstandingCalls,
     Pending, Counting, Carries, Counts
<1>6. CallsUnique' BY DEF IInv, CallsUnique, Carries
<1>7. SlotsFilled' BY <1>b, <1>d, <1>f, <1>n DEF IInv, SlotsFilled, SlotsAt
<1>8. SendingAlone' BY <1>0, <1>b, <1>d, <1>f DEF IInv, SendingAlone, TypeOK
<1>9. WorkerTimeIn' BY <1>f DEF IInv, WorkerTimeIn
<1>10. LocksHeld' BY <1>0 DEF IInv, LocksHeld, TypeOK, Threads
<1>11. MergedAlone' BY <1>b, <1>f, <1>p DEF IInv, MergedAlone, Counts
<1>12. RequestsOnce' BY <1>0, <1>h, <1>n, <1>r DEF IInv, RequestsOnce, TypeOK
<1>13. ReplyComplete' BY <1>h, <1>g, <1>k, FinishReplyComplete
<1>14. EntryAlwaysFound' BY DEF IInv, EntryAlwaysFound, StaysUp
<1>. QED BY <1>1, <1>2, <1>3, <1>4, <1>5, <1>6, <1>7, <1>8, <1>9,
     <1>10, <1>11, <1>12, <1>13, <1>14 DEF IInv
=============================================================================
