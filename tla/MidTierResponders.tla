-------------------------- MODULE MidTierResponders --------------------------
(* Every step of the buckets and the response threads keeps the inductive   *)
(* invariant of MidTierInv.  The lemmas are laid out as in MidTierWorkers.  *)
EXTENDS MidTierWorkers, FiniteSetTheorems

\* As many different buckets as there are buckets are all of them.
LEMMA EveryBucketStored ==
  ASSUME NEW f \in [1 .. NumBuckets -> Buckets],
         \A i, j \in 1 .. NumBuckets : f[i] = f[j] => i = j
  PROVE  {f[i] : i \in 1 .. NumBuckets} = Buckets
<1>1. NumBuckets \in Nat \ {0} BY BucketsAssumption
<1>2. /\ IsFiniteSet(1 .. NumBuckets) /\ Cardinality(1 .. NumBuckets) = NumBuckets
      /\ IsFiniteSet(Buckets) /\ Cardinality(Buckets) = NumBuckets
  <2>1. /\ IsFiniteSet(1 .. NumBuckets) /\ Cardinality(1 .. NumBuckets) = NumBuckets
    BY <1>1, FS_Interval
  <2>2. /\ IsFiniteSet(Buckets) /\ Cardinality(Buckets) = NumBuckets
    BY <1>1, FS_Interval DEF Buckets
  <2>. QED BY <2>1, <2>2
<1>3. f \in Injection(1 .. NumBuckets, Buckets) BY DEF Injection, IsInjective
<1>4. f \in Surjection(1 .. NumBuckets, Buckets) BY <1>2, <1>3, FS_Injection
<1>. QED BY <1>4 DEF Surjection

\* An RPC completes: it is pending as before.
LEMMA BucketAnswerKeeps ==
  ASSUME IInv, NEW c \in calls, NEW ok \in BOOLEAN, BucketAnswer(c, ok), TypeOK'
  PROVE  IInv'
<1>. USE ThreadsAssumption, BucketsAssumption
     DEF BucketAnswer, StaysUp, grpcVars, queueVars, workerVars, mapVars,
         entryVars, bucketVars, respVars
<1>0. TypeOK BY DEF IInv
<1>. DEFINE new == [call |-> c, ok |-> ok]
<1>n. /\ calls' = calls \ {c} /\ bucketCq' = bucketCq \cup {new} /\ new.call = c OBVIOUS
<1>a. EventsUnderway' = EventsUnderway BY DEF EventsUnderway
<1>b. Pending' = Pending BY <1>n DEF Pending, Carries
<1>c. OutstandingCalls' = OutstandingCalls BY <1>n DEF OutstandingCalls
<1>d. \A a \in Addr : Counting(a)' <=> Counting(a) BY DEF Counting, Counts
<1>e. \A v \in Workers : \A a \in Addr : Runs(v, a)' <=> Runs(v, a) BY <1>0 DEF Runs,
        TypeOK
<1>p. \A a \in Addr : Packed(a)' <=> Packed(a) BY DEF Packed
<1>f. \A a \in Addr :
         /\ Busy(a)' <=> Busy(a)
         /\ Sending(a)' <=> Sending(a)
         /\ HasEvent(a)' <=> HasEvent(a)
         /\ Finishing(a)' <=> Finishing(a)
  BY <1>0, <1>a, <1>b, <1>d DEF Busy, Sending, HasEvent, Finishing, TypeOK
<1>1. AddressesHeld' BY <1>e, <1>f DEF IInv, AddressesHeld
<1>2. EventsUnique' BY DEF IInv, EventsUnique
<1>3. EventsAlone' BY <1>0, <1>a, <1>f, <1>e DEF IInv, EventsAlone
<1>4. WorkersAlone' BY <1>0, <1>e, <1>f DEF IInv, WorkersAlone, TypeOK, Runs
<1>5. CallsLive' BY <1>c DEF IInv, CallsLive
<1>6. CallsUnique' BY <1>n DEF IInv, CallsUnique, Carries
<1>7. SlotsFilled' BY <1>b, <1>d, <1>f DEF IInv, SlotsFilled, SlotsAt
<1>8. SendingAlone' BY <1>0, <1>b, <1>d, <1>f DEF IInv, SendingAlone, TypeOK
<1>9. WorkerTimeIn' BY <1>f DEF IInv, WorkerTimeIn
<1>10. LocksHeld' BY <1>0 DEF IInv, LocksHeld, TypeOK, Threads
<1>11. MergedAlone' BY <1>b, <1>f, <1>p DEF IInv, MergedAlone, Counts
<1>12. RequestsOnce' BY DEF IInv, RequestsOnce
<1>13. ReplyComplete' BY DEF IInv, ReplyComplete
<1>14. EntryAlwaysFound' BY DEF IInv, EntryAlwaysFound, StaysUp
<1>. QED BY <1>1, <1>2, <1>3, <1>4, <1>5, <1>6, <1>7, <1>8, <1>9,
     <1>10, <1>11, <1>12, <1>13, <1>14 DEF IInv

\* A response thread takes a completed RPC: it is pending as before.
LEMMA ReceiveKeeps ==
  ASSUME IInv, NEW x \in Responders, NEW d \in bucketCq, Receive(x, d), TypeOK'
  PROVE  IInv'
<1>. USE ThreadsAssumption, BucketsAssumption
     DEF Receive, ResponderGoes, StaysUp, grpcVars, queueVars, workerVars, mapVars,
         entryVars, bucketVars, respVars
<1>0. TypeOK BY DEF IInv
<1>n. /\ bucketCq' = bucketCq \ {d}
      /\ xcall' = [xcall EXCEPT ![x] = d.call]
      /\ xpc[x] = "idle" /\ xpc' = [xpc EXCEPT ![x] = "check"]
  OBVIOUS
<1>h. /\ xcall'[x] = d.call /\ xpc'[x] = "check"
      /\ \A y \in Responders : y # x => xcall'[y] = xcall[y] /\ xpc'[y] = xpc[y]
  BY <1>0, <1>n DEF TypeOK
<1>a. EventsUnderway' = EventsUnderway BY DEF EventsUnderway
<1>b. Pending' = Pending
  <2>1. \A e \in bucketCq' : e \in bucketCq BY <1>n
  <2>2. \A e \in bucketCq : e = d \/ e \in bucketCq' BY <1>n
  <2>. QED BY <1>h, <1>n, <2>1, <2>2 DEF Pending, Carries
<1>c. OutstandingCalls' = OutstandingCalls
  <2>1. \A e \in bucketCq' : e \in bucketCq BY <1>n
  <2>2. \A e \in bucketCq : e = d \/ e \in bucketCq' BY <1>n
  <2>. QED BY <1>h, <1>n, <2>1, <2>2 DEF OutstandingCalls
<1>d. \A a \in Addr : Counting(a)' <=> Counting(a) BY <1>h, <1>n DEF Counting, Counts
<1>e. \A v \in Workers : \A a \in Addr : Runs(v, a)' <=> Runs(v, a) BY <1>0 DEF Runs,
        TypeOK
<1>p. \A a \in Addr : Packed(a)' <=> Packed(a) BY DEF Packed
<1>f. \A a \in Addr :
         /\ Busy(a)' <=> Busy(a)
         /\ Sending(a)' <=> Sending(a)
         /\ HasEvent(a)' <=> HasEvent(a)
         /\ Finishing(a)' <=> Finishing(a)
  BY <1>0, <1>a, <1>b, <1>d, <1>h, <1>n DEF Busy, Sending, HasEvent, Finishing, TypeOK
<1>1. AddressesHeld' BY <1>e, <1>f DEF IInv, AddressesHeld
<1>2. EventsUnique' BY DEF IInv, EventsUnique
<1>3. EventsAlone' BY <1>0, <1>a, <1>f, <1>e DEF IInv, EventsAlone
<1>4. WorkersAlone' BY <1>0, <1>e, <1>f DEF IInv, WorkersAlone, TypeOK, Runs
<1>5. CallsLive' BY <1>c DEF IInv, CallsLive
<1>6. CallsUnique'
  <2>1. \A y \in Responders : Carries(y)' <=> (Carries(y) \/ y = x) BY <1>h DEF Carries
  <2>2. ~Carries(x) BY <1>n DEF Carries
  <2>. QED BY <1>h, <1>n, <2>1, <2>2 DEF IInv, CallsUnique, Carries
<1>7. SlotsFilled' BY <1>b, <1>d, <1>f DEF IInv, SlotsFilled, SlotsAt
<1>8. SendingAlone' BY <1>0, <1>b, <1>d, <1>f DEF IInv, SendingAlone, TypeOK
<1>9. WorkerTimeIn' BY <1>f DEF IInv, WorkerTimeIn
<1>10. LocksHeld' BY <1>0, <1>h, <1>n DEF IInv, LocksHeld, TypeOK, Threads
<1>11. MergedAlone' BY <1>b, <1>f, <1>h, <1>n, <1>p DEF IInv, MergedAlone, Counts
<1>12. RequestsOnce' BY DEF IInv, RequestsOnce
<1>13. ReplyComplete' BY DEF IInv, ReplyComplete
<1>14. EntryAlwaysFound' BY DEF IInv, EntryAlwaysFound, StaysUp
<1>. QED BY <1>1, <1>2, <1>3, <1>4, <1>5, <1>6, <1>7, <1>8, <1>9,
     <1>10, <1>11, <1>12, <1>13, <1>14 DEF IInv

\* The entry of an RPC under way exists, so the thread goes on to the fine lock.
LEMMA CheckedKeeps ==
  ASSUME IInv, NEW x \in Responders, ResponderGoes(x, "check", "lockFine"),
         UNCHANGED <<grpcVars, queueVars, workerVars, mapVars, bucketVars, xcall>>, TypeOK'
  PROVE  IInv'
<1>. USE ThreadsAssumption, BucketsAssumption
     DEF ResponderGoes, StaysUp, grpcVars, queueVars, workerVars, mapVars,
         entryVars, bucketVars, respVars
<1>0. TypeOK BY DEF IInv
<1>. DEFINE c == xcall[x]
              b == c.id
<1>g. c \in Calls /\ b \in Addr BY <1>0 DEF TypeOK, Calls
<1>j. /\ xpc[x] = "check" /\ xpc'[x] = "lockFine"
      /\ \A y \in Responders : y # x => xpc'[y] = xpc[y]
  BY <1>0 DEF TypeOK
<1>a. EventsUnderway' = EventsUnderway BY DEF EventsUnderway
<1>b. Pending' = Pending BY <1>0, <1>j DEF Pending, Carries, TypeOK
<1>c. OutstandingCalls' = OutstandingCalls BY <1>0, <1>j DEF OutstandingCalls, TypeOK
<1>d. \A a \in Addr : Counting(a)' <=> Counting(a) BY <1>0, <1>j DEF Counting, Counts,
        TypeOK
<1>e. \A v \in Workers : \A a \in Addr : Runs(v, a)' <=> Runs(v, a) BY <1>0 DEF Runs,
        TypeOK
<1>p. \A a \in Addr : Packed(a)' <=> Packed(a) BY DEF Packed
<1>f. \A a \in Addr :
         /\ Busy(a)' <=> Busy(a)
         /\ Sending(a)' <=> Sending(a)
         /\ HasEvent(a)' <=> HasEvent(a)
         /\ Finishing(a)' <=> Finishing(a)
  BY <1>0, <1>a, <1>b, <1>d DEF Busy, Sending, HasEvent, Finishing, TypeOK
<1>1. AddressesHeld' BY <1>e, <1>f DEF IInv, AddressesHeld
<1>2. EventsUnique' BY DEF IInv, EventsUnique
<1>3. EventsAlone' BY <1>0, <1>a, <1>f, <1>e DEF IInv, EventsAlone
<1>4. WorkersAlone' BY <1>0, <1>e, <1>f DEF IInv, WorkersAlone, TypeOK, Runs
<1>5. CallsLive' BY <1>c DEF IInv, CallsLive
<1>6. CallsUnique' BY <1>0, <1>j DEF IInv, CallsUnique, Carries, TypeOK
<1>7. SlotsFilled' BY <1>b, <1>d, <1>f DEF IInv, SlotsFilled, SlotsAt
<1>8. SendingAlone' BY <1>0, <1>b, <1>d, <1>f DEF IInv, SendingAlone, TypeOK
<1>9. WorkerTimeIn' BY <1>f DEF IInv, WorkerTimeIn
<1>10. LocksHeld' BY <1>0, <1>g, <1>j DEF IInv, LocksHeld, TypeOK, Threads
<1>11. MergedAlone' BY <1>b, <1>f, <1>j, <1>p DEF IInv, MergedAlone, Counts
<1>12. RequestsOnce' BY DEF IInv, RequestsOnce
<1>13. ReplyComplete' BY DEF IInv, ReplyComplete
<1>14. EntryAlwaysFound' BY DEF IInv, EntryAlwaysFound, StaysUp
<1>. QED BY <1>1, <1>2, <1>3, <1>4, <1>5, <1>6, <1>7, <1>8, <1>9,
     <1>10, <1>11, <1>12, <1>13, <1>14 DEF IInv

\* Taking the fine lock.
LEMMA TakeFineKeeps ==
  ASSUME IInv, NEW x \in Responders, TakeFine(x), TypeOK'
  PROVE  IInv'
<1>. USE ThreadsAssumption, BucketsAssumption
     DEF TakeFine, FineFree, ResponderGoes, StaysUp, grpcVars, queueVars, workerVars,
         mapVars,
         entryVars, bucketVars, respVars
<1>0. TypeOK BY DEF IInv
<1>. DEFINE c == xcall[x]
              b == c.id
<1>g. c \in Calls /\ b \in Addr BY <1>0 DEF TypeOK, Calls
<1>j. /\ xpc[x] = "lockFine" /\ xpc'[x] = "store"
      /\ \A y \in Responders : y # x => xpc'[y] = xpc[y]
  BY <1>0 DEF TypeOK
<1>a. EventsUnderway' = EventsUnderway BY DEF EventsUnderway
<1>b. Pending' = Pending BY <1>0, <1>j DEF Pending, Carries, TypeOK
<1>c. OutstandingCalls' = OutstandingCalls BY <1>0, <1>j DEF OutstandingCalls, TypeOK
<1>d. \A a \in Addr : Counting(a)' <=> Counting(a) BY <1>0, <1>j DEF Counting, Counts,
        TypeOK
<1>e. \A v \in Workers : \A a \in Addr : Runs(v, a)' <=> Runs(v, a) BY <1>0 DEF Runs,
        TypeOK
<1>p. \A a \in Addr : Packed(a)' <=> Packed(a) BY DEF Packed
<1>f. \A a \in Addr :
         /\ Busy(a)' <=> Busy(a)
         /\ Sending(a)' <=> Sending(a)
         /\ HasEvent(a)' <=> HasEvent(a)
         /\ Finishing(a)' <=> Finishing(a)
  BY <1>0, <1>a, <1>b, <1>d DEF Busy, Sending, HasEvent, Finishing, TypeOK
<1>1. AddressesHeld' BY <1>e, <1>f DEF IInv, AddressesHeld
<1>2. EventsUnique' BY DEF IInv, EventsUnique
<1>3. EventsAlone' BY <1>0, <1>a, <1>f, <1>e DEF IInv, EventsAlone
<1>4. WorkersAlone' BY <1>0, <1>e, <1>f DEF IInv, WorkersAlone, TypeOK, Runs
<1>5. CallsLive' BY <1>c DEF IInv, CallsLive
<1>6. CallsUnique' BY <1>0, <1>j DEF IInv, CallsUnique, Carries, TypeOK
<1>7. SlotsFilled' BY <1>b, <1>d, <1>f DEF IInv, SlotsFilled, SlotsAt
<1>8. SendingAlone' BY <1>0, <1>b, <1>d, <1>f DEF IInv, SendingAlone, TypeOK
<1>9. WorkerTimeIn' BY <1>f DEF IInv, WorkerTimeIn
<1>10. LocksHeld' BY <1>0, <1>g, <1>j DEF IInv, LocksHeld, TypeOK, Threads
<1>11. MergedAlone' BY <1>b, <1>f, <1>j, <1>p DEF IInv, MergedAlone, Counts
<1>12. RequestsOnce' BY DEF IInv, RequestsOnce
<1>13. ReplyComplete' BY DEF IInv, ReplyComplete
<1>14. EntryAlwaysFound' BY DEF IInv, EntryAlwaysFound, StaysUp
<1>. QED BY <1>1, <1>2, <1>3, <1>4, <1>5, <1>6, <1>7, <1>8, <1>9,
     <1>10, <1>11, <1>12, <1>13, <1>14 DEF IInv

\* The first empty slot takes the answer, which is no longer pending.
LEMMA StoreKeeps ==
  ASSUME IInv, NEW x \in Responders, Store(x), TypeOK'
  PROVE  IInv'
<1>. USE ThreadsAssumption, BucketsAssumption
     DEF Store, ResponderGoes, StaysUp, grpcVars, queueVars, workerVars, mapVars,
         entryVars, bucketVars, respVars
<1>0. TypeOK BY DEF IInv
<1>. DEFINE c == xcall[x]
              b == c.id
<1>g. c \in Calls /\ b \in Addr BY <1>0 DEF TypeOK, Calls
<1>h. /\ xpc[x] = "store" /\ Carries(x) /\ c \in Pending /\ c \in OutstandingCalls
      /\ fine[b] = x
      /\ xpc' = [xpc EXCEPT ![x] = "count"]
      /\ slots' = [slots EXCEPT ![b][recvd[b] + 1] = c]
  BY <1>g DEF Pending, OutstandingCalls, Carries, IInv, LocksHeld
<1>i. /\ Busy(b) /\ ~Counting(b) /\ ~Sending(b) /\ ~Finishing(b)
      /\ \A w \in Workers : ~(wpc[w] = "send" /\ wcall[w] = b)
  <2>1. \A y \in Responders : Counts(y) => xcall[y].id # b
    <3>1. \A y \in Responders : xpc[y] = "finish" => xcall[y].id # b
      BY <1>g, <1>h DEF IInv, MergedAlone
    <3>2. \A y \in Responders : xpc[y] = "count" => xcall[y].id # b
      BY <1>g, <1>h DEF IInv, LocksHeld
    <3>. QED BY <3>1, <3>2 DEF Counts
  <2>2. \A w \in Workers : ~(wpc[w] = "send" /\ wcall[w] = b) BY <1>g, <1>h DEF IInv,
          LocksHeld
  <2>. QED BY <1>g, <1>h, <2>1, <2>2 DEF Busy, Counting, Sending, Finishing, Counts
<1>j. /\ xpc'[x] = "count"
      /\ \A y \in Responders : y # x => xpc'[y] = xpc[y]
  BY <1>0, <1>h DEF TypeOK
<1>a. EventsUnderway' = EventsUnderway BY DEF EventsUnderway
<1>b. Pending' = Pending \ {c}
  <2>1. \A y \in Responders : Carries(y)' <=> Carries(y) /\ y # x BY <1>h,
          <1>j DEF Carries
  <2>2. /\ c \notin calls
        /\ \A d \in bucketCq : d.call # c
        /\ \A y \in Responders : Carries(y) /\ y # x => xcall[y] # c
    BY <1>h DEF IInv, CallsUnique
  <2>3. Pending' = calls \cup {d.call : d \in bucketCq}
                         \cup {xcall[y] : y \in {z \in Responders : Carries(z)'}}
    BY DEF Pending
  <2>. HIDE DEF Store, c
  <2>. QED BY <1>h, <2>1, <2>2, <2>3 DEF Pending
<1>c. OutstandingCalls' = OutstandingCalls BY <1>h, <1>j DEF OutstandingCalls
<1>d. \A a \in Addr : Counting(a)' <=> (Counting(a) \/ a = b) BY <1>h,
        <1>j DEF Counting, Counts
<1>e. \A v \in Workers : \A a \in Addr : Runs(v, a)' <=> Runs(v, a) BY <1>0 DEF Runs,
        TypeOK
<1>p. \A a \in Addr : Packed(a)' <=> Packed(a) BY DEF Packed
<1>f. \A a \in Addr :
         /\ Busy(a)' <=> Busy(a)
         /\ Sending(a)' <=> Sending(a)
         /\ HasEvent(a)' <=> HasEvent(a)
         /\ Finishing(a)' <=> Finishing(a)
  <2>1. \A a \in Addr : Busy(a)' <=> Busy(a) BY <1>b, <1>d, <1>i DEF Busy
  <2>. QED BY <1>0, <1>a, <1>h, <1>j, <2>1 DEF Sending, HasEvent, Finishing, TypeOK
<1>1. AddressesHeld' BY <1>e, <1>f DEF IInv, AddressesHeld
<1>2. EventsUnique' BY DEF IInv, EventsUnique
<1>3. EventsAlone' BY <1>0, <1>a, <1>f, <1>e DEF IInv, EventsAlone
<1>4. WorkersAlone' BY <1>0, <1>e, <1>f DEF IInv, WorkersAlone, TypeOK, Runs
<1>5. CallsLive' BY <1>c DEF IInv, CallsLive
<1>6. CallsUnique' BY <1>0, <1>h, <1>j DEF IInv, CallsUnique, Carries
<1>7. SlotsFilled'
  <2>1. ASSUME NEW a \in Addr, a # b, Busy(a)' \/ Sending(a)'
        PROVE  slots'[a] = slots[a] /\ (Counting(a)' <=> Counting(a))
    BY <1>0, <1>d, <1>h, <2>1 DEF TypeOK
  <2>2. /\ slots[b] \in [1 .. NumBuckets -> Calls \cup {None}]
        /\ recvd[b] + 1 \in 1 .. NumBuckets /\ recvd[b] \in Nat
        /\ \A i \in 1 .. NumBuckets :
              /\ slots[b][i] # None <=> i <= recvd[b]
              /\ slots[b][i] # None =>
                    /\ slots[b][i].id = b
                    /\ slots[b][i].req = request[b]
                    /\ slots[b][i] \notin Pending
        /\ \A i, j \in 1 .. NumBuckets :
              slots[b][i] # None /\ slots[b][i] = slots[b][j] => i = j
    <3>1. recvd[b] + 1 \in 1 .. NumBuckets /\ recvd[b] \in Nat BY <1>0,
            <1>g DEF TypeOK, Buckets
    <3>. QED BY <1>g, <1>i, <3>1 DEF IInv, SlotsFilled, SlotsAt
  <2>3. /\ c # None /\ c.id = b /\ c.req = request[b] /\ c \notin Pending'
    BY <1>b, <1>g, <1>h DEF IInv, CallsLive
  <2>4. /\ slots'[b] = [slots[b] EXCEPT ![recvd[b] + 1] = c]
        /\ slots'[b][recvd[b] + 1] = c
        /\ \A i \in 1 .. NumBuckets : i # recvd[b] + 1 => slots'[b][i] = slots[b][i]
    <3>1. slots'[b] = [slots[b] EXCEPT ![recvd[b] + 1] = c] BY <1>0, <1>g,
            <1>h DEF TypeOK
    <3>. HIDE DEF c, b, Store
    <3>. QED BY <2>2, <3>1
  <2>5. /\ slots'[b] \in [1 .. NumBuckets -> Calls \cup {None}]
        /\ \A i \in 1 .. NumBuckets :
              /\ slots'[b][i] # None <=> i <= recvd[b] \/ i = recvd[b] + 1
              /\ slots'[b][i] # None =>
                    /\ slots'[b][i].id = b
                    /\ slots'[b][i].req = request[b]
                    /\ slots'[b][i] \notin Pending'
        /\ \A i, j \in 1 .. NumBuckets :
              slots'[b][i] # None /\ slots'[b][i] = slots'[b][j] => i = j
    <3>. HIDE DEF c, b
    <3>1. slots'[b] \in [1 .. NumBuckets -> Calls \cup {None}] BY <1>g, <2>2, <2>4
    <3>2. \A i \in 1 .. NumBuckets :
              /\ slots'[b][i] # None <=> i <= recvd[b] \/ i = recvd[b] + 1
              /\ slots'[b][i] # None =>
                    /\ slots'[b][i].id = b
                    /\ slots'[b][i].req = request[b]
                    /\ slots'[b][i] \notin Pending'
      BY <1>b, <2>2, <2>3, <2>4
    <3>3. \A i \in 1 .. NumBuckets : slots[b][i] # c BY <1>h, <2>2, <2>3
    <3>4. \A i, j \in 1 .. NumBuckets :
              slots'[b][i] # None /\ slots'[b][i] = slots'[b][j] => i = j
      BY <2>2, <2>4, <3>3
    <3>. QED BY <3>1, <3>2, <3>4
  <2>6. recvd' = recvd /\ request' = request OBVIOUS
  <2>7. SlotsFilled BY DEF IInv
  <2>. HIDE DEF IInv, Store, c, b
  <2>. SUFFICES ASSUME NEW a \in Addr, (Busy(a) \/ Sending(a))'
                PROVE SlotsAt(a)'
    BY DEF SlotsFilled
  <2>8. CASE a = b BY <1>d, <2>5, <2>6, <2>8 DEF SlotsAt
  <2>9. CASE a # b
    <3>1. slots'[a] = slots[a] /\ (Counting(a)' <=> Counting(a)) /\ (Busy(a) \/ Sending(a))
      BY <1>f, <2>1, <2>9
    <3>. QED BY <1>b, <2>6, <2>7, <3>1 DEF SlotsFilled, SlotsAt
  <2>. QED BY <2>8, <2>9
<1>8. SendingAlone' BY <1>0, <1>b, <1>d, <1>f, <1>i DEF IInv, SendingAlone, TypeOK
<1>9. WorkerTimeIn' BY <1>f DEF IInv, WorkerTimeIn
<1>10. LocksHeld' BY <1>0, <1>h, <1>j DEF IInv, LocksHeld, TypeOK, Threads
<1>11. MergedAlone'
  BY <1>0, <1>b, <1>f, <1>h, <1>i, <1>j, <1>p DEF IInv, MergedAlone, Counts, TypeOK,
     Finishing
<1>12. RequestsOnce' BY DEF IInv, RequestsOnce
<1>13. ReplyComplete' BY DEF IInv, ReplyComplete
<1>14. EntryAlwaysFound' BY DEF IInv, EntryAlwaysFound, StaysUp
<1>. QED BY <1>1, <1>2, <1>3, <1>4, <1>5, <1>6, <1>7, <1>8, <1>9,
     <1>10, <1>11, <1>12, <1>13, <1>14 DEF IInv

\* The count-down catches up with the slots.
LEMMA CountDownKeeps ==
  ASSUME IInv, NEW x \in Responders, CountDown(x), TypeOK'
  PROVE  IInv'
<1>. USE ThreadsAssumption, BucketsAssumption
     DEF CountDown, IsLast, ResponderGoes, StaysUp, grpcVars, queueVars, workerVars,
         mapVars,
         entryVars, bucketVars, respVars
<1>0. TypeOK BY DEF IInv
<1>. DEFINE c == xcall[x]
              b == c.id
<1>g. c \in Calls /\ b \in Addr BY <1>0 DEF TypeOK, Calls
<1>h. /\ xpc[x] = "count" /\ Counts(x) /\ c \in OutstandingCalls
      /\ fine[b] = x
      /\ xpc' = [xpc EXCEPT ![x] = "idle"]
      /\ xcall' = [xcall EXCEPT ![x] = None]
      /\ recvd' = [recvd EXCEPT ![b] = @ + 1]
      /\ fine' = [fine EXCEPT ![b] = None]
  BY <1>g DEF OutstandingCalls, Counts, IInv, LocksHeld
<1>j. /\ xpc'[x] = "idle"
      /\ \A y \in Responders : y # x => xpc'[y] = xpc[y] /\ xcall'[y] = xcall[y]
  BY <1>0, <1>h DEF TypeOK
<1>i. /\ Busy(b) /\ Counting(b) /\ ~Sending(b) /\ ~Finishing(b)
      /\ \A w \in Workers : ~(wpc[w] \in {"fill", "send"} /\ wcall[w] = b)
      /\ \A y \in Responders : Counts(y) /\ xcall[y].id = b => y = x
      /\ \A y \in Responders : xpc[y] = "store" => xcall[y].id # b
  <2>1. \A y \in Responders : Counts(y) /\ xcall[y].id = b => y = x
    <3>1. \A y \in Responders : xpc[y] = "finish" /\ xcall[y].id = b => y = x
      BY <1>g, <1>h DEF IInv, MergedAlone
    <3>2. \A y \in Responders : xpc[y] = "count" /\ xcall[y].id = b => y = x
      BY <1>g, <1>h DEF IInv, LocksHeld
    <3>. QED BY <3>1, <3>2 DEF Counts
  <2>2. \A w \in Workers : ~(wpc[w] \in {"fill", "send"} /\ wcall[w] = b)
    BY <1>g, <1>h, ThreadsAssumption DEF IInv, LocksHeld
  <2>3. \A y \in Responders : xpc[y] = "store" => xcall[y].id # b
    BY <1>g, <1>h DEF IInv, LocksHeld
  <2>. QED BY <1>g, <1>h, <2>1, <2>2, <2>3 DEF Busy, Counting, Sending, Finishing,
          Counts
<1>a. EventsUnderway' = EventsUnderway BY DEF EventsUnderway
<1>b. Pending' = Pending BY <1>h, <1>j DEF Pending, Carries
<1>c. OutstandingCalls' \subseteq OutstandingCalls BY <1>h, <1>j DEF OutstandingCalls
<1>d. \A a \in Addr : Counting(a)' <=> Counting(a) /\ a # b
  BY <1>h, <1>i, <1>j DEF Counting, Counts
<1>e. \A v \in Workers : \A a \in Addr : Runs(v, a)' <=> Runs(v, a) BY <1>0 DEF Runs,
        TypeOK
<1>p. \A a \in Addr : Packed(a)' <=> Packed(a) BY DEF Packed
<1>f. \A a \in Addr :
         /\ Busy(a)' => Busy(a)
         /\ a # b => (Busy(a)' <=> Busy(a))
         /\ Sending(a)' <=> Sending(a)
         /\ HasEvent(a)' <=> HasEvent(a)
         /\ Finishing(a)' <=> Finishing(a)
  <2>1. \A a \in Addr : /\ Busy(a)' => Busy(a)
                        /\ a # b => (Busy(a)' <=> Busy(a))
    BY <1>b, <1>d DEF Busy
  <2>. QED BY <1>0, <1>a, <1>h, <1>j, <2>1 DEF Sending, HasEvent, Finishing, TypeOK
<1>1. AddressesHeld' BY <1>e, <1>f DEF IInv, AddressesHeld
<1>2. EventsUnique' BY DEF IInv, EventsUnique
<1>3. EventsAlone' BY <1>0, <1>a, <1>f, <1>e DEF IInv, EventsAlone
<1>4. WorkersAlone' BY <1>0, <1>e, <1>f DEF IInv, WorkersAlone, TypeOK, Runs
<1>5. CallsLive' BY <1>c DEF IInv, CallsLive
<1>6. CallsUnique' BY <1>0, <1>h, <1>j DEF IInv, CallsUnique, Carries
<1>7. SlotsFilled'
  <2>1. \A a \in Addr : a # b => recvd'[a] = recvd[a] /\ (Counting(a)' <=> Counting(a))
    BY <1>0, <1>d, <1>h DEF TypeOK
  <2>2. recvd'[b] = recvd[b] + 1 /\ recvd[b] \in Nat /\ Counting(b) /\ Busy(b)
    BY <1>0, <1>g, <1>h, <1>i DEF TypeOK, Buckets
  <2>3. SlotsFilled BY DEF IInv
  <2>4. slots' = slots /\ request' = request OBVIOUS
  <2>. HIDE DEF IInv, CountDown, IsLast, ResponderGoes, c, b
  <2>. SUFFICES ASSUME NEW a \in Addr, (Busy(a) \/ Sending(a))'
                PROVE SlotsAt(a)'
    BY DEF SlotsFilled
  <2>5. Busy(a) \/ Sending(a) BY <1>f
  <2>8. CASE a = b BY <1>b, <1>d, <2>2, <2>3, <2>4, <2>5, <2>8 DEF SlotsFilled, SlotsAt
  <2>9. CASE a # b BY <1>b, <2>1, <2>3, <2>4, <2>5, <2>9 DEF SlotsFilled, SlotsAt
  <2>. QED BY <2>8, <2>9
<1>8. SendingAlone' BY <1>0, <1>b, <1>d, <1>f, <1>h, <1>i DEF IInv, SendingAlone, TypeOK
<1>9. WorkerTimeIn' BY <1>f DEF IInv, WorkerTimeIn
<1>10. LocksHeld' BY <1>0, <1>g, <1>h, <1>i, <1>j DEF IInv, LocksHeld, TypeOK, Threads
<1>11. MergedAlone'
  BY <1>0, <1>b, <1>f, <1>h, <1>i, <1>j, <1>p DEF IInv, MergedAlone, Counts, TypeOK,
     Finishing
<1>12. RequestsOnce' BY DEF IInv, RequestsOnce
<1>13. ReplyComplete' BY DEF IInv, ReplyComplete
<1>14. EntryAlwaysFound' BY DEF IInv, EntryAlwaysFound, StaysUp
<1>. QED BY <1>1, <1>2, <1>3, <1>4, <1>5, <1>6, <1>7, <1>8, <1>9,
     <1>10, <1>11, <1>12, <1>13, <1>14 DEF IInv

\* All slots are full: they hold one answer of every bucket, nothing of the
\* request is pending, and the reply is packed.
LEMMA MergeKeeps ==
  ASSUME IInv, NEW x \in Responders, Merge(x), TypeOK'
  PROVE  IInv'
<1>. USE ThreadsAssumption, BucketsAssumption
     DEF Merge, IsLast, ResponderGoes, StaysUp, grpcVars, queueVars, workerVars,
         mapVars,
         entryVars, bucketVars, respVars
<1>0. TypeOK BY DEF IInv
<1>. DEFINE c == xcall[x]
              b == c.id
<1>g. c \in Calls /\ b \in Addr BY <1>0 DEF TypeOK, Calls
<1>h. /\ xpc[x] = "count" /\ Counts(x) /\ c \in OutstandingCalls
      /\ fine[b] = x
      /\ xpc' = [xpc EXCEPT ![x] = "finish"]
      /\ fine' = [fine EXCEPT ![b] = None]
      /\ recvd[b] = NumBuckets - 1
  BY <1>g DEF OutstandingCalls, Counts, IInv, LocksHeld
<1>j. /\ xpc'[x] = "finish"
      /\ \A y \in Responders : y # x => xpc'[y] = xpc[y]
  BY <1>0, <1>h DEF TypeOK
<1>i. /\ Busy(b) /\ Counting(b) /\ ~Sending(b) /\ ~Finishing(b)
      /\ \A w \in Workers : ~(wpc[w] \in {"fill", "send"} /\ wcall[w] = b)
      /\ \A y \in Responders : Counts(y) /\ xcall[y].id = b => y = x
      /\ \A y \in Responders : xpc[y] = "store" => xcall[y].id # b
  <2>1. \A y \in Responders : Counts(y) /\ xcall[y].id = b => y = x
    <3>1. \A y \in Responders : xpc[y] = "finish" /\ xcall[y].id = b => y = x
      BY <1>g, <1>h DEF IInv, MergedAlone
    <3>2. \A y \in Responders : xpc[y] = "count" /\ xcall[y].id = b => y = x
      BY <1>g, <1>h DEF IInv, LocksHeld
    <3>. QED BY <3>1, <3>2 DEF Counts
  <2>2. \A w \in Workers : ~(wpc[w] \in {"fill", "send"} /\ wcall[w] = b)
    BY <1>g, <1>h, ThreadsAssumption DEF IInv, LocksHeld
  <2>3. \A y \in Responders : xpc[y] = "store" => xcall[y].id # b
    BY <1>g, <1>h DEF IInv, LocksHeld
  <2>. QED BY <1>g, <1>h, <2>1, <2>2, <2>3 DEF Busy, Counting, Sending, Finishing,
          Counts
<1>k. /\ Stored(b) \subseteq Calls
      /\ \A d \in Stored(b) : d.id = b /\ d.req = request[b] /\ d \notin Pending
      /\ {d.bucket : d \in Stored(b)} = Buckets
  <2>. DEFINE s == slots[b]
              f == [i \in 1 .. NumBuckets |-> s[i].bucket]
  <2>1. NumBuckets \in Nat \ {0} OBVIOUS
  <2>2. /\ s \in [1 .. NumBuckets -> Calls \cup {None}]
        /\ \A i \in 1 .. NumBuckets :
              /\ s[i] # None /\ s[i] \in Calls
              /\ s[i].id = b
              /\ s[i].req = request[b]
              /\ s[i] \notin Pending
        /\ \A i, j \in 1 .. NumBuckets : s[i] = s[j] => i = j
    BY <1>g, <1>h, <1>i, <2>1 DEF IInv, SlotsFilled, SlotsAt
  <2>3. Stored(b) = {s[i] : i \in 1 .. NumBuckets} BY <2>2 DEF Stored
  <2>4. \A i \in 1 .. NumBuckets : s[i].bucket \in Buckets BY <2>2 DEF Calls
  <2>5. \A d, e \in Calls : d.id = e.id /\ d.bucket = e.bucket /\ d.req = e.req => d = e
    BY DEF Calls
  <2>6. \A i, j \in 1 .. NumBuckets : s[i].bucket = s[j].bucket => i = j
    <3>1. \A i \in 1 .. NumBuckets : s[i] \in Calls /\ s[i].id = b /\ s[i].req = request[b]
      BY <2>2
    <3>2. \A i, j \in 1 .. NumBuckets : s[i].bucket = s[j].bucket => s[i] = s[j]
      <4>. HIDE DEF s, b
      <4>. QED BY <2>5, <3>1
    <3>. QED BY <2>2, <3>2
  <2>7. f \in [1 .. NumBuckets -> Buckets] /\ \A i, j \in 1 .. NumBuckets : f[i] = f[j] => i = j
    BY <2>4, <2>6
  <2>8. {f[i] : i \in 1 .. NumBuckets} = Buckets
    <3>. HIDE DEF f
    <3>. QED BY <2>7, EveryBucketStored
  <2>9. {s[i].bucket : i \in 1 .. NumBuckets} = Buckets BY <2>8
  <2>. HIDE DEF s, b
  <2>10. {d.bucket : d \in Stored(b)} = {s[i].bucket : i \in 1 .. NumBuckets} BY <2>3
  <2>. QED BY <2>2, <2>3, <2>9, <2>10
<1>l. \A d \in Pending : d.id # b
  <2>. SUFFICES ASSUME NEW d \in Pending, d.id = b PROVE FALSE OBVIOUS
  <2>1. d \in Calls /\ d \in OutstandingCalls
    BY <1>0 DEF Pending, Carries, TypeOK, OutstandingCalls
  <2>2. d.req = request[b] /\ d.bucket \in Buckets BY <1>g, <2>1 DEF IInv, CallsLive,
          Calls
  <2>3. PICK e \in Stored(b) : e.bucket = d.bucket BY <1>k, <2>2
  <2>4. e = d
    <3>1. e \in Calls /\ e.id = d.id /\ e.req = d.req /\ e.bucket = d.bucket BY <1>k,
            <2>2, <2>3
    <3>. QED BY <2>1, <3>1 DEF Calls
  <2>. QED BY <1>k, <2>3, <2>4
<1>m. /\ answers'[b] = Stored(b) /\ time'[b] = {"worker", "merge"}
      /\ \A a \in Addr : a # b => answers'[a] = answers[a] /\ time'[a] = time[a]
      /\ slots' = slots /\ request' = request
  <2>1. time[b] = {"worker"} BY <1>g, <1>i DEF IInv, WorkerTimeIn
  <2>2. time'[b] = time[b] \cup {"merge"} BY <1>0, <1>g DEF TypeOK
  <2>. QED BY <1>0, <1>g, <2>1, <2>2 DEF TypeOK
<1>p. \A a \in Addr : Packed(a)' <=> (Packed(a) \/ a = b)
  <2>1. \A a \in Addr : a # b => (Packed(a)' <=> Packed(a)) BY <1>m DEF Packed
  <2>2. Packed(b)'
    <3>1. {d.req : d \in Stored(b)} = {request[b]}
      <4>1. Stored(b) # {} BY <1>k, BucketsAssumption DEF Buckets
      <4>. QED BY <1>k, <4>1
    <3>. QED BY <1>k, <1>m, <3>1 DEF Packed
  <2>3. TAKE a \in Addr
  <2>4. CASE a = b BY <2>2, <2>4
  <2>5. CASE a # b BY <2>1, <2>5
  <2>. QED BY <2>4, <2>5
<1>a. EventsUnderway' = EventsUnderway BY DEF EventsUnderway
<1>b. Pending' = Pending BY <1>h, <1>j DEF Pending, Carries
<1>c. OutstandingCalls' = OutstandingCalls BY <1>h, <1>j DEF OutstandingCalls
<1>d. \A a \in Addr : Counting(a)' <=> Counting(a) BY <1>h, <1>j DEF Counting, Counts
<1>e. \A v \in Workers : \A a \in Addr : Runs(v, a)' <=> Runs(v, a) BY <1>0 DEF Runs,
        TypeOK
<1>f. \A a \in Addr :
         /\ Busy(a)' <=> Busy(a)
         /\ Sending(a)' <=> Sending(a)
         /\ HasEvent(a)' <=> HasEvent(a)
  BY <1>0, <1>a, <1>b, <1>d DEF Busy, Sending, HasEvent, TypeOK
<1>q. \A a \in Addr : Finishing(a)' <=> (Finishing(a) \/ a = b) BY <1>h,
        <1>j DEF Finishing
<1>1. AddressesHeld' BY <1>e, <1>f DEF IInv, AddressesHeld
<1>2. EventsUnique' BY DEF IInv, EventsUnique
<1>3. EventsAlone' BY <1>0, <1>a, <1>f, <1>e DEF IInv, EventsAlone
<1>4. WorkersAlone' BY <1>0, <1>e, <1>f DEF IInv, WorkersAlone, TypeOK, Runs
<1>5. CallsLive' BY <1>c DEF IInv, CallsLive
<1>6. CallsUnique' BY <1>0, <1>h, <1>j DEF IInv, CallsUnique, Carries
<1>7. SlotsFilled' BY <1>b, <1>d, <1>f DEF IInv, SlotsFilled, SlotsAt
<1>8. SendingAlone' BY <1>0, <1>b, <1>d, <1>f, <1>h, <1>i DEF IInv, SendingAlone, TypeOK
<1>9. WorkerTimeIn' BY <1>f, <1>m, <1>q DEF IInv, WorkerTimeIn
<1>10. LocksHeld' BY <1>0, <1>g, <1>h, <1>i, <1>j DEF IInv, LocksHeld, TypeOK, Threads
<1>11. MergedAlone'
  <2>. SUFFICES ASSUME NEW y \in Responders, NEW a \in Addr, (xpc[y] = "finish" /\ xcall[y].id = a)'
                PROVE  (
        /\ \A d \in Pending : d.id # a
        /\ \A z \in Responders : Counts(z) /\ xcall[z].id = a => y = z
        /\ ~Sending(a)
        /\ Packed(a))'
    BY DEF MergedAlone
  <2>0. \A z \in Responders : Counts(z)' <=> Counts(z) BY <1>h, <1>j DEF Counts
  <2>1. CASE y = x
    <3>1. a = b BY <2>1
    <3>2. \A z \in Responders : Counts(z)' /\ xcall'[z].id = b => x = z BY <1>i, <2>0
    <3>3. Packed(a)' /\ ~Sending(a)' BY <1>f, <1>g, <1>i, <1>p, <3>1
    <3>. QED BY <1>b, <1>l, <2>1, <3>1, <3>2, <3>3
  <2>2. CASE y # x
    <3>1. xpc[y] = "finish" BY <1>j, <2>2
    <3>. QED BY <1>b, <1>f, <1>p, <2>0, <3>1 DEF IInv, MergedAlone
  <2>. QED BY <2>1, <2>2
<1>12. RequestsOnce' BY DEF IInv, RequestsOnce
<1>13. ReplyComplete' BY DEF IInv, ReplyComplete
<1>14. EntryAlwaysFound' BY DEF IInv, EntryAlwaysFound, StaysUp
<1>. QED BY <1>1, <1>2, <1>3, <1>4, <1>5, <1>6, <1>7, <1>8, <1>9,
     <1>10, <1>11, <1>12, <1>13, <1>14 DEF IInv

\* The packed reply is sent and the call finished: nothing refers to its
\* address but the finish event.
LEMMA FinishCallKeeps ==
  ASSUME IInv, NEW x \in Responders, FinishCall(x), TypeOK'
  PROVE  IInv'
<1>. USE ThreadsAssumption, BucketsAssumption
     DEF FinishCall, ResponderGoes, StaysUp, grpcVars, queueVars, workerVars, mapVars,
         entryVars, bucketVars, respVars
<1>0. TypeOK BY DEF IInv
<1>. DEFINE c == xcall[x]
              b == c.id
<1>g. c \in Calls /\ b \in Addr BY <1>0 DEF TypeOK, Calls
<1>. DEFINE reply == [answers |-> answers[b], time |-> time[b], kill |-> FALSE]
              new == [tag |-> b, kind |-> "finished"]
<1>h. /\ xpc[x] = "finish" /\ Counts(x) /\ c \in OutstandingCalls
      /\ xpc' = [xpc EXCEPT ![x] = "idle"]
      /\ xcall' = [xcall EXCEPT ![x] = None]
      /\ Finish(b, reply)
  BY DEF OutstandingCalls, Counts
<1>j. /\ xpc'[x] = "idle"
      /\ \A y \in Responders : y # x => xpc'[y] = xpc[y] /\ xcall'[y] = xcall[y]
  BY <1>0, <1>h DEF TypeOK
<1>i. /\ Busy(b) /\ Counting(b) /\ ~Sending(b) /\ Packed(b)
      /\ \A w \in Workers : ~Runs(w, b)
      /\ \A d \in Pending : d.id # b
      /\ \A y \in Responders : Counts(y) /\ xcall[y].id = b => y = x
  <2>1. /\ Counting(b) /\ Busy(b) BY <1>h DEF Busy, Counting
  <2>2. /\ ~Sending(b) /\ Packed(b)
        /\ \A d \in Pending : d.id # b
        /\ \A y \in Responders : Counts(y) /\ xcall[y].id = b => y = x
    BY <1>g, <1>h DEF IInv, MergedAlone
  <2>3. \A w \in Workers : ~Runs(w, b) BY <1>g, <2>1, <2>2 DEF IInv, WorkersAlone,
          Runs, Sending
  <2>. QED BY <2>1, <2>2, <2>3
<1>k. /\ status[b] = "PROCESS" /\ request[b] \in Requests /\ request[b] \notin Kills
      /\ b \notin armed /\ ~HasEvent(b)
      /\ reply \in Replies /\ ~reply.kill
      /\ reply.answers = answers[b] /\ reply.time = time[b]
  <2>1. /\ status[b] = "PROCESS" /\ request[b] \in Requests /\ request[b] \notin Kills
    BY <1>g, <1>h DEF IInv, CallsLive
  <2>2. b \notin armed /\ ~HasEvent(b)
    BY <1>g, <1>i DEF IInv, AddressesHeld, EventsAlone, HasEvent
  <2>3. reply \in Replies BY <1>0, <1>g DEF TypeOK, Replies
  <2>. QED BY <2>1, <2>2, <2>3
<1>n. /\ cq' = cq \cup {new} /\ new.tag = b /\ new.kind = "finished"
      /\ status' = [status EXCEPT ![b] = "FINISH"]
      /\ UNCHANGED <<request, armed>>
  BY <1>h DEF Finish
<1>r. /\ replies'[request[b]] # <<>>
      /\ \A r \in Requests : r # request[b] => replies'[r] = replies[r]
  <2>. HIDE DEF reply
  <2>. QED BY <1>g, <1>h, <1>k, FinishReplies
<1>a. EventsUnderway' = EventsUnderway \cup {new} BY <1>n DEF EventsUnderway
<1>b. Pending' = Pending BY <1>h, <1>j DEF Pending, Carries
<1>c. OutstandingCalls' \subseteq OutstandingCalls /\ \A d \in OutstandingCalls' : d.id # b
  <2>1. OutstandingCalls' \subseteq OutstandingCalls BY <1>h, <1>j DEF OutstandingCalls
  <2>2. \A y \in Responders : xpc'[y] # "idle" => xcall'[y].id # b
    <3>1. \A y \in Responders : y # x /\ xpc[y] # "idle" =>
             Counts(y) \/ xcall[y] \in Pending
      BY <1>0 DEF TypeOK, Counts, Pending, Carries
    <3>. QED BY <1>i, <1>j, <3>1
  <2>3. \A d \in calls : d.id # b BY <1>i DEF Pending
  <2>4. \A d \in bucketCq : d.call.id # b BY <1>i DEF Pending
  <2>. QED BY <2>1, <2>2, <2>3, <2>4 DEF OutstandingCalls
<1>d. \A a \in Addr : Counting(a)' <=> Counting(a) /\ a # b
  BY <1>h, <1>i, <1>j DEF Counting, Counts
<1>e. \A v \in Workers : \A a \in Addr : Runs(v, a)' <=> Runs(v, a) BY <1>0 DEF Runs,
        TypeOK
<1>p. \A a \in Addr : Packed(a)' <=> Packed(a) BY <1>n DEF Packed
<1>f. \A a \in Addr :
         /\ Busy(a)' <=> Busy(a) /\ a # b
         /\ Sending(a)' <=> Sending(a)
         /\ Finishing(a)' <=> Finishing(a) /\ a # b
  <2>1. \A a \in Addr : Busy(a)' <=> Busy(a) /\ a # b BY <1>b, <1>d, <1>i DEF Busy
  <2>2. \A a \in Addr : Finishing(a)' <=> Finishing(a) /\ a # b
    BY <1>h, <1>i, <1>j DEF Finishing, Counts
  <2>. QED BY <1>0, <2>1, <2>2 DEF Sending, TypeOK
<1>q. \A a \in Addr : HasEvent(a)' <=> (HasEvent(a) \/ a = b) BY <1>a, <1>n DEF HasEvent
<1>1. AddressesHeld' BY <1>0, <1>e, <1>f, <1>q, <1>k, <1>n DEF IInv, AddressesHeld,
        TypeOK
<1>2. EventsUnique' BY <1>k, <1>n DEF IInv, EventsUnique, HasEvent, EventsUnderway
<1>3. EventsAlone'
  <2>1. \A a \in Addr : a # b => status'[a] = status[a] BY <1>0, <1>n DEF TypeOK
  <2>2. status'[b] = "FINISH" BY <1>0, <1>g, <1>n DEF TypeOK
  <2>3. \A f \in EventsUnderway : f.tag # b BY <1>k DEF HasEvent
  <2>. QED BY <1>0, <1>a, <1>e, <1>f, <1>i, <1>n, <2>1, <2>2, <2>3 DEF IInv, EventsAlone
<1>4. WorkersAlone' BY <1>0, <1>e, <1>f, <1>i, <1>n DEF IInv, WorkersAlone, TypeOK, Runs
<1>5. CallsLive' BY <1>0, <1>c, <1>n DEF IInv, CallsLive, TypeOK
<1>6. CallsUnique' BY <1>0, <1>h, <1>j DEF IInv, CallsUnique, Carries
<1>7. SlotsFilled' BY <1>b, <1>d, <1>f, <1>i, <1>n DEF IInv, SlotsFilled, SlotsAt
<1>8. SendingAlone' BY <1>0, <1>b, <1>d, <1>f DEF IInv, SendingAlone, TypeOK
<1>9. WorkerTimeIn' BY <1>f DEF IInv, WorkerTimeIn
<1>10. LocksHeld' BY <1>0, <1>g, <1>h, <1>j DEF IInv, LocksHeld, TypeOK, Threads
<1>11. MergedAlone'
  BY <1>0, <1>b, <1>f, <1>h, <1>i, <1>j, <1>p DEF IInv, MergedAlone, Counts, TypeOK,
     Finishing
<1>12. RequestsOnce' BY <1>0, <1>k, <1>n, <1>r DEF IInv, RequestsOnce, TypeOK
<1>13. ReplyComplete'
  <2>. HIDE DEF reply
  <2>. QED BY <1>g, <1>h, <1>i, <1>k, FinishReplyComplete DEF Packed
<1>14. EntryAlwaysFound' BY DEF IInv, EntryAlwaysFound, StaysUp
<1>. QED BY <1>1, <1>2, <1>3, <1>4, <1>5, <1>6, <1>7, <1>8, <1>9,
     <1>10, <1>11, <1>12, <1>13, <1>14 DEF IInv
=============================================================================
