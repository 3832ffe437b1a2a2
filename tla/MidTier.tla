------------------------------ MODULE MidTier ------------------------------
(***************************************************************************)
(* The request path of the HDSearch mid-tier server                        *)
(* (src/microsuite_files/midtier/mid_tier_server.cc).                      *)
(*                                                                         *)
(* Network pollers take events from the gRPC server completion queue and   *)
(* hand their tags to dispatch workers over dispatched_data_queue.  A tag  *)
(* is the heap address of a CallData; a worker that is handed a CallData   *)
(* in state PROCESS arms a fresh CallData, creates the request's entry in  *)
(* the count-down map and sends one RPC to every bucket server; one that   *)
(* is handed a CallData in state FINISH deletes it.  Response threads take *)
(* bucket answers from bucket_cq, store each in a slot of the entry and    *)
(* count down; the one that stores the last answer merges all of them and  *)
(* finishes the call.  The address is also unique_request_id, the key of   *)
(* the two maps, and the allocator reuses it after the delete.             *)
(*                                                                         *)
(* gRPC, the bucket servers and the client are not in this source file:    *)
(* their actions are marked external.                                      *)
(***************************************************************************)
EXTENDS Naturals, FiniteSets, Sequences

CONSTANTS
    Addr,          \* heap addresses a CallData can be allocated at
    Pollers,       \* network poller threads
    Workers,       \* dispatch threads
    Responders,    \* response threads
    NumBuckets,    \* number_of_bucket_servers
    Requests,      \* the client requests of one run (a bound on their number)
    Kills,         \* those that carry kill = true
    None,          \* no thread, no address, no request, no answer
    BucketsFail,   \* may a bucket RPC complete with a status that is not OK?
    LookupCanMiss  \* may a map lookup that races with an erase/insert miss?

Threads == Workers \cup Responders
Buckets == 0 .. NumBuckets - 1

\* The data.  The code sees only the tag of an event; its kind says which
\* gRPC operation completed and is read by properties alone.
Events == [tag : Addr, kind : {"request", "finished"}]

\* A bucket RPC carries the unique request id and the queries of the request
\* that the CallData at that address holds.
Calls == [id : Addr, bucket : Buckets, req : Requests \cup {None}]

\* response_data: no slot until the request is unpacked, then one per bucket.
NoSlots == [i \in {} |-> None]
Slots == [{} -> Calls \cup {None}] \cup [1 .. NumBuckets -> Calls \cup {None}]

\* The addends that have reached index_time of a reply.
Times == SUBSET {"worker", "merge"}

Replies == [answers : SUBSET Calls, time : Times, kill : BOOLEAN]

ASSUME ThreadsAssumption ==
    /\ Workers \cap Responders = {}
    /\ None \notin Threads \cup Addr \cup Requests \cup Events \cup Calls
ASSUME BucketsAssumption == NumBuckets \in Nat \ {0}
ASSUME KillsAssumption == Kills \subseteq Requests
ASSUME FlagsAssumption == BucketsFail \in BOOLEAN /\ LookupCanMiss \in BOOLEAN

VARIABLES
    status,        \* CallData::status_ by address, "FREE" where no object lives
    request,       \* CallData::load_gen_request_, None until gRPC fills it in
    armed,         \* CallData objects handed to RequestLoadGen_Index
    cq,            \* events in the server completion queue (no order promised)
    replies,       \* the replies gRPC was asked to send, by client request
    holding,       \* the event each poller has taken and not yet pushed
    started,       \* pollers that have allocated their first CallData
    dispatchQueue, \* dispatched_data_queue
    wpc,           \* where each worker is
    wcall,         \* the CallData each worker runs Proceed() of
    wnext,         \* the next bucket a worker sends to
    coarse,        \* owner of map_coarse_mutex
    fine,          \* owner of map_fine_mutex[a]
    registered,    \* the keys of response_count_down_map and map_fine_mutex
    recvd,         \* by key: responses_recvd,
    slots,         \*     response_data,
    answers,       \*     the answers packed into index_reply,
    time,          \*     index_time of index_reply
    calls,         \* bucket RPCs in flight
    bucketCq,      \* completed bucket RPCs: bucket_cq
    xpc,           \* where each response thread is
    xcall,         \* the AsyncClientCall each response thread holds
    process        \* "up", or why the server process exited

grpcVars   == <<status, request, armed, cq, replies>>
queueVars  == <<holding, started, dispatchQueue>>
workerVars == <<wpc, wcall, wnext>>
entryVars  == <<registered, recvd, slots, answers, time>>
mapVars    == <<coarse, fine, entryVars>>
bucketVars == <<calls, bucketCq>>
respVars   == <<xpc, xcall>>
vars == <<grpcVars, queueVars, workerVars, mapVars, bucketVars, respVars,
          process>>

\* main has launched the threads; no CallData exists.
Init ==
    /\ status = [a \in Addr |-> "FREE"]
    /\ request = [a \in Addr |-> None]
    /\ armed = {}
    /\ cq = {}
    /\ replies = [r \in Requests |-> <<>>]
    /\ holding = [p \in Pollers |-> None]
    /\ started = {}
    /\ dispatchQueue = <<>>
    /\ wpc = [w \in Workers |-> "idle"]
    /\ wcall = [w \in Workers |-> None]
    /\ wnext = [w \in Workers |-> 0]
    /\ coarse = None
    /\ fine = [a \in Addr |-> None]
    /\ registered = {}
    /\ recvd = [a \in Addr |-> 0]
    /\ slots = [a \in Addr |-> NoSlots]
    /\ answers = [a \in Addr |-> {}]
    /\ time = [a \in Addr |-> {}]
    /\ calls = {}
    /\ bucketCq = {}
    /\ xpc = [x \in Responders |-> "idle"]
    /\ xcall = [x \in Responders |-> None]
    /\ process = "up"

-----------------------------------------------------------------------------
(* The process runs until a CHECK fails or it crashes.                     *)

StaysUp == process = "up" /\ process' = "up"

Exit(reason) ==
    /\ process = "up"
    /\ process' = reason
    /\ UNCHANGED <<grpcVars, queueVars, workerVars, mapVars, bucketVars, respVars>>

WorkerGoes(w, from, to) ==
    StaysUp /\ wpc[w] = from /\ wpc' = [wpc EXCEPT ![w] = to]

ResponderGoes(x, from, to) ==
    StaysUp /\ xpc[x] = from /\ xpc' = [xpc EXCEPT ![x] = to]

-----------------------------------------------------------------------------
(* CallData and the gRPC server runtime.                                   *)

\* new CallData(service_, cq_) at a free address: the constructor runs
\* Proceed(), which moves it from CREATE to PROCESS and arms it.
NewCallData(a) ==
    /\ status[a] = "FREE"
    /\ status' = [status EXCEPT ![a] = "PROCESS"]
    /\ request' = [request EXCEPT ![a] = None]
    /\ armed' = armed \cup {a}
    /\ UNCHANGED <<cq, replies>>

\* Fault: the call is not marked finished.
FinishUnmarked(a, reply) ==
    /\ replies' = [replies EXCEPT ![request[a]] = Append(@, reply)]
    /\ cq' = cq \cup {[tag |-> a, kind |-> "finished"]}
    /\ UNCHANGED <<status, request, armed>>

\* CallData::Finish: gRPC sends the reply and puts the tag on the completion
\* queue once more.
Finish(a, reply) ==
    /\ status' = [status EXCEPT ![a] = "FINISH"]
    /\ replies' = [replies EXCEPT ![request[a]] = Append(@, reply)]
    /\ cq' = cq \cup {[tag |-> a, kind |-> "finished"]}
    /\ UNCHANGED <<request, armed>>

\* The client requests gRPC has matched with a CallData so far.
Accepted == {r \in Requests : \/ \E a \in Addr : request[a] = r
                              \/ replies[r] # <<>>}

\* External: gRPC gives a new client request to an armed CallData.
GrpcMatch(a, r) ==
    /\ StaysUp
    /\ a \in armed
    /\ r \notin Accepted
    /\ armed' = armed \ {a}
    /\ request' = [request EXCEPT ![a] = r]
    /\ cq' = cq \cup {[tag |-> a, kind |-> "request"]}
    /\ UNCHANGED <<status, replies, queueVars, workerVars, mapVars, bucketVars,
                   respVars>>

-----------------------------------------------------------------------------
(* Network pollers: HandleRpcs.                                            *)

PollerStart(p, a) ==
    /\ StaysUp
    /\ p \notin started
    /\ NewCallData(a)
    /\ started' = started \cup {p}
    /\ UNCHANGED <<holding, dispatchQueue, workerVars, mapVars, bucketVars,
                   respVars>>

PollerNext(p, e) ==
    /\ StaysUp
    /\ p \in started
    /\ holding[p] = None
    /\ e \in cq
    /\ cq' = cq \ {e}
    /\ holding' = [holding EXCEPT ![p] = e]
    /\ UNCHANGED <<status, request, armed, replies, started, dispatchQueue,
                   workerVars, mapVars, bucketVars, respVars>>

PollerPush(p) ==
    /\ StaysUp
    /\ holding[p] # None
    /\ dispatchQueue' = Append(dispatchQueue, holding[p])
    /\ holding' = [holding EXCEPT ![p] = None]
    /\ UNCHANGED <<grpcVars, started, workerVars, mapVars, bucketVars, respVars>>

-----------------------------------------------------------------------------
(* Dispatch workers: Dispatch, CallData::Proceed, ProcessRequest.          *)

Pop(w) ==
    /\ WorkerGoes(w, "idle", "proceed")
    /\ dispatchQueue # <<>>
    /\ dispatchQueue' = Tail(dispatchQueue)
    /\ wcall' = [wcall EXCEPT ![w] = Head(dispatchQueue).tag]
    /\ UNCHANGED <<grpcVars, holding, started, wnext, mapVars, bucketVars,
                   respVars>>

\* Fault: the accepted CallData arms no successor.
RespawnForgotten(w, b) ==
    /\ WorkerGoes(w, "proceed", "register")
    /\ status[wcall[w]] = "PROCESS"
    /\ UNCHANGED <<grpcVars, queueVars, wcall, wnext, mapVars, bucketVars, respVars>>

\* Proceed() in state PROCESS first arms a CallData for the next client.
Respawn(w, b) ==
    /\ WorkerGoes(w, "proceed", "register")
    /\ status[wcall[w]] = "PROCESS"
    /\ NewCallData(b)
    /\ UNCHANGED <<queueVars, wcall, wnext, mapVars, bucketVars, respVars>>

\* Fault: a finished CallData is never deleted.
DeleteForgotten(w) ==
    /\ WorkerGoes(w, "proceed", "idle")
    /\ status[wcall[w]] # "PROCESS"
    /\ wcall' = [wcall EXCEPT ![w] = None]
    /\ UNCHANGED <<grpcVars, queueVars, wnext, mapVars, bucketVars, respVars>>

\* Proceed() in any other state: delete this.
Delete(w) ==
    /\ WorkerGoes(w, "proceed", "idle")
    /\ status[wcall[w]] # "PROCESS"
    /\ status' = [status EXCEPT ![wcall[w]] = "FREE"]
    /\ request' = [request EXCEPT ![wcall[w]] = None]
    /\ wcall' = [wcall EXCEPT ![w] = None]
    /\ UNCHANGED <<armed, cq, replies, queueVars, wnext, mapVars, bucketVars,
                   respVars>>

\* The coarse section: take the lock ...
LockCoarse(w) ==
    /\ WorkerGoes(w, "register", "registering")
    /\ coarse = None
    /\ coarse' = w
    /\ UNCHANGED <<grpcVars, queueVars, wcall, wnext, fine, entryVars,
                   bucketVars, respVars>>

\* Fault: the entry is erased and not inserted again.
Erased(a) == registered \ {a}

Inserted(a) == registered \cup {a}

\* Fault: the mutex of the request before at this address is kept.
RegisterKeepsMutex(w) ==
    /\ WorkerGoes(w, "registering", "lockFine")
    /\ registered' = Inserted(wcall[w])
    /\ recvd' = [recvd EXCEPT ![wcall[w]] = 0]
    /\ slots' = [slots EXCEPT ![wcall[w]] = NoSlots]
    /\ answers' = [answers EXCEPT ![wcall[w]] = {}]
    /\ time' = [time EXCEPT ![wcall[w]] = {}]
    /\ coarse' = None
    /\ UNCHANGED <<grpcVars, queueVars, wcall, wnext, fine, bucketVars, respVars>>

\* ... replace whatever both maps hold under this address, release the lock.
Register(w) ==
    /\ WorkerGoes(w, "registering", "lockFine")
    /\ fine' = [fine EXCEPT ![wcall[w]] = None]
    /\ registered' = Inserted(wcall[w])
    /\ recvd' = [recvd EXCEPT ![wcall[w]] = 0]
    /\ slots' = [slots EXCEPT ![wcall[w]] = NoSlots]
    /\ answers' = [answers EXCEPT ![wcall[w]] = {}]
    /\ time' = [time EXCEPT ![wcall[w]] = {}]
    /\ coarse' = None
    /\ UNCHANGED <<grpcVars, queueVars, wcall, wnext, bucketVars, respVars>>

\* Fault: the fine lock is not waited for.
FineUnchecked(a) == TRUE

FineFree(a) == fine[a] = None

LockFine(w) ==
    /\ WorkerGoes(w, "lockFine", "fill")
    /\ FineFree(wcall[w])
    /\ fine' = [fine EXCEPT ![wcall[w]] = w]
    /\ UNCHANGED <<grpcVars, queueVars, wcall, wnext, coarse, entryVars,
                   bucketVars, respVars>>

\* A kill request is acknowledged without the coarse lock and with the fine
\* lock held; the worker then sleeps ...
AckKill(w) ==
    /\ WorkerGoes(w, "fill", "sleep")
    /\ request[wcall[w]] \in Kills
    /\ Finish(wcall[w], [answers |-> {}, time |-> {}, kill |-> TRUE])
    /\ UNCHANGED <<queueVars, wcall, wnext, mapVars, bucketVars, respVars>>

\* Fault: the worker goes on with the acknowledged request.
KillGoesOn(w) ==
    /\ WorkerGoes(w, "sleep", "send")
    /\ recvd' = [recvd EXCEPT ![wcall[w]] = 0]
    /\ slots' = [slots EXCEPT ![wcall[w]] = [i \in 1 .. NumBuckets |-> None]]
    /\ wnext' = [wnext EXCEPT ![w] = 0]
    /\ UNCHANGED <<grpcVars, queueVars, wcall, coarse, fine, registered,
                   answers, time, bucketVars, respVars>>

\* ... and fails CHECK, which exits the process.
KillExit(w) ==
    /\ wpc[w] = "sleep"
    /\ Exit("killed")

\* Any other request: the count-down starts at 0 with a slot per bucket.
Fill(w) ==
    /\ WorkerGoes(w, "fill", "send")
    /\ request[wcall[w]] \notin Kills
    /\ recvd' = [recvd EXCEPT ![wcall[w]] = 0]
    /\ slots' = [slots EXCEPT ![wcall[w]] = [i \in 1 .. NumBuckets |-> None]]
    /\ wnext' = [wnext EXCEPT ![w] = 0]
    /\ UNCHANGED <<grpcVars, queueVars, wcall, coarse, fine, registered,
                   answers, time, bucketVars, respVars>>

\* Fault: the loop over the buckets runs once too often.
MoreToSendInclusive(w) == wnext[w] <= NumBuckets

MoreToSend(w) == wnext[w] < NumBuckets

\* GetNearestNeighbors on the worker's connection to the next bucket.
Send(w) ==
    /\ StaysUp
    /\ wpc[w] = "send"
    /\ MoreToSend(w)
    /\ calls' = calls \cup {[id |-> wcall[w], bucket |-> wnext[w],
                             req |-> request[wcall[w]]]}
    /\ wnext' = [wnext EXCEPT ![w] = @ + 1]
    /\ UNCHANGED <<grpcVars, queueVars, wpc, wcall, mapVars, bucketCq, respVars>>

\* Fault: the fine lock is not released after the last send.
SentLocked(w) ==
    /\ WorkerGoes(w, "send", "idle")
    /\ ~MoreToSend(w)
    /\ time' = [time EXCEPT ![wcall[w]] = {"worker"}]
    /\ wcall' = [wcall EXCEPT ![w] = None]
    /\ UNCHANGED <<grpcVars, queueVars, wnext, coarse, fine, registered, recvd, slots,
                   answers, bucketVars, respVars>>

\* All sent: index_time is assigned and the fine lock released.
Sent(w) ==
    /\ WorkerGoes(w, "send", "idle")
    /\ ~MoreToSend(w)
    /\ time' = [time EXCEPT ![wcall[w]] = {"worker"}]
    /\ fine' = [fine EXCEPT ![wcall[w]] = None]
    /\ wcall' = [wcall EXCEPT ![w] = None]
    /\ UNCHANGED <<grpcVars, queueVars, wnext, coarse, registered, recvd, slots,
                   answers, bucketVars, respVars>>

-----------------------------------------------------------------------------
(* Bucket servers (external): every RPC completes once, in any order.      *)

BucketAnswer(c, ok) ==
    /\ StaysUp
    /\ c \in calls
    /\ ok \/ BucketsFail
    /\ calls' = calls \ {c}
    /\ bucketCq' = bucketCq \cup {[call |-> c, ok |-> ok]}
    /\ UNCHANGED <<grpcVars, queueVars, workerVars, mapVars, respVars>>

-----------------------------------------------------------------------------
(* Response threads: AsyncCompleteRpc.                                     *)

\* Next() returned a call with an OK status: unpack the answer.
Receive(x, d) ==
    /\ ResponderGoes(x, "idle", "check")
    /\ d \in bucketCq
    /\ d.ok
    /\ bucketCq' = bucketCq \ {d}
    /\ xcall' = [xcall EXCEPT ![x] = d.call]
    /\ UNCHANGED <<grpcVars, queueVars, workerVars, mapVars, calls>>

\* Any other status fails CHECK("Bucket no longer exists").
BucketLost(x, d) ==
    /\ xpc[x] = "idle"
    /\ d \in bucketCq
    /\ ~d.ok
    /\ Exit("bucketLost")

\* Under the coarse lock: at() finds the entry, or CHECK fails.
CheckEntry(x) ==
    /\ xpc[x] = "check"
    /\ coarse = None
    /\ IF xcall[x].id \in registered
       THEN /\ ResponderGoes(x, "check", "lockFine")
            /\ UNCHANGED <<grpcVars, queueVars, workerVars, mapVars,
                           bucketVars, xcall>>
       ELSE Exit("noEntry")

TakeFine(x) ==
    /\ ResponderGoes(x, "lockFine", "store")
    /\ FineFree(xcall[x].id)
    /\ fine' = [fine EXCEPT ![xcall[x].id] = x]
    /\ UNCHANGED <<grpcVars, queueVars, workerVars, coarse, entryVars,
                   bucketVars, xcall>>

\* response_data[responses_recvd] = the answer.
Store(x) ==
    /\ ResponderGoes(x, "store", "count")
    /\ slots' = [slots EXCEPT ![xcall[x].id][recvd[xcall[x].id] + 1] = xcall[x]]
    /\ UNCHANGED <<grpcVars, queueVars, workerVars, coarse, fine, registered,
                   recvd, answers, time, bucketVars, xcall>>

\* Faults: the count-down ends one answer early, or never.
IsLastEarly(a) == recvd[a] + 2 >= NumBuckets
IsLastLate(a) == recvd[a] = NumBuckets

IsLast(a) == recvd[a] = NumBuckets - 1

\* Not the last answer: count it and release the fine lock.
CountDown(x) ==
    /\ ResponderGoes(x, "count", "idle")
    /\ ~IsLast(xcall[x].id)
    /\ recvd' = [recvd EXCEPT ![xcall[x].id] = @ + 1]
    /\ fine' = [fine EXCEPT ![xcall[x].id] = None]
    /\ xcall' = [xcall EXCEPT ![x] = None]
    /\ UNCHANGED <<grpcVars, queueVars, workerVars, coarse, registered, slots,
                   answers, time, bucketVars>>

Stored(a) == {slots[a][i] : i \in DOMAIN slots[a]} \ {None}

\* The last answer: MergeAndPack every slot into index_reply, add this
\* thread's time to index_time, release the fine lock.
Merge(x) ==
    /\ ResponderGoes(x, "count", "finish")
    /\ IsLast(xcall[x].id)
    /\ answers' = [answers EXCEPT ![xcall[x].id] = Stored(xcall[x].id)]
    /\ time' = [time EXCEPT ![xcall[x].id] = @ \cup {"merge"}]
    /\ fine' = [fine EXCEPT ![xcall[x].id] = None]
    /\ UNCHANGED <<grpcVars, queueVars, workerVars, coarse, registered, recvd,
                   slots, bucketVars, xcall>>

\* server->Finish(id, index_reply) under the coarse lock.
FinishCall(x) ==
    /\ ResponderGoes(x, "finish", "idle")
    /\ coarse = None
    /\ Finish(xcall[x].id, [answers |-> answers[xcall[x].id],
                            time |-> time[xcall[x].id], kill |-> FALSE])
    /\ xcall' = [xcall EXCEPT ![x] = None]
    /\ UNCHANGED <<queueVars, workerVars, mapVars, bucketVars>>

-----------------------------------------------------------------------------
(* The maps are looked up without map_coarse_mutex by every thread that    *)
(* works under a fine lock or is about to take one.  A lookup that walks   *)
(* the tree while a worker erases and inserts under the coarse lock is a   *)
(* data race: it may miss its node, and operator[] then inserts a null     *)
(* std::unique_ptr or a default entry, whose use crashes the process.      *)

LooksUp(t) ==
    \/ t \in Workers /\ wpc[t] \in {"lockFine", "fill", "send"}
    \/ t \in Responders /\ xpc[t] \in {"lockFine", "store", "count"}

MissedLookup(t) ==
    /\ LookupCanMiss
    /\ LooksUp(t)
    /\ coarse # None
    /\ Exit("crashed")

-----------------------------------------------------------------------------
(* The next-state relation.                                                *)

\* Every request of the run is answered and every thread waits for its queue.
Quiet ==
    /\ started = Pollers
    /\ \A r \in Requests : replies[r] # <<>>
    /\ cq = {} /\ dispatchQueue = <<>> /\ calls = {} /\ bucketCq = {}
    /\ \A p \in Pollers : holding[p] = None
    /\ \A w \in Workers : wpc[w] = "idle"
    /\ \A x \in Responders : xpc[x] = "idle"

Rest == (process # "up" \/ Quiet) /\ UNCHANGED vars

PollerStep(p) ==
    \/ \E a \in Addr : PollerStart(p, a)
    \/ \E e \in cq : PollerNext(p, e)
    \/ PollerPush(p)

WorkerStep(w) ==
    \/ Pop(w) \/ Delete(w) \/ LockCoarse(w) \/ Register(w) \/ LockFine(w)
    \/ AckKill(w) \/ KillExit(w) \/ Fill(w) \/ Send(w) \/ Sent(w)
    \/ \E b \in Addr : Respawn(w, b)

ResponderStep(x) ==
    \/ \E d \in bucketCq : Receive(x, d) \/ BucketLost(x, d)
    \/ CheckEntry(x) \/ TakeFine(x) \/ Store(x)
    \/ CountDown(x) \/ Merge(x) \/ FinishCall(x)

Next ==
    \/ \E a \in Addr, r \in Requests : GrpcMatch(a, r)
    \/ \E p \in Pollers : PollerStep(p)
    \/ \E w \in Workers : WorkerStep(w)
    \/ \E c \in calls, ok \in BOOLEAN : BucketAnswer(c, ok)
    \/ \E x \in Responders : ResponderStep(x)
    \/ \E t \in Threads : MissedLookup(t)
    \/ Rest

Spec == Init /\ [][Next]_vars

\* Every thread keeps running while the process is up, and every bucket
\* server completes every RPC.  No fairness is asked of the clients.
Fairness ==
    /\ \A p \in Pollers : WF_vars(PollerStep(p))
    /\ \A w \in Workers : WF_vars(WorkerStep(w))
    /\ \A x \in Responders : WF_vars(ResponderStep(x))
    /\ WF_vars(\E c \in calls, ok \in BOOLEAN : BucketAnswer(c, ok))

FairSpec == Spec /\ Fairness
-----------------------------------------------------------------------------
(* Properties.                                                             *)

\* Every variable has its type; in particular no bucket number, no count-down
\* (568) and no loop counter (850) leaves its range, and a thread that is not
\* idle works on a call.
TypeOK ==
    /\ status \in [Addr -> {"FREE", "PROCESS", "FINISH"}]
    /\ request \in [Addr -> Requests \cup {None}]
    /\ armed \subseteq Addr
    /\ cq \subseteq Events
    /\ replies \in [Requests -> Seq(Replies)]
    /\ holding \in [Pollers -> Events \cup {None}]
    /\ started \subseteq Pollers
    /\ dispatchQueue \in Seq(Events)
    /\ wpc \in [Workers -> {"idle", "proceed", "register", "registering",
                            "lockFine", "fill", "send", "sleep"}]
    /\ wcall \in [Workers -> Addr \cup {None}]
    /\ wnext \in [Workers -> 0 .. NumBuckets]
    /\ coarse \in Workers \cup {None}
    /\ fine \in [Addr -> Threads \cup {None}]
    /\ registered \subseteq Addr
    /\ recvd \in [Addr -> Buckets]
    /\ slots \in [Addr -> Slots]
    /\ answers \in [Addr -> SUBSET Calls]
    /\ time \in [Addr -> Times]
    /\ calls \subseteq Calls
    /\ bucketCq \subseteq [call : Calls, ok : BOOLEAN]
    /\ xpc \in [Responders -> {"idle", "check", "lockFine", "store", "count",
                               "finish"}]
    /\ xcall \in [Responders -> Calls \cup {None}]
    /\ process \in {"up", "killed", "bucketLost", "noEntry", "crashed"}
    /\ \A w \in Workers : wpc[w] # "idle" => wcall[w] \in Addr
    /\ \A x \in Responders : xpc[x] # "idle" => xcall[x] \in Calls

\* A thread inside the critical section of a request owns the fine mutex of
\* that request: nobody entered beside it, and no worker that registers a
\* reused address has replaced the mutex under it (lines 685-691, 556-612).
FineLockKept ==
    /\ \A w \in Workers : wpc[w] \in {"fill", "send"} => fine[wcall[w]] = w
    /\ \A x \in Responders : xpc[x] \in {"store", "count"} => fine[xcall[x].id] = x

\* map_fine_mutex.erase (686) never destroys a mutex some thread holds.
NoHeldMutexErased ==
    \A w \in Workers : wpc[w] = "registering" => fine[wcall[w]] = None

\* An RPC anywhere between the send and the merge belongs to the request that
\* its unique id, a heap address, denotes at that moment: the CallData lives,
\* is not yet finished, and serves the request the buckets were asked for.
OutstandingCalls ==
    calls \cup {d.call : d \in bucketCq}
          \cup {xcall[x] : x \in {y \in Responders : xpc[y] # "idle"}}

NoStaleAnswer ==
    \A c \in OutstandingCalls :
        /\ status[c.id] = "PROCESS"
        /\ request[c.id] = c.req
        /\ c.id \in registered

\* No worker runs the body of a CallData another worker has deleted: from the
\* pop to the last use of load_gen_request_ the object is alive.
NoUseAfterDelete ==
    /\ \A w \in Workers :
          /\ wpc[w] = "proceed" => status[wcall[w]] # "FREE"
          /\ wpc[w] \in {"register", "registering", "lockFine", "fill", "send"} =>
                /\ status[wcall[w]] = "PROCESS"
                /\ request[wcall[w]] \in Requests
    /\ \A w \in Workers : wpc[w] \notin {"idle", "sleep"} => wcall[w] \notin armed

\* Every reply the client gets is the only one for its request, is a kill
\* acknowledgement exactly for a kill, and otherwise merges one answer of
\* every bucket to this very request, with both shares of index_time.
ReplyComplete ==
    \A r \in Requests : replies[r] # <<>> =>
        LET reply == replies[r][1] IN
        /\ Len(replies[r]) = 1
        /\ reply.kill <=> r \in Kills
        /\ r \notin Kills =>
              /\ {c.req : c \in reply.answers} = {r}
              /\ {c.bucket : c \in reply.answers} = Buckets
              /\ reply.time = {"worker", "merge"}

\* HandleRpcs arms one CallData per poller and each accepted request arms its
\* successor: the number of CallData that are armed, or accepted and not yet
\* succeeded, stays the number of started pollers.
EventsUnderway ==
    cq \cup {holding[p] : p \in {q \in Pollers : holding[q] # None}}
       \cup {dispatchQueue[i] : i \in DOMAIN dispatchQueue}

ListenersKept ==
    Cardinality(armed)
      + Cardinality({e \in EventsUnderway : e.kind = "request"})
      + Cardinality({w \in Workers : /\ wpc[w] = "proceed"
                                     /\ status[wcall[w]] = "PROCESS"})
    = Cardinality(started)

\* Proceed() looks at status_ alone and Dispatch ignores which operation an
\* event reports: the two must agree whenever an event is under way, and no
\* CallData has two events at once.
StatusTellsEvent ==
    \A e \in EventsUnderway :
        /\ status[e.tag] = IF e.kind = "request" THEN "PROCESS" ELSE "FINISH"
        /\ \A f \in EventsUnderway : f.tag = e.tag => f = e
        /\ \A w \in Workers : wpc[w] \notin {"idle", "sleep"} => wcall[w] # e.tag

\* CHECK(false, "Map entry corresponding to request id does not exist") (552)
\* never ends the process.
EntryAlwaysFound == process # "noEntry"

\* A stored answer stays in its slot until the reply it is part of is sent:
\* no second response thread overwrites it and no new request wipes it.
AnswersKept ==
    [][\A a \in Addr : \A c \in Stored(a) :
          replies[c.req] = <<>> => c \in Stored(a)']_vars

\* Every accepted request is answered while the process stays up.
EveryRequestAnswered ==
    \A r \in Requests : r \in Accepted ~> (replies[r] # <<>> \/ process # "up")

\* The server never stops listening, and every finished CallData is deleted.
AlwaysListensAgain == []<>(armed # {} \/ process # "up")
EveryCallDeleted ==
    \A a \in Addr : status[a] = "FINISH" ~> (status[a] = "FREE" \/ process # "up")

\* The comment at 516 says that with the last response "we remove this
\* request from the map and merge": a deleted request has no entry.
EntryRemoved == \A a \in Addr : status[a] = "FREE" => a \notin registered

\* The comment at 224 keeps adding and removing elements of the maps under
\* the coarse lock: no other thread is inside a map meanwhile.
MapChangesAlone == coarse # None => \A t \in Threads : ~LooksUp(t)
=============================================================================
