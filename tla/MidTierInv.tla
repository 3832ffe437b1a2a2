----------------------------- MODULE MidTierInv -----------------------------
(* The inductive invariant behind the safety properties of MidTier: where   *)
(* every CallData, every event, every bucket RPC and every lock is.         *)
EXTENDS MidTier

\* Worker w is inside Proceed() of the CallData at a.  A worker that sleeps
\* after a kill is not: that CallData is finished and may be gone.
Runs(w, a) ==
    /\ wpc[w] \in {"proceed", "register", "registering", "lockFine", "fill", "send"}
    /\ wcall[w] = a

\* Response thread x holds an answer it has not stored yet / has stored.
Carries(x) == xpc[x] \in {"check", "lockFine", "store"}
Counts(x) == xpc[x] \in {"count", "finish"}

\* The bucket RPCs whose answer is not in a slot yet.
Pending ==
    calls \cup {d.call : d \in bucketCq} \cup {xcall[x] : x \in {y \in Responders : Carries(y)}}

Counting(a) == \E x \in Responders : Counts(x) /\ xcall[x].id = a

Finishing(a) == \E x \in Responders : xpc[x] = "finish" /\ xcall[x].id = a

\* Bucket RPCs of the request at a are under way.
Busy(a) == (\E c \in Pending : c.id = a) \/ Counting(a)

Sending(a) == \E w \in Workers : wpc[w] = "send" /\ wcall[w] = a

HasEvent(a) == \E e \in EventsUnderway : e.tag = a

\* A free address is in nobody's hands; an armed CallData only in gRPC's.
AddressesHeld ==
    \A a \in Addr :
        /\ status[a] = "FREE" \/ a \in armed =>
              /\ request[a] = None
              /\ ~HasEvent(a) /\ ~Busy(a)
              /\ \A w \in Workers : ~Runs(w, a)
        /\ a \in armed => status[a] = "PROCESS"
        /\ status[a] # "FREE" /\ a \notin armed => request[a] \in Requests

\* No two events under way have the same tag.
EventsUnique ==
    /\ \A e, f \in cq : e.tag = f.tag => e = f
    /\ \A p, q \in Pollers :
          holding[p] # None /\ holding[q] # None /\ holding[p].tag = holding[q].tag => p = q
    /\ \A i, j \in DOMAIN dispatchQueue :
          dispatchQueue[i].tag = dispatchQueue[j].tag => i = j
    /\ \A e \in cq : \A p \in Pollers : holding[p] # None => holding[p].tag # e.tag
    /\ \A e \in cq : \A i \in DOMAIN dispatchQueue : dispatchQueue[i].tag # e.tag
    /\ \A p \in Pollers : \A i \in DOMAIN dispatchQueue :
          holding[p] # None => holding[p].tag # dispatchQueue[i].tag

\* While an event is under way nobody else has its CallData, and status_
\* tells which event it is.
EventsAlone ==
    \A a \in Addr : \A e \in EventsUnderway : e.tag = a =>
        /\ status[a] = IF e.kind = "request" THEN "PROCESS" ELSE "FINISH"
        /\ ~Busy(a)
        /\ \A w \in Workers : ~Runs(w, a)

\* One worker runs a CallData, and no RPC of it is under way before the sends.
WorkersAlone ==
    /\ \A w, v \in Workers : \A a \in Addr : Runs(w, a) /\ Runs(v, a) => w = v
    /\ \A w \in Workers : \A a \in Addr : Runs(w, a) =>
          /\ wpc[w] # "proceed" => status[a] = "PROCESS"
          /\ wpc[w] # "send" => ~Busy(a)
          /\ wpc[w] \in {"lockFine", "fill", "send"} => a \in registered
          /\ wpc[w] = "send" => request[a] \notin Kills
    /\ Kills = {} => \A w \in Workers : wpc[w] # "sleep"

\* Every RPC under way belongs to the living request at its id.
CallsLive ==
    \A a \in Addr : \A c \in OutstandingCalls : c.id = a =>
        /\ status[a] = "PROCESS"
        /\ request[a] = c.req
        /\ c.req \in Requests \ Kills
        /\ a \in registered

\* An RPC whose answer is not stored is at one place only.
CallsUnique ==
    /\ \A d \in bucketCq : d.call \notin calls
    /\ \A d, e \in bucketCq : d.call = e.call => d = e
    /\ \A x \in Responders : Carries(x) =>
          /\ xcall[x] \notin calls
          /\ \A d \in bucketCq : d.call # xcall[x]
          /\ \A y \in Responders : Carries(y) /\ xcall[x] = xcall[y] => x = y

\* The slots of a up to the count-down hold answers to this request, each of
\* another bucket, none of them pending.
SlotsAt(a) ==
    /\ slots[a] \in [1 .. NumBuckets -> Calls \cup {None}]
    /\ \A i \in 1 .. NumBuckets :
          /\ slots[a][i] # None <=> \/ i <= recvd[a]
                                    \/ i = recvd[a] + 1 /\ Counting(a)
          /\ slots[a][i] # None =>
                /\ slots[a][i].id = a
                /\ slots[a][i].req = request[a]
                /\ slots[a][i] \notin Pending
    /\ \A i, j \in 1 .. NumBuckets :
          slots[a][i] # None /\ slots[a][i] = slots[a][j] => i = j

SlotsFilled == \A a \in Addr : Busy(a) \/ Sending(a) => SlotsAt(a)

\* While the worker sends, nothing is stored and the pending RPCs are those
\* to the buckets before the next one.
SendingAlone ==
    \A w \in Workers : \A a \in Addr : wpc[w] = "send" /\ wcall[w] = a =>
        /\ recvd[a] = 0
        /\ ~Counting(a)
        /\ \A c \in Pending : c.id = a => c.bucket < wnext[w]

\* Once the worker is done sending, and until the merge, index_time is the
\* worker's share.
WorkerTimeIn ==
    \A a \in Addr : Busy(a) /\ ~Sending(a) /\ ~Finishing(a) => time[a] = {"worker"}

\* Who is in a critical section owns its lock, and the owner is in it, or
\* sleeps in it until the process exits.
LocksHeld ==
    /\ \A w \in Workers : \A a \in Addr :
          /\ wpc[w] \in {"fill", "send"} /\ wcall[w] = a => fine[a] = w
          /\ fine[a] = w => wpc[w] \in {"fill", "send", "sleep"} /\ wcall[w] = a
    /\ \A x \in Responders : \A a \in Addr :
          xpc[x] \in {"store", "count"} /\ xcall[x].id = a <=> fine[a] = x
    /\ \A w \in Workers : wpc[w] = "registering" <=> coarse = w

\* index_reply holds an answer of every bucket to the request at a, and both
\* shares of index_time.
Packed(a) ==
    /\ {c.req : c \in answers[a]} = {request[a]}
    /\ {c.bucket : c \in answers[a]} = Buckets
    /\ time[a] = {"worker", "merge"}

\* Between the merge and the finish the whole reply is packed and no other
\* thread has anything of the request.
MergedAlone ==
    \A x \in Responders : \A a \in Addr : xpc[x] = "finish" /\ xcall[x].id = a =>
        /\ \A c \in Pending : c.id # a
        /\ \A y \in Responders : Counts(y) /\ xcall[y].id = a => x = y
        /\ ~Sending(a)
        /\ Packed(a)

\* A request is matched with one CallData and answered when that is finished.
RequestsOnce ==
    /\ \A a, b \in Addr : request[a] # None /\ request[a] = request[b] => a = b
    /\ \A a \in Addr : request[a] # None =>
          (replies[request[a]] = <<>> <=> status[a] = "PROCESS")

\* The inductive invariant of the server.
IInv ==
    /\ TypeOK
    /\ AddressesHeld
    /\ EventsUnique
    /\ EventsAlone
    /\ WorkersAlone
    /\ CallsLive
    /\ CallsUnique
    /\ SlotsFilled
    /\ SendingAlone
    /\ WorkerTimeIn
    /\ LocksHeld
    /\ MergedAlone
    /\ RequestsOnce
    /\ ReplyComplete
    /\ EntryAlwaysFound
-----------------------------------------------------------------------------
(* What never gets lost, and what nobody waits for in vain.                 *)

\* The buckets the request at a has been sent to so far.
AskedOf(a) ==
    {b \in Buckets : \A w \in Workers : wpc[w] = "send" /\ wcall[w] = a => b < wnext[w]}

\* A CallData that gRPC has filled in is in somebody's hands.
CallsHeld ==
    \A a \in Addr : status[a] # "FREE" /\ a \notin armed =>
        HasEvent(a) \/ Busy(a) \/ \E w \in Workers : Runs(w, a)

\* A bucket that was asked has its answer under way or in a slot.
AnswersComing ==
    \A a \in Addr : Busy(a) \/ Sending(a) => \A b \in AskedOf(a) :
        \E c \in Pending \cup Stored(a) : c.id = a /\ c.bucket = b

\* Until it is deleted, an accepted CallData always has its next step ahead, and no
\* bucket it has asked is forgotten: the count-down at 568 gets to its end.
NoCallLost == CallsHeld /\ AnswersComing

\* Nobody needs a mutex that a worker sleeps with: it is the acknowledged call's own, to
\* which nothing is under way, until a worker that reuses the address replaces it.
SleepersAlone ==
    \A w \in Workers : \A a \in Addr : wpc[w] = "sleep" /\ fine[a] = w =>
        /\ \A c \in Pending : c.id # a
        /\ \A v \in Workers : wpc[v] = "lockFine" => wcall[v] # a

\* A thread waits for an event, for work or for a mutex.
PollerWaits(p) == p \in started /\ holding[p] = None /\ cq = {}

WorkerWaits(w) ==
    \/ wpc[w] = "idle" /\ dispatchQueue = <<>>
    \/ wpc[w] = "register" /\ coarse # None
    \/ wpc[w] = "lockFine" /\ ~FineFree(wcall[w])

ResponderWaits(x) ==
    \/ xpc[x] = "idle" /\ bucketCq = {}
    \/ xpc[x] \in {"check", "finish"} /\ coarse # None
    \/ xpc[x] = "lockFine" /\ ~FineFree(xcall[x].id)

\* Every thread waits, or sleeps over a kill with its mutex held (694-702), and no
\* bucket owes an answer.
AllWait ==
    /\ \A p \in Pollers : PollerWaits(p)
    /\ \A w \in Workers : WorkerWaits(w) \/ wpc[w] = "sleep"
    /\ \A x \in Responders : ResponderWaits(x)
    /\ calls = {}

\* As long as a worker is awake, all threads wait only when there is nothing to do: never
\* for a mutex that nobody will release (614, 683, 691), the sleepers' ones among them,
\* with every accepted request answered, every finished CallData deleted and as many
\* armed as there are pollers.
NeverStuck ==
    process = "up" /\ AllWait /\ (\E w \in Workers : wpc[w] # "sleep") =>
        /\ \A a \in Addr : status[a] # "FREE" => a \in armed
        /\ \A r \in Accepted : replies[r] # <<>>
        /\ Cardinality(armed) = Cardinality(Pollers)
=============================================================================
