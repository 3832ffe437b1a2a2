# HDSearch-Multinode in TLA+

A verification development for this repository: TLA+ modules of its concurrent
parts, TLC configurations that check them on small instances, and theorems that
TLAPS proves for every instance. Module names, variable names and action names
follow the source where TLA+ allows it; `PROJECT.json` maps every definition to
the lines it stands for.

## 1. The system

HDSearch answers nearest-neighbour queries. A load generator sends queries to a
mid-tier server; the mid-tier asks every bucket server and merges their
answers. Around it the repository has an experiment driver that deploys the
servers with docker swarm, profiles the nodes and collects logs, and an addition
of its own: a *pre-request*, a small message the mid-tier sends to another
machine some microseconds after a query arrives.

| Part | Source | State | Operations |
|---|---|---|---|
| Mid-tier request path | `microsuite_files/midtier/mid_tier_server.cc` 220-880 | CallData objects and their `status_`, the dispatch queue, `response_count_down_map` and `map_fine_mutex` (keyed by the heap address of a CallData), the coarse and fine mutexes, `bucket_cq` | `HandleRpcs`, `Dispatch`, `Proceed`, `Finish`, `ProcessRequest`, `GetNearestNeighbors`, `AsyncCompleteRpc` |
| Pre-request helper | same file, 40-161, 656-669, 868 | `sendRequestFlag`, the timestamps of the wait loop, the connection | `helperThreadFunction`, `send_request`; the workers' stores to the flag |
| Pre-request server | `server.c` | the connection it serves | accept, read, answer |
| Adaptive controller | `mid_tier_server.cc` 792-848 | `process_request_count`, `times_taken`, `step`, `increasing`, `send_request_usecs_wait` | count, average, adjust, clear |
| Load generator | `microsuite_files/client/load_generator_open_loop_time.cc`, `mid_tier_client_helper.cc` | request, response and utilisation counters, `resp_times`, `global_stats`, `first_req_flag`, `kill_ack` | `LoadGen_Index`, `AsyncCompleteRpc`, warm-up, reset, actual run, printing, kill loop |
| Start-up | `mid_tier_server.cc` 1094-1217, `server.c`, the client's `main`, `docker-compose-swarm.yml`, `run_server.sh` | how far each process has come; the client's log | build, connect, load, index, serve; the lines the client prints |
| Profiler | `profiler/profiler.py` | the profiling server on each node, its time series | `start`, `stop`, `report` |
| Experiment driver | `run_experiment.py`, `scripts/*.sh`, `ansible/` | the deployed stack and its network, tries, reports | one try, the retry loop, the scripts that poll the client's log |
| gRPC, bucket servers, MicroSuite helpers | not in the repository | | modelled as external actions from their use |

How they interact: the load generator and the mid-tier over gRPC completion
queues (no order between calls), the mid-tier's pollers, workers and response
threads over a queue, two maps and two kinds of mutex, the workers and the
helper over one atomic flag, the helper and `server.c` over one TCP connection,
the driver and everything else by polling the client's log.

What is hard: the address of a CallData is its unique id, and the allocator
reuses it; the entry of a request is torn down only when its address comes back;
a worker sends RPCs with the fine lock held while answers come in; the thread
that stores the last answer must be the only one to merge; `std::map` lookups
race with insertions; one flag serves all the workers; time is read as
`tv_usec`; the load generator clears its statistics without their lock; a kill
is acknowledged before the server goes down; the controller's globals, a vector
among them, are updated by all the workers under no lock; the driver knows of the
client only what its log shows, looks at no status of a removal or a deployment,
repeats a failed try without limit, and cannot stop the profilers. `PROJECT.json` lists each of these
under "hazards", at its line, with the properties that would notice.

What makes each part correct:

- *request path*: exactly one reply to each accepted request, merged from one
  answer of every bucket to that very request; no thread touches a finished
  call; the server always listens again; no request starves.
- *pre-request*: never for nobody, never twice for one request, never before the
  wait is over unless `tv_usec` has started again or another request has taken
  over the flag, and the reply read is the one to the message sent.
- *load generator*: what it prints is about the run and nothing else, each
  latency is its own request's, every number printed is defined if a reply was
  counted; it never sends faster than its rate and never sleeps for a negative
  time; and it stops.
- *adaptive controller*: two workers that race never take the step to nothing, so
  every adjustment moves the wait; an average of no samples needs another
  worker's clear.
- *driver and profiler*: a try measures the services it deployed itself, unless
  their predecessors could not be removed; a report never mixes tries; and a batch
  ends unless a deployment fails in silence.

## 2. The modules

| Module | What it is |
|---|---|
| `ScatterGather` | the promise: accept, hear each bucket once, reply once when all are heard |
| `MidTier` | the request path of the mid-tier, one action per step between two points where threads can interleave, and its properties |
| `MidTierInv` | the inductive invariant of `MidTier` |
| `MidTierImplements` | the refinement mapping from `MidTier` to `ScatterGather` |
| `MCMidTier` | TLC instances: model values and their symmetry |
| `MidTierWorkers`, `MidTierResponders`, `MidTierProofs` | proofs about `MidTier`: the steps of workers, pollers and gRPC; the steps of response threads and buckets; the theorems |
| `MidTierPromises` | proofs about what clients are promised: listeners, stored answers, the refinement of `ScatterGather`, no lost calls and no deadlock |
| `PreRequest` | helper thread, flag, clock, connection and `server.c`, and the properties |
| `PreRequestProofs` | its invariant and theorems |
| `LoadGen` | main and reader thread of the load generator |
| `LoadGenImplements` | the refinement mapping from `LoadGen` to the client of `StartUp` |
| `LoadGenProofs` | its invariant and theorems, the refinement among them |
| `AdaptiveWait` | the controller at the end of `ProcessRequest`, run by several workers |
| `AdaptiveWaitProofs` | its invariant and theorems |
| `StartUp` | one deployment: `server.c` on both nodes, bucket server, mid-tier and client up to what the log shows |
| `Experiment` | the driver, the profilers and the accidents; EXTENDS `StartUp`, whose steps are disjuncts of its own |
| `ExperimentProofs` | invariant, theorems and termination measure of the composition |

### MidTier

A CallData is its address: `status[a]` is "FREE", "PROCESS" or "FINISH",
`request[a]` the query gRPC filled in. The actions, in the order a request
meets them:

- `PollerStart`, `GrpcMatch` (external), `PollerNext`, `PollerPush`: a poller
  arms its first CallData, gRPC matches a request with an armed one, the poller
  takes the event and pushes the tag (`HandleRpcs`).
- `Pop`, `Respawn`, `Delete`: `Dispatch` and the two branches of `Proceed`.
- `LockCoarse`, `Register`, `LockFine`, `Fill`, `Send`, `Sent`, and for a kill
  `AckKill`, `KillExit`: `ProcessRequest`. `Register` covers both `erase`s and
  both insertions, which the coarse lock makes one step for other workers but
  not for unlocked lookups: between `LockCoarse` and `Register` the worker is
  "registering", and with `LookupCanMiss` another thread's lookup may then
  miss, dereference a null mutex pointer and crash (`MissedLookup`).
- `BucketAnswer`, `BucketLost` (external), `Receive`, `CheckEntry`, `TakeFine`,
  `Store`, `CountDown`, `Stored` or `Merge`, `FinishCall`: `AsyncCompleteRpc`.

Left out: LSH look-up and candidate lists, the vectors, timing values (only
which of the two shares of `index_time` has arrived is kept), utilisation data,
logging.

### PreRequest

`flag` is `sendRequestFlag`. `Begin`, `End`, `Sleep`, `Exit` are what a worker
does to it; `SeeFlag`, `ReadEnd`, `ReadStart`, `WaitOn`, `WaitOver`, `Check`,
`Send`, `SendFails`, `ReadReply`, `ReadFails`, `Reset` are the helper's loop,
split at every access to shared state. `usec` is the clock modulo `Second`;
`passed`, `atRead`, `wrapped`, `owed` and `anew` are history: the time since
`start_time` was read, the same at the last `end_time`, whether `tv_usec` has
started again, whether a request has begun since the last pre-request, and
whether the flag has gone down and up again since the helper saw it. The wait
loop ends at once when the flag goes down; if another worker raises it before the
test at 150, a pre-request leaves for a request that was not waited for.
`NeverEarly` names this with the wrap as the only two ways to be early.

### LoadGen

`phase` and `mpc` place the main thread, `rpc` the reader thread. The reader's
handling of one reply is split wherever it touches what the main thread also
uses: `Take`, `FirstReply`, `Measure`, `Unpack`, `Push`, `AddUtil`,
`CountReply`. Undefined behaviour is a choice: `Unpack` of an acknowledgement
without neighbours, or of utilisation before its arrays exist, may end the
process; `Measure` during an insertion into `resp_times` may miss the entry.
`curr_time` and `next_time` are the run's clock in ticks of which `Micro` make a
microsecond: `Sleep` rounds down to whole microseconds as the conversion does,
sleeps once more for what is left (`TooEarly`), and may wake late; `RunRequest`
is a request that is due. `Lose` fails any RPC at any time, whether or not the
mid-tier is up. `FailTells` prints the error and `FailExits` ends the process
(`rpc = "told"` in between): the main thread may print more meanwhile, and the
driver's scripts may see the error while the client still runs.

Printing is split as the code is: `PrintAverage` is the sum divided by the size of
the vector, which is NaN when there is nothing in it; `PrintLatency` or
`PrintNothing` is the percentile look-up that follows, undefined in an empty vector;
`Rank` is the index each percentile has in the code; `ComputeQueryCost` divides by
one less than the utilisation requests and by `achieved`, the replies counted at 630.
The reader goes on until the mutex is taken at 637: a reply pushed in between is
printed but not counted, and if it was the first the cost is divided by zero.

`LoadGenImplements` maps the two threads to the client of `StartUp`: `Stage` is how
far it has come, `Lines` what it has printed. The lines are no variables of
`LoadGen`; where its threads are tells which have been printed.

### AdaptiveWait

Every update of a global is a read and a write with other workers in between:
`ReadCount` and `WriteCount` are `++process_request_count`, `ReadEnd` and `Push`
the `push_back`, `Adjust` and `MoveWait` the change of the wait. `Turn` stores
`increasing`, only in the two branches that do. `TestStep` is the comparison at 840
and `Halve` the read of `step` at 842, which may find what another worker has
stored in between; `StoreStep` writes the half. `Remember` and `Clear` are the two
statements at the end, 844 and after. `Check` reads the count again, as the code
does; `SumTimes` and `Divide` (or `DivideByZero`) read the vector twice. A
`push_back` during another may end the process. Taken in one step are the sum, the
two reads of a comparison and those of an addition: they decide only which way the
wait moves and how far, and every time a request may take is tried. `cleared` and
`begun` are history and bound.

### StartUp and Experiment

`echo`, `bucket`, `midtier` and `client` are how far each process has come, `log`
the lines the client has printed, which is all the driver's scripts look at.
The mid-tier's container tries the bucket's port for ever before it builds anything
(`MidtierBuilt` needs a bucket that listens), as the client's does the mid-tier's.
`Progress` is what the processes do by themselves, `Accident` what goes wrong for
reasons of its own. What client and mid-tier do once they are up is the other
modules' subject; here a run ends, the kill is acknowledged (`KillAcked`), the
mid-tier goes down four seconds later (`MidtierKilled`) or with its bucket
(`MidtierLosesBucket`), or an RPC fails, which the client tells (`RpcFails`) before
it ends (`ClientFails`). That the load generator shows the driver nothing else is
`ClientAsDeployed`, checked and proved.

`Experiment` takes `Progress` as `Service` and `Accident` as `Trouble`; accidents, of
the profilers and the removals too, come at most `MaxFaults` times (`Fault`).

`dpc` is the line of `run_single_experiment` the driver is at: `KillRemote`,
`KillProfiler`, `RunRemote`, `FirstLook` and then `WarmedUp` or `Retry`, `Launch`,
`Start`, `RunDone`, `Stop`, `AllStopped`, `Report`, `Finish`. `startProfiler.sh` reads
the log twice in each turn, for the warm-up and for an error: `RetryLate` is the try
that is given up although the warm-up's line has come between the two, together
with an error; that it comes just then is counted among the accidents. Calls to the
profilers go to one node after the other (`todo`), and one that does not listen is
passed over. A removal (`RemoveStack`) succeeds (`StackRemoved`) or fails unseen
(`StackMissed`), for `kill_remote` drops its return code. A deployment leaves alone
what is there and may fail while the old network is being removed (`removing`). A
sample in `timeseries` is the try it was taken in; `deployed` is the try whose
services run, and `missed` how often their removal has failed.

## 3. The runs

| Run | Shows |
|---|---|
| `midtier` | All safety properties, the inductive invariant, that no call is lost and no thread stuck, `AnswersKept` and the refinement of `ScatterGather`: two workers, two response threads, three requests, three addresses, two buckets that may fail, lookups that may miss |
| `midtier_kill` | A query and two kills over two pollers: while a worker sleeps with the fine lock of an acknowledged kill held, its call is deleted and its address reused, and still nobody waits for that lock; a kill is acknowledged once and nothing else is answered for it |
| `midtier_live` | Every accepted request is answered, the server listens again, every finished CallData is deleted |
| `midtier_entry_removed` | *violation*: nothing removes the entry of an answered request (comment at 516) |
| `midtier_map_race` | *violation*: a map is changed while another thread looks up in it (comment at 224) |
| `prerequest` | The flag, the clock and the connection with two workers; the helper comes to rest |
| `prerequest_after` | *violation*: a pre-request leaves after the flag is down (comment at 867) |
| `prerequest_wrap` | *violation*: the wait loop does not measure the time (comment at 142) |
| `adaptive` | Two workers race through the controller: the step never grows and is never halved to nothing, and an average of no samples needs another worker's clear |
| `loadgen` | Warm-up, reset, run, print and kill with every order of replies, every lateness of the clock, RPCs that may fail and a mid-tier that may exit; the refinement of the client in `StartUp` |
| `loadgen_divisor` | *violation*: `util_requests` is not reset (comment at 483) |
| `experiment` | Two experiments with two accidents anywhere in services, profilers, start-up and removals: whose services are measured, what a report holds, that only silence stops the batch |

Every property of a passing run has a mutant in `PROJECT.json`: a definition
beside the real one, marked "Fault", under which the property fails.

### Bounds, and why they are enough

- `midtier`: two threads of a kind are what it takes for two of them to meet in
  every section; the third address and the third request make an address be
  reused while another request is under way; two buckets make a first and a last
  answer. Response threads are interchangeable, so 32 of them add no new meeting
  of two. One poller is the deployed number. Addresses, threads and requests of
  a kind are symmetric: nothing in the code orders them.
- `midtier_kill`: two kills let one be acknowledged while the other sleeps, and
  let the acknowledged call be deleted and its address reused. `NeverStuck` is
  asked as long as one worker is awake, sleepers or not: it fails if `Register` kept
  the mutex it finds (`RegisterKeepsMutex`), which without a kill does no harm. A
  worker that registers an address under a sleeper erases a mutex the sleeper
  holds: that is undefined behaviour, noted as a hazard, and `NoHeldMutexErased` is
  therefore claimed (and proved) without kills only.
- `midtier_live`: without symmetry, which is unsound for liveness; one worker
  and two response threads suffice for every wait of one thread on another.
- `prerequest`: a wait of 2 in a second of 4 lets `tv_usec` start again before,
  between and after the two reads and inside the wait.
- `adaptive`: with a `Period` of 2 and six requests each of two workers can
  adjust, alone and at the same time as the other, and the wait can go below
  zero. A first step of 6 is halved to 3 by one worker and, by a second that has
  tested it meanwhile, to 1: the lowest two can come to. Two times make the average
  rise and fall. The deployed number of workers is four: with three the step can
  reach 0 (section 5), which is why `StepMoves` says "at most two".
- `loadgen`: two requests in each phase give two replies that overtake each
  other; `MaxKills` = 2 is one repetition. An interval of 3 ticks with 2 to the
  microsecond leaves a fraction that `usleep` drops, `MaxLate` = 1 lets the thread
  wake when the next request is already due, and 6 ticks are a run of two
  requests. `MaxRun`, `MaxKills` and `MaxLate` are bounds of the model; `Warmup`,
  the rate and the duration are the program's own limits.
- `experiment`: the second experiment meets what the first one left; two
  accidents fail a try and then hurt its repetition, or keep both removals
  between two tries from the services of the first, which the second then measures.
  `MaxTries` = 4 is never reached by more than this: each try that does not count costs an accident
  (`TriesPaid`, proved), so no behaviour is cut off.

### Fairness, and why the code justifies it

- `midtier_live`: weak fairness of each poller, worker and response thread
  (threads are scheduled, and every loop blocks only on a queue or a mutex) and
  of buckets that answer. Nothing stronger is assumed of a mutex: every waiter
  passes because only finitely many requests compete for it. Clients owe nothing:
  there is no fairness on the arrival of requests.
- `PreRequest`: the helper runs; `server.c` answers a connection it serves. Not
  assumed: that a waiting connection is ever accepted (the property makes the
  exception), that time passes, or that requests come.
- `LoadGen`: both threads run; every RPC completes, with a reply or an error.
  That the mid-tier does answer is what `midtier_live` shows.
- `Experiment`: the driver goes on, the processes of a deployment make progress,
  a bucket server that does not die comes to listen, docker finishes removing a
  network, a launched profiler comes to listen.
  Accidents owe nothing: none ever has to happen, and none has to stop. The
  property makes one exception, a deployment that fails without a line
  (`Silent`), because no script has a time limit.
- `AdaptiveWait` states no fairness: its properties are safety.

Deadlock is checked in every run. The only stuttering disjuncts are those of an
exited process, of a bound that is reached or a batch that is over, of a script that
looks at the log once more and, in `MidTier`, of a server that has answered every
request and has nothing left to do (`Quiet`): a state in which threads wait for each
other with work left is an error.

## 4. What is proved

All theorems hold for every value of the constants under the named assumptions
of the modules (threads of different kinds are different, at least one bucket,
kills are requests; the wait is an integer below the length of the second).

*MidTier* (`MidTierProofs`). `ReplyComplete`, the property that matters most, is
not inductive: that the last answer completes a reply depends on where every
other answer is, on who holds which lock, and on no address being reused
meanwhile. `IInv` says all of it:

- `AddressesHeld`, `EventsUnique`, `EventsAlone`, `WorkersAlone`: a CallData is
  in one place: free, armed, reported by one event, run by one worker, or waiting
  for bucket answers. This carries the safety of address reuse.
- `CallsLive`, `CallsUnique`: every RPC under way belongs to the living request
  its id denotes, and is in one place.
- `SlotsFilled`, `SendingAlone`, `WorkerTimeIn`: the first `recvd` slots are
  full, each with another bucket's answer, none of them pending; nothing is
  stored while the worker still sends; the worker's share of `index_time` is in
  before the merge adds to it.
- `LocksHeld`: being in a critical section and owning its mutex are the same.
- `MergedAlone`, `RequestsOnce`: between merge and finish the reply is complete
  and the thread alone; a request is answered when its CallData is finished.

`MidTierWorkers` and `MidTierResponders` prove that each action preserves each
conjunct; counting ("the last one is the last") is done by `CallsUnique` and
`SlotsFilled` alone, without cardinalities, because a slot number *is* the
count. Theorems: `TypeCorrect`, `InvariantCorrect`, `AnswersNeverStale`,
`CriticalSectionsOwned`, `WorkersNeverDangle`, `RepliesComplete`,
`StatusNeverLies`, `EntriesFound`, and `NoMutexErasedHeld` without kills.

*What clients are promised* (`MidTierPromises`). Five results rest on `IInv`:

- `ListenersNeverLost`: `Listening` says that the armed CallDatas, the accepted
  requests on their way and the workers about to arm a successor add up to the
  pollers that have started; every action moves at most one of them.
- `CallsNeverLost`: `NoCallLost` says that a CallData gRPC has filled in has an event, a
  worker that runs it or buckets counting down for it, and that the answer of every
  bucket asked is under way or in a slot. The step that could break it
  is the last `CountDown`: were all answers in and the count not down to zero, the
  call would be nobody's. That the slots are then too few for the buckets
  (`SlotsTooFew`) is the one argument about cardinalities.
- `ServerNeverStuck`, for at least one thread of each kind: if all threads wait or
  sleep over a kill, not all workers sleep, and no bucket owes an answer (`AllWait`),
  every CallData that is not free is armed and every accepted request has its reply.
  The owner of a mutex always has a step, except the kill's sleeper, and nobody needs
  a sleeper's mutex (`SleepersAlone`): no RPC is under way to an acknowledged kill,
  and a worker that reuses its address has replaced the mutex before it waits for
  it. So nobody is at a mutex (`NobodyBlocked`), all are at their queues, which are
  empty, and by `NoCallLost` no call is left on its way.
- `AnswersNeverLost` and `ServerKeepsPromise` (`Spec => Implements`): under the
  mapping a request has heard the buckets whose answers its slots hold, so that
  each step of the mid-tier is an `Accept`, a `Hear`, a `Reply` or a stutter of
  `ScatterGather`. What makes it true is `RInv`: every stored answer is to a query
  that either has its reply, or whose CallData nobody but its own sender can
  touch (`Protected`), so no `Register` on a reused address wipes it; and what was
  merged is what the slots hold until the call is finished.

*PreRequest* (`PreRequestProofs`). `FlagMeansRequest` is inductive with the type
invariant. `OnePerRequest` needs `FlagOwed` (an unseen flag belongs to a request
that is owed a pre-request), `ReplyToLast` needs `WireQuiet` (nothing on the wire
outside the read, whether or not the connection lives), `NeverEarly` needs
`TimesTold` (unless `tv_usec` has started again, the difference of the
timestamps is at most the time that has passed) and `WaitTold` (a helper
past its wait that finds the flag up has waited, or `tv_usec` has started again, or
the flag went down and was raised anew). Theorems: `TypeCorrect`,
`InvariantCorrect`, `FlagNeverStale`, `PreRequestsEarned`, `RepliesMatched`,
`WaitsLongEnough`.

*AdaptiveWait* (`AdaptiveWaitProofs`). That `step` never grows needs `HalfSmall`:
what a worker has halved and not yet stored is no more than the first step, so a late
store does no harm. That two workers never take it to nothing needs `HalvingApart`:
at most one store of a half can come between a worker's test and its second read,
which then finds at least 3; and when the half it computes is below 3, the other is
out of this code and finds a step too small for another test. `DivideRaced` needs
`OwnTime`: from its push to its division a worker finds at least its own time in the
vector, whatever others write over it, unless one has cleared it. `TypeOK` needs
`CountBehind` (a worker that has read the count and not written it back has read less
than the requests begun), and that the sum of the samples is a number: the sum is a
recursive function of the vector's length, and a least length at which it were none
contradicts its own predecessor, which needs no induction theorem. Theorems:
`TypeCorrect`, `StepAlwaysMoves`, `OnlyRacesDivideByZero`.

*LoadGen* (`LoadGenProofs`). The warm-up's replies must all be in before the
unlocked reset, or they would be counted with the run: `Account` and `OnePlace`
account for every RPC started (with the server, in the queue, at the reader, or
counted), `Sending` ties that to the main thread, and so no call crosses from one
phase to the next (`Tickets`: every call under way is of this phase, and
`resp_times` holds its own start). `Filing` says what the statistics hold in
between, `Asked` how often utilisation was asked for, `Clock` that the next time is
ahead of what was sent, `Honest` what the run's statistics are about. Theorems:
`TypeCorrect`, `CountsAgree`, `PrintsTheRun`, `KeepsItsPace`, `PrintsAreDefined`.

`PrintsDefined` is claimed for a run of which a reply was counted by its end: the
vector then holds it (`CountMatchesStats`), and the reader, which may go on until the
mutex is taken, only adds to both.

`ClientKeepsPromise` (`Spec => ClientAsDeployed`) is the refinement of `StartUp`'s
client, each of whose steps is here one step of one thread among many that the
driver cannot see; telling an error and ending are two, and an error may be told with
the mid-tier up. It needs nothing beside `IInv`. Together with the theorems about
`Experiment`, which take that client as given, it closes the gap between the two
modules.

*Experiment* (`ExperimentProofs`). `Deployment`: when nothing is deployed nothing is
left to see (`Removed`), and what is deployed is of this try or as many tries older,
at most, as its removal has failed (one more while the next removal is still to
come); a driver that measures has seen the warm-up's line. `Samples`: a series is of
one try between a start and the next, and a profiler that listens between them holds
nothing or the first sample. `TriesPaid`: a try that does not count has cost an
accident, with `StackOrder` and `Lost` for how a try comes to fail: by an error that
is told, or a mid-tier or a bucket that is gone before the warm-up is over. Theorems:
`TypeCorrect`, `MeasuresOwnServices`, `SeriesNeverMixed`.

Two more theorems carry what of the batch's end can be proved without fairness:

- `NothingElseStops`: where neither the driver nor a process of the deployment has a
  step of its own, the batch is over or the deployment is `Silent`. It needs that a
  line in the log is from a client that came that far (`StackOrder`), that a driver
  past its warm-up has its line (`Deployment`), and that a try is left when one is
  lost (`RoomForRetry`, from `TriesPaid`).
- `StepsRunOut`: every step lowers `Left`, a natural number. A try is worth 22 of the
  driver's steps, its stages and calls less, and each of those outweighs all that
  the services, profilers and accidents of a deployment can do (less than 30).

With the weak fairness of the run, the second says that the system comes to a state
in which nothing has a step, and the first what state that is: this is `BatchEnds`,
but for the last inference, which is about ENABLED. `DriverWaits` and `ServicesWait`
are written out for that reason.

*Only model-checked*: liveness (`EveryRequestAnswered`, `AlwaysListensAgain`,
`EveryCallDeleted`, `ComesToRest`, `ClientStops`, `BatchEnds`), which with ENABLED is
out of the prover's reach. Every invariant and every action property of a passing
run is a theorem. Of the liveness properties only `BatchEnds` has its measure proved;
those of the load generator (RPCs and kill requests still to send) and of the
mid-tier (the place of each CallData) are the next to be stated.

## 5. What the runs found

The five violations above are the disagreements met so far between the source
and what it says of itself; `PROJECT.json` "findings" has each with its lines.
Two of them are defects whatever the comment says: the unlocked lookups in
`std::map`, and the comparison of `tv_usec`.

These behaviours are modelled as they are and claimed by no property:

- The kill path destroys a mutex that is held.
- One failed bucket RPC ends the mid-tier.
- The load generator may die unpacking the acknowledgement of a kill, or a first
  reply that takes more than five seconds.
- A run without a single counted reply prints NaN as its average and then reads an
  empty vector (helper 533, 411), or, if the first reply is pushed between 630 and
  637, an infinite cost (430).
- Three workers can halve the controller's step to 0, after which no adjustment moves
  the wait: one tests 6, the others halve it to 3 and 1, and it reads 1.
- A wait below zero disables the controller for good; two adjustments that add to the
  same wait lose one of them.

More were met in the driver and are modelled as they are:

- `ansible/profiler.yml` (20-42) gives the keys of the play "Kill remote profiler"
  twice. YAML keeps the later ones, so no task has the tag `kill_profiler` and the
  call of `kill_profiler` at `run_experiment.py:267` kills nothing: profilers live on from try to
  try. `NoMixedSeries` holds all the same, because `start` clears the series.
- The status of the script that waits for the run is ignored: a run that ended in
  an error is reported and counts.
- The status of a removal is dropped (`kill_remote`, 177). When both removals between
  two tries fail, the next try finds the services of the last one, goes on at once
  after their warm-up line, and reports on a run that may long be over.
- A client that dies, or waits for a mid-tier that has died, or that waits for a
  bucket server that has, without printing a line keeps its script polling for ever
  (`Silent`).

## 6. Not modelled

- *Helpers nothing calls*: `Perf`, `SysCount`, `Syscall`, `HitM`, `CtxtSwitch`,
  `FinalKill` and the merge helpers of the mid-tier, whose threads are commented
  out in `main`; MD5, redis, histograms and statistics files of the client helper.
- *Copies of the mid-tier*: `mid_tier_serverWORKING.cc` is byte for byte the same.
  `mid_tier_server new not working.cc` is an abandoned variant that no script
  builds; it destroys its joinable helper thread as soon as it is made
  (1136-1137), which ends the process.
- *Profiler*: the sampling thread of `EventProfiling` (`server()` starts it with
  period 0) and `PerfEventProfiling` are not used; reading the counters is I/O.
  `analyze.py` is arithmetic on finished reports.
- *Driver*: swarm and frequency set-up before the loop, socwatch (which only delays
  the end of a try) and the writing of logs. `configure_hdsearch_node` is commented
  out (`run_experiment.py:346`): no node is configured or rebooted.
- *Values*: LSH look-up, vectors, the arithmetic of utilisation deltas and the
  values of statistics; the models keep which request each number comes from.
- *Machine set-up scripts, plots, recorded results*: no behaviour of the system.
- *gRPC and the bucket servers* are not in the repository; they are external actions.
  In `LoadGen` and `StartUp` an RPC may be answered or fail at any time. In `MidTier`
  a bucket answers an RPC once or fails it; `midtier_kill` and `midtier_live` set
  `BucketsFail` to FALSE. A bucket server that dies in the middle of a run shows as
  failed RPCs.
- *Rates*: `Experiment` is the loop of one rate. The outer loop over the rates is left
  out: docker would replace a client whose rate has changed, which concerns only a try
  that finds the services of another rate after two removals in a row have failed.
- *Calls to profilers* that listen always get through: a start that were lost although
  the server listens would leave the series of an earlier try to be added to, and
  `NoMixedSeries` rests on this.
- *A crash of the client* in its unlocked lookup of `resp_times` is not modelled, only
  a lookup that misses.
