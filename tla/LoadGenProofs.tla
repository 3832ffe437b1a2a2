---------------------------- MODULE LoadGenProofs ----------------------------
(***************************************************************************)
(* Proofs about LoadGen, for every number of requests and every timing.    *)
(*                                                                         *)
(* What holds the invariant together is an account: every RPC that was     *)
(* started since the counters were reset is with the server, in cq_, with  *)
(* the reader, or counted.  It makes the unlocked reset safe: when the     *)
(* warm-up ends no RPC is left that could be filed late.                   *)
(***************************************************************************)
EXTENDS LoadGenImplements, FiniteSetTheorems, SequenceTheorems, TLAPS

\* RPCs that were started before the counters were reset.
Base == IF phase = "warmup" THEN 0 ELSE Warmup

\* Is a request counted that is not started?
Pending == IF mpc = "issue" THEN 1 ELSE 0

\* Is a reply with the reader, and is it in the statistics?
Busy  == IF rpc = "next" THEN 0 ELSE 1
Filed == IF rpc \in {"util", "count"} THEN 1 ELSE 0

\* Every RPC is in one place.
Account ==
    /\ IsFiniteSet(calls) /\ IsFiniteSet(completed)
    /\ issued = Base + responses_recvd + Cardinality(calls) + Cardinality(completed) + Busy

\* Every RPC that was started is known by its number, wherever it is.
OnePlace ==
    /\ \A c \in calls : c.n <= issued
    /\ \A d \in completed : d.call.n <= issued
    /\ \A c1, c2 \in calls : c1.n = c2.n => c1 = c2
    /\ \A d1, d2 \in completed : d1.call.n = d2.call.n => d1 = d2
    /\ \A c \in calls, d \in completed : c.n # d.call.n
    /\ rpc # "next" =>
           /\ reply.n <= issued
           /\ \A c \in calls : c.n # reply.n
           /\ \A d \in completed : d.call.n # reply.n

\* What has been counted has been started, but for the request at hand.
Sending ==
    /\ phase = "warmup" =>
           /\ mpc \in {"loop", "issue", "clear", "reset"}
           /\ num_requests <= Warmup /\ issued + Pending = num_requests
           /\ mpc \in {"clear", "reset"} => Warmup <= responses_recvd
    /\ phase = "run" =>
           /\ mpc \in {"loop", "awake", "issue", "print", "ranks", "stats", "cost"}
           /\ num_requests <= MaxRun /\ issued + Pending = Warmup + num_requests
    /\ phase = "kill" =>
           /\ mpc \in {"loop", "kill"}
           /\ num_requests <= MaxRun
           /\ mpc = "kill" => issued < MaxCalls
    /\ Pending <= num_requests

\* The first request of the warm-up and of the run asks for the utilisation.
Asked ==
    /\ util_requests <= Base + num_requests
    /\ num_requests > 0 \/ phase # "warmup" => util_requests > 0
    /\ num_requests > 0 /\ phase # "warmup" => util_requests > 1

\* The clock of the run is ahead of what was sent, by the rate.
Clock ==
    /\ phase = "warmup" => curr_time = 0
    /\ phase = "run" =>
           /\ num_requests * Interval <= curr_time
           /\ mpc \in {"loop", "awake"} =>
                  /\ (num_requests + 1) * Interval <= next_time
                  /\ next_time <= curr_time + Interval
           /\ mpc = "loop" => curr_time < next_time
           /\ mpc = "awake" => num_requests < MaxRun

\* What is filed is counted, and has been asked for utilisation at most once.
Filing ==
    /\ mpc # "reset" => Len(timing_info) = responses_recvd + Filed
    /\ mpc = "reset" => timing_info = <<>> /\ utilAdded = 0
    /\ rpc # "util" => utilAdded <= Len(timing_info)
    /\ rpc = "util" => utilAdded < Len(timing_info)

\* A call under way in this phase, and the start that resp_times holds for it.
Ticket(c) ==
    /\ c.kind = phase
    /\ c.n = Base + c.id
    /\ c.id > 0
    /\ resp_times[c.id] = c.n

\* Until the kill requests, every call under way has its ticket.
Tickets ==
    phase # "kill" =>
        /\ \A c \in calls : Ticket(c)
        /\ \A d \in completed : Ticket(d.call)
        /\ rpc \in {"init", "measure"} => Ticket(reply)
        /\ rpc \in {"unpack", "push"} => reply.kind = phase /\ start # "other"

OfRun(times) == \A i \in 1 .. Len(times) : times[i].kind = "run" /\ times[i].start # "other"

\* The statistics of the run are of the run, while they are collected and as they
\* are printed.
Honest ==
    /\ phase = "run" => OfRun(timing_info)
    /\ phase = "run" /\ mpc \in {"print", "ranks", "stats", "cost"} =>
           achieved <= Len(timing_info)
    /\ phase = "run" /\ mpc = "stats" => timing_info # <<>>
    /\ phase = "run" /\ mpc = "cost" => util_requests > 1
    /\ (phase = "run" /\ mpc = "cost") \/ phase = "kill" =>
           OfRun(printed) /\ achieved <= Len(printed) /\ printed # <<>>
    /\ phase = "kill" => cost.by > 0 /\ cost.qps = achieved

\* The inductive invariant.
IInv ==
    /\ TypeOK
    /\ Account
    /\ OnePlace
    /\ Sending
    /\ Asked
    /\ Clock
    /\ Filing
    /\ Tickets
    /\ Honest


-----------------------------------------------------------------------------
\* The numbers that the proofs calculate with.
NumberFacts ==
    /\ Warmup \in Nat /\ 0 < Warmup /\ MaxRun \in Nat /\ MaxKills \in Nat
    /\ MaxCalls \in Nat /\ MaxCalls = Warmup + MaxRun + MaxKills
    /\ Micro \in Nat /\ 0 < Micro /\ Interval \in Nat /\ 0 < Interval
    /\ Duration \in Nat /\ MaxLate \in Nat
    /\ issued \in Nat /\ issued <= MaxCalls
    /\ num_requests \in Nat /\ num_requests \in Ids
    /\ responses_recvd \in Nat /\ util_requests \in Nat /\ util_requests <= MaxCalls
    /\ utilAdded \in Nat /\ achieved \in Nat
    /\ curr_time \in Nat /\ next_time \in Nat
    /\ Base \in Nat /\ Base <= Warmup /\ (phase = "warmup" => Base = 0)
    /\ (phase # "warmup" => Base = Warmup)
    /\ Cardinality(calls) \in Nat /\ Cardinality(completed) \in Nat
    /\ Len(timing_info) \in Nat /\ Len(printed) \in Nat
    /\ Busy \in {0, 1} /\ Filed \in {0, 1} /\ Filed <= Busy /\ Pending \in {0, 1}
    /\ Base + responses_recvd + Cardinality(calls) + Cardinality(completed) + Busy = issued

\* The type of the state and the account make them numbers.
LEMMA Numbers ==
    ASSUME IInv
    PROVE  NumberFacts
<1>1. /\ Warmup \in Nat /\ 0 < Warmup /\ MaxRun \in Nat /\ MaxKills \in Nat
      /\ Micro \in Nat /\ 0 < Micro /\ Interval \in Nat /\ 0 < Interval
      /\ Duration \in Nat /\ MaxLate \in Nat
  BY WarmupAssumption, MaxRunAssumption, MaxKillsAssumption, TimeAssumption
<1>2. MaxCalls \in Nat /\ MaxCalls = Warmup + MaxRun + MaxKills
  BY <1>1 DEF MaxCalls
<1>3. /\ issued \in 0 .. MaxCalls /\ responses_recvd \in 0 .. MaxCalls
      /\ util_requests \in 0 .. MaxCalls /\ utilAdded \in 0 .. MaxCalls
      /\ achieved \in 0 .. MaxCalls
      /\ num_requests \in Ids /\ curr_time \in Nat /\ next_time \in Nat
  BY DEF IInv, TypeOK
<1>4. num_requests \in Nat
  BY <1>1, <1>3 DEF Ids
<1>5. /\ issued \in Nat /\ issued <= MaxCalls
      /\ responses_recvd \in Nat /\ util_requests \in Nat /\ util_requests <= MaxCalls
      /\ utilAdded \in Nat /\ achieved \in Nat
  BY <1>2, <1>3
<1>6. Base \in Nat /\ Base <= Warmup /\ (phase = "warmup" => Base = 0)
      /\ (phase # "warmup" => Base = Warmup)
  BY <1>1 DEF Base
<1>7. Cardinality(calls) \in Nat /\ Cardinality(completed) \in Nat
  BY FS_CardinalityType DEF IInv, Account
<1>8. Len(timing_info) \in Nat /\ Len(printed) \in Nat
  BY LenProperties DEF IInv, TypeOK
<1>9. Busy \in {0, 1} /\ Filed \in {0, 1} /\ Filed <= Busy /\ Pending \in {0, 1}
  BY DEF Busy, Filed, Pending
<1>10. Base + responses_recvd + Cardinality(calls) + Cardinality(completed) + Busy = issued
  BY <1>5, <1>6, <1>7, <1>9 DEF IInv, Account
<1> QED
  BY <1>1, <1>2, <1>3, <1>4, <1>5, <1>6, <1>7, <1>8, <1>9, <1>10 DEF NumberFacts

\* When the warm-up is over and the counters are not yet reset, nothing is under
\* way any more: no reply can come in between.
LEMMA Quiet ==
    ASSUME IInv, mpc \in {"clear", "reset"}, phase = "warmup"
    PROVE  /\ calls = {} /\ completed = {} /\ rpc = "next"
           /\ num_requests > 0 /\ issued = Warmup
<1>n. NumberFacts
  BY Numbers
<1>1. /\ num_requests <= Warmup /\ issued + Pending = num_requests
      /\ Pending = 0 /\ Warmup <= responses_recvd
  BY DEF IInv, Sending, Pending
<1>2. /\ Cardinality(calls) = 0 /\ Cardinality(completed) = 0 /\ Busy = 0
      /\ num_requests > 0 /\ issued = Warmup
  BY <1>n, <1>1 DEF NumberFacts
<1>3. calls = {} /\ completed = {}
  BY <1>2, FS_EmptySet DEF IInv, Account
<1>4. rpc = "next"
  BY <1>2 DEF Busy
<1> QED
  BY <1>2, <1>3, <1>4

\* Ids are as many as the requests of either part.
LEMMA IdRange ==
    ASSUME NEW n \in Nat, n <= Warmup \/ n <= MaxRun
    PROVE  n \in Ids
BY WarmupAssumption, MaxRunAssumption DEF Ids

\* One request more is one interval more, and less than Duration has no room for
\* more than MaxRun.
LEMMA Intervals ==
    /\ \A n \in Nat : n * Interval \in Nat /\ (n + 1) * Interval = n * Interval + Interval
    /\ \A n, t \in Nat : n * Interval <= t /\ t < Duration => n < MaxRun
<1>1. Interval \in Nat /\ MaxRun \in Nat /\ Duration \in Nat /\ Duration <= MaxRun * Interval
  BY MaxRunAssumption, TimeAssumption
<1>2. ASSUME NEW n \in Nat
      PROVE  n * Interval \in Nat /\ (n + 1) * Interval = n * Interval + Interval
  BY <1>1
<1>3. ASSUME NEW n \in Nat, NEW t \in Nat, n * Interval <= t, t < Duration
      PROVE  n < MaxRun
  <2>1. n * Interval < MaxRun * Interval
    BY <1>1, <1>2, <1>3
  <2> SUFFICES ASSUME MaxRun <= n PROVE FALSE
    BY <1>1
  <2>2. PICK k \in Nat : n = MaxRun + k
    <3>1. n - MaxRun \in Nat /\ n = MaxRun + (n - MaxRun)
      BY <1>1
    <3> QED
      BY <3>1
  <2>3. n * Interval = MaxRun * Interval + k * Interval /\ k * Interval >= 0
    BY <1>1, <2>2
  <2> QED
    BY <1>1, <2>1, <2>3
<1> QED
  BY <1>2, <1>3

\* What was due then is due later.
LEMMA Later ==
    \A a, b, c, d \in Nat : b <= c => (a <= b => a <= c) /\ (a <= b + d => a <= c + d)
OBVIOUS

\* What holds before the first request.
LEMMA InitInvariant == Init => IInv
<1> SUFFICES ASSUME Init PROVE IInv
  OBVIOUS
<1> USE DEF Init
<1>n. Warmup \in Nat /\ MaxRun \in Nat /\ MaxKills \in Nat /\ MaxCalls \in Nat
      /\ 0 \in 0 .. MaxCalls /\ 0 \in Ids
      /\ (0 < Warmup) /\ (1 <= MaxCalls)
  BY WarmupAssumption, MaxRunAssumption, MaxKillsAssumption DEF MaxCalls, Ids
<1>1. TypeOK
  <2>1. reply \in CallType
    BY <1>n DEF NoCall, Call, CallType, Kinds
  <2>2. cost \in [of : 0 .. MaxCalls, by : 0 .. MaxCalls, qps : 0 .. MaxCalls]
    BY <1>n
  <2>3. resp_times \in [Ids -> 0 .. MaxCalls]
    BY <1>n
  <2>4. start \in Starts
    BY DEF Starts
  <2>5. /\ timing_info \in Seq([kind : Kinds, start : Starts])
        /\ printed \in Seq([kind : Kinds, start : Starts])
    OBVIOUS
  <2>6. curr_time \in Nat /\ next_time \in Nat
    OBVIOUS
  <2> QED
    BY <1>n, <2>1, <2>2, <2>3, <2>4, <2>5, <2>6 DEF TypeOK
<1>2. Account
  BY FS_EmptySet DEF Account, Base, Busy
<1>3. OnePlace
  BY DEF OnePlace
<1>4. Sending
  BY <1>n DEF Sending, Pending
<1>5. Asked
  BY DEF Asked, Base
<1>6. Clock
  BY DEF Clock
<1>7. Filing
  BY DEF Filing, Filed
<1>8. Tickets
  BY DEF Tickets
<1>9. Honest
  BY DEF Honest
<1> QED
  BY <1>1, <1>2, <1>3, <1>4, <1>5, <1>6, <1>7, <1>8, <1>9 DEF IInv

-----------------------------------------------------------------------------
\* A step that changes nothing but whether the processes are up, and whether the
\* reader has told of a call that failed.
LEMMA IdleKeeps ==
    ASSUME IInv, UNCHANGED <<mainVars, reply, start, kill_ack, first_req_flag, statVars,
                              resp_times, calls, completed>>,
           rpc' = rpc \/ (rpc = "failed" /\ rpc' = "told"),
           server' \in BOOLEAN, process' \in BOOLEAN
    PROVE  IInv'
<1>0. /\ TypeOK /\ Account /\ OnePlace /\ Sending /\ Asked /\ Clock
      /\ Filing /\ Tickets /\ Honest
  BY DEF IInv
<1>u. UNCHANGED <<phase, mpc, curr_time, next_time, asksUtil, num_requests,
                  util_requests, issued, achieved, printed, cost, reply, start,
                  kill_ack, first_req_flag, timing_info, utilAdded, responses_recvd,
                  calls, completed, resp_times>>
  BY DEF mainVars, statVars, clock
<1>1. TypeOK'
  BY <1>0, <1>u DEF TypeOK
<1>2. Account'
  BY <1>0, <1>u DEF Account, Base, Busy
<1>3. OnePlace'
  BY <1>0, <1>u DEF OnePlace
<1>4. Sending'
  BY <1>0, <1>u DEF Sending, Pending
<1>5. Asked'
  BY <1>0, <1>u DEF Asked, Base
<1>6. Clock'
  BY <1>0, <1>u DEF Clock
<1>7. Filing'
  BY <1>0, <1>u DEF Filing, Filed
<1>8. Tickets'
  BY <1>0, <1>u DEF Tickets, Ticket, Base
<1>9. Honest'
  BY <1>0, <1>u DEF Honest
<1> QED
  BY <1>1, <1>2, <1>3, <1>4, <1>5, <1>6, <1>7, <1>8, <1>9 DEF IInv

\* The warm-up counts a request more.
LEMMA WarmupRequestKeeps ==
    ASSUME IInv, WarmupRequest
    PROVE  IInv'
<1>0. /\ TypeOK /\ Account /\ OnePlace /\ Sending /\ Asked /\ Clock
      /\ Filing /\ Tickets /\ Honest
  BY DEF IInv
<1>n. NumberFacts
  BY Numbers
<1>f. /\ process /\ phase = "warmup" /\ mpc = "loop" /\ mpc' = "issue"
      /\ num_requests < Warmup
      /\ asksUtil' \in BOOLEAN /\ (num_requests' = 1 => asksUtil')
      /\ num_requests' = num_requests + 1
      /\ util_requests' = IF asksUtil' THEN util_requests + 1 ELSE util_requests
  BY DEF WarmupRequest, MainAt, CountNext
<1>u. UNCHANGED <<phase, curr_time, next_time, issued, achieved, printed, cost, rpc,
                  reply, start, kill_ack, first_req_flag, timing_info, utilAdded,
                  responses_recvd, calls, completed, server, resp_times, process>>
  BY DEF WarmupRequest, MainAt, CountNext, vars, mainVars, readerVars, statVars, rpcVars, clock
<1>b. num_requests' \in Ids /\ util_requests' \in 0 .. MaxCalls
  <2>1. num_requests + 1 \in Nat /\ num_requests + 1 <= Warmup
    BY <1>n, <1>f DEF NumberFacts
  <2>2. util_requests' \in Nat /\ util_requests' <= Base + num_requests + 1
    BY <1>0, <1>n, <1>f DEF NumberFacts, Asked
  <2>3. util_requests' <= MaxCalls
    BY <1>n, <2>1, <2>2, <1>f DEF NumberFacts
  <2> QED
    BY <1>n, <1>f, <2>1, <2>2, <2>3, IdRange DEF NumberFacts
<1>1. TypeOK'
  BY <1>0, <1>f, <1>u, <1>b DEF TypeOK
<1>2. Account'
  BY <1>0, <1>u DEF Account, Base, Busy
<1>3. OnePlace'
  BY <1>0, <1>u DEF OnePlace
<1>4. Sending'
  BY <1>0, <1>n, <1>f, <1>u DEF NumberFacts, Sending, Pending
<1>5. Asked'
  BY <1>0, <1>n, <1>f, <1>u DEF NumberFacts, Asked, Base
<1>6. Clock'
  BY <1>0, <1>f, <1>u DEF Clock
<1>7. Filing'
  BY <1>0, <1>f, <1>u DEF Filing, Filed
<1>8. Tickets'
  BY <1>0, <1>u DEF Tickets, Ticket, Base
<1>9. Honest'
  BY <1>0, <1>f, <1>u DEF Honest
<1> QED
  BY <1>1, <1>2, <1>3, <1>4, <1>5, <1>6, <1>7, <1>8, <1>9 DEF IInv

\* The run counts a request when its time has come: there was time for it.
LEMMA RunRequestKeeps ==
    ASSUME IInv, RunRequest
    PROVE  IInv'
<1>0. /\ TypeOK /\ Account /\ OnePlace /\ Sending /\ Asked /\ Clock
      /\ Filing /\ Tickets /\ Honest
  BY DEF IInv
<1>n. NumberFacts
  BY Numbers
<1>f. /\ process /\ phase = "run" /\ mpc = "awake" /\ mpc' = "issue"
      /\ curr_time >= next_time
      /\ asksUtil' \in BOOLEAN /\ (num_requests' = 1 => asksUtil')
      /\ num_requests' = num_requests + 1
      /\ util_requests' = IF asksUtil' THEN util_requests + 1 ELSE util_requests
  BY DEF RunRequest, MainAt, CountNext
<1>u. UNCHANGED <<phase, curr_time, next_time, issued, achieved, printed, cost, rpc,
                  reply, start, kill_ack, first_req_flag, timing_info, utilAdded,
                  responses_recvd, calls, completed, server, resp_times, process>>
  BY DEF RunRequest, MainAt, CountNext, vars, mainVars, readerVars, statVars, rpcVars, clock
<1>m. num_requests < MaxRun
  BY <1>0, <1>f DEF Clock
<1>b. num_requests' \in Ids /\ util_requests' \in 0 .. MaxCalls
  <2>1. num_requests + 1 \in Nat /\ num_requests + 1 <= MaxRun
    BY <1>n, <1>m DEF NumberFacts
  <2>2. util_requests' \in Nat /\ util_requests' <= Base + num_requests + 1
    BY <1>0, <1>n, <1>f DEF NumberFacts, Asked
  <2>3. util_requests' <= MaxCalls
    BY <1>n, <2>1, <2>2 DEF NumberFacts
  <2> QED
    BY <1>n, <1>f, <2>1, <2>2, <2>3, IdRange DEF NumberFacts
<1>1. TypeOK'
  BY <1>0, <1>f, <1>u, <1>b DEF TypeOK
<1>2. Account'
  BY <1>0, <1>u DEF Account, Base, Busy
<1>3. OnePlace'
  BY <1>0, <1>u DEF OnePlace
<1>4. Sending'
  BY <1>0, <1>n, <1>f, <1>u, <1>m DEF NumberFacts, Sending, Pending
<1>5. Asked'
  BY <1>0, <1>n, <1>f, <1>u DEF NumberFacts, Asked, Base
<1>6. Clock'
  <2>1. (num_requests + 1) * Interval <= next_time /\ next_time <= curr_time
    BY <1>0, <1>f DEF Clock
  <2>2. num_requests' * Interval <= curr_time'
    BY <1>n, <1>f, <1>u, <2>1, Intervals DEF NumberFacts
  <2> QED
    BY <1>f, <1>u, <2>2 DEF Clock
<1>7. Filing'
  BY <1>0, <1>f, <1>u DEF Filing, Filed
<1>8. Tickets'
  BY <1>0, <1>u DEF Tickets, Ticket, Base
<1>9. Honest'
  BY <1>0, <1>f, <1>u DEF Honest
<1> QED
  BY <1>1, <1>2, <1>3, <1>4, <1>5, <1>6, <1>7, <1>8, <1>9 DEF IInv

\* The thread wakes a microsecond later at least; less than Duration has passed, so there
\* are requests left.
LEMMA SleepKeeps ==
    ASSUME IInv, Sleep
    PROVE  IInv'
<1>0. /\ TypeOK /\ Account /\ OnePlace /\ Sending /\ Asked /\ Clock
      /\ Filing /\ Tickets /\ Honest
  BY DEF IInv
<1>n. NumberFacts
  BY Numbers
<1>f. /\ process /\ phase = "run" /\ mpc = "loop" /\ mpc' = "awake"
      /\ curr_time < Duration
      /\ \E late \in 0 .. MaxLate :
             curr_time' = curr_time + Micro * (late
                 + IF (next_time - curr_time) \div Micro > 0
                   THEN (next_time - curr_time) \div Micro ELSE 1)
  BY DEF Sleep, MainAt
<1>u. UNCHANGED <<phase, next_time, asksUtil, num_requests, util_requests, issued,
                  achieved, printed, cost, rpc, reply, start, kill_ack, first_req_flag,
                  timing_info, utilAdded, responses_recvd, calls, completed, server,
                  resp_times, process>>
  BY DEF Sleep, MainAt, vars, mainVars, readerVars, statVars, rpcVars, clock
<1>c. curr_time' \in Nat /\ curr_time <= curr_time'
  <2> DEFINE whole == (next_time - curr_time) \div Micro
             wake == IF whole > 0 THEN whole ELSE 1
  <2>1. PICK late \in 0 .. MaxLate : curr_time' = curr_time + Micro * (late + wake)
    BY <1>f
  <2>2. whole \in Int
    BY <1>n DEF NumberFacts
  <2>3. wake \in Nat /\ late \in Nat
    <3> HIDE DEF whole
    <3> QED
      BY <1>n, <2>2 DEF NumberFacts
  <2> HIDE DEF wake
  <2>4. late + wake \in Nat
    BY <2>3
  <2>5. Micro * (late + wake) \in Nat
    BY <1>n, <2>4 DEF NumberFacts
  <2> QED
    BY <1>n, <2>1, <2>5 DEF NumberFacts
<1>1. TypeOK'
  BY <1>0, <1>f, <1>u, <1>c DEF TypeOK
<1>2. Account'
  BY <1>0, <1>u DEF Account, Base, Busy
<1>3. OnePlace'
  BY <1>0, <1>u DEF OnePlace
<1>4. Sending'
  BY <1>0, <1>n, <1>f, <1>u DEF NumberFacts, Sending, Pending
<1>5. Asked'
  BY <1>0, <1>u DEF Asked, Base
<1>6. Clock'
  <2>1. num_requests < MaxRun
    BY <1>0, <1>n, <1>f, Intervals DEF Clock, NumberFacts
  <2>2. /\ num_requests * Interval <= curr_time /\ num_requests * Interval \in Nat
        /\ (num_requests + 1) * Interval <= next_time /\ next_time <= curr_time + Interval
    BY <1>0, <1>n, <1>f, Intervals DEF Clock, NumberFacts
  <2>3. num_requests * Interval <= curr_time' /\ next_time <= curr_time' + Interval
    BY <1>n, <1>c, <2>2, Later DEF NumberFacts
  <2> QED
    BY <1>f, <1>u, <2>1, <2>2, <2>3 DEF Clock
<1>7. Filing'
  BY <1>0, <1>f, <1>u DEF Filing, Filed
<1>8. Tickets'
  BY <1>0, <1>u DEF Tickets, Ticket, Base
<1>9. Honest'
  BY <1>0, <1>f, <1>u DEF Honest
<1> QED
  BY <1>1, <1>2, <1>3, <1>4, <1>5, <1>6, <1>7, <1>8, <1>9 DEF IInv

\* The thread looks at the clock again.
LEMMA TooEarlyKeeps ==
    ASSUME IInv, TooEarly
    PROVE  IInv'
<1>0. /\ TypeOK /\ Account /\ OnePlace /\ Sending /\ Asked /\ Clock
      /\ Filing /\ Tickets /\ Honest
  BY DEF IInv
<1>n. NumberFacts
  BY Numbers
<1>f. /\ process /\ phase = "run" /\ mpc = "awake" /\ mpc' = "loop"
      /\ curr_time < next_time
  BY DEF TooEarly, MainAt
<1>u. UNCHANGED <<phase, curr_time, next_time, asksUtil, num_requests, util_requests,
                  issued, achieved, printed, cost, rpc, reply, start, kill_ack,
                  first_req_flag, timing_info, utilAdded, responses_recvd, calls,
                  completed, server, resp_times, process>>
  BY DEF TooEarly, MainAt, vars, mainVars, readerVars, statVars, rpcVars, clock
<1>1. TypeOK'
  BY <1>0, <1>f, <1>u DEF TypeOK
<1>2. Account'
  BY <1>0, <1>u DEF Account, Base, Busy
<1>3. OnePlace'
  BY <1>0, <1>u DEF OnePlace
<1>4. Sending'
  BY <1>0, <1>n, <1>f, <1>u DEF NumberFacts, Sending, Pending
<1>5. Asked'
  BY <1>0, <1>u DEF Asked, Base
<1>6. Clock'
  BY <1>0, <1>f, <1>u DEF Clock
<1>7. Filing'
  BY <1>0, <1>f, <1>u DEF Filing, Filed
<1>8. Tickets'
  BY <1>0, <1>u DEF Tickets, Ticket, Base
<1>9. Honest'
  BY <1>0, <1>f, <1>u DEF Honest
<1> QED
  BY <1>1, <1>2, <1>3, <1>4, <1>5, <1>6, <1>7, <1>8, <1>9 DEF IInv

\* The warm-up ends when its replies are in.
LEMMA WarmupOverKeeps ==
    ASSUME IInv, WarmupOver
    PROVE  IInv'
<1>0. /\ TypeOK /\ Account /\ OnePlace /\ Sending /\ Asked /\ Clock
      /\ Filing /\ Tickets /\ Honest
  BY DEF IInv
<1>n. NumberFacts
  BY Numbers
<1>f. /\ process /\ phase = "warmup" /\ mpc = "loop" /\ mpc' = "clear"
      /\ responses_recvd >= Warmup
  BY DEF WarmupOver, MainAt
<1>u. UNCHANGED <<phase, curr_time, next_time, asksUtil, num_requests, util_requests,
                  issued, achieved, printed, cost, rpc, reply, start, kill_ack,
                  first_req_flag, timing_info, utilAdded, responses_recvd, calls,
                  completed, server, resp_times, process>>
  BY DEF WarmupOver, MainAt, vars, mainVars, readerVars, statVars, rpcVars, clock
<1>1. TypeOK'
  BY <1>0, <1>f, <1>u DEF TypeOK
<1>2. Account'
  BY <1>0, <1>u DEF Account, Base, Busy
<1>3. OnePlace'
  BY <1>0, <1>u DEF OnePlace
<1>4. Sending'
  BY <1>0, <1>n, <1>f, <1>u DEF NumberFacts, Sending, Pending
<1>5. Asked'
  BY <1>0, <1>u DEF Asked, Base
<1>6. Clock'
  BY <1>0, <1>f, <1>u DEF Clock
<1>7. Filing'
  BY <1>0, <1>f, <1>u DEF Filing, Filed
<1>8. Tickets'
  BY <1>0, <1>u DEF Tickets, Ticket, Base
<1>9. Honest'
  BY <1>0, <1>f, <1>u DEF Honest
<1> QED
  BY <1>1, <1>2, <1>3, <1>4, <1>5, <1>6, <1>7, <1>8, <1>9 DEF IInv

\* The statistics of the warm-up are cleared.
LEMMA ClearStatsKeeps ==
    ASSUME IInv, ClearStats
    PROVE  IInv'
<1>0. /\ TypeOK /\ Account /\ OnePlace /\ Sending /\ Asked /\ Clock
      /\ Filing /\ Tickets /\ Honest
  BY DEF IInv
<1>n. NumberFacts
  BY Numbers
<1>f. /\ process /\ phase = "warmup" /\ mpc = "clear" /\ mpc' = "reset"
      /\ timing_info' = <<>> /\ utilAdded' = 0
  BY DEF ClearStats, MainAt
<1>u. UNCHANGED <<phase, curr_time, next_time, asksUtil, num_requests, util_requests,
                  issued, achieved, printed, cost, rpc, reply, start, kill_ack,
                  first_req_flag, responses_recvd, calls, completed, server, resp_times,
                  process>>
  BY DEF ClearStats, MainAt, vars, mainVars, readerVars, statVars, rpcVars, clock
<1>q. rpc = "next"
  BY <1>f, Quiet
<1>1. TypeOK'
  <2>1. utilAdded' \in 0 .. MaxCalls
    BY <1>n, <1>f DEF NumberFacts
  <2>2. timing_info' \in Seq([kind : Kinds, start : Starts])
    BY <1>f
  <2> QED
    BY <1>0, <1>f, <1>u, <2>1, <2>2 DEF TypeOK
<1>2. Account'
  BY <1>0, <1>u DEF Account, Base, Busy
<1>3. OnePlace'
  BY <1>0, <1>u DEF OnePlace
<1>4. Sending'
  BY <1>0, <1>n, <1>f, <1>u DEF NumberFacts, Sending, Pending
<1>5. Asked'
  BY <1>0, <1>u DEF Asked, Base
<1>6. Clock'
  BY <1>0, <1>f, <1>u DEF Clock
<1>7. Filing'
  BY <1>q, <1>f, <1>u DEF Filing
<1>8. Tickets'
  BY <1>0, <1>u DEF Tickets, Ticket, Base
<1>9. Honest'
  BY <1>0, <1>f, <1>u DEF Honest
<1> QED
  BY <1>1, <1>2, <1>3, <1>4, <1>5, <1>6, <1>7, <1>8, <1>9 DEF IInv

\* The counters start again, and nothing is under way that was counted before.
LEMMA ResetCountersKeeps ==
    ASSUME IInv, ResetCounters
    PROVE  IInv'
<1>0. /\ TypeOK /\ Account /\ OnePlace /\ Sending /\ Asked /\ Clock
      /\ Filing /\ Tickets /\ Honest
  BY DEF IInv
<1>n. NumberFacts
  BY Numbers
<1>f. /\ process /\ phase = "warmup" /\ mpc = "reset" /\ phase' = "run" /\ mpc' = "loop"
      /\ num_requests' = 0 /\ responses_recvd' = 0 /\ next_time' = Interval
  BY DEF ResetCounters
<1>u. UNCHANGED <<curr_time, asksUtil, util_requests, issued, achieved, printed, cost,
                  rpc, reply, start, kill_ack, first_req_flag, timing_info, utilAdded,
                  calls, completed, server, resp_times, process>>
  BY DEF ResetCounters, vars, mainVars, readerVars, statVars, rpcVars, clock
<1>q. /\ calls = {} /\ completed = {} /\ rpc = "next"
      /\ num_requests > 0 /\ issued = Warmup
  BY <1>f, Quiet
<1>1. TypeOK'
  <2>1. num_requests' \in Ids /\ responses_recvd' \in 0 .. MaxCalls /\ next_time' \in Nat
    BY <1>n, <1>f, IdRange DEF NumberFacts
  <2> QED
    BY <1>0, <1>f, <1>u, <2>1 DEF TypeOK
<1>2. Account'
  <2>1. Base' = Warmup /\ Busy' = 0
    BY <1>f, <1>u, <1>q DEF Base, Busy
  <2>2. Cardinality(calls) = 0 /\ Cardinality(completed) = 0
    BY <1>q, FS_EmptySet
  <2> QED
    BY <1>0, <1>n, <1>f, <1>u, <1>q, <2>1, <2>2 DEF Account, NumberFacts
<1>3. OnePlace'
  BY <1>0, <1>u DEF OnePlace
<1>4. Sending'
  BY <1>n, <1>f, <1>u, <1>q DEF Sending, Pending, NumberFacts
<1>5. Asked'
  <2>1. util_requests <= num_requests /\ util_requests > 0 /\ num_requests <= Warmup
    BY <1>0, <1>n, <1>f, <1>q DEF Asked, Sending, NumberFacts
  <2>2. Base' = Warmup /\ util_requests' <= Warmup
    BY <1>n, <1>f, <1>u, <2>1 DEF Base, NumberFacts
  <2> QED
    BY <1>n, <1>f, <1>u, <2>1, <2>2 DEF Asked, NumberFacts
<1>6. Clock'
  <2>1. curr_time = 0
    BY <1>0, <1>f DEF Clock
  <2>2. 0 * Interval = 0 /\ (0 + 1) * Interval = Interval
    BY <1>n DEF NumberFacts
  <2> QED
    BY <1>n, <1>f, <1>u, <2>1, <2>2 DEF Clock, NumberFacts
<1>7. Filing'
  BY <1>0, <1>f, <1>u, <1>q DEF Filing, Filed
<1>8. Tickets'
  BY <1>f, <1>u, <1>q DEF Tickets
<1>9. Honest'
  BY <1>0, <1>f, <1>u DEF Honest, OfRun, Filing
<1> QED
  BY <1>1, <1>2, <1>3, <1>4, <1>5, <1>6, <1>7, <1>8, <1>9 DEF IInv

\* What the run achieved is in the statistics.
LEMMA RunOverKeeps ==
    ASSUME IInv, RunOver
    PROVE  IInv'
<1>0. /\ TypeOK /\ Account /\ OnePlace /\ Sending /\ Asked /\ Clock
      /\ Filing /\ Tickets /\ Honest
  BY DEF IInv
<1>n. NumberFacts
  BY Numbers
<1>f. /\ process /\ phase = "run" /\ mpc = "loop" /\ mpc' = "print"
      /\ achieved' = responses_recvd
  BY DEF RunOver, MainAt
<1>u. UNCHANGED <<phase, curr_time, next_time, asksUtil, num_requests, util_requests,
                  issued, printed, cost, rpc, reply, start, kill_ack, first_req_flag,
                  timing_info, utilAdded, responses_recvd, calls, completed, server,
                  resp_times, process>>
  BY DEF RunOver, MainAt, vars, mainVars, readerVars, statVars, rpcVars, clock
<1>1. TypeOK'
  BY <1>0, <1>f, <1>u DEF TypeOK
<1>2. Account'
  BY <1>0, <1>u DEF Account, Base, Busy
<1>3. OnePlace'
  BY <1>0, <1>u DEF OnePlace
<1>4. Sending'
  BY <1>0, <1>n, <1>f, <1>u DEF NumberFacts, Sending, Pending
<1>5. Asked'
  BY <1>0, <1>u DEF Asked, Base
<1>6. Clock'
  BY <1>0, <1>f, <1>u DEF Clock
<1>7. Filing'
  BY <1>0, <1>f, <1>u DEF Filing, Filed
<1>8. Tickets'
  BY <1>0, <1>u DEF Tickets, Ticket, Base
<1>9. Honest'
  <2>1. responses_recvd <= Len(timing_info)
    BY <1>0, <1>n, <1>f DEF Filing, NumberFacts
  <2> QED
    BY <1>0, <1>f, <1>u, <2>1 DEF Honest
<1> QED
  BY <1>1, <1>2, <1>3, <1>4, <1>5, <1>6, <1>7, <1>8, <1>9 DEF IInv

\* An average is printed, if only of nothing.
LEMMA PrintAverageKeeps ==
    ASSUME IInv, PrintAverage
    PROVE  IInv'
<1>0. /\ TypeOK /\ Account /\ OnePlace /\ Sending /\ Asked /\ Clock
      /\ Filing /\ Tickets /\ Honest
  BY DEF IInv
<1>n. NumberFacts
  BY Numbers
<1>f. /\ process /\ phase = "run" /\ mpc = "print" /\ mpc' = "ranks"
  BY DEF PrintAverage, MainAt
<1>u. UNCHANGED <<phase, curr_time, next_time, asksUtil, num_requests, util_requests,
                  issued, achieved, printed, cost, rpc, reply, start, kill_ack,
                  first_req_flag, timing_info, utilAdded, responses_recvd, calls,
                  completed, server, resp_times, process>>
  BY DEF PrintAverage, MainAt, vars, mainVars, readerVars, statVars, rpcVars, clock
<1>1. TypeOK'
  BY <1>0, <1>f, <1>u DEF TypeOK
<1>2. Account'
  BY <1>0, <1>u DEF Account, Base, Busy
<1>3. OnePlace'
  BY <1>0, <1>u DEF OnePlace
<1>4. Sending'
  BY <1>0, <1>n, <1>f, <1>u DEF NumberFacts, Sending, Pending
<1>5. Asked'
  BY <1>0, <1>u DEF Asked, Base
<1>6. Clock'
  BY <1>0, <1>f, <1>u DEF Clock
<1>7. Filing'
  BY <1>0, <1>f, <1>u DEF Filing, Filed
<1>8. Tickets'
  BY <1>0, <1>u DEF Tickets, Ticket, Base
<1>9. Honest'
  BY <1>0, <1>f, <1>u DEF Honest
<1> QED
  BY <1>1, <1>2, <1>3, <1>4, <1>5, <1>6, <1>7, <1>8, <1>9 DEF IInv

\* There is a latency to print.
LEMMA PrintLatencyKeeps ==
    ASSUME IInv, PrintLatency
    PROVE  IInv'
<1>0. /\ TypeOK /\ Account /\ OnePlace /\ Sending /\ Asked /\ Clock
      /\ Filing /\ Tickets /\ Honest
  BY DEF IInv
<1>n. NumberFacts
  BY Numbers
<1>f. /\ process /\ phase = "run" /\ mpc = "ranks" /\ mpc' = "stats"
      /\ timing_info # <<>>
  BY DEF PrintLatency, MainAt
<1>u. UNCHANGED <<phase, curr_time, next_time, asksUtil, num_requests, util_requests,
                  issued, achieved, printed, cost, rpc, reply, start, kill_ack,
                  first_req_flag, timing_info, utilAdded, responses_recvd, calls,
                  completed, server, resp_times, process>>
  BY DEF PrintLatency, MainAt, vars, mainVars, readerVars, statVars, rpcVars, clock
<1>1. TypeOK'
  BY <1>0, <1>f, <1>u DEF TypeOK
<1>2. Account'
  BY <1>0, <1>u DEF Account, Base, Busy
<1>3. OnePlace'
  BY <1>0, <1>u DEF OnePlace
<1>4. Sending'
  BY <1>0, <1>n, <1>f, <1>u DEF NumberFacts, Sending, Pending
<1>5. Asked'
  BY <1>0, <1>u DEF Asked, Base
<1>6. Clock'
  BY <1>0, <1>f, <1>u DEF Clock
<1>7. Filing'
  BY <1>0, <1>f, <1>u DEF Filing, Filed
<1>8. Tickets'
  BY <1>0, <1>u DEF Tickets, Ticket, Base
<1>9. Honest'
  BY <1>0, <1>f, <1>u DEF Honest
<1> QED
  BY <1>1, <1>2, <1>3, <1>4, <1>5, <1>6, <1>7, <1>8, <1>9 DEF IInv

\* A latency was filed, so a request was sent, and the first one asked for the utilisation.
LEMMA PrintGlobalStatsKeeps ==
    ASSUME IInv, PrintGlobalStats
    PROVE  IInv'
<1>0. /\ TypeOK /\ Account /\ OnePlace /\ Sending /\ Asked /\ Clock
      /\ Filing /\ Tickets /\ Honest
  BY DEF IInv
<1>n. NumberFacts
  BY Numbers
<1>f. /\ process /\ phase = "run" /\ mpc = "stats" /\ mpc' = "cost"
      /\ printed' = timing_info
  BY DEF PrintGlobalStats, MainAt
<1>u. UNCHANGED <<phase, curr_time, next_time, asksUtil, num_requests, util_requests,
                  issued, achieved, cost, rpc, reply, start, kill_ack, first_req_flag,
                  timing_info, utilAdded, responses_recvd, calls, completed, server,
                  resp_times, process>>
  BY DEF PrintGlobalStats, MainAt, vars, mainVars, readerVars, statVars, rpcVars, clock
<1>1. TypeOK'
  BY <1>0, <1>f, <1>u DEF TypeOK
<1>2. Account'
  BY <1>0, <1>u DEF Account, Base, Busy
<1>3. OnePlace'
  BY <1>0, <1>u DEF OnePlace
<1>4. Sending'
  BY <1>0, <1>n, <1>f, <1>u DEF NumberFacts, Sending, Pending
<1>5. Asked'
  BY <1>0, <1>u DEF Asked, Base
<1>6. Clock'
  BY <1>0, <1>f, <1>u DEF Clock
<1>7. Filing'
  BY <1>0, <1>f, <1>u DEF Filing, Filed
<1>8. Tickets'
  BY <1>0, <1>u DEF Tickets, Ticket, Base
<1>9. Honest'
  <2>1. timing_info # <<>> /\ Len(timing_info) > 0
    BY <1>0, <1>n, <1>f, EmptySeq DEF Honest, TypeOK, NumberFacts
  <2>2. Len(timing_info) = responses_recvd + Filed /\ Pending = 0
    BY <1>0, <1>f DEF Filing, Pending
  <2>3. issued = Warmup + num_requests
    BY <1>0, <1>n, <1>f, <2>2 DEF Sending, NumberFacts
  <2>4. Base = Warmup
    BY <1>f DEF Base
  <2>5. num_requests > 0
    BY <1>n, <2>1, <2>2, <2>3, <2>4 DEF NumberFacts
  <2>6. util_requests > 1
    BY <1>0, <1>f, <2>5 DEF Asked
  <2> QED
    BY <1>0, <1>f, <1>u, <2>1, <2>6 DEF Honest
<1> QED
  BY <1>1, <1>2, <1>3, <1>4, <1>5, <1>6, <1>7, <1>8, <1>9 DEF IInv

\* The cost is divided by the samples asked for, but for one.
LEMMA ComputeQueryCostKeeps ==
    ASSUME IInv, ComputeQueryCost
    PROVE  IInv'
<1>0. /\ TypeOK /\ Account /\ OnePlace /\ Sending /\ Asked /\ Clock
      /\ Filing /\ Tickets /\ Honest
  BY DEF IInv
<1>n. NumberFacts
  BY Numbers
<1>f. /\ process /\ phase = "run" /\ mpc = "cost" /\ phase' = "kill" /\ mpc' = "loop"
      /\ cost' = [of |-> utilAdded, by |-> util_requests - 1, qps |-> achieved]
  BY DEF ComputeQueryCost
<1>u. UNCHANGED <<curr_time, next_time, asksUtil, num_requests, util_requests, issued,
                  achieved, printed, rpc, reply, start, kill_ack, first_req_flag,
                  timing_info, utilAdded, responses_recvd, calls, completed, server,
                  resp_times, process>>
  BY DEF ComputeQueryCost, vars, mainVars, readerVars, statVars, rpcVars, clock
<1>1. TypeOK'
  <2>1. /\ utilAdded \in 0 .. MaxCalls /\ achieved \in 0 .. MaxCalls
        /\ util_requests > 1
    BY <1>0, <1>f DEF TypeOK, Honest
  <2>2. util_requests - 1 \in 0 .. MaxCalls
    BY <1>n, <2>1 DEF NumberFacts
  <2>3. cost' \in [of : 0 .. MaxCalls, by : 0 .. MaxCalls, qps : 0 .. MaxCalls]
    BY <1>f, <2>1, <2>2
  <2> QED
    BY <1>0, <1>f, <1>u, <2>3 DEF TypeOK
<1>2. Account'
  BY <1>0, <1>f, <1>u DEF Account, Base, Busy
<1>3. OnePlace'
  BY <1>0, <1>u DEF OnePlace
<1>4. Sending'
  BY <1>0, <1>n, <1>f, <1>u DEF NumberFacts, Sending, Pending
<1>5. Asked'
  BY <1>0, <1>f, <1>u DEF Asked, Base
<1>6. Clock'
  BY <1>f DEF Clock
<1>7. Filing'
  BY <1>0, <1>f, <1>u DEF Filing, Filed
<1>8. Tickets'
  BY <1>f DEF Tickets
<1>9. Honest'
  <2>1. util_requests > 1
    BY <1>0, <1>f DEF Honest
  <2>2. cost'.by > 0 /\ cost'.qps = achieved'
    BY <1>n, <1>f, <1>u, <2>1 DEF NumberFacts
  <2> QED
    BY <1>0, <1>f, <1>u, <2>2 DEF Honest
<1> QED
  BY <1>1, <1>2, <1>3, <1>4, <1>5, <1>6, <1>7, <1>8, <1>9 DEF IInv

\* A kill request follows.
LEMMA KillWaitKeeps ==
    ASSUME IInv, KillWait
    PROVE  IInv'
<1>0. /\ TypeOK /\ Account /\ OnePlace /\ Sending /\ Asked /\ Clock
      /\ Filing /\ Tickets /\ Honest
  BY DEF IInv
<1>n. NumberFacts
  BY Numbers
<1>f. /\ process /\ phase = "kill" /\ mpc = "loop" /\ mpc' = "kill"
      /\ issued < MaxCalls
  BY DEF KillWait, MainAt, MaxCalls
<1>u. UNCHANGED <<phase, curr_time, next_time, asksUtil, num_requests, util_requests,
                  issued, achieved, printed, cost, rpc, reply, start, kill_ack,
                  first_req_flag, timing_info, utilAdded, responses_recvd, calls,
                  completed, server, resp_times, process>>
  BY DEF KillWait, MainAt, MaxCalls, vars, mainVars, readerVars, statVars, rpcVars, clock
<1>1. TypeOK'
  BY <1>0, <1>f, <1>u DEF TypeOK
<1>2. Account'
  BY <1>0, <1>u DEF Account, Base, Busy
<1>3. OnePlace'
  BY <1>0, <1>u DEF OnePlace
<1>4. Sending'
  BY <1>0, <1>n, <1>f, <1>u DEF NumberFacts, Sending, Pending
<1>5. Asked'
  BY <1>0, <1>u DEF Asked, Base
<1>6. Clock'
  BY <1>0, <1>f, <1>u DEF Clock
<1>7. Filing'
  BY <1>0, <1>f, <1>u DEF Filing, Filed
<1>8. Tickets'
  BY <1>0, <1>u DEF Tickets, Ticket, Base
<1>9. Honest'
  BY <1>0, <1>f, <1>u DEF Honest
<1> QED
  BY <1>1, <1>2, <1>3, <1>4, <1>5, <1>6, <1>7, <1>8, <1>9 DEF IInv


-----------------------------------------------------------------------------
\* What starting an RPC does to the account: a new call, with the next number.
LEMMA StartAdds ==
    ASSUME IInv, NEW kind \in Kinds, NEW util \in BOOLEAN, Start(kind, util),
           issued < MaxCalls, Base' = Base, UNCHANGED rpc
    PROVE  /\ issued' \in 0 .. MaxCalls
           /\ calls' \subseteq CallType
           /\ resp_times' \in [Ids -> 0 .. MaxCalls]
           /\ Account'
           /\ OnePlace'
<1>0. TypeOK /\ Account /\ OnePlace
  BY DEF IInv
<1>n. NumberFacts
  BY Numbers
<1> DEFINE new == Call(issued + 1, num_requests, util, kind)
<1>f. /\ issued' = issued + 1
      /\ resp_times' = [resp_times EXCEPT ![num_requests] = issued + 1]
      /\ calls' = calls \cup {new}
  BY DEF Start
<1>u. UNCHANGED <<reply, responses_recvd, completed>>
  BY DEF Start, readerVars, statVars
<1>1. issued' \in 0 .. MaxCalls /\ issued + 1 \in 0 .. MaxCalls
  BY <1>n, <1>f DEF NumberFacts
<1>2. new \in CallType /\ new.n = issued + 1
  BY <1>n, <1>1 DEF CallType, Call, NumberFacts
<1> HIDE DEF new
<1>3. calls' \subseteq CallType
  BY <1>0, <1>f, <1>2 DEF TypeOK
<1>4. resp_times' \in [Ids -> 0 .. MaxCalls]
  BY <1>0, <1>1, <1>f DEF TypeOK
<1>5. new \notin calls
  <2>1. \A c \in calls : c.n <= issued
    BY <1>0 DEF OnePlace
  <2>2. issued \in Nat
    BY <1>n DEF NumberFacts
  <2>3. ~(new.n <= issued)
    BY <1>2, <2>2
  <2> QED
    BY <2>1, <2>3
<1>6. Account'
  <2>1. IsFiniteSet(calls') /\ Cardinality(calls') = Cardinality(calls) + 1
    BY <1>0, <1>f, <1>5, FS_AddElement DEF Account
  <2>2. IsFiniteSet(completed') /\ Cardinality(completed') = Cardinality(completed)
    BY <1>0, <1>u DEF Account
  <2>3. Busy' = Busy
    BY DEF Busy
  <2>4. issued' = Base' + responses_recvd' + Cardinality(calls') + Cardinality(completed') + Busy'
    BY <1>n, <1>f, <1>u, <2>1, <2>2, <2>3 DEF NumberFacts
  <2> QED
    BY <2>1, <2>2, <2>4 DEF Account
<1>7. OnePlace'
  <2>1. /\ \A c \in calls : c.n \in Nat /\ c.n <= issued
        /\ \A d \in completed : d.call.n \in Nat /\ d.call.n <= issued
        /\ reply.n \in Nat
    BY <1>0 DEF OnePlace, TypeOK, CallType
  <2>2. issued \in Nat
    BY <1>n DEF NumberFacts
  <2>3. \A c \in calls' : c.n <= issued'
    BY <1>f, <1>2, <2>1, <2>2
  <2>4. \A d \in completed' : d.call.n <= issued'
    BY <1>f, <1>u, <2>1, <2>2
  <2>5. \A c1, c2 \in calls' : c1.n = c2.n => c1 = c2
    <3>1. \A c \in calls : c.n # new.n
      BY <1>2, <2>1, <2>2
    <3> QED
      BY <1>0, <1>f, <3>1 DEF OnePlace
  <2>6. \A c \in calls', d \in completed' : c.n # d.call.n
    <3>1. \A d \in completed : d.call.n # new.n
      BY <1>2, <2>1, <2>2
    <3> QED
      BY <1>0, <1>f, <1>u, <3>1 DEF OnePlace
  <2>7. ASSUME rpc' # "next"
        PROVE  reply'.n <= issued' /\ \A c \in calls' : c.n # reply'.n
    <3>1. reply.n <= issued /\ \A c \in calls : c.n # reply.n
      BY <1>0, <2>7 DEF OnePlace
    <3>2. new.n # reply.n /\ reply.n <= issued + 1
      BY <1>2, <2>1, <2>2, <3>1
    <3> QED
      BY <1>f, <1>u, <3>1, <3>2
  <2> QED
    BY <1>0, <1>u, <2>3, <2>4, <2>5, <2>6, <2>7 DEF OnePlace
<1> QED
  BY <1>1, <1>3, <1>4, <1>6, <1>7

\* The counted request is sent, and its start is remembered under its id.
LEMMA IssueKeeps ==
    ASSUME IInv, Issue
    PROVE  IInv'
<1>0. /\ TypeOK /\ Account /\ OnePlace /\ Sending /\ Asked /\ Clock
      /\ Filing /\ Tickets /\ Honest
  BY DEF IInv
<1>n. NumberFacts
  BY Numbers
<1>f. /\ process /\ phase \in {"warmup", "run"} /\ mpc = "issue" /\ mpc' = "loop"
      /\ next_time' = IF phase = "run" THEN curr_time + Interval ELSE next_time
      /\ asksUtil' = FALSE /\ issued' = issued + 1
      /\ resp_times' = [resp_times EXCEPT ![num_requests] = issued + 1]
      /\ calls' = calls \cup {Call(issued + 1, num_requests, asksUtil, phase)}
  BY DEF Issue, MainAt, Start
<1>u. UNCHANGED <<phase, curr_time, num_requests, util_requests, achieved, printed,
                  cost, rpc, reply, start, kill_ack, first_req_flag, timing_info,
                  utilAdded, responses_recvd, completed, server, process>>
  BY DEF Issue, MainAt, Start, vars, mainVars, readerVars, statVars, rpcVars, clock
<1>p. /\ Base' = Base
      /\ issued + 1 = Base + num_requests /\ num_requests > 0
      /\ num_requests <= Warmup \/ num_requests <= MaxRun
      /\ issued < MaxCalls
  <2>1. Base' = Base /\ Pending = 1
    BY <1>f, <1>u DEF Base, Pending
  <2>2. issued + 1 = Base + num_requests
    BY <1>0, <1>n, <1>f, <2>1 DEF Sending, NumberFacts
  <2>3. num_requests > 0
    BY <1>0, <1>n, <2>1 DEF Sending, NumberFacts
  <2>4. \/ Base = 0 /\ num_requests <= Warmup
        \/ Base = Warmup /\ num_requests <= MaxRun
    <3>1. CASE phase = "warmup"
      <4>1. num_requests <= Warmup
        BY <1>0, <3>1 DEF Sending
      <4>2. Base = 0
        BY <1>n, <3>1 DEF NumberFacts
      <4> QED
        BY <1>n, <3>1, <4>1, <4>2 DEF NumberFacts
    <3>2. CASE phase = "run"
      BY <1>0, <1>n, <3>2 DEF Sending, NumberFacts
    <3> QED
      BY <1>f, <3>1, <3>2
  <2>5. issued < MaxCalls
    BY <1>n, <2>2, <2>4 DEF NumberFacts
  <2> QED
    BY <2>1, <2>2, <2>3, <2>4, <2>5
<1>s. /\ issued' \in 0 .. MaxCalls /\ calls' \subseteq CallType
      /\ resp_times' \in [Ids -> 0 .. MaxCalls] /\ Account' /\ OnePlace'
  <2>1. Start(phase, asksUtil)
    BY DEF Issue, MainAt
  <2>2. phase \in Kinds /\ asksUtil \in BOOLEAN
    BY <1>0, <1>f DEF TypeOK, Kinds
  <2> QED
    BY <1>u, <1>p, <2>1, <2>2, StartAdds
<1>1. TypeOK'
  <2>1. next_time' \in Nat
    BY <1>n, <1>f DEF NumberFacts
  <2> QED
    BY <1>0, <1>f, <1>u, <1>s, <2>1 DEF TypeOK
<1>2. Account'
  BY <1>s
<1>3. OnePlace'
  BY <1>s
<1>4. Sending'
  BY <1>0, <1>n, <1>f, <1>u, <1>p DEF Sending, Pending, NumberFacts
<1>5. Asked'
  BY <1>0, <1>u DEF Asked, Base
<1>6. Clock'
  <2>1. CASE phase = "warmup"
    BY <1>0, <1>f, <1>u, <2>1 DEF Clock
  <2>2. CASE phase = "run"
    <3>1. num_requests * Interval <= curr_time /\ num_requests * Interval \in Nat
          /\ (num_requests + 1) * Interval = num_requests * Interval + Interval
      BY <1>0, <1>n, <2>2, Intervals DEF Clock, NumberFacts
    <3>2. next_time' = curr_time + Interval
      BY <1>f, <2>2
    <3>3. (num_requests + 1) * Interval <= next_time' /\ curr_time < next_time'
          /\ next_time' <= curr_time + Interval
      BY <1>n, <3>1, <3>2 DEF NumberFacts
    <3> QED
      BY <1>f, <1>u, <2>2, <3>1, <3>3 DEF Clock
  <2> QED
    BY <1>f, <2>1, <2>2
<1>7. Filing'
  BY <1>0, <1>f, <1>u DEF Filing, Filed
<1>8. Tickets'
  <2>0. PICK new : new = Call(issued + 1, num_requests, asksUtil, phase)
    OBVIOUS
  <2>1. issued + 1 = Base + num_requests /\ num_requests > 0
    BY <1>n, <1>p DEF NumberFacts
  <2>2. /\ new.kind = phase /\ new.n = issued + 1 /\ new.id = num_requests
        /\ calls' = calls \cup {new} /\ UNCHANGED phase
    BY <1>f, <1>u, <2>0 DEF Call
  <2>3. num_requests \in Ids /\ DOMAIN resp_times = Ids
    BY <1>0, <1>n DEF TypeOK, NumberFacts
  <2>4. Ticket(new)'
    BY <1>f, <1>p, <2>1, <2>2, <2>3 DEF Ticket
  <2>5. ASSUME NEW c \in CallType, Ticket(c), c.n <= issued
        PROVE  Ticket(c)'
    <3>1. c.id \in Ids /\ c.n = Base + c.id /\ c.kind = phase /\ c.id > 0
          /\ resp_times[c.id] = c.n
      BY <2>5 DEF CallType, Ticket
    <3>2. c.id \in Nat
      BY <1>n, <3>1 DEF Ids, NumberFacts
    <3>3. c.id # num_requests
      BY <1>n, <2>1, <2>5, <3>1, <3>2 DEF NumberFacts
    <3> QED
      BY <1>f, <1>p, <2>2, <2>3, <3>1, <3>3 DEF Ticket
  <2>6. /\ \A c \in calls : c \in CallType /\ Ticket(c) /\ c.n <= issued
        /\ \A d \in completed : d.call \in CallType /\ Ticket(d.call) /\ d.call.n <= issued
        /\ rpc \in {"init", "measure"} => reply \in CallType /\ Ticket(reply) /\ reply.n <= issued
    BY <1>0, <1>f DEF TypeOK, OnePlace, Tickets
  <2>7. \A c \in calls' : Ticket(c)'
    <3> SUFFICES ASSUME NEW c \in calls' PROVE Ticket(c)'
      OBVIOUS
    <3>1. CASE c = new
      BY <2>4, <3>1 DEF Ticket
    <3>2. CASE c \in calls
      BY <2>5, <2>6, <3>2
    <3> QED
      BY <2>2, <3>1, <3>2
  <2>8. \A d \in completed' : Ticket(d.call)'
    BY <1>u, <2>5, <2>6
  <2>9. rpc' \in {"init", "measure"} => Ticket(reply)'
    BY <1>u, <2>5, <2>6 DEF Ticket
  <2> QED
    BY <1>0, <1>f, <1>u, <2>7, <2>8, <2>9 DEF Tickets
<1>9. Honest'
  BY <1>0, <1>f, <1>u DEF Honest
<1> QED
  BY <1>1, <1>2, <1>3, <1>4, <1>5, <1>6, <1>7, <1>8, <1>9 DEF IInv

\* A kill request goes out under the id of the last request.
LEMMA SendKillKeeps ==
    ASSUME IInv, SendKill
    PROVE  IInv'
<1>0. /\ TypeOK /\ Account /\ OnePlace /\ Sending /\ Asked /\ Clock
      /\ Filing /\ Tickets /\ Honest
  BY DEF IInv
<1>n. NumberFacts
  BY Numbers
<1>f. /\ process /\ phase = "kill" /\ mpc = "kill" /\ mpc' = "loop"
      /\ issued' = issued + 1
  BY DEF SendKill, MainAt, Start
<1>u. UNCHANGED <<phase, curr_time, next_time, asksUtil, num_requests, util_requests,
                  achieved, printed, cost, rpc, reply, start, kill_ack, first_req_flag,
                  timing_info, utilAdded, responses_recvd, completed, server, process>>
  BY DEF SendKill, MainAt, Start, vars, mainVars, readerVars, statVars, rpcVars, clock
<1>s. /\ issued' \in 0 .. MaxCalls /\ calls' \subseteq CallType
      /\ resp_times' \in [Ids -> 0 .. MaxCalls] /\ Account' /\ OnePlace'
  <2>1. Start("kill", FALSE)
    BY DEF SendKill
  <2>2. "kill" \in Kinds /\ FALSE \in BOOLEAN
    BY DEF Kinds
  <2>3. issued < MaxCalls
    BY <1>0, <1>f DEF Sending
  <2>4. Base' = Base
    BY <1>u DEF Base
  <2> QED
    BY <1>u, <2>1, <2>2, <2>3, <2>4, StartAdds
<1>1. TypeOK'
  BY <1>0, <1>f, <1>u, <1>s DEF TypeOK
<1>2. Account'
  BY <1>s
<1>3. OnePlace'
  BY <1>s
<1>4. Sending'
  BY <1>0, <1>n, <1>f, <1>u DEF NumberFacts, Sending, Pending
<1>5. Asked'
  BY <1>0, <1>u DEF Asked, Base
<1>6. Clock'
  BY <1>f, <1>u DEF Clock
<1>7. Filing'
  BY <1>0, <1>f, <1>u DEF Filing, Filed
<1>8. Tickets'
  BY <1>f, <1>u DEF Tickets
<1>9. Honest'
  BY <1>0, <1>f, <1>u DEF Honest
<1> QED
  BY <1>1, <1>2, <1>3, <1>4, <1>5, <1>6, <1>7, <1>8, <1>9 DEF IInv


-----------------------------------------------------------------------------
\* A step of the reader with one reply leaves the account as it is.
LEMMA ReaderAccount ==
    ASSUME IInv, Busy' = Busy, UNCHANGED <<phase, responses_recvd, calls, completed, issued>>
    PROVE  Account'
BY DEF IInv, Account, Base

\* The reader takes a call from cq_: it is still in one place.
LEMMA TakeKeeps ==
    ASSUME IInv, Take
    PROVE  IInv'
<1>0. /\ TypeOK /\ Account /\ OnePlace /\ Sending /\ Asked /\ Clock
      /\ Filing /\ Tickets /\ Honest
  BY DEF IInv
<1>n. NumberFacts
  BY Numbers
<1>d. PICK d \in completed :
          /\ rpc = "next" /\ rpc' \in {"init", "failed"}
          /\ reply' = d.call
          /\ completed' = completed \ {d}
          /\ kill_ack' = (kill_ack \/ (d.ok /\ d.call.kind = "kill"))
  BY DEF Take, ReaderAt
<1>u. UNCHANGED <<phase, mpc, curr_time, next_time, asksUtil, num_requests,
                  util_requests, issued, achieved, printed, cost, start, first_req_flag,
                  timing_info, utilAdded, responses_recvd, calls, server, resp_times,
                  process>>
  BY DEF Take, vars, mainVars, readerVars, statVars, rpcVars, clock
<1>1. TypeOK'
  <2>1. d \in [call : CallType, ok : BOOLEAN]
    BY <1>0 DEF TypeOK
  <2>2. reply' \in CallType /\ completed' \subseteq [call : CallType, ok : BOOLEAN]
    BY <1>0, <1>d, <2>1 DEF TypeOK
  <2>3. kill_ack' \in BOOLEAN
    BY <1>0, <1>d, <2>1 DEF TypeOK
  <2> QED
    BY <1>0, <1>d, <1>u, <2>2, <2>3 DEF TypeOK
<1>2. Account'
  <2>1. IsFiniteSet(completed') /\ Cardinality(completed') = Cardinality(completed) - 1
    BY <1>0, <1>d, FS_RemoveElement DEF Account
  <2>2. IsFiniteSet(calls') /\ Cardinality(calls') = Cardinality(calls)
    BY <1>0, <1>u DEF Account
  <2>3. Busy = 0 /\ Busy' = 1 /\ Base' = Base
    BY <1>d, <1>u DEF Busy, Base
  <2>4. issued' = Base' + responses_recvd' + Cardinality(calls') + Cardinality(completed') + Busy'
    BY <1>n, <1>u, <2>1, <2>2, <2>3 DEF NumberFacts
  <2> QED
    BY <2>1, <2>2, <2>4 DEF Account
<1>3. OnePlace'
  BY <1>0, <1>d, <1>u DEF OnePlace
<1>4. Sending'
  BY <1>0, <1>u DEF Sending, Pending
<1>5. Asked'
  BY <1>0, <1>u DEF Asked, Base
<1>6. Clock'
  BY <1>0, <1>u DEF Clock
<1>7. Filing'
  BY <1>0, <1>d, <1>u DEF Filing, Filed
<1>8. Tickets'
  BY <1>0, <1>d, <1>u DEF Tickets, Ticket, Base
<1>9. Honest'
  BY <1>0, <1>u DEF Honest
<1> QED
  BY <1>1, <1>2, <1>3, <1>4, <1>5, <1>6, <1>7, <1>8, <1>9 DEF IInv

\* The arrays for the utilisation are there after the first reply.
LEMMA FirstReplyKeeps ==
    ASSUME IInv, FirstReply
    PROVE  IInv'
<1>0. /\ TypeOK /\ Account /\ OnePlace /\ Sending /\ Asked /\ Clock
      /\ Filing /\ Tickets /\ Honest
  BY DEF IInv
<1>n. NumberFacts
  BY Numbers
<1>f. /\ rpc = "init" /\ rpc' = "measure"
      /\ first_req_flag' = (first_req_flag \/ util_requests = 1)
  BY DEF FirstReply, ReaderAt
<1>u. UNCHANGED <<phase, mpc, curr_time, next_time, asksUtil, num_requests,
                  util_requests, issued, achieved, printed, cost, reply, start,
                  kill_ack, timing_info, utilAdded, responses_recvd, calls, completed,
                  server, resp_times, process>>
  BY DEF FirstReply, ReaderAt, vars, mainVars, readerVars, statVars, rpcVars, clock
<1>1. TypeOK'
  BY <1>0, <1>f, <1>u DEF TypeOK
<1>2. Account'
  BY <1>f, <1>u, ReaderAccount DEF Busy
<1>3. OnePlace'
  BY <1>0, <1>f, <1>u DEF OnePlace
<1>4. Sending'
  BY <1>0, <1>u DEF Sending, Pending
<1>5. Asked'
  BY <1>0, <1>u DEF Asked, Base
<1>6. Clock'
  BY <1>0, <1>u DEF Clock
<1>7. Filing'
  BY <1>0, <1>f, <1>u DEF Filing, Filed
<1>8. Tickets'
  BY <1>0, <1>f, <1>u DEF Tickets, Ticket, Base
<1>9. Honest'
  BY <1>0, <1>u DEF Honest
<1> QED
  BY <1>1, <1>2, <1>3, <1>4, <1>5, <1>6, <1>7, <1>8, <1>9 DEF IInv

\* The latency is measured from the start of the call's own request, which no other request
\* has overwritten, or the lookup raced.
LEMMA MeasureKeeps ==
    ASSUME IInv, Measure
    PROVE  IInv'
<1>0. /\ TypeOK /\ Account /\ OnePlace /\ Sending /\ Asked /\ Clock
      /\ Filing /\ Tickets /\ Honest
  BY DEF IInv
<1>n. NumberFacts
  BY Numbers
<1>f. /\ rpc = "measure" /\ rpc' = "unpack"
      /\ \/ start' = IF resp_times[ReplyId(reply)] = reply.n THEN "own" ELSE "other"
         \/ start' = "missed"
      /\ resp_times' = [resp_times EXCEPT ![ReplyId(reply)] = 0]
  BY DEF Measure, ReaderAt
<1>u. UNCHANGED <<phase, mpc, curr_time, next_time, asksUtil, num_requests,
                  util_requests, issued, achieved, printed, cost, reply, kill_ack,
                  first_req_flag, timing_info, utilAdded, responses_recvd, calls,
                  completed, server, process>>
  BY DEF Measure, ReaderAt, vars, mainVars, readerVars, statVars, rpcVars, clock
<1>1. TypeOK'
  <2>1. start' \in Starts
    BY <1>f DEF Starts
  <2>2. resp_times' \in [Ids -> 0 .. MaxCalls]
    <3>1. 0 \in 0 .. MaxCalls
      BY <1>n DEF NumberFacts
    <3> QED
      BY <1>0, <1>f, <3>1 DEF TypeOK
  <2> QED
    BY <1>0, <1>f, <1>u, <2>1, <2>2 DEF TypeOK
<1>2. Account'
  BY <1>f, <1>u, ReaderAccount DEF Busy
<1>3. OnePlace'
  BY <1>0, <1>f, <1>u DEF OnePlace
<1>4. Sending'
  BY <1>0, <1>u DEF Sending, Pending
<1>5. Asked'
  BY <1>0, <1>u DEF Asked, Base
<1>6. Clock'
  BY <1>0, <1>u DEF Clock
<1>7. Filing'
  BY <1>0, <1>f, <1>u DEF Filing, Filed
<1>8. Tickets'
  <2> SUFFICES ASSUME phase # "kill" PROVE Tickets'
    BY <1>u DEF Tickets
  <2>1. Ticket(reply)
    BY <1>0, <1>f DEF Tickets
  <2>2. ReplyId(reply) = reply.id /\ reply.n = Base + reply.id /\ resp_times[reply.id] = reply.n
        /\ reply.kind = phase
    BY <2>1 DEF Ticket, ReplyId
  <2>3. start' # "other"
    BY <1>f, <2>2
  <2>4. ASSUME NEW c, Ticket(c), c.n # reply.n
        PROVE  Ticket(c)'
    <3>1. c.id # reply.id
      BY <2>2, <2>4 DEF Ticket
    <3> QED
      BY <1>0, <1>f, <1>u, <2>2, <2>4, <3>1 DEF Ticket, Base, TypeOK
  <2>5. /\ \A c \in calls : Ticket(c) /\ c.n # reply.n
        /\ \A d \in completed : Ticket(d.call) /\ d.call.n # reply.n
    BY <1>0, <1>f DEF Tickets, OnePlace
  <2>6. \A c \in calls' : Ticket(c)'
    BY <1>u, <2>4, <2>5
  <2>7. \A d \in completed' : Ticket(d.call)'
    BY <1>u, <2>4, <2>5
  <2> QED
    BY <1>f, <1>u, <2>2, <2>3, <2>6, <2>7 DEF Tickets
<1>9. Honest'
  BY <1>0, <1>u DEF Honest
<1> QED
  BY <1>1, <1>2, <1>3, <1>4, <1>5, <1>6, <1>7, <1>8, <1>9 DEF IInv

\* The reply is read, if that does not end the process.
LEMMA UnpackKeeps ==
    ASSUME IInv, Unpack
    PROVE  IInv'
<1>0. /\ TypeOK /\ Account /\ OnePlace /\ Sending /\ Asked /\ Clock
      /\ Filing /\ Tickets /\ Honest
  BY DEF IInv
<1>n. NumberFacts
  BY Numbers
<1>f. /\ rpc = "unpack" /\ rpc' = "push"
      /\ process' \in BOOLEAN
  BY DEF Unpack, ReaderAt
<1>u. UNCHANGED <<phase, mpc, curr_time, next_time, asksUtil, num_requests,
                  util_requests, issued, achieved, printed, cost, reply, start,
                  kill_ack, first_req_flag, timing_info, utilAdded, responses_recvd,
                  calls, completed, server, resp_times>>
  BY DEF Unpack, ReaderAt, vars, mainVars, readerVars, statVars, rpcVars, clock
<1>1. TypeOK'
  BY <1>0, <1>f, <1>u DEF TypeOK
<1>2. Account'
  BY <1>f, <1>u, ReaderAccount DEF Busy
<1>3. OnePlace'
  BY <1>0, <1>f, <1>u DEF OnePlace
<1>4. Sending'
  BY <1>0, <1>u DEF Sending, Pending
<1>5. Asked'
  BY <1>0, <1>u DEF Asked, Base
<1>6. Clock'
  BY <1>0, <1>u DEF Clock
<1>7. Filing'
  BY <1>0, <1>f, <1>u DEF Filing, Filed
<1>8. Tickets'
  BY <1>0, <1>f, <1>u DEF Tickets, Ticket, Base
<1>9. Honest'
  BY <1>0, <1>u DEF Honest
<1> QED
  BY <1>1, <1>2, <1>3, <1>4, <1>5, <1>6, <1>7, <1>8, <1>9 DEF IInv

\* The latency is filed: of this phase, and from its own start.
LEMMA PushKeeps ==
    ASSUME IInv, Push
    PROVE  IInv'
<1>0. /\ TypeOK /\ Account /\ OnePlace /\ Sending /\ Asked /\ Clock
      /\ Filing /\ Tickets /\ Honest
  BY DEF IInv
<1>n. NumberFacts
  BY Numbers
<1>f. /\ rpc = "push" /\ rpc' = "util"
      /\ timing_info' = Append(timing_info, [kind |-> reply.kind, start |-> start])
  BY DEF Push, ReaderAt
<1>u. UNCHANGED <<phase, mpc, curr_time, next_time, asksUtil, num_requests,
                  util_requests, issued, achieved, printed, cost, reply, start,
                  kill_ack, first_req_flag, utilAdded, responses_recvd, calls,
                  completed, server, resp_times, process>>
  BY DEF Push, ReaderAt, vars, mainVars, readerVars, statVars, rpcVars, clock
<1>a. /\ timing_info' \in Seq([kind : Kinds, start : Starts])
      /\ Len(timing_info') = Len(timing_info) + 1
      /\ \A i \in 1 .. Len(timing_info) : timing_info'[i] = timing_info[i]
      /\ timing_info'[Len(timing_info) + 1] = [kind |-> reply.kind, start |-> start]
  <2>1. timing_info \in Seq([kind : Kinds, start : Starts])
        /\ [kind |-> reply.kind, start |-> start] \in [kind : Kinds, start : Starts]
    BY <1>0 DEF TypeOK, CallType
  <2> QED
    BY <1>f, <2>1, AppendProperties
<1>1. TypeOK'
  BY <1>0, <1>f, <1>u, <1>a DEF TypeOK
<1>2. Account'
  BY <1>f, <1>u, ReaderAccount DEF Busy
<1>3. OnePlace'
  BY <1>0, <1>f, <1>u DEF OnePlace
<1>4. Sending'
  BY <1>0, <1>u DEF Sending, Pending
<1>5. Asked'
  BY <1>0, <1>u DEF Asked, Base
<1>6. Clock'
  BY <1>0, <1>u DEF Clock
<1>7. Filing'
  <2>1. mpc # "reset"
    <3>1. mpc = "reset" => phase = "warmup"
      BY <1>0 DEF Sending, TypeOK
    <3> QED
      BY <1>f, <3>1, Quiet
  <2>2. Len(timing_info) = responses_recvd + 0 /\ utilAdded <= Len(timing_info)
    BY <1>0, <1>f, <2>1 DEF Filing, Filed
  <2>3. Len(timing_info') = responses_recvd' + 1 /\ utilAdded' < Len(timing_info')
    BY <1>n, <1>u, <1>a, <2>2 DEF NumberFacts
  <2> QED
    BY <1>f, <1>u, <2>1, <2>3 DEF Filing, Filed
<1>8. Tickets'
  BY <1>0, <1>f, <1>u DEF Tickets, Ticket, Base
<1>9. Honest'
  <2>1. Len(timing_info) \in Nat /\ achieved \in Nat
    BY <1>n DEF NumberFacts
  <2>2. achieved <= Len(timing_info) => achieved <= Len(timing_info')
    BY <1>a, <2>1
  <2>3. timing_info' # <<>>
    BY <1>a, <2>1
  <2>4. phase = "run" => OfRun(timing_info')
    <3> SUFFICES ASSUME phase = "run", NEW i \in 1 .. Len(timing_info')
                 PROVE  timing_info'[i].kind = "run" /\ timing_info'[i].start # "other"
      BY DEF OfRun
    <3>1. CASE i \in 1 .. Len(timing_info)
      BY <1>0, <1>a, <3>1 DEF Honest, OfRun
    <3>2. CASE i = Len(timing_info) + 1
      BY <1>0, <1>f, <1>a, <3>2 DEF Tickets
    <3> QED
      BY <1>a, <2>1, <3>1, <3>2
  <2> QED
    BY <1>0, <1>u, <2>2, <2>3, <2>4 DEF Honest
<1> QED
  BY <1>1, <1>2, <1>3, <1>4, <1>5, <1>6, <1>7, <1>8, <1>9 DEF IInv

\* A sample is added for a reply that is filed.
LEMMA AddUtilKeeps ==
    ASSUME IInv, AddUtil
    PROVE  IInv'
<1>0. /\ TypeOK /\ Account /\ OnePlace /\ Sending /\ Asked /\ Clock
      /\ Filing /\ Tickets /\ Honest
  BY DEF IInv
<1>n. NumberFacts
  BY Numbers
<1>f. /\ rpc = "util" /\ rpc' = "count"
      /\ utilAdded' = IF util_requests # 1 /\ reply.util THEN utilAdded + 1 ELSE utilAdded
  BY DEF AddUtil, ReaderAt
<1>u. UNCHANGED <<phase, mpc, curr_time, next_time, asksUtil, num_requests,
                  util_requests, issued, achieved, printed, cost, reply, start,
                  kill_ack, first_req_flag, timing_info, responses_recvd, calls,
                  completed, server, resp_times, process>>
  BY DEF AddUtil, ReaderAt, vars, mainVars, readerVars, statVars, rpcVars, clock
<1>g. mpc # "reset" /\ Len(timing_info) = responses_recvd + Filed /\ utilAdded < Len(timing_info)
  <2>1. mpc = "reset" => phase = "warmup"
    BY <1>0 DEF Sending, TypeOK
  <2>2. mpc # "reset"
    BY <1>f, <2>1, Quiet
  <2> QED
    BY <1>0, <1>f, <2>2 DEF Filing
<1>1. TypeOK'
  <2>1. utilAdded' \in 0 .. MaxCalls
    <3>1. Len(timing_info) <= MaxCalls
      BY <1>n, <1>g DEF NumberFacts
    <3> QED
      BY <1>n, <1>f, <1>g, <3>1 DEF NumberFacts
  <2> QED
    BY <1>0, <1>f, <1>u, <2>1 DEF TypeOK
<1>2. Account'
  BY <1>f, <1>u, ReaderAccount DEF Busy
<1>3. OnePlace'
  BY <1>0, <1>f, <1>u DEF OnePlace
<1>4. Sending'
  BY <1>0, <1>u DEF Sending, Pending
<1>5. Asked'
  BY <1>0, <1>u DEF Asked, Base
<1>6. Clock'
  BY <1>0, <1>u DEF Clock
<1>7. Filing'
  <2>1. utilAdded' <= Len(timing_info')
    BY <1>n, <1>f, <1>u, <1>g DEF NumberFacts
  <2> QED
    BY <1>0, <1>f, <1>u, <1>g, <2>1 DEF Filing, Filed
<1>8. Tickets'
  BY <1>0, <1>f, <1>u DEF Tickets, Ticket, Base
<1>9. Honest'
  BY <1>0, <1>u DEF Honest
<1> QED
  BY <1>1, <1>2, <1>3, <1>4, <1>5, <1>6, <1>7, <1>8, <1>9 DEF IInv

\* The reply is counted, and nowhere else any more.
LEMMA CountReplyKeeps ==
    ASSUME IInv, CountReply
    PROVE  IInv'
<1>0. /\ TypeOK /\ Account /\ OnePlace /\ Sending /\ Asked /\ Clock
      /\ Filing /\ Tickets /\ Honest
  BY DEF IInv
<1>n. NumberFacts
  BY Numbers
<1>f. /\ rpc = "count" /\ rpc' = "next"
      /\ responses_recvd' = responses_recvd + 1
      /\ reply' = NoCall
  BY DEF CountReply, ReaderAt
<1>u. UNCHANGED <<phase, mpc, curr_time, next_time, asksUtil, num_requests,
                  util_requests, issued, achieved, printed, cost, start, kill_ack,
                  first_req_flag, timing_info, utilAdded, calls, completed, server,
                  resp_times, process>>
  BY DEF CountReply, ReaderAt, vars, mainVars, readerVars, statVars, rpcVars, clock
<1>1. TypeOK'
  <2>1. Busy = 1
    BY <1>f DEF Busy
  <2>2. responses_recvd' \in 0 .. MaxCalls
    BY <1>n, <1>f, <2>1 DEF NumberFacts
  <2>3. reply' \in CallType
    BY <1>n, <1>f DEF NoCall, Call, CallType, Kinds, Ids, NumberFacts
  <2> QED
    BY <1>0, <1>f, <1>u, <2>2, <2>3 DEF TypeOK
<1>2. Account'
  <2>1. Busy = 1 /\ Busy' = 0 /\ Base' = Base
    BY <1>f, <1>u DEF Busy, Base
  <2>2. Cardinality(calls') = Cardinality(calls) /\ Cardinality(completed') = Cardinality(completed)
    BY <1>u
  <2>3. issued' = Base' + responses_recvd' + Cardinality(calls') + Cardinality(completed') + Busy'
    BY <1>n, <1>f, <1>u, <2>1, <2>2 DEF NumberFacts
  <2> QED
    BY <1>0, <1>u, <2>3 DEF Account
<1>3. OnePlace'
  BY <1>0, <1>f, <1>u DEF OnePlace
<1>4. Sending'
  BY <1>0, <1>n, <1>f, <1>u DEF NumberFacts, Sending, Pending
<1>5. Asked'
  BY <1>0, <1>u DEF Asked, Base
<1>6. Clock'
  BY <1>0, <1>u DEF Clock
<1>7. Filing'
  <2>1. mpc = "reset" => phase = "warmup"
    BY <1>0 DEF Sending, TypeOK
  <2>2. mpc # "reset"
    BY <1>f, <2>1, Quiet
  <2>3. Len(timing_info) = responses_recvd + 1 /\ utilAdded <= Len(timing_info)
    BY <1>0, <1>f, <2>2 DEF Filing, Filed
  <2>4. Len(timing_info') = responses_recvd' + 0
    BY <1>n, <1>f, <1>u, <2>3 DEF NumberFacts
  <2> QED
    BY <1>f, <1>u, <2>2, <2>3, <2>4 DEF Filing, Filed
<1>8. Tickets'
  BY <1>0, <1>f, <1>u DEF Tickets, Ticket, Base
<1>9. Honest'
  BY <1>0, <1>u DEF Honest
<1> QED
  BY <1>1, <1>2, <1>3, <1>4, <1>5, <1>6, <1>7, <1>8, <1>9 DEF IInv

-----------------------------------------------------------------------------
\* A call that completes goes from the server to cq_.
LEMMA CompleteKeeps ==
    ASSUME IInv, NEW ok \in BOOLEAN, Complete(ok)
    PROVE  IInv'
<1>0. /\ TypeOK /\ Account /\ OnePlace /\ Sending /\ Asked /\ Clock
      /\ Filing /\ Tickets /\ Honest
  BY DEF IInv
<1>n. NumberFacts
  BY Numbers
<1>d. PICK c \in calls :
          /\ calls' = calls \ {c}
          /\ completed' = completed \cup {[call |-> c, ok |-> ok]}
  BY DEF Complete
<1>u. UNCHANGED <<phase, mpc, curr_time, next_time, asksUtil, num_requests,
                  util_requests, issued, achieved, printed, cost, rpc, reply, start,
                  kill_ack, first_req_flag, timing_info, utilAdded, responses_recvd,
                  server, resp_times, process>>
  BY DEF Complete, mainVars, readerVars, statVars, clock
<1>c. PICK d : d = [call |-> c, ok |-> ok]
  OBVIOUS
<1>e. d.call = c /\ completed' = completed \cup {d} /\ d \notin completed
  <2>1. d.call = c /\ completed' = completed \cup {d}
    BY <1>c, <1>d
  <2> QED
    BY <1>0, <1>d, <2>1 DEF OnePlace
<1>1. TypeOK'
  <2>1. c \in CallType
    BY <1>0, <1>d DEF TypeOK
  <2>2. d \in [call : CallType, ok : BOOLEAN]
    BY <1>c, <2>1
  <2>3. calls' \subseteq CallType /\ completed' \subseteq [call : CallType, ok : BOOLEAN]
    BY <1>0, <1>d, <1>e, <2>2 DEF TypeOK
  <2> QED
    BY <1>0, <1>u, <2>3 DEF TypeOK
<1>2. Account'
  <2>1. IsFiniteSet(completed') /\ Cardinality(completed') = Cardinality(completed) + 1
    BY <1>0, <1>e, FS_AddElement DEF Account
  <2>2. IsFiniteSet(calls') /\ Cardinality(calls') = Cardinality(calls) - 1
    BY <1>0, <1>d, FS_RemoveElement DEF Account
  <2>3. Busy' = Busy /\ Base' = Base
    BY <1>u DEF Busy, Base
  <2>4. issued' = Base' + responses_recvd' + Cardinality(calls') + Cardinality(completed') + Busy'
    BY <1>n, <1>u, <2>1, <2>2, <2>3 DEF NumberFacts
  <2> QED
    BY <2>1, <2>2, <2>4 DEF Account
<1>3. OnePlace'
  BY <1>0, <1>d, <1>e, <1>u DEF OnePlace
<1>4. Sending'
  BY <1>0, <1>u DEF Sending, Pending
<1>5. Asked'
  BY <1>0, <1>u DEF Asked, Base
<1>6. Clock'
  BY <1>0, <1>u DEF Clock
<1>7. Filing'
  BY <1>0, <1>u DEF Filing, Filed
<1>8. Tickets'
  BY <1>0, <1>d, <1>e, <1>u DEF Tickets, Ticket, Base
<1>9. Honest'
  BY <1>0, <1>u DEF Honest
<1> QED
  BY <1>1, <1>2, <1>3, <1>4, <1>5, <1>6, <1>7, <1>8, <1>9 DEF IInv

-----------------------------------------------------------------------------
\* One step of either thread, of the mid-tier or of gRPC keeps the invariant.
LEMMA NextInvariant ==
    ASSUME IInv, [Next]_vars
    PROVE  IInv'
<1>0. server \in BOOLEAN /\ process \in BOOLEAN
  BY DEF IInv, TypeOK
<1>1. CASE WarmupRequest
  BY <1>1, WarmupRequestKeeps
<1>2. CASE Sleep
  BY <1>2, SleepKeeps
<1>3. CASE TooEarly
  BY <1>3, TooEarlyKeeps
<1>4. CASE RunRequest
  BY <1>4, RunRequestKeeps
<1>5. CASE Issue
  BY <1>5, IssueKeeps
<1>6. CASE WarmupOver
  BY <1>6, WarmupOverKeeps
<1>7. CASE ClearStats
  BY <1>7, ClearStatsKeeps
<1>8. CASE ResetCounters
  BY <1>8, ResetCountersKeeps
<1>9. CASE RunOver
  BY <1>9, RunOverKeeps
<1>10. CASE PrintLatency
  BY <1>10, PrintLatencyKeeps
<1>11. CASE PrintGlobalStats
  BY <1>11, PrintGlobalStatsKeeps
<1>12. CASE ComputeQueryCost
  BY <1>12, ComputeQueryCostKeeps
<1>13. CASE KillWait
  BY <1>13, KillWaitKeeps
<1>14. CASE SendKill
  BY <1>14, SendKillKeeps
<1>15. CASE Take
  BY <1>15, TakeKeeps
<1>16. CASE FirstReply
  BY <1>16, FirstReplyKeeps
<1>17. CASE Measure
  BY <1>17, MeasureKeeps
<1>18. CASE Unpack
  BY <1>18, UnpackKeeps
<1>19. CASE Push
  BY <1>19, PushKeeps
<1>20. CASE AddUtil
  BY <1>20, AddUtilKeeps
<1>21. CASE CountReply
  BY <1>21, CountReplyKeeps
<1>22. CASE PrintNothing
  BY <1>0, <1>22, IdleKeeps DEF PrintNothing, readerVars, rpcVars
<1>23. CASE KillAcked
  BY <1>0, <1>23, IdleKeeps DEF KillAcked, readerVars, rpcVars
<1>24. CASE FailTells \/ FailExits
  BY <1>0, <1>24, IdleKeeps DEF FailTells, FailExits, ReaderAt, readerVars, rpcVars
<1>25. CASE ServerExits
  BY <1>0, <1>25, IdleKeeps DEF ServerExits, readerVars, rpcVars
<1>26. CASE Answer \/ Lose
  BY <1>26, CompleteKeeps DEF Answer, Lose
<1>27. CASE UNCHANGED vars
  BY <1>0, <1>27, IdleKeeps DEF vars, readerVars, rpcVars
<1>28. CASE PrintAverage
  BY <1>28, PrintAverageKeeps
<1> QED
  BY <1>1, <1>2, <1>3, <1>4, <1>5, <1>6, <1>7, <1>8, <1>9, <1>10,
     <1>11, <1>12, <1>13, <1>14, <1>15, <1>16, <1>17, <1>18, <1>19,
     <1>20, <1>21, <1>22, <1>23, <1>24, <1>25, <1>26, <1>27, <1>28
     DEF Next, MainStep, ReaderStep

\* IInv is an invariant of the load generator.
THEOREM Invariant == Spec => []IInv
<1>1. Init => IInv
  BY InitInvariant
<1>2. IInv /\ [Next]_vars => IInv'
  BY NextInvariant
<1> QED
  BY <1>1, <1>2, PTL DEF Spec

\* The load generator is type correct, for every number of requests.
THEOREM TypeCorrect == Spec => []TypeOK
<1>1. IInv => TypeOK
  BY DEF IInv
<1> QED
  BY <1>1, Invariant, PTL

\* The statistics hold as many latencies as replies are counted, through the
\* unlocked reset.
THEOREM CountsAgree == Spec => []CountMatchesStats
<1>1. IInv => CountMatchesStats
  BY DEF IInv, Filing, Filed, CountMatchesStats
<1> QED
  BY <1>1, Invariant, PTL

\* What is printed are latencies of the run, each from its own start.
THEOREM PrintsTheRun == Spec => []PrintedHonest
<1>1. IInv => PrintedHonest
  BY DEF IInv, Honest, OfRun, PrintedHonest
<1> QED
  BY <1>1, Invariant, PTL

\* The run keeps to its rate, for every interval and however late it wakes.
THEOREM KeepsItsPace == Spec => []Paced
<1>1. ASSUME IInv PROVE Paced
  <2> SUFFICES ASSUME phase = "run", mpc = "loop"
               PROVE  /\ curr_time < next_time /\ next_time <= curr_time + Interval
                      /\ num_requests * Interval <= curr_time
    BY DEF Paced
  <2> QED
    BY <1>1 DEF IInv, Clock
<1> QED
  BY <1>1, Invariant, PTL

\* The rank of a percentile lies inside the latencies, however few there are.
LEMMA RankInside ==
    ASSUME NEW size \in Nat, size > 0, NEW p \in Percentiles
    PROVE  Rank(p, size) + 1 \in 1 .. size
<1>1. p \in 0 .. 999
  BY DEF Percentiles
<1>2. p * size >= 0 /\ p * size <= 999 * size /\ p * size \in Nat
  BY <1>1
<1>3. 999 * size < 1000 * size
  OBVIOUS
<1> DEFINE m == p * size
<1>4. m \in Nat /\ m < 1000 * size
  BY <1>2, <1>3
<1> HIDE DEF m
<1>5. m \div 1000 >= 0 /\ m \div 1000 < size
  BY <1>4
<1>6. (m \div 1000) + 1 \in 1 .. size
  BY <1>4, <1>5
<1> QED
  BY <1>6 DEF Rank, m

\* What is printed is defined, for every run by whose end a reply was counted.
THEOREM PrintsAreDefined == Spec => []PrintsDefined
<1>1. ASSUME IInv PROVE PrintsDefined
  <2> SUFFICES ASSUME achieved > 0
               PROVE  /\ HoldsStats => timing_info # <<>>
                      /\ phase = "kill" =>
                             /\ \A p \in Percentiles :
                                    Rank(p, Len(printed)) + 1 \in DOMAIN printed
                             /\ cost.by > 0 /\ cost.qps > 0
    BY DEF PrintsDefined
  <2>1. ASSUME HoldsStats PROVE timing_info # <<>>
    <3>1. phase = "run" /\ mpc \in {"ranks", "stats", "cost"}
      BY <1>1, <2>1 DEF IInv, TypeOK, Sending, HoldsStats
    <3>2. achieved <= Len(timing_info)
      BY <1>1, <3>1 DEF IInv, Honest
    <3> SUFFICES ASSUME timing_info = <<>> PROVE FALSE
      OBVIOUS
    <3>3. Len(timing_info) = 0
      OBVIOUS
    <3>4. achieved \in Nat
      BY <1>1, Numbers DEF NumberFacts
    <3> QED
      BY <3>2, <3>3, <3>4
  <2>2. ASSUME phase = "kill"
        PROVE  /\ \A p \in Percentiles : Rank(p, Len(printed)) + 1 \in DOMAIN printed
               /\ cost.by > 0 /\ cost.qps > 0
    <3>1. printed # <<>> /\ cost.by > 0 /\ cost.qps > 0
      BY <1>1, <2>2 DEF IInv, Honest
    <3>2. printed \in Seq([kind : Kinds, start : Starts])
      BY <1>1 DEF IInv, TypeOK
    <3>3. Len(printed) \in Nat /\ Len(printed) > 0 /\ DOMAIN printed = 1 .. Len(printed)
      BY <3>1, <3>2, EmptySeq, LenProperties
    <3> QED
      BY <3>1, <3>3, RankInside
  <2> QED
    BY <2>1, <2>2
<1> QED
  BY <1>1, Invariant, PTL

-----------------------------------------------------------------------------
(* The refinement: to the driver the two threads are StartUp's client.      *)

\* What the driver could see has not changed.
LEMMA Unseen ==
    ASSUME UNCHANGED <<Stage, Lines, server>>
    PROVE  UNCHANGED Deployed!startUpVars
BY DEF Deployed!startUpVars

\* The end of the process, without a line.
LEMMA EndSeen ==
    ASSUME Stage \in {"warmup", "run", "kill"}, Stage' = "exited", UNCHANGED <<Lines, server>>
    PROVE  DeployedStep
BY DEF DeployedStep, Deployed!Accident, Deployed!ClientDies, Deployed!ClientPrints

\* A client that is up is in one of its three stages.
LEMMA UpStage == process => Stage \in {"warmup", "run", "kill"}
BY DEF Stage

\* A step of the main thread that stays within its stage is not seen.
LEMMA MainUnseen ==
    ASSUME UNCHANGED <<phase, rpc, server, process>>, RunIsOver' = RunIsOver
    PROVE  UNCHANGED Deployed!startUpVars
<1>1. Stage' = Stage
  BY DEF Stage
<1>2. Lines' = Lines
  BY DEF Lines
<1> QED
  BY <1>1, <1>2, Unseen

\* A step of the reader thread up to the error is not seen.
LEMMA ReaderUnseen ==
    ASSUME UNCHANGED <<phase, mpc, server, process>>, rpc # "told", rpc' # "told"
    PROVE  UNCHANGED Deployed!startUpVars
<1>0. RunIsOver' = RunIsOver
  BY DEF RunIsOver
<1>1. Stage' = Stage
  BY <1>0 DEF Stage
<1>2. Lines' = Lines
  BY <1>0 DEF Lines
<1> QED
  BY <1>1, <1>2, Unseen

\* The warm-up ends with its line: nothing is under way, so no error was told.
LEMMA WarmupSeen ==
    ASSUME IInv, ResetCounters
    PROVE  DeployedStep
<1>0. rpc = "next"
  BY Quiet DEF ResetCounters
<1>1. /\ process /\ process' /\ phase = "warmup" /\ phase' = "run" /\ mpc' = "loop"
      /\ UNCHANGED <<rpc, server>>
  BY DEF ResetCounters, readerVars, rpcVars
<1>2. ~RunIsOver /\ ~RunIsOver'
  BY <1>1 DEF RunIsOver
<1>3. Stage = "warmup" /\ Stage' = "run"
  BY <1>1, <1>2 DEF Stage
<1>4. Lines' = Lines \cup {"End of Warmup Period"}
  BY <1>1, <1>2 DEF Lines
<1>5. "Call Status Error Code" \notin Lines
  BY <1>0, <1>1, <1>2 DEF Lines
<1> QED
  BY <1>1, <1>3, <1>4, <1>5 DEF DeployedStep, Deployed!Progress, Deployed!WarmupEnds,
                          Deployed!ClientPrints

\* The run ends with its line.
LEMMA RunSeen ==
    ASSUME IInv, RunOver
    PROVE  DeployedStep
<1>1. /\ process /\ process' /\ phase = "run" /\ phase' = "run" /\ mpc = "loop" /\ mpc' = "print"
      /\ UNCHANGED <<rpc, server>>
  BY DEF RunOver, MainAt, readerVars, rpcVars
<1>2. ~RunIsOver /\ RunIsOver'
  BY <1>1 DEF RunIsOver
<1>3. Stage = "run" /\ Stage' = "kill"
  BY <1>1, <1>2 DEF Stage
<1>4. Lines' = Lines \cup {"End of Actual Run"}
  BY <1>1, <1>2 DEF Lines
<1> QED
  BY <1>1, <1>3, <1>4 DEF DeployedStep, Deployed!Progress, Deployed!RunEnds,
                          Deployed!ClientPrints

\* The error is printed; with the mid-tier up it is an accident.
LEMMA ErrorSeen ==
    ASSUME IInv, FailTells
    PROVE  DeployedStep
<1>1. /\ process /\ process' /\ rpc = "failed" /\ rpc' = "told"
      /\ UNCHANGED <<phase, mpc, server>>
  BY DEF FailTells, ReaderAt, mainVars, rpcVars
<1>2. RunIsOver' = RunIsOver
  BY <1>1 DEF RunIsOver
<1>3. Stage \in {"warmup", "run", "kill"} /\ Stage' = Stage
  BY <1>1, <1>2, UpStage DEF Stage
<1>4. Lines' = Lines \cup {"Call Status Error Code"} /\ "Call Status Error Code" \notin Lines
  BY <1>1, <1>2 DEF Lines
<1>5. Deployed!RpcFails
  BY <1>1, <1>3, <1>4 DEF Deployed!RpcFails, Deployed!ClientPrints
<1> QED
  BY <1>5 DEF DeployedStep, Deployed!Progress, Deployed!Accident

\* Then the process ends.
LEMMA FailSeen ==
    ASSUME IInv, FailExits
    PROVE  DeployedStep
<1>1. /\ process /\ ~process' /\ rpc = "told"
      /\ UNCHANGED <<phase, mpc, rpc, server>>
  BY DEF FailExits, mainVars, readerVars, rpcVars
<1>2. RunIsOver' = RunIsOver
  BY <1>1 DEF RunIsOver
<1>3. Stage \in {"warmup", "run", "kill"} /\ Stage' = "exited"
  BY <1>1, UpStage DEF Stage
<1>4. Lines' = Lines /\ "Call Status Error Code" \in Lines
  BY <1>1, <1>2 DEF Lines
<1> QED
  BY <1>1, <1>3, <1>4 DEF DeployedStep, Deployed!Progress, Deployed!ClientFails,
                          Deployed!ClientPrints

\* A process that ends for another reason says nothing.
LEMMA EndOfProcess ==
    ASSUME process, UNCHANGED <<phase, mpc, server>>, ~process',
           (rpc' = "told") = (rpc = "told")
    PROVE  DeployedStep
<1>1. RunIsOver' = RunIsOver
  BY DEF RunIsOver
<1>2. Stage \in {"warmup", "run", "kill"} /\ Stage' = "exited"
  BY UpStage DEF Stage
<1>3. Lines' = Lines
  BY <1>1 DEF Lines
<1> QED
  BY <1>2, <1>3, EndSeen

\* Every step of the main thread is one of the deployment's, or is not seen.
LEMMA MainRefines ==
    ASSUME IInv, MainStep
    PROVE  [DeployedStep]_(Deployed!startUpVars)
<1>1. CASE ResetCounters
  BY <1>1, WarmupSeen
<1>2. CASE RunOver
  BY <1>2, RunSeen
<1>3. CASE PrintNothing \/ KillAcked
  <2>1. process /\ ~process' /\ UNCHANGED <<phase, mpc, rpc, server>>
    BY <1>3 DEF PrintNothing, KillAcked, mainVars, readerVars, rpcVars
  <2> QED
    BY <2>1, EndOfProcess
<1>4. CASE ComputeQueryCost
  <2>1. /\ process /\ process' /\ phase = "run" /\ phase' = "kill" /\ mpc = "cost"
        /\ UNCHANGED <<rpc, server>>
    BY <1>4 DEF ComputeQueryCost, readerVars, rpcVars
  <2>2. RunIsOver /\ RunIsOver'
    BY <2>1 DEF RunIsOver
  <2>3. Stage' = Stage /\ Lines' = Lines
    BY <2>1, <2>2 DEF Stage, Lines
  <2> QED
    BY <2>1, <2>3, Unseen
<1>5. CASE \/ WarmupRequest \/ Sleep \/ TooEarly \/ RunRequest \/ Issue \/ WarmupOver
           \/ ClearStats \/ PrintAverage \/ PrintLatency \/ PrintGlobalStats \/ KillWait \/ SendKill
  <2>1. UNCHANGED <<phase, rpc, server, process>>
    BY <1>5 DEF WarmupRequest, Sleep, TooEarly, RunRequest, Issue, WarmupOver, ClearStats,
         PrintAverage, PrintLatency, PrintGlobalStats, KillWait, SendKill, MainAt, CountNext, Start,
         readerVars, rpcVars
  <2>2. RunIsOver' = RunIsOver
    <3>1. CASE \/ WarmupRequest \/ Sleep \/ TooEarly \/ RunRequest \/ Issue \/ WarmupOver
               \/ ClearStats \/ KillWait \/ SendKill
      <4>1. \/ phase \in {"warmup", "kill"}
            \/ mpc \in {"loop", "awake", "issue"} /\ mpc' \in {"loop", "awake", "issue"}
        BY <3>1 DEF WarmupRequest, Sleep, TooEarly, RunRequest, Issue, WarmupOver,
             ClearStats, KillWait, SendKill, MainAt
      <4> QED
        BY <2>1, <4>1 DEF RunIsOver
    <3>2. CASE PrintAverage \/ PrintLatency \/ PrintGlobalStats
      BY <2>1, <3>2 DEF RunIsOver, PrintAverage, PrintLatency, PrintGlobalStats, MainAt
    <3> QED
      BY <1>5, <3>1, <3>2
  <2> QED
    BY <2>1, <2>2, MainUnseen
<1> QED
  BY <1>1, <1>2, <1>3, <1>4, <1>5 DEF MainStep

\* Every step of the reader thread is one of the deployment's, or is not seen.
LEMMA ReaderRefines ==
    ASSUME IInv, ReaderStep
    PROVE  [DeployedStep]_(Deployed!startUpVars)
<1>1. CASE FailTells
  BY <1>1, ErrorSeen
<1>4. CASE FailExits
  BY <1>4, FailSeen
<1>2. CASE Unpack
  <2>1. /\ process /\ rpc = "unpack" /\ rpc' = "push"
        /\ UNCHANGED <<phase, mpc, server>> /\ process' \in BOOLEAN
    BY <1>2 DEF Unpack, ReaderAt, mainVars, rpcVars
  <2>2. CASE process'
    BY <2>1, <2>2, ReaderUnseen
  <2>3. CASE ~process'
    BY <2>1, <2>3, EndOfProcess
  <2> QED
    BY <2>2, <2>3
<1>3. CASE Take \/ FirstReply \/ Measure \/ Push \/ AddUtil \/ CountReply
  <2>1. /\ UNCHANGED <<phase, mpc, server, process>>
        /\ rpc # "told" /\ rpc' # "told"
    BY <1>3 DEF Take, FirstReply, Measure, Push, AddUtil, CountReply, ReaderAt, mainVars, rpcVars
  <2> QED
    BY <2>1, ReaderUnseen
<1> QED
  BY <1>1, <1>2, <1>3, <1>4 DEF ReaderStep

\* Every step is one of the deployment's, or is not seen.
LEMMA NextRefines ==
    ASSUME IInv, [Next]_vars
    PROVE  [DeployedStep]_(Deployed!startUpVars)
<1>1. CASE Answer \/ Lose
  <2>1. UNCHANGED <<phase, mpc, rpc, server, process>>
    BY <1>1 DEF Answer, Lose, Complete, mainVars, readerVars
  <2> QED
    BY <2>1, MainUnseen DEF RunIsOver
<1>2. CASE ServerExits
  <2>1. server /\ ~server' /\ UNCHANGED <<phase, mpc, rpc, process>>
    BY <1>2 DEF ServerExits, mainVars, readerVars
  <2>2. RunIsOver' = RunIsOver
    BY <2>1 DEF RunIsOver
  <2>3. Stage' = Stage /\ Lines' = Lines
    BY <2>1, <2>2 DEF Stage, Lines
  <2> QED
    BY <2>1, <2>3 DEF DeployedStep, Deployed!Accident, Deployed!MidtierDies, Deployed!MidtierAt
<1>3. CASE UNCHANGED vars
  <2>1. UNCHANGED <<phase, mpc, rpc, server, process>>
    BY <1>3 DEF vars, mainVars, readerVars, rpcVars
  <2> QED
    BY <2>1, MainUnseen DEF RunIsOver
<1> QED
  BY <1>1, <1>2, <1>3, MainRefines, ReaderRefines DEF Next

\* The load generator is the client of a deployment, to everyone who sees no more of it
\* than the lines it prints and its end.
THEOREM ClientKeepsPromise == Spec => ClientAsDeployed
<1>1. Init => Started
  BY DEF Init, Started, Stage, Lines, RunIsOver
<1>2. IInv /\ [Next]_vars => [DeployedStep]_(Deployed!startUpVars)
  BY NextRefines
<1> QED
  BY <1>1, <1>2, Invariant, PTL DEF Spec, ClientAsDeployed
=============================================================================
