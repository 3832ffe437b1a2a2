------------------------------ MODULE LoadGen ------------------------------
(***************************************************************************)
(* The open-loop load generator (load_generator_open_loop_time.cc).        *)
(*                                                                         *)
(* The main thread sends the warm-up requests and waits for every reply,   *)
(* clears the statistics and the counters, sends the requests of the       *)
(* actual run until its time is over, prints what was collected so far and *)
(* then sends kill requests until one is acknowledged.  The reader thread  *)
(* takes the replies, in whatever order they complete, and files each one  *)
(* in the statistics.  Both threads share the counters, resp_times,        *)
(* first_req_flag and global_stats; only some of this is under a lock.     *)
(***************************************************************************)
EXTENDS Integers, Sequences, FiniteSets

CONSTANTS
    Warmup,    \* overall_queries: requests of the warm-up
    Micro,     \* a microsecond, in the units of next_time, which has a fraction
    Interval,  \* center: the time between two requests of the run
    Duration,  \* exit_time: how long requests are sent
    MaxLate,   \* bound: how much too late a sleeping thread may wake
    MaxRun,    \* requests of the actual run: as many as Duration has room for
    MaxKills   \* bound: kill requests

ASSUME WarmupAssumption == Warmup \in Nat \ {0}
ASSUME TimeAssumption ==
    /\ Micro \in Nat \ {0}
    /\ Interval \in Nat \ {0}
    /\ Duration \in Nat
    /\ MaxLate \in Nat
ASSUME MaxRunAssumption == MaxRun \in Nat /\ Duration <= MaxRun * Interval
ASSUME MaxKillsAssumption == MaxKills \in Nat

VARIABLES
    phase,     \* warm-up, actual run or kill loop
    mpc,       \* where the main thread is in it
    curr_time, next_time,    \* since the run began
    asksUtil,  \* util_request of the request the main thread is sending
    num_requests, responses_recvd, util_requests,
    resp_times,     \* request id -> the call whose start it holds, 0 if none
    calls,     \* RPCs the server has not completed
    issued,    \* how many RPCs have been started
    completed, \* what cq_ holds: calls with their status
    rpc,       \* where the reader thread is in AsyncCompleteRpc
    reply,     \* the call it works on
    start,     \* whose start did it measure the latency from?
    timing_info,    \* global_stats->timing_info
    utilAdded, \* samples summed up in global_stats->percent_util_info
    first_req_flag, \* are the arrays for the buckets' utilisation there?
    kill_ack,
    achieved,  \* responses_recvd when the actual run ended
    printed,   \* what PrintGlobalStats was given
    cost,      \* what ComputeQueryCost divided: samples, and by what
    server,    \* is the mid-tier up?
    process    \* is the load generator up?

clock      == <<curr_time, next_time>>
mainVars   == <<phase, mpc, clock, asksUtil, num_requests, util_requests, issued,
                achieved, printed, cost>>
readerVars == <<rpc, reply, start, kill_ack, first_req_flag>>
statVars   == <<timing_info, utilAdded, responses_recvd>>
rpcVars    == <<calls, completed, server>>
vars == <<mainVars, readerVars, statVars, resp_times, rpcVars, process>>

Ids == 0 .. (IF Warmup > MaxRun THEN Warmup ELSE MaxRun)

Call(n, id, util, kind) == [n |-> n, id |-> id, util |-> util, kind |-> kind]

NoCall == Call(0, 0, FALSE, "none")

Init ==
    /\ phase = "warmup" /\ mpc = "loop" /\ asksUtil = FALSE
    /\ curr_time = 0 /\ next_time = 0
    /\ num_requests = 0 /\ responses_recvd = 0 /\ util_requests = 0
    /\ resp_times = [id \in Ids |-> 0]
    /\ calls = {} /\ issued = 0 /\ completed = {}
    /\ rpc = "next" /\ reply = NoCall /\ start = "own"
    /\ timing_info = <<>> /\ utilAdded = 0
    /\ first_req_flag = FALSE /\ kill_ack = FALSE
    /\ achieved = 0 /\ printed = <<>> /\ cost = [of |-> 0, by |-> 1, qps |-> 1]
    /\ server = TRUE /\ process = TRUE

-----------------------------------------------------------------------------
(* Main thread.                                                            *)

MainAt(p, from, to) == process /\ phase = p /\ mpc = from /\ mpc' = to

\* Count the next request.  The first one, and one every five seconds, asks
\* for the servers' utilisation.
CountNext ==
    /\ num_requests' = num_requests + 1
    /\ asksUtil' \in (IF num_requests' = 1 THEN {TRUE} ELSE BOOLEAN)
    /\ util_requests' = IF asksUtil' THEN util_requests + 1 ELSE util_requests
    /\ UNCHANGED <<phase, issued, achieved, printed, cost, clock, readerVars, statVars,
                   resp_times, rpcVars, process>>

\* Fault: the warm-up loop sends on until enough replies are in.
WarmupRequestUncapped ==
    /\ MainAt("warmup", "loop", "issue")
    /\ responses_recvd < Warmup /\ issued < Warmup + 1
    /\ CountNext

WarmupRequest ==
    /\ MainAt("warmup", "loop", "issue")
    /\ responses_recvd < Warmup /\ num_requests < Warmup
    /\ CountNext

\* usleep takes whole microseconds and may sleep longer; the clock is read in
\* whole microseconds.  Looking again within the same one is no step.
Sleep ==
    LET whole == (next_time - curr_time) \div Micro
    IN  /\ MainAt("run", "loop", "awake")
        /\ curr_time < Duration
        /\ \E late \in 0 .. MaxLate :
               curr_time' = curr_time + Micro * (late + IF whole > 0 THEN whole ELSE 1)
        /\ UNCHANGED <<phase, next_time, asksUtil, num_requests, util_requests, issued,
                       achieved, printed, cost, readerVars, statVars, resp_times, rpcVars, process>>

\* The sleep left the fraction of a microsecond out.
TooEarly ==
    /\ MainAt("run", "awake", "loop")
    /\ curr_time < next_time
    /\ UNCHANGED <<phase, clock, asksUtil, num_requests, util_requests, issued,
                   achieved, printed, cost, readerVars, statVars, resp_times, rpcVars, process>>

RunRequest ==
    /\ MainAt("run", "awake", "issue")
    /\ curr_time >= next_time
    /\ CountNext

\* LoadGen_Index: start the RPC under the id that num_requests gives.
Start(kind, util) ==
    /\ issued' = issued + 1
    /\ resp_times' = [resp_times EXCEPT ![num_requests] = issued']
    /\ calls' = calls \cup {Call(issued', num_requests, util, kind)}
    /\ UNCHANGED <<num_requests, util_requests, achieved, printed, cost, readerVars,
                   statVars, completed, server, process>>

\* Fault: the run makes up for requests that were late.
IssueCatchUp ==
    /\ \E p \in {"warmup", "run"} : MainAt(p, "issue", "loop") /\ Start(p, asksUtil)
    /\ next_time' = IF phase = "run" THEN next_time + Interval ELSE next_time
    /\ asksUtil' = FALSE
    /\ UNCHANGED <<phase, curr_time>>

\* The next request is due Interval after the clock was read for this one.
Issue ==
    /\ \E p \in {"warmup", "run"} : MainAt(p, "issue", "loop") /\ Start(p, asksUtil)
    /\ next_time' = IF phase = "run" THEN curr_time + Interval ELSE next_time
    /\ asksUtil' = FALSE
    /\ UNCHANGED <<phase, curr_time>>

\* Fault: off by one.
WarmupOverEarly ==
    /\ MainAt("warmup", "loop", "clear")
    /\ responses_recvd >= Warmup - 1
    /\ UNCHANGED <<phase, asksUtil, num_requests, util_requests, issued, achieved,
                   printed, cost, clock, readerVars, statVars, resp_times, rpcVars, process>>

WarmupOver ==
    /\ MainAt("warmup", "loop", "clear")
    /\ responses_recvd >= Warmup
    /\ UNCHANGED <<phase, asksUtil, num_requests, util_requests, issued, achieved,
                   printed, cost, clock, readerVars, statVars, resp_times, rpcVars, process>>

\* ResetMetaStats
ClearStats ==
    /\ MainAt("warmup", "clear", "reset")
    /\ timing_info' = <<>>
    /\ utilAdded' = 0
    /\ UNCHANGED <<phase, asksUtil, num_requests, util_requests, issued, achieved,
                   printed, cost, clock, readerVars, responses_recvd, resp_times, rpcVars,
                   process>>

\* Fault: the responses of the warm-up stay counted.
ResetCountersPartly ==
    /\ process /\ phase = "warmup" /\ mpc = "reset"
    /\ phase' = "run" /\ mpc' = "loop"
    /\ num_requests' = 0
    /\ next_time' = Interval
    /\ UNCHANGED <<curr_time, asksUtil, util_requests, issued, achieved, printed, cost, readerVars,
                   statVars, resp_times, rpcVars, process>>

\* util_requests keeps its value.
ResetCounters ==
    /\ process /\ phase = "warmup" /\ mpc = "reset"
    /\ phase' = "run" /\ mpc' = "loop"
    /\ num_requests' = 0
    /\ responses_recvd' = 0
    /\ next_time' = Interval
    /\ UNCHANGED <<curr_time, asksUtil, util_requests, issued, achieved, printed, cost, readerVars,
                   timing_info, utilAdded, resp_times, rpcVars, process>>

\* The time is over: achieved_qps takes what has been received.
RunOver ==
    /\ MainAt("run", "loop", "print")
    /\ curr_time >= Duration
    /\ achieved' = responses_recvd
    /\ UNCHANGED <<phase, asksUtil, num_requests, util_requests, issued, printed, cost,
                   clock, readerVars, statVars, resp_times, rpcVars, process>>

\* PrintTime sorts the latencies of the replies and prints those at these
\* thousandths of their number.
Percentiles == {100, 200, 300, 400, 500, 600, 700, 800, 900, 950, 990, 999}

\* Fault: the rank is rounded up.
RankUp(p, size) == (p * size + 999) \div 1000

Rank(p, size) == (p * size) \div 1000

\* The main thread holds global_stat_mutex.
HoldsStats == mpc \in {"ranks", "stats", "cost"}

\* With the mutex taken PrintLatency prints the average first: of no latencies it is
\* 0 / 0, which prints as a number that is none.
PrintAverage ==
    /\ MainAt("run", "print", "ranks")
    /\ UNCHANGED <<phase, clock, asksUtil, num_requests, util_requests, issued, achieved,
                   printed, cost, readerVars, statVars, resp_times, rpcVars, process>>

\* PrintTime: the percentiles.
PrintLatency ==
    /\ MainAt("run", "ranks", "stats")
    /\ timing_info # <<>>
    /\ UNCHANGED <<phase, clock, asksUtil, num_requests, util_requests, issued, achieved,
                   printed, cost, readerVars, statVars, resp_times, rpcVars, process>>

\* PrintTime reads the first element of a vector that has none.
PrintNothing ==
    /\ process /\ phase = "run" /\ mpc = "ranks"
    /\ timing_info = <<>>
    /\ process' = FALSE
    /\ UNCHANGED <<mainVars, readerVars, statVars, resp_times, rpcVars>>

PrintGlobalStats ==
    /\ MainAt("run", "stats", "cost")
    /\ printed' = timing_info
    /\ UNCHANGED <<phase, clock, asksUtil, num_requests, util_requests, issued, achieved,
                   cost, readerVars, statVars, resp_times, rpcVars, process>>

\* An average over the samples but for the first, of sums that the reader may be
\* adding to (it does not take the mutex for them), by the requests per second.
ComputeQueryCost ==
    /\ process /\ phase = "run" /\ mpc = "cost"
    /\ phase' = "kill" /\ mpc' = "loop"
    /\ cost' = [of |-> utilAdded, by |-> util_requests - 1, qps |-> achieved]
    /\ UNCHANGED <<clock, asksUtil, num_requests, util_requests, issued, achieved,
                   printed, readerVars, statVars, resp_times, rpcVars, process>>

KillAcked ==
    /\ process /\ phase = "kill" /\ mpc = "loop"
    /\ kill_ack
    /\ process' = FALSE
    /\ UNCHANGED <<mainVars, readerVars, statVars, resp_times, rpcVars>>

\* sleep(2)
KillWait ==
    /\ MainAt("kill", "loop", "kill")
    /\ ~kill_ack
    /\ issued < Warmup + MaxRun + MaxKills
    /\ UNCHANGED <<phase, asksUtil, num_requests, util_requests, issued, achieved,
                   printed, cost, clock, readerVars, statVars, resp_times, rpcVars, process>>

\* A kill request is not counted: it goes out under the last request's id.
SendKill ==
    /\ MainAt("kill", "kill", "loop")
    /\ Start("kill", FALSE)
    /\ UNCHANGED <<phase, clock, asksUtil>>

-----------------------------------------------------------------------------
(* Reader thread: AsyncCompleteRpc.                                        *)

ReaderAt(from, to) == process /\ rpc = from /\ rpc' = to

Take ==
    \E c \in completed :
        /\ ReaderAt("next", IF c.ok THEN "init" ELSE "failed")
        /\ reply' = c.call
        /\ completed' = completed \ {c}
        /\ kill_ack' = (kill_ack \/ (c.ok /\ c.call.kind = "kill"))
        /\ UNCHANGED <<mainVars, start, first_req_flag, statVars, resp_times, calls,
                       server, process>>

\* "Call Status Error Code".  The main thread goes on meanwhile.
FailTells ==
    /\ ReaderAt("failed", "told")
    /\ UNCHANGED <<mainVars, reply, start, kill_ack, first_req_flag, statVars, resp_times,
                   rpcVars, process>>

\* Fault: no CHECK(false) follows, the next reply is taken.
FailGoesOn ==
    /\ ReaderAt("told", "next")
    /\ UNCHANGED <<mainVars, reply, start, kill_ack, first_req_flag, statVars, resp_times,
                   rpcVars, process>>

\* CHECK(false) ends the process, not only the thread.
FailExits ==
    /\ process /\ rpc = "told"
    /\ process' = FALSE
    /\ UNCHANGED <<mainVars, readerVars, statVars, resp_times, rpcVars>>

FirstReply ==
    /\ ReaderAt("init", "measure")
    /\ first_req_flag' = (first_req_flag \/ util_requests = 1)
    /\ UNCHANGED <<mainVars, reply, start, kill_ack, statVars, resp_times, rpcVars,
                   process>>

\* The reply names the request; the acknowledgement of a kill names none.
ReplyId(c) == IF c.kind = "kill" THEN 0 ELSE c.id

\* resp_times is under no lock: a lookup while the main thread inserts may
\* miss the entry.
Measure ==
    /\ ReaderAt("measure", "unpack")
    /\ \/ start' = IF resp_times[ReplyId(reply)] = reply.n THEN "own" ELSE "other"
       \/ mpc = "issue" /\ start' = "missed"
    /\ resp_times' = [resp_times EXCEPT ![ReplyId(reply)] = 0]
    /\ UNCHANGED <<mainVars, reply, kill_ack, first_req_flag, statVars, rpcVars,
                   process>>

\* neighbor_ids(0) of an acknowledgement, which has none, and bucket_util
\* before it is allocated are undefined: the process may die of them.
Undefined(c) == c.kind = "kill" \/ (c.util /\ ~first_req_flag)

Unpack ==
    /\ ReaderAt("unpack", "push")
    /\ process' \in (IF Undefined(reply) THEN BOOLEAN ELSE {TRUE})
    /\ UNCHANGED <<mainVars, reply, start, kill_ack, first_req_flag, statVars,
                   resp_times, rpcVars>>

\* UpdateGlobalTimingStats under global_stat_mutex.
Push ==
    /\ ReaderAt("push", "util")
    /\ ~HoldsStats
    /\ timing_info' = Append(timing_info, [kind |-> reply.kind, start |-> start])
    /\ UNCHANGED <<mainVars, reply, start, kill_ack, first_req_flag, utilAdded,
                   responses_recvd, resp_times, rpcVars, process>>

\* UpdateGlobalUtilStats, without the mutex; the first sample is left out.
AddUtil ==
    /\ ReaderAt("util", "count")
    /\ utilAdded' = IF util_requests # 1 /\ reply.util THEN utilAdded + 1 ELSE utilAdded
    /\ UNCHANGED <<mainVars, reply, start, kill_ack, first_req_flag, timing_info,
                   responses_recvd, resp_times, rpcVars, process>>

CountReply ==
    /\ ReaderAt("count", "next")
    /\ responses_recvd' = responses_recvd + 1
    /\ reply' = NoCall
    /\ UNCHANGED <<mainVars, start, kill_ack, first_req_flag, timing_info, utilAdded,
                   resp_times, rpcVars, process>>

-----------------------------------------------------------------------------
(* External: the mid-tier and gRPC.                                        *)

Complete(ok) ==
    \E c \in calls :
        /\ calls' = calls \ {c}
        /\ completed' = completed \cup {[call |-> c, ok |-> ok]}
        /\ UNCHANGED <<mainVars, readerVars, statVars, resp_times, server, process>>

Answer == server /\ Complete(TRUE)

\* The server is gone, or gRPC gives the call up for reasons of its own.
Lose == Complete(FALSE)

\* The mid-tier exits: some time after a kill, or for reasons of its own.
ServerExits ==
    /\ server
    /\ server' = FALSE
    /\ UNCHANGED <<mainVars, readerVars, statVars, resp_times, calls, completed,
                   process>>

-----------------------------------------------------------------------------
(* The next-state relation.                                                *)

MainStep ==
    \/ WarmupRequest \/ Sleep \/ TooEarly \/ RunRequest \/ Issue
    \/ WarmupOver \/ ClearStats \/ ResetCounters \/ RunOver
    \/ PrintAverage \/ PrintLatency \/ PrintNothing \/ PrintGlobalStats \/ ComputeQueryCost
    \/ KillAcked \/ KillWait \/ SendKill

ReaderStep ==
    \/ Take \/ FailTells \/ FailExits \/ FirstReply \/ Measure \/ Unpack \/ Push
    \/ AddUtil \/ CountReply

Next ==
    \/ MainStep
    \/ ReaderStep
    \/ Answer \/ Lose \/ ServerExits
    \/ ~process /\ UNCHANGED vars

Spec == Init /\ [][Next]_vars

\* Both threads run, and every RPC completes, with a reply or an error.
FairSpec ==
    /\ Spec
    /\ WF_vars(MainStep) /\ WF_vars(ReaderStep) /\ WF_vars(Answer \/ Lose)

-----------------------------------------------------------------------------
(* Properties.                                                             *)

MaxCalls == Warmup + MaxRun + MaxKills

Kinds == {"none", "warmup", "run", "kill"}

Starts == {"own", "other", "missed"}

CallType == [n : 0 .. MaxCalls, id : Ids, util : BOOLEAN, kind : Kinds]

TypeOK ==
    /\ phase \in {"warmup", "run", "kill"}
    /\ mpc \in {"loop", "awake", "issue", "clear", "reset", "print", "ranks", "stats", "cost",
                "kill"}
    /\ curr_time \in Nat
    /\ next_time \in Nat
    /\ asksUtil \in BOOLEAN
    /\ num_requests \in Ids
    /\ responses_recvd \in 0 .. MaxCalls
    /\ util_requests \in 0 .. MaxCalls
    /\ resp_times \in [Ids -> 0 .. MaxCalls]
    /\ calls \subseteq CallType
    /\ issued \in 0 .. MaxCalls
    /\ completed \subseteq [call : CallType, ok : BOOLEAN]
    /\ rpc \in {"next", "failed", "told", "init", "measure", "unpack", "push", "util", "count"}
    /\ reply \in CallType
    /\ start \in Starts
    /\ timing_info \in Seq([kind : Kinds, start : Starts])
    /\ utilAdded \in 0 .. MaxCalls
    /\ first_req_flag \in BOOLEAN
    /\ kill_ack \in BOOLEAN
    /\ achieved \in 0 .. MaxCalls
    /\ printed \in Seq([kind : Kinds, start : Starts])
    /\ cost \in [of : 0 .. MaxCalls, by : 0 .. MaxCalls, qps : 0 .. MaxCalls]
    /\ server \in BOOLEAN
    /\ process \in BOOLEAN

\* responses_recvd counts what timing_info holds, but for the reply the reader
\* has pushed and not counted: the unlocked reset between the warm-up and the
\* run leaves no reply in one and not in the other.
CountMatchesStats ==
    mpc # "reset" =>
        Len(timing_info) = responses_recvd + (IF rpc \in {"util", "count"} THEN 1 ELSE 0)

\* What is printed are replies of the actual run, each with the time since its
\* own request was sent, although ids start again after the warm-up, unless the
\* lookup of its start raced; and at least as many as achieved_qps counts.
PrintedHonest ==
    phase = "kill" =>
        /\ achieved <= Len(printed)
        /\ \A i \in 1 .. Len(printed) : printed[i].kind = "run" /\ printed[i].start # "other"

\* The run never sends faster than its rate, however late it wakes, and never
\* sleeps for a negative time: next_time is ahead of the clock, by no more than
\* an interval, whenever the loop comes round.
Paced ==
    phase = "run" /\ mpc = "loop" =>
        /\ curr_time < next_time /\ next_time <= curr_time + Interval
        /\ num_requests * Interval <= curr_time

\* When a reply was counted before the run ended, what is printed is defined: no
\* average, cost or utilisation is divided by zero, although the first sample is left
\* out, and the rank of every percentile lies inside, the 999th of a short run too.
PrintsDefined ==
    achieved > 0 =>
        /\ HoldsStats => timing_info # <<>>
        /\ phase = "kill" =>
               /\ \A p \in Percentiles : Rank(p, Len(printed)) + 1 \in DOMAIN printed
               /\ cost.by > 0 /\ cost.qps > 0

\* The process stops: the warm-up does not wait for a reply that is lost, and
\* the kill loop ends.
ClientStops == <>~process

\* The comment at 483 says "Reset requests counters": when every reply of the
\* run is in, util_requests - 1, by which the sums are divided, must be the
\* number of samples in them.
UtilDivisor ==
    (phase = "run" /\ mpc = "print" /\ num_requests > 0) =>
        (calls = {} /\ completed = {} /\ rpc = "next" => util_requests - 1 <= utilAdded)
=============================================================================
