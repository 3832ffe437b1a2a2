---------------------------- MODULE AdaptiveWait ----------------------------
(***************************************************************************)
(* The adaptive controller at the end of ProcessRequest                    *)
(* (mid_tier_server.cc 794-848, switched on by run.sh).                    *)
(*                                                                         *)
(* Every Period requests a worker averages the times of the requests since *)
(* the last adjustment and moves send_request_usecs_wait up or down by     *)
(* step, in the direction that made the average smaller, with smaller and  *)
(* smaller steps.  All of its variables are globals that the workers use   *)
(* under no lock: an update is a read and a write with other workers in    *)
(* between, what is read twice may be read differently, and what            *)
(* std::vector does then is undefined.  Taken in one step are the sum of    *)
(* 804, the two reads of a comparison (811, 814) and those of an addition   *)
(* (816-832): they decide only which way the wait moves and how far.        *)
(***************************************************************************)
EXTENDS Integers, Sequences

CONSTANTS
    Worker,      \* dispatch threads
    Period,      \* requests between two adjustments, 1000 in the code
    FirstStep,   \* what step starts from, 100 in the code
    Times,       \* bound: how long a request may take
    MaxRequests  \* bound: requests that are processed

ASSUME WorkerAssumption == Worker # {}
ASSUME PeriodAssumption == Period \in Nat \ {0}
ASSUME FirstStepAssumption == FirstStep \in Nat \ {0}
ASSUME TimesAssumption == Times \subseteq Nat
ASSUME MaxRequestsAssumption == MaxRequests \in Nat

VARIABLES
    process_request_count, times_taken, send_request_usecs_wait, step,
    increasing, previous_average_time,
    pc,        \* where each worker is in the controller
    count,     \* the request count a worker has read and not written back
    vector,    \* times_taken as a worker found it before its push_back
    average,   \* the sum, then the average, a worker has computed
    wait,      \* the wait a worker has computed
    up,        \* is it an increase?
    turn,      \* does the worker store that in increasing?
    half,      \* the next step a worker has computed; a local is reset once it is used
    cleared,   \* history: has another worker cleared the times since the worker's push?
    begun,     \* requests processed so far
    process    \* is the mid-tier up?

controls == <<send_request_usecs_wait, step, increasing, previous_average_time>>
samples  == <<process_request_count, times_taken>>
locals   == <<count, vector, average, wait, up, turn, half>>
vars     == <<controls, samples, locals, pc, cleared, begun, process>>

Init ==
    /\ process_request_count = 0
    /\ times_taken = <<>>
    /\ send_request_usecs_wait = 0
    /\ step = FirstStep
    /\ increasing = FALSE
    /\ previous_average_time = 0
    /\ pc = [w \in Worker |-> "request"]
    /\ count = [w \in Worker |-> 0]
    /\ vector = [w \in Worker |-> <<>>]
    /\ average = [w \in Worker |-> 0]
    /\ wait = [w \in Worker |-> 0]
    /\ up = [w \in Worker |-> FALSE]
    /\ turn = [w \in Worker |-> FALSE]
    /\ half = [w \in Worker |-> 0]
    /\ cleared = [w \in Worker |-> FALSE]
    /\ begun = 0
    /\ process = TRUE

-----------------------------------------------------------------------------
(* Helpers.                                                                *)

At(w, from, to) ==
    /\ process
    /\ pc[w] = from
    /\ pc' = [pc EXCEPT ![w] = to]

Sum(times) ==
    LET sum[i \in 0 .. Len(times)] == IF i = 0 THEN 0 ELSE sum[i - 1] + times[i]
    IN  sum[Len(times)]

-----------------------------------------------------------------------------
(* Counting.                                                               *)

\* ++process_request_count: the read, then the write.
ReadCount(w) ==
    /\ At(w, "request", "count")
    /\ begun < MaxRequests
    /\ begun' = begun + 1
    /\ count' = [count EXCEPT ![w] = process_request_count]
    /\ UNCHANGED <<controls, samples, vector, average, wait, up, turn, half, cleared, process>>

\* Fault: a request counts twice.
WriteTwice(w) ==
    /\ At(w, "count", "push")
    /\ process_request_count' = count[w] + 2
    /\ count' = [count EXCEPT ![w] = 0]
    /\ UNCHANGED <<controls, times_taken, vector, average, wait, up, turn, half, cleared, begun,
                   process>>

WriteCount(w) ==
    /\ At(w, "count", "push")
    /\ process_request_count' = count[w] + 1
    /\ count' = [count EXCEPT ![w] = 0]
    /\ UNCHANGED <<controls, times_taken, vector, average, wait, up, turn, half, cleared, begun,
                   process>>

\* times_taken.push_back: the end of the vector is read, then written with the
\* new element.
ReadEnd(w) ==
    /\ At(w, "push", "pushing")
    /\ vector' = [vector EXCEPT ![w] = times_taken]
    /\ UNCHANGED <<controls, samples, count, average, wait, up, turn, half, cleared, begun, process>>

\* Fault: the time is not kept.
PushNothing(w) ==
    /\ At(w, "pushing", "check")
    /\ vector' = [vector EXCEPT ![w] = <<>>]
    /\ cleared' = [cleared EXCEPT ![w] = FALSE]
    /\ UNCHANGED <<controls, samples, count, average, wait, up, turn, half, begun, process>>

\* What another worker did to the vector meanwhile is lost or undone; if both
\* move it to new memory, the process may die of it.
Push(w) ==
    /\ At(w, "pushing", "check")
    /\ \E t \in Times : times_taken' = Append(vector[w], t)
    /\ vector' = [vector EXCEPT ![w] = <<>>]
    /\ cleared' = [cleared EXCEPT ![w] = FALSE]
    /\ process' \in {TRUE, times_taken = vector[w]}
    /\ UNCHANGED <<controls, process_request_count, count, average, wait, up, turn, half, begun>>

-----------------------------------------------------------------------------
(* Adjusting.                                                              *)

Due == process_request_count % Period = 0

\* The count is read again, after others may have counted on.
Check(w) ==
    /\ At(w, "check",
          IF Due /\ send_request_usecs_wait >= 0 THEN "sum" ELSE "request")
    /\ UNCHANGED <<controls, samples, locals, cleared, begun, process>>

SumTimes(w) ==
    /\ At(w, "sum", "divide")
    /\ average' = [average EXCEPT ![w] = Sum(times_taken)]
    /\ UNCHANGED <<controls, samples, count, vector, wait, up, turn, half, cleared, begun, process>>

Divide(w) ==
    /\ At(w, "divide", "decide")
    /\ times_taken # <<>>
    /\ average' = [average EXCEPT ![w] = @ \div Len(times_taken)]
    /\ UNCHANGED <<controls, samples, count, vector, wait, up, turn, half, cleared, begun, process>>

\* The size is read when it is divided by: another worker may have cleared the
\* vector since the sum was taken.
DivideByZero(w) ==
    /\ At(w, "divide", "zero")
    /\ times_taken = <<>>
    /\ process' = FALSE
    /\ UNCHANGED <<controls, samples, locals, cleared, begun>>

\* On with the last move if the average has fallen, back if it has not.
Decide(w) ==
    LET fallen == average[w] < previous_average_time
    IN  /\ At(w, "decide", "adjust")
        /\ up' = [up EXCEPT ![w] = (increasing = fallen)]
        /\ turn' = [turn EXCEPT ![w] = ~fallen]
        /\ UNCHANGED <<controls, samples, count, vector, average, wait, half, cleared, begun, process>>

\* The wait is read here and written by MoveWait.
Adjust(w) ==
    /\ At(w, "adjust", "move")
    /\ wait' = [wait EXCEPT ![w] = send_request_usecs_wait + (IF up[w] THEN step ELSE -step)]
    /\ UNCHANGED <<controls, samples, count, vector, average, up, turn, half, cleared, begun, process>>

MoveWait(w) ==
    /\ At(w, "move", IF turn[w] THEN "turn" ELSE "test")
    /\ send_request_usecs_wait' = wait[w]
    /\ wait' = [wait EXCEPT ![w] = 0]
    /\ UNCHANGED <<step, increasing, previous_average_time, samples, count, vector,
                   average, up, turn, half, cleared, begun, process>>

\* Only a change of direction is stored.
Turn(w) ==
    /\ At(w, "turn", "test")
    /\ increasing' = up[w]
    /\ UNCHANGED <<send_request_usecs_wait, step, previous_average_time, samples, locals,
                   cleared, begun, process>>

\* Fault: the step is halved to nothing.
HalveAlways(w) ==
    /\ At(w, "test", "halve")
    /\ UNCHANGED <<controls, samples, locals, cleared, begun, process>>

TestStep(w) ==
    /\ At(w, "test", IF step > 5 THEN "halve" ELSE "remember")
    /\ UNCHANGED <<controls, samples, locals, cleared, begun, process>>

\* The step is read again: another worker may have halved what was tested.
Halve(w) ==
    /\ At(w, "halve", "store")
    /\ half' = [half EXCEPT ![w] = step \div 2]
    /\ UNCHANGED <<controls, samples, count, vector, average, wait, up, turn, cleared, begun, process>>

StoreStep(w) ==
    /\ At(w, "store", "remember")
    /\ step' = half[w]
    /\ half' = [half EXCEPT ![w] = 0]
    /\ UNCHANGED <<send_request_usecs_wait, increasing, previous_average_time, samples, count,
                   vector, average, wait, up, turn, cleared, begun, process>>

Remember(w) ==
    /\ At(w, "remember", "clear")
    /\ previous_average_time' = average[w]
    /\ average' = [average EXCEPT ![w] = 0]
    /\ up' = [up EXCEPT ![w] = FALSE]
    /\ turn' = [turn EXCEPT ![w] = FALSE]
    /\ UNCHANGED <<send_request_usecs_wait, step, increasing, samples, count, vector,
                   wait, half, cleared, begun, process>>

Clear(w) ==
    /\ At(w, "clear", "request")
    /\ times_taken' = <<>>
    /\ cleared' = [v \in Worker |-> v # w \/ cleared[v]]
    /\ UNCHANGED <<controls, process_request_count, locals, begun, process>>

-----------------------------------------------------------------------------
(* The next-state relation.                                                *)

Step(w) ==
    \/ ReadCount(w) \/ WriteCount(w) \/ ReadEnd(w) \/ Push(w)
    \/ Check(w) \/ SumTimes(w) \/ Divide(w) \/ DivideByZero(w)
    \/ Decide(w) \/ Adjust(w) \/ MoveWait(w) \/ Turn(w)
    \/ TestStep(w) \/ Halve(w) \/ StoreStep(w)
    \/ Remember(w) \/ Clear(w)

\* The process is gone, or the bound on the requests is reached.
Rest ==
    /\ ~process \/ (begun = MaxRequests /\ \A w \in Worker : pc[w] = "request")
    /\ UNCHANGED vars

Next == (\E w \in Worker : Step(w)) \/ Rest

Spec == Init /\ [][Next]_vars

-----------------------------------------------------------------------------
(* Properties.                                                             *)

Places == {"request", "count", "push", "pushing", "check", "sum", "divide",
           "decide", "adjust", "move", "turn", "test", "halve", "store",
           "remember", "clear", "zero"}

TypeOK ==
    /\ process_request_count \in 0 .. begun
    /\ times_taken \in Seq(Nat)
    /\ send_request_usecs_wait \in Int
    /\ step \in Nat
    /\ increasing \in BOOLEAN
    /\ previous_average_time \in Nat
    /\ pc \in [Worker -> Places]
    /\ count \in [Worker -> 0 .. begun]
    /\ vector \in [Worker -> Seq(Nat)]
    /\ average \in [Worker -> Nat]
    /\ wait \in [Worker -> Int]
    /\ up \in [Worker -> BOOLEAN]
    /\ turn \in [Worker -> BOOLEAN]
    /\ half \in [Worker -> Nat]
    /\ cleared \in [Worker -> BOOLEAN]
    /\ begun \in 0 .. MaxRequests
    /\ process \in BOOLEAN

AtMostTwo == \A u, v, w \in Worker : u = v \/ v = w \/ u = w

\* Step (840-842) never grows past the first one.  Two workers that race on it may
\* take it below the bound it is tested for, but not to nothing: as long as there are
\* no more, every adjustment moves the wait.  A third can halve a step of 1.
StepMoves == step \in 0 .. FirstStep /\ (AtMostTwo => step > 0)

\* The average (809) is of no samples only if two workers adjust at once: the
\* vector holds at least the worker's own time, whatever the races on it, unless
\* another worker has cleared it since.
DivideRaced == \A w \in Worker : pc[w] = "zero" => cleared[w]
=============================================================================
