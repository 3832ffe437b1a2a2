----------------------------- MODULE PreRequest -----------------------------
(***************************************************************************)
(* The pre-request of the mid-tier (mid_tier_server.cc) and the server it  *)
(* goes to (server.c).                                                     *)
(*                                                                         *)
(* Every worker raises sendRequestFlag when it begins a request and clears *)
(* it when it has sent the request to the buckets.  The helper thread      *)
(* spins on the flag, waits send_request_usecs_wait microseconds while the *)
(* flag stays up, looks at the flag once more, sends "Hello" to the other  *)
(* machine, reads the reply and clears the flag.  One flag serves all the  *)
(* workers.  Time is read as tv_usec, which starts again every second.     *)
(***************************************************************************)
EXTENDS Integers

CONSTANTS
    Workers,   \* dispatch threads
    Wait,      \* send_request_usecs_wait, negative to disable pre-requests
    Second     \* microseconds per second

ASSUME WaitAssumption == Wait \in Int
ASSUME SecondAssumption == Second \in Nat /\ Second > 1 /\ Wait < Second

VARIABLES
    flag,      \* sendRequestFlag
    wpc,       \* where each worker is in ProcessRequest
    hpc,       \* where the helper thread is
    startUsec, \* start_time.tv_usec of helperThreadFunction
    endUsec,   \* end_time.tv_usec
    usec,      \* the clock's tv_usec now
    passed,    \* microseconds since start_time was read, at most Second
    atRead,    \* passed when end_time was read last
    wrapped,   \* has tv_usec started again since end_time was first read?
    owed,      \* has a request begun since the last pre-request?
    anew,      \* has the flag gone down and up again since the helper saw it?
    toEcho,    \* pre-requests on their way to the other machine
    toHelper,  \* replies on their way back
    echo,      \* what server.c does: it serves one connection at a time
    link,      \* is the connection to server.c alive?
    process    \* is the mid-tier process alive?

workerVars == <<wpc, owed, anew>>
clockVars  == <<usec, passed, wrapped>>
timerVars  == <<startUsec, endUsec, atRead>>
wireVars   == <<toEcho, toHelper, echo, link>>
vars == <<flag, workerVars, hpc, clockVars, timerVars, wireVars, process>>

\* helperThreadFunction returns at once when pre-requests are disabled.  The
\* connection of the helper may wait in the backlog behind another one.
Init ==
    /\ flag = FALSE
    /\ wpc = [w \in Workers |-> "idle"]
    /\ hpc = IF Wait >= 0 THEN "spin" ELSE "returned"
    /\ startUsec = 0
    /\ endUsec = 0
    /\ usec \in 0 .. Second - 1
    /\ passed = 0
    /\ atRead = 0
    /\ wrapped = FALSE
    /\ owed = FALSE
    /\ anew = FALSE
    /\ toEcho = 0
    /\ toHelper = 0
    /\ echo \in {"reading", "elsewhere"}
    /\ link = TRUE
    /\ process = TRUE

-----------------------------------------------------------------------------
(* Workers: ProcessRequest.                                                *)

Begin(w) ==
    /\ process
    /\ wpc[w] = "idle"
    /\ wpc' = [wpc EXCEPT ![w] = "processing"]
    /\ IF Wait >= 0
       THEN flag' = TRUE /\ owed' = TRUE /\ anew' = (anew \/ ~flag)
       ELSE UNCHANGED <<flag, owed, anew>>
    /\ UNCHANGED <<hpc, clockVars, timerVars, wireVars, process>>

\* Fault: the flag is left up after the bucket requests are out.
EndFlagLeft(w) ==
    /\ process
    /\ wpc[w] = "processing"
    /\ wpc' = [wpc EXCEPT ![w] = "idle"]
    /\ UNCHANGED <<flag, owed, anew, hpc, clockVars, timerVars, wireVars, process>>

End(w) ==
    /\ process
    /\ wpc[w] = "processing"
    /\ wpc' = [wpc EXCEPT ![w] = "idle"]
    /\ flag' = FALSE
    /\ UNCHANGED <<owed, anew, hpc, clockVars, timerVars, wireVars, process>>

\* A kill request never reaches the end of the function: the worker sleeps,
\* then the process exits.
Sleep(w) ==
    /\ process
    /\ wpc[w] = "processing"
    /\ wpc' = [wpc EXCEPT ![w] = "asleep"]
    /\ UNCHANGED <<flag, owed, anew, hpc, clockVars, timerVars, wireVars, process>>

Exit(w) ==
    /\ process
    /\ wpc[w] = "asleep"
    /\ process' = FALSE
    /\ UNCHANGED <<flag, workerVars, hpc, clockVars, timerVars, wireVars>>

-----------------------------------------------------------------------------
(* The helper thread: helperThreadFunction, send_request.                  *)

HelperGoes(from, to) == process /\ hpc = from /\ hpc' = to

SeeFlag ==
    /\ HelperGoes("spin", IF Wait > 0 THEN "readEnd" ELSE "check")
    /\ flag
    /\ anew' = FALSE
    /\ UNCHANGED <<flag, wpc, owed, clockVars, timerVars, wireVars, process>>

\* gettimeofday(&end_time), then gettimeofday(&start_time).
ReadEnd ==
    /\ HelperGoes("readEnd", "readStart")
    /\ endUsec' = usec
    /\ wrapped' = FALSE
    /\ UNCHANGED <<flag, workerVars, usec, passed, startUsec, atRead, wireVars,
                   process>>

ReadStart ==
    /\ HelperGoes("readStart", "wait")
    /\ startUsec' = usec
    /\ passed' = 0
    /\ atRead' = 0
    /\ UNCHANGED <<flag, workerVars, usec, wrapped, endUsec, wireVars, process>>

\* Fault: the loop ends one microsecond early.
KeepsWaitingShort == endUsec - startUsec + 1 < Wait /\ flag

\* Fault: the loop does not look at the flag.
KeepsWaitingBlind == endUsec - startUsec < Wait

\* The condition of the wait loop.
KeepsWaiting == endUsec - startUsec < Wait /\ flag

WaitOn ==
    /\ HelperGoes("wait", "wait")
    /\ KeepsWaiting
    /\ endUsec' = usec
    /\ atRead' = passed
    /\ UNCHANGED <<flag, workerVars, clockVars, startUsec, wireVars, process>>

WaitOver ==
    /\ HelperGoes("wait", "check")
    /\ ~KeepsWaiting
    /\ UNCHANGED <<flag, workerVars, clockVars, timerVars, wireVars, process>>

Check ==
    /\ HelperGoes("check", IF flag THEN "send" ELSE "reset")
    /\ UNCHANGED <<flag, workerVars, clockVars, timerVars, wireVars, process>>

\* Fault: the reply is not read, as in send_request(false, ...).
SendUnread ==
    /\ HelperGoes("send", "reset")
    /\ toEcho' = toEcho + 1
    /\ owed' = FALSE
    /\ UNCHANGED <<flag, wpc, anew, clockVars, timerVars, toHelper, echo, link, process>>

\* send() succeeds; on a dead connection it may still do so once.
Send ==
    /\ HelperGoes("send", "read")
    /\ toEcho' = toEcho + 1
    /\ owed' = FALSE
    /\ UNCHANGED <<flag, wpc, anew, clockVars, timerVars, toHelper, echo, link, process>>

\* send() fails on a dead connection; the error is not looked at.
SendFails ==
    /\ HelperGoes("send", "reset")
    /\ ~link
    /\ UNCHANGED <<flag, workerVars, clockVars, timerVars, wireVars, process>>

ReadReply ==
    /\ HelperGoes("read", "reset")
    /\ toHelper > 0
    /\ toHelper' = toHelper - 1
    /\ UNCHANGED <<flag, workerVars, clockVars, timerVars, toEcho, echo, link,
                   process>>

\* read() fails; what was sent is lost with the connection.
ReadFails ==
    /\ HelperGoes("read", "reset")
    /\ ~link /\ toHelper = 0
    /\ toEcho' = 0
    /\ UNCHANGED <<flag, workerVars, clockVars, timerVars, toHelper, echo, link,
                   process>>

\* Fault: the flag is not taken down after the pre-request.
ResetForgotten ==
    /\ HelperGoes("reset", "spin")
    /\ UNCHANGED <<flag, workerVars, clockVars, timerVars, wireVars, process>>

Reset ==
    /\ HelperGoes("reset", "spin")
    /\ flag' = FALSE
    /\ UNCHANGED <<workerVars, clockVars, timerVars, wireVars, process>>

-----------------------------------------------------------------------------
(* server.c: accept, then read and answer until the connection ends.       *)

\* The connection served so far ends and the helper's is accepted.
EchoAccept ==
    /\ link /\ echo = "elsewhere"
    /\ echo' = "reading"
    /\ UNCHANGED <<flag, workerVars, hpc, clockVars, timerVars, toEcho, toHelper,
                   link, process>>

EchoRead ==
    /\ link /\ echo = "reading" /\ toEcho > 0
    /\ toEcho' = toEcho - 1
    /\ echo' = "answering"
    /\ UNCHANGED <<flag, workerVars, hpc, clockVars, timerVars, toHelper, link,
                   process>>

EchoAnswer ==
    /\ link /\ echo = "answering"
    /\ toHelper' = toHelper + 1
    /\ echo' = "reading"
    /\ UNCHANGED <<flag, workerVars, hpc, clockVars, timerVars, toEcho, link,
                   process>>

\* External: server.c or its machine goes down.
EchoDies ==
    /\ link
    /\ link' = FALSE
    /\ UNCHANGED <<flag, workerVars, hpc, clockVars, timerVars, toEcho, toHelper,
                   echo, process>>

\* External: a microsecond passes.  Only a helper that waits looks at the
\* clock, so it moves only then.
Tick ==
    /\ process
    /\ hpc \in {"readEnd", "readStart", "wait"}
    /\ usec' = (usec + 1) % Second
    /\ passed' = IF passed < Second THEN passed + 1 ELSE passed
    /\ wrapped' = (wrapped \/ usec' = 0)
    /\ UNCHANGED <<flag, workerVars, hpc, timerVars, wireVars, process>>

-----------------------------------------------------------------------------
(* The next-state relation.                                                *)

WorkerStep(w) == Begin(w) \/ End(w) \/ Sleep(w) \/ Exit(w)

HelperStep ==
    \/ SeeFlag \/ ReadEnd \/ ReadStart \/ WaitOn \/ WaitOver \/ Check
    \/ Send \/ SendFails \/ ReadReply \/ ReadFails \/ Reset

EchoStep == EchoRead \/ EchoAnswer

Next ==
    \/ \E w \in Workers : WorkerStep(w)
    \/ HelperStep
    \/ EchoStep \/ EchoAccept \/ EchoDies
    \/ Tick
    \/ ~process /\ UNCHANGED vars

Spec == Init /\ [][Next]_vars

\* The helper and an echo server that has our connection keep running.
FairSpec == Spec /\ WF_vars(HelperStep) /\ WF_vars(EchoStep)

-----------------------------------------------------------------------------
(* Properties.                                                             *)

TypeOK ==
    /\ flag \in BOOLEAN
    /\ wpc \in [Workers -> {"idle", "processing", "asleep"}]
    /\ hpc \in {"returned", "spin", "readEnd", "readStart", "wait", "check",
                "send", "read", "reset"}
    /\ startUsec \in 0 .. Second - 1
    /\ endUsec \in 0 .. Second - 1
    /\ usec \in 0 .. Second - 1
    /\ passed \in 0 .. Second
    /\ atRead \in 0 .. Second
    /\ wrapped \in BOOLEAN
    /\ owed \in BOOLEAN
    /\ anew \in BOOLEAN
    /\ toEcho \in 0 .. 1
    /\ toHelper \in 0 .. 1
    /\ echo \in {"reading", "answering", "elsewhere"}
    /\ link \in BOOLEAN
    /\ process \in BOOLEAN

\* However the workers' stores and the helper's interleave, the flag never
\* stays up when no request is being processed: a stale flag would send a
\* pre-request for nobody.
FlagMeansRequest == flag => \E w \in Workers : wpc[w] # "idle"

\* Every pre-request answers to a request begun since the last one: one
\* raised flag never sends two.
OnePerRequest == hpc = "send" => owed

\* The reply the helper reads is the one to the pre-request it has just sent:
\* outside the read nothing is on the wire, and one message at most within.
ReplyToLast ==
    link => toEcho + toHelper + (IF echo = "answering" THEN 1 ELSE 0)
              = (IF hpc = "read" THEN 1 ELSE 0)

\* A pre-request is sent (151) before send_request_usecs_wait have passed only if tv_usec
\* has started again during the wait, or if the request the helper saw has ended and
\* another has raised the flag before it is tested at 150: the wait is then cut short,
\* and the new request's pre-request leaves without one.
NeverEarly ==
    hpc = "send" /\ Wait > 0 => atRead >= Wait \/ wrapped \/ anew

\* When requests stop coming the helper ends up spinning on a flag that is
\* down, unless server.c never turns to its connection.
ComesToRest ==
    <>[](process /\ \A w \in Workers : wpc[w] = "idle")
      => \/ <>[](hpc \in {"spin", "returned"} /\ ~flag)
         \/ <>[](echo = "elsewhere")

\* The comment at 142 says the loop checks whether send_request_usecs_wait
\* have passed: the comparison of tv_usec must agree with the time.
LoopMeasuresTime ==
    hpc = "wait" => (endUsec - startUsec < Wait <=> atRead < Wait)

\* The comment at 867 says "Don't send pre request after here": none leaves
\* when every worker is done with its request.
SentDuringRequest ==
    [][toEcho' > toEcho => \E w \in Workers : wpc[w] # "idle"]_vars
=============================================================================
