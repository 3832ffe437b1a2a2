----------------------------- MODULE Experiment -----------------------------
(***************************************************************************)
(* The experiment driver (run_experiment.py) over deployments (StartUp)    *)
(* and profilers (profiler.py).                                            *)
(*                                                                         *)
(* One try removes what is left of the one before, deploys the services,   *)
(* waits for the client's warm-up, starts the profilers, waits for the end *)
(* of the client's run, stops the profilers, takes their reports and       *)
(* removes the services.  A try whose warm-up fails is made again.  The    *)
(* driver learns of the client only by the lines of its log, and nothing   *)
(* of a removal or a deployment that fails.                                *)
(***************************************************************************)
EXTENDS StartUp, Naturals, Sequences, SequencesExt

CONSTANTS
    Experiments,  \* iters_cycle: tries at one rate that must succeed
    MaxFaults,    \* bound: accidents
    MaxTries      \* bound: tries made

ASSUME ExperimentsAssumption == Experiments \in Nat \ {0}
ASSUME MaxFaultsAssumption == MaxFaults \in Nat
ASSUME MaxTriesAssumption == MaxTries \in Nat /\ Experiments + MaxFaults <= MaxTries

VARIABLES
    faults,    \* accidents so far
    dpc,       \* where the driver is
    todo,      \* the nodes it has still to call
    try,       \* tries begun
    counted,   \* tries that count
    deployed,  \* history: the try that deployed the services there are
    missed,    \* history: removals that have not removed these services
    removing,  \* is the stack being taken down, its network still there?
    profiler,  \* the profiling server on each node
    timeseries,    \* its samples: the try each was taken in
    reported   \* the last report of each node

services     == <<startUpVars, faults>>
stackVars    == <<deployed, missed, removing>>
driverVars   == <<dpc, todo, try, counted, stackVars>>
profilerVars == <<profiler, timeseries, reported>>
vars == <<services, driverVars, profilerVars>>

Init ==
    /\ InitStartUp /\ faults = 0
    /\ dpc = "killStack" /\ todo = {} /\ try = 1 /\ counted = 0
    /\ deployed = 0 /\ missed = 0 /\ removing = FALSE
    /\ profiler = [n \in Node |-> "down"]
    /\ timeseries = [n \in Node |-> <<>>]
    /\ reported = [n \in Node |-> <<>>]

-----------------------------------------------------------------------------
(* The driver: before the run.                                             *)

DriverAt(from, to) == dpc = from /\ dpc' = to

\* docker stack rm: the services and their logs are gone at once, the network is
\* not.
StackRemoved ==
    /\ bucket' = "absent" /\ midtier' = "absent" /\ client' = "absent" /\ log' = {}
    /\ deployed' = 0 /\ missed' = 0
    /\ removing' = (removing \/ deployed # 0)
    /\ UNCHANGED faults

\* An accident happens, of which there are finitely many.
Fault == faults < MaxFaults /\ faults' = faults + 1

\* It fails, or ssh does, and kill_remote drops the return code.
StackMissed ==
    /\ Fault
    /\ deployed # 0
    /\ missed' = missed + 1
    /\ UNCHANGED <<bucket, midtier, client, log, deployed, removing>>

RemoveStack == StackRemoved \/ StackMissed

\* Fault: a try starts where the last one stopped.
KillRemoteSkipped ==
    /\ DriverAt("killStack", "killProfilers")
    /\ UNCHANGED <<services, todo, try, counted, stackVars, profilerVars>>

KillRemote ==
    /\ DriverAt("killStack", "killProfilers")
    /\ RemoveStack
    /\ UNCHANGED <<echo, todo, try, counted, profilerVars>>

\* ansible/profiler.yml gives the keys of its play "Kill remote profiler" twice and
\* the later ones count: no task has the tag kill_profiler and the profilers live on.
KillProfiler ==
    /\ DriverAt("killProfilers", "deploy")
    /\ UNCHANGED <<services, todo, try, counted, stackVars, profilerVars>>

\* docker stack deploy: leaves services alone that are there, and may fail, which
\* run_remote does not look at, while the old network is there.
RunRemote ==
    /\ DriverAt("deploy", "firstLook")
    /\ \/ /\ deployed = 0
          /\ deployed' = try
          /\ bucket' = "build" /\ midtier' = "build" /\ client' = "build"
       \/ (deployed # 0 \/ removing) /\ UNCHANGED <<deployed, bucket, midtier, client>>
    /\ UNCHANGED <<echo, log, faults, todo, try, counted, missed, removing, profilerVars>>

\* startProfiler.sh looks for the warm-up's line and for an error in turn.
FirstLook ==
    /\ DriverAt("firstLook", "waitWarmup")
    /\ "End of Warmup Period" \notin log
    /\ UNCHANGED <<services, todo, try, counted, stackVars, profilerVars>>

\* It goes on after the warm-up.
WarmedUp ==
    /\ DriverAt("firstLook", "launch") \/ DriverAt("waitWarmup", "launch")
    /\ "End of Warmup Period" \in log
    /\ UNCHANGED <<services, todo, try, counted, stackVars, profilerVars>>

\* run_multiple_experiments makes the try again.
TryAgain ==
    /\ DriverAt("waitWarmup", "killStack")
    /\ "Call Status Error Code" \in log
    /\ try < MaxTries
    /\ try' = try + 1
    /\ UNCHANGED <<startUpVars, todo, stackVars, profilerVars>>

\* Fault: a try that failed counts.
RetryCounted ==
    /\ TryAgain
    /\ "End of Warmup Period" \notin log
    /\ counted' = counted + 1
    /\ UNCHANGED faults

\* It gives up on an error.
Retry ==
    /\ TryAgain
    /\ "End of Warmup Period" \notin log
    /\ UNCHANGED <<counted, faults>>

\* The warm-up's line and the error have both come since the first was looked for.
RetryLate ==
    /\ TryAgain
    /\ "End of Warmup Period" \in log
    /\ Fault
    /\ UNCHANGED counted

-----------------------------------------------------------------------------
(* The driver: profilers, run and report.                                  *)

\* A second server finds the port taken and exits.
Launch ==
    /\ DriverAt("launch", "start")
    /\ profiler' = [n \in Node |-> IF profiler[n] = "down" THEN "starting" ELSE profiler[n]]
    /\ timeseries' = [n \in Node |-> IF profiler[n] = "down" THEN <<>> ELSE timeseries[n]]
    /\ todo' = Node
    /\ UNCHANGED <<services, try, counted, stackVars, reported>>

\* Call the next node; one that does not listen is passed over.
Call(n, from, to) ==
    /\ dpc = from
    /\ n \in todo
    /\ todo' = todo \ {n}
    /\ dpc' = IF todo' = {} THEN to ELSE from
    /\ UNCHANGED <<services, try, counted, stackVars, profiler>>

Listens(n) == profiler[n] = "up"

\* Fault: the samples of the last try are kept.
StartUncleared(n) ==
    /\ Call(n, "start", "waitRun")
    /\ timeseries' = IF Listens(n) THEN [timeseries EXCEPT ![n] = Append(@, try)] ELSE timeseries
    /\ UNCHANGED reported

\* start: clear, then the first sample.
Start(n) ==
    /\ Call(n, "start", "waitRun")
    /\ timeseries' = IF Listens(n) THEN [timeseries EXCEPT ![n] = <<try>>] ELSE timeseries
    /\ UNCHANGED reported

\* check-run-status.sh ends with the run or an error; its status is ignored.
RunDone ==
    /\ DriverAt("waitRun", "stop")
    /\ log \cap {"End of Actual Run", "Call Status Error Code"} # {}
    /\ todo' = Node
    /\ UNCHANGED <<services, try, counted, stackVars, profilerVars>>

\* stop: the last sample.
Stop(n) ==
    /\ Call(n, "stop", "report")
    /\ timeseries' = IF Listens(n) THEN [timeseries EXCEPT ![n] = Append(@, try)] ELSE timeseries
    /\ UNCHANGED reported

AllStopped ==
    /\ DriverAt("report", "reporting")
    /\ todo' = Node
    /\ UNCHANGED <<services, try, counted, stackVars, profilerVars>>

Report(n) ==
    /\ Call(n, "reporting", "clean")
    /\ reported' = IF Listens(n) THEN [reported EXCEPT ![n] = timeseries[n]] ELSE reported
    /\ UNCHANGED timeseries

\* Logs are written and the services removed; the try counts.
Finish ==
    /\ counted' = counted + 1
    /\ IF counted' = Experiments
       THEN DriverAt("clean", "over") /\ try' = try
       ELSE DriverAt("clean", "killStack") /\ try' = try + 1
    /\ RemoveStack
    /\ UNCHANGED <<echo, todo, profilerVars>>

Drive ==
    \/ KillRemote \/ KillProfiler \/ RunRemote \/ FirstLook \/ WarmedUp \/ Retry \/ Launch
    \/ RunDone \/ AllStopped \/ Finish
    \/ \E n \in Node : Start(n) \/ Stop(n) \/ Report(n)

-----------------------------------------------------------------------------
(* Services, profilers and network.                                        *)

Service == Progress /\ UNCHANGED <<faults, driverVars, profilerVars>>

\* A process dies, or an RPC fails, for reasons of its own.
Trouble == Fault /\ Accident /\ UNCHANGED <<driverVars, profilerVars>>

ProfilerListens(n) ==
    /\ profiler[n] = "starting"
    /\ profiler' = [profiler EXCEPT ![n] = "up"]
    /\ UNCHANGED <<services, driverVars, timeseries, reported>>

ProfilerDies(n) ==
    /\ Fault
    /\ profiler[n] # "down"
    /\ profiler' = [profiler EXCEPT ![n] = "down"]
    /\ UNCHANGED <<startUpVars, driverVars, timeseries, reported>>

NetworkRemoved ==
    /\ removing
    /\ removing' = FALSE
    /\ UNCHANGED <<services, dpc, todo, try, counted, deployed, missed, profilerVars>>

-----------------------------------------------------------------------------
(* The next-state relation.                                                *)

\* The batch is over, or a script looks at the log once more.
Rest == dpc \in {"over", "waitWarmup", "waitRun"} /\ UNCHANGED vars

Next ==
    \/ Drive \/ RetryLate \/ Service \/ Trouble \/ NetworkRemoved \/ Rest
    \/ \E n \in Node : ProfilerListens(n) \/ ProfilerDies(n)

Spec == Init /\ [][Next]_vars

\* The driver and what it waits for go on; nothing has to go wrong.
FairSpec ==
    /\ Spec
    /\ WF_vars(Drive) /\ WF_vars(Service) /\ WF_vars(NetworkRemoved)
    /\ \A n \in Node : WF_vars(ProfilerListens(n))

-----------------------------------------------------------------------------
(* Properties.                                                             *)

TypeOK ==
    /\ StartUpTypeOK
    /\ faults \in 0 .. MaxFaults
    /\ dpc \in {"killStack", "killProfilers", "deploy", "firstLook", "waitWarmup",
                "launch", "start", "waitRun", "stop", "report", "reporting", "clean", "over"}
    /\ todo \subseteq Node
    /\ try \in 1 .. MaxTries
    /\ counted \in 0 .. Experiments
    /\ deployed \in 0 .. MaxTries
    /\ missed \in 0 .. faults
    /\ removing \in BOOLEAN
    /\ profiler \in [Node -> {"down", "starting", "up"}]
    /\ timeseries \in [Node -> Seq(1 .. MaxTries)]
    /\ reported \in [Node -> Seq(1 .. MaxTries)]

\* A series that is reported was sampled in one try, at most at its start and its
\* end, although no profiler is ever killed between two tries and any may die, come
\* back or miss a call: the analysis takes the first and the last sample for the run.
NoMixedSeries ==
    \A n \in Node :
        /\ Len(reported[n]) <= 2
        /\ \A i, j \in DOMAIN reported[n] : reported[n][i] = reported[n][j]

Measuring == dpc \in {"launch", "start", "waitRun", "stop", "report", "reporting", "clean"}

\* The driver measures the services of its own try: the line it went on after is
\* not one that an earlier client left in the log, although the driver learns neither
\* of a removal nor of a deployment that fails.  Each try that the services are behind
\* is one removal, at least, that was not made.
OwnServices == Measuring => deployed \in 1 .. try /\ try - deployed <= missed

\* A deployment that no line will ever tell of: it failed, or the client is gone, or
\* it waits for a mid-tier that is, or that waits for a bucket that is, without a word.
Silent ==
    \/ dpc = "waitWarmup" /\ log = {}
       /\ \/ client \in {"absent", "exited"}
          \/ client = "build" /\ midtier = "exited"
          \/ client = "build" /\ midtier = "build" /\ bucket = "exited"
    \/ dpc = "waitRun" /\ log = {"End of Warmup Period"} /\ client = "exited"

\* The driver has no step: it is through, its script sees no line to go on with, or
\* (what must not be) the bound keeps it.
DriverWaits ==
    \/ dpc = "over"
    \/ /\ dpc = "waitWarmup" /\ "End of Warmup Period" \notin log
       /\ "Call Status Error Code" \in log => try = MaxTries
    \/ dpc = "waitRun" /\ log \cap {"End of Actual Run", "Call Status Error Code"} = {}

\* No process of the deployment has a step of its own.
ServicesWait ==
    /\ \A n \in Node : echo[n] # "down"
    /\ bucket # "build"
    /\ midtier \in {"absent", "build", "serving", "exited"}
    /\ midtier = "build" => bucket # "listening"
    /\ midtier = "serving" => client # "build" /\ "End of Actual Run" \notin log
    /\ client \in {"absent", "build", "exited"}

\* The driver and the services never wait for each other but in silence: the end of
\* the batch, or a deployment of which no line will ever tell.
OnlySilenceStops == DriverWaits /\ ServicesWait => dpc = "over" \/ Silent

\* Errors that the client prints never keep the batch from its end, nor does a removal
\* that fails, although a failed try is made again without limit: only a silent
\* deployment does.
BatchEnds == <>(dpc = "over") \/ <>[]Silent
=============================================================================
