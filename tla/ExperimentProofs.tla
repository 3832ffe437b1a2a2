-------------------------- MODULE ExperimentProofs --------------------------
(***************************************************************************)
(* Proofs about Experiment, for every number of experiments and accidents. *)
(***************************************************************************)
EXTENDS Experiment, SequenceTheorems, TLAPS

\* The services are deployed together.  A client that has found the mid-tier has one
\* that served; one past its warm-up has said so, and none prints before.
StackOrder ==
    /\ client \in {"connect", "load", "start", "warmup", "run", "kill"} =>
           midtier \in {"serving", "exited"}
    /\ client \in {"run", "kill"} => "End of Warmup Period" \in log
    /\ "End of Actual Run" \in log => "End of Warmup Period" \in log
    /\ client = "absent" <=> midtier = "absent"
    /\ bucket = "absent" <=> midtier = "absent"
    /\ log # {} => client \in {"warmup", "run", "kill", "exited"}

\* A deployment whose warm-up has failed, or can no more succeed.
Lost ==
    /\ "End of Warmup Period" \notin log
    /\ \/ "Call Status Error Code" \in log
       \/ client \in {"connect", "load", "start", "warmup"} /\ midtier = "exited"
       \/ client \in {"build", "connect", "load", "start", "warmup"} /\ bucket = "exited"

\* Nothing of the services is there, not even a line of their log.
Removed ==
    /\ bucket = "absent" /\ midtier = "absent" /\ client = "absent" /\ log = {}
    /\ missed = 0

\* What is deployed, how many tries it is behind, and that it has warmed up, by where
\* the driver is.
Deployment ==
    /\ deployed = 0 => Removed
    /\ deployed # 0 =>
           /\ deployed <= try
           /\ dpc = "killStack" => try - deployed <= missed + 1
           /\ dpc # "killStack" => try - deployed <= missed
    /\ Measuring => "End of Warmup Period" \in log

\* Every try that did not count has cost an accident; one that is lost and still
\* waited for has cost one more.
TriesPaid ==
    /\ dpc # "over" => counted < Experiments /\ counted < try
    /\ try - 1 - counted <= faults
    /\ Lost /\ dpc # "killStack" => try - counted <= faults

Pure(series) == Len(series) <= 2 /\ \A i, j \in DOMAIN series : series[i] = series[j]

\* Is the first sample of n taken, or missed, and the last one to come?
Between(n) ==
    \/ dpc = "start" /\ n \notin todo
    \/ dpc = "waitRun"
    \/ dpc = "stop" /\ n \in todo

\* The samples of every node, by where the driver and its profiler are.
Samples ==
    \A n \in Node :
        /\ Pure(timeseries[n]) /\ Pure(reported[n])
        /\ profiler[n] = "starting" => timeseries[n] = <<>>
        /\ profiler[n] = "up" /\ Between(n) => timeseries[n] \in {<<>>, <<try>>}

\* The inductive invariant.
IInv ==
    /\ TypeOK
    /\ StackOrder
    /\ Deployment
    /\ TriesPaid
    /\ Samples

-----------------------------------------------------------------------------
\* Empty series and those of one sample are pure, and stay so with one more sample
\* of the same try.
LEMMA PureSeries ==
    ASSUME NEW t \in 1 .. MaxTries
    PROVE  /\ Pure(<<>>) /\ Pure(<<t>>)
           /\ <<>> \in Seq(1 .. MaxTries) /\ <<t>> \in Seq(1 .. MaxTries)
           /\ \A s \in {<<>>, <<t>>} :
                  Pure(Append(s, t)) /\ Append(s, t) \in Seq(1 .. MaxTries)
<1>1. Pure(<<>>) /\ Pure(<<t>>)
  BY DEF Pure
<1>2. <<>> \in Seq(1 .. MaxTries) /\ <<t>> \in Seq(1 .. MaxTries)
  OBVIOUS
<1>3. ASSUME NEW s \in {<<>>, <<t>>}
      PROVE  Pure(Append(s, t)) /\ Append(s, t) \in Seq(1 .. MaxTries)
  <2>1. s \in Seq(1 .. MaxTries) /\ Len(s) \in 0 .. 1
    <3>1. s = <<>> => Len(s) = 0
      OBVIOUS
    <3>2. s = <<t>> => Len(s) = 1
      OBVIOUS
    <3>3. Len(s) \in 0 .. 1
      BY <3>1, <3>2
    <3>4. s \in Seq(1 .. MaxTries)
      BY <1>2
    <3> QED
      BY <3>3, <3>4
  <2>2. \A i \in 1 .. Len(s) : s[i] = t
    OBVIOUS
  <2> DEFINE a == Append(s, t)
  <2>3. /\ a \in Seq(1 .. MaxTries) /\ Len(a) = Len(s) + 1
        /\ \A i \in 1 .. Len(s) : a[i] = s[i]
        /\ a[Len(s) + 1] = t
    BY <2>1, AppendProperties
  <2>4. DOMAIN a = 1 .. Len(a) /\ \A i \in 1 .. Len(a) : a[i] = t
    BY <2>1, <2>2, <2>3
  <2> HIDE DEF a
  <2>5. Pure(a)
    BY <2>1, <2>3, <2>4 DEF Pure
  <2> QED
    BY <2>3, <2>5 DEF a
<1> QED
  BY <1>1, <1>2, <1>3

\* The numbers and their bounds.
LEMMA Numbers ==
    ASSUME TypeOK
    PROVE  /\ faults \in Nat /\ try \in Nat /\ counted \in Nat /\ deployed \in Nat
           /\ missed \in Nat /\ missed <= faults
           /\ Experiments \in Nat /\ MaxTries \in Nat /\ MaxFaults \in Nat
           /\ faults <= MaxFaults /\ 1 <= try /\ try <= MaxTries
           /\ counted <= Experiments /\ deployed <= MaxTries
           /\ Experiments + MaxFaults <= MaxTries
<1>1. faults \in 0 .. MaxFaults /\ missed \in 0 .. faults
  BY DEF TypeOK
<1>2. try \in 1 .. MaxTries /\ counted \in 0 .. Experiments /\ deployed \in 0 .. MaxTries
  BY DEF TypeOK
<1>3. Experiments \in Nat /\ MaxTries \in Nat /\ MaxFaults \in Nat
  BY ExperimentsAssumption, MaxTriesAssumption, MaxFaultsAssumption
<1> QED
  BY <1>1, <1>2, <1>3, MaxTriesAssumption

\* A try more is one more that the services are behind.
LEMMA NextTry ==
    ASSUME NEW t \in Nat, NEW d \in Nat, NEW m \in Nat, d <= t
    PROVE  /\ d <= t + 1
           /\ t - d <= m => (t + 1) - d <= m + 1 /\ t - d <= m + 1
OBVIOUS

\* Before the first try the invariant holds.
LEMMA InitInvariant == Init => IInv
<1> SUFFICES ASSUME Init PROVE IInv
  OBVIOUS
<1> USE DEF Init, InitStartUp
<1>0. 1 \in 1 .. MaxTries
  BY ExperimentsAssumption, MaxTriesAssumption, MaxFaultsAssumption
<1>1. TypeOK
  <2>1. StartUpTypeOK
    BY DEF StartUpTypeOK
  <2>2. try \in 1 .. MaxTries /\ counted \in 0 .. Experiments /\ deployed \in 0 .. MaxTries
    BY <1>0, ExperimentsAssumption, MaxTriesAssumption
  <2>3. timeseries \in [Node -> Seq(1 .. MaxTries)] /\ reported \in [Node -> Seq(1 .. MaxTries)]
    BY <1>0, PureSeries
  <2>4. faults \in 0 .. MaxFaults /\ missed \in 0 .. faults
    BY MaxFaultsAssumption
  <2> QED
    BY <2>1, <2>2, <2>3, <2>4 DEF TypeOK
<1>2. StackOrder
  BY DEF StackOrder
<1>3. Deployment
  BY DEF Deployment, Removed, Measuring
<1>4. TriesPaid
  BY ExperimentsAssumption DEF TriesPaid, Lost
<1>5. Samples
  BY <1>0, PureSeries DEF Samples, Between
<1> QED
  BY <1>1, <1>2, <1>3, <1>4, <1>5 DEF IInv

-----------------------------------------------------------------------------

\* What a step of the services, or an accident, leaves alone or keeps in order.
SafeStep ==
    /\ StartUpTypeOK' /\ StackOrder'
    /\ client = "absent" => client' = "absent" /\ log' = log
    /\ midtier = "absent" => midtier' = "absent"
    /\ bucket = "absent" => bucket' = "absent"
    /\ log \subseteq log'

\* Every step of the services, and every accident, is safe in this sense; and no
\* deployment is lost but by an accident.
LEMMA ServicesSafe ==
    ASSUME StartUpTypeOK, StackOrder, Progress \/ Accident
    PROVE  SafeStep /\ (Progress /\ Lost' => Lost)
<1> USE DEF EchoListens, EchoExits, BucketAt, BucketListens, BucketExits, MidtierAt,
           MidtierBuilt, MidtierConnects, MidtierRefused, MidtierLoads, MidtierServes,
           MidtierDies, MidtierLosesBucket, MidtierKilled, ClientPrints, ClientFindsMidtier,
           ClientConnects, ClientRefused, ClientLoads, ClientStarts, WarmupEnds, RunEnds,
           KillAcked, RpcFails, ClientFails, ClientDies
<1>1. echo' \in [Node -> {"down", "listening", "exited"}]
  BY DEF StartUpTypeOK, Progress, Accident
<1>2. /\ midtier' \in {"absent", "build", "connect", "load", "index", "serving", "exited"}
      /\ client' \in {"absent", "build", "connect", "load", "start", "warmup", "run", "kill",
                      "exited"}
      /\ bucket' \in {"absent", "build", "listening", "exited"}
  BY DEF StartUpTypeOK, Progress, Accident
<1>3. log' \subseteq {"End of Warmup Period", "End of Actual Run", "Call Status Error Code"}
  BY DEF StartUpTypeOK, Progress, Accident
<1>4. StackOrder'
  BY DEF StackOrder, StartUpTypeOK, Progress, Accident
<1>5. /\ client = "absent" => client' = "absent" /\ log' = log
      /\ midtier = "absent" => midtier' = "absent"
      /\ bucket = "absent" => bucket' = "absent"
      /\ log \subseteq log'
  BY DEF Progress, Accident
<1>6. Progress /\ Lost' => Lost
  BY DEF Lost, StackOrder, Progress
<1> QED
  BY <1>1, <1>2, <1>3, <1>4, <1>5, <1>6 DEF SafeStep, StartUpTypeOK

-----------------------------------------------------------------------------

\* A removal leaves nothing, or everything and costs an accident.
LEMMA Removal ==
    ASSUME TypeOK, StackOrder, Deployment, RemoveStack, UNCHANGED echo
    PROVE  /\ StartUpTypeOK' /\ StackOrder'
           /\ removing' \in BOOLEAN
           /\ \/ deployed' = 0 /\ Removed' /\ ~Lost' /\ faults' = faults
              \/ /\ deployed # 0 /\ UNCHANGED <<deployed, log>> /\ (Lost' <=> Lost)
                 /\ faults < MaxFaults /\ faults' = faults + 1 /\ missed' = missed + 1
<1>1. CASE StackRemoved
  BY <1>1 DEF StackRemoved, TypeOK, StartUpTypeOK, StackOrder, Removed, Lost
<1>2. CASE StackMissed
  BY <1>2 DEF StackMissed, Fault, TypeOK, StartUpTypeOK, StackOrder, Lost
<1> QED
  BY <1>1, <1>2 DEF RemoveStack

\* The clean-up before a try keeps the invariant.
LEMMA KillRemoteKeeps ==
    ASSUME IInv, KillRemote
    PROVE  IInv'
<1>0. TypeOK /\ StackOrder /\ Deployment /\ TriesPaid /\ Samples
  BY DEF IInv
<1>u. /\ dpc = "killStack" /\ dpc' = "killProfilers" /\ RemoveStack
      /\ UNCHANGED <<echo, todo, try, counted, profiler, timeseries, reported>>
  BY DEF KillRemote, DriverAt, profilerVars
<1>n. /\ StartUpTypeOK' /\ StackOrder' /\ removing' \in BOOLEAN
      /\ \/ deployed' = 0 /\ Removed' /\ ~Lost' /\ faults' = faults
         \/ /\ deployed # 0 /\ UNCHANGED <<deployed, log>> /\ (Lost' <=> Lost)
            /\ faults < MaxFaults /\ faults' = faults + 1 /\ missed' = missed + 1
  BY <1>0, <1>u, Removal
<1>f. faults' \in 0 .. MaxFaults /\ missed' \in 0 .. faults'
  BY <1>0, <1>n, Numbers DEF Removed
<1>2. TriesPaid'
  BY <1>0, <1>n, <1>u, Numbers DEF TriesPaid
<1>5. try' \in 1 .. MaxTries /\ counted' \in 0 .. Experiments /\ deployed' \in 0 .. MaxTries
  BY <1>0, <1>n, <1>u, Numbers DEF TriesPaid
<1>3. Deployment'
  BY <1>0, <1>n, <1>u, Numbers DEF Deployment, Measuring
<1>s. Samples'
  BY <1>0, <1>u DEF Samples, Between
<1>4. TypeOK'
  BY <1>0, <1>u, <1>f, <1>n, <1>5 DEF TypeOK
<1> QED
  BY <1>n, <1>2, <1>3, <1>s, <1>4 DEF IInv

\* The call that should kill the profilers keeps the invariant.
LEMMA KillProfilerKeeps ==
    ASSUME IInv, KillProfiler
    PROVE  IInv'
<1>0. TypeOK /\ StackOrder /\ Deployment /\ TriesPaid /\ Samples
  BY DEF IInv
<1>n. UNCHANGED <<try, counted, faults, deployed, missed>>
  BY DEF KillProfiler, services, startUpVars, driverVars, stackVars, profilerVars, DriverAt
<1>f. faults' \in 0 .. MaxFaults /\ missed' \in 0 .. faults'
  BY <1>0, <1>n, Numbers
<1>1. StartUpTypeOK' /\ StackOrder'
  BY <1>0
     DEF TypeOK, StartUpTypeOK, StackOrder, Deployment, Removed, KillProfiler, services,
         startUpVars, driverVars, stackVars, profilerVars, DriverAt
<1>l. (Lost' => Lost) /\ dpc # "over" /\ dpc' # "over" /\ dpc # "killStack"
  BY <1>0
     DEF Lost, Deployment, Removed, Measuring, KillProfiler, services, startUpVars, driverVars,
         stackVars, profilerVars, DriverAt
<1>2. TriesPaid'
  BY <1>0, <1>n, <1>l, Numbers DEF TriesPaid
<1>5. try' \in 1 .. MaxTries /\ counted' \in 0 .. Experiments /\ deployed' \in 0 .. MaxTries
  BY <1>0, <1>n, Numbers DEF TriesPaid
<1>3. Deployment'
  BY <1>0, <1>n, Numbers
     DEF Deployment, Measuring, Removed, TypeOK, KillProfiler, services, startUpVars, driverVars,
         stackVars, profilerVars, DriverAt
<1>s. /\ Samples'
      /\ timeseries' \in [Node -> Seq(1 .. MaxTries)] /\ reported' \in [Node -> Seq(1 .. MaxTries)]
  BY <1>0, PureSeries
     DEF Samples, Between, TypeOK, KillProfiler, services, startUpVars, driverVars, stackVars,
         profilerVars, DriverAt
<1>4. TypeOK'
  BY <1>0, <1>f, <1>1, <1>5, <1>s
     DEF TypeOK, KillProfiler, services, startUpVars, driverVars, stackVars, profilerVars, DriverAt
<1> QED
  BY <1>1, <1>2, <1>3, <1>s, <1>4 DEF IInv

\* The deployment keeps the invariant.
LEMMA RunRemoteKeeps ==
    ASSUME IInv, RunRemote
    PROVE  IInv'
<1>0. TypeOK /\ StackOrder /\ Deployment /\ TriesPaid /\ Samples
  BY DEF IInv
<1>n. /\ deployed' = try \/ deployed' = deployed
      /\ UNCHANGED <<try, counted, faults, missed>>
  BY DEF RunRemote, services, startUpVars, driverVars, stackVars, profilerVars, DriverAt
<1>f. faults' \in 0 .. MaxFaults /\ missed' \in 0 .. faults'
  BY <1>0, <1>n, Numbers
<1>1. StartUpTypeOK' /\ StackOrder'
  BY <1>0
     DEF TypeOK, StartUpTypeOK, StackOrder, Deployment, Removed, RunRemote, services, startUpVars,
         driverVars, stackVars, profilerVars, DriverAt
<1>l. (Lost' => Lost) /\ dpc # "over" /\ dpc' # "over" /\ dpc # "killStack"
  BY <1>0
     DEF Lost, Deployment, Removed, Measuring, RunRemote, services, startUpVars, driverVars,
         stackVars, profilerVars, DriverAt
<1>2. TriesPaid'
  BY <1>0, <1>n, <1>l, Numbers DEF TriesPaid
<1>5. try' \in 1 .. MaxTries /\ counted' \in 0 .. Experiments /\ deployed' \in 0 .. MaxTries
  BY <1>0, <1>n, Numbers DEF TriesPaid
<1>3. Deployment'
  BY <1>0, <1>n, Numbers
     DEF Deployment, Measuring, Removed, TypeOK, RunRemote, services, startUpVars, driverVars,
         stackVars, profilerVars, DriverAt
<1>s. /\ Samples'
      /\ timeseries' \in [Node -> Seq(1 .. MaxTries)] /\ reported' \in [Node -> Seq(1 .. MaxTries)]
  BY <1>0, PureSeries
     DEF Samples, Between, TypeOK, RunRemote, services, startUpVars, driverVars, stackVars,
         profilerVars, DriverAt
<1>4. TypeOK'
  BY <1>0, <1>f, <1>1, <1>5, <1>s
     DEF TypeOK, RunRemote, services, startUpVars, driverVars, stackVars, profilerVars, DriverAt
<1> QED
  BY <1>1, <1>2, <1>3, <1>s, <1>4 DEF IInv

\* The first look at the log keeps the invariant.
LEMMA FirstLookKeeps ==
    ASSUME IInv, FirstLook
    PROVE  IInv'
<1>0. TypeOK /\ StackOrder /\ Deployment /\ TriesPaid /\ Samples
  BY DEF IInv
<1>n. UNCHANGED <<try, counted, faults, deployed, missed>>
  BY DEF FirstLook, services, startUpVars, driverVars, stackVars, profilerVars, DriverAt
<1>f. faults' \in 0 .. MaxFaults /\ missed' \in 0 .. faults'
  BY <1>0, <1>n, Numbers
<1>1. StartUpTypeOK' /\ StackOrder'
  BY <1>0
     DEF TypeOK, StartUpTypeOK, StackOrder, Deployment, Removed, FirstLook, services, startUpVars,
         driverVars, stackVars, profilerVars, DriverAt
<1>l. (Lost' => Lost) /\ dpc # "over" /\ dpc' # "over" /\ dpc # "killStack"
  BY <1>0
     DEF Lost, Deployment, Removed, Measuring, FirstLook, services, startUpVars, driverVars,
         stackVars, profilerVars, DriverAt
<1>2. TriesPaid'
  BY <1>0, <1>n, <1>l, Numbers DEF TriesPaid
<1>5. try' \in 1 .. MaxTries /\ counted' \in 0 .. Experiments /\ deployed' \in 0 .. MaxTries
  BY <1>0, <1>n, Numbers DEF TriesPaid
<1>3. Deployment'
  BY <1>0, <1>n, Numbers
     DEF Deployment, Measuring, Removed, TypeOK, FirstLook, services, startUpVars, driverVars,
         stackVars, profilerVars, DriverAt
<1>s. /\ Samples'
      /\ timeseries' \in [Node -> Seq(1 .. MaxTries)] /\ reported' \in [Node -> Seq(1 .. MaxTries)]
  BY <1>0, PureSeries
     DEF Samples, Between, TypeOK, FirstLook, services, startUpVars, driverVars, stackVars,
         profilerVars, DriverAt
<1>4. TypeOK'
  BY <1>0, <1>f, <1>1, <1>5, <1>s
     DEF TypeOK, FirstLook, services, startUpVars, driverVars, stackVars, profilerVars, DriverAt
<1> QED
  BY <1>1, <1>2, <1>3, <1>s, <1>4 DEF IInv

\* The end of the warm-up keeps the invariant.
LEMMA WarmedUpKeeps ==
    ASSUME IInv, WarmedUp
    PROVE  IInv'
<1>0. TypeOK /\ StackOrder /\ Deployment /\ TriesPaid /\ Samples
  BY DEF IInv
<1>n. UNCHANGED <<try, counted, faults, deployed, missed>>
  BY DEF WarmedUp, services, startUpVars, driverVars, stackVars, profilerVars, DriverAt
<1>f. faults' \in 0 .. MaxFaults /\ missed' \in 0 .. faults'
  BY <1>0, <1>n, Numbers
<1>1. StartUpTypeOK' /\ StackOrder'
  BY <1>0
     DEF TypeOK, StartUpTypeOK, StackOrder, Deployment, Removed, WarmedUp, services, startUpVars,
         driverVars, stackVars, profilerVars, DriverAt
<1>l. (Lost' => Lost) /\ dpc # "over" /\ dpc' # "over" /\ dpc # "killStack"
  BY <1>0
     DEF Lost, Deployment, Removed, Measuring, WarmedUp, services, startUpVars, driverVars,
         stackVars, profilerVars, DriverAt
<1>2. TriesPaid'
  BY <1>0, <1>n, <1>l, Numbers DEF TriesPaid
<1>5. try' \in 1 .. MaxTries /\ counted' \in 0 .. Experiments /\ deployed' \in 0 .. MaxTries
  BY <1>0, <1>n, Numbers DEF TriesPaid
<1>3. Deployment'
  BY <1>0, <1>n, Numbers
     DEF Deployment, Measuring, Removed, TypeOK, WarmedUp, services, startUpVars, driverVars,
         stackVars, profilerVars, DriverAt
<1>s. /\ Samples'
      /\ timeseries' \in [Node -> Seq(1 .. MaxTries)] /\ reported' \in [Node -> Seq(1 .. MaxTries)]
  BY <1>0, PureSeries
     DEF Samples, Between, TypeOK, WarmedUp, services, startUpVars, driverVars, stackVars,
         profilerVars, DriverAt
<1>4. TypeOK'
  BY <1>0, <1>f, <1>1, <1>5, <1>s
     DEF TypeOK, WarmedUp, services, startUpVars, driverVars, stackVars, profilerVars, DriverAt
<1> QED
  BY <1>1, <1>2, <1>3, <1>s, <1>4 DEF IInv

\* Giving a try up keeps the invariant.
LEMMA RetryKeeps ==
    ASSUME IInv, Retry
    PROVE  IInv'
<1>0. TypeOK /\ StackOrder /\ Deployment /\ TriesPaid /\ Samples
  BY DEF IInv
<1>n. /\ try < MaxTries /\ try' = try + 1 /\ UNCHANGED <<counted, faults, deployed, missed>>
      /\ dpc = "waitWarmup" /\ dpc' = "killStack"
  BY DEF Retry, services, startUpVars, driverVars, stackVars, profilerVars, DriverAt, TryAgain
<1>f. faults' \in 0 .. MaxFaults /\ missed' \in 0 .. faults'
  BY <1>0, <1>n, Numbers
<1>1. StartUpTypeOK' /\ StackOrder'
  BY <1>0
     DEF TypeOK, StartUpTypeOK, StackOrder, Deployment, Removed, Retry, services, startUpVars,
         driverVars, stackVars, profilerVars, DriverAt, TryAgain
<1>l. Lost
  BY <1>0
     DEF Lost, Deployment, Removed, Measuring, Retry, services, startUpVars, driverVars, stackVars,
         profilerVars, DriverAt, TryAgain
<1>2. TriesPaid'
  BY <1>0, <1>n, <1>l, Numbers DEF TriesPaid
<1>5. try' \in 1 .. MaxTries /\ counted' \in 0 .. Experiments /\ deployed' \in 0 .. MaxTries
  BY <1>0, <1>n, Numbers DEF TriesPaid
<1>u. UNCHANGED <<bucket, midtier, client, log>>
  BY DEF Retry, TryAgain, startUpVars
<1>3. Deployment'
  <2>1. deployed' = 0 => Removed'
    BY <1>0, <1>n, <1>u DEF Deployment, Removed
  <2>2. ASSUME deployed' # 0
        PROVE  deployed' <= try' /\ try' - deployed' <= missed' + 1
    <3>1. deployed <= try /\ try - deployed <= missed
      BY <1>0, <1>n, <2>2 DEF Deployment
    <3> QED
      BY <1>0, <1>n, <3>1, Numbers, NextTry
  <2> QED
    BY <1>n, <2>1, <2>2 DEF Deployment, Measuring
<1>s. /\ Samples'
      /\ timeseries' \in [Node -> Seq(1 .. MaxTries)] /\ reported' \in [Node -> Seq(1 .. MaxTries)]
  BY <1>0, PureSeries
     DEF Samples, Between, TypeOK, Retry, services, startUpVars, driverVars, stackVars,
         profilerVars, DriverAt, TryAgain
<1>4. TypeOK'
  BY <1>0, <1>f, <1>1, <1>5, <1>s
     DEF TypeOK, Retry, services, startUpVars, driverVars, stackVars, profilerVars, DriverAt,
         TryAgain
<1> QED
  BY <1>1, <1>2, <1>3, <1>s, <1>4 DEF IInv

\* Giving a try up that has just warmed up keeps the invariant.
LEMMA RetryLateKeeps ==
    ASSUME IInv, RetryLate
    PROVE  IInv'
<1>0. TypeOK /\ StackOrder /\ Deployment /\ TriesPaid /\ Samples
  BY DEF IInv
<1>n. /\ try < MaxTries /\ try' = try + 1 /\ UNCHANGED <<counted, deployed, missed>>
      /\ faults < MaxFaults /\ faults' = faults + 1
      /\ dpc = "waitWarmup" /\ dpc' = "killStack"
  BY DEF RetryLate, services, startUpVars, driverVars, stackVars, profilerVars, DriverAt, TryAgain,
         Fault
<1>f. faults' \in 0 .. MaxFaults /\ missed' \in 0 .. faults'
  BY <1>0, <1>n, Numbers
<1>1. StartUpTypeOK' /\ StackOrder'
  BY <1>0
     DEF TypeOK, StartUpTypeOK, StackOrder, Deployment, Removed, RetryLate, services, startUpVars,
         driverVars, stackVars, profilerVars, DriverAt, TryAgain, Fault
<1>l. ~Lost'
  BY <1>0
     DEF Lost, Deployment, Removed, Measuring, RetryLate, services, startUpVars, driverVars,
         stackVars, profilerVars, DriverAt, TryAgain, Fault
<1>2. TriesPaid'
  BY <1>0, <1>n, <1>l, Numbers DEF TriesPaid
<1>5. try' \in 1 .. MaxTries /\ counted' \in 0 .. Experiments /\ deployed' \in 0 .. MaxTries
  BY <1>0, <1>n, Numbers DEF TriesPaid
<1>u. UNCHANGED <<bucket, midtier, client, log>>
  BY DEF RetryLate, TryAgain, startUpVars
<1>3. Deployment'
  <2>1. deployed' = 0 => Removed'
    BY <1>0, <1>n, <1>u DEF Deployment, Removed
  <2>2. ASSUME deployed' # 0
        PROVE  deployed' <= try' /\ try' - deployed' <= missed' + 1
    <3>1. deployed <= try /\ try - deployed <= missed
      BY <1>0, <1>n, <2>2 DEF Deployment
    <3> QED
      BY <1>0, <1>n, <3>1, Numbers, NextTry
  <2> QED
    BY <1>n, <2>1, <2>2 DEF Deployment, Measuring
<1>s. /\ Samples'
      /\ timeseries' \in [Node -> Seq(1 .. MaxTries)] /\ reported' \in [Node -> Seq(1 .. MaxTries)]
  BY <1>0, PureSeries
     DEF Samples, Between, TypeOK, RetryLate, services, startUpVars, driverVars, stackVars,
         profilerVars, DriverAt, TryAgain, Fault
<1>4. TypeOK'
  BY <1>0, <1>f, <1>1, <1>5, <1>s
     DEF TypeOK, RetryLate, services, startUpVars, driverVars, stackVars, profilerVars, DriverAt,
         TryAgain, Fault
<1> QED
  BY <1>1, <1>2, <1>3, <1>s, <1>4 DEF IInv

\* Launching the profilers keeps the invariant.
LEMMA LaunchKeeps ==
    ASSUME IInv, Launch
    PROVE  IInv'
<1>0. TypeOK /\ StackOrder /\ Deployment /\ TriesPaid /\ Samples
  BY DEF IInv
<1>n. UNCHANGED <<try, counted, faults, deployed, missed>>
  BY DEF Launch, services, startUpVars, driverVars, stackVars, profilerVars, DriverAt
<1>f. faults' \in 0 .. MaxFaults /\ missed' \in 0 .. faults'
  BY <1>0, <1>n, Numbers
<1>1. StartUpTypeOK' /\ StackOrder'
  BY <1>0
     DEF TypeOK, StartUpTypeOK, StackOrder, Deployment, Removed, Launch, services, startUpVars,
         driverVars, stackVars, profilerVars, DriverAt
<1>l. (Lost' => Lost) /\ dpc # "over" /\ dpc' # "over" /\ dpc # "killStack"
  BY <1>0
     DEF Lost, Deployment, Removed, Measuring, Launch, services, startUpVars, driverVars,
         stackVars, profilerVars, DriverAt
<1>2. TriesPaid'
  BY <1>0, <1>n, <1>l, Numbers DEF TriesPaid
<1>5. try' \in 1 .. MaxTries /\ counted' \in 0 .. Experiments /\ deployed' \in 0 .. MaxTries
  BY <1>0, <1>n, Numbers DEF TriesPaid
<1>3. Deployment'
  BY <1>0, <1>n, Numbers
     DEF Deployment, Measuring, Removed, TypeOK, Launch, services, startUpVars, driverVars,
         stackVars, profilerVars, DriverAt
<1>s. /\ Samples'
      /\ timeseries' \in [Node -> Seq(1 .. MaxTries)] /\ reported' \in [Node -> Seq(1 .. MaxTries)]
  BY <1>0, PureSeries
     DEF Samples, Between, TypeOK, Launch, services, startUpVars, driverVars, stackVars,
         profilerVars, DriverAt
<1>4. TypeOK'
  BY <1>0, <1>f, <1>1, <1>5, <1>s
     DEF TypeOK, Launch, services, startUpVars, driverVars, stackVars, profilerVars, DriverAt
<1> QED
  BY <1>1, <1>2, <1>3, <1>s, <1>4 DEF IInv

\* The end of the run keeps the invariant.
LEMMA RunDoneKeeps ==
    ASSUME IInv, RunDone
    PROVE  IInv'
<1>0. TypeOK /\ StackOrder /\ Deployment /\ TriesPaid /\ Samples
  BY DEF IInv
<1>n. UNCHANGED <<try, counted, faults, deployed, missed>>
  BY DEF RunDone, services, startUpVars, driverVars, stackVars, profilerVars, DriverAt
<1>f. faults' \in 0 .. MaxFaults /\ missed' \in 0 .. faults'
  BY <1>0, <1>n, Numbers
<1>1. StartUpTypeOK' /\ StackOrder'
  BY <1>0
     DEF TypeOK, StartUpTypeOK, StackOrder, Deployment, Removed, RunDone, services, startUpVars,
         driverVars, stackVars, profilerVars, DriverAt
<1>l. (Lost' => Lost) /\ dpc # "over" /\ dpc' # "over" /\ dpc # "killStack"
  BY <1>0
     DEF Lost, Deployment, Removed, Measuring, RunDone, services, startUpVars, driverVars,
         stackVars, profilerVars, DriverAt
<1>2. TriesPaid'
  BY <1>0, <1>n, <1>l, Numbers DEF TriesPaid
<1>5. try' \in 1 .. MaxTries /\ counted' \in 0 .. Experiments /\ deployed' \in 0 .. MaxTries
  BY <1>0, <1>n, Numbers DEF TriesPaid
<1>3. Deployment'
  BY <1>0, <1>n, Numbers
     DEF Deployment, Measuring, Removed, TypeOK, RunDone, services, startUpVars, driverVars,
         stackVars, profilerVars, DriverAt
<1>s. /\ Samples'
      /\ timeseries' \in [Node -> Seq(1 .. MaxTries)] /\ reported' \in [Node -> Seq(1 .. MaxTries)]
  BY <1>0, PureSeries
     DEF Samples, Between, TypeOK, RunDone, services, startUpVars, driverVars, stackVars,
         profilerVars, DriverAt
<1>4. TypeOK'
  BY <1>0, <1>f, <1>1, <1>5, <1>s
     DEF TypeOK, RunDone, services, startUpVars, driverVars, stackVars, profilerVars, DriverAt
<1> QED
  BY <1>1, <1>2, <1>3, <1>s, <1>4 DEF IInv

\* Going on to the reports keeps the invariant.
LEMMA AllStoppedKeeps ==
    ASSUME IInv, AllStopped
    PROVE  IInv'
<1>0. TypeOK /\ StackOrder /\ Deployment /\ TriesPaid /\ Samples
  BY DEF IInv
<1>n. UNCHANGED <<try, counted, faults, deployed, missed>>
  BY DEF AllStopped, services, startUpVars, driverVars, stackVars, profilerVars, DriverAt
<1>f. faults' \in 0 .. MaxFaults /\ missed' \in 0 .. faults'
  BY <1>0, <1>n, Numbers
<1>1. StartUpTypeOK' /\ StackOrder'
  BY <1>0
     DEF TypeOK, StartUpTypeOK, StackOrder, Deployment, Removed, AllStopped, services, startUpVars,
         driverVars, stackVars, profilerVars, DriverAt
<1>l. (Lost' => Lost) /\ dpc # "over" /\ dpc' # "over" /\ dpc # "killStack"
  BY <1>0
     DEF Lost, Deployment, Removed, Measuring, AllStopped, services, startUpVars, driverVars,
         stackVars, profilerVars, DriverAt
<1>2. TriesPaid'
  BY <1>0, <1>n, <1>l, Numbers DEF TriesPaid
<1>5. try' \in 1 .. MaxTries /\ counted' \in 0 .. Experiments /\ deployed' \in 0 .. MaxTries
  BY <1>0, <1>n, Numbers DEF TriesPaid
<1>3. Deployment'
  BY <1>0, <1>n, Numbers
     DEF Deployment, Measuring, Removed, TypeOK, AllStopped, services, startUpVars, driverVars,
         stackVars, profilerVars, DriverAt
<1>s. /\ Samples'
      /\ timeseries' \in [Node -> Seq(1 .. MaxTries)] /\ reported' \in [Node -> Seq(1 .. MaxTries)]
  BY <1>0, PureSeries
     DEF Samples, Between, TypeOK, AllStopped, services, startUpVars, driverVars, stackVars,
         profilerVars, DriverAt
<1>4. TypeOK'
  BY <1>0, <1>f, <1>1, <1>5, <1>s
     DEF TypeOK, AllStopped, services, startUpVars, driverVars, stackVars, profilerVars, DriverAt
<1> QED
  BY <1>1, <1>2, <1>3, <1>s, <1>4 DEF IInv

\* The end of a try keeps the invariant.
LEMMA FinishKeeps ==
    ASSUME IInv, Finish
    PROVE  IInv'
<1>0. TypeOK /\ StackOrder /\ Deployment /\ TriesPaid /\ Samples
  BY DEF IInv
<1>u. /\ dpc = "clean" /\ RemoveStack /\ counted' = counted + 1
      /\ IF counted' = Experiments THEN dpc' = "over" /\ try' = try
                                  ELSE dpc' = "killStack" /\ try' = try + 1
      /\ UNCHANGED <<echo, todo, profiler, timeseries, reported>>
  BY DEF Finish, DriverAt, profilerVars
<1>r. /\ StartUpTypeOK' /\ StackOrder' /\ removing' \in BOOLEAN
      /\ \/ deployed' = 0 /\ Removed' /\ ~Lost' /\ faults' = faults
         \/ /\ deployed # 0 /\ UNCHANGED <<deployed, log>> /\ (Lost' <=> Lost)
            /\ faults < MaxFaults /\ faults' = faults + 1 /\ missed' = missed + 1
  BY <1>0, <1>u, Removal
<1>n. ~Lost
  BY <1>0, <1>u DEF Deployment, Measuring, Lost
<1>f. faults' \in 0 .. MaxFaults /\ missed' \in 0 .. faults'
  BY <1>0, <1>r, Numbers DEF Removed
<1>2. TriesPaid'
  BY <1>0, <1>n, <1>r, <1>u, Numbers DEF TriesPaid
<1>5. try' \in 1 .. MaxTries /\ counted' \in 0 .. Experiments /\ deployed' \in 0 .. MaxTries
  BY <1>0, <1>r, <1>u, Numbers DEF TriesPaid
<1>3. Deployment'
  <2>1. deployed' = 0 => Removed'
    BY <1>r
  <2>2. ASSUME deployed' # 0
        PROVE  /\ deployed' <= try'
               /\ dpc' = "killStack" => try' - deployed' <= missed' + 1
               /\ dpc' # "killStack" => try' - deployed' <= missed'
    <3>1. deployed # 0 /\ deployed' = deployed /\ missed' = missed + 1
      BY <1>r, <2>2
    <3>2. deployed <= try /\ try - deployed <= missed
      BY <1>0, <1>u, <3>1 DEF Deployment
    <3>3. /\ deployed <= try + 1 /\ (try + 1) - deployed <= missed + 1
          /\ try - deployed <= missed + 1
      BY <1>0, <3>2, Numbers, NextTry
    <3>4. missed + 1 <= (missed + 1) + 1 /\ missed + 1 \in Nat
      BY <1>0, Numbers
    <3>5. CASE dpc' = "killStack"
      <4>1. try' = try + 1
        BY <1>u, <3>5
      <4>2. (try + 1) - deployed <= (missed + 1) + 1
        BY <1>0, <3>3, <3>4, Numbers
      <4> QED
        BY <3>1, <3>3, <3>5, <4>1, <4>2
    <3>6. CASE dpc' # "killStack"
      <4>1. try' = try
        BY <1>u, <3>6
      <4> QED
        BY <3>1, <3>2, <3>3, <3>6, <4>1
    <3> QED
      BY <3>5, <3>6
  <2>3. ~Measuring'
    BY <1>u DEF Measuring
  <2> QED
    BY <2>1, <2>2, <2>3 DEF Deployment
<1>s. Samples'
  BY <1>0, <1>u DEF Samples, Between
<1>4. TypeOK'
  BY <1>0, <1>u, <1>f, <1>r, <1>5 DEF TypeOK
<1> QED
  BY <1>r, <1>2, <1>3, <1>s, <1>4 DEF IInv

\* The removal of the network keeps the invariant.
LEMMA NetworkRemovedKeeps ==
    ASSUME IInv, NetworkRemoved
    PROVE  IInv'
<1>0. TypeOK /\ StackOrder /\ Deployment /\ TriesPaid /\ Samples
  BY DEF IInv
<1>n. UNCHANGED <<try, counted, faults, deployed, missed>>
  BY DEF NetworkRemoved, services, startUpVars, driverVars, stackVars, profilerVars
<1>f. faults' \in 0 .. MaxFaults /\ missed' \in 0 .. faults'
  BY <1>0, <1>n, Numbers
<1>1. StartUpTypeOK' /\ StackOrder'
  BY <1>0
     DEF TypeOK, StartUpTypeOK, StackOrder, Deployment, Removed, NetworkRemoved, services,
         startUpVars, driverVars, stackVars, profilerVars
<1>l. (Lost' <=> Lost) /\ dpc' = dpc
  BY <1>0
     DEF Lost, Deployment, Removed, Measuring, NetworkRemoved, services, startUpVars, driverVars,
         stackVars, profilerVars
<1>2. TriesPaid'
  BY <1>0, <1>n, <1>l, Numbers DEF TriesPaid
<1>5. try' \in 1 .. MaxTries /\ counted' \in 0 .. Experiments /\ deployed' \in 0 .. MaxTries
  BY <1>0, <1>n, Numbers DEF TriesPaid
<1>3. Deployment'
  BY <1>0, <1>n, Numbers
     DEF Deployment, Measuring, Removed, TypeOK, NetworkRemoved, services, startUpVars, driverVars,
         stackVars, profilerVars
<1>s. /\ Samples'
      /\ timeseries' \in [Node -> Seq(1 .. MaxTries)] /\ reported' \in [Node -> Seq(1 .. MaxTries)]
  BY <1>0, PureSeries
     DEF Samples, Between, TypeOK, NetworkRemoved, services, startUpVars, driverVars, stackVars,
         profilerVars
<1>4. TypeOK'
  BY <1>0, <1>f, <1>1, <1>5, <1>s
     DEF TypeOK, NetworkRemoved, services, startUpVars, driverVars, stackVars, profilerVars
<1> QED
  BY <1>1, <1>2, <1>3, <1>s, <1>4 DEF IInv

\* A profiler that listens keeps the invariant.
LEMMA ProfilerListensKeeps ==
    ASSUME NEW n \in Node, IInv, ProfilerListens(n)
    PROVE  IInv'
<1>0. TypeOK /\ StackOrder /\ Deployment /\ TriesPaid /\ Samples
  BY DEF IInv
<1>n. UNCHANGED <<try, counted, faults, deployed, missed>>
  BY DEF ProfilerListens, services, startUpVars, driverVars, stackVars, profilerVars
<1>f. faults' \in 0 .. MaxFaults /\ missed' \in 0 .. faults'
  BY <1>0, <1>n, Numbers
<1>1. StartUpTypeOK' /\ StackOrder'
  BY <1>0
     DEF TypeOK, StartUpTypeOK, StackOrder, Deployment, Removed, ProfilerListens, services,
         startUpVars, driverVars, stackVars, profilerVars
<1>l. (Lost' <=> Lost) /\ dpc' = dpc
  BY <1>0
     DEF Lost, Deployment, Removed, Measuring, ProfilerListens, services, startUpVars, driverVars,
         stackVars, profilerVars
<1>2. TriesPaid'
  BY <1>0, <1>n, <1>l, Numbers DEF TriesPaid
<1>5. try' \in 1 .. MaxTries /\ counted' \in 0 .. Experiments /\ deployed' \in 0 .. MaxTries
  BY <1>0, <1>n, Numbers DEF TriesPaid
<1>3. Deployment'
  BY <1>0, <1>n, Numbers
     DEF Deployment, Measuring, Removed, TypeOK, ProfilerListens, services, startUpVars,
         driverVars, stackVars, profilerVars
<1>s. /\ Samples'
      /\ timeseries' \in [Node -> Seq(1 .. MaxTries)] /\ reported' \in [Node -> Seq(1 .. MaxTries)]
  BY <1>0, PureSeries
     DEF Samples, Between, TypeOK, ProfilerListens, services, startUpVars, driverVars, stackVars,
         profilerVars
<1>4. TypeOK'
  BY <1>0, <1>f, <1>1, <1>5, <1>s
     DEF TypeOK, ProfilerListens, services, startUpVars, driverVars, stackVars, profilerVars
<1> QED
  BY <1>1, <1>2, <1>3, <1>s, <1>4 DEF IInv

\* The end of a profiler keeps the invariant.
LEMMA ProfilerDiesKeeps ==
    ASSUME NEW n \in Node, IInv, ProfilerDies(n)
    PROVE  IInv'
<1>0. TypeOK /\ StackOrder /\ Deployment /\ TriesPaid /\ Samples
  BY DEF IInv
<1>n. /\ faults < MaxFaults /\ faults' = faults + 1
      /\ UNCHANGED <<try, counted, deployed, missed, dpc>>
  BY DEF ProfilerDies, services, startUpVars, driverVars, stackVars, profilerVars, Fault
<1>f. faults' \in 0 .. MaxFaults /\ missed' \in 0 .. faults'
  BY <1>0, <1>n, Numbers
<1>1. StartUpTypeOK' /\ StackOrder'
  BY <1>0
     DEF TypeOK, StartUpTypeOK, StackOrder, Deployment, Removed, ProfilerDies, services,
         startUpVars, driverVars, stackVars, profilerVars, Fault
<1>l. (Lost' <=> Lost) /\ dpc' = dpc
  BY <1>0
     DEF Lost, Deployment, Removed, Measuring, ProfilerDies, services, startUpVars, driverVars,
         stackVars, profilerVars, Fault
<1>2. TriesPaid'
  BY <1>0, <1>n, <1>l, Numbers DEF TriesPaid
<1>5. try' \in 1 .. MaxTries /\ counted' \in 0 .. Experiments /\ deployed' \in 0 .. MaxTries
  BY <1>0, <1>n, Numbers DEF TriesPaid
<1>3. Deployment'
  BY <1>0, <1>n, Numbers
     DEF Deployment, Measuring, Removed, TypeOK, ProfilerDies, services, startUpVars, driverVars,
         stackVars, profilerVars, Fault
<1>s. /\ Samples'
      /\ timeseries' \in [Node -> Seq(1 .. MaxTries)] /\ reported' \in [Node -> Seq(1 .. MaxTries)]
  BY <1>0, PureSeries
     DEF Samples, Between, TypeOK, ProfilerDies, services, startUpVars, driverVars, stackVars,
         profilerVars, Fault
<1>4. TypeOK'
  BY <1>0, <1>f, <1>1, <1>5, <1>s
     DEF TypeOK, ProfilerDies, services, startUpVars, driverVars, stackVars, profilerVars, Fault
<1> QED
  BY <1>1, <1>2, <1>3, <1>s, <1>4 DEF IInv

\* A call of start keeps the invariant.
LEMMA StartKeeps ==
    ASSUME NEW n \in Node, IInv, Start(n)
    PROVE  IInv'
<1>0. TypeOK /\ StackOrder /\ Deployment /\ TriesPaid /\ Samples
  BY DEF IInv
<1>n. UNCHANGED <<try, counted, faults, deployed, missed>>
  BY DEF Start, services, startUpVars, driverVars, stackVars, profilerVars, Call, Listens
<1>f. faults' \in 0 .. MaxFaults /\ missed' \in 0 .. faults'
  BY <1>0, <1>n, Numbers
<1>1. StartUpTypeOK' /\ StackOrder'
  BY <1>0
     DEF TypeOK, StartUpTypeOK, StackOrder, Deployment, Removed, Start, services, startUpVars,
         driverVars, stackVars, profilerVars, Call, Listens
<1>l. (Lost' => Lost) /\ dpc # "over" /\ dpc' # "over" /\ dpc # "killStack"
  BY <1>0
     DEF Lost, Deployment, Removed, Measuring, Start, services, startUpVars, driverVars, stackVars,
         profilerVars, Call, Listens
<1>2. TriesPaid'
  BY <1>0, <1>n, <1>l, Numbers DEF TriesPaid
<1>5. try' \in 1 .. MaxTries /\ counted' \in 0 .. Experiments /\ deployed' \in 0 .. MaxTries
  BY <1>0, <1>n, Numbers DEF TriesPaid
<1>3. Deployment'
  BY <1>0, <1>n, Numbers
     DEF Deployment, Measuring, Removed, TypeOK, Start, services, startUpVars, driverVars,
         stackVars, profilerVars, Call, Listens
<1>s. /\ Samples'
      /\ timeseries' \in [Node -> Seq(1 .. MaxTries)] /\ reported' \in [Node -> Seq(1 .. MaxTries)]
  BY <1>0, PureSeries
     DEF Samples, Between, TypeOK, Start, services, startUpVars, driverVars, stackVars,
         profilerVars, Call, Listens
<1>4. TypeOK'
  BY <1>0, <1>f, <1>1, <1>5, <1>s
     DEF TypeOK, Start, services, startUpVars, driverVars, stackVars, profilerVars, Call, Listens
<1> QED
  BY <1>1, <1>2, <1>3, <1>s, <1>4 DEF IInv

\* A call of stop keeps the invariant.
LEMMA StopKeeps ==
    ASSUME NEW n \in Node, IInv, Stop(n)
    PROVE  IInv'
<1>0. TypeOK /\ StackOrder /\ Deployment /\ TriesPaid /\ Samples
  BY DEF IInv
<1>n. UNCHANGED <<try, counted, faults, deployed, missed>>
  BY DEF Stop, services, startUpVars, driverVars, stackVars, profilerVars, Call, Listens
<1>f. faults' \in 0 .. MaxFaults /\ missed' \in 0 .. faults'
  BY <1>0, <1>n, Numbers
<1>1. StartUpTypeOK' /\ StackOrder'
  BY <1>0
     DEF TypeOK, StartUpTypeOK, StackOrder, Deployment, Removed, Stop, services, startUpVars,
         driverVars, stackVars, profilerVars, Call, Listens
<1>l. (Lost' => Lost) /\ dpc # "over" /\ dpc' # "over" /\ dpc # "killStack"
  BY <1>0
     DEF Lost, Deployment, Removed, Measuring, Stop, services, startUpVars, driverVars, stackVars,
         profilerVars, Call, Listens
<1>2. TriesPaid'
  BY <1>0, <1>n, <1>l, Numbers DEF TriesPaid
<1>5. try' \in 1 .. MaxTries /\ counted' \in 0 .. Experiments /\ deployed' \in 0 .. MaxTries
  BY <1>0, <1>n, Numbers DEF TriesPaid
<1>3. Deployment'
  BY <1>0, <1>n, Numbers
     DEF Deployment, Measuring, Removed, TypeOK, Stop, services, startUpVars, driverVars,
         stackVars, profilerVars, Call, Listens
<1>s. /\ Samples'
      /\ timeseries' \in [Node -> Seq(1 .. MaxTries)] /\ reported' \in [Node -> Seq(1 .. MaxTries)]
  BY <1>0, PureSeries
     DEF Samples, Between, TypeOK, Stop, services, startUpVars, driverVars, stackVars,
         profilerVars, Call, Listens
<1>4. TypeOK'
  BY <1>0, <1>f, <1>1, <1>5, <1>s
     DEF TypeOK, Stop, services, startUpVars, driverVars, stackVars, profilerVars, Call, Listens
<1> QED
  BY <1>1, <1>2, <1>3, <1>s, <1>4 DEF IInv

\* A call of report keeps the invariant.
LEMMA ReportKeeps ==
    ASSUME NEW n \in Node, IInv, Report(n)
    PROVE  IInv'
<1>0. TypeOK /\ StackOrder /\ Deployment /\ TriesPaid /\ Samples
  BY DEF IInv
<1>n. UNCHANGED <<try, counted, faults, deployed, missed>>
  BY DEF Report, services, startUpVars, driverVars, stackVars, profilerVars, Call, Listens
<1>f. faults' \in 0 .. MaxFaults /\ missed' \in 0 .. faults'
  BY <1>0, <1>n, Numbers
<1>1. StartUpTypeOK' /\ StackOrder'
  BY <1>0
     DEF TypeOK, StartUpTypeOK, StackOrder, Deployment, Removed, Report, services, startUpVars,
         driverVars, stackVars, profilerVars, Call, Listens
<1>l. (Lost' => Lost) /\ dpc # "over" /\ dpc' # "over" /\ dpc # "killStack"
  BY <1>0
     DEF Lost, Deployment, Removed, Measuring, Report, services, startUpVars, driverVars,
         stackVars, profilerVars, Call, Listens
<1>2. TriesPaid'
  BY <1>0, <1>n, <1>l, Numbers DEF TriesPaid
<1>5. try' \in 1 .. MaxTries /\ counted' \in 0 .. Experiments /\ deployed' \in 0 .. MaxTries
  BY <1>0, <1>n, Numbers DEF TriesPaid
<1>3. Deployment'
  BY <1>0, <1>n, Numbers
     DEF Deployment, Measuring, Removed, TypeOK, Report, services, startUpVars, driverVars,
         stackVars, profilerVars, Call, Listens
<1>s. /\ Samples'
      /\ timeseries' \in [Node -> Seq(1 .. MaxTries)] /\ reported' \in [Node -> Seq(1 .. MaxTries)]
  BY <1>0, PureSeries
     DEF Samples, Between, TypeOK, Report, services, startUpVars, driverVars, stackVars,
         profilerVars, Call, Listens
<1>4. TypeOK'
  BY <1>0, <1>f, <1>1, <1>5, <1>s
     DEF TypeOK, Report, services, startUpVars, driverVars, stackVars, profilerVars, Call, Listens
<1> QED
  BY <1>1, <1>2, <1>3, <1>s, <1>4 DEF IInv

\* A step of the services, or an accident, keeps the invariant.
LEMMA ServicesKeep ==
    ASSUME IInv, Service \/ Trouble
    PROVE  IInv'
<1>0. TypeOK /\ StackOrder /\ Deployment /\ TriesPaid /\ Samples /\ StartUpTypeOK
  BY DEF IInv, TypeOK
<1>1. SafeStep /\ (Service /\ Lost' => Lost)
  BY <1>0, ServicesSafe DEF Service, Trouble
<1>2. UNCHANGED <<dpc, todo, try, counted, deployed, missed, removing, profiler, timeseries,
                  reported>>
  BY DEF Service, Trouble, driverVars, stackVars, profilerVars
<1>n. /\ missed \in Nat /\ missed <= faults /\ faults \in Nat /\ faults <= MaxFaults
      /\ MaxFaults \in Nat /\ try \in Nat /\ counted \in Nat
  BY <1>0, Numbers
<1>f. \/ faults' = faults /\ (Lost' => Lost)
      \/ faults < MaxFaults /\ faults' = faults + 1
  BY <1>1 DEF Service, Trouble, Fault
<1>3. TypeOK'
  <2>1. faults' \in 0 .. MaxFaults /\ missed' \in 0 .. faults'
    BY <1>n, <1>f, <1>2
  <2> QED
    BY <2>1, <1>0, <1>1, <1>2 DEF SafeStep, TypeOK
<1>4. Deployment'
  BY <1>0, <1>1, <1>2 DEF SafeStep, Deployment, Measuring, Removed
<1>5. TriesPaid'
  BY <1>0, <1>n, <1>f, <1>2 DEF TriesPaid
<1>6. Samples'
  BY <1>0, <1>2 DEF Samples, Between
<1> QED
  BY <1>1, <1>3, <1>4, <1>5, <1>6 DEF IInv, SafeStep

\* Every step keeps the invariant.
LEMMA StepInvariant == IInv /\ [Next]_vars => IInv'
<1> SUFFICES ASSUME IInv, [Next]_vars PROVE IInv'
  OBVIOUS
<1>1. CASE Drive
  BY <1>1, KillRemoteKeeps, KillProfilerKeeps, RunRemoteKeeps, FirstLookKeeps, WarmedUpKeeps,
     RetryKeeps, LaunchKeeps, RunDoneKeeps, AllStoppedKeeps, FinishKeeps, StartKeeps, StopKeeps,
     ReportKeeps DEF Drive
<1>2. CASE Service \/ Trouble
  BY <1>2, ServicesKeep
<1>3. CASE UNCHANGED vars
  <2>1. UNCHANGED <<echo, bucket, midtier, client, log, faults, dpc, todo, try, counted,
                    deployed, missed, removing, profiler, timeseries, reported>>
    BY <1>3 DEF vars, services, startUpVars, driverVars, stackVars, profilerVars
  <2>a. TypeOK
    BY DEF IInv
  <2>b. StartUpTypeOK'
    BY <2>1, <2>a DEF TypeOK, StartUpTypeOK
  <2>c. faults' \in 0 .. MaxFaults /\ missed' \in 0 .. faults'
    BY <2>1, <2>a, Numbers
  <2>2. TypeOK'
    BY <2>1, <2>a, <2>b, <2>c DEF TypeOK
  <2>3. StackOrder' /\ Deployment' /\ TriesPaid' /\ Samples'
    BY <2>1 DEF IInv, StackOrder, Deployment, Measuring, Removed, TriesPaid, Lost, Samples, Between
  <2> QED
    BY <2>2, <2>3 DEF IInv
<1>4. CASE NetworkRemoved
  BY <1>4, NetworkRemovedKeeps
<1>5. CASE \E n \in Node : ProfilerListens(n) \/ ProfilerDies(n)
  BY <1>5, ProfilerListensKeeps, ProfilerDiesKeeps
<1>6. CASE RetryLate
  BY <1>6, RetryLateKeeps
<1> QED
  BY <1>1, <1>2, <1>3, <1>4, <1>5, <1>6 DEF Next, Rest

\* The inductive invariant holds in every reachable state.
THEOREM Invariant == Spec => []IInv
BY InitInvariant, StepInvariant, PTL DEF Spec

\* The variables keep their types; in particular the tries stay within the bound,
\* for every one that does not count costs an accident.
THEOREM TypeCorrect == Spec => []TypeOK
<1>1. IInv => TypeOK
  BY DEF IInv
<1> QED
  BY <1>1, Invariant, PTL

\* The driver only measures services that its own try deployed (run_experiment.py
\* 264-296), or older ones by no more tries than removals in a row have failed (177).
THEOREM MeasuresOwnServices == Spec => []OwnServices
<1>1. ASSUME IInv PROVE OwnServices
  <2> SUFFICES ASSUME Measuring PROVE deployed \in 1 .. try /\ try - deployed <= missed
    BY DEF OwnServices
  <2>1. deployed # 0 /\ dpc # "killStack"
    BY <1>1 DEF IInv, Deployment, Removed, Measuring
  <2>2. deployed \in Nat /\ try \in Nat
    BY <1>1, Numbers DEF IInv
  <2>3. deployed <= try /\ try - deployed <= missed
    BY <1>1, <2>1 DEF IInv, Deployment
  <2>4. deployed \in 1 .. try
    BY <2>1, <2>2, <2>3
  <2> QED
    BY <2>3, <2>4
<1> QED
  BY <1>1, Invariant, PTL

\* No report mixes samples of two tries, although the profilers outlive the tries
\* (ansible/profiler.yml 36) and may miss any call.
THEOREM SeriesNeverMixed == Spec => []NoMixedSeries
<1>1. IInv => NoMixedSeries
  BY DEF IInv, Samples, Pure, NoMixedSeries
<1> QED
  BY <1>1, Invariant, PTL

\* A try that is given up leaves room for another one.
LEMMA RoomForRetry ==
    ASSUME TypeOK, TriesPaid, Lost, dpc = "waitWarmup"
    PROVE  try < MaxTries
<1>1. counted < Experiments /\ try - counted <= faults
  BY DEF TriesPaid
<1>2. /\ try \in Nat /\ counted \in Nat /\ faults \in Nat /\ Experiments \in Nat
      /\ MaxFaults \in Nat /\ MaxTries \in Nat
      /\ faults <= MaxFaults /\ Experiments + MaxFaults <= MaxTries
  BY Numbers
<1> QED
  BY <1>1, <1>2

\* The driver and the services wait for each other in silence only: errors that are
\* printed, the accidents the tries have cost, removals that fail and a mid-tier that
\* is to be killed never keep the batch (run_experiment.py 258-382).
THEOREM NothingElseStops == Spec => []OnlySilenceStops
<1>1. ASSUME IInv, DriverWaits, ServicesWait, dpc # "over"
      PROVE  Silent
  <2>0. TypeOK /\ StackOrder /\ Deployment /\ TriesPaid /\ StartUpTypeOK
    BY <1>1 DEF IInv, TypeOK
  <2>2. CASE dpc = "waitWarmup"
    <3>1. "End of Warmup Period" \notin log
      BY <1>1, <2>2 DEF DriverWaits
    <3>2. "Call Status Error Code" \notin log
      <4>1. Lost => try # MaxTries
        BY <2>0, <2>2, RoomForRetry, Numbers
      <4> QED
        BY <1>1, <2>2, <3>1, <4>1 DEF DriverWaits, Lost
    <3>3. log = {}
      BY <2>0, <3>1, <3>2 DEF StackOrder, StartUpTypeOK
    <3>4. \/ client \in {"absent", "exited"}
          \/ client = "build" /\ midtier = "exited"
          \/ client = "build" /\ midtier = "build" /\ bucket = "exited"
      BY <1>1, <2>0 DEF ServicesWait, StackOrder, StartUpTypeOK
    <3> QED
      BY <2>2, <3>3, <3>4 DEF Silent
  <2>3. CASE dpc = "waitRun"
    <3>1. log \cap {"End of Actual Run", "Call Status Error Code"} = {}
      BY <1>1, <2>3 DEF DriverWaits
    <3>2. "End of Warmup Period" \in log
      BY <2>0, <2>3 DEF Deployment, Measuring
    <3>3. log = {"End of Warmup Period"}
      BY <2>0, <3>1, <3>2 DEF StartUpTypeOK
    <3>4. client = "exited"
      BY <1>1, <2>0, <3>2 DEF ServicesWait, StackOrder
    <3> QED
      BY <2>3, <3>3, <3>4 DEF Silent
  <2> QED
    BY <1>1, <2>2, <2>3 DEF DriverWaits
<1>2. IInv => OnlySilenceStops
  BY <1>1 DEF OnlySilenceStops
<1> QED
  BY <1>2, Invariant, PTL

-----------------------------------------------------------------------------
(* The steps run out: a measure that every step lowers.                     *)

One(b) == IF b THEN 1 ELSE 0

\* Calls and stages the driver has before it in this try, and 22 for each other one.
StagesLeft ==
    CASE dpc = "killStack" -> 21
      [] dpc = "killProfilers" -> 20
      [] dpc = "deploy" -> 19
      [] dpc = "firstLook" -> 18
      [] dpc = "waitWarmup" -> 17
      [] dpc = "launch" -> 16
      [] dpc \in {"start", "waitRun"} -> 13
      [] dpc \in {"stop", "report"} -> 10
      [] dpc \in {"reporting", "clean"} -> 7
      [] dpc = "over" -> 0

CallsLeft == One("node1" \in todo) + One("node2" \in todo)

DriverLeft == 22 * (MaxTries - try) + StagesLeft + CallsLeft

EchoLeft(n) == IF echo[n] = "down" THEN 2 ELSE IF echo[n] = "listening" THEN 1 ELSE 0

BucketLeft == IF bucket = "build" THEN 2 ELSE IF bucket = "listening" THEN 1 ELSE 0

MidtierLeft ==
    CASE midtier = "build" -> 5
      [] midtier = "connect" -> 4
      [] midtier = "load" -> 3
      [] midtier = "index" -> 2
      [] midtier = "serving" -> 1
      [] midtier \in {"absent", "exited"} -> 0

ClientLeft ==
    CASE client = "build" -> 7
      [] client = "connect" -> 6
      [] client = "load" -> 5
      [] client = "start" -> 4
      [] client = "warmup" -> 3
      [] client = "run" -> 2
      [] client = "kill" -> 1
      [] client \in {"absent", "exited"} -> 0

\* A client tells of an error once.
ErrorLeft == One("Call Status Error Code" \notin log)

ServicesLeft ==
    EchoLeft("node1") + EchoLeft("node2") + BucketLeft + MidtierLeft + ClientLeft + ErrorLeft

ProfilerLeft(n) ==
    IF profiler[n] = "starting" THEN 2 ELSE IF profiler[n] = "up" THEN 1 ELSE 0

ProfilersLeft == ProfilerLeft("node1") + ProfilerLeft("node2")

OthersLeft == ServicesLeft + ProfilersLeft + One(removing)

\* What one deployment and its profilers can do is less than 30 steps.
Left == 30 * DriverLeft + OthersLeft

\* Its parts are numbers, and all but the driver's are small.
SmallParts ==
    /\ DriverLeft \in Nat /\ OthersLeft \in 0 .. 24
    /\ ServicesLeft \in Nat /\ ProfilersLeft \in Nat /\ One(removing) \in Nat

\* They are, by the types of the variables.
LEMMA LeftParts == ASSUME TypeOK PROVE SmallParts
<1>1. StagesLeft \in 0 .. 21
  BY DEF TypeOK, StagesLeft
<1>2. One("node1" \in todo) \in 0 .. 1 /\ One("node2" \in todo) \in 0 .. 1
      /\ One(removing) \in 0 .. 1
  BY DEF One
<1>3. 22 * (MaxTries - try) \in Nat
  BY Numbers
<1>4. DriverLeft \in Nat
  BY <1>1, <1>2, <1>3 DEF DriverLeft, CallsLeft
<1>5. EchoLeft("node1") \in 0 .. 2 /\ EchoLeft("node2") \in 0 .. 2
  BY DEF EchoLeft
<1>t. /\ midtier \in {"absent", "build", "connect", "load", "index", "serving", "exited"}
      /\ client \in {"absent", "build", "connect", "load", "start", "warmup", "run", "kill",
                     "exited"}
  BY DEF TypeOK, StartUpTypeOK
<1>6. MidtierLeft \in 0 .. 5
  BY <1>t DEF MidtierLeft
<1>7. ClientLeft \in 0 .. 7
  BY <1>t DEF ClientLeft
<1>b. BucketLeft \in 0 .. 2 /\ ErrorLeft \in 0 .. 1
  BY DEF BucketLeft, ErrorLeft, One
<1>8. ServicesLeft \in 0 .. 19
  BY <1>5, <1>6, <1>7, <1>b DEF ServicesLeft
<1>9. ProfilersLeft \in 0 .. 4
  BY DEF ProfilersLeft, ProfilerLeft
<1> QED
  BY <1>2, <1>4, <1>8, <1>9 DEF SmallParts, OthersLeft

\* So they are in the next state.
LEMMA LeftPartsNext == TypeOK' => SmallParts'
<1>1. TypeOK => SmallParts
  BY LeftParts
<1> QED
  BY <1>1, PTL

\* The measure is a number.
LEMMA LeftNumber ==
    ASSUME TypeOK'
    PROVE  Left' \in Nat
BY LeftPartsNext DEF Left, SmallParts

\* A step of the driver outweighs all it lets the others do.
LEMMA DriverLowers ==
    ASSUME TypeOK, TypeOK', DriverLeft' < DriverLeft
    PROVE  Left' < Left
BY LeftParts, LeftPartsNext DEF Left, SmallParts

\* A step of the others lowers the measure if it lowers theirs.
LEMMA OthersLower ==
    ASSUME TypeOK, TypeOK', DriverLeft' = DriverLeft, OthersLeft' < OthersLeft
    PROVE  Left' < Left
BY LeftParts, LeftPartsNext DEF Left, SmallParts

\* Every step of a process of the deployment lowers what they have left.
LEMMA ServicesLower ==
    ASSUME TypeOK, TypeOK', Progress \/ Accident
    PROVE  ServicesLeft' < ServicesLeft
<1>1. /\ \A n \in Node : EchoLeft(n) \in Nat /\ EchoLeft(n)' \in Nat
      /\ Node = {"node1", "node2"}
  BY DEF EchoLeft, Node
<1>2. /\ midtier \in {"absent", "build", "connect", "load", "index", "serving", "exited"}
      /\ client \in {"absent", "build", "connect", "load", "start", "warmup", "run", "kill",
                     "exited"}
      /\ echo \in [Node -> {"down", "listening", "exited"}]
  BY DEF TypeOK, StartUpTypeOK
<1>3. MidtierLeft \in Nat /\ ClientLeft \in Nat /\ BucketLeft \in Nat /\ ErrorLeft \in Nat
  BY <1>2 DEF MidtierLeft, ClientLeft, BucketLeft, ErrorLeft, One
<1>4. CASE \E n \in Node : EchoListens(n) \/ EchoExits(n)
  <2>1. PICK n \in Node : EchoListens(n) \/ EchoExits(n)
    BY <1>4
  <2>2. /\ EchoLeft(n)' < EchoLeft(n)
        /\ \A m \in Node \ {n} : EchoLeft(m)' = EchoLeft(m)
    BY <1>2, <2>1 DEF EchoListens, EchoExits, EchoLeft
  <2>3. /\ MidtierLeft' = MidtierLeft /\ ClientLeft' = ClientLeft
        /\ BucketLeft' = BucketLeft /\ ErrorLeft' = ErrorLeft
    BY <2>1 DEF EchoListens, EchoExits, MidtierLeft, ClientLeft, BucketLeft, ErrorLeft, One
  <2>4. CASE n = "node1"
    BY <1>1, <1>3, <2>2, <2>3, <2>4 DEF ServicesLeft
  <2>5. CASE n = "node2"
    BY <1>1, <1>3, <2>2, <2>3, <2>5 DEF ServicesLeft
  <2> QED
    BY <1>1, <2>1, <2>4, <2>5
<1>5. CASE \/ MidtierBuilt \/ MidtierConnects \/ MidtierRefused \/ MidtierLoads
           \/ MidtierServes \/ MidtierLosesBucket \/ MidtierKilled \/ MidtierDies
  <2>1. UNCHANGED <<echo, bucket, client, log>>
    BY <1>5 DEF MidtierBuilt, MidtierConnects, MidtierRefused, MidtierLoads, MidtierServes,
         MidtierLosesBucket, MidtierKilled, MidtierDies, MidtierAt
  <2>2. \/ midtier = "build" /\ midtier' = "connect"
        \/ midtier = "connect" /\ midtier' = "load"
        \/ midtier = "load" /\ midtier' = "index"
        \/ midtier = "index" /\ midtier' = "serving"
        \/ midtier \in {"build", "connect", "load", "index", "serving"} /\ midtier' = "exited"
    BY <1>5 DEF MidtierBuilt, MidtierConnects, MidtierRefused, MidtierLoads, MidtierServes,
         MidtierLosesBucket, MidtierKilled, MidtierDies, MidtierAt
  <2>3. MidtierLeft' < MidtierLeft /\ MidtierLeft' \in Nat
    BY <2>2 DEF MidtierLeft
  <2>4. /\ EchoLeft("node1")' = EchoLeft("node1") /\ EchoLeft("node2")' = EchoLeft("node2")
        /\ ClientLeft' = ClientLeft /\ BucketLeft' = BucketLeft /\ ErrorLeft' = ErrorLeft
    BY <2>1 DEF EchoLeft, ClientLeft, BucketLeft, ErrorLeft, One
  <2> QED
    BY <1>1, <1>3, <2>3, <2>4 DEF ServicesLeft
<1>6. CASE \/ ClientFindsMidtier \/ ClientConnects \/ ClientRefused \/ ClientLoads
           \/ ClientStarts \/ WarmupEnds \/ RunEnds \/ KillAcked \/ ClientFails \/ ClientDies
  <2>1. UNCHANGED <<echo, bucket, midtier>>
    BY <1>6 DEF ClientFindsMidtier, ClientConnects, ClientRefused, ClientLoads, ClientStarts,
         WarmupEnds, RunEnds, KillAcked, ClientFails, ClientDies, ClientPrints
  <2>2. \/ client = "build" /\ client' = "connect"
        \/ client = "connect" /\ client' = "load"
        \/ client = "load" /\ client' = "start"
        \/ client = "start" /\ client' = "warmup"
        \/ client = "warmup" /\ client' = "run"
        \/ client = "run" /\ client' = "kill"
        \/ /\ client \in {"build", "connect", "load", "start", "warmup", "run", "kill"}
           /\ client' = "exited"
    BY <1>6 DEF ClientFindsMidtier, ClientConnects, ClientRefused, ClientLoads, ClientStarts,
         WarmupEnds, RunEnds, KillAcked, ClientFails, ClientDies, ClientPrints
  <2>3. ClientLeft' < ClientLeft /\ ClientLeft' \in Nat
    BY <2>2 DEF ClientLeft
  <2>4. /\ EchoLeft("node1")' = EchoLeft("node1") /\ EchoLeft("node2")' = EchoLeft("node2")
        /\ MidtierLeft' = MidtierLeft /\ BucketLeft' = BucketLeft
    BY <2>1 DEF EchoLeft, MidtierLeft, BucketLeft
  <2>5. log' \in {log, log \cup {"End of Warmup Period"}, log \cup {"End of Actual Run"}}
    BY <1>6 DEF ClientFindsMidtier, ClientConnects, ClientRefused, ClientLoads, ClientStarts,
         WarmupEnds, RunEnds, KillAcked, ClientFails, ClientDies, ClientPrints
  <2>6. ErrorLeft' = ErrorLeft
    BY <2>5 DEF ErrorLeft, One
  <2> QED
    BY <1>1, <1>3, <2>3, <2>4, <2>6 DEF ServicesLeft
<1>7. CASE BucketListens \/ BucketExits
  <2>1. UNCHANGED <<echo, midtier, client, log>>
    BY <1>7 DEF BucketListens, BucketExits, BucketAt
  <2>2. BucketLeft' < BucketLeft /\ BucketLeft' \in Nat
    BY <1>7 DEF BucketListens, BucketExits, BucketAt, BucketLeft
  <2>3. /\ EchoLeft("node1")' = EchoLeft("node1") /\ EchoLeft("node2")' = EchoLeft("node2")
        /\ MidtierLeft' = MidtierLeft /\ ClientLeft' = ClientLeft /\ ErrorLeft' = ErrorLeft
    BY <2>1 DEF EchoLeft, MidtierLeft, ClientLeft, ErrorLeft, One
  <2> QED
    BY <1>1, <1>3, <2>2, <2>3 DEF ServicesLeft
<1>8. CASE RpcFails
  <2>1. UNCHANGED <<echo, bucket, midtier, client>>
    BY <1>8 DEF RpcFails, ClientPrints
  <2>2. ErrorLeft = 1 /\ ErrorLeft' = 0
    BY <1>8 DEF RpcFails, ClientPrints, ErrorLeft, One
  <2>3. /\ EchoLeft("node1")' = EchoLeft("node1") /\ EchoLeft("node2")' = EchoLeft("node2")
        /\ MidtierLeft' = MidtierLeft /\ ClientLeft' = ClientLeft /\ BucketLeft' = BucketLeft
    BY <2>1 DEF EchoLeft, MidtierLeft, ClientLeft, BucketLeft
  <2> QED
    BY <1>1, <1>3, <2>2, <2>3 DEF ServicesLeft
<1> QED
  BY <1>4, <1>5, <1>6, <1>7, <1>8 DEF Progress, Accident

\* A stage that sets its calls before the driver is worth three, and the calls are two.
LEMMA StageOutweighsCalls ==
    ASSUME NEW b \in Nat, NEW s \in 0 .. 21, NEW t \in 0 .. 21, NEW c \in 0 .. 2, NEW d \in 0 .. 2,
           t + 3 = s
    PROVE  b + t + d < b + s + c
OBVIOUS

\* Every step of the driver lowers what it has left.
LEMMA DriveLowers ==
    ASSUME IInv, TypeOK', Drive \/ RetryLate
    PROVE  DriverLeft' < DriverLeft
<1>0. TypeOK /\ TriesPaid
  BY DEF IInv
<1>1. try \in Nat /\ MaxTries \in Nat /\ todo \subseteq Node /\ Node = {"node1", "node2"}
  BY <1>0, Numbers DEF TypeOK, Node
<1>2. /\ CallsLeft \in 0 .. 2 /\ CallsLeft' \in 0 .. 2
      /\ StagesLeft \in 0 .. 21 /\ StagesLeft' \in 0 .. 21
  <2>1. CallsLeft \in 0 .. 2 /\ CallsLeft' \in 0 .. 2
    BY DEF CallsLeft, One
  <2>2. StagesLeft \in 0 .. 21 /\ StagesLeft' \in 0 .. 21
    BY <1>0 DEF TypeOK, StagesLeft
  <2> QED
    BY <2>1, <2>2
<1>3. /\ DriverLeft = 22 * (MaxTries - try) + StagesLeft + CallsLeft
      /\ DriverLeft' = 22 * (MaxTries - try') + StagesLeft' + CallsLeft'
  BY DEF DriverLeft
<1>4. CASE KillRemote \/ KillProfiler \/ RunRemote \/ FirstLook \/ WarmedUp
  <2>1. StagesLeft' < StagesLeft
    <3>1. \/ dpc = "killStack" /\ dpc' = "killProfilers"
          \/ dpc = "killProfilers" /\ dpc' = "deploy"
          \/ dpc = "deploy" /\ dpc' = "firstLook"
          \/ dpc = "firstLook" /\ dpc' = "waitWarmup"
          \/ dpc \in {"firstLook", "waitWarmup"} /\ dpc' = "launch"
      BY <1>4 DEF KillRemote, KillProfiler, RunRemote, FirstLook, WarmedUp, DriverAt
    <3> QED
      BY <3>1 DEF StagesLeft
  <2>2. UNCHANGED <<try, todo>>
    BY <1>4 DEF KillRemote, KillProfiler, RunRemote, FirstLook, WarmedUp
  <2>3. CallsLeft' = CallsLeft
    BY <2>2 DEF CallsLeft
  <2>4. DriverLeft' = 22 * (MaxTries - try) + StagesLeft' + CallsLeft
    BY <1>3, <2>2, <2>3
  <2>5. 22 * (MaxTries - try) \in Nat
    BY <1>0, Numbers
  <2> QED
    BY <1>2, <1>3, <2>1, <2>4, <2>5
<1>5. CASE Retry \/ RetryLate
  <2>1. StagesLeft = 17 /\ StagesLeft' = 21
    BY <1>5 DEF Retry, RetryLate, TryAgain, DriverAt, StagesLeft
  <2>2. try' = try + 1 /\ todo' = todo
    BY <1>5 DEF Retry, RetryLate, TryAgain
  <2>3. CallsLeft' = CallsLeft
    BY <2>2 DEF CallsLeft
  <2> QED
    BY <1>1, <1>2, <1>3, <2>1, <2>2, <2>3
<1>6. CASE Launch \/ RunDone \/ AllStopped
  <2>1. StagesLeft' + 3 = StagesLeft
    <3>1. \/ dpc = "launch" /\ dpc' = "start"
          \/ dpc = "waitRun" /\ dpc' = "stop"
          \/ dpc = "report" /\ dpc' = "reporting"
      BY <1>6 DEF Launch, RunDone, AllStopped, DriverAt
    <3> QED
      BY <3>1 DEF StagesLeft
  <2>2. try' = try
    BY <1>6 DEF Launch, RunDone, AllStopped
  <2>3. 22 * (MaxTries - try) \in Nat
    BY <1>0, Numbers
  <2>4. DriverLeft' = 22 * (MaxTries - try) + StagesLeft' + CallsLeft'
    BY <1>3, <2>2
  <2> QED
    BY <1>2, <1>3, <2>1, <2>3, <2>4, StageOutweighsCalls
<1>7. CASE Finish
  <2>1. StagesLeft = 7 /\ todo' = todo
    BY <1>7 DEF Finish, DriverAt, StagesLeft
  <2>2. (StagesLeft' = 0 /\ try' = try) \/ (StagesLeft' = 21 /\ try' = try + 1)
    BY <1>7 DEF Finish, DriverAt, StagesLeft
  <2>3. CallsLeft' = CallsLeft
    BY <2>1 DEF CallsLeft
  <2> QED
    BY <1>1, <1>2, <1>3, <2>1, <2>2, <2>3
<1>8. CASE \E n \in Node : Start(n) \/ Stop(n) \/ Report(n)
  <2>1. PICK n \in Node : Start(n) \/ Stop(n) \/ Report(n)
    BY <1>8
  <2>2. n \in todo /\ todo' = todo \ {n} /\ try' = try
    BY <2>1 DEF Start, Stop, Report, Call
  <2>3. StagesLeft' = StagesLeft
    BY <2>1 DEF Start, Stop, Report, Call, StagesLeft
  <2>4. CallsLeft' = CallsLeft - 1
    BY <1>1, <2>2 DEF CallsLeft, One
  <2> QED
    BY <1>1, <1>2, <1>3, <2>2, <2>3, <2>4
<1> QED
  BY <1>4, <1>5, <1>6, <1>7, <1>8 DEF Drive

\* Every step lowers the measure, whoever takes it and whatever goes wrong: a batch has
\* finitely many, and only its scripts look at the log for ever (run_experiment.py
\* 376, startProfiler.sh 22, check-run-status.sh 3).  Where they run out nothing but
\* silence keeps the driver (NothingElseStops).
THEOREM StepsRunOut == Spec => [][Left' \in Nat /\ Left' < Left]_vars
<1>1. ASSUME IInv, IInv', Next
      PROVE  (Left' \in Nat /\ Left' < Left) \/ UNCHANGED vars
  <2>0. TypeOK /\ TypeOK'
    BY <1>1 DEF IInv
  <2>l. Left' \in Nat
    BY <2>0, LeftNumber
  <2>s. /\ ServicesLeft \in Nat /\ ProfilersLeft \in Nat /\ One(removing) \in Nat
        /\ ServicesLeft' \in Nat /\ ProfilersLeft' \in Nat /\ One(removing)' \in Nat
    BY <2>0, LeftPartsNext, LeftParts DEF SmallParts
  <2>1. CASE Drive \/ RetryLate
    BY <1>1, <2>0, <2>1, <2>l, DriveLowers, DriverLowers
  <2>2. CASE Service \/ Trouble
    <3>1. ServicesLeft' < ServicesLeft
      BY <2>0, <2>2, ServicesLower DEF Service, Trouble
    <3>2. UNCHANGED <<dpc, todo, try, removing, profiler>>
      BY <2>2 DEF Service, Trouble, driverVars, stackVars, profilerVars
    <3>3. DriverLeft' = DriverLeft /\ ProfilersLeft' = ProfilersLeft
          /\ One(removing)' = One(removing)
      BY <3>2 DEF DriverLeft, StagesLeft, ProfilersLeft, ProfilerLeft, CallsLeft, One
    <3>4. OthersLeft' < OthersLeft
      BY <2>s, <3>1, <3>3 DEF OthersLeft
    <3> QED
      BY <2>0, <2>l, <3>3, <3>4, OthersLower
  <2>3. CASE NetworkRemoved
    <3>1. /\ removing /\ ~removing'
          /\ UNCHANGED <<dpc, todo, try, profiler, echo, bucket, midtier, client, log>>
      BY <2>3 DEF NetworkRemoved, services, startUpVars, profilerVars
    <3>2. One(removing) = 1 /\ One(removing)' = 0
      BY <3>1 DEF One
    <3>3. DriverLeft' = DriverLeft /\ ProfilersLeft' = ProfilersLeft
          /\ ServicesLeft' = ServicesLeft
      BY <3>1 DEF DriverLeft, StagesLeft, ProfilersLeft, ProfilerLeft, CallsLeft, One, ServicesLeft,
           EchoLeft, BucketLeft, MidtierLeft, ClientLeft, ErrorLeft
    <3>4. OthersLeft' < OthersLeft
      BY <2>s, <3>2, <3>3 DEF OthersLeft
    <3> QED
      BY <2>0, <2>l, <3>3, <3>4, OthersLower
  <2>4. CASE \E n \in Node : ProfilerListens(n) \/ ProfilerDies(n)
    <3>1. PICK n \in Node : ProfilerListens(n) \/ ProfilerDies(n)
      BY <2>4
    <3>2. UNCHANGED <<dpc, todo, try, removing, echo, bucket, midtier, client, log>>
      BY <3>1 DEF ProfilerListens, ProfilerDies, services, startUpVars, driverVars, stackVars
    <3>3. DriverLeft' = DriverLeft /\ ServicesLeft' = ServicesLeft
          /\ One(removing)' = One(removing)
      BY <3>2 DEF DriverLeft, StagesLeft, CallsLeft, One, ServicesLeft, EchoLeft,
           BucketLeft, MidtierLeft, ClientLeft, ErrorLeft
    <3>4. /\ ProfilerLeft(n)' < ProfilerLeft(n)
          /\ \A m \in Node \ {n} : ProfilerLeft(m)' = ProfilerLeft(m)
      BY <2>0, <3>1 DEF ProfilerListens, ProfilerDies, ProfilerLeft, TypeOK
    <3>5. \A m \in Node : ProfilerLeft(m) \in Nat /\ ProfilerLeft(m)' \in Nat
      BY DEF ProfilerLeft
    <3>6. ProfilersLeft' < ProfilersLeft
      BY <3>1, <3>4, <3>5 DEF ProfilersLeft, Node
    <3>7. OthersLeft' < OthersLeft
      BY <2>s, <3>3, <3>6 DEF OthersLeft
    <3> QED
      BY <2>0, <2>l, <3>3, <3>7, OthersLower
  <2> QED
    BY <1>1, <2>1, <2>2, <2>3, <2>4 DEF Next, Rest
<1>2. IInv /\ IInv' /\ [Next]_vars => [Left' \in Nat /\ Left' < Left]_vars
  BY <1>1
<1> QED
  BY <1>2, Invariant, PTL DEF Spec
=============================================================================
