-------------------------- MODULE PreRequestProofs --------------------------
(***************************************************************************)
(* Proofs about PreRequest, for every set of workers, every wait and every *)
(* length of the second.                                                   *)
(***************************************************************************)
EXTENDS PreRequest, TLAPS

\* A flag that is up and not yet acted on belongs to a request that no
\* pre-request has answered to.
FlagOwed == flag /\ hpc \notin {"read", "reset"} => owed

\* While the helper does not read, nothing is on the wire; while it reads,
\* one message at most.
WireQuiet ==
    /\ hpc # "read" => toEcho = 0 /\ toHelper = 0
    /\ hpc # "read" /\ link => echo # "answering"
    /\ toEcho + toHelper <= 1

\* As long as tv_usec has not started again, the timestamps of the wait loop
\* differ by no more than the time that has passed.
TimesTold ==
    /\ hpc = "readStart" /\ ~wrapped => endUsec <= usec
    /\ hpc = "wait" /\ ~wrapped => /\ endUsec - startUsec <= atRead
                                   /\ usec - startUsec <= passed

\* After a wait that was not cut short: the flag has been up from the moment the helper
\* saw it, and the loop has ended by time.
WaitTold ==
    Wait > 0 =>
        /\ hpc = "check" /\ flag /\ ~anew => atRead >= Wait \/ wrapped
        /\ hpc = "send" => atRead >= Wait \/ wrapped \/ anew

\* The inductive invariant.
IInv ==
    /\ TypeOK
    /\ FlagMeansRequest
    /\ OnePerRequest
    /\ ReplyToLast
    /\ FlagOwed
    /\ WireQuiet
    /\ TimesTold
    /\ WaitTold

-----------------------------------------------------------------------------
\* A microsecond later tv_usec is one more, or starts again at zero.
LEMMA ClockStep ==
    ASSUME NEW u \in 0 .. Second - 1
    PROVE  /\ (u + 1) % Second \in 0 .. Second - 1
           /\ (u + 1) % Second # 0 => (u + 1) % Second = u + 1
<1>1. CASE u + 1 < Second
  BY <1>1, SecondAssumption
<1>2. CASE u + 1 = Second
  BY <1>2, SecondAssumption
<1> QED
  BY <1>1, <1>2, SecondAssumption

\* The initial states of the pre-request machinery satisfy the invariant.
LEMMA InitInvariant == Init => IInv
<1> SUFFICES ASSUME Init PROVE IInv
  OBVIOUS
<1>1. TypeOK
  <2>1. 0 \in 0 .. Second - 1 /\ 0 \in 0 .. Second
    BY SecondAssumption
  <2>2. wpc \in [Workers -> {"idle", "processing", "asleep"}]
    BY DEF Init
  <2>3. hpc \in {"returned", "spin"}
    BY DEF Init
  <2> QED
    <3>1. /\ flag \in BOOLEAN /\ wrapped \in BOOLEAN /\ owed \in BOOLEAN /\ anew \in BOOLEAN
          /\ link \in BOOLEAN /\ process \in BOOLEAN
      BY DEF Init
    <3>2. /\ startUsec \in 0 .. Second - 1 /\ endUsec \in 0 .. Second - 1
          /\ usec \in 0 .. Second - 1
          /\ passed \in 0 .. Second /\ atRead \in 0 .. Second
          /\ toEcho \in 0 .. 1 /\ toHelper \in 0 .. 1
          /\ echo \in {"reading", "answering", "elsewhere"}
      BY <2>1 DEF Init
    <3> QED
      BY <2>2, <2>3, <3>1, <3>2 DEF TypeOK
<1>2. /\ FlagMeansRequest
      /\ OnePerRequest
      /\ FlagOwed
  BY DEF Init, FlagMeansRequest, OnePerRequest, FlagOwed
<1>3. ReplyToLast /\ WireQuiet
  BY DEF Init, ReplyToLast, WireQuiet
<1>4. TimesTold /\ WaitTold
  BY DEF Init, TimesTold, WaitTold
<1> QED
  BY <1>1, <1>2, <1>3, <1>4 DEF IInv

\* A worker that begins a request raises the flag.
LEMMA BeginStep ==
    ASSUME IInv, NEW w \in Workers, Begin(w)
    PROVE  IInv'
<1>1. TypeOK'
  BY SecondAssumption, WaitAssumption
  DEF IInv, TypeOK, Begin, ReplyToLast, WireQuiet,
      workerVars, clockVars, timerVars, wireVars
<1>2. FlagMeansRequest'
  BY DEF IInv, TypeOK, FlagMeansRequest, Begin,
      workerVars, clockVars, timerVars, wireVars
<1>3. OnePerRequest' /\ FlagOwed'
  BY DEF IInv, OnePerRequest, FlagOwed, Begin,
      workerVars, clockVars, timerVars, wireVars
<1>4. ReplyToLast' /\ WireQuiet'
  BY DEF IInv, TypeOK, ReplyToLast, WireQuiet, Begin,
      workerVars, clockVars, timerVars, wireVars
<1>5. TimesTold'
  BY DEF IInv, TypeOK, TimesTold, Begin,
      workerVars, clockVars, timerVars, wireVars
<1>6. WaitTold'
  BY DEF IInv, TypeOK, WaitTold, Begin,
      workerVars, clockVars, timerVars, wireVars
<1> QED
  BY <1>1, <1>2, <1>3, <1>4, <1>5, <1>6 DEF IInv

\* The flag goes down with the worker's last act for a request.
LEMMA EndStep ==
    ASSUME IInv, NEW w \in Workers, End(w)
    PROVE  IInv'
<1>1. TypeOK'
  BY SecondAssumption, WaitAssumption
  DEF IInv, TypeOK, End, ReplyToLast, WireQuiet,
      workerVars, clockVars, timerVars, wireVars
<1>2. FlagMeansRequest'
  BY DEF IInv, TypeOK, FlagMeansRequest, End,
      workerVars, clockVars, timerVars, wireVars
<1>3. OnePerRequest' /\ FlagOwed'
  BY DEF IInv, OnePerRequest, FlagOwed, End,
      workerVars, clockVars, timerVars, wireVars
<1>4. ReplyToLast' /\ WireQuiet'
  BY DEF IInv, TypeOK, ReplyToLast, WireQuiet, End,
      workerVars, clockVars, timerVars, wireVars
<1>5. TimesTold'
  BY DEF IInv, TypeOK, TimesTold, End,
      workerVars, clockVars, timerVars, wireVars
<1>6. WaitTold'
  BY DEF IInv, TypeOK, WaitTold, End,
      workerVars, clockVars, timerVars, wireVars
<1> QED
  BY <1>1, <1>2, <1>3, <1>4, <1>5, <1>6 DEF IInv

\* A worker with a kill request sleeps.
LEMMA SleepStep ==
    ASSUME IInv, NEW w \in Workers, Sleep(w)
    PROVE  IInv'
<1>1. TypeOK'
  BY SecondAssumption, WaitAssumption
  DEF IInv, TypeOK, Sleep, ReplyToLast, WireQuiet,
      workerVars, clockVars, timerVars, wireVars
<1>2. FlagMeansRequest'
  BY DEF IInv, TypeOK, FlagMeansRequest, Sleep,
      workerVars, clockVars, timerVars, wireVars
<1>3. OnePerRequest' /\ FlagOwed'
  BY DEF IInv, OnePerRequest, FlagOwed, Sleep,
      workerVars, clockVars, timerVars, wireVars
<1>4. ReplyToLast' /\ WireQuiet'
  BY DEF IInv, TypeOK, ReplyToLast, WireQuiet, Sleep,
      workerVars, clockVars, timerVars, wireVars
<1>5. TimesTold'
  BY DEF IInv, TypeOK, TimesTold, Sleep,
      workerVars, clockVars, timerVars, wireVars
<1>6. WaitTold'
  BY DEF IInv, TypeOK, WaitTold, Sleep,
      workerVars, clockVars, timerVars, wireVars
<1> QED
  BY <1>1, <1>2, <1>3, <1>4, <1>5, <1>6 DEF IInv

\* The process exits.
LEMMA ExitStep ==
    ASSUME IInv, NEW w \in Workers, Exit(w)
    PROVE  IInv'
<1>1. TypeOK'
  BY SecondAssumption, WaitAssumption
  DEF IInv, TypeOK, Exit, ReplyToLast, WireQuiet,
      workerVars, clockVars, timerVars, wireVars
<1>2. FlagMeansRequest'
  BY DEF IInv, TypeOK, FlagMeansRequest, Exit,
      workerVars, clockVars, timerVars, wireVars
<1>3. OnePerRequest' /\ FlagOwed'
  BY DEF IInv, OnePerRequest, FlagOwed, Exit,
      workerVars, clockVars, timerVars, wireVars
<1>4. ReplyToLast' /\ WireQuiet'
  BY DEF IInv, TypeOK, ReplyToLast, WireQuiet, Exit,
      workerVars, clockVars, timerVars, wireVars
<1>5. TimesTold'
  BY DEF IInv, TypeOK, TimesTold, Exit,
      workerVars, clockVars, timerVars, wireVars
<1>6. WaitTold'
  BY DEF IInv, TypeOK, WaitTold, Exit,
      workerVars, clockVars, timerVars, wireVars
<1> QED
  BY <1>1, <1>2, <1>3, <1>4, <1>5, <1>6 DEF IInv

\* The helper sees the flag.
LEMMA SeeFlagKept ==
    ASSUME IInv, SeeFlag
    PROVE  IInv'
<1>1. TypeOK'
  BY SecondAssumption, WaitAssumption
  DEF IInv, TypeOK, SeeFlag, HelperGoes, ReplyToLast, WireQuiet,
      workerVars, clockVars, timerVars, wireVars
<1>2. FlagMeansRequest'
  BY DEF IInv, TypeOK, FlagMeansRequest, SeeFlag, HelperGoes,
      workerVars, clockVars, timerVars, wireVars
<1>3. OnePerRequest' /\ FlagOwed'
  BY DEF IInv, OnePerRequest, FlagOwed, SeeFlag, HelperGoes,
      workerVars, clockVars, timerVars, wireVars
<1>4. ReplyToLast' /\ WireQuiet'
  BY DEF IInv, TypeOK, ReplyToLast, WireQuiet, SeeFlag, HelperGoes,
      workerVars, clockVars, timerVars, wireVars
<1>5. TimesTold'
  BY DEF IInv, TypeOK, TimesTold, SeeFlag, HelperGoes,
      workerVars, clockVars, timerVars, wireVars
<1>6. WaitTold'
  BY DEF IInv, TypeOK, WaitTold, SeeFlag, HelperGoes,
      workerVars, clockVars, timerVars, wireVars
<1> QED
  BY <1>1, <1>2, <1>3, <1>4, <1>5, <1>6 DEF IInv

\* The first timestamp.
LEMMA ReadEndKept ==
    ASSUME IInv, ReadEnd
    PROVE  IInv'
<1>1. TypeOK'
  BY SecondAssumption, WaitAssumption
  DEF IInv, TypeOK, ReadEnd, HelperGoes, ReplyToLast, WireQuiet,
      workerVars, clockVars, timerVars, wireVars
<1>2. FlagMeansRequest'
  BY DEF IInv, TypeOK, FlagMeansRequest, ReadEnd, HelperGoes,
      workerVars, clockVars, timerVars, wireVars
<1>3. OnePerRequest' /\ FlagOwed'
  BY DEF IInv, OnePerRequest, FlagOwed, ReadEnd, HelperGoes,
      workerVars, clockVars, timerVars, wireVars
<1>4. ReplyToLast' /\ WireQuiet'
  BY DEF IInv, TypeOK, ReplyToLast, WireQuiet, ReadEnd, HelperGoes,
      workerVars, clockVars, timerVars, wireVars
<1>5. TimesTold'
  BY DEF IInv, TypeOK, TimesTold, ReadEnd, HelperGoes,
      workerVars, clockVars, timerVars, wireVars
<1>6. WaitTold'
  BY DEF IInv, TypeOK, WaitTold, ReadEnd, HelperGoes,
      workerVars, clockVars, timerVars, wireVars
<1> QED
  BY <1>1, <1>2, <1>3, <1>4, <1>5, <1>6 DEF IInv

\* The second timestamp.
LEMMA ReadStartKept ==
    ASSUME IInv, ReadStart
    PROVE  IInv'
<1>1. TypeOK'
  BY SecondAssumption, WaitAssumption
  DEF IInv, TypeOK, ReadStart, HelperGoes, ReplyToLast, WireQuiet,
      workerVars, clockVars, timerVars, wireVars
<1>2. FlagMeansRequest'
  BY DEF IInv, TypeOK, FlagMeansRequest, ReadStart, HelperGoes,
      workerVars, clockVars, timerVars, wireVars
<1>3. OnePerRequest' /\ FlagOwed'
  BY DEF IInv, OnePerRequest, FlagOwed, ReadStart, HelperGoes,
      workerVars, clockVars, timerVars, wireVars
<1>4. ReplyToLast' /\ WireQuiet'
  BY DEF IInv, TypeOK, ReplyToLast, WireQuiet, ReadStart, HelperGoes,
      workerVars, clockVars, timerVars, wireVars
<1>5. TimesTold'
  BY DEF IInv, TypeOK, TimesTold, ReadStart, HelperGoes,
      workerVars, clockVars, timerVars, wireVars
<1>6. WaitTold'
  BY DEF IInv, TypeOK, WaitTold, ReadStart, HelperGoes,
      workerVars, clockVars, timerVars, wireVars
<1> QED
  BY <1>1, <1>2, <1>3, <1>4, <1>5, <1>6 DEF IInv

\* Another turn of the wait loop.
LEMMA WaitOnKept ==
    ASSUME IInv, WaitOn
    PROVE  IInv'
<1>1. TypeOK'
  BY SecondAssumption, WaitAssumption
  DEF IInv, TypeOK, WaitOn, KeepsWaiting, HelperGoes, ReplyToLast, WireQuiet,
      workerVars, clockVars, timerVars, wireVars
<1>2. FlagMeansRequest'
  BY DEF IInv, TypeOK, FlagMeansRequest, WaitOn, KeepsWaiting, HelperGoes,
      workerVars, clockVars, timerVars, wireVars
<1>3. OnePerRequest' /\ FlagOwed'
  BY DEF IInv, OnePerRequest, FlagOwed, WaitOn, KeepsWaiting, HelperGoes,
      workerVars, clockVars, timerVars, wireVars
<1>4. ReplyToLast' /\ WireQuiet'
  BY DEF IInv, TypeOK, ReplyToLast, WireQuiet, WaitOn, KeepsWaiting, HelperGoes,
      workerVars, clockVars, timerVars, wireVars
<1>5. TimesTold'
  BY DEF IInv, TypeOK, TimesTold, WaitOn, KeepsWaiting, HelperGoes,
      workerVars, clockVars, timerVars, wireVars
<1>6. WaitTold'
  BY DEF IInv, TypeOK, WaitTold, WaitOn, KeepsWaiting, HelperGoes,
      workerVars, clockVars, timerVars, wireVars
<1> QED
  BY <1>1, <1>2, <1>3, <1>4, <1>5, <1>6 DEF IInv

\* The wait loop ends.
LEMMA WaitOverKept ==
    ASSUME IInv, WaitOver
    PROVE  IInv'
<1>1. TypeOK'
  BY SecondAssumption, WaitAssumption
  DEF IInv, TypeOK, WaitOver, KeepsWaiting, HelperGoes, ReplyToLast, WireQuiet,
      workerVars, clockVars, timerVars, wireVars
<1>2. FlagMeansRequest'
  BY DEF IInv, TypeOK, FlagMeansRequest, WaitOver, KeepsWaiting, HelperGoes,
      workerVars, clockVars, timerVars, wireVars
<1>3. OnePerRequest' /\ FlagOwed'
  BY DEF IInv, OnePerRequest, FlagOwed, WaitOver, KeepsWaiting, HelperGoes,
      workerVars, clockVars, timerVars, wireVars
<1>4. ReplyToLast' /\ WireQuiet'
  BY DEF IInv, TypeOK, ReplyToLast, WireQuiet, WaitOver, KeepsWaiting, HelperGoes,
      workerVars, clockVars, timerVars, wireVars
<1>5. TimesTold'
  BY DEF IInv, TypeOK, TimesTold, WaitOver, KeepsWaiting, HelperGoes,
      workerVars, clockVars, timerVars, wireVars
<1>6. WaitTold'
  <2>1. hpc = "wait" /\ hpc' = "check" /\ ~KeepsWaiting
    BY DEF WaitOver, HelperGoes
  <2>2. /\ endUsec \in Int /\ startUsec \in Int /\ atRead \in Int /\ Wait \in Int
        /\ ~wrapped => endUsec - startUsec <= atRead
    BY <2>1, WaitAssumption, SecondAssumption DEF IInv, TypeOK, TimesTold
  <2>3. flag => ~(endUsec - startUsec < Wait)
    BY <2>1 DEF KeepsWaiting
  <2>4. flag => atRead >= Wait \/ wrapped
    BY <2>2, <2>3
  <2> QED
    BY <2>1, <2>4 DEF WaitTold, WaitOver, workerVars, clockVars, timerVars
<1> QED
  BY <1>1, <1>2, <1>3, <1>4, <1>5, <1>6 DEF IInv

\* The flag is looked at once more.
LEMMA CheckKept ==
    ASSUME IInv, Check
    PROVE  IInv'
<1>1. TypeOK'
  BY SecondAssumption, WaitAssumption
  DEF IInv, TypeOK, Check, HelperGoes, ReplyToLast, WireQuiet,
      workerVars, clockVars, timerVars, wireVars
<1>2. FlagMeansRequest'
  BY DEF IInv, TypeOK, FlagMeansRequest, Check, HelperGoes,
      workerVars, clockVars, timerVars, wireVars
<1>3. OnePerRequest' /\ FlagOwed'
  BY DEF IInv, OnePerRequest, FlagOwed, Check, HelperGoes,
      workerVars, clockVars, timerVars, wireVars
<1>4. ReplyToLast' /\ WireQuiet'
  BY DEF IInv, TypeOK, ReplyToLast, WireQuiet, Check, HelperGoes,
      workerVars, clockVars, timerVars, wireVars
<1>5. TimesTold'
  BY DEF IInv, TypeOK, TimesTold, Check, HelperGoes,
      workerVars, clockVars, timerVars, wireVars
<1>6. WaitTold'
  BY DEF IInv, TypeOK, WaitTold, Check, HelperGoes,
      workerVars, clockVars, timerVars, wireVars
<1> QED
  BY <1>1, <1>2, <1>3, <1>4, <1>5, <1>6 DEF IInv

\* The pre-request leaves.
LEMMA SendKept ==
    ASSUME IInv, Send
    PROVE  IInv'
<1>1. TypeOK'
  <2>1. toEcho' = 1
    BY DEF IInv, WireQuiet, Send, HelperGoes
  <2>2. toEcho' \in 0 .. 1
    BY <2>1
  <2>3. hpc' \in {"returned", "spin", "readEnd", "readStart", "wait", "check",
                 "send", "read", "reset"}
    BY DEF Send, HelperGoes
  <2>4. process' = process /\ owed' \in BOOLEAN
    BY DEF Send
  <2>5. UNCHANGED <<flag, wpc, anew, clockVars, timerVars, toHelper, echo, link>>
    BY DEF Send
  <2> QED
    BY <2>2, <2>3, <2>4, <2>5 DEF IInv, TypeOK, clockVars, timerVars
<1>2. FlagMeansRequest'
  BY DEF IInv, TypeOK, FlagMeansRequest, Send, HelperGoes,
      workerVars, clockVars, timerVars, wireVars
<1>3. OnePerRequest' /\ FlagOwed'
  BY DEF IInv, OnePerRequest, FlagOwed, Send, HelperGoes,
      workerVars, clockVars, timerVars, wireVars
<1>4. ReplyToLast' /\ WireQuiet'
  BY DEF IInv, TypeOK, ReplyToLast, WireQuiet, Send, HelperGoes,
      workerVars, clockVars, timerVars, wireVars
<1>5. TimesTold'
  BY DEF IInv, TypeOK, TimesTold, Send, HelperGoes,
      workerVars, clockVars, timerVars, wireVars
<1>6. WaitTold'
  BY DEF IInv, TypeOK, WaitTold, Send, HelperGoes,
      workerVars, clockVars, timerVars, wireVars
<1> QED
  BY <1>1, <1>2, <1>3, <1>4, <1>5, <1>6 DEF IInv

\* send() fails.
LEMMA SendFailsKept ==
    ASSUME IInv, SendFails
    PROVE  IInv'
<1>1. TypeOK'
  BY SecondAssumption, WaitAssumption
  DEF IInv, TypeOK, SendFails, HelperGoes, ReplyToLast, WireQuiet,
      workerVars, clockVars, timerVars, wireVars
<1>2. FlagMeansRequest'
  BY DEF IInv, TypeOK, FlagMeansRequest, SendFails, HelperGoes,
      workerVars, clockVars, timerVars, wireVars
<1>3. OnePerRequest' /\ FlagOwed'
  BY DEF IInv, OnePerRequest, FlagOwed, SendFails, HelperGoes,
      workerVars, clockVars, timerVars, wireVars
<1>4. ReplyToLast' /\ WireQuiet'
  BY DEF IInv, TypeOK, ReplyToLast, WireQuiet, SendFails, HelperGoes,
      workerVars, clockVars, timerVars, wireVars
<1>5. TimesTold'
  BY DEF IInv, TypeOK, TimesTold, SendFails, HelperGoes,
      workerVars, clockVars, timerVars, wireVars
<1>6. WaitTold'
  BY DEF IInv, TypeOK, WaitTold, SendFails, HelperGoes,
      workerVars, clockVars, timerVars, wireVars
<1> QED
  BY <1>1, <1>2, <1>3, <1>4, <1>5, <1>6 DEF IInv

\* The reply is read.
LEMMA ReadReplyKept ==
    ASSUME IInv, ReadReply
    PROVE  IInv'
<1>1. TypeOK'
  BY SecondAssumption, WaitAssumption
  DEF IInv, TypeOK, ReadReply, HelperGoes, ReplyToLast, WireQuiet,
      workerVars, clockVars, timerVars, wireVars
<1>2. FlagMeansRequest'
  BY DEF IInv, TypeOK, FlagMeansRequest, ReadReply, HelperGoes,
      workerVars, clockVars, timerVars, wireVars
<1>3. OnePerRequest' /\ FlagOwed'
  BY DEF IInv, OnePerRequest, FlagOwed, ReadReply, HelperGoes,
      workerVars, clockVars, timerVars, wireVars
<1>4. ReplyToLast' /\ WireQuiet'
  BY DEF IInv, TypeOK, ReplyToLast, WireQuiet, ReadReply, HelperGoes,
      workerVars, clockVars, timerVars, wireVars
<1>5. TimesTold'
  BY DEF IInv, TypeOK, TimesTold, ReadReply, HelperGoes,
      workerVars, clockVars, timerVars, wireVars
<1>6. WaitTold'
  BY DEF IInv, TypeOK, WaitTold, ReadReply, HelperGoes,
      workerVars, clockVars, timerVars, wireVars
<1> QED
  BY <1>1, <1>2, <1>3, <1>4, <1>5, <1>6 DEF IInv

\* read() fails.
LEMMA ReadFailsKept ==
    ASSUME IInv, ReadFails
    PROVE  IInv'
<1>1. TypeOK'
  BY SecondAssumption, WaitAssumption
  DEF IInv, TypeOK, ReadFails, HelperGoes, ReplyToLast, WireQuiet,
      workerVars, clockVars, timerVars, wireVars
<1>2. FlagMeansRequest'
  BY DEF IInv, TypeOK, FlagMeansRequest, ReadFails, HelperGoes,
      workerVars, clockVars, timerVars, wireVars
<1>3. OnePerRequest' /\ FlagOwed'
  BY DEF IInv, OnePerRequest, FlagOwed, ReadFails, HelperGoes,
      workerVars, clockVars, timerVars, wireVars
<1>4. ReplyToLast' /\ WireQuiet'
  BY DEF IInv, TypeOK, ReplyToLast, WireQuiet, ReadFails, HelperGoes,
      workerVars, clockVars, timerVars, wireVars
<1>5. TimesTold'
  BY DEF IInv, TypeOK, TimesTold, ReadFails, HelperGoes,
      workerVars, clockVars, timerVars, wireVars
<1>6. WaitTold'
  BY DEF IInv, TypeOK, WaitTold, ReadFails, HelperGoes,
      workerVars, clockVars, timerVars, wireVars
<1> QED
  BY <1>1, <1>2, <1>3, <1>4, <1>5, <1>6 DEF IInv

\* The helper takes the flag down.
LEMMA ResetKept ==
    ASSUME IInv, Reset
    PROVE  IInv'
<1>1. TypeOK'
  BY SecondAssumption, WaitAssumption
  DEF IInv, TypeOK, Reset, HelperGoes, ReplyToLast, WireQuiet,
      workerVars, clockVars, timerVars, wireVars
<1>2. FlagMeansRequest'
  BY DEF IInv, TypeOK, FlagMeansRequest, Reset, HelperGoes,
      workerVars, clockVars, timerVars, wireVars
<1>3. OnePerRequest' /\ FlagOwed'
  BY DEF IInv, OnePerRequest, FlagOwed, Reset, HelperGoes,
      workerVars, clockVars, timerVars, wireVars
<1>4. ReplyToLast' /\ WireQuiet'
  BY DEF IInv, TypeOK, ReplyToLast, WireQuiet, Reset, HelperGoes,
      workerVars, clockVars, timerVars, wireVars
<1>5. TimesTold'
  BY DEF IInv, TypeOK, TimesTold, Reset, HelperGoes,
      workerVars, clockVars, timerVars, wireVars
<1>6. WaitTold'
  BY DEF IInv, TypeOK, WaitTold, Reset, HelperGoes,
      workerVars, clockVars, timerVars, wireVars
<1> QED
  BY <1>1, <1>2, <1>3, <1>4, <1>5, <1>6 DEF IInv

\* server.c reads the pre-request.
LEMMA EchoReadKept ==
    ASSUME IInv, EchoRead
    PROVE  IInv'
<1>1. TypeOK'
  BY SecondAssumption, WaitAssumption
  DEF IInv, TypeOK, EchoRead, ReplyToLast, WireQuiet,
      workerVars, clockVars, timerVars, wireVars
<1>2. FlagMeansRequest'
  BY DEF IInv, TypeOK, FlagMeansRequest, EchoRead,
      workerVars, clockVars, timerVars, wireVars
<1>3. OnePerRequest' /\ FlagOwed'
  BY DEF IInv, OnePerRequest, FlagOwed, EchoRead,
      workerVars, clockVars, timerVars, wireVars
<1>4. ReplyToLast' /\ WireQuiet'
  BY DEF IInv, TypeOK, ReplyToLast, WireQuiet, EchoRead,
      workerVars, clockVars, timerVars, wireVars
<1>5. TimesTold'
  BY DEF IInv, TypeOK, TimesTold, EchoRead,
      workerVars, clockVars, timerVars, wireVars
<1>6. WaitTold'
  BY DEF IInv, TypeOK, WaitTold, EchoRead,
      workerVars, clockVars, timerVars, wireVars
<1> QED
  BY <1>1, <1>2, <1>3, <1>4, <1>5, <1>6 DEF IInv

\* server.c answers it.
LEMMA EchoAnswerKept ==
    ASSUME IInv, EchoAnswer
    PROVE  IInv'
<1>1. TypeOK'
  BY SecondAssumption, WaitAssumption
  DEF IInv, TypeOK, EchoAnswer, ReplyToLast, WireQuiet,
      workerVars, clockVars, timerVars, wireVars
<1>2. FlagMeansRequest'
  BY DEF IInv, TypeOK, FlagMeansRequest, EchoAnswer,
      workerVars, clockVars, timerVars, wireVars
<1>3. OnePerRequest' /\ FlagOwed'
  BY DEF IInv, OnePerRequest, FlagOwed, EchoAnswer,
      workerVars, clockVars, timerVars, wireVars
<1>4. ReplyToLast' /\ WireQuiet'
  BY DEF IInv, TypeOK, ReplyToLast, WireQuiet, EchoAnswer,
      workerVars, clockVars, timerVars, wireVars
<1>5. TimesTold'
  BY DEF IInv, TypeOK, TimesTold, EchoAnswer,
      workerVars, clockVars, timerVars, wireVars
<1>6. WaitTold'
  BY DEF IInv, TypeOK, WaitTold, EchoAnswer,
      workerVars, clockVars, timerVars, wireVars
<1> QED
  BY <1>1, <1>2, <1>3, <1>4, <1>5, <1>6 DEF IInv

\* server.c turns to the helper's connection.
LEMMA EchoAcceptKept ==
    ASSUME IInv, EchoAccept
    PROVE  IInv'
<1>1. TypeOK'
  BY SecondAssumption, WaitAssumption
  DEF IInv, TypeOK, EchoAccept, ReplyToLast, WireQuiet,
      workerVars, clockVars, timerVars, wireVars
<1>2. FlagMeansRequest'
  BY DEF IInv, TypeOK, FlagMeansRequest, EchoAccept,
      workerVars, clockVars, timerVars, wireVars
<1>3. OnePerRequest' /\ FlagOwed'
  BY DEF IInv, OnePerRequest, FlagOwed, EchoAccept,
      workerVars, clockVars, timerVars, wireVars
<1>4. ReplyToLast' /\ WireQuiet'
  BY DEF IInv, TypeOK, ReplyToLast, WireQuiet, EchoAccept,
      workerVars, clockVars, timerVars, wireVars
<1>5. TimesTold'
  BY DEF IInv, TypeOK, TimesTold, EchoAccept,
      workerVars, clockVars, timerVars, wireVars
<1>6. WaitTold'
  BY DEF IInv, TypeOK, WaitTold, EchoAccept,
      workerVars, clockVars, timerVars, wireVars
<1> QED
  BY <1>1, <1>2, <1>3, <1>4, <1>5, <1>6 DEF IInv

\* server.c goes down.
LEMMA EchoDiesKept ==
    ASSUME IInv, EchoDies
    PROVE  IInv'
<1>1. TypeOK'
  BY SecondAssumption, WaitAssumption
  DEF IInv, TypeOK, EchoDies, ReplyToLast, WireQuiet,
      workerVars, clockVars, timerVars, wireVars
<1>2. FlagMeansRequest'
  BY DEF IInv, TypeOK, FlagMeansRequest, EchoDies,
      workerVars, clockVars, timerVars, wireVars
<1>3. OnePerRequest' /\ FlagOwed'
  BY DEF IInv, OnePerRequest, FlagOwed, EchoDies,
      workerVars, clockVars, timerVars, wireVars
<1>4. ReplyToLast' /\ WireQuiet'
  BY DEF IInv, TypeOK, ReplyToLast, WireQuiet, EchoDies,
      workerVars, clockVars, timerVars, wireVars
<1>5. TimesTold'
  BY DEF IInv, TypeOK, TimesTold, EchoDies,
      workerVars, clockVars, timerVars, wireVars
<1>6. WaitTold'
  BY DEF IInv, TypeOK, WaitTold, EchoDies,
      workerVars, clockVars, timerVars, wireVars
<1> QED
  BY <1>1, <1>2, <1>3, <1>4, <1>5, <1>6 DEF IInv

\* A microsecond passes.
LEMMA TickKept ==
    ASSUME IInv, Tick
    PROVE  IInv'
<1>1. TypeOK'
  BY ClockStep, SecondAssumption, WaitAssumption
  DEF IInv, TypeOK, Tick, ReplyToLast, WireQuiet,
      workerVars, clockVars, timerVars, wireVars
<1>2. FlagMeansRequest'
  BY DEF IInv, TypeOK, FlagMeansRequest, Tick,
      workerVars, clockVars, timerVars, wireVars
<1>3. OnePerRequest' /\ FlagOwed'
  BY DEF IInv, OnePerRequest, FlagOwed, Tick,
      workerVars, clockVars, timerVars, wireVars
<1>4. ReplyToLast' /\ WireQuiet'
  BY DEF IInv, TypeOK, ReplyToLast, WireQuiet, Tick,
      workerVars, clockVars, timerVars, wireVars
<1>5. TimesTold'
  <2>1. usec \in 0 .. Second - 1 /\ passed \in 0 .. Second
        /\ startUsec \in 0 .. Second - 1 /\ endUsec \in 0 .. Second - 1
    BY DEF IInv, TypeOK
  <2>2. ~wrapped' => ~wrapped /\ usec' = usec + 1
    BY <2>1, ClockStep DEF Tick
  <2>3. hpc' = hpc /\ endUsec' = endUsec /\ startUsec' = startUsec /\ atRead' = atRead
    BY DEF Tick, timerVars
  <2>4. passed' = IF passed < Second THEN passed + 1 ELSE passed
    BY DEF Tick
  <2> QED
    BY <2>1, <2>2, <2>3, <2>4, SecondAssumption DEF IInv, TimesTold
<1>6. WaitTold'
  BY DEF IInv, TypeOK, WaitTold, Tick,
      workerVars, clockVars, timerVars, wireVars
<1> QED
  BY <1>1, <1>2, <1>3, <1>4, <1>5, <1>6 DEF IInv

-----------------------------------------------------------------------------
\* Every step of the helper, the workers, server.c and the clock preserves
\* the invariant.
LEMMA NextInvariant == IInv /\ [Next]_vars => IInv'
<1> SUFFICES ASSUME IInv, [Next]_vars
             PROVE  IInv'
  OBVIOUS
<1>1. CASE \E w \in Workers : WorkerStep(w)
  BY <1>1, BeginStep, EndStep, SleepStep, ExitStep DEF WorkerStep
<1>2. CASE HelperStep
  BY <1>2, SeeFlagKept, ReadEndKept, ReadStartKept, WaitOnKept, WaitOverKept,
     CheckKept, SendKept, SendFailsKept, ReadReplyKept, ReadFailsKept, ResetKept
  DEF HelperStep
<1>3. CASE EchoStep \/ EchoAccept \/ EchoDies
  BY <1>3, EchoReadKept, EchoAnswerKept, EchoAcceptKept, EchoDiesKept DEF EchoStep
<1>4. CASE Tick
  BY <1>4, TickKept
<1>5. CASE UNCHANGED vars
  BY <1>5
  DEF IInv, TypeOK, FlagMeansRequest, OnePerRequest, ReplyToLast, FlagOwed,
      WireQuiet, TimesTold, WaitTold, vars, workerVars, clockVars, timerVars, wireVars
<1> QED
  BY <1>1, <1>2, <1>3, <1>4, <1>5 DEF Next

\* The invariant holds of every execution of the pre-request machinery.
THEOREM InvariantCorrect == Spec => []IInv
  BY InitInvariant, NextInvariant, PTL DEF Spec

\* TypeOK for every instance: among others one pre-request and one reply at
\* most are ever on the wire.
THEOREM TypeCorrect == Spec => []TypeOK
<1>1. IInv => TypeOK
  BY DEF IInv
<1> QED
  BY <1>1, InvariantCorrect, PTL

\* FlagMeansRequest for every instance: whatever the order of the stores to
\* sendRequestFlag, it never stays up with no request being processed.
THEOREM FlagNeverStale == Spec => []FlagMeansRequest
<1>1. IInv => FlagMeansRequest
  BY DEF IInv
<1> QED
  BY <1>1, InvariantCorrect, PTL

\* OnePerRequest for every instance: each pre-request answers to a request
\* that began after the last pre-request.
THEOREM PreRequestsEarned == Spec => []OnePerRequest
<1>1. IInv => OnePerRequest
  BY DEF IInv
<1> QED
  BY <1>1, InvariantCorrect, PTL

\* ReplyToLast for every instance: send_request never reads the reply to an
\* earlier pre-request.
THEOREM RepliesMatched == Spec => []ReplyToLast
<1>1. IInv => ReplyToLast
  BY DEF IInv
<1> QED
  BY <1>1, InvariantCorrect, PTL

\* NeverEarly for every wait and every length of the second: a pre-request that is sent
\* before the wait is over either had tv_usec start again under it, or goes out for a
\* request that began after the one the helper had seen was over.
THEOREM WaitsLongEnough == Spec => []NeverEarly
<1>1. IInv => NeverEarly
  BY DEF IInv, WaitTold, NeverEarly
<1> QED
  BY <1>1, InvariantCorrect, PTL
=============================================================================
