------------------------- MODULE AdaptiveWaitProofs -------------------------
(***************************************************************************)
(* Proofs about AdaptiveWait, for every set of workers, every period,      *)
(* every first step and every time a request may take.                     *)
(***************************************************************************)
EXTENDS AdaptiveWait, WellFoundedInduction, TLAPS

\* Between the read and the write of the count, the request that is being counted
\* is one more than what was read, whatever other workers have written.
CountBehind == \A w \in Worker : pc[w] = "count" => count[w] < begun

\* What a worker has halved and not stored is no more than the first step.
HalfSmall == \A w \in Worker : pc[w] = "store" => half[w] <= FirstStep

\* A worker between its test of step and its store.
Halving(w) == pc[w] \in {"halve", "store"}

\* Between the test and the second read step has been halved at most once, and while
\* two workers are in there it has not been halved at all: only the second of them
\* can halve it below 3, and by then it is alone and step too small for another test.
Apart ==
    \A w \in Worker :
        /\ pc[w] = "halve" => step >= 3
        /\ pc[w] = "halve" /\ (\E v \in Worker : v # w /\ Halving(v)) => step > 5
        /\ pc[w] = "store" => half[w] > 0
        /\ pc[w] = "store" /\ half[w] < 3 =>
              step <= 5 /\ \A v \in Worker : v # w => ~Halving(v)

HalvingApart == AtMostTwo => Apart

\* From its push to its division a worker finds its own time, at least, in the
\* vector, unless another worker has cleared it.
OwnTime ==
    \A w \in Worker :
        pc[w] \in {"check", "sum", "divide"} /\ ~cleared[w] => times_taken # <<>>

\* The inductive invariant.
IInv ==
    /\ TypeOK
    /\ CountBehind
    /\ StepMoves
    /\ HalfSmall
    /\ HalvingApart
    /\ DivideRaced
    /\ OwnTime

-----------------------------------------------------------------------------
\* Every set of numbers that is not empty has a least one.
LEMMA Least ==
    ASSUME NEW S \in SUBSET Nat, S # {}
    PROVE  \E m \in S : \A k \in S : m <= k
<1>1. IsWellFoundedOn(OpToRel(<, Nat), Nat)
  BY NatLessThanWellFounded
<1>2. PICK m \in S : \A k \in S : ~ (<<k, m>> \in OpToRel(<, Nat))
  BY <1>1, WFMin
<1>3. \A k \in S : m <= k
  <2> SUFFICES ASSUME NEW k \in S PROVE m <= k
    OBVIOUS
  <2>1. ~ (k < m)
    BY <1>2 DEF OpToRel
  <2> QED
    BY <2>1
<1> QED
  BY <1>3

\* f holds the sums of the first elements of times, up to the n-th.
Sums(f, times, n) == f = [i \in 0 .. n |-> IF i = 0 THEN 0 ELSE f[i - 1] + times[i]]

\* There are such sums of every sequence.
LEMMA SumsExist ==
    ASSUME NEW times \in Seq(Nat)
    PROVE  \E f : Sums(f, times, Len(times))
<1> DEFINE Without == {n \in 0 .. Len(times) : ~ \E f : Sums(f, times, n)}
<1>0. Len(times) \in Nat /\ Without \in SUBSET Nat
  OBVIOUS
<1>1. SUFFICES ASSUME Without # {} PROVE FALSE
  BY <1>0
<1>2. PICK m \in Without : \A k \in Without : m <= k
  <2> HIDE DEF Without
  <2> QED
    BY <1>0, <1>1, Least
<1>3. CASE m = 0
  <2>1. Sums([i \in 0 .. 0 |-> 0], times, 0)
    BY DEF Sums
  <2> QED
    BY <1>2, <1>3, <2>1
<1>4. CASE m # 0
  <2>1. m - 1 \in 0 .. Len(times) /\ ~(m <= m - 1)
    BY <1>4
  <2>2. PICK f : Sums(f, times, m - 1)
    BY <1>2, <2>1
  <2> DEFINE g == [i \in 0 .. m |-> IF i = m THEN f[m - 1] + times[m] ELSE f[i]]
  <2>3. \A i \in 0 .. m : g[i] = IF i = 0 THEN 0 ELSE g[i - 1] + times[i]
    <3> SUFFICES ASSUME NEW i \in 0 .. m PROVE g[i] = IF i = 0 THEN 0 ELSE g[i - 1] + times[i]
      OBVIOUS
    <3>1. CASE i = m
      BY <1>4, <2>1, <3>1
    <3>2. CASE i # m
      <4>1. i \in 0 .. m - 1 /\ (i # 0 => i - 1 \in 0 .. m - 1)
        BY <3>2
      <4>2. f[i] = IF i = 0 THEN 0 ELSE f[i - 1] + times[i]
        BY <2>2, <4>1 DEF Sums
      <4> QED
        BY <3>2, <4>1, <4>2
    <3> QED
      BY <3>1, <3>2
  <2>4. g = [i \in 0 .. m |-> IF i = 0 THEN 0 ELSE g[i - 1] + times[i]]
    BY <2>3
  <2>5. Sums(g, times, m)
    BY <2>4 DEF Sums
  <2> QED
    BY <1>2, <2>5
<1> QED
  BY <1>3, <1>4

\* The sum of the times (804) is a number.
LEMMA SumType ==
    ASSUME NEW times \in Seq(Nat)
    PROVE  Sum(times) \in Nat
<1> DEFINE n == Len(times)
           f == CHOOSE g : Sums(g, times, n)
<1>1. Sums(f, times, n)
  BY SumsExist
<1>2. Sum(times) = f[n]
  BY DEF Sum, Sums
<1> HIDE DEF f
<1>3. n \in Nat /\ \A i \in 1 .. n : times[i] \in Nat
  OBVIOUS
<1> HIDE DEF n
<1> DEFINE Odd == {i \in 0 .. n : f[i] \notin Nat}
<1>4. Odd = {}
  <2>1. SUFFICES ASSUME Odd # {} PROVE FALSE
    OBVIOUS
  <2>2. PICK m \in Odd : \A k \in Odd : m <= k
    <3>1. Odd \in SUBSET Nat
      BY <1>3
    <3> HIDE DEF Odd
    <3> QED
      BY <2>1, <3>1, Least
  <2>3. f[m] = IF m = 0 THEN 0 ELSE f[m - 1] + times[m]
    BY <1>1 DEF Sums
  <2>4. m # 0
    BY <2>3
  <2>5. m - 1 \in 0 .. n /\ ~(m <= m - 1) /\ m \in 1 .. n
    BY <1>3, <2>4
  <2>6. f[m - 1] \in Nat
    BY <2>2, <2>5
  <2> QED
    BY <1>3, <2>3, <2>4, <2>5, <2>6
<1> QED
  BY <1>2, <1>3, <1>4

\* Half of a step (842) is no more than the step, at least one of three or more, and
\* at least three of more than five.
LEMMA HalfOfStep ==
    ASSUME NEW s \in Nat
    PROVE  /\ s \div 2 \in Nat
           /\ s \div 2 <= s
           /\ s >= 3 => s \div 2 > 0
           /\ s > 5 => ~(s \div 2 < 3)
OBVIOUS

\* A vector that something was pushed to is not empty.
LEMMA PushedNotEmpty ==
    ASSUME NEW s \in Seq(Nat), NEW t \in Nat
    PROVE  Append(s, t) \in Seq(Nat) /\ Append(s, t) # <<>>
<1>1. Append(s, t) \in Seq(Nat) /\ Len(Append(s, t)) = Len(s) + 1
  OBVIOUS
<1>2. Len(s) \in Nat /\ Len(<<>>) = 0
  OBVIOUS
<1> QED
  BY <1>1, <1>2

\* Before the first request the invariant holds.
LEMMA InitInvariant == Init => IInv
<1> SUFFICES ASSUME Init PROVE IInv
  OBVIOUS
<1> USE DEF Init
<1>v. <<>> \in Seq(Nat)
  OBVIOUS
<1>n. 0 \in 0 .. MaxRequests /\ 0 \in 0 .. begun /\ FirstStep \in Nat
  BY FirstStepAssumption, MaxRequestsAssumption
<1>f. /\ count \in [Worker -> 0 .. begun] /\ vector \in [Worker -> Seq(Nat)]
      /\ average \in [Worker -> Nat] /\ wait \in [Worker -> Int]
      /\ half \in [Worker -> Nat] /\ pc \in [Worker -> Places]
  BY <1>v, <1>n DEF Places
<1>b. /\ up \in [Worker -> BOOLEAN] /\ turn \in [Worker -> BOOLEAN] /\ cleared \in [Worker -> BOOLEAN]
      /\ increasing \in BOOLEAN /\ process \in BOOLEAN
  OBVIOUS
<1>1. TypeOK
  BY <1>v, <1>n, <1>f, <1>b DEF TypeOK
<1>2. StepMoves
  BY FirstStepAssumption DEF StepMoves
<1>3. HalfSmall
  BY DEF HalfSmall
<1>4. HalvingApart
  BY DEF HalvingApart, Apart, Halving
<1>5. DivideRaced
  BY DEF DivideRaced
<1>6. OwnTime
  BY DEF OwnTime
<1>7. CountBehind
  BY DEF CountBehind
<1> QED
  BY <1>1, <1>2, <1>3, <1>4, <1>5, <1>6, <1>7 DEF IInv

\* Reading the count keeps the invariant.
LEMMA ReadCountKeeps == ASSUME NEW w \in Worker, IInv, ReadCount(w) PROVE IInv'
<1> USE DEF IInv, ReadCount, At, controls, samples, locals
<1>1. TypeOK'
  BY MaxRequestsAssumption DEF TypeOK, Places, StepMoves
<1>2. StepMoves'
  BY DEF StepMoves, AtMostTwo
<1>3. HalfSmall'
  BY DEF HalfSmall, TypeOK
<1>4. HalvingApart'
  BY DEF HalvingApart, Apart, Halving, AtMostTwo, TypeOK
<1>5. DivideRaced'
  BY DEF DivideRaced, TypeOK
<1>6. OwnTime'
  BY DEF OwnTime, TypeOK
<1>7. CountBehind'
  BY DEF CountBehind, TypeOK
<1> QED
  BY <1>1, <1>2, <1>3, <1>4, <1>5, <1>6, <1>7 DEF IInv

\* Writing the count back keeps the invariant.
LEMMA WriteCountKeeps == ASSUME NEW w \in Worker, IInv, WriteCount(w) PROVE IInv'
<1> USE DEF IInv, WriteCount, At, controls, samples, locals
<1>1. TypeOK'
  BY DEF TypeOK, CountBehind, Places, StepMoves
<1>2. StepMoves'
  BY DEF StepMoves, AtMostTwo
<1>3. HalfSmall'
  BY DEF HalfSmall, TypeOK
<1>4. HalvingApart'
  BY DEF HalvingApart, Apart, Halving, AtMostTwo, TypeOK
<1>5. DivideRaced'
  BY DEF DivideRaced, TypeOK
<1>6. OwnTime'
  BY DEF OwnTime, TypeOK
<1>7. CountBehind'
  BY DEF CountBehind, TypeOK
<1> QED
  BY <1>1, <1>2, <1>3, <1>4, <1>5, <1>6, <1>7 DEF IInv

\* Finding the end of the vector keeps the invariant.
LEMMA ReadEndKeeps == ASSUME NEW w \in Worker, IInv, ReadEnd(w) PROVE IInv'
<1> USE DEF IInv, ReadEnd, At, controls, samples, locals
<1>1. TypeOK'
  BY DEF TypeOK, Places, StepMoves
<1>2. StepMoves'
  BY DEF StepMoves, AtMostTwo
<1>3. HalfSmall'
  BY DEF HalfSmall, TypeOK
<1>4. HalvingApart'
  BY DEF HalvingApart, Apart, Halving, AtMostTwo, TypeOK
<1>5. DivideRaced'
  BY DEF DivideRaced, TypeOK
<1>6. OwnTime'
  BY DEF OwnTime, TypeOK
<1>7. CountBehind'
  BY DEF CountBehind, TypeOK
<1> QED
  BY <1>1, <1>2, <1>3, <1>4, <1>5, <1>6, <1>7 DEF IInv

\* Pushing a time keeps the invariant.
LEMMA PushKeeps == ASSUME NEW w \in Worker, IInv, Push(w) PROVE IInv'
<1> USE DEF IInv, Push, At, controls, samples, locals
<1>p. times_taken' \in Seq(Nat) /\ times_taken' # <<>>
  BY TimesAssumption, PushedNotEmpty DEF TypeOK
<1>b. process' \in BOOLEAN
  <2>1. (times_taken = vector[w]) \in BOOLEAN
    OBVIOUS
  <2> QED
    BY <2>1
<1>v. vector' \in [Worker -> Seq(Nat)]
  BY DEF TypeOK
<1>1. TypeOK'
  BY <1>p, <1>b, <1>v DEF TypeOK, Places
<1>2. StepMoves'
  BY DEF StepMoves, AtMostTwo
<1>3. HalfSmall'
  BY DEF HalfSmall, TypeOK
<1>4. HalvingApart'
  BY DEF HalvingApart, Apart, Halving, AtMostTwo, TypeOK
<1>5. DivideRaced'
  BY DEF DivideRaced, TypeOK
<1>6. OwnTime'
  BY <1>p DEF OwnTime, TypeOK
<1>7. CountBehind'
  BY DEF CountBehind, TypeOK
<1> QED
  BY <1>1, <1>2, <1>3, <1>4, <1>5, <1>6, <1>7 DEF IInv

\* The test at 801 keeps the invariant.
LEMMA CheckKeeps == ASSUME NEW w \in Worker, IInv, Check(w) PROVE IInv'
<1> USE DEF IInv, Check, At, controls, samples, locals
<1>1. TypeOK'
  BY DEF TypeOK, Places, StepMoves
<1>2. StepMoves'
  BY DEF StepMoves, AtMostTwo
<1>3. HalfSmall'
  BY DEF HalfSmall, TypeOK
<1>4. HalvingApart'
  BY DEF HalvingApart, Apart, Halving, AtMostTwo, TypeOK
<1>5. DivideRaced'
  BY DEF DivideRaced, TypeOK
<1>6. OwnTime'
  BY DEF OwnTime, TypeOK
<1>7. CountBehind'
  BY DEF CountBehind, TypeOK
<1> QED
  BY <1>1, <1>2, <1>3, <1>4, <1>5, <1>6, <1>7 DEF IInv

\* Summing the times keeps the invariant.
LEMMA SumTimesKeeps == ASSUME NEW w \in Worker, IInv, SumTimes(w) PROVE IInv'
<1> USE DEF IInv, SumTimes, At, controls, samples, locals
<1>1. TypeOK'
  BY SumType DEF TypeOK, Places, StepMoves
<1>2. StepMoves'
  BY DEF StepMoves, AtMostTwo
<1>3. HalfSmall'
  BY DEF HalfSmall, TypeOK
<1>4. HalvingApart'
  BY DEF HalvingApart, Apart, Halving, AtMostTwo, TypeOK
<1>5. DivideRaced'
  BY DEF DivideRaced, TypeOK
<1>6. OwnTime'
  BY DEF OwnTime, TypeOK
<1>7. CountBehind'
  BY DEF CountBehind, TypeOK
<1> QED
  BY <1>1, <1>2, <1>3, <1>4, <1>5, <1>6, <1>7 DEF IInv

\* Dividing by the size keeps the invariant.
LEMMA DivideKeeps == ASSUME NEW w \in Worker, IInv, Divide(w) PROVE IInv'
<1> USE DEF IInv, Divide, At, controls, samples, locals
<1>d. average[w] \div Len(times_taken) \in Nat
  <2>1. average[w] \in Nat /\ Len(times_taken) \in Nat \ {0}
    BY DEF TypeOK
  <2> QED
    BY <2>1
<1>1. TypeOK'
  BY <1>d DEF TypeOK, Places
<1>2. StepMoves'
  BY DEF StepMoves, AtMostTwo
<1>3. HalfSmall'
  BY DEF HalfSmall, TypeOK
<1>4. HalvingApart'
  BY DEF HalvingApart, Apart, Halving, AtMostTwo, TypeOK
<1>5. DivideRaced'
  BY DEF DivideRaced, TypeOK
<1>6. OwnTime'
  BY DEF OwnTime, TypeOK
<1>7. CountBehind'
  BY DEF CountBehind, TypeOK
<1> QED
  BY <1>1, <1>2, <1>3, <1>4, <1>5, <1>6, <1>7 DEF IInv

\* Dividing by a size of zero keeps the invariant.
LEMMA DivideByZeroKeeps == ASSUME NEW w \in Worker, IInv, DivideByZero(w) PROVE IInv'
<1> USE DEF IInv, DivideByZero, At, controls, samples, locals
<1>1. TypeOK'
  BY DEF TypeOK, Places, StepMoves
<1>2. StepMoves'
  BY DEF StepMoves, AtMostTwo
<1>3. HalfSmall'
  BY DEF HalfSmall, TypeOK
<1>4. HalvingApart'
  BY DEF HalvingApart, Apart, Halving, AtMostTwo, TypeOK
<1>5. DivideRaced'
  BY DEF DivideRaced, TypeOK, OwnTime
<1>6. OwnTime'
  BY DEF OwnTime, TypeOK
<1>7. CountBehind'
  BY DEF CountBehind, TypeOK
<1> QED
  BY <1>1, <1>2, <1>3, <1>4, <1>5, <1>6, <1>7 DEF IInv

\* Deciding on the direction keeps the invariant.
LEMMA DecideKeeps == ASSUME NEW w \in Worker, IInv, Decide(w) PROVE IInv'
<1> USE DEF IInv, Decide, At, controls, samples, locals
<1>1. TypeOK'
  BY DEF TypeOK, Places, StepMoves
<1>2. StepMoves'
  BY DEF StepMoves, AtMostTwo
<1>3. HalfSmall'
  BY DEF HalfSmall, TypeOK
<1>4. HalvingApart'
  BY DEF HalvingApart, Apart, Halving, AtMostTwo, TypeOK
<1>5. DivideRaced'
  BY DEF DivideRaced, TypeOK
<1>6. OwnTime'
  BY DEF OwnTime, TypeOK
<1>7. CountBehind'
  BY DEF CountBehind, TypeOK
<1> QED
  BY <1>1, <1>2, <1>3, <1>4, <1>5, <1>6, <1>7 DEF IInv

\* Computing the new wait keeps the invariant.
LEMMA AdjustKeeps == ASSUME NEW w \in Worker, IInv, Adjust(w) PROVE IInv'
<1> USE DEF IInv, Adjust, At, controls, samples, locals
<1>1. TypeOK'
  BY DEF TypeOK, Places, StepMoves
<1>2. StepMoves'
  BY DEF StepMoves, AtMostTwo
<1>3. HalfSmall'
  BY DEF HalfSmall, TypeOK
<1>4. HalvingApart'
  BY DEF HalvingApart, Apart, Halving, AtMostTwo, TypeOK
<1>5. DivideRaced'
  BY DEF DivideRaced, TypeOK
<1>6. OwnTime'
  BY DEF OwnTime, TypeOK
<1>7. CountBehind'
  BY DEF CountBehind, TypeOK
<1> QED
  BY <1>1, <1>2, <1>3, <1>4, <1>5, <1>6, <1>7 DEF IInv

\* Writing the new wait keeps the invariant.
LEMMA MoveWaitKeeps == ASSUME NEW w \in Worker, IInv, MoveWait(w) PROVE IInv'
<1> USE DEF IInv, MoveWait, At, controls, samples, locals
<1>1. TypeOK'
  BY DEF TypeOK, Places, StepMoves
<1>2. StepMoves'
  BY DEF StepMoves, AtMostTwo
<1>3. HalfSmall'
  BY DEF HalfSmall, TypeOK
<1>4. HalvingApart'
  BY DEF HalvingApart, Apart, Halving, AtMostTwo, TypeOK
<1>5. DivideRaced'
  BY DEF DivideRaced, TypeOK
<1>6. OwnTime'
  BY DEF OwnTime, TypeOK
<1>7. CountBehind'
  BY DEF CountBehind, TypeOK
<1> QED
  BY <1>1, <1>2, <1>3, <1>4, <1>5, <1>6, <1>7 DEF IInv

\* Turning the direction keeps the invariant.
LEMMA TurnKeeps == ASSUME NEW w \in Worker, IInv, Turn(w) PROVE IInv'
<1> USE DEF IInv, Turn, At, controls, samples, locals
<1>1. TypeOK'
  BY DEF TypeOK, Places, StepMoves
<1>2. StepMoves'
  BY DEF StepMoves, AtMostTwo
<1>3. HalfSmall'
  BY DEF HalfSmall, TypeOK
<1>4. HalvingApart'
  BY DEF HalvingApart, Apart, Halving, AtMostTwo, TypeOK
<1>5. DivideRaced'
  BY DEF DivideRaced, TypeOK
<1>6. OwnTime'
  BY DEF OwnTime, TypeOK
<1>7. CountBehind'
  BY DEF CountBehind, TypeOK
<1> QED
  BY <1>1, <1>2, <1>3, <1>4, <1>5, <1>6, <1>7 DEF IInv

\* The test of the step (840) keeps the invariant.
LEMMA TestStepKeeps == ASSUME NEW w \in Worker, IInv, TestStep(w) PROVE IInv'
<1> USE DEF IInv, TestStep, At, controls, samples, locals
<1>1. TypeOK'
  BY DEF TypeOK, Places, StepMoves
<1>2. StepMoves'
  BY DEF StepMoves, AtMostTwo
<1>3. HalfSmall'
  BY DEF HalfSmall, TypeOK
<1>4. HalvingApart'
  BY DEF HalvingApart, Apart, Halving, AtMostTwo, TypeOK
<1>5. DivideRaced'
  BY DEF DivideRaced, TypeOK
<1>6. OwnTime'
  BY DEF OwnTime, TypeOK
<1>7. CountBehind'
  BY DEF CountBehind, TypeOK
<1> QED
  BY <1>1, <1>2, <1>3, <1>4, <1>5, <1>6, <1>7 DEF IInv

\* Halving the step keeps the invariant.
LEMMA HalveKeeps == ASSUME NEW w \in Worker, IInv, Halve(w) PROVE IInv'
<1> USE DEF IInv, Halve, At, controls, samples, locals
<1>h. /\ step \div 2 \in Nat
      /\ step \div 2 <= step
      /\ step >= 3 => step \div 2 > 0
      /\ step > 5 => ~(step \div 2 < 3)
  BY HalfOfStep DEF TypeOK
<1>s. step \div 2 <= FirstStep
  <2>1. step \in Nat /\ step \in 0 .. FirstStep /\ FirstStep \in Nat
    BY FirstStepAssumption DEF TypeOK, StepMoves
  <2> QED
    BY <1>h, <2>1
<1>1. TypeOK'
  BY <1>h DEF TypeOK, Places
<1>2. StepMoves'
  BY DEF StepMoves, AtMostTwo
<1>3. HalfSmall'
  BY <1>h, <1>s DEF HalfSmall, TypeOK
<1>4. HalvingApart'
  BY <1>h DEF HalvingApart, Apart, Halving, AtMostTwo, TypeOK
<1>5. DivideRaced'
  BY DEF DivideRaced, TypeOK
<1>6. OwnTime'
  BY DEF OwnTime, TypeOK
<1>7. CountBehind'
  BY DEF CountBehind, TypeOK
<1> QED
  BY <1>1, <1>2, <1>3, <1>4, <1>5, <1>6, <1>7 DEF IInv

\* Storing the halved step keeps the invariant.
LEMMA StoreStepKeeps == ASSUME NEW w \in Worker, IInv, StoreStep(w) PROVE IInv'
<1> USE DEF IInv, StoreStep, At, controls, samples, locals
<1>1. TypeOK'
  BY DEF TypeOK, Places, StepMoves
<1>2. StepMoves'
  BY FirstStepAssumption DEF StepMoves, HalfSmall, HalvingApart, Apart, AtMostTwo, TypeOK
<1>3. HalfSmall'
  BY DEF HalfSmall, TypeOK
<1>4. HalvingApart'
  BY DEF HalvingApart, Apart, Halving, AtMostTwo, TypeOK
<1>5. DivideRaced'
  BY DEF DivideRaced, TypeOK
<1>6. OwnTime'
  BY DEF OwnTime, TypeOK
<1>7. CountBehind'
  BY DEF CountBehind, TypeOK
<1> QED
  BY <1>1, <1>2, <1>3, <1>4, <1>5, <1>6, <1>7 DEF IInv

\* Remembering the average keeps the invariant.
LEMMA RememberKeeps == ASSUME NEW w \in Worker, IInv, Remember(w) PROVE IInv'
<1> USE DEF IInv, Remember, At, controls, samples, locals
<1>1. TypeOK'
  BY DEF TypeOK, Places, StepMoves
<1>2. StepMoves'
  BY DEF StepMoves, AtMostTwo
<1>3. HalfSmall'
  BY DEF HalfSmall, TypeOK
<1>4. HalvingApart'
  BY DEF HalvingApart, Apart, Halving, AtMostTwo, TypeOK
<1>5. DivideRaced'
  BY DEF DivideRaced, TypeOK
<1>6. OwnTime'
  BY DEF OwnTime, TypeOK
<1>7. CountBehind'
  BY DEF CountBehind, TypeOK
<1> QED
  BY <1>1, <1>2, <1>3, <1>4, <1>5, <1>6, <1>7 DEF IInv

\* Clearing the times keeps the invariant.
LEMMA ClearKeeps == ASSUME NEW w \in Worker, IInv, Clear(w) PROVE IInv'
<1> USE DEF IInv, Clear, At, controls, samples, locals
<1>1. TypeOK'
  BY DEF TypeOK, Places, StepMoves
<1>2. StepMoves'
  BY DEF StepMoves, AtMostTwo
<1>3. HalfSmall'
  BY DEF HalfSmall, TypeOK
<1>4. HalvingApart'
  BY DEF HalvingApart, Apart, Halving, AtMostTwo, TypeOK
<1>5. DivideRaced'
  BY DEF DivideRaced, TypeOK
<1>6. OwnTime'
  BY DEF OwnTime, TypeOK
<1>7. CountBehind'
  BY DEF CountBehind, TypeOK
<1> QED
  BY <1>1, <1>2, <1>3, <1>4, <1>5, <1>6, <1>7 DEF IInv

\* Every step keeps the invariant.
LEMMA StepInvariant == IInv /\ [Next]_vars => IInv'
<1> SUFFICES ASSUME IInv, [Next]_vars PROVE IInv'
  OBVIOUS
<1>1. ASSUME NEW w \in Worker, Step(w) PROVE IInv'
  BY <1>1, ReadCountKeeps, WriteCountKeeps, ReadEndKeeps, PushKeeps, CheckKeeps, SumTimesKeeps,
     DivideKeeps, DivideByZeroKeeps, DecideKeeps,
     AdjustKeeps, MoveWaitKeeps, TurnKeeps, TestStepKeeps, HalveKeeps, StoreStepKeeps,
     RememberKeeps, ClearKeeps DEF Step
<1>2. CASE UNCHANGED vars
  BY <1>2
     DEF IInv, TypeOK, CountBehind, StepMoves, AtMostTwo, HalfSmall, HalvingApart, Apart, Halving,
         DivideRaced, OwnTime, vars, controls, samples, locals
<1>3. CASE Rest
  BY <1>2, <1>3 DEF Rest
<1> QED
  BY <1>1, <1>2, <1>3 DEF Next

\* The inductive invariant holds in every reachable state.
THEOREM Invariant == Spec => []IInv
BY InitInvariant, StepInvariant, PTL DEF Spec

\* The variables keep their types; in particular the sum and the average are numbers,
\* and no race makes the count (797) larger than the requests there were.
THEOREM TypeCorrect == Spec => []TypeOK
<1>1. IInv => TypeOK
  BY DEF IInv
<1> QED
  BY <1>1, Invariant, PTL

\* However the workers race on testing, halving and storing it (840-842), step never
\* grows past the first one, and with at most two of them never shrinks to nothing.
THEOREM StepAlwaysMoves == Spec => []StepMoves
<1>1. IInv => StepMoves
  BY DEF IInv
<1> QED
  BY <1>1, Invariant, PTL

\* The division by zero at 809 needs another worker's clear after the push.
THEOREM OnlyRacesDivideByZero == Spec => []DivideRaced
<1>1. IInv => DivideRaced
  BY DEF IInv
<1> QED
  BY <1>1, Invariant, PTL
=============================================================================
