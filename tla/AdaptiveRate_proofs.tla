------------------------- MODULE AdaptiveRate_proofs -------------------------
(***************************************************************************)
(* Proofs about AdaptiveRate, for any rates, limits and evaluators.        *)
(***************************************************************************)
EXTENDS AdaptiveRate, TLAPS

-----------------------------------------------------------------------------
(* The inductive invariant.                                                *)

\* Between write errors every evaluation counts, and a healthy one adds at most
\* one to healthyWindows; an error not evaluated yet will set that to zero.
CalmInv == ~writeError => healthyWindows <= calm

\* Until two evaluations overlap there is one, it has read a count that is up
\* to date and nobody else changes the rate before the limiter has it.
OneEvaluator == ~overlapped =>
    \A e, f \in Evaluators : evalPc[e] # "idle" /\ evalPc[f] # "idle" => e = f

LimitInv == ~overlapped =>
    /\ (\A e \in Evaluators : evalPc[e] # "apply") => limit = currentRate
    /\ \A e \in Evaluators : evalPc[e] = "apply" => newRate[e] = currentRate

DropsInv == ~overlapped =>
    /\ counted = lastPcapDrop /\ lastPcapDrop <= pcapDropped
    /\ \A e \in Evaluators :
        evalPc[e] = "evaluate" /\ stats[e] # NoStats => stats[e] \in lastPcapDrop .. pcapDropped

IInv == RateTypeOK /\ CalmInv /\ OneEvaluator /\ LimitInv /\ DropsInv

-----------------------------------------------------------------------------
\* A percentage of a rate is a smaller rate.
LEMMA PercentBounds ==
    ASSUME NEW r \in Nat, NEW percent \in {70, 80}
    PROVE  (r * percent) \div 100 \in 0 .. r
<1>1. r * percent \in Nat /\ r * percent <= r * 100
  OBVIOUS
<1> QED BY <1>1

LEMMA CutBounds ==
    ASSUME RateTypeOK, NEW percent \in {70, 80}
    PROVE  Cut(percent) \in MinRate .. currentRate
<1>1. currentRate \in Nat /\ MinRate <= currentRate
  BY RateAssumption DEF RateTypeOK
<1> QED BY <1>1, PercentBounds, RateAssumption DEF Cut, maxInt

LEMMA RaiseBounds ==
    ASSUME RateTypeOK
    PROVE  Raised \in currentRate .. MaxRate
<1>1. (MaxRate * 5) \div 100 \in Nat
  BY RateAssumption
<1>2. Step \in Nat
  BY <1>1 DEF Step, maxInt
<1> QED BY <1>2, RateAssumption DEF RateTypeOK, Raised, minInt

LEMMA RecoverBounds ==
    ASSUME RateTypeOK, Recover
    PROVE  /\ currentRate' \in currentRate .. MaxRate
           /\ healthyWindows' \in 0 .. HealthyLimit /\ healthyWindows' <= healthyWindows + 1
           /\ currentRate' > currentRate => healthyWindows + 1 >= HealthyLimit
BY RaiseBounds, RateAssumption DEF RateTypeOK, Recover, minInt

LEMMA InitInv == RateInit => IInv
<1> SUFFICES ASSUME RateInit PROVE IInv
  OBVIOUS
<1>1. RateTypeOK
  <2>1. MaxRate \in MinRate .. MaxRate /\ HealthyLimit \in 0 .. HealthyLimit /\ 0 \in 0 .. HealthyLimit
    BY RateAssumption
  <2> QED BY <2>1 DEF RateInit, RateTypeOK
<1> QED BY <1>1, RateAssumption DEF RateInit, IInv, CalmInv, OneEvaluator, LimitInv, DropsInv

-----------------------------------------------------------------------------
(* The steps.                                                              *)

LEMMA CounterStep ==
    ASSUME IInv, WindowEnds \/ recordRetry \/ recordWriteError \/ CaptureDrops
    PROVE  IInv' /\ currentRate' = currentRate
<1>1. RateTypeOK' /\ currentRate' = currentRate
  <2>1. retrySuccess' \in Nat /\ retryFailure' \in Nat /\ pcapDropped' \in Nat
    BY DEF IInv, RateTypeOK, WindowEnds, recordRetry, recordWriteError, CaptureDrops, counterVars
  <2>2. windowOver' \in BOOLEAN /\ writeError' \in BOOLEAN
    BY Zenon DEF IInv, RateTypeOK, WindowEnds, recordRetry, recordWriteError, CaptureDrops, counterVars
  <2>3. calm' \in 0 .. HealthyLimit
    BY RateAssumption DEF IInv, RateTypeOK, WindowEnds, recordRetry, recordWriteError, CaptureDrops
  <2>4. Unevaluated
    BY DEF WindowEnds, recordRetry, recordWriteError, CaptureDrops
  <2> QED BY <2>1, <2>2, <2>3, <2>4 DEF IInv, RateTypeOK, Unevaluated
<1>2. CalmInv'
  BY DEF IInv, CalmInv, WindowEnds, recordRetry, recordWriteError, CaptureDrops, counterVars,
     Unevaluated
<1>3. OneEvaluator' /\ LimitInv'
  BY DEF IInv, OneEvaluator, LimitInv, WindowEnds, recordRetry, recordWriteError, CaptureDrops,
     Unevaluated
<1>4. DropsInv'
  BY RateAssumption DEF IInv, RateTypeOK, DropsInv, WindowEnds, recordRetry, recordWriteError,
     CaptureDrops, Unevaluated, NoStats
<1> QED BY <1>1, <1>2, <1>3, <1>4 DEF IInv

LEMMA BeginStep ==
    ASSUME IInv, NEW e \in Evaluators, beginEvaluation(e)
    PROVE  IInv' /\ currentRate' = currentRate
<1> USE DEF beginEvaluation, EvalGoto, counterVars
<1>1. RateTypeOK'
  BY DEF IInv, RateTypeOK
<1>2. \A f \in Evaluators \ {e} : evalPc'[f] = evalPc[f]
  BY DEF IInv, RateTypeOK
<1>3. evalPc[e] = "idle" /\ evalPc'[e] = "stats"
  BY DEF IInv, RateTypeOK
<1>4. OneEvaluator'
  BY <1>2, <1>3 DEF OneEvaluator, Evaluating
<1>5. LimitInv'
  BY <1>2, <1>3 DEF IInv, LimitInv
<1>6. DropsInv'
  BY <1>2, <1>3 DEF IInv, DropsInv
<1> QED BY <1>1, <1>4, <1>5, <1>6 DEF IInv, CalmInv

LEMMA ReadStep ==
    ASSUME IInv, NEW e \in Evaluators, ReadStats(e)
    PROVE  IInv' /\ currentRate' = currentRate
<1> USE DEF ReadStats, EvalGoto, counterVars
<1>1. RateTypeOK'
  BY DEF IInv, RateTypeOK
<1>2. \A f \in Evaluators \ {e} : evalPc'[f] = evalPc[f] /\ stats'[f] = stats[f]
  BY DEF IInv, RateTypeOK
<1>3. evalPc[e] = "stats" /\ evalPc'[e] = "evaluate" /\ stats'[e] \in {pcapDropped, NoStats}
  BY DEF IInv, RateTypeOK
<1>4. OneEvaluator'
  BY <1>2, <1>3 DEF IInv, OneEvaluator
<1>5. LimitInv'
  BY <1>2, <1>3 DEF IInv, LimitInv
<1>6. DropsInv'
  BY <1>2, <1>3, RateAssumption DEF IInv, RateTypeOK, DropsInv
<1> QED BY <1>1, <1>4, <1>5, <1>6 DEF IInv, CalmInv

\* What an evaluation does to the rate and to the count of healthy windows.
LEMMA EvaluatedRate ==
    ASSUME IInv, NEW e \in Evaluators, NEW high \in BOOLEAN, evaluateClaimed(e, high)
    PROVE  /\ currentRate' \in MinRate .. MaxRate
           /\ cutRate' \in MinRate .. MaxRate
           /\ healthyWindows' \in 0 .. HealthyLimit
           /\ healthyWindows' <= calm'
           /\ currentRate' > currentRate => calm >= HealthyLimit - 1
           /\ healthy' \in Nat
<1> DEFINE congested == pcapDrop(e) > 0 \/ writeError \/ high
<1>1. calm' = minInt(calm + 1, HealthyLimit)
  BY DEF evaluateClaimed
<1>2. CASE congested \/ retryRecoveryHigh
  <2>1. \E percent \in {70, 80} : currentRate' = Cut(percent)
    BY <1>2 DEF evaluateClaimed
  <2>2. healthyWindows' = 0 /\ cutRate' = currentRate' /\ healthy' = 0
    BY <1>2 DEF evaluateClaimed
  <2>3. currentRate' \in MinRate .. currentRate
    BY <2>1, CutBounds DEF IInv
  <2> QED BY <1>1, <2>2, <2>3, RateAssumption DEF IInv, RateTypeOK, minInt
<1>3. CASE ~(congested \/ retryRecoveryHigh)
  <2>1. Recover /\ ~writeError /\ cutRate' = cutRate /\ healthy' \in {healthy, healthy + 1}
    BY <1>3 DEF evaluateClaimed
  <2>2. /\ currentRate' \in currentRate .. MaxRate
        /\ healthyWindows' \in 0 .. HealthyLimit /\ healthyWindows' <= healthyWindows + 1
        /\ currentRate' > currentRate => healthyWindows + 1 >= HealthyLimit
    BY <2>1, RecoverBounds DEF IInv
  <2>3. healthyWindows <= calm
    BY <2>1 DEF IInv, CalmInv
  <2> QED BY <1>1, <2>1, <2>2, <2>3, RateAssumption DEF IInv, RateTypeOK, minInt
<1> QED BY <1>2, <1>3

LEMMA EvaluateStep ==
    ASSUME IInv, NEW e \in Evaluators, NEW high \in BOOLEAN, evaluateClaimed(e, high)
    PROVE  IInv' /\ (currentRate' > currentRate => calm >= HealthyLimit - 1)
<1>1. /\ currentRate' \in MinRate .. MaxRate
      /\ cutRate' \in MinRate .. MaxRate
      /\ healthyWindows' \in 0 .. HealthyLimit
      /\ healthyWindows' <= calm'
      /\ currentRate' > currentRate => calm >= HealthyLimit - 1
      /\ healthy' \in Nat
  BY EvaluatedRate
<1>2. /\ evalPc[e] = "evaluate"
      /\ lastPcapDrop' = lastPcapDropAfter(e)
      /\ retrySuccess' = 0 /\ retryFailure' = 0 /\ writeError' = FALSE
      /\ evalPc' = [evalPc EXCEPT ![e] = IF currentRate' # currentRate THEN "apply" ELSE "idle"]
      /\ newRate' = [newRate EXCEPT ![e] = IF currentRate' # currentRate THEN currentRate' ELSE MaxRate]
      /\ stats' = [stats EXCEPT ![e] = NoStats]
      /\ counted' = IF overlapped THEN 0 ELSE counted + pcapDrop(e)
      /\ calm' = minInt(calm + 1, HealthyLimit)
      /\ UNCHANGED <<windowOver, pcapDropped, limit, overlapped>>
  BY DEF evaluateClaimed, EvalGoto, Changed
<1>3. stats[e] \in Nat \cup {NoStats}
  BY DEF IInv, RateTypeOK
<1>4. lastPcapDropAfter(e) \in Nat /\ pcapDrop(e) \in Nat
  BY <1>3 DEF IInv, RateTypeOK, lastPcapDropAfter, pcapDrop, NoStats
<1>5. \A f \in Evaluators \ {e} :
        evalPc'[f] = evalPc[f] /\ newRate'[f] = newRate[f] /\ stats'[f] = stats[f]
  BY <1>2 DEF IInv, RateTypeOK
<1>6. /\ evalPc'[e] = IF currentRate' # currentRate THEN "apply" ELSE "idle"
      /\ newRate'[e] = IF currentRate' # currentRate THEN currentRate' ELSE MaxRate
  BY <1>2 DEF IInv, RateTypeOK
<1>7. RateTypeOK'
  <2>1. calm' \in 0 .. HealthyLimit /\ counted' \in Nat /\ lastPcapDrop' \in Nat
    BY <1>2, <1>4, RateAssumption DEF IInv, RateTypeOK, minInt
  <2>2. /\ evalPc' \in [Evaluators -> {"idle", "stats", "evaluate", "apply"}]
        /\ stats' \in [Evaluators -> Nat \cup {NoStats}]
    BY <1>2 DEF IInv, RateTypeOK
  <2>3. newRate' \in [Evaluators -> MinRate .. MaxRate]
    <3>1. MaxRate \in MinRate .. MaxRate
      BY RateAssumption
    <3> QED BY <1>1, <1>2, <3>1 DEF IInv, RateTypeOK
  <2> QED BY <1>1, <1>2, <2>1, <2>2, <2>3 DEF IInv, RateTypeOK
<1>8. OneEvaluator'
  BY <1>2, <1>5, <1>6 DEF IInv, OneEvaluator
<1>9. LimitInv'
  <2> SUFFICES ASSUME ~overlapped PROVE LimitInv'
    BY <1>2 DEF LimitInv
  <2>1. \A f \in Evaluators \ {e} : evalPc'[f] = "idle"
    BY <1>2, <1>5 DEF IInv, OneEvaluator, RateTypeOK
  <2>2. limit = currentRate
    <3>1. \A f \in Evaluators : evalPc[f] # "apply"
      BY <1>2, <1>5, <2>1
    <3> QED BY <3>1 DEF IInv, LimitInv
  <2> QED BY <1>2, <1>6, <2>1, <2>2 DEF LimitInv
<1>10. DropsInv'
  <2> SUFFICES ASSUME ~overlapped PROVE DropsInv'
    BY <1>2 DEF DropsInv
  <2>1. \A f \in Evaluators : evalPc'[f] # "evaluate"
    BY <1>2, <1>5, <1>6 DEF IInv, OneEvaluator, RateTypeOK
  <2>2. /\ counted = lastPcapDrop /\ lastPcapDrop <= pcapDropped
        /\ stats[e] # NoStats => stats[e] \in lastPcapDrop .. pcapDropped
    BY <1>2 DEF IInv, DropsInv
  <2>3. counted' = lastPcapDrop' /\ lastPcapDrop' <= pcapDropped'
    BY <1>2, <1>3, <2>2 DEF IInv, RateTypeOK, lastPcapDropAfter, pcapDrop, NoStats
  <2> QED BY <2>1, <2>3 DEF DropsInv
<1> QED BY <1>1, <1>2, <1>7, <1>8, <1>9, <1>10 DEF IInv, CalmInv

LEMMA ApplyStep ==
    ASSUME IInv, NEW e \in Evaluators, applyAdaptiveRate(e)
    PROVE  IInv' /\ currentRate' = currentRate
<1> USE DEF applyAdaptiveRate, EvalGoto, counterVars
<1>1. RateTypeOK'
  BY RateAssumption DEF IInv, RateTypeOK
<1>2. \A f \in Evaluators \ {e} : evalPc'[f] = evalPc[f] /\ newRate'[f] = newRate[f]
  BY DEF IInv, RateTypeOK
<1>3. evalPc[e] = "apply" /\ evalPc'[e] = "idle" /\ limit' = newRate[e]
  BY DEF IInv, RateTypeOK
<1>4. OneEvaluator'
  BY <1>2, <1>3 DEF IInv, OneEvaluator
<1>5. LimitInv'
  BY <1>2, <1>3 DEF IInv, LimitInv, OneEvaluator
<1>6. DropsInv'
  BY <1>2, <1>3 DEF IInv, DropsInv
<1> QED BY <1>1, <1>4, <1>5, <1>6 DEF IInv, CalmInv

LEMMA NextInv ==
    ASSUME IInv, RateNext
    PROVE  IInv' /\ (currentRate' > currentRate => calm >= HealthyLimit - 1)
<1>1. ASSUME IInv', currentRate' = currentRate
      PROVE  IInv' /\ (currentRate' > currentRate => calm >= HealthyLimit - 1)
  BY <1>1, RateAssumption DEF IInv, RateTypeOK
<1>2. CASE WindowEnds \/ recordRetry \/ recordWriteError \/ CaptureDrops
  BY <1>1, <1>2, CounterStep
<1>3. ASSUME NEW e \in Evaluators, Evaluate(e)
      PROVE  IInv' /\ (currentRate' > currentRate => calm >= HealthyLimit - 1)
  BY <1>1, <1>3, BeginStep, ReadStep, EvaluateStep, ApplyStep DEF Evaluate
<1> QED BY <1>2, <1>3 DEF RateNext

LEMMA StepInv == IInv /\ [RateNext]_rateVars => IInv'
<1> SUFFICES ASSUME IInv, [RateNext]_rateVars PROVE IInv'
  OBVIOUS
<1>1. CASE UNCHANGED rateVars
  BY <1>1 DEF rateVars, counterVars, IInv, RateTypeOK, CalmInv, OneEvaluator, LimitInv, DropsInv
<1> QED BY <1>1, NextInv

LEMMA Invariance == RateSpec => []IInv
BY InitInv, StepInv, PTL DEF RateSpec

\* The variables keep their types: no order of cuts, raises and late
\* applications takes the rate or the limiter out of its two bounds.
THEOREM RateTypeCorrect == RateSpec => []RateTypeOK
BY Invariance, PTL DEF IInv

\* No write error is lost between the claim of a window and its evaluation.
THEOREM ErrorsHoldRaises == RateSpec => NoRaiseAfterError
<1>1. IInv /\ [RateNext]_rateVars => [currentRate' > currentRate => calm >= HealthyLimit - 1]_rateVars
  BY NextInv
<1> QED BY <1>1, Invariance, PTL DEF RateSpec, NoRaiseAfterError

\* Without overlapping evaluations no dropped packet is acted on twice.
THEOREM DropsAreCountedOnce == RateSpec => []DropsCountedOnce
<1>1. IInv => DropsCountedOnce
  BY DEF IInv, DropsInv, DropsCountedOnce, RateTypeOK
<1> QED BY <1>1, Invariance, PTL

\* Without overlapping evaluations the limiter gets the rate decided last.
THEOREM LimitIsCurrent == RateSpec => []LimitFollowsRate
<1>1. IInv => LimitFollowsRate
  BY DEF IInv, RateTypeOK, LimitInv, LimitFollowsRate, Evaluating
<1> QED BY <1>1, Invariance, PTL

-----------------------------------------------------------------------------
(* The steps back to the full rate.                                        *)

\* n evaluations make a full run: after q runs and w evaluations there are q.
LEMMA FullRuns ==
    ASSUME NEW n \in Nat \ {0}, NEW q \in Nat, NEW w \in 0 .. n - 1, NEW x \in Nat, x = n * q + w
    PROVE  x \div n = q
<1> DEFINE r == x \div n
<1>1. r \in Nat /\ n * r <= x /\ x < n * r + n
  OBVIOUS
<1> HIDE DEF r
<1>2. ~(q < r)
  <2> SUFFICES ASSUME q < r PROVE FALSE
    OBVIOUS
  <2>1. PICK d \in Nat : r = q + 1 + d
    <3>1. r - q - 1 \in Nat /\ r = q + 1 + (r - q - 1)
      BY <1>1
    <3> QED BY <3>1
  <2>2. n * r = n * q + n + n * d /\ n * d >= 0
    BY <2>1
  <2> QED BY <1>1, <2>2
<1>3. ~(r < q)
  <2> SUFFICES ASSUME r < q PROVE FALSE
    OBVIOUS
  <2>1. PICK d \in Nat : q = r + 1 + d
    <3>1. q - r - 1 \in Nat /\ q = r + 1 + (q - r - 1)
      BY <1>1
    <3> QED BY <3>1
  <2>2. n * q = n * r + n + n * d /\ n * d >= 0
    BY <1>1, <2>1
  <2> QED BY <1>1, <2>2
<1>4. q = r
  BY <1>1, <1>2, <1>3
<1> QED BY <1>4 DEF r

\* Below the full rate healthyWindows is how far the current run has come.
RunInv == currentRate < MaxRate => \E q \in Nat :
    /\ healthyWindows < HealthyLimit
    /\ healthy = HealthyLimit * q + healthyWindows
    /\ currentRate = cutRate + Step * q

StepsInv == RunInv /\ RecoversInSteps

LEMMA StepType == Step \in Nat
<1>1. (MaxRate * 5) \div 100 \in Nat
  BY RateAssumption
<1> QED BY <1>1 DEF Step, maxInt

LEMMA InitSteps == RateInit => StepsInv
<1> SUFFICES ASSUME RateInit PROVE StepsInv
  OBVIOUS
<1>1. 0 \div HealthyLimit = 0
  <2>1. 0 = HealthyLimit * 0 + 0 /\ 0 \in 0 .. HealthyLimit - 1
    BY RateAssumption
  <2> QED BY <2>1, FullRuns, RateAssumption
<1>2. Recovered = MaxRate
  BY <1>1, StepType, RateAssumption DEF RateInit, Recovered, minInt
<1> QED BY <1>2, RateAssumption DEF RateInit, StepsInv, RunInv, RecoversInSteps

LEMMA RecoverSteps ==
    ASSUME IInv, StepsInv, Recover, UNCHANGED cutRate,
           healthy' = IF Recovered = MaxRate THEN healthy ELSE healthy + 1
    PROVE  StepsInv'
<1>1. /\ currentRate \in Nat /\ currentRate <= MaxRate /\ cutRate \in Nat
      /\ healthy \in Nat /\ healthyWindows \in Nat /\ HealthyLimit \in Nat \ {0} /\ MaxRate \in Nat
      /\ Step \in Nat
  BY StepType, RateAssumption DEF IInv, RateTypeOK
<1>2. currentRate = Recovered
  BY DEF StepsInv, RecoversInSteps
<1>3. CASE currentRate = MaxRate
  <2>1. currentRate' = MaxRate /\ healthy' = healthy
    BY <1>1, <1>2, <1>3 DEF Recover
  <2>2. Recovered' = Recovered
    BY <2>1 DEF Recovered
  <2>3. RunInv'
    BY <1>1, <2>1 DEF RunInv
  <2>4. RecoversInSteps'
    BY <1>2, <1>3, <2>1, <2>2 DEF RecoversInSteps
  <2> QED BY <2>3, <2>4 DEF StepsInv
<1>4. CASE currentRate < MaxRate
  <2>1. PICK q \in Nat : /\ healthyWindows < HealthyLimit
                         /\ healthy = HealthyLimit * q + healthyWindows
                         /\ currentRate = cutRate + Step * q
    BY <1>4 DEF StepsInv, RunInv
  <2>2. healthy' = healthy + 1
    BY <1>1, <1>2, <1>4
  <2>3. CASE healthyWindows + 1 < HealthyLimit
    <3>1. healthyWindows' = healthyWindows + 1 /\ currentRate' = currentRate
      BY <1>1, <2>3 DEF Recover, minInt
    <3>2. healthy' = HealthyLimit * q + healthyWindows'
      BY <1>1, <2>1, <2>2, <3>1
    <3>3. healthy' \div HealthyLimit = q
      BY <1>1, <2>2, <2>3, <3>1, <3>2, FullRuns
    <3>4. Recovered' = currentRate'
      BY <1>1, <1>4, <2>1, <3>1, <3>3 DEF Recovered, minInt
    <3>5. currentRate' = cutRate' + Step * q /\ healthyWindows' < HealthyLimit
      BY <2>1, <2>3, <3>1
    <3>6. RunInv'
      BY <3>2, <3>5 DEF RunInv, Step
    <3> QED BY <3>4, <3>6 DEF StepsInv, RecoversInSteps
  <2>4. CASE healthyWindows + 1 = HealthyLimit
    <3>1. healthyWindows' = 0 /\ currentRate' = Raised
      BY <1>1, <1>4, <2>4 DEF Recover, minInt
    <3>2. healthy' = HealthyLimit * (q + 1) + 0
      <4>1. HealthyLimit * (q + 1) = HealthyLimit * q + HealthyLimit
        BY <1>1
      <4>2. HealthyLimit * q \in Nat
        BY <1>1
      <4> QED BY <1>1, <2>1, <2>2, <2>4, <4>1, <4>2
    <3>3. healthy' \div HealthyLimit = q + 1
      BY <1>1, <2>2, <3>2, FullRuns
    <3>4. Step * (q + 1) = Step * q + Step /\ Step * q \in Nat
      BY <1>1
    <3>5. Recovered' = minInt(MaxRate, cutRate + Step * (q + 1))
      BY <3>3 DEF Recovered
    <3>6. currentRate' = minInt(MaxRate, cutRate + Step * (q + 1))
      BY <1>1, <2>1, <3>1, <3>4 DEF Raised
    <3>7. currentRate' < MaxRate => currentRate' = cutRate' + Step * (q + 1)
      BY <1>1, <3>4, <3>6 DEF minInt
    <3>8. RunInv'
      BY <1>1, <3>1, <3>2, <3>7 DEF RunInv
    <3> QED BY <3>5, <3>6, <3>8 DEF StepsInv, RecoversInSteps
  <2> QED BY <1>1, <2>1, <2>3, <2>4
<1> QED BY <1>1, <1>3, <1>4

LEMMA EvaluateSteps ==
    ASSUME IInv, StepsInv, NEW e \in Evaluators, NEW high \in BOOLEAN, evaluateClaimed(e, high)
    PROVE  StepsInv'
<1> DEFINE congested == pcapDrop(e) > 0 \/ writeError \/ high
<1>1. CASE congested \/ retryRecoveryHigh
  <2>1. healthyWindows' = 0 /\ cutRate' = currentRate' /\ healthy' = 0
    BY <1>1 DEF evaluateClaimed
  <2>2. currentRate' \in Nat /\ currentRate' <= MaxRate
    BY EvaluatedRate, RateAssumption
  <2>3. healthy' = HealthyLimit * 0 + 0 /\ Step * 0 = 0
    BY <2>1, StepType, RateAssumption
  <2>4. healthy' \div HealthyLimit = 0
    BY <2>1, <2>3, FullRuns, RateAssumption
  <2>5. Recovered' = currentRate'
    BY <2>1, <2>2, <2>3, <2>4, RateAssumption DEF Recovered, minInt
  <2>6. RunInv'
    BY <2>1, <2>2, <2>3, RateAssumption DEF RunInv
  <2> QED BY <2>5, <2>6 DEF StepsInv, RecoversInSteps
<1>2. CASE ~(congested \/ retryRecoveryHigh)
  BY <1>2, RecoverSteps DEF evaluateClaimed
<1> QED BY <1>1, <1>2

LEMMA NextSteps == IInv /\ StepsInv /\ [RateNext]_rateVars => StepsInv'
<1> SUFFICES ASSUME IInv, StepsInv, [RateNext]_rateVars PROVE StepsInv'
  OBVIOUS
<1>1. ASSUME UNCHANGED <<currentRate, healthyWindows, cutRate, healthy>> PROVE StepsInv'
  BY <1>1 DEF StepsInv, RunInv, RecoversInSteps, Recovered
<1>2. CASE UNCHANGED rateVars
  BY <1>1, <1>2 DEF rateVars
<1>3. CASE WindowEnds \/ recordRetry \/ recordWriteError \/ CaptureDrops
  BY <1>1, <1>3 DEF WindowEnds, recordRetry, recordWriteError, CaptureDrops, Unevaluated
<1>4. ASSUME NEW e \in Evaluators, Evaluate(e) PROVE StepsInv'
  <2>1. CASE beginEvaluation(e) \/ ReadStats(e) \/ applyAdaptiveRate(e)
    BY <1>1, <2>1 DEF beginEvaluation, ReadStats, applyAdaptiveRate
  <2> QED BY <1>4, <2>1, EvaluateSteps DEF Evaluate
<1> QED BY <1>2, <1>3, <1>4 DEF RateNext

\* After a cut the rate comes back by one step for every full run of healthy
\* evaluations, whatever lies between them, up to its maximum.
THEOREM RateRecovers == RateSpec => []RecoversInSteps
<1>1. StepsInv => RecoversInSteps
  BY DEF StepsInv
<1> QED BY <1>1, InitSteps, NextSteps, Invariance, PTL DEF RateSpec
=============================================================================
