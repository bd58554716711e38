---------------------------- MODULE AdaptiveRate ----------------------------
(***************************************************************************)
(* synAdaptiveLimiter (core/port/syn/adaptive.go) and evaluateAdaptiveRate *)
(* of syn.go: every goroutine that waits for the global limiter may find   *)
(* the window over and evaluate it.  It claims the window under the lock,  *)
(* reads the capture statistics and the table's size without it, evaluates *)
(* under it again and then sets the limiter's rate without it.             *)
(***************************************************************************)
EXTENDS Integers, FiniteSets

CONSTANTS
    Evaluators,   \* goroutines in waitGlobalLimiter
    MinRate,      \* miniRate
    MaxRate,      \* rate
    HealthyLimit, \* adaptiveHealthyWindows
    MinSamples,   \* adaptiveMinRetrySamples
    MaxRetries,   \* bound: retries recorded in one window
    MaxDrops      \* bound: packets the capture drops

ASSUME RateAssumption ==
    /\ MinRate \in Nat \ {0} /\ MaxRate \in Nat /\ MinRate < MaxRate
    /\ HealthyLimit \in Nat \ {0} /\ MinSamples \in Nat \ {0}
    /\ MaxRetries \in Nat /\ MaxDrops \in Nat

VARIABLES
    windowOver,    \* now - lastEvaluate is at least two seconds
    currentRate,
    healthyWindows,
    retrySuccess, retryFailure,
    writeError,    \* writeErrors > 0
    lastPcapDrop,
    pcapDropped,   \* the capture's own count of dropped packets
    limit,         \* the rate of the limiter
    evalPc,        \* evalPc[e]: where evaluator e is
    stats,         \* stats[e]: the count it has read, NoStats if that failed
    newRate,       \* newRate[e]: the rate it is about to set
    overlapped,    \* history: two evaluations were under way at once
    counted,       \* history: the drops acted on, until evaluations overlap
    calm,          \* history: evaluations since the last write error
    cutRate,       \* history: the rate after the last cut
    healthy        \* history: evaluations since then, all healthy, until it is back

counterVars == <<retrySuccess, retryFailure, writeError>>
rateVars == <<windowOver, currentRate, healthyWindows, counterVars, lastPcapDrop, pcapDropped,
              limit, evalPc, stats, newRate, overlapped, counted, calm, cutRate, healthy>>

NoStats == -1
maxInt(a, b) == IF a > b THEN a ELSE b
minInt(a, b) == IF a < b THEN a ELSE b

RateInit ==
    /\ windowOver = FALSE
    /\ currentRate = MaxRate /\ limit = MaxRate
    /\ healthyWindows = 0
    /\ retrySuccess = 0 /\ retryFailure = 0 /\ writeError = FALSE
    /\ lastPcapDrop = 0 /\ pcapDropped = 0
    /\ evalPc = [e \in Evaluators |-> "idle"]
    /\ stats = [e \in Evaluators |-> NoStats]
    /\ newRate = [e \in Evaluators |-> MaxRate]
    /\ overlapped = FALSE /\ counted = 0
    /\ calm = HealthyLimit /\ cutRate = MaxRate /\ healthy = 0

EvalGoto(e, s) == evalPc' = [evalPc EXCEPT ![e] = s]
Evaluating == {e \in Evaluators : evalPc[e] # "idle"}

-----------------------------------------------------------------------------
(* What happens to the counters: two seconds pass, a retried probe is      *)
(* answered or times out, a packet cannot be written, the capture drops.   *)

Unevaluated == UNCHANGED <<currentRate, healthyWindows, lastPcapDrop, limit, evalPc, stats,
                           newRate, overlapped, counted, cutRate, healthy>>

WindowEnds ==
    /\ ~windowOver
    /\ windowOver' = TRUE
    /\ UNCHANGED <<counterVars, pcapDropped, calm>>
    /\ Unevaluated

recordRetry ==
    /\ retrySuccess + retryFailure < MaxRetries
    /\ \/ retrySuccess' = retrySuccess + 1 /\ UNCHANGED retryFailure
       \/ retryFailure' = retryFailure + 1 /\ UNCHANGED retrySuccess
    /\ UNCHANGED <<windowOver, writeError, pcapDropped, calm>>
    /\ Unevaluated

recordWriteError ==
    /\ writeError' = TRUE
    /\ calm' = 0
    /\ UNCHANGED <<windowOver, retrySuccess, retryFailure, pcapDropped>>
    /\ Unevaluated

CaptureDrops ==
    /\ pcapDropped < MaxDrops
    /\ pcapDropped' = pcapDropped + 1
    /\ UNCHANGED <<windowOver, counterVars, calm>>
    /\ Unevaluated

-----------------------------------------------------------------------------
(* One evaluation.                                                         *)

\* Faulty variant: the window's counters are cleared when it is claimed.
beginAndClear(e) ==
    /\ evalPc[e] = "idle" /\ windowOver
    /\ windowOver' = FALSE
    /\ EvalGoto(e, "stats")
    /\ overlapped' = (overlapped \/ Evaluating # {})
    /\ retrySuccess' = 0 /\ retryFailure' = 0 /\ writeError' = FALSE
    /\ UNCHANGED <<currentRate, healthyWindows, lastPcapDrop, pcapDropped, limit, stats,
                   newRate, counted, calm, cutRate, healthy>>

beginEvaluation(e) ==
    /\ evalPc[e] = "idle" /\ windowOver
    /\ windowOver' = FALSE
    /\ EvalGoto(e, "stats")
    /\ overlapped' = (overlapped \/ Evaluating # {})
    /\ UNCHANGED <<currentRate, healthyWindows, counterVars, lastPcapDrop, pcapDropped, limit,
                   stats, newRate, counted, calm, cutRate, healthy>>

\* pcapStats can fail; then this evaluation goes without it.
ReadStats(e) ==
    /\ evalPc[e] = "stats"
    /\ EvalGoto(e, "evaluate")
    /\ \E n \in {pcapDropped, NoStats} : stats' = [stats EXCEPT ![e] = n]
    /\ UNCHANGED <<windowOver, currentRate, healthyWindows, counterVars, lastPcapDrop,
                   pcapDropped, limit, newRate, overlapped, counted, calm, cutRate, healthy>>

\* Faulty variant: the count of the last evaluation is not kept.
lastPcapDropForgotten(e) == lastPcapDrop

\* A smaller count than the last one is taken over, too.
lastPcapDropAfter(e) == IF stats[e] = NoStats THEN lastPcapDrop ELSE stats[e]

pcapDrop(e) == IF stats[e] > lastPcapDrop THEN stats[e] - lastPcapDrop ELSE 0

retrySamples == retrySuccess + retryFailure
retryRecoveryHigh == retrySamples >= MinSamples /\ retrySuccess * 100 >= retrySamples * 30

Step == maxInt(10, (MaxRate * 5) \div 100)
Raised == minInt(MaxRate, currentRate + Step)

\* Faulty variant: the rate is cut without a floor.
CutWithoutFloor(percent) == (currentRate * percent) \div 100

Cut(percent) == maxInt(MinRate, (currentRate * percent) \div 100)

\* Faulty variant: once there were enough healthy windows every further one counts.
RecoverKeepingCount ==
    LET windows == minInt(healthyWindows + 1, HealthyLimit)
    IN  /\ healthyWindows' = windows
        /\ currentRate' = IF windows = HealthyLimit THEN Raised ELSE currentRate

\* The count is compared with HealthyLimit only and stops there; in the code it
\* goes on while the rate is at its maximum.
Recover ==
    LET windows == minInt(healthyWindows + 1, HealthyLimit)
        raise   == windows = HealthyLimit /\ currentRate < MaxRate
    IN  /\ healthyWindows' = IF raise THEN 0 ELSE windows
        /\ currentRate' = IF raise THEN Raised ELSE currentRate

\* Faulty variant: only a raise is passed on to the limiter.
ChangedUpwards == currentRate' > currentRate

Changed == currentRate' # currentRate

\* The rate after the last cut and one step for each full run of healthy evaluations.
Recovered == minInt(MaxRate, cutRate + Step * (healthy \div HealthyLimit))

\* pendingHigh: the table is filled to 70%.
evaluateClaimed(e, pendingHigh) ==
    LET congested == pcapDrop(e) > 0 \/ writeError \/ pendingHigh
    IN  /\ evalPc[e] = "evaluate"
        /\ IF congested \/ retryRecoveryHigh
           THEN /\ currentRate' = Cut(IF congested THEN 70 ELSE 80)
                /\ healthyWindows' = 0
                /\ cutRate' = currentRate' /\ healthy' = 0
           ELSE /\ Recover
                /\ healthy' = IF Recovered = MaxRate THEN healthy ELSE healthy + 1
                /\ UNCHANGED cutRate
        /\ lastPcapDrop' = lastPcapDropAfter(e)
        /\ retrySuccess' = 0 /\ retryFailure' = 0 /\ writeError' = FALSE
        /\ EvalGoto(e, IF Changed THEN "apply" ELSE "idle")
        /\ newRate' = [newRate EXCEPT ![e] = IF Changed THEN currentRate' ELSE MaxRate]
        /\ stats' = [stats EXCEPT ![e] = NoStats]
        /\ counted' = IF overlapped THEN 0 ELSE counted + pcapDrop(e)
        /\ calm' = minInt(calm + 1, HealthyLimit)
        /\ UNCHANGED <<windowOver, pcapDropped, limit, overlapped>>

applyAdaptiveRate(e) ==
    /\ evalPc[e] = "apply"
    /\ EvalGoto(e, "idle")
    /\ limit' = newRate[e]
    /\ newRate' = [newRate EXCEPT ![e] = MaxRate]
    /\ UNCHANGED <<windowOver, currentRate, healthyWindows, counterVars, lastPcapDrop,
                   pcapDropped, stats, overlapped, counted, calm, cutRate, healthy>>

Evaluate(e) ==
    \/ beginEvaluation(e) \/ ReadStats(e)
    \/ \E high \in BOOLEAN : evaluateClaimed(e, high)
    \/ applyAdaptiveRate(e)

RateNext ==
    \/ WindowEnds \/ recordRetry \/ recordWriteError \/ CaptureDrops
    \/ \E e \in Evaluators : Evaluate(e)

RateSpec == RateInit /\ [][RateNext]_rateVars

-----------------------------------------------------------------------------
\* What each piece of state may hold; no sequence of cuts and raises, and no
\* evaluation that applies an old rate, takes the rate out of its two bounds.
RateTypeOK ==
    /\ windowOver \in BOOLEAN /\ writeError \in BOOLEAN /\ overlapped \in BOOLEAN
    /\ currentRate \in MinRate .. MaxRate /\ limit \in MinRate .. MaxRate
    /\ cutRate \in MinRate .. MaxRate
    /\ healthyWindows \in 0 .. HealthyLimit /\ calm \in 0 .. HealthyLimit
    /\ retrySuccess \in Nat /\ retryFailure \in Nat /\ healthy \in Nat
    /\ lastPcapDrop \in Nat /\ pcapDropped \in Nat /\ counted \in Nat
    /\ evalPc \in [Evaluators -> {"idle", "stats", "evaluate", "apply"}]
    /\ stats \in [Evaluators -> Nat \cup {NoStats}]
    /\ newRate \in [Evaluators -> MinRate .. MaxRate]

\* No write error is lost between the claim of a window and its evaluation: the
\* rate is raised only HealthyLimit evaluations after the last one was
\* recorded, however evaluations overlap (adaptive.go:101-119, syn.go:499).
NoRaiseAfterError == [][currentRate' > currentRate => calm >= HealthyLimit - 1]_rateVars

\* A dropped packet slows the scanner down once, not in every window after it,
\* unless evaluations overlap: an old count then replaces a newer one and the
\* same drops are seen again (adaptive.go:96-100).
DropsCountedOnce == overlapped \/ counted <= pcapDropped

\* When no evaluation is under way the limiter runs at the rate decided last;
\* two overlapping evaluations may apply theirs in the wrong order (syn.go:507).
LimitFollowsRate == overlapped \/ Evaluating # {} \/ limit = currentRate

\* The rate comes back step by step: it is the rate after the last cut and one
\* step for each full run of healthy evaluations (adaptive.go:113-119).
RecoversInSteps == currentRate = Recovered
=============================================================================
