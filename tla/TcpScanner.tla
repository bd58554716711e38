----------------------------- MODULE TcpScanner -----------------------------
(***************************************************************************)
(* The TCP scanner (core/port/tcp/tcp.go).  A call of Scan or ProbeContext *)
(* takes one of MaxConcurrent places, waits for the limiters and starts a  *)
(* goroutine that dials.  An open port is put on retChan by this goroutine *)
(* or, when it asks for a fingerprint and the pool has room, by a worker.  *)
(* Close cancels, waits for the goroutines and closes the pool.            *)
(***************************************************************************)
EXTENDS Integers, FiniteSets, Sequences

CONSTANTS
    Probes,         \* the calls
    Linked,         \* the calls of ProbeContext; the others are calls of Scan
    FingerPrint,    \* the calls whose IpOption asks for enrichment
    MaxConcurrent,  \* cap(inflight), 512 by default
    RetCap,         \* cap(retChan)
    Unread,         \* earlier results on retChan the program has not read yet
    Workers,        \* goroutines of fingerPool
    QueueSize       \* cap of its job queue

ASSUME ProbesAssumption == IsFiniteSet(Probes) /\ Linked \subseteq Probes /\ FingerPrint \subseteq Probes
ASSUME CapsAssumption ==
    /\ MaxConcurrent \in Nat \ {0} /\ RetCap \in Nat \ {0} /\ Unread \in 0 .. RetCap
    /\ Workers \in Nat \ {0} /\ QueueSize \in Nat \ {0}

VARIABLES
    stage,      \* stage[p]: how far the call for p is, and then its probe
    inflight,   \* len(inflight)
    running,    \* the probes whose goroutine runs: ts.wg
    emitPc,     \* emitPc[p]: progress of EmitOpenProbeResult for p
    retLen,     \* len(retChan)
    delivered,  \* probes whose result was put on retChan
    events,     \* events[p]: the outcomes OnProbeDone has seen, in order
    cancelled,  \* the probes whose context reports an error
    closeStep,  \* progress of Close
    waitPc,     \* Wait
    due         \* history: the probes accepted before Wait was called

emitVars == <<emitPc, retLen, delivered>>
vars == <<stage, inflight, running, emitVars, events, cancelled, closeStep, waitPc, due>>

Outcomes == {"Open", "Closed", "NoResponse", "Error", "Aborted"}

CallStages  == {"idle", "queue", "limit", "start", "failed"}
ProbeStages == {"spawned", "dial", "open", "direct", "jobs", "worker", "done"}

TypeOK ==
    /\ stage \in [Probes -> CallStages \cup ProbeStages]
    /\ inflight \in 0 .. MaxConcurrent
    /\ running \subseteq Probes
    /\ emitPc \in [Probes -> {"check", "select", "emit"}]
    /\ retLen \in 0 .. RetCap
    /\ delivered \subseteq Probes
    /\ events \in [Probes -> Seq(Outcomes)]
    /\ cancelled \subseteq Probes
    /\ closeStep \in 0 .. 4
    /\ waitPc \in {"idle", "wg", "pool", "returned"}
    /\ due \subseteq Probes

Init ==
    /\ stage = [p \in Probes |-> "idle"]
    /\ inflight = 0
    /\ running = {}
    /\ emitPc = [p \in Probes |-> "check"]
    /\ retLen = Unread
    /\ delivered = {}
    /\ events = [p \in Probes |-> <<>>]
    /\ cancelled = {}
    /\ closeStep = 0
    /\ waitPc = "idle" /\ due = {}

At(s)      == {p \in Probes : stage[p] = s}
Accepted   == {p \in Probes : stage[p] \in ProbeStages}
Reported   == {p \in Probes : events[p] # <<>>}
IsDone     == closeStep >= 1   \* isDone.Store(true)
CtxDone    == closeStep >= 2   \* ts.cancel()
WgDone     == closeStep >= 3   \* ts.wg.Wait()
PoolClosed == closeStep = 4    \* fingerPool.Close()
HasRoom    == Cardinality(At("jobs")) < QueueSize

Goto(p, s) == stage' = [stage EXCEPT ![p] = s]

\* probeCancel, which a call of Scan does not have.
ProbeCancel(p) == cancelled' = cancelled \cup ({p} \cap Linked)

-----------------------------------------------------------------------------
(* The caller: scanContext up to the go statement.                         *)

CallUnchanged == UNCHANGED <<running, emitVars, events, closeStep, waitPc, due>>

Scan(p) ==
    /\ stage[p] = "idle"
    /\ IF IsDone \/ p \in cancelled
       THEN Goto(p, "failed") /\ ProbeCancel(p)
       ELSE Goto(p, "queue") /\ UNCHANGED cancelled
    /\ UNCHANGED inflight
    /\ CallUnchanged

TakePlace(p) ==
    /\ stage[p] = "queue"
    /\ inflight < MaxConcurrent
    /\ inflight' = inflight + 1
    /\ Goto(p, "limit")
    /\ UNCHANGED cancelled
    /\ CallUnchanged

GiveUpPlace(p) ==
    /\ stage[p] = "queue"
    /\ p \in cancelled
    /\ Goto(p, "failed")
    /\ UNCHANGED <<inflight, cancelled>>
    /\ CallUnchanged

\* The limiters, and the context once more after them.
PassLimiters(p) ==
    /\ stage[p] = "limit"
    /\ p \notin cancelled
    /\ Goto(p, "start")
    /\ UNCHANGED <<inflight, cancelled>>
    /\ CallUnchanged

\* Faulty variant: a cancelled wait keeps its place.
LimiterErrorKeepsPlace(p) ==
    /\ stage[p] = "limit"
    /\ p \in cancelled \cup Linked
    /\ Goto(p, "failed")
    /\ ProbeCancel(p)
    /\ UNCHANGED inflight
    /\ CallUnchanged

\* Cancelled, or the deadline of a ProbeContext comes before the token.
LimiterError(p) ==
    /\ stage[p] = "limit"
    /\ p \in cancelled \cup Linked
    /\ inflight' = inflight - 1
    /\ Goto(p, "failed")
    /\ ProbeCancel(p)
    /\ CallUnchanged

\* wg.Add and the go statement.
Start(p) ==
    /\ stage[p] = "start"
    /\ running' = running \cup {p}
    /\ Goto(p, "spawned")
    /\ UNCHANGED <<inflight, cancelled, emitVars, events, closeStep, waitPc, due>>

Cancel(p) ==
    /\ p \in Linked \ cancelled
    /\ cancelled' = cancelled \cup {p}
    /\ UNCHANGED <<stage, inflight>>
    /\ CallUnchanged

\* The context handed to ProbeContext is cancelled by its owner, or by
\* context.AfterFunc some time after Close cancelled the scanner's.
CallerCancel(p)    == stage[p] # "idle" /\ Cancel(p)
PropagateCancel(p) == CtxDone /\ stage[p] # "idle" /\ Cancel(p)

Caller(p) == TakePlace(p) \/ GiveUpPlace(p) \/ PassLimiters(p) \/ LimiterError(p) \/ Start(p)

-----------------------------------------------------------------------------
(* The goroutine of a probe.                                               *)

ProbeUnchanged == UNCHANGED <<inflight, running, closeStep, waitPc, due>>

Finish(p, o) ==
    /\ events' = [events EXCEPT ![p] = Append(@, o)]
    /\ ProbeCancel(p)
    /\ Goto(p, "done")

\* The dial does not begin under a cancelled context.
Dial(p) ==
    /\ stage[p] = "spawned"
    /\ p \notin cancelled
    /\ Goto(p, "dial")
    /\ UNCHANGED <<emitVars, events, cancelled>>
    /\ ProbeUnchanged

\* Faulty variant: a cancelled dial is reported as a timeout.
DialErrorAsTimeout(p) ==
    /\ stage[p] \in {"spawned", "dial"}
    /\ stage[p] = "spawned" => p \in cancelled
    /\ \E o \in {"Closed", "NoResponse", "Error", "Aborted"} : Finish(p, o)
    /\ UNCHANGED emitVars
    /\ ProbeUnchanged

\* Faulty variant: a dial that was cancelled is not reported.
DialErrorSilent(p) ==
    /\ stage[p] \in {"spawned", "dial"}
    /\ stage[p] = "spawned" => p \in cancelled
    /\ IF p \in cancelled
       THEN Goto(p, "done") /\ UNCHANGED <<events, cancelled>>
       ELSE \E o \in {"Closed", "NoResponse", "Error"} : Finish(p, o)
    /\ UNCHANGED emitVars
    /\ ProbeUnchanged

\* tcpProbeOutcome: whatever the error, a done context makes it Aborted.
DialError(p) ==
    /\ stage[p] \in {"spawned", "dial"}
    /\ stage[p] = "spawned" => p \in cancelled
    /\ IF p \in cancelled
       THEN Finish(p, "Aborted")
       ELSE \E o \in {"Closed", "NoResponse", "Error"} : Finish(p, o)
    /\ UNCHANGED emitVars
    /\ ProbeUnchanged

DialOpen(p) ==
    /\ stage[p] = "dial"
    /\ Goto(p, IF p \in FingerPrint THEN "open" ELSE "direct")
    /\ UNCHANGED <<emitVars, events, cancelled>>
    /\ ProbeUnchanged

\* TrySubmit does not block; on a closed job queue it would panic.
TrySubmit(p) ==
    /\ stage[p] = "open"
    /\ ~PoolClosed
    /\ Goto(p, IF HasRoom THEN "jobs" ELSE "direct")
    /\ UNCHANGED <<emitVars, events, cancelled>>
    /\ ProbeUnchanged

\* The deferred releaseCapacity and wg.Done.
Leave(p) ==
    /\ p \in running
    /\ stage[p] \in {"jobs", "worker", "done"}
    /\ running' = running \ {p}
    /\ inflight' = inflight - 1
    /\ UNCHANGED <<stage, emitVars, events, cancelled, closeStep, waitPc, due>>

WorkerTake(p) ==
    /\ stage[p] = "jobs"
    /\ Cardinality(At("worker")) < Workers
    /\ Goto(p, "worker")
    /\ UNCHANGED <<emitVars, events, cancelled>>
    /\ ProbeUnchanged

-----------------------------------------------------------------------------
(* port.EmitOpenProbeResult.                                               *)

EmitGoto(p, s) == emitPc' = [emitPc EXCEPT ![p] = s]

\* Only the context given to ProbeContext or the scanner's counts here, never
\* the time budget of the fingerprint.
EmitCheck(p) ==
    /\ stage[p] \in {"direct", "worker"}
    /\ emitPc[p] = "check"
    /\ EmitGoto(p, IF p \in cancelled THEN "emit" ELSE "select")
    /\ UNCHANGED <<stage, retLen, delivered, events, cancelled>>
    /\ ProbeUnchanged

\* Faulty variant: the send on retChan does not wait for room.
EmitPushAnyway(p) ==
    /\ emitPc[p] = "select"
    /\ retLen' = retLen + 1
    /\ delivered' = delivered \cup {p}
    /\ EmitGoto(p, "emit")
    /\ UNCHANGED <<stage, events, cancelled>>
    /\ ProbeUnchanged

EmitPush(p) ==
    /\ emitPc[p] = "select"
    /\ retLen < RetCap
    /\ retLen' = retLen + 1
    /\ delivered' = delivered \cup {p}
    /\ EmitGoto(p, "emit")
    /\ UNCHANGED <<stage, events, cancelled>>
    /\ ProbeUnchanged

\* Faulty variant: the send on retChan does not watch the context.
EmitStubborn(p) == FALSE /\ UNCHANGED vars

EmitCancelled(p) ==
    /\ emitPc[p] = "select"
    /\ p \in cancelled
    /\ EmitGoto(p, "emit")
    /\ UNCHANGED <<stage, retLen, delivered, events, cancelled>>
    /\ ProbeUnchanged

EmitOpenResult(p) ==
    /\ emitPc[p] = "emit"
    /\ stage[p] \in {"direct", "worker"}
    /\ Finish(p, IF p \in delivered THEN "Open" ELSE "Aborted")
    /\ UNCHANGED emitVars
    /\ ProbeUnchanged

EmitResult(p) == EmitCheck(p) \/ EmitPush(p) \/ EmitCancelled(p) \/ EmitOpenResult(p)

Goroutine(p) ==
    \/ Dial(p) \/ DialError(p) \/ DialOpen(p) \/ TrySubmit(p)
    \/ Leave(p) \/ WorkerTake(p) \/ EmitResult(p)

\* The program reads a result.
Consume ==
    /\ retLen > 0
    /\ retLen' = retLen - 1
    /\ UNCHANGED <<stage, emitPc, delivered, events, cancelled>>
    /\ ProbeUnchanged

-----------------------------------------------------------------------------
(* Close and Wait.                                                         *)

CloseUnchanged == UNCHANGED <<stage, inflight, running, emitVars, events, waitPc, due>>

CloseStart ==
    /\ closeStep = 0
    /\ closeStep' = 1
    /\ UNCHANGED cancelled
    /\ CloseUnchanged

CloseCancel ==
    /\ closeStep = 1
    /\ closeStep' = 2
    /\ cancelled' = cancelled \cup (Probes \ Linked)
    /\ CloseUnchanged

\* Faulty variant: the pool is closed without waiting for the goroutines.
CloseWithoutWg ==
    /\ closeStep = 2
    /\ closeStep' = 3
    /\ UNCHANGED cancelled
    /\ CloseUnchanged

CloseWg ==
    /\ closeStep = 2
    /\ running = {}
    /\ closeStep' = 3
    /\ UNCHANGED cancelled
    /\ CloseUnchanged

ClosePool ==
    /\ closeStep = 3
    /\ At("jobs") = {} /\ At("worker") = {}
    /\ closeStep' = 4
    /\ UNCHANGED cancelled
    /\ CloseUnchanged

CloseSteps == CloseCancel \/ CloseWg \/ ClosePool

WaitUnchanged == UNCHANGED <<stage, inflight, running, emitVars, events, cancelled, closeStep>>

WaitCall == waitPc = "idle" /\ waitPc' = "wg" /\ due' = Accepted /\ WaitUnchanged

WaitWg == waitPc = "wg" /\ running = {} /\ waitPc' = "pool" /\ UNCHANGED due /\ WaitUnchanged

\* Faulty variant: Wait forgets the pool.
WaitNoPool == waitPc = "pool" /\ waitPc' = "returned" /\ UNCHANGED due /\ WaitUnchanged

WaitPool ==
    /\ waitPc = "pool"
    /\ At("jobs") = {} /\ At("worker") = {}
    /\ waitPc' = "returned"
    /\ UNCHANGED due
    /\ WaitUnchanged

WaitSteps == WaitWg \/ WaitPool

-----------------------------------------------------------------------------
Terminated ==
    /\ PoolClosed /\ running = {} /\ retLen = 0
    /\ waitPc \in {"idle", "returned"}
    /\ \A p \in Probes : stage[p] \in {"failed", "done"} /\ (p \in Linked => p \in cancelled)
    /\ UNCHANGED vars

Next ==
    \/ \E p \in Probes :
        \/ Scan(p) \/ Caller(p) \/ Goroutine(p)
        \/ CallerCancel(p) \/ PropagateCancel(p)
    \/ Consume
    \/ CloseStart \/ CloseSteps
    \/ WaitCall \/ WaitSteps
    \/ Terminated

Spec == Init /\ [][Next]_vars

(* Goroutines that can run do, limiters hand out their tokens, dials end    *)
(* and context.AfterFunc runs.  Nothing makes the program call or read.     *)
Fairness ==
    /\ \A p \in Probes :
        /\ WF_vars(Caller(p)) /\ WF_vars(Goroutine(p)) /\ WF_vars(Leave(p))
        /\ WF_vars(PropagateCancel(p))
    /\ WF_vars(CloseSteps) /\ WF_vars(WaitSteps)

FairSpec == Spec /\ Fairness

-----------------------------------------------------------------------------
(* Properties.                                                             *)

\* A place of inflight is taken by each call between its acquisition and its
\* go statement and by each goroutine, and by nobody else: every early return
\* and every path of the goroutine gives its place back (tcp.go:137, 163-171).
PlacesAccounted ==
    inflight = Cardinality(At("limit") \cup At("start")) + Cardinality(running)

\* When Wait returns, every probe accepted before the call was reported.
WaitCoversAccepted == waitPc = "returned" => due \subseteq Reported

\* No goroutine is about to submit to the pool once its job queue is closed:
\* "Close may only be called after every producer has stopped; the scanner's
\* Close and Wait see to this order" (worker_pool.go:55).
NoSubmitAfterClose == PoolClosed => At("open") = {}

\* The scanner keeps the promise of port.IpOption (ProbeContract).
Contract == INSTANCE ProbeContract WITH
    accepted <- Accepted, results <- delivered, closing <- IsDone, revoked <- cancelled
ImplementsContract == Contract!Spec

\* Every accepted probe gets its event, provided the program reads results.
EventuallyReported == WF_vars(Consume) => \A p \in Probes : p \in Accepted ~> p \in Reported

\* Close returns, even if nobody reads results any more.
CloseTerminates == IsDone ~> PoolClosed
=============================================================================
