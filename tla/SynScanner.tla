----------------------------- MODULE SynScanner -----------------------------
(***************************************************************************)
(* The SYN scanner (core/port/syn/syn.go): the goroutines that carry one   *)
(* accepted probe from the caller's Scan or ProbeContext to the one        *)
(* terminal event port.IpOption promises, and the Wait and Close that have *)
(* to agree with them.                                                     *)
(*                                                                         *)
(*   callers      scanContext: reserve a source port, send, report errors  *)
(*   recv         one goroutine: match SYN-ACK and RST to pending probes   *)
(*   sweeper      cleanTimeout: expire probes, re-arm sampled ones once    *)
(*   retryLoop    resend the re-armed probes                               *)
(*   handler      portProbeHandle: deliver results, or hand them to        *)
(*   workers      the fingerprint pool, which delivers them                *)
(*   Wait, Close  called by the program                                    *)
(*                                                                         *)
(* A step is one critical section, one channel operation or one test of a  *)
(* shared flag.  The links of a linkedContext (context.AfterFunc) run in   *)
(* goroutines of their own: closing the scanner cancels a ProbeContext     *)
(* probe some time later.                                                  *)
(***************************************************************************)
EXTENDS ProbeTable, Sequences

CONSTANTS
    Linked,       \* the calls of ProbeContext; the others are calls of Scan
    FingerPrint,  \* the probes whose IpOption asks for enrichment
    SampleEvery,  \* every n-th probe is sampled for a retry; 0: adaptive off
    RetryCap,     \* cap(retryChan), 64 in the code
    RetCap,       \* cap(retChan) and cap(openPortChan)
    Unread,       \* earlier results on retChan the program has not read yet
    Workers,      \* goroutines of fingerPool
    QueueSize     \* cap of its job queue

ASSUME LinkedAssumption  == Linked \subseteq Probes
ASSUME FingerAssumption  == FingerPrint \subseteq Probes
ASSUME CapsAssumption    ==
    /\ SampleEvery \in Nat
    /\ RetryCap \in Nat
    /\ RetCap \in Nat \ {0}
    /\ Unread \in 0 .. RetCap
    /\ Workers \in Nat \ {0}
    /\ QueueSize \in Nat \ {0}

Outcomes == {"Open", "Closed", "NoResponse", "Error", "Aborted"}

VARIABLES
    scan,         \* scan[p]: where the call for p is
    held,         \* held[p]: the entry the call for p dropped and will report
    sampleCount,  \* adaptive.probes, modulo SampleEvery
    wire,         \* keys a SYN was sent for: answers may come at any time
    events,       \* events[p]: the outcomes OnProbeDone has seen, in order
    recvPc, recvKey, recvProbe,           \* recv
    swPc, expired, swProbe, swOutcome,    \* cleanTimeout and its callback
    retryChan, rtPc, rtProbe, rtAbort,    \* retryLoop
    place,        \* place[p]: where an open probe is in the delivery pipeline
    emitPc,       \* emitPc[p]: progress of EmitOpenProbeResult for p
    portProbeWg,  \* the WaitGroup of the pipeline
    retLen,       \* len(retChan)
    delivered,    \* probes whose result was put on retChan
    closeStep,    \* progress of Close, see the steps below
    drained,      \* entries the table's Close has removed and not reported
    waitPc,       \* Wait
    due,          \* history: probes without event when Wait saw no pending
    dueOpen       \* history: open probes in flight at that moment

callVars  == <<scan, held, sampleCount, wire>>
recvVars  == <<recvPc, recvKey, recvProbe>>
sweepVars == <<swPc, expired, swProbe, swOutcome>>
retryVars == <<retryChan, rtPc, rtProbe, rtAbort>>
pipeVars  == <<place, emitPc, retLen, delivered>>
closeVars == <<closeStep, drained>>
waitVars  == <<waitPc, due, dueOpen>>
vars == <<tableVars, callVars, events, recvVars, sweepVars, retryVars,
          pipeVars, portProbeWg, closeVars, waitVars>>

\* The steps of Close, in order.
IsDone       == closeStep >= 1   \* isDone.Store(true)
CtxDone      == closeStep >= 2   \* ss.cancel()
HandleClosed == closeStep >= 3   \* retryWg.Wait(), handle.Close()
Drained      == closeStep >= 5   \* watchIpStatusT.Close() has emptied the table
ChanClosed   == closeStep >= 6   \* recvWg.Wait(), close(openPortChan)
PoolClosed   == closeStep = 7    \* pipeline finished, fingerPool.Close()

Accepted == {p \in Probes : srcPort[p] # NoPort}
Reported == {p \in Probes : events[p] # <<>>}

InPipe   == {p \in Probes : place[p] \in {"chan", "handler", "jobs", "worker"}}
At(s)    == {p \in Probes : place[p] = s}
InChan   == Cardinality(At("chan"))
HasRoom  == Cardinality(At("jobs")) < QueueSize

\* shouldSampleProbe's counter, modulo SampleEvery.
SampleCounts == IF SampleEvery = 0 THEN {0} ELSE 0 .. (SampleEvery - 1)

CallTypeOK ==
    /\ scan \in [Probes -> {"idle", "reserve", "send", "setRetry", "setRetryErr",
                            "drop", "emit", "sent", "failed"}]
    /\ held \in [Probes -> Probes \cup {NoProbe}]
    /\ sampleCount \in SampleCounts
    /\ wire \subseteq Keys

RecvTypeOK ==
    /\ recvPc \in {"read", "takeOpen", "takeRst", "enqueue", "abort", "closed", "exit"}
    /\ recvKey \in Keys \cup {<<>>}
    /\ recvProbe \in Probes \cup {NoProbe}

SweepTypeOK ==
    /\ swPc \in {"sleep", "finish", "rearm", "requeue", "emit", "exit"}
    /\ expired \subseteq Probes
    /\ swProbe \in Probes \cup {NoProbe}
    /\ swOutcome \in Outcomes

RetryTypeOK ==
    /\ retryChan \subseteq Probes
    /\ rtPc \in {"select", "limit", "touch", "resend", "drop", "emit", "exit"}
    /\ rtProbe \in Probes \cup {NoProbe}
    /\ rtAbort \in BOOLEAN

PipeTypeOK ==
    /\ place \in [Probes -> {"none", "chan", "handler", "jobs", "worker", "end"}]
    /\ emitPc \in [Probes -> {"check", "select", "emit"}]
    /\ retLen \in 0 .. RetCap
    /\ delivered \subseteq Probes
    /\ portProbeWg \in Int

CloseTypeOK == closeStep \in 0 .. 7 /\ drained \subseteq Probes

WaitTypeOK ==
    /\ waitPc \in {"idle", "poll", "chan", "wg", "pool", "returned"}
    /\ due \subseteq Probes
    /\ dueOpen \subseteq Probes

TypeOK ==
    /\ TableTypeOK /\ CallTypeOK
    /\ events \in [Probes -> Seq(Outcomes)]
    /\ RecvTypeOK /\ SweepTypeOK /\ RetryTypeOK
    /\ PipeTypeOK /\ CloseTypeOK /\ WaitTypeOK

Init ==
    /\ TableInit
    /\ scan = [p \in Probes |-> "idle"]
    /\ held = [p \in Probes |-> NoProbe]
    /\ sampleCount \in SampleCounts  \* probes were sent before these
    /\ wire = {}
    /\ events = [p \in Probes |-> <<>>]
    /\ recvPc = "read" /\ recvKey = <<>> /\ recvProbe = NoProbe
    /\ swPc = "sleep" /\ expired = {} /\ swProbe = NoProbe /\ swOutcome = "NoResponse"
    /\ retryChan = {} /\ rtPc = "select" /\ rtProbe = NoProbe /\ rtAbort = FALSE
    /\ place = [p \in Probes |-> "none"]
    /\ emitPc = [p \in Probes |-> "check"]
    /\ portProbeWg = 0
    /\ retLen = Unread
    /\ delivered = {}
    /\ closeStep = 0 /\ drained = {}
    /\ waitPc = "idle" /\ due = {} /\ dueOpen = {}

-----------------------------------------------------------------------------
(* Shared pieces: EmitProbeDone followed by the probe's cancelContext.     *)

Release(S)      == CancelContexts(S \cap Linked)
Emit(p, o)      == events' = [events EXCEPT ![p] = Append(@, o)]
Finish(p, o, S) == Emit(p, o) /\ Release({p} \cup S)

GotoScan(p, s)  == scan' = [scan EXCEPT ![p] = s]

-----------------------------------------------------------------------------
(* The caller's goroutine: scanContext.                                    *)

CallUnchanged == UNCHANGED <<recvVars, sweepVars, retryVars, pipeVars,
                             portProbeWg, closeVars, waitVars>>

\* isDone, host limiter, context, MAC lookup and (ProbeContext) global limiter:
\* nothing shared changes until they have all been passed, so one step tests
\* them all.  Any of them can fail: cancelled while waiting, no MAC address.
Scan(p) ==
    /\ scan[p] = "idle"
    /\ \/ ~IsDone /\ p \notin cancelled /\ GotoScan(p, "reserve") /\ UNCHANGED tableVars
       \/ GotoScan(p, "failed") /\ Release({p})
    /\ UNCHANGED <<held, sampleCount, wire, events>>
    /\ CallUnchanged

Reserve(p) ==
    /\ scan[p] = "reserve"
    /\ \/ ReserveProbe(p) /\ GotoScan(p, "send")
       \/ Exhausted(Target[p]) /\ GotoScan(p, "failed") /\ Release({p})
    /\ UNCHANGED <<held, sampleCount, wire, events>>
    /\ CallUnchanged

\* shouldSampleProbe counts every probe; the closure of a sampled one is stored
\* only after the send.  send refuses once isDone, and a write can fail anyway.
Sampled == SampleEvery > 0 /\ sampleCount + 1 = SampleEvery

Send(p) ==
    /\ scan[p] = "send"
    /\ sampleCount' = IF SampleEvery = 0 THEN 0 ELSE (sampleCount + 1) % SampleEvery
    /\ \/ /\ ~IsDone
          /\ wire' = wire \cup {Key(p)}
          /\ GotoScan(p, IF Sampled THEN "setRetry" ELSE "sent")
       \/ /\ UNCHANGED wire
          /\ GotoScan(p, IF Sampled THEN "setRetryErr" ELSE "drop")
    /\ UNCHANGED <<tableVars, held, events>>
    /\ CallUnchanged

StoreRetry(p) ==
    /\ \/ scan[p] = "setRetry" /\ GotoScan(p, "sent")
       \/ scan[p] = "setRetryErr" /\ GotoScan(p, "drop")
    /\ SetRetry(Key(p))
    /\ UNCHANGED <<held, sampleCount, wire, events>>
    /\ CallUnchanged

\* After a failed send: take the entry back, unless someone else has it.
DropUnsent(p) ==
    /\ scan[p] = "drop"
    /\ IF probes[Key(p)] = NoProbe
       THEN /\ GotoScan(p, "failed")
            /\ Release({p})
            /\ UNCHANGED held
       ELSE /\ GotoScan(p, "emit")
            /\ DropProbe(Key(p), probes[Key(p)])
            /\ held' = [held EXCEPT ![p] = probes[Key(p)]]
    /\ UNCHANGED <<sampleCount, wire, events>>
    /\ CallUnchanged

\* Faulty variant: a failed send is reported as aborted.
EmitSendAborted(p) ==
    /\ scan[p] = "emit"
    /\ GotoScan(p, "failed")
    /\ Emit(held[p], "Aborted") /\ UNCHANGED tableVars
    /\ held' = [held EXCEPT ![p] = NoProbe]
    /\ UNCHANGED <<sampleCount, wire>>
    /\ CallUnchanged

EmitSendError(p) ==
    /\ scan[p] = "emit"
    /\ GotoScan(p, "failed")
    /\ Finish(held[p], "Error", {p})
    /\ held' = [held EXCEPT ![p] = NoProbe]
    /\ UNCHANGED <<sampleCount, wire>>
    /\ CallUnchanged

\* The context handed to ProbeContext is cancelled by its owner.
CallerCancel(p) ==
    /\ p \in Linked \ cancelled
    /\ scan[p] # "idle"
    /\ CancelContexts({p})
    /\ UNCHANGED <<callVars, events>>
    /\ CallUnchanged

\* context.AfterFunc of linkedContext, after Close cancelled the scanner's.
PropagateCancel(p) ==
    /\ CtxDone
    /\ p \in Linked \ cancelled
    /\ scan[p] # "idle"
    /\ CancelContexts({p})
    /\ UNCHANGED <<callVars, events>>
    /\ CallUnchanged

Caller(p) ==
    \/ Scan(p) \/ Reserve(p) \/ Send(p)
    \/ StoreRetry(p) \/ DropUnsent(p) \/ EmitSendError(p)

-----------------------------------------------------------------------------
(* recv: one goroutine, one packet at a time.                              *)

RecvUnchanged == UNCHANGED <<callVars, sweepVars, retryVars, closeVars, waitVars>>

\* A packet for key k is read and isDone is not yet set.  An open answer is
\* counted in portProbeWg before its probe leaves the table.
RecvPacket(k) ==
    /\ recvPc = "read"
    /\ ~IsDone
    /\ recvKey' = k
    /\ \/ recvPc' = "takeOpen" /\ portProbeWg' = portProbeWg + 1
       \/ recvPc' = "takeRst" /\ UNCHANGED portProbeWg
    /\ UNCHANGED <<recvProbe, tableVars, events, pipeVars>>
    /\ RecvUnchanged

\* Close's own packet, any other packet, or EOF from the closed handle.
RecvStop ==
    /\ recvPc = "read"
    /\ IsDone
    /\ recvPc' = "exit"
    /\ UNCHANGED <<recvKey, recvProbe, tableVars, events, pipeVars, portProbeWg>>
    /\ RecvUnchanged

TakeOpen ==
    /\ recvPc = "takeOpen"
    /\ IF probes[recvKey] = NoProbe
       THEN /\ recvPc' = "read"
            /\ portProbeWg' = portProbeWg - 1
            /\ UNCHANGED <<recvProbe, tableVars>>
       ELSE /\ recvPc' = "enqueue"
            /\ TakeProbe(recvKey, probes[recvKey])
            /\ recvProbe' = probes[recvKey]
            /\ UNCHANGED portProbeWg
    /\ recvKey' = <<>>
    /\ UNCHANGED <<events, pipeVars>>
    /\ RecvUnchanged

TakeRst ==
    /\ recvPc = "takeRst"
    /\ IF probes[recvKey] = NoProbe
       THEN /\ recvPc' = "read"
            /\ UNCHANGED <<recvProbe, tableVars>>
       ELSE /\ recvPc' = "closed"
            /\ TakeProbe(recvKey, probes[recvKey])
            /\ recvProbe' = probes[recvKey]
    /\ recvKey' = <<>>
    /\ UNCHANGED <<events, pipeVars, portProbeWg>>
    /\ RecvUnchanged

\* Faulty variant: the hand-over to openPortChan already ends the count.
EnqueueAndDone ==
    /\ recvPc = "enqueue"
    /\ InChan < RetCap
    /\ place' = [place EXCEPT ![recvProbe] = "chan"]
    /\ recvPc' = "read"
    /\ recvProbe' = NoProbe
    /\ portProbeWg' = portProbeWg - 1
    /\ UNCHANGED <<recvKey, tableVars, events, emitPc, retLen, delivered>>
    /\ RecvUnchanged

\* enqueueTrackedOpenPort: into openPortChan while it has room ...
EnqueueOpen ==
    /\ recvPc = "enqueue"
    /\ InChan < RetCap
    /\ place' = [place EXCEPT ![recvProbe] = "chan"]
    /\ recvPc' = "read"
    /\ recvProbe' = NoProbe
    /\ UNCHANGED <<recvKey, tableVars, events, emitPc, retLen, delivered, portProbeWg>>
    /\ RecvUnchanged

\* Faulty variant: giving up forgets Done.
EnqueueGiveUp ==
    /\ recvPc = "enqueue"
    /\ CtxDone
    /\ recvPc' = "abort"
    /\ UNCHANGED <<recvKey, recvProbe, tableVars, events, pipeVars, portProbeWg>>
    /\ RecvUnchanged

\* ... or give up once the scanner's context is done.
EnqueueCancelled ==
    /\ recvPc = "enqueue"
    /\ CtxDone
    /\ portProbeWg' = portProbeWg - 1
    /\ recvPc' = "abort"
    /\ UNCHANGED <<recvKey, recvProbe, tableVars, events, pipeVars>>
    /\ RecvUnchanged

EmitRecv ==
    /\ \/ recvPc = "abort" /\ recvPc' = "exit" /\ Finish(recvProbe, "Aborted", {})
       \/ recvPc = "closed" /\ recvPc' = "read" /\ Finish(recvProbe, "Closed", {})
    /\ recvProbe' = NoProbe
    /\ UNCHANGED <<recvKey, pipeVars, portProbeWg>>
    /\ RecvUnchanged

Recv == RecvStop \/ TakeOpen \/ TakeRst \/ EnqueueOpen \/ EnqueueCancelled \/ EmitRecv

-----------------------------------------------------------------------------
(* cleanTimeout, finishExpiredProbe and handleProbeTimeout.                *)

SweepUnchanged == UNCHANGED <<callVars, recvVars, rtPc, rtProbe, rtAbort, pipeVars,
                              portProbeWg, closeVars, waitVars>>

\* The loop head tests isDone in the same step as the work before it.
NextRound(S) == IF S # {} THEN "finish" ELSE IF tableDone THEN "exit" ELSE "sleep"

Sweep ==
    /\ swPc = "sleep"
    /\ expired' = Expired
    /\ RemoveAll(Expired)
    /\ swPc' = NextRound(Expired)
    /\ UNCHANGED <<swProbe, swOutcome, events, retryChan>>
    /\ SweepUnchanged

\* Faulty variant: a retried probe is re-armed again.
FinishExpiredAgain(p) ==
    /\ swPc = "finish"
    /\ p \in expired
    /\ swProbe' = p
    /\ LET aborted == tableDone \/ p \in cancelled
       IN  /\ swPc' = IF ~aborted /\ p \in retry THEN "rearm" ELSE "emit"
           /\ swOutcome' = IF aborted THEN "Aborted" ELSE "NoResponse"
    /\ UNCHANGED <<expired, tableVars, events, retryChan>>
    /\ SweepUnchanged

\* The outcome is settled before it is emitted; Close may start in between.
FinishExpired(p) ==
    /\ swPc = "finish"
    /\ p \in expired
    /\ swProbe' = p
    /\ LET aborted == tableDone \/ p \in cancelled
           again   == ~aborted /\ p \notin retried /\ p \in retry
       IN  /\ swPc' = IF again THEN "rearm" ELSE "emit"
           /\ swOutcome' = IF aborted THEN "Aborted" ELSE "NoResponse"
    /\ UNCHANGED <<expired, tableVars, events, retryChan>>
    /\ SweepUnchanged

Rearm ==
    /\ swPc = "rearm"
    /\ IF CanRearm(swProbe)
       THEN /\ RearmProbe(swProbe)
            /\ expired' = expired \ {swProbe}
            /\ swPc' = "requeue"
       ELSE /\ swPc' = "emit"
            /\ UNCHANGED <<expired, tableVars>>
    /\ UNCHANGED <<swProbe, swOutcome, events, retryChan>>
    /\ SweepUnchanged

\* A full queue: the entry is dropped, and whether it was still there ignored.
Requeue ==
    /\ swPc = "requeue"
    /\ IF Cardinality(retryChan) < RetryCap
       THEN /\ retryChan' = retryChan \cup {swProbe}
            /\ swProbe' = NoProbe
            /\ swPc' = NextRound(expired)
            /\ UNCHANGED tableVars
       ELSE /\ swPc' = "emit"
            /\ RemoveEntry(Key(swProbe))
            /\ UNCHANGED <<nextSrcPort, srcPort, sentAt, retried, retry,
                           cancelled, tableDone, retryChan, swProbe>>
    /\ UNCHANGED <<expired, swOutcome, events>>
    /\ SweepUnchanged

EmitExpired ==
    /\ swPc = "emit"
    /\ Finish(swProbe, swOutcome, {})
    /\ expired' = expired \ {swProbe}
    /\ swProbe' = NoProbe
    /\ swOutcome' = "NoResponse"
    /\ swPc' = NextRound(expired \ {swProbe})
    /\ UNCHANGED retryChan
    /\ SweepUnchanged

Sweeper == Sweep \/ (\E p \in Probes : FinishExpired(p)) \/ Rearm \/ Requeue \/ EmitExpired

-----------------------------------------------------------------------------
(* retryLoop and finishRetryError.                                         *)

RetryUnchanged == UNCHANGED <<callVars, recvVars, sweepVars, pipeVars,
                              portProbeWg, closeVars, waitVars>>

RetryExit ==
    /\ rtPc = "select"
    /\ CtxDone
    /\ rtPc' = "exit"
    /\ UNCHANGED <<tableVars, events, retryChan, rtProbe, rtAbort>>
    /\ RetryUnchanged

RetryReceive(p) ==
    /\ rtPc = "select"
    /\ p \in retryChan
    /\ retryChan' = retryChan \ {p}
    /\ rtProbe' = p
    /\ rtPc' = "limit"
    /\ UNCHANGED <<tableVars, events, rtAbort>>
    /\ RetryUnchanged

\* waitGlobalLimiter under the probe's own context: a ProbeContext deadline can
\* make it fail before the context does.
RetryLimit ==
    /\ rtPc = "limit"
    /\ \/ rtProbe \notin cancelled /\ rtPc' = "touch" /\ UNCHANGED rtAbort
       \/ rtProbe \in cancelled \cup Linked /\ rtPc' = "drop"
          /\ rtAbort' = (rtProbe \in cancelled)
    /\ UNCHANGED <<tableVars, events, retryChan, rtProbe>>
    /\ RetryUnchanged

RetryTouch ==
    /\ rtPc = "touch"
    /\ IF probes[Key(rtProbe)] = NoProbe
       THEN rtPc' = "select" /\ rtProbe' = NoProbe /\ UNCHANGED tableVars
       ELSE /\ rtPc' = "resend"
            /\ TouchProbe(Key(rtProbe), probes[Key(rtProbe)])
            /\ UNCHANGED rtProbe
    /\ UNCHANGED <<events, retryChan, rtAbort>>
    /\ RetryUnchanged

\* send refuses once isDone, with the context's error when that is done; a
\* write can fail anyway.
Resend ==
    /\ rtPc = "resend"
    /\ \/ /\ ~IsDone
          /\ wire' = wire \cup {Key(rtProbe)}
          /\ rtPc' = "select" /\ rtProbe' = NoProbe
          /\ UNCHANGED rtAbort
       \/ /\ rtPc' = "drop"
          /\ rtAbort' \in {FALSE, CtxDone}
          /\ UNCHANGED <<wire, rtProbe>>
    /\ UNCHANGED <<tableVars, scan, held, sampleCount, events, retryChan,
                   recvVars, sweepVars, pipeVars, portProbeWg, closeVars, waitVars>>

\* Faulty variant: the error is reported whether or not DropProbe found it.
RetryDropBlind ==
    /\ rtPc = "drop"
    /\ rtPc' = "emit"
    /\ RemoveEntry(Key(rtProbe))
    /\ UNCHANGED <<nextSrcPort, srcPort, sentAt, retried, retry, cancelled, tableDone,
                   rtProbe, rtAbort, events, retryChan>>
    /\ RetryUnchanged

RetryDrop ==
    /\ rtPc = "drop"
    /\ IF probes[Key(rtProbe)] = NoProbe
       THEN /\ rtPc' = "select"
            /\ rtProbe' = NoProbe
            /\ rtAbort' = FALSE
            /\ UNCHANGED tableVars
       ELSE /\ rtPc' = "emit"
            /\ DropProbe(Key(rtProbe), probes[Key(rtProbe)])
            /\ rtProbe' = probes[Key(rtProbe)]
            /\ rtAbort' = (rtAbort \/ probes[Key(rtProbe)] \in cancelled)
    /\ UNCHANGED <<events, retryChan>>
    /\ RetryUnchanged

EmitRetryError ==
    /\ rtPc = "emit"
    /\ Finish(rtProbe, IF rtAbort THEN "Aborted" ELSE "Error", {})
    /\ rtPc' = "select"
    /\ rtProbe' = NoProbe
    /\ rtAbort' = FALSE
    /\ UNCHANGED retryChan
    /\ RetryUnchanged

RetryLoop ==
    \/ RetryExit \/ (\E p \in Probes : RetryReceive(p)) \/ RetryLimit
    \/ RetryTouch \/ Resend \/ RetryDrop \/ EmitRetryError

-----------------------------------------------------------------------------
(* portProbeHandle, the fingerprint pool and port.EmitOpenProbeResult.     *)

PipeUnchanged == UNCHANGED <<callVars, recvVars, sweepVars, retryVars, closeVars, waitVars>>

Move(p, s)   == place' = [place EXCEPT ![p] = s]
EmitGoto(p, s) == emitPc' = [emitPc EXCEPT ![p] = s]

\* The handler is one goroutine: it takes a probe when it has none.
HandlerTake(p) ==
    /\ place[p] = "chan"
    /\ At("handler") = {}
    /\ Move(p, "handler")
    /\ UNCHANGED <<tableVars, events, emitPc, retLen, delivered, portProbeWg>>
    /\ PipeUnchanged

\* TrySubmit never blocks: a full queue sends the result on without enrichment.
TrySubmit(p) ==
    /\ place[p] = "handler" /\ emitPc[p] = "check"
    /\ p \in FingerPrint
    /\ HasRoom
    /\ Move(p, "jobs")
    /\ UNCHANGED <<tableVars, events, emitPc, retLen, delivered, portProbeWg>>
    /\ PipeUnchanged

WorkerTake(p) ==
    /\ place[p] = "jobs"
    /\ Cardinality(At("worker")) < Workers
    /\ Move(p, "worker")
    /\ UNCHANGED <<tableVars, events, emitPc, retLen, delivered, portProbeWg>>
    /\ PipeUnchanged

\* EmitOpenProbeResult tests the probe's context first ...
EmitCheck(p) ==
    /\ emitPc[p] = "check"
    /\ \/ place[p] = "worker"
       \/ place[p] = "handler" /\ (p \notin FingerPrint \/ ~HasRoom)
    /\ EmitGoto(p, IF p \in cancelled THEN "emit" ELSE "select")
    /\ UNCHANGED <<tableVars, events, place, retLen, delivered, portProbeWg>>
    /\ PipeUnchanged

\* ... then waits for room on retChan ...
\* Faulty variant: the result goes out without waiting for room.
EmitPushAnyway(p) ==
    /\ emitPc[p] = "select"
    /\ retLen' = retLen + 1
    /\ delivered' = delivered \cup {p}
    /\ EmitGoto(p, "emit")
    /\ UNCHANGED <<tableVars, events, place, portProbeWg>>
    /\ PipeUnchanged

EmitPush(p) ==
    /\ emitPc[p] = "select"
    /\ retLen < RetCap
    /\ retLen' = retLen + 1
    /\ delivered' = delivered \cup {p}
    /\ EmitGoto(p, "emit")
    /\ UNCHANGED <<tableVars, events, place, portProbeWg>>
    /\ PipeUnchanged

\* Faulty variant: the send on retChan does not watch the context.
EmitStubborn(p) == FALSE /\ UNCHANGED vars

\* ... or for the context.
EmitCancelled(p) ==
    /\ emitPc[p] = "select"
    /\ p \in cancelled
    /\ EmitGoto(p, "emit")
    /\ UNCHANGED <<tableVars, events, place, retLen, delivered, portProbeWg>>
    /\ PipeUnchanged

\* Faulty variant: a result that was not delivered is reported open.
EmitAlwaysOpen(p) ==
    /\ emitPc[p] = "emit"
    /\ p \in InPipe
    /\ Finish(p, "Open", {})
    /\ Move(p, "end")
    /\ portProbeWg' = portProbeWg - 1
    /\ UNCHANGED <<emitPc, retLen, delivered>>
    /\ PipeUnchanged

\* The event, then cancelContext and portProbeWg.Done().
EmitOpenResult(p) ==
    /\ emitPc[p] = "emit"
    /\ p \in InPipe
    /\ Finish(p, IF p \in delivered THEN "Open" ELSE "Aborted", {})
    /\ Move(p, "end")
    /\ portProbeWg' = portProbeWg - 1
    /\ UNCHANGED <<emitPc, retLen, delivered>>
    /\ PipeUnchanged

Pipeline(p) == HandlerTake(p) \/ TrySubmit(p) \/ WorkerTake(p)
EmitResult(p) == EmitCheck(p) \/ EmitPush(p) \/ EmitCancelled(p) \/ EmitOpenResult(p)

\* The program reads a result.
Consume ==
    /\ retLen > 0
    /\ retLen' = retLen - 1
    /\ UNCHANGED <<tableVars, events, place, emitPc, delivered, portProbeWg>>
    /\ PipeUnchanged

-----------------------------------------------------------------------------
(* Close and Wait.                                                         *)

CloseUnchanged == UNCHANGED <<callVars, recvVars, sweepVars, retryVars, pipeVars,
                              portProbeWg, waitVars>>

CloseStart ==
    /\ closeStep = 0
    /\ closeStep' = 1
    /\ UNCHANGED <<tableVars, events, drained>>
    /\ CloseUnchanged

CloseCancel ==
    /\ closeStep = 1
    /\ closeStep' = 2
    /\ CancelContexts(Probes \ Linked)
    /\ UNCHANGED <<events, drained>>
    /\ CloseUnchanged

CloseHandle ==
    /\ closeStep = 2
    /\ rtPc = "exit"
    /\ closeStep' = 3
    /\ UNCHANGED <<tableVars, events, drained>>
    /\ CloseUnchanged

CloseTable ==
    /\ closeStep = 3
    /\ closeStep' = 4
    /\ MarkDone
    /\ UNCHANGED <<events, drained>>
    /\ CloseUnchanged

CloseDrain ==
    /\ closeStep = 4
    /\ closeStep' = 5
    /\ drained' = Pending
    /\ RemoveAll(Pending)
    /\ UNCHANGED events
    /\ CloseUnchanged

CloseEmit(p) ==
    /\ p \in drained
    /\ Finish(p, "Aborted", {})
    /\ drained' = drained \ {p}
    /\ UNCHANGED closeStep
    /\ CloseUnchanged

\* Faulty variant: openPortChan is closed without waiting for recv.
CloseChanEarly ==
    /\ closeStep = 5
    /\ drained = {}
    /\ closeStep' = 6
    /\ UNCHANGED <<tableVars, events, drained>>
    /\ CloseUnchanged

CloseChan ==
    /\ closeStep = 5
    /\ drained = {}
    /\ recvPc = "exit"
    /\ closeStep' = 6
    /\ UNCHANGED <<tableVars, events, drained>>
    /\ CloseUnchanged

\* probeLoopWg: openPortChan is empty and the handler idle; portProbeWg; jobsWG.
ClosePool ==
    /\ closeStep = 6
    /\ At("chan") = {} /\ At("handler") = {}
    /\ portProbeWg = 0
    /\ At("jobs") = {} /\ At("worker") = {}
    /\ closeStep' = 7
    /\ UNCHANGED <<tableVars, events, drained>>
    /\ CloseUnchanged

CloseSteps ==
    \/ CloseCancel \/ CloseHandle \/ CloseTable \/ CloseDrain
    \/ (\E p \in Probes : CloseEmit(p)) \/ CloseChan \/ ClosePool

WaitUnchanged == UNCHANGED <<tableVars, callVars, events, recvVars, sweepVars,
                             retryVars, pipeVars, portProbeWg, closeVars>>

WaitCall == waitPc = "idle" /\ waitPc' = "poll" /\ UNCHANGED <<due, dueOpen>> /\ WaitUnchanged

OpenInFlight == InPipe \cup (IF recvPc = "enqueue" THEN {recvProbe} ELSE {})

WaitTable ==
    /\ waitPc = "poll"
    /\ IsEmpty
    /\ waitPc' = "chan"
    /\ due' = Accepted \ Reported
    /\ dueOpen' = OpenInFlight
    /\ WaitUnchanged

\* The deadline of Wait passes with probes still pending.
WaitDeadline ==
    /\ waitPc = "poll"
    /\ ~IsEmpty
    /\ waitPc' = "chan"
    /\ dueOpen' = OpenInFlight
    /\ UNCHANGED due
    /\ WaitUnchanged

WaitChan ==
    /\ waitPc = "chan"
    /\ InChan = 0
    /\ waitPc' = "wg"
    /\ UNCHANGED <<due, dueOpen>>
    /\ WaitUnchanged

WaitGroups ==
    /\ \/ waitPc = "wg" /\ portProbeWg = 0 /\ waitPc' = "pool"
       \/ waitPc = "pool" /\ At("jobs") = {} /\ At("worker") = {} /\ waitPc' = "returned"
    /\ UNCHANGED <<due, dueOpen>>
    /\ WaitUnchanged

WaitSteps == WaitTable \/ WaitDeadline \/ WaitChan \/ WaitGroups

-----------------------------------------------------------------------------
Clock(p) ==
    /\ Elapse(p)
    /\ UNCHANGED <<callVars, events>>
    /\ CallUnchanged

\* Everything has stopped.
Terminated ==
    /\ PoolClosed /\ retLen = 0
    /\ swPc = "exit" /\ waitPc \in {"idle", "returned"}
    /\ \A p \in Probes : scan[p] \in {"sent", "failed"} /\ (p \in Linked => p \in cancelled)
    /\ UNCHANGED vars

\* The goroutines of the scanner, its callers and its surroundings.
Scanning ==
    \/ \E p \in Probes : \/ Caller(p) \/ CallerCancel(p) \/ Clock(p)
                         \/ Pipeline(p) \/ EmitResult(p)
    \/ \E k \in wire : RecvPacket(k)
    \/ Recv \/ Sweeper \/ RetryLoop \/ Consume

Closing ==
    \/ CloseStart \/ CloseSteps \/ (\E p \in Probes : PropagateCancel(p))
    \/ Terminated

Waiting == WaitCall \/ WaitSteps

Next == Scanning \/ Closing \/ Waiting

Spec == Init /\ [][Next]_vars

(* Every goroutine keeps running, time passes, and context.AfterFunc runs.  *)
(* Nothing makes the program call Scan, Wait or Close, read a result or     *)
(* cancel, nor a target answer.  recv leaves its blocking read for certain  *)
(* only when the handle is closed.                                          *)
Fairness ==
    /\ \A p \in Probes :
        /\ WF_vars(Reserve(p) \/ Send(p) \/ StoreRetry(p) \/ DropUnsent(p) \/ EmitSendError(p))
        /\ WF_vars(Pipeline(p) \/ EmitResult(p))
        /\ WF_vars(Clock(p)) /\ WF_vars(PropagateCancel(p))
    /\ WF_vars(TakeOpen \/ TakeRst \/ EnqueueOpen \/ EnqueueCancelled \/ EmitRecv)
    /\ WF_vars(HandleClosed /\ RecvStop)
    /\ WF_vars(Sweeper) /\ WF_vars(RetryLoop)
    /\ WF_vars(CloseSteps) /\ WF_vars(WaitSteps)

FairSpec == Spec /\ Fairness

-----------------------------------------------------------------------------
(* Properties.                                                             *)

\* The hands a probe's entry is in: the table, callers about to report a send
\* error, recv, the sweeper's batch, retryLoop, the pipeline, the table's Close.
One(b) == IF b THEN 1 ELSE 0
Holders(p) ==
    One(p \in Pending)
    + Cardinality({q \in Probes : scan[q] = "emit" /\ held[q] = p})
    + One(recvPc \in {"enqueue", "abort", "closed"} /\ recvProbe = p)
    + One(p \in expired)
    + One(rtPc = "emit" /\ rtProbe = p)
    + One(p \in InPipe)
    + One(p \in drained)

\* Each accepted probe without an event is in exactly one pair of hands, and
\* any other probe in none: however the answer, the timeout, the retry and
\* Close interleave (watchIpStatus.go's table and everyone who takes from it),
\* no probe is forgotten and none is about to be reported twice.
OneHolder == \A p \in Probes : Holders(p) = One(p \in Accepted \ Reported)

\* OnProbeDone is called at most once for a probe (port.go:255).
AtMostOneEvent == \A p \in Probes : Len(events[p]) <= 1

\* A probe re-armed for its retry and still waiting in retryChan or for the
\* limiter is not timed out before it was sent again (syn.go:530).
QueuedRetryNotTimedOut ==
    \A p \in retryChan \cup (IF rtPc = "limit" THEN {rtProbe} ELSE {}) :
        p \in expired => p \in cancelled

\* An entry that left the table comes back at most once (RearmProbe).
RearmedOnce == [][
    \A p \in Accepted : p \notin Pending /\ p \in Pending' => p \notin retried]_vars

\* portProbeWg counts the open answers between the packet and the event, so
\* that Wait and Close, which wait for zero, wait for all of them.
WgCountsOpenPorts ==
    portProbeWg = Cardinality(InPipe) + (IF recvPc \in {"takeOpen", "enqueue"} THEN 1 ELSE 0)

\* No goroutine can still send on openPortChan or on the pool's job queue when
\* Close closes it, and after Close nothing is put on retChan, which the
\* program closes next (syn.go:472-478).
ChannelsOutliveSenders ==
    /\ ChanClosed => recvPc = "exit"
    /\ PoolClosed => InPipe = {}

\* Unless the scanner is closed under it, Wait returns only after every open
\* port that had left the table when Wait saw it empty has its event.
WaitCoversOpenPorts ==
    waitPc = "returned" /\ ~CtxDone => dueOpen \subseteq Reported

\* The scanner keeps the promise of port.IpOption (ProbeContract).
Contract == INSTANCE ProbeContract WITH
    accepted <- Accepted, results <- delivered, closing <- IsDone, revoked <- cancelled
ImplementsContract == Contract!Spec

\* Every accepted probe gets its event, provided the program reads results.
EventuallyReported ==
    WF_vars(Consume) => \A p \in Probes : p \in Accepted ~> p \in Reported

\* Close returns, even if nobody reads results any more.
CloseTerminates == IsDone ~> PoolClosed

\* What syn_test.go:455 expects of Wait: the pending probes it waited for have
\* their event when it returns.
WaitReportsPending == waitPc = "returned" /\ ~IsDone => due \subseteq Reported

\* What the comment at watchIpStatus.go:232 promises: once the table is closed,
\* a probe that had left it is reported as aborted.
ClosedMeansAborted == [][
    tableDone => \A p \in Probes :
        events'[p] # events[p] => events'[p] # Append(events[p], "NoResponse")]_vars
=============================================================================
