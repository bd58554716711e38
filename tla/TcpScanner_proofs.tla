-------------------------- MODULE TcpScanner_proofs --------------------------
(***************************************************************************)
(* Proofs about TcpScanner, for every set of calls, bound on the dials in  *)
(* flight, result channel and worker pool: its invariants, that it keeps   *)
(* the promise of ProbeContract, and that calls of Scan never submit to a  *)
(* closed pool.                                                            *)
(***************************************************************************)
EXTENDS TcpScanner, FiniteSetTheorems, TLAPS

-----------------------------------------------------------------------------
(* The inductive invariant.  A probe keeps its goroutine until it is       *)
(* reported or handed to the pool; the set due of Wait shrinks in step.    *)

Starting == At("limit") \cup At("start")

HandedOff == {"jobs", "worker", "done"}

RunInv ==
    /\ running \subseteq Accepted
    /\ \A p \in Accepted : stage[p] \in HandedOff \/ p \in running

EmitInv ==
    /\ \A p \in Probes : emitPc[p] = "select" => stage[p] \in {"direct", "worker"}
    /\ At("done") \subseteq Reported

WaitInv ==
    /\ waitPc = "wg" => due \subseteq Accepted
    /\ waitPc = "pool" => \A p \in due : stage[p] \in HandedOff
    /\ waitPc = "returned" => due \subseteq At("done")

IInv == TypeOK /\ RunInv /\ EmitInv /\ WaitInv /\ PlacesAccounted

-----------------------------------------------------------------------------
LEMMA FiniteParts ==
    ASSUME TypeOK
    PROVE  /\ IsFiniteSet(Starting) /\ IsFiniteSet(running)
           /\ Cardinality(Starting) \in Nat /\ Cardinality(running) \in Nat
<1>1. Starting \subseteq Probes /\ running \subseteq Probes
  BY DEF Starting, At, TypeOK
<1> QED BY <1>1, ProbesAssumption, FS_Subset, FS_CardinalityType

LEMMA InitInv == Init => IInv
<1> SUFFICES ASSUME Init PROVE IInv
  OBVIOUS
<1>1. TypeOK
  <2>1. \A p \in Probes : events[p] \in Seq(Outcomes)
    BY DEF Init
  <2> QED BY <2>1, CapsAssumption DEF Init, TypeOK, CallStages
<1>2. RunInv /\ EmitInv /\ WaitInv
  BY DEF Init, RunInv, EmitInv, WaitInv, Accepted, ProbeStages, At
<1>3. PlacesAccounted
  <2>1. Starting = {} /\ running = {}
    BY DEF Init, Starting, At
  <2> QED BY <2>1, FS_EmptySet DEF Init, PlacesAccounted, Starting
<1> QED BY <1>1, <1>2, <1>3 DEF IInv

-----------------------------------------------------------------------------
(* The caller.                                                             *)

\* A step of a call that accepts nothing disturbs no goroutine.
LEMMA CallFrame ==
    ASSUME IInv, NEW p \in Probes, NEW s \in CallStages, stage[p] \in CallStages,
           Goto(p, s), CallUnchanged, TypeOK'
    PROVE  RunInv' /\ EmitInv' /\ WaitInv'
<1> USE DEF IInv, TypeOK, Goto, CallUnchanged, emitVars, CallStages, ProbeStages
<1>1. Accepted' = Accepted /\ p \notin Accepted
  BY DEF Accepted
<1>2. RunInv'
  BY <1>1 DEF RunInv, Accepted, HandedOff
<1>3. EmitInv'
  BY DEF EmitInv, At, Reported
<1>4. WaitInv'
  BY <1>1 DEF WaitInv, At, HandedOff
<1> QED BY <1>2, <1>3, <1>4

\* A step that takes a call from one set of stages to another.
LEMMA CallKeepsPlace ==
    ASSUME IInv, NEW p \in Probes, NEW s \in CallStages, stage[p] \in CallStages,
           Goto(p, s), CallUnchanged, TypeOK', UNCHANGED inflight,
           s \in {"limit", "start"} <=> stage[p] \in {"limit", "start"}
    PROVE  IInv'
<1>1. Starting' = Starting /\ running' = running
  BY DEF IInv, TypeOK, Goto, CallUnchanged, Starting, At, CallStages
<1>2. PlacesAccounted'
  BY <1>1 DEF IInv, PlacesAccounted, Starting
<1> QED BY <1>2, CallFrame DEF IInv

LEMMA ScanStep ==
    ASSUME IInv, NEW p \in Probes, Scan(p) \/ GiveUpPlace(p) \/ PassLimiters(p)
    PROVE  IInv'
<1>1. TypeOK'
  BY DEF IInv, TypeOK, Scan, GiveUpPlace, PassLimiters, Goto, ProbeCancel, CallUnchanged,
         emitVars, CallStages
<1>2. CASE Scan(p)
  <2>1. PICK s \in {"failed", "queue"} : Goto(p, s)
    BY <1>2 DEF Scan
  <2> QED BY <1>1, <1>2, <2>1, CallKeepsPlace DEF Scan, CallStages
<1>3. CASE GiveUpPlace(p)
  BY <1>1, <1>3, CallKeepsPlace DEF GiveUpPlace, CallStages
<1>4. CASE PassLimiters(p)
  BY <1>1, <1>4, CallKeepsPlace DEF PassLimiters, CallStages
<1> QED BY <1>2, <1>3, <1>4

LEMMA TakePlaceStep ==
    ASSUME IInv, NEW p \in Probes, TakePlace(p)
    PROVE  IInv'
<1> USE DEF TakePlace, Goto, CallUnchanged
<1>1. TypeOK'
  BY CapsAssumption DEF IInv, TypeOK, emitVars, CallStages
<1>2. PlacesAccounted'
  <2>1. Starting' = Starting \cup {p} /\ p \notin Starting /\ running' = running
    BY DEF IInv, TypeOK, Starting, At
  <2>2. Cardinality(Starting') = Cardinality(Starting) + 1
    BY <2>1, FiniteParts, FS_AddElement DEF IInv
  <2> QED BY <2>1, <2>2, FiniteParts DEF IInv, PlacesAccounted, Starting
<1> QED BY <1>1, <1>2, CallFrame DEF IInv, CallStages

LEMMA LimiterErrorStep ==
    ASSUME IInv, NEW p \in Probes, LimiterError(p)
    PROVE  IInv'
<1> USE DEF LimiterError, Goto, CallUnchanged
<1>1. /\ Starting' = Starting \ {p} /\ p \in Starting /\ running' = running
      /\ Cardinality(Starting') = Cardinality(Starting) - 1
  <2>1. Starting' = Starting \ {p} /\ p \in Starting /\ running' = running
    BY DEF IInv, TypeOK, Starting, At
  <2> QED BY <2>1, FiniteParts, FS_RemoveElement DEF IInv
<1>2. inflight > 0
  <2>1. Cardinality(Starting) # 0
    BY <1>1, FiniteParts, FS_EmptySet DEF IInv
  <2> QED BY <2>1, FiniteParts DEF IInv, PlacesAccounted, Starting
<1>3. TypeOK'
  BY <1>2, CapsAssumption DEF IInv, TypeOK, emitVars, CallStages, ProbeCancel
<1>4. PlacesAccounted'
  BY <1>1, FiniteParts DEF IInv, PlacesAccounted, Starting
<1> QED BY <1>3, <1>4, CallFrame DEF IInv, CallStages

\* The place passes from the call to its goroutine.
LEMMA StartStep ==
    ASSUME IInv, NEW p \in Probes, Start(p)
    PROVE  IInv'
<1> USE DEF Start, Goto
<1>1. TypeOK'
  BY DEF IInv, TypeOK, emitVars, ProbeStages
<1>2. Accepted' = Accepted \cup {p} /\ p \notin Accepted
  BY DEF IInv, TypeOK, Accepted, ProbeStages
<1>3. RunInv'
  BY <1>2 DEF IInv, TypeOK, RunInv, Accepted, HandedOff
<1>4. EmitInv'
  BY DEF IInv, TypeOK, EmitInv, At, Reported, emitVars
<1>5. WaitInv'
  BY <1>2 DEF IInv, TypeOK, WaitInv, At, HandedOff
<1>6. PlacesAccounted'
  <2>1. /\ Starting' = Starting \ {p} /\ p \in Starting
        /\ running' = running \cup {p} /\ p \notin running
    BY <1>2 DEF IInv, TypeOK, Starting, At, RunInv
  <2>2. Cardinality(Starting') = Cardinality(Starting) - 1
    BY <2>1, FiniteParts, FS_RemoveElement DEF IInv
  <2>3. Cardinality(running') = Cardinality(running) + 1
    BY <2>1, FiniteParts, FS_AddElement DEF IInv
  <2> QED BY <2>2, <2>3, FiniteParts DEF IInv, PlacesAccounted, Starting
<1> QED BY <1>1, <1>3, <1>4, <1>5, <1>6 DEF IInv

LEMMA CancelStep ==
    ASSUME IInv, NEW p \in Probes, Cancel(p)
    PROVE  IInv'
BY DEF Cancel, CallUnchanged, emitVars, IInv, TypeOK, RunInv, EmitInv, WaitInv, PlacesAccounted,
       Accepted, Reported, At

-----------------------------------------------------------------------------
(* The goroutine.                                                          *)

\* A step of an accepted probe that leaves the places alone, keeps handed-off
\* probes handed off and reports what it finishes.
LEMMA ProbeFrame ==
    ASSUME IInv, TypeOK', NEW p \in Accepted, NEW s \in ProbeStages, Goto(p, s), ProbeUnchanged,
           stage[p] \in HandedOff => s \in HandedOff,
           s \notin HandedOff => p \in running,
           stage[p] = "done" => s = "done",
           s = "done" => events'[p] # <<>>,
           \A q \in Probes \ {p} : events'[q] = events[q] /\ emitPc'[q] = emitPc[q],
           emitPc'[p] = "select" => s \in {"direct", "worker"}
    PROVE  IInv'
<1> USE DEF Goto, ProbeUnchanged
<1>1. p \in Probes /\ Accepted' = Accepted
  BY DEF IInv, TypeOK, Accepted
<1>2. \A q \in Probes \ {p} : stage'[q] = stage[q]
  BY DEF IInv, TypeOK
<1>3. stage'[p] = s
  BY <1>1 DEF IInv, TypeOK
<1>4. RunInv'
  BY <1>1, <1>2, <1>3 DEF IInv, RunInv, Accepted
<1>5. EmitInv'
  BY <1>1, <1>2, <1>3 DEF IInv, EmitInv, At, Reported
<1>6. WaitInv'
  <2>1. At("done") \subseteq At("done")'
    BY <1>1, <1>2, <1>3 DEF At
  <2>2. \A q \in due : stage[q] \in HandedOff => stage'[q] \in HandedOff
    BY <1>2, <1>3 DEF IInv, TypeOK
  <2> QED BY <1>1, <2>1, <2>2 DEF IInv, WaitInv
<1>7. PlacesAccounted'
  <2>1. Starting' = Starting
    BY <1>1, <1>2, <1>3 DEF Starting, At, Accepted, ProbeStages
  <2> QED BY <2>1 DEF IInv, PlacesAccounted, Starting
<1> QED BY <1>4, <1>5, <1>6, <1>7 DEF IInv

LEMMA AppendReports ==
    ASSUME NEW S, NEW s \in Seq(S), NEW o \in S
    PROVE  Append(s, o) \in Seq(S) /\ Append(s, o) # <<>>
<1>1. Append(s, o) \in Seq(S) /\ Len(Append(s, o)) = Len(s) + 1 /\ Len(s) \in Nat
  OBVIOUS
<1>2. Len(<<>>) = 0
  OBVIOUS
<1> QED BY <1>1, <1>2

\* What Finish does to the events of its probe.
LEMMA FinishReports ==
    ASSUME TypeOK, NEW p \in Probes, NEW o \in Outcomes, Finish(p, o)
    PROVE  /\ events' \in [Probes -> Seq(Outcomes)] /\ events'[p] # <<>>
           /\ \A q \in Probes \ {p} : events'[q] = events[q]
<1>1. events[p] \in Seq(Outcomes) /\ events' = [events EXCEPT ![p] = Append(events[p], o)]
  BY DEF TypeOK, Finish
<1>2. Append(events[p], o) \in Seq(Outcomes) /\ Append(events[p], o) # <<>>
  BY <1>1, AppendReports
<1>3. DOMAIN events = Probes
  BY DEF TypeOK
<1>4. events'[p] = Append(events[p], o) /\ \A q \in Probes \ {p} : events'[q] = events[q]
  BY <1>1, <1>3
<1>5. \A q \in Probes : events'[q] \in Seq(Outcomes)
  BY <1>2, <1>4 DEF TypeOK
<1>6. events' = [q \in Probes |-> events'[q]]
  BY <1>1, <1>3
<1> QED BY <1>2, <1>4, <1>5, <1>6

LEMMA DialStep ==
    ASSUME IInv, NEW p \in Probes, Dial(p) \/ DialOpen(p) \/ TrySubmit(p) \/ WorkerTake(p)
    PROVE  IInv'
<1>1. PICK s \in {"dial", "open", "direct", "jobs", "worker"} :
        /\ Goto(p, s) /\ stage[p] \in {"spawned", "dial", "open", "jobs"}
        /\ s = "worker" <=> stage[p] = "jobs"
        /\ UNCHANGED <<emitVars, events, cancelled>> /\ ProbeUnchanged
  BY DEF Dial, DialOpen, TrySubmit, WorkerTake
<1>2. TypeOK'
  BY <1>1 DEF IInv, TypeOK, Goto, ProbeUnchanged, emitVars, ProbeStages
<1>3. p \in Accepted /\ (stage[p] # "jobs" => p \in running)
  BY <1>1 DEF IInv, RunInv, Accepted, ProbeStages, HandedOff
<1>4. emitPc[p] # "select"
  BY <1>1 DEF IInv, EmitInv
<1>5. s \in ProbeStages /\ s # "done" /\ (stage[p] \in HandedOff => s \in HandedOff)
  BY <1>1 DEF ProbeStages, HandedOff
<1>6. stage[p] # "done" /\ (s \notin HandedOff => p \in running)
  BY <1>1, <1>3 DEF HandedOff
<1> QED BY <1>1, <1>2, <1>3, <1>4, <1>5, <1>6, ProbeFrame DEF emitVars

LEMMA DialErrorStep ==
    ASSUME IInv, NEW p \in Probes, DialError(p)
    PROVE  IInv'
<1>1. PICK o \in Outcomes : Finish(p, o)
  BY DEF DialError, Outcomes
<1>2. stage[p] \in {"spawned", "dial"} /\ UNCHANGED emitVars /\ ProbeUnchanged
  BY DEF DialError
<1>3. /\ events' \in [Probes -> Seq(Outcomes)] /\ events'[p] # <<>>
      /\ \A q \in Probes \ {p} : events'[q] = events[q]
  BY <1>1, FinishReports DEF IInv
<1>4. Goto(p, "done")
  BY <1>1 DEF Finish
<1>5. TypeOK'
  <2>1. cancelled' \subseteq Probes
    BY <1>1 DEF Finish, ProbeCancel, IInv, TypeOK
  <2> QED BY <1>2, <1>3, <1>4, <2>1 DEF IInv, TypeOK, Goto, ProbeUnchanged, emitVars, ProbeStages
<1>6. p \in Accepted /\ emitPc[p] # "select" /\ "done" \in ProbeStages /\ "done" \in HandedOff
  BY <1>2 DEF IInv, EmitInv, Accepted, ProbeStages, HandedOff
<1> QED BY <1>2, <1>3, <1>4, <1>5, <1>6, ProbeFrame DEF emitVars

\* The place goes back when the goroutine ends.
LEMMA LeaveStep ==
    ASSUME IInv, NEW p \in Probes, Leave(p)
    PROVE  IInv'
<1> USE DEF Leave
<1>1. Starting' = Starting /\ Cardinality(running') = Cardinality(running) - 1
  <2>1. Cardinality(running') = Cardinality(running) - 1
    BY FiniteParts, FS_RemoveElement DEF IInv
  <2> QED BY <2>1 DEF Starting, At
<1>2. inflight > 0
  <2>1. Cardinality(running) # 0
    BY FiniteParts, FS_EmptySet DEF IInv
  <2> QED BY <2>1, FiniteParts DEF IInv, PlacesAccounted, Starting
<1>3. TypeOK'
  BY <1>2, CapsAssumption DEF IInv, TypeOK, emitVars
<1>4. PlacesAccounted'
  <2>1. inflight' = inflight - 1 /\ inflight = Cardinality(Starting) + Cardinality(running)
    BY DEF IInv, PlacesAccounted, Starting
  <2>2. inflight' = Cardinality(Starting') + Cardinality(running')
    BY <1>1, <2>1, FiniteParts DEF IInv
  <2> QED BY <2>2 DEF PlacesAccounted, Starting
<1>5. RunInv' /\ EmitInv' /\ WaitInv'
  BY DEF IInv, RunInv, EmitInv, WaitInv, Accepted, At, Reported, HandedOff, emitVars
<1> QED BY <1>3, <1>4, <1>5 DEF IInv

-----------------------------------------------------------------------------
(* EmitOpenProbeResult, and the program.                                   *)

LEMMA EmitStep ==
    ASSUME IInv, NEW p \in Probes, EmitCheck(p) \/ EmitPush(p) \/ EmitCancelled(p)
    PROVE  IInv'
<1>1. /\ stage[p] \in {"direct", "worker"} /\ UNCHANGED <<stage, events>> /\ ProbeUnchanged
      /\ \E s \in {"select", "emit"} : emitPc' = [emitPc EXCEPT ![p] = s]
  BY DEF IInv, EmitInv, EmitCheck, EmitPush, EmitCancelled, EmitGoto
<1>2. TypeOK'
  BY <1>1, CapsAssumption DEF IInv, TypeOK, EmitCheck, EmitPush, EmitCancelled, ProbeUnchanged
<1>3. RunInv' /\ WaitInv' /\ PlacesAccounted'
  BY <1>1 DEF IInv, ProbeUnchanged, RunInv, WaitInv, PlacesAccounted, Accepted, At
<1>4. EmitInv'
  BY <1>1 DEF IInv, TypeOK, EmitInv, At, Reported
<1> QED BY <1>2, <1>3, <1>4 DEF IInv

LEMMA EmitOpenStep ==
    ASSUME IInv, NEW p \in Probes, EmitOpenResult(p)
    PROVE  IInv'
<1>1. PICK o \in Outcomes : Finish(p, o)
  BY DEF EmitOpenResult, Outcomes
<1>2. /\ stage[p] \in {"direct", "worker"} /\ emitPc[p] = "emit"
      /\ UNCHANGED emitVars /\ ProbeUnchanged
  BY DEF EmitOpenResult
<1>3. /\ events' \in [Probes -> Seq(Outcomes)] /\ events'[p] # <<>>
      /\ \A q \in Probes \ {p} : events'[q] = events[q]
  BY <1>1, FinishReports DEF IInv
<1>4. Goto(p, "done")
  BY <1>1 DEF Finish
<1>5. TypeOK'
  <2>1. cancelled' \subseteq Probes
    BY <1>1 DEF Finish, ProbeCancel, IInv, TypeOK
  <2> QED BY <1>2, <1>3, <1>4, <2>1 DEF IInv, TypeOK, Goto, ProbeUnchanged, emitVars, ProbeStages
<1>6. p \in Accepted /\ "done" \in ProbeStages /\ "done" \in HandedOff
  BY <1>2 DEF Accepted, ProbeStages, HandedOff
<1> QED BY <1>2, <1>3, <1>4, <1>5, <1>6, ProbeFrame DEF emitVars

LEMMA ConsumeStep ==
    ASSUME IInv, Consume
    PROVE  IInv'
<1>1. TypeOK'
  BY CapsAssumption DEF IInv, TypeOK, Consume, ProbeUnchanged
<1> QED BY <1>1 DEF Consume, ProbeUnchanged, IInv, RunInv, EmitInv, WaitInv, PlacesAccounted,
           Accepted, Reported, At

-----------------------------------------------------------------------------
(* Close and Wait.                                                         *)

LEMMA CloseStep ==
    ASSUME IInv, CloseStart \/ CloseSteps
    PROVE  IInv'
<1> USE DEF CloseStart, CloseSteps, CloseCancel, CloseWg, ClosePool, CloseUnchanged, emitVars
<1>1. TypeOK'
  BY DEF IInv, TypeOK
<1> QED BY <1>1 DEF IInv, RunInv, EmitInv, WaitInv, PlacesAccounted, Accepted, Reported, At

LEMMA WaitStep ==
    ASSUME IInv, WaitCall \/ WaitSteps
    PROVE  IInv'
<1> USE DEF WaitCall, WaitSteps, WaitWg, WaitPool, WaitUnchanged, emitVars
<1>1. TypeOK'
  BY DEF IInv, TypeOK, Accepted
<1>2. RunInv' /\ EmitInv' /\ PlacesAccounted'
  BY DEF IInv, RunInv, EmitInv, PlacesAccounted, Accepted, Reported, At
<1>3. WaitInv'
  <2>1. CASE WaitCall
    BY <2>1 DEF WaitInv, Accepted
  <2>2. CASE WaitWg
    BY <2>2 DEF IInv, WaitInv, RunInv
  <2>3. CASE WaitPool
    BY <2>3 DEF IInv, TypeOK, WaitInv, At, HandedOff
  <2> QED BY <2>1, <2>2, <2>3
<1> QED BY <1>1, <1>2, <1>3 DEF IInv

-----------------------------------------------------------------------------
LEMMA ProbeStep ==
    ASSUME IInv, NEW p \in Probes,
           Scan(p) \/ Caller(p) \/ Goroutine(p) \/ CallerCancel(p) \/ PropagateCancel(p)
    PROVE  IInv'
<1>1. CASE Scan(p) \/ Caller(p)
  BY <1>1, ScanStep, TakePlaceStep, LimiterErrorStep, StartStep DEF Caller
<1>2. CASE Dial(p) \/ DialError(p) \/ DialOpen(p) \/ TrySubmit(p) \/ Leave(p) \/ WorkerTake(p)
  BY <1>2, DialStep, DialErrorStep, LeaveStep
<1>3. CASE EmitResult(p)
  BY <1>3, EmitStep, EmitOpenStep DEF EmitResult
<1>4. CASE CallerCancel(p) \/ PropagateCancel(p)
  BY <1>4, CancelStep DEF CallerCancel, PropagateCancel
<1> QED BY <1>1, <1>2, <1>3, <1>4 DEF Goroutine

LEMMA StepInv == IInv /\ [Next]_vars => IInv'
<1> SUFFICES ASSUME IInv, [Next]_vars PROVE IInv'
  OBVIOUS
<1>1. CASE UNCHANGED vars
  BY <1>1 DEF vars, emitVars, IInv, TypeOK, RunInv, EmitInv, WaitInv, PlacesAccounted, Accepted,
              Reported, At
<1>2. CASE Next /\ ~UNCHANGED vars
  BY <1>2, ProbeStep, ConsumeStep, CloseStep, WaitStep DEF Next, Terminated
<1> QED BY <1>1, <1>2

LEMMA Invariance == Spec => []IInv
BY InitInv, StepInv, PTL DEF Spec

\* The variables keep their types; in particular no more than MaxConcurrent
\* places are taken and the result channel is never overfull.
THEOREM TypeCorrect == Spec => []TypeOK
BY Invariance, PTL DEF IInv

\* No path of a call or of its goroutine loses or doubles a place of inflight.
THEOREM PlacesAreAccounted == Spec => []PlacesAccounted
BY Invariance, PTL DEF IInv

\* Wait returns only after every probe accepted before the call was reported.
THEOREM WaitIsComplete == Spec => []WaitCoversAccepted
<1>1. IInv => WaitCoversAccepted
  BY DEF IInv, WaitInv, EmitInv, WaitCoversAccepted
<1> QED BY <1>1, Invariance, PTL

-----------------------------------------------------------------------------
(* What the contract needs beyond IInv: a probe has an event exactly when  *)
(* it is done, and past the select of EmitOpenProbeResult it was delivered *)
(* or its context is cancelled.                                            *)

Emitting == {"direct", "worker", "done"}

EventInv == \A p \in Probes : stage[p] # "done" => events[p] = <<>>

DeliveryInv == \A p \in Probes :
    /\ emitPc[p] # "check" => stage[p] \in Emitting
    /\ p \in delivered => emitPc[p] = "emit"
    /\ emitPc[p] = "emit" => p \in delivered \cup cancelled

PInv == IInv /\ EventInv /\ DeliveryInv

LEMMA InitPInv == Init => PInv
BY InitInv DEF Init, PInv, EventInv, DeliveryInv

\* The contract's state under the mapping does not change.
CStutter == Accepted' = Accepted /\ UNCHANGED <<delivered, events, IsDone, cancelled>>

CRevoke ==
    /\ Accepted' = Accepted /\ cancelled \subseteq cancelled'
    /\ UNCHANGED <<delivered, events, IsDone>>

-----------------------------------------------------------------------------
(* The caller.                                                             *)

LEMMA CallRefines ==
    ASSUME PInv, NEW p \in Probes,
           Scan(p) \/ TakePlace(p) \/ GiveUpPlace(p) \/ PassLimiters(p) \/ LimiterError(p)
    PROVE  EventInv' /\ DeliveryInv' /\ CRevoke
<1>1. PICK s \in CallStages : Goto(p, s) /\ stage[p] \in CallStages
  BY DEF Scan, TakePlace, GiveUpPlace, PassLimiters, LimiterError, CallStages
<1>2. CallUnchanged /\ cancelled \subseteq cancelled'
  BY DEF Scan, TakePlace, GiveUpPlace, PassLimiters, LimiterError, ProbeCancel
<1>3. \A q \in Probes : stage'[q] = IF q = p THEN s ELSE stage[q]
  BY <1>1 DEF Goto, PInv, IInv, TypeOK
<1>4. Accepted' = Accepted
  BY <1>1, <1>3 DEF Accepted, CallStages, ProbeStages
<1>5. EventInv'
  BY <1>1, <1>2, <1>3 DEF PInv, EventInv, CallUnchanged, CallStages
<1>6. DeliveryInv'
  BY <1>1, <1>2, <1>3 DEF PInv, DeliveryInv, CallUnchanged, emitVars, CallStages, Emitting
<1> QED BY <1>2, <1>4, <1>5, <1>6 DEF CRevoke, CallUnchanged, emitVars, IsDone

\* The go statement accepts the probe.
LEMMA StartRefines ==
    ASSUME PInv, NEW p \in Probes, Start(p)
    PROVE  EventInv' /\ DeliveryInv' /\ Contract!Accept(p)
<1>1. \A q \in Probes : stage'[q] = IF q = p THEN "spawned" ELSE stage[q]
  BY DEF Start, Goto, PInv, IInv, TypeOK
<1>2. Accepted' = Accepted \cup {p} /\ p \notin Accepted
  BY <1>1 DEF Start, Accepted, ProbeStages
<1>3. EventInv'
  BY <1>1 DEF PInv, EventInv, Start
<1>4. DeliveryInv'
  BY <1>1 DEF PInv, DeliveryInv, Start, emitVars, Emitting
<1> QED BY <1>2, <1>3, <1>4 DEF Contract!Accept, Start, emitVars, IsDone

LEMMA CancelRefines ==
    ASSUME PInv, NEW p \in Probes, Cancel(p)
    PROVE  EventInv' /\ DeliveryInv' /\ CRevoke
BY DEF PInv, EventInv, DeliveryInv, CRevoke, Cancel, CallUnchanged, emitVars, Accepted, IsDone

-----------------------------------------------------------------------------
(* The goroutine.                                                          *)

\* A step that takes an accepted probe on, but does not finish it.
LEMMA ProgressRefines ==
    ASSUME PInv, NEW p \in Probes, NEW s \in ProbeStages \ {"done"}, Goto(p, s),
           stage[p] \in ProbeStages \ {"done"}, UNCHANGED <<emitVars, events, cancelled>>,
           ProbeUnchanged, stage[p] \in Emitting => s \in Emitting
    PROVE  EventInv' /\ DeliveryInv' /\ CStutter
<1>1. \A q \in Probes : stage'[q] = IF q = p THEN s ELSE stage[q]
  BY DEF Goto, PInv, IInv, TypeOK
<1>2. Accepted' = Accepted
  BY <1>1 DEF Accepted
<1>3. EventInv'
  BY <1>1 DEF PInv, EventInv
<1>4. DeliveryInv'
  BY <1>1 DEF PInv, DeliveryInv, emitVars
<1> QED BY <1>2, <1>3, <1>4 DEF CStutter, ProbeUnchanged, emitVars, IsDone

LEMMA DialRefines ==
    ASSUME PInv, NEW p \in Probes, Dial(p) \/ DialOpen(p) \/ TrySubmit(p) \/ WorkerTake(p)
    PROVE  EventInv' /\ DeliveryInv' /\ CStutter
<1>1. PICK s \in {"dial", "open", "direct", "jobs", "worker"} :
        /\ Goto(p, s) /\ stage[p] \in {"spawned", "dial", "open", "jobs"}
        /\ UNCHANGED <<emitVars, events, cancelled>> /\ ProbeUnchanged
  BY DEF Dial, DialOpen, TrySubmit, WorkerTake
<1> QED BY <1>1, ProgressRefines DEF ProbeStages, Emitting

\* An event is the first of its probe, and fits what was delivered.
LEMMA FinishRefines ==
    ASSUME PInv, NEW p \in Probes, NEW o \in Outcomes, Finish(p, o),
           stage[p] \in ProbeStages \ {"done"}, UNCHANGED emitVars, ProbeUnchanged,
           (o = "Open") <=> (p \in delivered), o = "Aborted" => p \in cancelled
    PROVE  EventInv' /\ DeliveryInv' /\ Contract!Finish(p, o)
<1>1. \A q \in Probes : stage'[q] = IF q = p THEN "done" ELSE stage[q]
  BY DEF Finish, Goto, PInv, IInv, TypeOK
<1>2. Accepted' = Accepted /\ p \in Accepted
  BY <1>1 DEF Accepted, ProbeStages
<1>3. events[p] = <<>>
  BY DEF PInv, EventInv
<1>4. events' = [events EXCEPT ![p] = <<o>>]
  BY <1>3 DEF Finish
<1>5. cancelled \subseteq cancelled'
  BY DEF Finish, ProbeCancel
<1>6. EventInv'
  BY <1>1, <1>4 DEF PInv, IInv, TypeOK, EventInv
<1>7. DeliveryInv'
  BY <1>1, <1>5 DEF PInv, DeliveryInv, emitVars, Emitting
<1> QED BY <1>2, <1>3, <1>4, <1>5, <1>6, <1>7
        DEF Contract!Finish, Contract!Open, ProbeUnchanged, emitVars, IsDone

LEMMA DialErrorRefines ==
    ASSUME PInv, NEW p \in Probes, DialError(p)
    PROVE  EventInv' /\ DeliveryInv' /\ \E o \in Outcomes : Contract!Finish(p, o)
<1>1. PICK o \in Outcomes : Finish(p, o) /\ o # "Open" /\ (o = "Aborted" => p \in cancelled)
  BY DEF DialError, Outcomes
<1>2. p \notin delivered
  BY DEF DialError, PInv, DeliveryInv, Emitting
<1> QED BY <1>1, <1>2, FinishRefines DEF DialError, ProbeStages

LEMMA LeaveRefines ==
    ASSUME PInv, NEW p \in Probes, Leave(p)
    PROVE  EventInv' /\ DeliveryInv' /\ CStutter
BY DEF PInv, EventInv, DeliveryInv, CStutter, Leave, emitVars, Accepted, IsDone

LEMMA EmitRefines ==
    ASSUME PInv, NEW p \in Probes, EmitCheck(p) \/ EmitCancelled(p)
    PROVE  EventInv' /\ DeliveryInv' /\ CStutter
<1>1. stage[p] \in Emitting
  BY DEF EmitCheck, EmitCancelled, PInv, DeliveryInv, Emitting
<1>2. /\ UNCHANGED <<stage, retLen, delivered, events, cancelled>> /\ ProbeUnchanged
      /\ emitPc[p] # "emit"
      /\ \E s \in {"select", "emit"} : EmitGoto(p, s) /\ (s = "emit" => p \in cancelled)
  BY DEF EmitCheck, EmitCancelled
<1>3. \A q \in Probes \ {p} : emitPc'[q] = emitPc[q]
  BY <1>2 DEF EmitGoto, PInv, IInv, TypeOK
<1>4. emitPc'[p] \in {"select", "emit"} /\ (emitPc'[p] = "emit" => p \in cancelled)
  BY <1>2 DEF EmitGoto, PInv, IInv, TypeOK
<1>5. DeliveryInv'
  BY <1>1, <1>2, <1>3, <1>4 DEF PInv, DeliveryInv
<1> QED BY <1>2, <1>5 DEF PInv, EventInv, CStutter, ProbeUnchanged, Accepted, IsDone

\* The send on retChan comes before the event.
LEMMA PushRefines ==
    ASSUME PInv, NEW p \in Probes, EmitPush(p)
    PROVE  EventInv' /\ DeliveryInv' /\ Contract!Deliver(p)
<1>1. stage[p] \in {"direct", "worker"} /\ p \notin delivered
  BY DEF EmitPush, PInv, IInv, EmitInv, DeliveryInv
<1>2. p \in Accepted /\ events[p] = <<>>
  BY <1>1 DEF PInv, EventInv, Accepted, ProbeStages
<1>3. \A q \in Probes : emitPc'[q] = IF q = p THEN "emit" ELSE emitPc[q]
  BY DEF EmitPush, EmitGoto, PInv, IInv, TypeOK
<1>4. DeliveryInv'
  BY <1>1, <1>3 DEF PInv, DeliveryInv, EmitPush, Emitting
<1> QED BY <1>1, <1>2, <1>4
        DEF PInv, EventInv, EmitPush, Contract!Deliver, Contract!Open, ProbeUnchanged, Accepted, IsDone

LEMMA EmitOpenRefines ==
    ASSUME PInv, NEW p \in Probes, EmitOpenResult(p)
    PROVE  EventInv' /\ DeliveryInv' /\ \E o \in Outcomes : Contract!Finish(p, o)
<1> DEFINE o == IF p \in delivered THEN "Open" ELSE "Aborted"
<1>1. Finish(p, o) /\ o \in Outcomes /\ ((o = "Open") <=> (p \in delivered))
  BY DEF EmitOpenResult, Outcomes
<1>2. o = "Aborted" => p \in cancelled
  BY DEF EmitOpenResult, PInv, DeliveryInv
<1> HIDE DEF o
<1> QED BY <1>1, <1>2, FinishRefines DEF EmitOpenResult, ProbeStages

-----------------------------------------------------------------------------
(* The program, Close and Wait.                                            *)

LEMMA OthersRefine ==
    ASSUME PInv, Consume \/ CloseWg \/ ClosePool \/ WaitCall \/ WaitSteps \/ UNCHANGED vars
    PROVE  EventInv' /\ DeliveryInv' /\ CStutter
BY DEF PInv, EventInv, DeliveryInv, CStutter, Consume, ProbeUnchanged, CloseWg, ClosePool,
   CloseUnchanged, WaitCall, WaitSteps, WaitWg, WaitPool, WaitUnchanged, vars, emitVars,
   Accepted, IsDone

LEMMA CloseRefines ==
    ASSUME PInv, CloseStart \/ CloseCancel
    PROVE  EventInv' /\ DeliveryInv' /\ (Contract!Close \/ CRevoke)
<1>1. EventInv' /\ DeliveryInv' /\ Accepted' = Accepted
  BY DEF PInv, EventInv, DeliveryInv, CloseStart, CloseCancel, CloseUnchanged, emitVars, Accepted
<1>2. CASE CloseStart
  BY <1>1, <1>2 DEF CloseStart, CloseUnchanged, emitVars, Contract!Close, IsDone
<1>3. CASE CloseCancel
  BY <1>1, <1>3 DEF CloseCancel, CloseUnchanged, emitVars, CRevoke, IsDone
<1> QED BY <1>1, <1>2, <1>3

LEMMA StepRefines == PInv /\ [Next]_vars => PInv' /\ [Contract!Next]_Contract!cvars
<1> SUFFICES ASSUME PInv, [Next]_vars
             PROVE  EventInv' /\ DeliveryInv' /\ [Contract!Next]_Contract!cvars
  BY StepInv DEF PInv
<1>1. CStutter => UNCHANGED Contract!cvars
  BY DEF CStutter, Contract!cvars
<1>2. CRevoke => Contract!Revoke
  BY DEF CRevoke, Contract!Revoke
<1>3. ASSUME NEW p \in Probes,
             Scan(p) \/ Caller(p) \/ CallerCancel(p) \/ PropagateCancel(p)
      PROVE  EventInv' /\ DeliveryInv' /\ [Contract!Next]_Contract!cvars
  BY <1>2, <1>3, CallRefines, StartRefines, CancelRefines
     DEF Caller, CallerCancel, PropagateCancel, Contract!Next
<1>4. ASSUME NEW p \in Probes, Goroutine(p)
      PROVE  EventInv' /\ DeliveryInv' /\ [Contract!Next]_Contract!cvars
  <2>1. CASE Dial(p) \/ DialOpen(p) \/ TrySubmit(p) \/ WorkerTake(p) \/ Leave(p)
             \/ EmitCheck(p) \/ EmitCancelled(p)
    BY <1>1, <2>1, DialRefines, LeaveRefines, EmitRefines
  <2>2. CASE EmitPush(p)
    BY <2>2, PushRefines DEF Contract!Next
  <2>3. CASE DialError(p) \/ EmitOpenResult(p)
    <3>1. EventInv' /\ DeliveryInv' /\ \E o \in Outcomes : Contract!Finish(p, o)
      BY <2>3, DialErrorRefines, EmitOpenRefines
    <3> QED BY <3>1 DEF Contract!Next, Outcomes
  <2> QED BY <1>4, <2>1, <2>2, <2>3 DEF Goroutine, EmitResult
<1>5. CASE CloseStart \/ CloseSteps
  BY <1>1, <1>2, <1>5, CloseRefines, OthersRefine DEF CloseSteps, Contract!Next
<1>6. CASE Consume \/ WaitCall \/ WaitSteps \/ UNCHANGED vars
  BY <1>1, <1>6, OthersRefine
<1> QED BY <1>3, <1>4, <1>5, <1>6 DEF Next, Terminated

\* The scanner implements the contract of port.IpOption: every accepted probe
\* gets at most one event, Open exactly when its result was put on retChan
\* before, Aborted only after a cancellation.
THEOREM ScannerKeepsContract == Spec => ImplementsContract
<1>1. Init => Contract!Init
  BY DEF Init, Contract!Init, Accepted, ProbeStages, IsDone
<1> QED BY <1>1, InitPInv, StepRefines, PTL DEF Spec, ImplementsContract, Contract!Spec

-----------------------------------------------------------------------------
(* No submission to a closed pool.  Close cancels the context of a call of *)
(* Scan before it waits for the goroutines, so none of them dials later.   *)

PoolInv ==
    /\ CtxDone => Probes \ Linked \subseteq cancelled
    /\ At("open") \subseteq FingerPrint
    /\ WgDone => \A p \in Probes \ Linked : stage[p] \notin {"dial", "open"}

LEMMA PoolStep == IInv /\ PoolInv /\ [Next]_vars => PoolInv'
<1> SUFFICES ASSUME IInv, PoolInv, [Next]_vars PROVE PoolInv'
  OBVIOUS
<1> USE DEF IInv, TypeOK, PoolInv, At, CtxDone, WgDone
<1>1. ASSUME NEW p \in Probes,
             Scan(p) \/ Caller(p) \/ CallerCancel(p) \/ PropagateCancel(p)
      PROVE  PoolInv'
  BY <1>1 DEF Scan, Caller, TakePlace, GiveUpPlace, PassLimiters, LimiterError, Start, CallerCancel,
     PropagateCancel, Cancel, Goto, ProbeCancel, CallUnchanged
<1>2. ASSUME NEW p \in Probes, Goroutine(p) PROVE PoolInv'
  <2>1. CASE Dial(p) \/ DialOpen(p) \/ TrySubmit(p) \/ WorkerTake(p)
    BY <2>1 DEF Dial, DialOpen, TrySubmit, WorkerTake, Goto, ProbeUnchanged
  <2>2. CASE DialError(p) \/ EmitOpenResult(p)
    BY <2>2 DEF DialError, EmitOpenResult, Finish, Goto, ProbeCancel, ProbeUnchanged
  <2>3. CASE Leave(p) \/ EmitCheck(p) \/ EmitPush(p) \/ EmitCancelled(p)
    BY <2>3 DEF Leave, EmitCheck, EmitPush, EmitCancelled, ProbeUnchanged
  <2> QED BY <1>2, <2>1, <2>2, <2>3 DEF Goroutine, EmitResult
<1>3. CASE CloseWg
  <2>1. \A p \in Probes : stage[p] \notin {"dial", "open"}
    BY <1>3 DEF CloseWg, RunInv, Accepted, ProbeStages, HandedOff
  <2> QED BY <1>3, <2>1 DEF CloseWg, CloseUnchanged
<1>4. CASE CloseStart \/ CloseCancel \/ ClosePool
  BY <1>4 DEF CloseStart, CloseCancel, ClosePool, CloseUnchanged
<1>5. CASE Consume \/ WaitCall \/ WaitSteps \/ UNCHANGED vars
  BY <1>5 DEF Consume, ProbeUnchanged, WaitCall, WaitSteps, WaitWg, WaitPool, WaitUnchanged, vars
<1> QED BY <1>1, <1>2, <1>3, <1>4, <1>5 DEF Next, CloseSteps, Terminated

\* As long as no call of ProbeContext asks for a fingerprint, nobody submits to
\* the pool after Close has closed it; the run tcp_late_submit shows that a
\* call of ProbeContext can.
THEOREM ScanNeverSubmitsLate ==
    ASSUME FingerPrint \cap Linked = {}
    PROVE  Spec => []NoSubmitAfterClose
<1>1. Init => PoolInv
  BY DEF Init, PoolInv, At, CtxDone, WgDone
<1>2. IInv /\ PoolInv => NoSubmitAfterClose
  BY DEF IInv, TypeOK, PoolInv, NoSubmitAfterClose, At, PoolClosed, WgDone
<1> QED BY <1>1, <1>2, PoolStep, Invariance, PTL DEF Spec
=============================================================================
