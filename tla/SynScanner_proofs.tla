------------------------- MODULE SynScanner_proofs -------------------------
(***************************************************************************)
(* Proofs about SynScanner, for every set of probes, targets, port range   *)
(* and queue size.                                                         *)
(***************************************************************************)
EXTENDS SynScanner, FiniteSetTheorems, TLAPS

-----------------------------------------------------------------------------
(* The inductive invariant behind TypeOK: what each goroutine's local      *)
(* variables hold follows from where it is, and the entry under a key is   *)
(* the entry of a probe that reserved that key.                            *)

Keyed == \A k \in Keys : probes[k] \in Probes =>
            srcPort[probes[k]] \in SrcPorts /\ Key(probes[k]) = k

TableInv == TableTypeOK /\ Keyed

Past == {"send", "setRetry", "setRetryErr", "drop", "emit", "sent"}

CallInv ==
    /\ CallTypeOK
    /\ \A p \in Probes : scan[p] \in Past => p \in Accepted
    /\ \A p \in Probes : scan[p] \in {"idle", "reserve"} => p \notin Accepted
    /\ \A p \in Probes : scan[p] = "emit" => held[p] \in Probes

RecvInv ==
    /\ RecvTypeOK
    /\ recvPc \in {"takeOpen", "takeRst"} => recvKey \in Keys
    /\ recvPc \in {"enqueue", "abort", "closed"} => recvProbe \in Probes

SweepInv ==
    /\ SweepTypeOK
    /\ expired \subseteq Accepted
    /\ swPc \in {"rearm", "requeue", "emit"} => swProbe \in Accepted

RetryInv ==
    /\ RetryTypeOK
    /\ retryChan \subseteq Accepted
    /\ rtPc \in {"limit", "touch", "resend", "drop", "emit"} => rtProbe \in Accepted

EventInv == events \in [Probes -> Seq(Outcomes)]

TypeInv ==
    /\ TableInv /\ CallInv /\ EventInv /\ RecvInv /\ SweepInv /\ RetryInv
    /\ PipeTypeOK /\ CloseTypeOK /\ WaitTypeOK

-----------------------------------------------------------------------------
(* The operations of the table preserve its part of the invariant.         *)

LEMMA AcceptedKey ==
    ASSUME TableTypeOK, NEW p \in Accepted
    PROVE  p \in Probes /\ Key(p) \in Keys
BY TargetAssumption DEF TableTypeOK, Accepted, Key, Keys

LEMMA TableReserve ==
    ASSUME TableInv, NEW p \in Probes, p \notin Accepted, ReserveProbe(p)
    PROVE  TableInv' /\ Accepted' = Accepted \cup {p}
<1>1. PICK s \in SrcPorts :
        /\ probes' = [probes EXCEPT ![<<Target[p], s>>] = p]
        /\ nextSrcPort' = (s + 1) % NumPorts
        /\ srcPort' = [srcPort EXCEPT ![p] = s]
        /\ sentAt' = [sentAt EXCEPT ![p] = "fresh"]
        /\ UNCHANGED <<retried, retry, cancelled, tableDone>>
  BY DEF ReserveProbe
<1>2. <<Target[p], s>> \in Keys
  BY TargetAssumption DEF Keys
<1>3. s \in Nat /\ s # NoPort
  BY NumPortsAssumption DEF SrcPorts, NoPort
<1>4. (s + 1) % NumPorts \in SrcPorts
  BY <1>3, NumPortsAssumption DEF SrcPorts
<1>5. TableTypeOK'
  BY <1>1, <1>2, <1>4 DEF TableInv, TableTypeOK, Ages
<1>6. Accepted' = Accepted \cup {p}
  BY <1>1, <1>3 DEF Accepted, TableInv, TableTypeOK
<1>7. Keyed'
  <2> SUFFICES ASSUME NEW k \in Keys, probes'[k] \in Probes
               PROVE  srcPort'[probes'[k]] \in SrcPorts /\ <<Target[probes'[k]], srcPort'[probes'[k]]>> = k
    BY DEF Keyed, Key
  <2> srcPort \in [Probes -> SrcPorts \cup {NoPort}] /\ probes \in [Keys -> Probes \cup {NoProbe}]
    BY DEF TableInv, TableTypeOK
  <2>1. CASE k = <<Target[p], s>>
    BY <2>1, <1>1, <1>2 DEF TableInv, TableTypeOK, Key
  <2>2. CASE k # <<Target[p], s>>
    <3>1. probes'[k] = probes[k]
      BY <2>2, <1>1 DEF TableInv, TableTypeOK
    <3>2. srcPort[probes[k]] \in SrcPorts /\ Key(probes[k]) = k
      BY <3>1 DEF TableInv, Keyed
    <3>3. probes[k] # p
      <4> NoPort \notin SrcPorts
        BY DEF SrcPorts, NoPort
      <4> QED BY <3>2 DEF Accepted
    <3>4. srcPort'[probes[k]] = srcPort[probes[k]]
      <4>1. probes[k] \in Probes
        BY <3>1
      <4> QED BY <4>1, <3>3, <1>1
    <3> QED BY <3>1, <3>2, <3>4 DEF Key
  <2> QED BY <2>1, <2>2
<1> QED BY <1>5, <1>6, <1>7 DEF TableInv

\* Every other operation keeps all source ports, and changes entries only by
\* removing them or by putting a probe back under its own key.
LEMMA TableKeepsPorts ==
    ASSUME TableInv, UNCHANGED srcPort, TableTypeOK',
           \A k \in Keys : probes'[k] \in Probes =>
                \/ probes'[k] = probes[k]
                \/ probes'[k] \in Accepted /\ k = Key(probes'[k])
    PROVE  TableInv' /\ Accepted' = Accepted
<1>1. Accepted' = Accepted
  BY DEF Accepted
<1>2. ASSUME NEW k \in Keys, probes'[k] \in Probes
      PROVE  srcPort'[probes'[k]] \in SrcPorts /\ <<Target[probes'[k]], srcPort'[probes'[k]]>> = k
  <2>1. CASE probes'[k] = probes[k]
    BY <1>2, <2>1 DEF TableInv, Keyed, Key
  <2>2. CASE probes'[k] \in Accepted /\ k = Key(probes'[k])
    BY <2>2 DEF TableInv, TableTypeOK, Accepted, Key
  <2> QED BY <1>2, <2>1, <2>2
<1> QED BY <1>1, <1>2 DEF TableInv, Keyed, Key

LEMMA TableRemove ==
    ASSUME TableInv, NEW k \in Keys, RemoveEntry(k),
           UNCHANGED <<nextSrcPort, srcPort, sentAt, retried, retry, cancelled, tableDone>>
    PROVE  TableInv' /\ Accepted' = Accepted
<1>1. TableTypeOK'
  BY DEF RemoveEntry, TableInv, TableTypeOK
<1> QED BY <1>1, TableKeepsPorts, ProbesAssumption DEF RemoveEntry, TableInv, TableTypeOK

LEMMA TableTake ==
    ASSUME TableInv, NEW k \in Keys, TakeProbe(k, probes[k])
    PROVE  TableInv' /\ Accepted' = Accepted /\ probes[k] \in Accepted
<1>1. probes[k] \in Accepted
  BY NumPortsAssumption DEF TakeProbe, TableInv, TableTypeOK, Keyed, Accepted, SrcPorts, NoPort
<1> QED BY <1>1, TableRemove DEF TakeProbe

LEMMA TableSetRetry ==
    ASSUME TableInv, NEW k \in Keys, SetRetry(k)
    PROVE  TableInv' /\ Accepted' = Accepted
<1>1. TableTypeOK'
  BY DEF SetRetry, TableInv, TableTypeOK
<1> QED BY <1>1, TableKeepsPorts DEF SetRetry

LEMMA TableTouch ==
    ASSUME TableInv, NEW k \in Keys, TouchProbe(k, probes[k])
    PROVE  TableInv' /\ Accepted' = Accepted
<1>1. TableTypeOK'
  BY DEF TouchProbe, TableInv, TableTypeOK, Ages
<1> QED BY <1>1, TableKeepsPorts DEF TouchProbe

LEMMA TableRearm ==
    ASSUME TableInv, NEW p \in Accepted, RearmProbe(p)
    PROVE  TableInv' /\ Accepted' = Accepted
<1>1. p \in Probes /\ Key(p) \in Keys
  BY AcceptedKey DEF TableInv
<1>2. TableTypeOK'
  BY <1>1 DEF RearmProbe, TableInv, TableTypeOK, Ages
<1> QED BY <1>1, <1>2, TableKeepsPorts DEF RearmProbe, TableInv, TableTypeOK

LEMMA TableRemoveAll ==
    ASSUME TableInv, NEW S, RemoveAll(S)
    PROVE  TableInv' /\ Accepted' = Accepted
<1>1. TableTypeOK'
  BY DEF RemoveAll, TableInv, TableTypeOK
<1> QED BY <1>1, TableKeepsPorts, ProbesAssumption DEF RemoveAll

LEMMA TableElapse ==
    ASSUME TableInv, NEW p \in Probes, Elapse(p)
    PROVE  TableInv' /\ Accepted' = Accepted
<1>1. TableTypeOK'
  BY DEF Elapse, TableInv, TableTypeOK, Ages
<1> QED BY <1>1, TableKeepsPorts DEF Elapse

LEMMA TableCancel ==
    ASSUME TableInv, NEW S \in SUBSET Probes, CancelContexts(S)
    PROVE  TableInv' /\ Accepted' = Accepted
<1>1. TableTypeOK'
  BY DEF CancelContexts, TableInv, TableTypeOK
<1> QED BY <1>1, TableKeepsPorts DEF CancelContexts

LEMMA TableRelease ==
    ASSUME TableInv, NEW S, Release(S)
    PROVE  TableInv' /\ Accepted' = Accepted
BY TableCancel, LinkedAssumption DEF Release

LEMMA TableMarkDone ==
    ASSUME TableInv, MarkDone
    PROVE  TableInv' /\ Accepted' = Accepted
<1>1. TableTypeOK'
  BY DEF MarkDone, TableInv, TableTypeOK
<1> QED BY <1>1, TableKeepsPorts DEF MarkDone

LEMMA TableUnchanged ==
    ASSUME TableInv, UNCHANGED tableVars
    PROVE  TableInv' /\ Accepted' = Accepted
<1>1. TableTypeOK'
  BY DEF tableVars, TableInv, TableTypeOK
<1> QED BY <1>1, TableKeepsPorts DEF tableVars

-----------------------------------------------------------------------------
(* Steps that leave a part's variables alone preserve that part.           *)

LEMMA Frame ==
    ASSUME TypeInv, Accepted \subseteq Accepted'
    PROVE  /\ UNCHANGED callVars /\ Accepted' = Accepted => CallInv'
           /\ UNCHANGED events => EventInv'
           /\ UNCHANGED recvVars => RecvInv'
           /\ UNCHANGED sweepVars => SweepInv'
           /\ UNCHANGED retryVars => RetryInv'
           /\ UNCHANGED <<pipeVars, portProbeWg>> => PipeTypeOK'
           /\ UNCHANGED closeVars => CloseTypeOK'
           /\ UNCHANGED waitVars => WaitTypeOK'
<1>1. UNCHANGED callVars /\ Accepted' = Accepted => CallInv'
  BY DEF TypeInv, CallInv, CallTypeOK, callVars
<1>2. UNCHANGED events => EventInv'
  BY DEF TypeInv, EventInv
<1>3. UNCHANGED recvVars => RecvInv'
  BY DEF TypeInv, RecvInv, RecvTypeOK, recvVars
<1>4. UNCHANGED sweepVars => SweepInv'
  BY DEF TypeInv, SweepInv, SweepTypeOK, sweepVars
<1>5. UNCHANGED retryVars => RetryInv'
  BY DEF TypeInv, RetryInv, RetryTypeOK, retryVars
<1>6. UNCHANGED <<pipeVars, portProbeWg>> => PipeTypeOK'
  BY DEF TypeInv, PipeTypeOK, pipeVars
<1>7. UNCHANGED closeVars => CloseTypeOK'
  BY DEF TypeInv, CloseTypeOK, closeVars
<1>8. UNCHANGED waitVars => WaitTypeOK'
  BY DEF TypeInv, WaitTypeOK, waitVars
<1> QED BY <1>1, <1>2, <1>3, <1>4, <1>5, <1>6, <1>7, <1>8

LEMMA EmitTyped ==
    ASSUME EventInv, NEW p \in Probes, NEW o \in Outcomes, Emit(p, o)
    PROVE  EventInv'
BY DEF EventInv, Emit

-----------------------------------------------------------------------------
(* The callers.                                                            *)

LEMMA TypeScan ==
    ASSUME TypeInv, NEW p \in Probes, Scan(p)
    PROVE  TypeInv'
<1>1. TableInv' /\ Accepted' = Accepted
  BY TableRelease, TableUnchanged DEF Scan, TypeInv
<1>2. CallInv'
  BY <1>1 DEF Scan, GotoScan, CallInv, CallTypeOK, Past, TypeInv
<1> QED BY <1>1, <1>2, Frame DEF Scan, CallUnchanged, callVars, TypeInv

LEMMA TypeReserve ==
    ASSUME TypeInv, NEW p \in Probes, Reserve(p)
    PROVE  TypeInv'
<1>1. CASE ReserveProbe(p) /\ GotoScan(p, "send")
  <2>1. TableInv' /\ Accepted' = Accepted \cup {p}
    BY <1>1, TableReserve DEF Reserve, TypeInv, CallInv
  <2>2. CallInv'
    BY <1>1, <2>1 DEF Reserve, GotoScan, CallInv, CallTypeOK, Past, TypeInv
  <2> QED BY <2>1, <2>2, Frame DEF Reserve, CallUnchanged, TypeInv
<1>2. CASE GotoScan(p, "failed") /\ Release({p})
  <2>1. TableInv' /\ Accepted' = Accepted
    BY <1>2, TableRelease DEF TypeInv
  <2>2. CallInv'
    BY <1>2, <2>1 DEF Reserve, GotoScan, CallInv, CallTypeOK, Past, TypeInv
  <2> QED BY <2>1, <2>2, Frame DEF Reserve, CallUnchanged, TypeInv
<1> QED BY <1>1, <1>2 DEF Reserve

LEMMA TypeSend ==
    ASSUME TypeInv, NEW p \in Probes, Send(p)
    PROVE  TypeInv'
<1>1. TableInv' /\ Accepted' = Accepted
  BY TableUnchanged DEF Send, TypeInv
<1>2. Key(p) \in Keys
  BY AcceptedKey DEF Send, TypeInv, TableInv, CallInv, Past
<1>3. sampleCount' \in SampleCounts
  <2>1. CASE SampleEvery = 0
    BY <2>1 DEF Send, SampleCounts
  <2>2. CASE SampleEvery # 0
    BY <2>2, CapsAssumption DEF Send, SampleCounts, TypeInv, CallInv, CallTypeOK
  <2> QED BY <2>1, <2>2
<1>4. CallInv'
  BY <1>1, <1>2, <1>3 DEF Send, GotoScan, CallInv, CallTypeOK, Past, TypeInv
<1> QED BY <1>1, <1>4, Frame DEF Send, CallUnchanged, TypeInv

LEMMA TypeStoreRetry ==
    ASSUME TypeInv, NEW p \in Probes, StoreRetry(p)
    PROVE  TypeInv'
<1>1. Key(p) \in Keys
  BY AcceptedKey DEF StoreRetry, TypeInv, TableInv, CallInv, Past
<1>2. TableInv' /\ Accepted' = Accepted
  BY <1>1, TableSetRetry DEF StoreRetry, TypeInv
<1>3. CallInv'
  BY <1>2 DEF StoreRetry, GotoScan, CallInv, CallTypeOK, Past, TypeInv
<1> QED BY <1>2, <1>3, Frame DEF StoreRetry, CallUnchanged, TypeInv

LEMMA TypeDropUnsent ==
    ASSUME TypeInv, NEW p \in Probes, DropUnsent(p)
    PROVE  TypeInv'
<1>1. Key(p) \in Keys
  BY AcceptedKey DEF DropUnsent, TypeInv, TableInv, CallInv, Past
<1>2. TableInv' /\ Accepted' = Accepted
  BY <1>1, TableTake, TableRelease DEF DropUnsent, DropProbe, TypeInv
<1>3. CASE probes[Key(p)] = NoProbe
  <2>1. CallInv'
    BY <1>2, <1>3 DEF DropUnsent, GotoScan, CallInv, CallTypeOK, Past, TypeInv
  <2> QED BY <1>2, <2>1, Frame DEF DropUnsent, CallUnchanged, TypeInv
<1>4. CASE probes[Key(p)] # NoProbe
  <2>1. probes[Key(p)] \in Probes
    BY <1>1, <1>4 DEF TypeInv, TableInv, TableTypeOK
  <2>2. CallInv'
    BY <1>2, <1>4, <2>1 DEF DropUnsent, GotoScan, CallInv, CallTypeOK, Past, TypeInv
  <2> QED BY <1>2, <2>2, Frame DEF DropUnsent, CallUnchanged, TypeInv
<1> QED BY <1>3, <1>4

LEMMA TypeEmitSendError ==
    ASSUME TypeInv, NEW p \in Probes, EmitSendError(p)
    PROVE  TypeInv'
<1>1. TableInv' /\ Accepted' = Accepted
  BY TableRelease DEF EmitSendError, Finish, TypeInv
<1>2. CallInv'
  BY <1>1 DEF EmitSendError, GotoScan, CallInv, CallTypeOK, Past, TypeInv
<1>3. EventInv'
  BY <1>1, EmitTyped DEF EmitSendError, Finish, Outcomes, CallInv, TypeInv
<1> QED BY <1>1, <1>2, <1>3, Frame DEF EmitSendError, CallUnchanged, callVars, TypeInv

LEMMA TypeCallerCancel ==
    ASSUME TypeInv, NEW p \in Probes, CallerCancel(p)
    PROVE  TypeInv'
<1>1. TableInv' /\ Accepted' = Accepted
  BY TableCancel DEF CallerCancel, TypeInv
<1> QED BY <1>1, Frame DEF CallerCancel, CallUnchanged, callVars, TypeInv

LEMMA TypePropagateCancel ==
    ASSUME TypeInv, NEW p \in Probes, PropagateCancel(p)
    PROVE  TypeInv'
<1>1. TableInv' /\ Accepted' = Accepted
  BY TableCancel DEF PropagateCancel, TypeInv
<1> QED BY <1>1, Frame DEF PropagateCancel, CallUnchanged, callVars, TypeInv

LEMMA TypeClock ==
    ASSUME TypeInv, NEW p \in Probes, Clock(p)
    PROVE  TypeInv'
<1>1. TableInv' /\ Accepted' = Accepted
  BY TableElapse DEF Clock, TypeInv
<1> QED BY <1>1, Frame DEF Clock, CallUnchanged, callVars, TypeInv

-----------------------------------------------------------------------------
(* recv.                                                                   *)

LEMMA TypeRecvPacket ==
    ASSUME TypeInv, NEW k \in wire, RecvPacket(k)
    PROVE  TypeInv'
<1>1. TableInv' /\ Accepted' = Accepted
  BY TableUnchanged DEF RecvPacket, TypeInv
<1>2. RecvInv'
  BY DEF RecvPacket, RecvInv, RecvTypeOK, TypeInv, CallInv, CallTypeOK
<1>3. PipeTypeOK'
  BY DEF RecvPacket, PipeTypeOK, pipeVars, TypeInv
<1> QED BY <1>1, <1>2, <1>3, Frame DEF RecvPacket, RecvUnchanged, TypeInv

LEMMA TypeRecvStop ==
    ASSUME TypeInv, RecvStop
    PROVE  TypeInv'
<1>1. TableInv' /\ Accepted' = Accepted
  BY TableUnchanged DEF RecvStop, TypeInv
<1>2. RecvInv'
  BY <1>1 DEF RecvStop, RecvInv, RecvTypeOK, TypeInv
<1> QED BY <1>1, <1>2, Frame DEF RecvStop, RecvUnchanged, pipeVars, TypeInv

LEMMA TypeTakeOpen ==
    ASSUME TypeInv, TakeOpen
    PROVE  TypeInv'
<1>1. recvKey \in Keys
  BY DEF TakeOpen, TypeInv, RecvInv
<1>2. TableInv' /\ Accepted' = Accepted
  BY <1>1, TableTake, TableUnchanged DEF TakeOpen, TypeInv
<1>3. RecvInv'
  BY <1>1 DEF TakeOpen, RecvInv, RecvTypeOK, TypeInv, TableInv, TableTypeOK
<1>4. PipeTypeOK'
  BY DEF TakeOpen, PipeTypeOK, pipeVars, TypeInv
<1> QED BY <1>2, <1>3, <1>4, Frame DEF TakeOpen, RecvUnchanged, TypeInv

LEMMA TypeTakeRst ==
    ASSUME TypeInv, TakeRst
    PROVE  TypeInv'
<1>1. recvKey \in Keys
  BY DEF TakeRst, TypeInv, RecvInv
<1>2. TableInv' /\ Accepted' = Accepted
  BY <1>1, TableTake, TableUnchanged DEF TakeRst, TypeInv
<1>3. RecvInv'
  BY <1>1 DEF TakeRst, RecvInv, RecvTypeOK, TypeInv, TableInv, TableTypeOK
<1>4. PipeTypeOK'
  BY DEF TakeRst, PipeTypeOK, pipeVars, TypeInv
<1> QED BY <1>2, <1>3, <1>4, Frame DEF TakeRst, RecvUnchanged, TypeInv

LEMMA TypeEnqueueOpen ==
    ASSUME TypeInv, EnqueueOpen
    PROVE  TypeInv'
<1>1. TableInv' /\ Accepted' = Accepted
  BY TableUnchanged DEF EnqueueOpen, TypeInv
<1>2. RecvInv'
  BY <1>1 DEF EnqueueOpen, RecvInv, RecvTypeOK, TypeInv
<1>3. PipeTypeOK'
  BY <1>1 DEF EnqueueOpen, PipeTypeOK, pipeVars, RecvInv, TypeInv
<1> QED BY <1>1, <1>2, <1>3, Frame DEF EnqueueOpen, RecvUnchanged, pipeVars, TypeInv

LEMMA TypeEnqueueCancelled ==
    ASSUME TypeInv, EnqueueCancelled
    PROVE  TypeInv'
<1>1. TableInv' /\ Accepted' = Accepted
  BY TableUnchanged DEF EnqueueCancelled, TypeInv
<1>2. RecvInv'
  BY <1>1 DEF EnqueueCancelled, RecvInv, RecvTypeOK, TypeInv
<1>3. PipeTypeOK'
  BY <1>1 DEF EnqueueCancelled, PipeTypeOK, pipeVars, TypeInv
<1> QED BY <1>1, <1>2, <1>3, Frame DEF EnqueueCancelled, RecvUnchanged, pipeVars, TypeInv

LEMMA TypeEmitRecv ==
    ASSUME TypeInv, EmitRecv
    PROVE  TypeInv'
<1>1. TableInv' /\ Accepted' = Accepted
  BY TableRelease DEF EmitRecv, Finish, TypeInv
<1>2. RecvInv'
  BY <1>1 DEF EmitRecv, RecvInv, RecvTypeOK, TypeInv
<1>3. EventInv'
  BY <1>1, EmitTyped DEF EmitRecv, Finish, Outcomes, RecvInv, TypeInv
<1> QED BY <1>1, <1>2, <1>3, Frame DEF EmitRecv, RecvUnchanged, pipeVars, TypeInv

-----------------------------------------------------------------------------
(* cleanTimeout.                                                           *)

LEMMA PendingAccepted ==
    ASSUME TableInv
    PROVE  Pending \subseteq Accepted
BY NumPortsAssumption DEF TableInv, Keyed, Pending, Accepted, SrcPorts, NoPort

LEMMA TypeSweep ==
    ASSUME TypeInv, Sweep
    PROVE  TypeInv'
<1>1. TableInv' /\ Accepted' = Accepted
  BY TableRemoveAll DEF Sweep, TypeInv
<1>2. SweepInv'
  BY <1>1, PendingAccepted DEF Sweep, NextRound, SweepInv, SweepTypeOK, Expired, Pending, TypeInv
<1> QED BY <1>1, <1>2, Frame DEF Sweep, SweepUnchanged, sweepVars, retryVars, TypeInv

LEMMA TypeFinishExpired ==
    ASSUME TypeInv, NEW p \in Probes, FinishExpired(p)
    PROVE  TypeInv'
<1>1. TableInv' /\ Accepted' = Accepted
  BY TableUnchanged DEF FinishExpired, TypeInv
<1>2. SweepInv'
  BY <1>1 DEF FinishExpired, NextRound, SweepInv, SweepTypeOK, Outcomes, TypeInv
<1> QED BY <1>1, <1>2, Frame DEF FinishExpired, SweepUnchanged, sweepVars, retryVars, TypeInv

LEMMA TypeRearm ==
    ASSUME TypeInv, Rearm
    PROVE  TypeInv'
<1>1. TableInv' /\ Accepted' = Accepted
  BY TableRearm, TableUnchanged DEF Rearm, TypeInv, SweepInv
<1>2. SweepInv'
  BY <1>1 DEF Rearm, NextRound, SweepInv, SweepTypeOK, TypeInv
<1> QED BY <1>1, <1>2, Frame DEF Rearm, SweepUnchanged, sweepVars, retryVars, TypeInv

LEMMA TypeRequeue ==
    ASSUME TypeInv, Requeue
    PROVE  TypeInv'
<1>1. swProbe \in Accepted
  BY DEF Requeue, TypeInv, SweepInv
<1>2. swProbe \in Probes /\ Key(swProbe) \in Keys
  BY <1>1, AcceptedKey DEF TypeInv, TableInv
<1>3. TableInv' /\ Accepted' = Accepted
  <2>1. CASE Cardinality(retryChan) < RetryCap
    BY <2>1, TableUnchanged DEF Requeue, TypeInv
  <2>2. CASE ~(Cardinality(retryChan) < RetryCap)
    BY <1>2, <2>2, TableRemove DEF Requeue, TypeInv
  <2> QED BY <2>1, <2>2
<1>4. SweepInv'
  BY <1>3 DEF Requeue, NextRound, SweepInv, SweepTypeOK, TypeInv
<1>5. RetryInv'
  BY <1>1, <1>2, <1>3 DEF Requeue, SweepUnchanged, RetryInv, RetryTypeOK, TypeInv
<1> QED BY <1>3, <1>4, <1>5, Frame DEF Requeue, SweepUnchanged, TypeInv

LEMMA TypeEmitExpired ==
    ASSUME TypeInv, EmitExpired
    PROVE  TypeInv'
<1>1. TableInv' /\ Accepted' = Accepted
  BY TableRelease DEF EmitExpired, Finish, TypeInv
<1>2. SweepInv'
  BY <1>1 DEF EmitExpired, NextRound, SweepInv, SweepTypeOK, Outcomes, TypeInv
<1>3. EventInv'
  BY <1>1, EmitTyped DEF EmitExpired, Finish, SweepInv, SweepTypeOK, Accepted, TypeInv
<1> QED BY <1>1, <1>2, <1>3, Frame DEF EmitExpired, SweepUnchanged, sweepVars, retryVars, TypeInv

-----------------------------------------------------------------------------
(* retryLoop.                                                              *)

LEMMA TypeRetryExit ==
    ASSUME TypeInv, RetryExit
    PROVE  TypeInv'
<1>1. TableInv' /\ Accepted' = Accepted
  BY TableUnchanged DEF RetryExit, TypeInv
<1>2. RetryInv'
  BY <1>1 DEF RetryExit, RetryInv, RetryTypeOK, TypeInv
<1> QED BY <1>1, <1>2, Frame DEF RetryExit, RetryUnchanged, retryVars, TypeInv

LEMMA TypeRetryReceive ==
    ASSUME TypeInv, NEW p \in Probes, RetryReceive(p)
    PROVE  TypeInv'
<1>1. TableInv' /\ Accepted' = Accepted
  BY TableUnchanged DEF RetryReceive, TypeInv
<1>2. RetryInv'
  BY <1>1 DEF RetryReceive, RetryInv, RetryTypeOK, TypeInv
<1> QED BY <1>1, <1>2, Frame DEF RetryReceive, RetryUnchanged, retryVars, TypeInv

LEMMA TypeRetryLimit ==
    ASSUME TypeInv, RetryLimit
    PROVE  TypeInv'
<1>1. TableInv' /\ Accepted' = Accepted
  BY TableUnchanged DEF RetryLimit, TypeInv
<1>2. rtAbort' \in BOOLEAN
  <2>1. CASE UNCHANGED rtAbort
    BY <2>1 DEF TypeInv, RetryInv, RetryTypeOK
  <2>2. CASE rtAbort' = (rtProbe \in cancelled)
    <3>1. CASE rtProbe \in cancelled
      BY <2>2, <3>1
    <3>2. CASE rtProbe \notin cancelled
      BY <2>2, <3>2
    <3> QED BY <3>1, <3>2
  <2> QED BY <2>1, <2>2, Zenon DEF RetryLimit
<1>3. RetryInv'
  <2>1. rtPc' \in {"touch", "drop"} /\ UNCHANGED <<retryChan, rtProbe>> /\ rtPc = "limit"
    BY DEF RetryLimit
  <2> QED BY <1>1, <1>2, <2>1 DEF RetryInv, RetryTypeOK, TypeInv
<1> QED BY <1>1, <1>3, Frame DEF RetryLimit, RetryUnchanged, retryVars, TypeInv

LEMMA TypeRetryTouch ==
    ASSUME TypeInv, RetryTouch
    PROVE  TypeInv'
<1>1. Key(rtProbe) \in Keys
  BY AcceptedKey DEF RetryTouch, TypeInv, TableInv, RetryInv
<1>2. TableInv' /\ Accepted' = Accepted
  BY <1>1, TableTouch, TableUnchanged DEF RetryTouch, TypeInv
<1>3. RetryInv'
  BY <1>2 DEF RetryTouch, RetryInv, RetryTypeOK, TypeInv
<1> QED BY <1>2, <1>3, Frame DEF RetryTouch, RetryUnchanged, TypeInv

LEMMA TypeResend ==
    ASSUME TypeInv, Resend
    PROVE  TypeInv'
<1>1. TableInv' /\ Accepted' = Accepted
  BY TableUnchanged DEF Resend, TypeInv
<1>2. rtAbort' \in BOOLEAN
  <2>1. CASE UNCHANGED rtAbort
    BY <2>1 DEF TypeInv, RetryInv, RetryTypeOK
  <2>2. CASE rtAbort' \in {FALSE, CtxDone}
    <3>1. CASE rtAbort' = FALSE
      BY <3>1
    <3>2. CASE rtAbort' = CtxDone
      BY <3>2 DEF CtxDone, TypeInv, CloseTypeOK
    <3> QED BY <2>2, <3>1, <3>2, Zenon
  <2> QED BY <2>1, <2>2, Zenon DEF Resend
<1>3. RetryInv'
  <2>1. /\ rtPc' = "select" \/ (rtPc' = "drop" /\ UNCHANGED rtProbe)
        /\ rtProbe' \in {rtProbe, NoProbe}
        /\ UNCHANGED retryChan /\ rtPc = "resend"
    BY Zenon DEF Resend
  <2> QED BY <1>1, <1>2, <2>1 DEF RetryInv, RetryTypeOK, TypeInv
<1>4. CallInv'
  <2>1. Key(rtProbe) \in Keys
    BY AcceptedKey DEF Resend, TypeInv, TableInv, RetryInv
  <2>2. wire' \subseteq Keys
    BY <2>1 DEF Resend, TypeInv, CallInv, CallTypeOK
  <2> QED BY <1>1, <2>2 DEF Resend, CallInv, CallTypeOK, Past, TypeInv
<1> QED BY <1>1, <1>3, <1>4, Frame DEF Resend, TypeInv

LEMMA TypeRetryDrop ==
    ASSUME TypeInv, RetryDrop
    PROVE  TypeInv'
<1>1. Key(rtProbe) \in Keys
  BY AcceptedKey DEF RetryDrop, TypeInv, TableInv, RetryInv
<1>2. CASE probes[Key(rtProbe)] = NoProbe
  <2>1. TableInv' /\ Accepted' = Accepted
    BY <1>2, TableUnchanged DEF RetryDrop, TypeInv
  <2>2. RetryInv'
    BY <1>2, <2>1 DEF RetryDrop, RetryInv, RetryTypeOK, TypeInv
  <2> QED BY <2>1, <2>2, Frame DEF RetryDrop, RetryUnchanged, TypeInv
<1>3. CASE probes[Key(rtProbe)] # NoProbe
  <2>1. TableInv' /\ Accepted' = Accepted /\ probes[Key(rtProbe)] \in Accepted
    BY <1>1, <1>3, TableTake DEF RetryDrop, DropProbe, TypeInv
  <2>2. RetryInv'
    BY <1>3, <2>1 DEF RetryDrop, RetryInv, RetryTypeOK, TypeInv, Accepted
  <2> QED BY <2>1, <2>2, Frame DEF RetryDrop, RetryUnchanged, TypeInv
<1> QED BY <1>2, <1>3

LEMMA TypeEmitRetryError ==
    ASSUME TypeInv, EmitRetryError
    PROVE  TypeInv'
<1>1. TableInv' /\ Accepted' = Accepted
  BY TableRelease DEF EmitRetryError, Finish, TypeInv
<1>2. RetryInv'
  BY <1>1 DEF EmitRetryError, RetryInv, RetryTypeOK, TypeInv
<1>3. EventInv'
  BY <1>1, EmitTyped DEF EmitRetryError, Finish, Outcomes, RetryInv, Accepted, TypeInv
<1> QED BY <1>1, <1>2, <1>3, Frame DEF EmitRetryError, RetryUnchanged, retryVars, TypeInv

-----------------------------------------------------------------------------
(* The delivery pipeline.                                                  *)

LEMMA TypeHandlerTake ==
    ASSUME TypeInv, NEW p \in Probes, HandlerTake(p)
    PROVE  TypeInv'
<1>1. TableInv' /\ Accepted' = Accepted
  BY TableUnchanged DEF HandlerTake, TypeInv
<1>2. PipeTypeOK'
  BY <1>1 DEF HandlerTake, Move, PipeTypeOK, TypeInv
<1> QED BY <1>1, <1>2, Frame DEF HandlerTake, PipeUnchanged, TypeInv

LEMMA TypeTrySubmit ==
    ASSUME TypeInv, NEW p \in Probes, TrySubmit(p)
    PROVE  TypeInv'
<1>1. TableInv' /\ Accepted' = Accepted
  BY TableUnchanged DEF TrySubmit, TypeInv
<1>2. PipeTypeOK'
  BY <1>1 DEF TrySubmit, Move, PipeTypeOK, TypeInv
<1> QED BY <1>1, <1>2, Frame DEF TrySubmit, PipeUnchanged, TypeInv

LEMMA TypeWorkerTake ==
    ASSUME TypeInv, NEW p \in Probes, WorkerTake(p)
    PROVE  TypeInv'
<1>1. TableInv' /\ Accepted' = Accepted
  BY TableUnchanged DEF WorkerTake, TypeInv
<1>2. PipeTypeOK'
  BY <1>1 DEF WorkerTake, Move, PipeTypeOK, TypeInv
<1> QED BY <1>1, <1>2, Frame DEF WorkerTake, PipeUnchanged, TypeInv

LEMMA TypeEmitCheck ==
    ASSUME TypeInv, NEW p \in Probes, EmitCheck(p)
    PROVE  TypeInv'
<1>1. TableInv' /\ Accepted' = Accepted
  BY TableUnchanged DEF EmitCheck, TypeInv
<1>2. PipeTypeOK'
  BY <1>1 DEF EmitCheck, EmitGoto, PipeTypeOK, TypeInv
<1> QED BY <1>1, <1>2, Frame DEF EmitCheck, PipeUnchanged, TypeInv

LEMMA TypeEmitPush ==
    ASSUME TypeInv, NEW p \in Probes, EmitPush(p)
    PROVE  TypeInv'
<1>1. TableInv' /\ Accepted' = Accepted
  BY TableUnchanged DEF EmitPush, TypeInv
<1>2. PipeTypeOK'
  BY <1>1, CapsAssumption DEF EmitPush, EmitGoto, PipeTypeOK, TypeInv
<1> QED BY <1>1, <1>2, Frame DEF EmitPush, PipeUnchanged, TypeInv

LEMMA TypeEmitCancelled ==
    ASSUME TypeInv, NEW p \in Probes, EmitCancelled(p)
    PROVE  TypeInv'
<1>1. TableInv' /\ Accepted' = Accepted
  BY TableUnchanged DEF EmitCancelled, TypeInv
<1>2. PipeTypeOK'
  BY <1>1 DEF EmitCancelled, EmitGoto, PipeTypeOK, TypeInv
<1> QED BY <1>1, <1>2, Frame DEF EmitCancelled, PipeUnchanged, TypeInv

LEMMA TypeEmitOpenResult ==
    ASSUME TypeInv, NEW p \in Probes, EmitOpenResult(p)
    PROVE  TypeInv'
<1>1. TableInv' /\ Accepted' = Accepted
  BY TableRelease DEF EmitOpenResult, Finish, TypeInv
<1>2. PipeTypeOK'
  BY <1>1 DEF EmitOpenResult, Move, PipeTypeOK, TypeInv
<1>3. EventInv'
  BY <1>1, EmitTyped DEF EmitOpenResult, Finish, Outcomes, TypeInv
<1> QED BY <1>1, <1>2, <1>3, Frame DEF EmitOpenResult, PipeUnchanged, TypeInv

LEMMA TypeConsume ==
    ASSUME TypeInv, Consume
    PROVE  TypeInv'
<1>1. TableInv' /\ Accepted' = Accepted
  BY TableUnchanged DEF Consume, TypeInv
<1>2. PipeTypeOK'
  BY <1>1, CapsAssumption DEF Consume, PipeTypeOK, TypeInv
<1> QED BY <1>1, <1>2, Frame DEF Consume, PipeUnchanged, TypeInv

-----------------------------------------------------------------------------
(* Close and Wait.                                                         *)

LEMMA TypeCloseStart ==
    ASSUME TypeInv, CloseStart
    PROVE  TypeInv'
<1>1. TableInv' /\ Accepted' = Accepted
  BY TableUnchanged DEF CloseStart, TypeInv
<1>2. CloseTypeOK'
  BY <1>1 DEF CloseStart, CloseTypeOK, TypeInv
<1> QED BY <1>1, <1>2, Frame DEF CloseStart, CloseUnchanged, closeVars, TypeInv

LEMMA TypeCloseHandle ==
    ASSUME TypeInv, CloseHandle
    PROVE  TypeInv'
<1>1. TableInv' /\ Accepted' = Accepted
  BY TableUnchanged DEF CloseHandle, TypeInv
<1>2. CloseTypeOK'
  BY <1>1 DEF CloseHandle, CloseTypeOK, TypeInv
<1> QED BY <1>1, <1>2, Frame DEF CloseHandle, CloseUnchanged, closeVars, TypeInv

LEMMA TypeCloseChan ==
    ASSUME TypeInv, CloseChan
    PROVE  TypeInv'
<1>1. TableInv' /\ Accepted' = Accepted
  BY TableUnchanged DEF CloseChan, TypeInv
<1>2. CloseTypeOK'
  BY <1>1 DEF CloseChan, CloseTypeOK, TypeInv
<1> QED BY <1>1, <1>2, Frame DEF CloseChan, CloseUnchanged, closeVars, TypeInv

LEMMA TypeClosePool ==
    ASSUME TypeInv, ClosePool
    PROVE  TypeInv'
<1>1. TableInv' /\ Accepted' = Accepted
  BY TableUnchanged DEF ClosePool, TypeInv
<1>2. CloseTypeOK'
  BY <1>1 DEF ClosePool, CloseTypeOK, TypeInv
<1> QED BY <1>1, <1>2, Frame DEF ClosePool, CloseUnchanged, closeVars, TypeInv

LEMMA TypeCloseCancel ==
    ASSUME TypeInv, CloseCancel
    PROVE  TypeInv'
<1>1. TableInv' /\ Accepted' = Accepted
  BY TableCancel DEF CloseCancel, TypeInv
<1>2. CloseTypeOK'
  BY <1>1 DEF CloseCancel, CloseTypeOK, TypeInv
<1> QED BY <1>1, <1>2, Frame DEF CloseCancel, CloseUnchanged, closeVars, TypeInv

LEMMA TypeCloseTable ==
    ASSUME TypeInv, CloseTable
    PROVE  TypeInv'
<1>1. TableInv' /\ Accepted' = Accepted
  BY TableMarkDone DEF CloseTable, TypeInv
<1>2. CloseTypeOK'
  BY <1>1 DEF CloseTable, CloseTypeOK, TypeInv
<1> QED BY <1>1, <1>2, Frame DEF CloseTable, CloseUnchanged, closeVars, TypeInv

LEMMA TypeCloseDrain ==
    ASSUME TypeInv, CloseDrain
    PROVE  TypeInv'
<1>1. TableInv' /\ Accepted' = Accepted
  BY TableRemoveAll DEF CloseDrain, TypeInv
<1>2. CloseTypeOK'
  BY <1>1 DEF CloseDrain, CloseTypeOK, Pending, TypeInv
<1> QED BY <1>1, <1>2, Frame DEF CloseDrain, CloseUnchanged, closeVars, TypeInv

LEMMA TypeCloseEmit ==
    ASSUME TypeInv, NEW p \in Probes, CloseEmit(p)
    PROVE  TypeInv'
<1>1. TableInv' /\ Accepted' = Accepted
  BY TableRelease DEF CloseEmit, Finish, TypeInv
<1>2. CloseTypeOK'
  BY <1>1 DEF CloseEmit, CloseTypeOK, TypeInv
<1>3. EventInv'
  BY <1>1, EmitTyped DEF CloseEmit, Finish, Outcomes, TypeInv
<1> QED BY <1>1, <1>2, <1>3, Frame DEF CloseEmit, CloseUnchanged, closeVars, TypeInv

LEMMA TypeWaiting ==
    ASSUME TypeInv, Waiting
    PROVE  TypeInv'
<1> USE DEF Waiting, WaitCall, WaitSteps, WaitTable, WaitDeadline, WaitChan, WaitGroups
<1>1. WaitUnchanged
  OBVIOUS
<1>2. TableInv' /\ Accepted' = Accepted
  BY <1>1, TableUnchanged DEF WaitUnchanged, TypeInv
<1>3. OpenInFlight \subseteq Probes
  BY DEF OpenInFlight, InPipe, TypeInv, RecvInv
<1>4. WaitTypeOK'
  BY <1>3 DEF WaitTypeOK, Accepted, TypeInv
<1> QED BY <1>1, <1>2, <1>4, Frame DEF WaitUnchanged, TypeInv

LEMMA TypeUnchanged ==
    ASSUME TypeInv, UNCHANGED vars
    PROVE  TypeInv'
<1>1. TableInv' /\ Accepted' = Accepted
  BY TableUnchanged DEF vars, TypeInv
<1> QED BY <1>1, Frame DEF vars, TypeInv

-----------------------------------------------------------------------------
LEMMA TypeInit == Init => TypeInv
<1> SUFFICES ASSUME Init PROVE TypeInv
  OBVIOUS
<1> USE DEF Init
<1>1. TableInv
  <2>1. 0 \in SrcPorts
    BY NumPortsAssumption DEF SrcPorts
  <2>2. TableTypeOK
    BY <2>1 DEF TableInit, TableTypeOK, Ages
  <2>3. Keyed
    BY ProbesAssumption DEF TableInit, Keyed
  <2> QED BY <2>2, <2>3 DEF TableInv
<1>2. Accepted = {}
  BY DEF TableInit, Accepted
<1>3. CallInv /\ EventInv
  BY <1>2 DEF CallInv, CallTypeOK, Past, EventInv
<1>4. RecvInv /\ SweepInv /\ RetryInv
  BY <1>2 DEF RecvInv, RecvTypeOK, SweepInv, SweepTypeOK, Outcomes, RetryInv, RetryTypeOK
<1>5. PipeTypeOK /\ CloseTypeOK /\ WaitTypeOK
  BY CapsAssumption DEF PipeTypeOK, CloseTypeOK, WaitTypeOK
<1> QED BY <1>1, <1>3, <1>4, <1>5 DEF TypeInv

LEMMA TypeStep == TypeInv /\ [Next]_vars => TypeInv'
<1> SUFFICES ASSUME TypeInv, [Next]_vars PROVE TypeInv'
  OBVIOUS
<1>1. ASSUME NEW p \in Probes, Caller(p) PROVE TypeInv'
  BY <1>1, TypeScan, TypeReserve, TypeSend, TypeStoreRetry, TypeDropUnsent,
     TypeEmitSendError DEF Caller
<1>2. ASSUME NEW p \in Probes, CallerCancel(p) \/ PropagateCancel(p) \/ Clock(p) PROVE TypeInv'
  BY <1>2, TypeCallerCancel, TypePropagateCancel, TypeClock
<1>3. ASSUME NEW p \in Probes, Pipeline(p) PROVE TypeInv'
  BY <1>3, TypeHandlerTake, TypeTrySubmit, TypeWorkerTake DEF Pipeline
<1>4. ASSUME NEW p \in Probes, EmitResult(p) PROVE TypeInv'
  BY <1>4, TypeEmitCheck, TypeEmitPush, TypeEmitCancelled, TypeEmitOpenResult DEF EmitResult
<1>5. ASSUME NEW k \in wire, RecvPacket(k) PROVE TypeInv'
  BY <1>5, TypeRecvPacket
<1>6. CASE Recv
  BY <1>6, TypeRecvStop, TypeTakeOpen, TypeTakeRst, TypeEnqueueOpen,
     TypeEnqueueCancelled, TypeEmitRecv DEF Recv
<1>7. CASE Sweeper
  BY <1>7, TypeSweep, TypeFinishExpired, TypeRearm, TypeRequeue, TypeEmitExpired DEF Sweeper
<1>8. CASE RetryLoop
  BY <1>8, TypeRetryExit, TypeRetryReceive, TypeRetryLimit, TypeRetryTouch,
     TypeResend, TypeRetryDrop, TypeEmitRetryError DEF RetryLoop
<1>9. CASE Consume
  BY <1>9, TypeConsume
<1>10. CASE CloseStart \/ CloseSteps
  BY <1>10, TypeCloseStart, TypeCloseCancel, TypeCloseHandle, TypeCloseTable,
     TypeCloseDrain, TypeCloseEmit, TypeCloseChan, TypeClosePool DEF CloseSteps
<1>11. CASE Waiting
  BY <1>11, TypeWaiting
<1>12. CASE Terminated \/ UNCHANGED vars
  BY <1>12, TypeUnchanged DEF Terminated
<1> QED BY <1>1, <1>2, <1>3, <1>4, <1>5, <1>6, <1>7, <1>8, <1>9, <1>10, <1>11, <1>12
    DEF Next, Scanning, Closing

\* The local variables of every goroutine stay in their ranges, and the keys
\* they use are keys of the table, whatever the interleaving.
THEOREM TypeCorrect == Spec => []TypeOK
<1>1. TypeInv => TypeOK
  BY DEF TypeInv, TypeOK, TableInv, CallInv, EventInv, RecvInv, SweepInv, RetryInv
<1> QED BY <1>1, TypeInit, TypeStep, PTL DEF Spec
=============================================================================
