-------------------------- MODULE SynCustody_proofs --------------------------
(***************************************************************************)
(* Who holds a probe of the SYN scanner, for every set of probes and every *)
(* queue size: at most one pair of hands at any time, and, while the retry *)
(* queue has room for every probe, exactly one until its only event.  From *)
(* this follow the count of the open ports, what Close may close, what     *)
(* Wait waits for, and the promise of port.IpOption.                       *)
(***************************************************************************)
EXTENDS SynScanner_proofs

-----------------------------------------------------------------------------
(* The hands a probe can be in (the summands of Holders).                  *)

InCallers == {held[q] : q \in {r \in Probes : scan[r] = "emit"}}
InRecv    == IF recvPc \in {"enqueue", "abort", "closed"} THEN {recvProbe} ELSE {}
InRetry   == IF rtPc = "emit" THEN {rtProbe} ELSE {}

Hands == {"table", "caller", "recv", "sweeper", "retry", "pipe", "close"}
Hold(h) == [table |-> Pending, caller |-> InCallers, recv |-> InRecv, sweeper |-> expired,
            retry |-> InRetry, pipe |-> InPipe, close |-> drained][h]

\* The retry queue never refuses a probe.
Room == Cardinality(Probes) <= RetryCap

\* The hands are disjoint and hold accepted probes only.
Apart ==
    /\ \A h \in Hands : Hold(h) \subseteq Accepted
    /\ \A g, h \in Hands : g # h => Hold(g) \cap Hold(h) = {}
    /\ \A q, r \in Probes : scan[q] = "emit" /\ scan[r] = "emit" /\ held[q] = held[r] => q = r

\* With room, they hold exactly the accepted probes without an event, and the
\* others have one.
Covered == Room =>
    /\ Reported \subseteq Accepted
    /\ \A p \in Accepted \ Reported : \E h \in Hands : p \in Hold(h)
    /\ \A h \in Hands : Hold(h) \cap Reported = {}
    /\ \A p \in Probes : Len(events[p]) <= 1

Custody == Apart /\ Covered

\* What the sweeper and Close keep in hand, step by step.
LocalInv ==
    /\ retryChan \subseteq retried
    /\ swPc \in {"sleep", "exit"} => expired = {}
    /\ swPc = "rearm" => swProbe \in expired \ retried
    /\ swPc = "requeue" => swProbe \in retried \ retryChan
    /\ swPc = "emit" /\ Room => swProbe \in expired
    /\ closeStep <= 4 => drained = {}

HandInv == TypeInv /\ Custody /\ LocalInv

-----------------------------------------------------------------------------
(* The four ways custody can change.                                       *)

LEMMA HandsAre ==
    /\ Hold("table") = Pending     /\ Hold("table")' = Pending'
    /\ Hold("caller") = InCallers  /\ Hold("caller")' = InCallers'
    /\ Hold("recv") = InRecv       /\ Hold("recv")' = InRecv'
    /\ Hold("sweeper") = expired   /\ Hold("sweeper")' = expired'
    /\ Hold("retry") = InRetry     /\ Hold("retry")' = InRetry'
    /\ Hold("pipe") = InPipe       /\ Hold("pipe")' = InPipe'
    /\ Hold("close") = drained     /\ Hold("close")' = drained'
BY DEF Hold

\* No two calls hold the same entry.
HeldApart == \A q, r \in Probes :
                scan[q] = "emit" /\ scan[r] = "emit" /\ held[q] = held[r] => q = r

\* S goes from g to h; S is empty when nothing changes hands.
LEMMA Passes ==
    ASSUME Custody, NEW g \in Hands, NEW h \in Hands, g # h, NEW S \in SUBSET Hold(g),
           Hold(g)' = Hold(g) \ S, Hold(h)' = Hold(h) \cup S,
           \A i \in Hands \ {g, h} : Hold(i)' = Hold(i),
           Accepted' = Accepted, UNCHANGED events, HeldApart'
    PROVE  Custody'
<1>1. Reported' = Reported
  BY DEF Reported
<1>2. Apart'
  <2>1. \A i \in Hands : Hold(i)' \subseteq Accepted'
    BY DEF Custody, Apart
  <2>2. \A i, j \in Hands : i # j => Hold(i)' \cap Hold(j)' = {}
    BY DEF Custody, Apart
  <2> QED BY <2>1, <2>2 DEF Apart, HeldApart
<1>3. Covered'
  <2> SUFFICES ASSUME Room
               PROVE  /\ \A p \in Accepted' \ Reported' : \E i \in Hands : p \in Hold(i)'
                      /\ \A i \in Hands : Hold(i)' \cap Reported' = {}
                      /\ Reported' \subseteq Accepted'
                      /\ \A p \in Probes : Len(events'[p]) <= 1
    BY DEF Covered, Room
  <2>1. ASSUME NEW p \in Accepted \ Reported PROVE \E i \in Hands : p \in Hold(i)'
    <3>1. PICK i \in Hands : p \in Hold(i)
      BY DEF Custody, Covered
    <3>2. p \in Hold(i)' \/ p \in Hold(h)'
      BY <3>1
    <3> QED BY <3>2
  <2>2. \A i \in Hands : Hold(i)' \cap Reported = {}
    BY DEF Custody, Covered
  <2> QED BY <1>1, <2>1, <2>2 DEF Custody, Covered
<1> QED BY <1>2, <1>3 DEF Custody

LEMMA AppendReports ==
    ASSUME NEW s \in Seq(Outcomes), NEW o \in Outcomes
    PROVE  Append(s, o) # <<>> /\ (s = <<>> => Len(Append(s, o)) = 1)
<1>1. Len(Append(s, o)) = Len(s) + 1 /\ Len(s) \in Nat
  OBVIOUS
<1>2. Len(<<>>) = 0
  OBVIOUS
<1> QED BY <1>1, <1>2

\* p leaves g for good and gets its event.
LEMMA Finishes ==
    ASSUME TypeInv, Custody, NEW g \in Hands, NEW p \in Hold(g), NEW o \in Outcomes, Emit(p, o),
           Hold(g)' = Hold(g) \ {p}, \A i \in Hands \ {g} : Hold(i)' = Hold(i),
           Accepted' = Accepted, HeldApart'
    PROVE  Custody'
<1>1. p \in Probes
  BY DEF Custody, Apart, Accepted
<1>2. \A q \in Probes : events'[q] = IF q = p THEN Append(events[p], o) ELSE events[q]
  BY <1>1 DEF Emit, TypeInv, EventInv
<1>3. Reported' = Reported \cup {p}
  <2>1. events[p] \in Seq(Outcomes)
    BY <1>1 DEF TypeInv, EventInv
  <2>2. events'[p] # <<>>
    BY <1>1, <1>2, <2>1, AppendReports
  <2> QED BY <1>1, <1>2, <2>2 DEF Reported
<1>4. Apart'
  BY DEF Custody, Apart, HeldApart
<1>5. Covered'
  <2> SUFFICES ASSUME Room
               PROVE  /\ \A q \in Accepted' \ Reported' : \E i \in Hands : q \in Hold(i)'
                      /\ \A i \in Hands : Hold(i)' \cap Reported' = {}
                      /\ Reported' \subseteq Accepted'
                      /\ \A q \in Probes : Len(events'[q]) <= 1
    BY DEF Covered, Room
  <2>1. \A q \in Accepted' \ Reported' : \E i \in Hands : q \in Hold(i)'
    BY <1>3 DEF Custody, Covered
  <2>2. \A i \in Hands : Hold(i)' \cap Reported' = {}
    BY <1>3 DEF Custody, Apart, Covered
  <2>3. Reported' \subseteq Accepted'
    BY <1>3 DEF Custody, Apart, Covered
  <2>4. events[p] = <<>>
    BY <1>1 DEF Custody, Covered, Reported
  <2>5. Len(events'[p]) <= 1
    <3>1. events[p] \in Seq(Outcomes) /\ events'[p] = Append(events[p], o)
      BY <1>1, <1>2 DEF TypeInv, EventInv
    <3> QED BY <3>1, <2>4, AppendReports
  <2>6. \A q \in Probes : Len(events'[q]) <= 1
    BY <1>2, <2>5 DEF Custody, Covered
  <2> QED BY <2>1, <2>2, <2>3, <2>6
<1> QED BY <1>4, <1>5 DEF Custody

\* p is accepted into the table.
LEMMA Enters ==
    ASSUME Custody, NEW p \in Probes \ Accepted,
           Hold("table")' = Hold("table") \cup {p},
           \A i \in Hands \ {"table"} : Hold(i)' = Hold(i),
           Accepted' = Accepted \cup {p}, UNCHANGED events, HeldApart'
    PROVE  Custody'
<1>1. Reported' = Reported /\ "table" \in Hands
  BY DEF Reported, Hands
<1>2. Apart'
  BY <1>1 DEF Custody, Apart, HeldApart
<1>3. Covered'
  <2> SUFFICES ASSUME Room
               PROVE  /\ \A q \in Accepted' \ Reported' : \E i \in Hands : q \in Hold(i)'
                      /\ \A i \in Hands : Hold(i)' \cap Reported' = {}
                      /\ Reported' \subseteq Accepted'
                      /\ \A q \in Probes : Len(events'[q]) <= 1
    BY DEF Covered, Room
  <2>1. \A q \in Accepted' \ Reported' : \E i \in Hands : q \in Hold(i)'
    BY <1>1 DEF Custody, Covered
  <2>2. \A i \in Hands : Hold(i)' \cap Reported' = {}
    BY <1>1 DEF Custody, Covered
  <2> QED BY <1>1, <2>1, <2>2 DEF Custody, Covered
<1> QED BY <1>2, <1>3 DEF Custody

\* Without room a probe may be lost or reported twice, but never held twice.
LEMMA Loses ==
    ASSUME Custody, ~Room, \A i \in Hands : Hold(i)' \subseteq Hold(i),
           Accepted' = Accepted, HeldApart'
    PROVE  Custody'
BY DEF Custody, Apart, Covered, Room, HeldApart

-----------------------------------------------------------------------------
(* What the operations of the table do to the set of pending probes.       *)

LEMMA PendTake ==
    ASSUME TableInv, NEW k \in Keys, probes[k] # NoProbe, RemoveEntry(k)
    PROVE  /\ probes[k] \in Pending
           /\ Pending' = Pending \ {probes[k]}
<1>1. \A j \in Keys : probes'[j] = IF j = k THEN NoProbe ELSE probes[j]
  BY DEF RemoveEntry, TableInv, TableTypeOK
<1>2. probes[k] \in Probes
  BY DEF TableInv, TableTypeOK
<1>3. \A j \in Keys : probes[j] = probes[k] => j = k
  BY <1>2 DEF TableInv, Keyed
<1> QED BY <1>1, <1>2, <1>3, ProbesAssumption DEF Pending

LEMMA PendReserve ==
    ASSUME TableInv, NEW p \in Probes, ReserveProbe(p)
    PROVE  Pending' = Pending \cup {p}
<1>1. PICK s \in SrcPorts :
        /\ probes[<<Target[p], s>>] = NoProbe
        /\ probes' = [probes EXCEPT ![<<Target[p], s>>] = p]
  BY DEF ReserveProbe, FirstFree, FreePorts
<1>2. <<Target[p], s>> \in Keys
  BY TargetAssumption DEF Keys
<1>3. \A j \in Keys : probes'[j] = IF j = <<Target[p], s>> THEN p ELSE probes[j]
  BY <1>1, <1>2 DEF TableInv, TableTypeOK
<1> QED BY <1>1, <1>2, <1>3, ProbesAssumption DEF Pending

LEMMA PendRearm ==
    ASSUME TableInv, NEW p \in Accepted, RearmProbe(p)
    PROVE  Pending' = Pending \cup {p}
<1>1. p \in Probes /\ Key(p) \in Keys
  BY AcceptedKey DEF TableInv
<1>2. probes[Key(p)] = NoProbe /\ probes' = [probes EXCEPT ![Key(p)] = p]
  BY DEF RearmProbe, CanRearm
<1>3. \A j \in Keys : probes'[j] = IF j = Key(p) THEN p ELSE probes[j]
  BY <1>1, <1>2 DEF TableInv, TableTypeOK
<1> QED BY <1>1, <1>2, <1>3, ProbesAssumption DEF Pending

LEMMA PendRemoveAll ==
    ASSUME TableInv, NEW S, RemoveAll(S)
    PROVE  Pending' = Pending \ S
BY ProbesAssumption DEF RemoveAll, Pending

-----------------------------------------------------------------------------
(* Steps after which every hand holds what it held before.                 *)

LEMMA Quiet ==
    ASSUME Custody, UNCHANGED <<probes, srcPort, held, expired, drained, events>>,
           \A q \in Probes : scan'[q] = "emit" <=> scan[q] = "emit",
           InRecv' = InRecv, InRetry' = InRetry, InPipe' = InPipe
    PROVE  Custody'
<1>1. Pending' = Pending /\ Accepted' = Accepted
  BY DEF Pending, Accepted
<1>2. InCallers' = InCallers
  BY DEF InCallers
<1>3. \A h \in Hands : Hold(h)' = Hold(h)
  BY <1>1, <1>2, HandsAre DEF Hands
<1>4. HeldApart'
  BY DEF Custody, Apart, HeldApart
<1>5. "table" \in Hands /\ "recv" \in Hands /\ "table" # "recv"
  BY DEF Hands
<1>6. {} \in SUBSET Hold("table") /\ Hold("table")' = Hold("table") \ {}
      /\ Hold("recv")' = Hold("recv") \cup {}
  BY <1>3, <1>5
<1> QED BY <1>1, <1>3, <1>4, <1>5, <1>6, Passes

LEMMA LocalKept ==
    ASSUME LocalInv,
           UNCHANGED <<retryChan, retried, swPc, expired, swProbe, closeStep, drained>>
    PROVE  LocalInv'
BY DEF LocalInv, Room

\* Cancelling a context touches nothing else.
LEMMA Releases ==
    ASSUME NEW S, Release(S)
    PROVE  UNCHANGED <<probes, nextSrcPort, srcPort, sentAt, retried, retry, tableDone>>
BY DEF Release, CancelContexts

-----------------------------------------------------------------------------
(* The callers.                                                            *)

LEMMA QuietCalls ==
    ASSUME HandInv, NEW p \in Probes,
           Scan(p) \/ Send(p) \/ StoreRetry(p) \/ CallerCancel(p) \/ PropagateCancel(p) \/ Clock(p)
    PROVE  Custody' /\ LocalInv'
<1>1. UNCHANGED <<probes, srcPort, retried, held, events>>
  BY Releases DEF Scan, Send, StoreRetry, CallerCancel, PropagateCancel, Clock, tableVars,
     callVars, SetRetry, CancelContexts, Elapse
<1>2. UNCHANGED <<recvVars, sweepVars, retryVars, pipeVars, closeVars>>
  BY DEF Scan, Send, StoreRetry, CallerCancel, PropagateCancel, Clock, CallUnchanged
<1>3. \A q \in Probes : scan'[q] = "emit" <=> scan[q] = "emit"
  BY DEF Scan, Send, StoreRetry, CallerCancel, PropagateCancel, Clock, GotoScan, callVars,
     HandInv, TypeInv, CallInv, CallTypeOK
<1>4. InRecv' = InRecv /\ InRetry' = InRetry /\ InPipe' = InPipe
  BY <1>2 DEF InRecv, InRetry, InPipe, recvVars, retryVars, pipeVars
<1> QED BY <1>1, <1>2, <1>3, <1>4, Quiet, LocalKept DEF HandInv, sweepVars, retryVars, closeVars

LEMMA HandsReserve ==
    ASSUME HandInv, NEW p \in Probes, Reserve(p)
    PROVE  Custody' /\ LocalInv'
<1>1. UNCHANGED <<recvVars, sweepVars, retryVars, pipeVars, closeVars, held, events>>
  BY DEF Reserve, CallUnchanged
<1>2. \A q \in Probes : scan'[q] = "emit" <=> scan[q] = "emit"
  BY DEF Reserve, GotoScan, HandInv, TypeInv, CallInv, CallTypeOK
<1>3. InRecv' = InRecv /\ InRetry' = InRetry /\ InPipe' = InPipe
  BY <1>1 DEF InRecv, InRetry, InPipe, recvVars, retryVars, pipeVars
<1>4. UNCHANGED retried
  BY Releases DEF Reserve, ReserveProbe
<1>5. LocalInv'
  BY <1>1, <1>4, LocalKept DEF HandInv, sweepVars, retryVars, closeVars
<1>6. CASE ReserveProbe(p)
  <2>1. p \notin Accepted
    BY DEF Reserve, HandInv, TypeInv, CallInv
  <2>2. Pending' = Pending \cup {p} /\ Accepted' = Accepted \cup {p}
    BY <1>6, <2>1, PendReserve, TableReserve DEF HandInv, TypeInv
  <2>3. InCallers' = InCallers /\ HeldApart'
    BY <1>1, <1>2 DEF InCallers, HeldApart, HandInv, Custody, Apart
  <2>4. \A i \in Hands \ {"table"} : Hold(i)' = Hold(i)
    BY <1>1, <1>3, <2>3, HandsAre DEF Hands, sweepVars, closeVars
  <2> QED BY <1>1, <1>5, <2>1, <2>2, <2>3, <2>4, HandsAre, Enters DEF HandInv
<1>7. CASE Release({p})
  BY <1>1, <1>2, <1>3, <1>5, <1>7, Releases, Quiet DEF HandInv, sweepVars, closeVars
<1> QED BY <1>6, <1>7 DEF Reserve

LEMMA HandsDropUnsent ==
    ASSUME HandInv, NEW p \in Probes, DropUnsent(p)
    PROVE  Custody' /\ LocalInv'
<1>1. UNCHANGED <<recvVars, sweepVars, retryVars, pipeVars, closeVars, events>>
  BY DEF DropUnsent, CallUnchanged
<1>2. InRecv' = InRecv /\ InRetry' = InRetry /\ InPipe' = InPipe
  BY <1>1 DEF InRecv, InRetry, InPipe, recvVars, retryVars, pipeVars
<1>3. UNCHANGED <<srcPort, retried>>
  BY Releases DEF DropUnsent, DropProbe, TakeProbe
<1>4. LocalInv'
  BY <1>1, <1>3, LocalKept DEF HandInv, sweepVars, retryVars, closeVars
<1>5. CASE probes[Key(p)] = NoProbe
  <2>1. UNCHANGED <<probes, held>>
    BY <1>5, Releases DEF DropUnsent
  <2>2. \A q \in Probes : scan'[q] = "emit" <=> scan[q] = "emit"
    BY <1>5 DEF DropUnsent, GotoScan, HandInv, TypeInv, CallInv, CallTypeOK
  <2> QED BY <1>1, <1>2, <1>3, <1>4, <2>1, <2>2, Quiet DEF HandInv, sweepVars, closeVars
<1>6. CASE probes[Key(p)] # NoProbe
  <2> DEFINE x == probes[Key(p)]
  <2>1. Key(p) \in Keys
    BY AcceptedKey DEF DropUnsent, HandInv, TypeInv, TableInv, CallInv, Past
  <2>2. RemoveEntry(Key(p)) /\ scan[p] = "drop" /\ GotoScan(p, "emit") /\ held' = [held EXCEPT ![p] = x]
    BY <1>6 DEF DropUnsent, DropProbe, TakeProbe
  <2>3. x \in Pending /\ Pending' = Pending \ {x}
    BY <1>6, <2>1, <2>2, PendTake DEF HandInv, TypeInv
  <2>4. \A q \in Probes : /\ scan'[q] = "emit" <=> scan[q] = "emit" \/ q = p
                          /\ held'[q] = IF q = p THEN x ELSE held[q]
    BY <2>2 DEF GotoScan, HandInv, TypeInv, CallInv, CallTypeOK
  <2>5. InCallers' = InCallers \cup {x}
    BY <2>2, <2>4 DEF InCallers
  <2>6. x \notin InCallers
    BY <2>3, HandsAre DEF HandInv, Custody, Apart, Hands
  <2>7. HeldApart'
    BY <2>4, <2>6 DEF HeldApart, InCallers, HandInv, Custody, Apart
  <2>8. \A i \in Hands \ {"table", "caller"} : Hold(i)' = Hold(i)
    BY <1>1, <1>2, HandsAre DEF Hands, sweepVars, closeVars
  <2>9. "table" \in Hands /\ "caller" \in Hands /\ "table" # "caller" /\ {x} \in SUBSET Hold("table")
    BY <2>3, HandsAre DEF Hands
  <2>10. Accepted' = Accepted
    BY <1>3 DEF Accepted
  <2>11. Hold("table")' = Hold("table") \ {x} /\ Hold("caller")' = Hold("caller") \cup {x}
    BY <2>3, <2>5, HandsAre
  <2> QED BY <1>1, <1>4, <2>7, <2>8, <2>9, <2>10, <2>11, Passes DEF HandInv
<1> QED BY <1>5, <1>6

LEMMA HandsEmitSendError ==
    ASSUME HandInv, NEW p \in Probes, EmitSendError(p)
    PROVE  Custody' /\ LocalInv'
<1>1. UNCHANGED <<recvVars, sweepVars, retryVars, pipeVars, closeVars>>
  BY DEF EmitSendError, CallUnchanged
<1>2. InRecv' = InRecv /\ InRetry' = InRetry /\ InPipe' = InPipe
  BY <1>1 DEF InRecv, InRetry, InPipe, recvVars, retryVars, pipeVars
<1>3. UNCHANGED <<probes, srcPort, retried>> /\ Emit(held[p], "Error")
  BY Releases DEF EmitSendError, Finish
<1>4. LocalInv'
  BY <1>1, <1>3, LocalKept DEF HandInv, sweepVars, retryVars, closeVars
<1>5. \A q \in Probes : /\ scan'[q] = "emit" <=> scan[q] = "emit" /\ q # p
                        /\ q # p => held'[q] = held[q]
  BY DEF EmitSendError, GotoScan, HandInv, TypeInv, CallInv, CallTypeOK
<1>6. HeldApart'
  BY <1>5 DEF HeldApart, HandInv, Custody, Apart
<1>7. InCallers' = InCallers \ {held[p]} /\ held[p] \in InCallers
  BY <1>5 DEF InCallers, EmitSendError, HandInv, Custody, Apart
<1>8. \A i \in Hands \ {"caller"} : Hold(i)' = Hold(i)
  <2>1. Pending' = Pending
    BY <1>3 DEF Pending
  <2> QED BY <1>1, <1>2, <2>1, HandsAre DEF Hands, sweepVars, closeVars
<1>9. "caller" \in Hands /\ held[p] \in Hold("caller") /\ Hold("caller")' = Hold("caller") \ {held[p]}
  BY <1>7, HandsAre DEF Hands
<1>10. Accepted' = Accepted /\ "Error" \in Outcomes
  BY <1>3 DEF Accepted, Outcomes
<1> QED BY <1>3, <1>4, <1>6, <1>8, <1>9, <1>10, Finishes DEF HandInv

-----------------------------------------------------------------------------
(* recv.                                                                   *)

\* What no step of another goroutine than a caller's changes.
LEMMA CallersKept ==
    ASSUME HandInv, UNCHANGED <<scan, held>>
    PROVE  InCallers' = InCallers /\ HeldApart'
BY DEF InCallers, HeldApart, HandInv, Custody, Apart

LEMMA QuietRecv ==
    ASSUME HandInv, (\E k \in wire : RecvPacket(k)) \/ RecvStop \/ EnqueueCancelled
    PROVE  Custody' /\ LocalInv'
<1>1. UNCHANGED <<tableVars, callVars, sweepVars, retryVars, closeVars, pipeVars, events>>
  BY DEF RecvPacket, RecvStop, EnqueueCancelled, RecvUnchanged
<1>2. InRecv' = InRecv
  BY DEF RecvPacket, RecvStop, EnqueueCancelled, InRecv
<1>3. InRetry' = InRetry /\ InPipe' = InPipe
  BY <1>1 DEF InRetry, InPipe, retryVars, pipeVars
<1> QED BY <1>1, <1>2, <1>3, Quiet, LocalKept
        DEF HandInv, tableVars, callVars, sweepVars, retryVars, closeVars

LEMMA HandsTake ==
    ASSUME HandInv, TakeOpen \/ TakeRst
    PROVE  Custody' /\ LocalInv'
<1>1. UNCHANGED <<callVars, sweepVars, retryVars, closeVars, pipeVars, events>>
  BY DEF TakeOpen, TakeRst, RecvUnchanged
<1>2. InRetry' = InRetry /\ InPipe' = InPipe
  BY <1>1 DEF InRetry, InPipe, retryVars, pipeVars
<1>3. UNCHANGED <<srcPort, retried>> /\ InRecv = {} /\ recvKey \in Keys
  BY DEF TakeOpen, TakeRst, TakeProbe, tableVars, InRecv, HandInv, TypeInv, RecvInv
<1>4. LocalInv'
  BY <1>1, <1>3, LocalKept DEF HandInv, sweepVars, retryVars, closeVars
<1>5. CASE probes[recvKey] = NoProbe
  <2>1. UNCHANGED probes /\ InRecv' = InRecv
    BY <1>3, <1>5 DEF TakeOpen, TakeRst, tableVars, InRecv
  <2> QED BY <1>1, <1>2, <1>3, <1>4, <2>1, Quiet DEF HandInv, callVars, sweepVars, closeVars
<1>6. CASE probes[recvKey] # NoProbe
  <2> DEFINE x == probes[recvKey]
  <2>1. RemoveEntry(recvKey) /\ InRecv' = {x}
    BY <1>6 DEF TakeOpen, TakeRst, TakeProbe, InRecv
  <2>2. x \in Pending /\ Pending' = Pending \ {x}
    BY <1>3, <1>6, <2>1, PendTake DEF HandInv, TypeInv
  <2>3. Accepted' = Accepted /\ InCallers' = InCallers /\ HeldApart'
    BY <1>1, <1>3, CallersKept DEF Accepted, callVars
  <2>4. "table" \in Hands /\ "recv" \in Hands /\ "table" # "recv" /\ {x} \in SUBSET Hold("table")
    BY <2>2, HandsAre DEF Hands
  <2>5. \A i \in Hands \ {"table", "recv"} : Hold(i)' = Hold(i)
    BY <1>1, <1>2, <2>3, HandsAre DEF Hands, sweepVars, closeVars
  <2>6. Hold("table")' = Hold("table") \ {x} /\ Hold("recv")' = Hold("recv") \cup {x}
    BY <1>3, <2>1, <2>2, HandsAre
  <2> QED BY <1>1, <1>4, <2>3, <2>4, <2>5, <2>6, Passes DEF HandInv
<1> QED BY <1>5, <1>6

LEMMA HandsEnqueueOpen ==
    ASSUME HandInv, EnqueueOpen
    PROVE  Custody' /\ LocalInv'
<1>1. UNCHANGED <<tableVars, callVars, sweepVars, retryVars, closeVars, events>>
  BY DEF EnqueueOpen, RecvUnchanged
<1>2. InRetry' = InRetry /\ Pending' = Pending /\ Accepted' = Accepted
  BY <1>1 DEF InRetry, Pending, Accepted, retryVars, tableVars
<1>3. InRecv = {recvProbe} /\ InRecv' = {}
  BY DEF EnqueueOpen, InRecv
<1>4. InPipe' = InPipe \cup {recvProbe}
  BY DEF EnqueueOpen, InPipe, HandInv, TypeInv, RecvInv, PipeTypeOK
<1>5. LocalInv'
  BY <1>1, LocalKept DEF HandInv, tableVars, sweepVars, retryVars, closeVars
<1>6. InCallers' = InCallers /\ HeldApart'
  BY <1>1, CallersKept DEF callVars
<1>7. "recv" \in Hands /\ "pipe" \in Hands /\ "recv" # "pipe" /\ {recvProbe} \in SUBSET Hold("recv")
  BY <1>3, HandsAre DEF Hands
<1>8. \A i \in Hands \ {"recv", "pipe"} : Hold(i)' = Hold(i)
  BY <1>1, <1>2, <1>6, HandsAre DEF Hands, sweepVars, closeVars
<1>9. Hold("recv")' = Hold("recv") \ {recvProbe} /\ Hold("pipe")' = Hold("pipe") \cup {recvProbe}
  BY <1>3, <1>4, HandsAre
<1> QED BY <1>1, <1>2, <1>5, <1>6, <1>7, <1>8, <1>9, Passes DEF HandInv

LEMMA HandsEmitRecv ==
    ASSUME HandInv, EmitRecv
    PROVE  Custody' /\ LocalInv'
<1>1. UNCHANGED <<callVars, sweepVars, retryVars, closeVars, pipeVars>>
  BY DEF EmitRecv, RecvUnchanged
<1>2. PICK o \in {"Aborted", "Closed"} : Finish(recvProbe, o, {})
  BY DEF EmitRecv
<1>3. UNCHANGED <<probes, srcPort, retried>> /\ Emit(recvProbe, o) /\ o \in Outcomes
  BY <1>2, Releases DEF Finish, Outcomes
<1>4. InRecv = {recvProbe} /\ InRecv' = {}
  BY DEF EmitRecv, InRecv
<1>5. InRetry' = InRetry /\ InPipe' = InPipe /\ Pending' = Pending /\ Accepted' = Accepted
  BY <1>1, <1>3 DEF InRetry, InPipe, Pending, Accepted, retryVars, pipeVars
<1>6. LocalInv'
  BY <1>1, <1>3, LocalKept DEF HandInv, sweepVars, retryVars, closeVars
<1>7. InCallers' = InCallers /\ HeldApart'
  BY <1>1, CallersKept DEF callVars
<1>8. "recv" \in Hands /\ recvProbe \in Hold("recv") /\ Hold("recv")' = Hold("recv") \ {recvProbe}
  BY <1>4, HandsAre DEF Hands
<1>9. \A i \in Hands \ {"recv"} : Hold(i)' = Hold(i)
  BY <1>1, <1>5, <1>7, HandsAre DEF Hands, sweepVars, closeVars
<1> QED BY <1>3, <1>5, <1>6, <1>7, <1>8, <1>9, Finishes DEF HandInv

-----------------------------------------------------------------------------
(* The sweeper.                                                            *)

\* What a step of the sweeper leaves to the other goroutines.
LEMMA SweepKeeps ==
    ASSUME HandInv, SweepUnchanged
    PROVE  /\ InCallers' = InCallers /\ HeldApart' /\ InRecv' = InRecv
           /\ InRetry' = InRetry /\ InPipe' = InPipe /\ UNCHANGED <<closeStep, drained>>
BY CallersKept DEF SweepUnchanged, InRecv, InRetry, InPipe, callVars, recvVars, pipeVars, closeVars

LEMMA HandsSweep ==
    ASSUME HandInv, Sweep
    PROVE  Custody' /\ LocalInv'
<1>1. SweepUnchanged /\ UNCHANGED <<srcPort, retried, events, retryChan, swProbe>>
  BY DEF Sweep, RemoveAll
<1>2. Pending' = Pending \ Expired /\ expired = {} /\ expired' = Expired
  BY PendRemoveAll DEF Sweep, HandInv, TypeInv, LocalInv
<1>3. Accepted' = Accepted
  BY <1>1 DEF Accepted
<1>4. LocalInv'
  BY <1>1, SweepKeeps DEF Sweep, NextRound, LocalInv, HandInv
<1>5. "table" \in Hands /\ "sweeper" \in Hands /\ "table" # "sweeper" /\ Expired \in SUBSET Hold("table")
  BY HandsAre DEF Hands, Expired
<1>6. \A i \in Hands \ {"table", "sweeper"} : Hold(i)' = Hold(i)
  BY <1>1, SweepKeeps, HandsAre DEF Hands
<1>7. Hold("table")' = Hold("table") \ Expired /\ Hold("sweeper")' = Hold("sweeper") \cup Expired
  BY <1>2, HandsAre
<1> QED BY <1>1, <1>3, <1>4, <1>5, <1>6, <1>7, SweepKeeps, Passes DEF HandInv

LEMMA HandsFinishExpired ==
    ASSUME HandInv, NEW p \in Probes, FinishExpired(p)
    PROVE  Custody' /\ LocalInv'
<1>1. SweepUnchanged /\ UNCHANGED <<tableVars, expired, events, retryChan>>
  BY DEF FinishExpired
<1>2. LocalInv'
  BY <1>1, SweepKeeps DEF FinishExpired, LocalInv, HandInv, tableVars
<1> QED BY <1>1, <1>2, SweepKeeps, Quiet DEF HandInv, tableVars, SweepUnchanged, callVars

LEMMA HandsRearm ==
    ASSUME HandInv, Rearm
    PROVE  Custody' /\ LocalInv'
<1>1. SweepUnchanged /\ UNCHANGED <<events, retryChan, swProbe>> /\ swPc = "rearm"
  BY DEF Rearm
<1>2. swProbe \in expired \ retried /\ swProbe \in Accepted /\ swProbe \notin retryChan
  BY <1>1 DEF HandInv, LocalInv, TypeInv, SweepInv
<1>3. CASE CanRearm(swProbe)
  <2>1. RearmProbe(swProbe) /\ expired' = expired \ {swProbe} /\ swPc' = "requeue"
    BY <1>3 DEF Rearm
  <2>2. Pending' = Pending \cup {swProbe} /\ Accepted' = Accepted
    BY <1>2, <2>1, PendRearm DEF RearmProbe, Accepted, HandInv, TypeInv
  <2>3. LocalInv'
    BY <1>1, <1>2, <2>1, SweepKeeps DEF RearmProbe, LocalInv, HandInv
  <2>4. "table" \in Hands /\ "sweeper" \in Hands /\ "table" # "sweeper" /\ {swProbe} \in SUBSET Hold("sweeper")
    BY <1>2, HandsAre DEF Hands
  <2>5. \A i \in Hands \ {"sweeper", "table"} : Hold(i)' = Hold(i)
    BY <1>1, SweepKeeps, HandsAre DEF Hands
  <2>6. Hold("sweeper")' = Hold("sweeper") \ {swProbe} /\ Hold("table")' = Hold("table") \cup {swProbe}
    BY <2>1, <2>2, HandsAre
  <2> QED BY <1>1, <2>2, <2>3, <2>4, <2>5, <2>6, SweepKeeps, Passes DEF HandInv
<1>4. CASE ~CanRearm(swProbe)
  <2>1. UNCHANGED <<expired, tableVars>> /\ swPc' = "emit"
    BY <1>4 DEF Rearm
  <2>2. LocalInv'
    BY <1>1, <1>2, <2>1, SweepKeeps DEF LocalInv, HandInv, tableVars
  <2> QED BY <1>1, <2>1, <2>2, SweepKeeps, Quiet DEF HandInv, tableVars, SweepUnchanged, callVars
<1> QED BY <1>3, <1>4

LEMMA RoomForOne ==
    ASSUME HandInv, Room, swPc = "requeue"
    PROVE  Cardinality(retryChan) < RetryCap
<1>1. swProbe \in Probes /\ swProbe \notin retryChan /\ retryChan \subseteq Probes
  BY DEF HandInv, LocalInv, TypeInv, SweepInv, RetryInv, RetryTypeOK, Accepted
<1>2. Cardinality(retryChan) # Cardinality(Probes) /\ Cardinality(retryChan) <= Cardinality(Probes)
      /\ IsFiniteSet(retryChan)
  BY <1>1, FS_Subset, FiniteProbes
<1>3. Cardinality(retryChan) \in Nat /\ Cardinality(Probes) \in Nat
  BY <1>2, FS_CardinalityType, FiniteProbes
<1> QED BY <1>2, <1>3, CapsAssumption DEF Room

LEMMA HandsRequeue ==
    ASSUME HandInv, Requeue
    PROVE  Custody' /\ LocalInv'
<1>1. SweepUnchanged /\ UNCHANGED <<srcPort, retried, expired, events>> /\ swPc = "requeue"
  BY DEF Requeue, tableVars
<1>2. swProbe \in Accepted /\ swProbe \notin retryChan
  BY <1>1 DEF HandInv, LocalInv, TypeInv, SweepInv
<1>3. CASE Cardinality(retryChan) < RetryCap
  <2>1. UNCHANGED probes /\ retryChan' = retryChan \cup {swProbe} /\ swPc' = NextRound(expired)
    BY <1>3 DEF Requeue, tableVars
  <2>2. LocalInv'
    <3>1. swProbe \in retried
      BY <1>1 DEF HandInv, LocalInv
    <3> QED BY <1>1, <2>1, <3>1, SweepKeeps DEF NextRound, LocalInv, HandInv
  <2> QED BY <1>1, <2>1, <2>2, SweepKeeps, Quiet DEF HandInv, SweepUnchanged, callVars
<1>4. CASE ~(Cardinality(retryChan) < RetryCap)
  <2>1. ~Room
    BY <1>1, <1>4, RoomForOne
  <2>2. RemoveEntry(Key(swProbe)) /\ UNCHANGED retryChan /\ swPc' = "emit"
    BY <1>4 DEF Requeue
  <2>3. LocalInv'
    BY <1>1, <2>1, <2>2, SweepKeeps DEF LocalInv, HandInv, Room
  <2>4. Pending' \subseteq Pending /\ Accepted' = Accepted
    BY <1>1, <2>2, ProbesAssumption DEF RemoveEntry, Pending, Accepted, HandInv, TypeInv, TableInv, TableTypeOK
  <2>5. \A i \in Hands : Hold(i)' \subseteq Hold(i)
    BY <1>1, <2>4, SweepKeeps, HandsAre DEF Hands
  <2> QED BY <1>1, <2>1, <2>3, <2>4, <2>5, SweepKeeps, Loses DEF HandInv
<1> QED BY <1>3, <1>4

LEMMA HandsEmitExpired ==
    ASSUME HandInv, EmitExpired
    PROVE  Custody' /\ LocalInv'
<1>1. SweepUnchanged /\ UNCHANGED retryChan /\ swPc = "emit" /\ expired' = expired \ {swProbe}
  BY DEF EmitExpired
<1>2. UNCHANGED <<probes, srcPort, retried>> /\ Emit(swProbe, swOutcome)
  BY Releases DEF EmitExpired, Finish
<1>3. swOutcome \in Outcomes
  BY DEF HandInv, TypeInv, SweepInv, SweepTypeOK
<1>4. LocalInv'
  BY <1>1, <1>2, SweepKeeps DEF EmitExpired, NextRound, LocalInv, HandInv
<1>5. Accepted' = Accepted /\ Pending' = Pending
  BY <1>2 DEF Accepted, Pending
<1>6. \A i \in Hands \ {"sweeper"} : Hold(i)' = Hold(i)
  BY <1>1, <1>5, SweepKeeps, HandsAre DEF Hands
<1>7. Hold("sweeper")' = Hold("sweeper") \ {swProbe} /\ "sweeper" \in Hands
  BY <1>1, HandsAre DEF Hands
<1>8. CASE swProbe \in expired
  <2>1. swProbe \in Hold("sweeper")
    BY <1>8, HandsAre
  <2> QED BY <1>1, <1>2, <1>3, <1>4, <1>5, <1>6, <1>7, <2>1, SweepKeeps, Finishes DEF HandInv
<1>9. CASE swProbe \notin expired
  <2>1. ~Room
    BY <1>1, <1>9 DEF HandInv, LocalInv
  <2> QED BY <1>1, <1>4, <1>5, <1>6, <1>7, <2>1, SweepKeeps, Loses DEF HandInv
<1> QED BY <1>8, <1>9

-----------------------------------------------------------------------------
(* retryLoop.                                                              *)

LEMMA QuietRetry ==
    ASSUME HandInv,
           RetryExit \/ (\E p \in Probes : RetryReceive(p)) \/ RetryLimit \/ RetryTouch \/ Resend
    PROVE  Custody' /\ LocalInv'
<1>1. UNCHANGED <<probes, srcPort, retried, events>>
  BY DEF RetryExit, RetryReceive, RetryLimit, RetryTouch, Resend, TouchProbe, tableVars
<1>2. UNCHANGED <<scan, held, recvVars, sweepVars, pipeVars, closeVars>>
  BY DEF RetryExit, RetryReceive, RetryLimit, RetryTouch, Resend, RetryUnchanged, callVars
<1>3. rtPc # "emit" /\ rtPc' # "emit" /\ retryChan' \subseteq retryChan
  BY DEF RetryExit, RetryReceive, RetryLimit, RetryTouch, Resend
<1>4. InRecv' = InRecv /\ InRetry' = InRetry /\ InPipe' = InPipe
  BY <1>2, <1>3 DEF InRecv, InRetry, InPipe, recvVars, pipeVars
<1>5. LocalInv'
  BY <1>1, <1>2, <1>3 DEF LocalInv, HandInv, Room, sweepVars, closeVars
<1> QED BY <1>1, <1>2, <1>4, <1>5, Quiet DEF HandInv, sweepVars, closeVars

LEMMA HandsRetryDrop ==
    ASSUME HandInv, RetryDrop
    PROVE  Custody' /\ LocalInv'
<1>1. UNCHANGED <<scan, held, recvVars, sweepVars, pipeVars, closeVars, events, retryChan>>
  BY DEF RetryDrop, RetryUnchanged, callVars
<1>2. InRecv' = InRecv /\ InPipe' = InPipe
  BY <1>1 DEF InRecv, InPipe, recvVars, pipeVars
<1>3. UNCHANGED <<srcPort, retried>> /\ InRetry = {}
  BY DEF RetryDrop, DropProbe, TakeProbe, tableVars, InRetry
<1>4. LocalInv'
  BY <1>1, <1>3, LocalKept DEF HandInv, sweepVars, closeVars
<1>5. CASE probes[Key(rtProbe)] = NoProbe
  <2>1. UNCHANGED probes /\ InRetry' = InRetry
    BY <1>3, <1>5 DEF RetryDrop, InRetry, tableVars
  <2> QED BY <1>1, <1>2, <1>3, <1>4, <2>1, Quiet DEF HandInv, sweepVars, closeVars
<1>6. CASE probes[Key(rtProbe)] # NoProbe
  <2> DEFINE x == probes[Key(rtProbe)]
  <2>1. Key(rtProbe) \in Keys
    BY AcceptedKey DEF RetryDrop, HandInv, TypeInv, TableInv, RetryInv
  <2>2. RemoveEntry(Key(rtProbe)) /\ InRetry' = {x}
    BY <1>6 DEF RetryDrop, DropProbe, TakeProbe, InRetry
  <2>3. x \in Pending /\ Pending' = Pending \ {x}
    BY <1>6, <2>1, <2>2, PendTake DEF HandInv, TypeInv
  <2>4. Accepted' = Accepted /\ InCallers' = InCallers /\ HeldApart'
    BY <1>1, <1>3, CallersKept DEF Accepted
  <2>5. "table" \in Hands /\ "retry" \in Hands /\ "table" # "retry" /\ {x} \in SUBSET Hold("table")
    BY <2>3, HandsAre DEF Hands
  <2>6. \A i \in Hands \ {"table", "retry"} : Hold(i)' = Hold(i)
    BY <1>1, <1>2, <2>4, HandsAre DEF Hands, sweepVars, closeVars
  <2>7. Hold("table")' = Hold("table") \ {x} /\ Hold("retry")' = Hold("retry") \cup {x}
    BY <1>3, <2>2, <2>3, HandsAre
  <2> QED BY <1>1, <1>4, <2>4, <2>5, <2>6, <2>7, Passes DEF HandInv
<1> QED BY <1>5, <1>6

LEMMA HandsEmitRetryError ==
    ASSUME HandInv, EmitRetryError
    PROVE  Custody' /\ LocalInv'
<1>1. UNCHANGED <<scan, held, recvVars, sweepVars, pipeVars, closeVars, retryChan>>
  BY DEF EmitRetryError, RetryUnchanged, callVars
<1>2. PICK o \in {"Aborted", "Error"} : Finish(rtProbe, o, {})
  BY DEF EmitRetryError
<1>3. UNCHANGED <<probes, srcPort, retried>> /\ Emit(rtProbe, o) /\ o \in Outcomes
  BY <1>2, Releases DEF Finish, Outcomes
<1>4. InRetry = {rtProbe} /\ InRetry' = {}
  BY DEF EmitRetryError, InRetry
<1>5. InRecv' = InRecv /\ InPipe' = InPipe /\ Pending' = Pending /\ Accepted' = Accepted
  BY <1>1, <1>3 DEF InRecv, InPipe, Pending, Accepted, recvVars, pipeVars
<1>6. LocalInv'
  BY <1>1, <1>3, LocalKept DEF HandInv, sweepVars, closeVars
<1>7. "retry" \in Hands /\ rtProbe \in Hold("retry") /\ Hold("retry")' = Hold("retry") \ {rtProbe}
  BY <1>4, HandsAre DEF Hands
<1>8. \A i \in Hands \ {"retry"} : Hold(i)' = Hold(i)
  BY <1>1, <1>5, CallersKept, HandsAre DEF Hands, sweepVars, closeVars
<1> QED BY <1>1, <1>3, <1>5, <1>6, <1>7, <1>8, CallersKept, Finishes DEF HandInv

-----------------------------------------------------------------------------
(* The pipeline, Close and Wait.                                           *)

LEMMA QuietPipe ==
    ASSUME HandInv, NEW p \in Probes,
           Pipeline(p) \/ EmitCheck(p) \/ EmitPush(p) \/ EmitCancelled(p)
    PROVE  Custody' /\ LocalInv'
<1>1. UNCHANGED <<tableVars, events, callVars, recvVars, sweepVars, retryVars, closeVars>>
  BY DEF Pipeline, HandlerTake, TrySubmit, WorkerTake, EmitCheck, EmitPush, EmitCancelled,
     PipeUnchanged
<1>2. InPipe' = InPipe
  BY DEF Pipeline, HandlerTake, TrySubmit, WorkerTake, EmitCheck, EmitPush, EmitCancelled,
     Move, InPipe, HandInv, TypeInv, PipeTypeOK
<1>3. InRecv' = InRecv /\ InRetry' = InRetry
  BY <1>1 DEF InRecv, InRetry, recvVars, retryVars
<1> QED BY <1>1, <1>2, <1>3, Quiet, LocalKept
        DEF HandInv, tableVars, callVars, sweepVars, retryVars, closeVars

LEMMA HandsEmitOpenResult ==
    ASSUME HandInv, NEW p \in Probes, EmitOpenResult(p)
    PROVE  Custody' /\ LocalInv'
<1>1. UNCHANGED <<callVars, recvVars, sweepVars, retryVars, closeVars>> /\ p \in InPipe
  BY DEF EmitOpenResult, PipeUnchanged
<1>2. PICK o \in {"Aborted", "Open"} : Finish(p, o, {})
  BY DEF EmitOpenResult
<1>3. UNCHANGED <<probes, srcPort, retried>> /\ Emit(p, o) /\ o \in Outcomes
  BY <1>2, Releases DEF Finish, Outcomes
<1>4. InPipe' = InPipe \ {p}
  BY DEF EmitOpenResult, Move, InPipe, HandInv, TypeInv, PipeTypeOK
<1>5. InRecv' = InRecv /\ InRetry' = InRetry /\ Pending' = Pending /\ Accepted' = Accepted
  BY <1>1, <1>3 DEF InRecv, InRetry, Pending, Accepted, recvVars, retryVars
<1>6. LocalInv'
  BY <1>1, <1>3, LocalKept DEF HandInv, sweepVars, retryVars, closeVars
<1>7. "pipe" \in Hands /\ p \in Hold("pipe") /\ Hold("pipe")' = Hold("pipe") \ {p}
  BY <1>1, <1>4, HandsAre DEF Hands
<1>8. \A i \in Hands \ {"pipe"} : Hold(i)' = Hold(i)
  BY <1>1, <1>5, CallersKept, HandsAre DEF Hands, callVars, sweepVars, closeVars
<1> QED BY <1>1, <1>3, <1>5, <1>6, <1>7, <1>8, CallersKept, Finishes DEF HandInv, callVars

LEMMA QuietClose ==
    ASSUME HandInv,
           CloseStart \/ CloseCancel \/ CloseHandle \/ CloseTable \/ CloseChan \/ ClosePool
    PROVE  Custody' /\ LocalInv'
<1>1. UNCHANGED <<probes, srcPort, retried, events, drained>>
  BY DEF CloseStart, CloseCancel, CloseHandle, CloseTable, CloseChan, ClosePool, tableVars,
     CancelContexts, MarkDone
<1>2. UNCHANGED <<callVars, recvVars, sweepVars, retryVars, pipeVars>>
  BY DEF CloseStart, CloseCancel, CloseHandle, CloseTable, CloseChan, ClosePool, CloseUnchanged
<1>3. InRecv' = InRecv /\ InRetry' = InRetry /\ InPipe' = InPipe
  BY <1>2 DEF InRecv, InRetry, InPipe, recvVars, retryVars, pipeVars
<1>4. closeStep' <= 4 => closeStep <= 4
  BY DEF CloseStart, CloseCancel, CloseHandle, CloseTable, CloseChan, ClosePool
<1>5. LocalInv'
  BY <1>1, <1>2, <1>4 DEF LocalInv, HandInv, Room, sweepVars, retryVars
<1> QED BY <1>1, <1>2, <1>3, <1>5, Quiet DEF HandInv, callVars, sweepVars

LEMMA HandsCloseDrain ==
    ASSUME HandInv, CloseDrain
    PROVE  Custody' /\ LocalInv'
<1>1. UNCHANGED <<callVars, recvVars, sweepVars, retryVars, pipeVars, events>>
  BY DEF CloseDrain, CloseUnchanged
<1>2. UNCHANGED <<srcPort, retried>> /\ drained = {} /\ drained' = Pending /\ closeStep' = 5
  BY DEF CloseDrain, RemoveAll, HandInv, LocalInv
<1>3. Pending' = {}
  BY PendRemoveAll DEF CloseDrain, HandInv, TypeInv
<1>4. LocalInv'
  BY <1>1, <1>2 DEF LocalInv, HandInv, Room, sweepVars, retryVars
<1>5. InRecv' = InRecv /\ InRetry' = InRetry /\ InPipe' = InPipe /\ Accepted' = Accepted
  BY <1>1, <1>2 DEF InRecv, InRetry, InPipe, Accepted, recvVars, retryVars, pipeVars
<1>6. "table" \in Hands /\ "close" \in Hands /\ "table" # "close" /\ Pending \in SUBSET Hold("table")
  BY HandsAre DEF Hands
<1>7. \A i \in Hands \ {"table", "close"} : Hold(i)' = Hold(i)
  BY <1>1, <1>5, CallersKept, HandsAre DEF Hands, callVars, sweepVars
<1>8. Hold("table")' = Hold("table") \ Pending /\ Hold("close")' = Hold("close") \cup Pending
  BY <1>2, <1>3, HandsAre
<1> QED BY <1>1, <1>4, <1>5, <1>6, <1>7, <1>8, CallersKept, Passes DEF HandInv, callVars

LEMMA HandsCloseEmit ==
    ASSUME HandInv, NEW p \in Probes, CloseEmit(p)
    PROVE  Custody' /\ LocalInv'
<1>1. UNCHANGED <<callVars, recvVars, sweepVars, retryVars, pipeVars, closeStep>>
  BY DEF CloseEmit, CloseUnchanged
<1>2. UNCHANGED <<probes, srcPort, retried>> /\ Emit(p, "Aborted") /\ "Aborted" \in Outcomes
  BY Releases DEF CloseEmit, Finish, Outcomes
<1>3. p \in drained /\ drained' = drained \ {p}
  BY DEF CloseEmit
<1>4. InRecv' = InRecv /\ InRetry' = InRetry /\ InPipe' = InPipe
      /\ Pending' = Pending /\ Accepted' = Accepted
  BY <1>1, <1>2 DEF InRecv, InRetry, InPipe, Pending, Accepted, recvVars, retryVars, pipeVars
<1>5. LocalInv'
  BY <1>1, <1>2, <1>3 DEF LocalInv, HandInv, Room, sweepVars, retryVars
<1>6. "close" \in Hands /\ p \in Hold("close") /\ Hold("close")' = Hold("close") \ {p}
  BY <1>3, HandsAre DEF Hands
<1>7. \A i \in Hands \ {"close"} : Hold(i)' = Hold(i)
  BY <1>1, <1>4, CallersKept, HandsAre DEF Hands, callVars, sweepVars
<1> QED BY <1>1, <1>2, <1>4, <1>5, <1>6, <1>7, CallersKept, Finishes DEF HandInv, callVars

LEMMA QuietRest ==
    ASSUME HandInv, Waiting \/ UNCHANGED vars
    PROVE  Custody' /\ LocalInv'
<1>1. UNCHANGED <<tableVars, events, callVars, recvVars, sweepVars, retryVars, pipeVars, closeVars>>
  BY DEF Waiting, WaitCall, WaitSteps, WaitTable, WaitDeadline, WaitChan, WaitGroups,
     WaitUnchanged, vars
<1>2. InRecv' = InRecv /\ InRetry' = InRetry /\ InPipe' = InPipe
  BY <1>1 DEF InRecv, InRetry, InPipe, recvVars, retryVars, pipeVars
<1> QED BY <1>1, <1>2, Quiet, LocalKept
        DEF HandInv, tableVars, callVars, sweepVars, retryVars, closeVars

-----------------------------------------------------------------------------
LEMMA HandInit == Init => HandInv
<1> SUFFICES ASSUME Init PROVE HandInv
  OBVIOUS
<1>1. Pending = {} /\ Accepted = {}
  BY ProbesAssumption DEF Init, TableInit, Pending, Accepted
<1>2. Reported = {} /\ \A p \in Probes : Len(events[p]) = 0
  BY DEF Init, Reported
<1>3. \A h \in Hands : Hold(h) = {}
  BY <1>1, HandsAre DEF Init, Hands, InCallers, InRecv, InRetry, InPipe
<1>4. Custody
  BY <1>1, <1>2, <1>3 DEF Custody, Apart, Covered, Init
<1>5. LocalInv
  BY DEF Init, LocalInv
<1> QED BY <1>4, <1>5, TypeInit DEF HandInv

LEMMA HandStep == HandInv /\ [Next]_vars => HandInv'
<1> SUFFICES ASSUME HandInv, [Next]_vars PROVE Custody' /\ LocalInv'
  BY TypeStep DEF HandInv
<1>1. ASSUME NEW p \in Probes, Caller(p) \/ CallerCancel(p) \/ PropagateCancel(p) \/ Clock(p)
      PROVE  Custody' /\ LocalInv'
  BY <1>1, QuietCalls, HandsReserve, HandsDropUnsent, HandsEmitSendError DEF Caller
<1>2. ASSUME NEW p \in Probes, Pipeline(p) \/ EmitResult(p) PROVE Custody' /\ LocalInv'
  BY <1>2, QuietPipe, HandsEmitOpenResult DEF EmitResult
<1>3. CASE (\E k \in wire : RecvPacket(k)) \/ Recv
  BY <1>3, QuietRecv, HandsTake, HandsEnqueueOpen, HandsEmitRecv DEF Recv
<1>4. CASE Sweeper
  BY <1>4, HandsSweep, HandsFinishExpired, HandsRearm, HandsRequeue, HandsEmitExpired DEF Sweeper
<1>5. CASE RetryLoop
  BY <1>5, QuietRetry, HandsRetryDrop, HandsEmitRetryError DEF RetryLoop
<1>6. CASE Consume
  <2>1. UNCHANGED <<tableVars, events, callVars, recvVars, sweepVars, retryVars, closeVars, place>>
    BY <1>6 DEF Consume, PipeUnchanged
  <2>2. InRecv' = InRecv /\ InRetry' = InRetry /\ InPipe' = InPipe
    BY <2>1 DEF InRecv, InRetry, InPipe, recvVars, retryVars
  <2> QED BY <2>1, <2>2, Quiet, LocalKept
          DEF HandInv, tableVars, callVars, sweepVars, retryVars, closeVars
<1>7. CASE CloseStart \/ CloseSteps
  BY <1>7, QuietClose, HandsCloseDrain, HandsCloseEmit DEF CloseSteps
<1>8. CASE Waiting \/ Terminated \/ UNCHANGED vars
  BY <1>8, QuietRest DEF Terminated
<1> QED BY <1>1, <1>2, <1>3, <1>4, <1>5, <1>6, <1>7, <1>8 DEF Next, Scanning, Closing

LEMMA HandsAlways == Spec => []HandInv
BY HandInit, HandStep, PTL DEF Spec

\* OnProbeDone is called at most once for a probe, provided the retry queue has
\* room for every probe; the run syn_retry_full shows why it must.
THEOREM ReportedOnce ==
    ASSUME Room
    PROVE  Spec => []AtMostOneEvent
<1>1. HandInv => AtMostOneEvent
  BY DEF HandInv, Custody, Covered, AtMostOneEvent
<1> QED BY <1>1, HandsAlways, PTL

-----------------------------------------------------------------------------
(* OneHolder counts the hands.                                             *)

\* The callers' hands, counted by call, hold a probe once.
LEMMA CallersCount ==
    ASSUME HandInv, NEW p \in Probes
    PROVE  Cardinality({q \in Probes : scan[q] = "emit" /\ held[q] = p}) = One(p \in InCallers)
<1> DEFINE Q == {q \in Probes : scan[q] = "emit" /\ held[q] = p}
<1>1. CASE p \in InCallers
  <2>1. PICK q \in Probes : scan[q] = "emit" /\ held[q] = p
    BY <1>1 DEF InCallers
  <2>2. Q = {q}
    BY <2>1 DEF HandInv, Custody, Apart
  <2> QED BY <1>1, <2>2, FS_Singleton DEF One
<1>2. CASE p \notin InCallers
  <2>1. Q = {}
    BY <1>2 DEF InCallers
  <2> QED BY <1>2, <2>1, FS_EmptySet DEF One
<1> QED BY <1>1, <1>2

\* The seven summands of Holders are the seven hands.
LEMMA HoldersAre ==
    ASSUME HandInv, NEW p \in Probes
    PROVE  Holders(p) = One(p \in Pending) + One(p \in InCallers) + One(p \in InRecv)
                        + One(p \in expired) + One(p \in InRetry) + One(p \in InPipe)
                        + One(p \in drained)
<1>1. One(recvPc \in {"enqueue", "abort", "closed"} /\ recvProbe = p) = One(p \in InRecv)
  BY DEF One, InRecv
<1>2. One(rtPc = "emit" /\ rtProbe = p) = One(p \in InRetry)
  BY DEF One, InRetry
<1> QED BY <1>1, <1>2, CallersCount DEF Holders

\* With room in the retry queue every accepted probe without an event is in
\* exactly one pair of hands and any other probe in none.
THEOREM AlwaysOneHolder ==
    ASSUME Room
    PROVE  Spec => []OneHolder
<1>1. ASSUME HandInv, NEW p \in Probes
      PROVE  Holders(p) = One(p \in Accepted \ Reported)
  <2>1. /\ "table" \in Hands /\ "caller" \in Hands /\ "recv" \in Hands /\ "sweeper" \in Hands
        /\ "retry" \in Hands /\ "pipe" \in Hands /\ "close" \in Hands
    BY DEF Hands
  <2>2. CASE p \in Accepted \ Reported
    <3>1. PICK h \in Hands : p \in Hold(h)
      BY <1>1, <2>2 DEF HandInv, Custody, Covered
    <3>2. \A g \in Hands \ {h} : p \notin Hold(g)
      BY <1>1, <3>1 DEF HandInv, Custody, Apart
    <3>3. \A g \in Hands : One(p \in Hold(g)) = IF g = h THEN 1 ELSE 0
      BY <3>1, <3>2 DEF One
    <3>4. h \in {"table", "caller", "recv", "sweeper", "retry", "pipe", "close"}
      BY DEF Hands
    <3>5. Holders(p) = 1
      BY <1>1, <2>1, <3>3, <3>4, HandsAre, HoldersAre
    <3> QED BY <2>2, <3>5 DEF One
  <2>3. CASE p \notin Accepted \ Reported
    <3>1. \A g \in Hands : p \notin Hold(g)
      BY <1>1, <2>3 DEF HandInv, Custody, Apart, Covered
    <3>2. \A g \in Hands : One(p \in Hold(g)) = 0
      BY <3>1 DEF One
    <3>3. Holders(p) = 0
      BY <1>1, <2>1, <3>2, HandsAre, HoldersAre
    <3> QED BY <2>3, <3>3 DEF One
  <2> QED BY <2>2, <2>3
<1>2. HandInv => OneHolder
  BY <1>1 DEF OneHolder
<1> QED BY <1>2, HandsAlways, PTL

-----------------------------------------------------------------------------
(* The count of open ports, what Close closes and what Wait waits for.     *)

Counting == recvPc \in {"takeOpen", "enqueue"}

\* What Wait saw in flight is in flight or reported, until it saw the count at
\* zero; from then on it is reported.
WaitInv == ~CtxDone =>
    /\ waitPc \in {"chan", "wg"} => dueOpen \subseteq OpenInFlight \cup Reported
    /\ waitPc \in {"pool", "returned"} => dueOpen \subseteq Reported

FlowInv == WgCountsOpenPorts /\ ChannelsOutliveSenders /\ WaitInv

LEMMA PipeCount ==
    ASSUME HandInv
    PROVE  IsFiniteSet(InPipe) /\ Cardinality(InPipe) \in Nat /\ (Cardinality(InPipe) = 0 => InPipe = {})
<1>1. InPipe \subseteq Probes
  BY DEF InPipe
<1>2. IsFiniteSet(InPipe)
  BY <1>1, FiniteProbes, FS_Subset
<1> QED BY <1>2, FS_CardinalityType, FS_EmptySet

\* No step takes an event back.
LEMMA EventsStay ==
    ASSUME HandInv, NEW p, NEW o \in Outcomes, Emit(p, o)
    PROVE  Reported \subseteq Reported'
<1> SUFFICES ASSUME NEW q \in Probes, events[q] # <<>> PROVE events'[q] # <<>>
  BY DEF Reported
<1>1. events[q] \in Seq(Outcomes) /\ Append(events[q], o) # <<>>
  BY AppendReports DEF HandInv, TypeInv, EventInv
<1>2. events'[q] = events[q] \/ events'[q] = Append(events[q], o)
  BY DEF Emit, HandInv, TypeInv, EventInv
<1> QED BY <1>1, <1>2

\* Steps of those who only take from the table and report.
LEMMA FlowOthers ==
    ASSUME HandInv, FlowInv,
           \/ \E p \in Probes : Caller(p) \/ CallerCancel(p) \/ PropagateCancel(p) \/ Clock(p)
           \/ Sweeper \/ RetryLoop \/ UNCHANGED vars
    PROVE  FlowInv'
<1>1. UNCHANGED <<recvPc, recvProbe, place, portProbeWg, closeVars, waitVars>>
  <2>1. CASE \E p \in Probes : Caller(p) \/ CallerCancel(p) \/ PropagateCancel(p) \/ Clock(p)
    BY <2>1 DEF Caller, Scan, Reserve, Send, StoreRetry, DropUnsent, EmitSendError,
       CallerCancel, PropagateCancel, Clock, CallUnchanged, recvVars, pipeVars
  <2>2. CASE Sweeper
    BY <2>2 DEF Sweeper, Sweep, FinishExpired, Rearm, Requeue, EmitExpired, SweepUnchanged,
       recvVars, pipeVars
  <2>3. CASE RetryLoop
    BY <2>3 DEF RetryLoop, RetryExit, RetryReceive, RetryLimit, RetryTouch, Resend, RetryDrop,
       EmitRetryError, RetryUnchanged, recvVars, pipeVars
  <2>4. CASE UNCHANGED vars
    BY <2>4 DEF vars, recvVars, pipeVars
  <2> QED BY <2>1, <2>2, <2>3, <2>4
<1>2. Reported \subseteq Reported'
  <2>1. UNCHANGED events \/ \E p, o : o \in Outcomes /\ Emit(p, o)
    <3>1. CASE \E p \in Probes : Caller(p) \/ CallerCancel(p) \/ PropagateCancel(p) \/ Clock(p)
      BY <3>1 DEF Caller, Scan, Reserve, Send, StoreRetry, DropUnsent, EmitSendError,
         CallerCancel, PropagateCancel, Clock, Finish, Outcomes
    <3>2. CASE Sweeper
      BY <3>2 DEF Sweeper, Sweep, FinishExpired, Rearm, Requeue, EmitExpired, Finish,
         HandInv, TypeInv, SweepInv, SweepTypeOK
    <3>3. CASE RetryLoop
      BY <3>3 DEF RetryLoop, RetryExit, RetryReceive, RetryLimit, RetryTouch, Resend, RetryDrop,
         EmitRetryError, Finish, Outcomes
    <3>4. CASE UNCHANGED vars
      BY <3>4 DEF vars
    <3> QED BY <3>1, <3>2, <3>3, <3>4
  <2>2. CASE UNCHANGED events
    BY <2>2 DEF Reported
  <2>3. CASE \E p, o : o \in Outcomes /\ Emit(p, o)
    BY <2>3, EventsStay
  <2> QED BY <2>1, <2>2, <2>3
<1>3. InPipe' = InPipe /\ OpenInFlight' = OpenInFlight
  BY <1>1 DEF InPipe, OpenInFlight
<1>4. WgCountsOpenPorts' /\ ChannelsOutliveSenders'
  BY <1>1, <1>3 DEF FlowInv, WgCountsOpenPorts, ChannelsOutliveSenders, ChanClosed, PoolClosed, closeVars
<1>5. WaitInv'
  BY <1>1, <1>2, <1>3 DEF FlowInv, WaitInv, CtxDone, closeVars, waitVars
<1> QED BY <1>4, <1>5 DEF FlowInv

LEMMA FlowRecv ==
    ASSUME HandInv, FlowInv, (\E k \in wire : RecvPacket(k)) \/ Recv
    PROVE  FlowInv'
<1>1. UNCHANGED <<closeVars, waitVars>> /\ recvPc # "exit"
  BY DEF RecvPacket, Recv, RecvStop, TakeOpen, TakeRst, EnqueueOpen, EnqueueCancelled, EmitRecv,
     RecvUnchanged
<1>2. ~ChanClosed /\ ~PoolClosed /\ ~ChanClosed' /\ ~PoolClosed'
  BY <1>1 DEF FlowInv, ChannelsOutliveSenders, ChanClosed, PoolClosed, closeVars
<1>3. ChannelsOutliveSenders'
  BY <1>2 DEF ChannelsOutliveSenders
<1>4. WgCountsOpenPorts'
  <2>1. CASE EnqueueOpen
    <3>1. InPipe' = InPipe \cup {recvProbe}
      BY <2>1 DEF EnqueueOpen, InPipe, HandInv, TypeInv, RecvInv, PipeTypeOK
    <3>2. recvProbe \notin InPipe
      <4>1. recvProbe \in Hold("recv") /\ "recv" \in Hands /\ "pipe" \in Hands
        BY <2>1, HandsAre DEF EnqueueOpen, InRecv, Hands
      <4> QED BY <4>1, HandsAre DEF HandInv, Custody, Apart
    <3>3. Cardinality(InPipe') = Cardinality(InPipe) + 1
      BY <3>1, <3>2, PipeCount, FS_AddElement
    <3> QED BY <2>1, <3>3, PipeCount DEF EnqueueOpen, FlowInv, WgCountsOpenPorts
  <2>2. CASE ~EnqueueOpen
    <3>1. InPipe' = InPipe
      BY <2>2 DEF RecvPacket, Recv, RecvStop, TakeOpen, TakeRst, EnqueueCancelled, EmitRecv,
         pipeVars, InPipe
    <3>2. portProbeWg' + (IF recvPc \in {"takeOpen", "enqueue"} THEN 1 ELSE 0)
           = portProbeWg + (IF recvPc' \in {"takeOpen", "enqueue"} THEN 1 ELSE 0)
      BY <2>2 DEF RecvPacket, Recv, RecvStop, TakeOpen, TakeRst, EnqueueCancelled, EmitRecv,
         HandInv, TypeInv, PipeTypeOK
    <3>3. portProbeWg \in Int /\ portProbeWg' \in Int
      BY <2>2 DEF RecvPacket, Recv, RecvStop, TakeOpen, TakeRst, EnqueueCancelled, EmitRecv,
         HandInv, TypeInv, PipeTypeOK
    <3> QED BY <3>1, <3>2, <3>3, PipeCount DEF FlowInv, WgCountsOpenPorts
  <2> QED BY <2>1, <2>2
<1>5. Reported \subseteq Reported'
  <2>1. UNCHANGED events \/ \E p, o : o \in Outcomes /\ Emit(p, o)
    BY DEF RecvPacket, Recv, RecvStop, TakeOpen, TakeRst, EnqueueOpen, EnqueueCancelled, EmitRecv,
       Finish, Outcomes
  <2>2. CASE UNCHANGED events
    BY <2>2 DEF Reported
  <2>3. CASE \E p, o : o \in Outcomes /\ Emit(p, o)
    BY <2>3, EventsStay
  <2> QED BY <2>1, <2>2, <2>3
<1>6. ~CtxDone => OpenInFlight \subseteq OpenInFlight'
  BY DEF RecvPacket, Recv, RecvStop, TakeOpen, TakeRst, EnqueueOpen, EnqueueCancelled, EmitRecv,
     pipeVars, OpenInFlight, InPipe, HandInv, TypeInv, RecvInv, PipeTypeOK
<1>7. WaitInv'
  BY <1>1, <1>5, <1>6 DEF FlowInv, WaitInv, CtxDone, closeVars, waitVars
<1> QED BY <1>3, <1>4, <1>7 DEF FlowInv

LEMMA FlowPipe ==
    ASSUME HandInv, FlowInv,
           Consume \/ \E p \in Probes : Pipeline(p) \/ EmitResult(p)
    PROVE  FlowInv'
<1>1. UNCHANGED <<recvVars, closeVars, waitVars>>
  BY DEF Consume, Pipeline, HandlerTake, TrySubmit, WorkerTake, EmitResult, EmitCheck, EmitPush,
     EmitCancelled, EmitOpenResult, PipeUnchanged
<1>2. CASE \E p \in Probes : EmitOpenResult(p)
  <2>1. PICK p \in Probes : EmitOpenResult(p)
    BY <1>2
  <2>2. p \in InPipe /\ InPipe' = InPipe \ {p}
    BY <2>1 DEF EmitOpenResult, Move, InPipe, HandInv, TypeInv, PipeTypeOK
  <2>3. Cardinality(InPipe') = Cardinality(InPipe) - 1
    BY <2>2, PipeCount, FS_RemoveElement
  <2>4. WgCountsOpenPorts'
    BY <1>1, <2>1, <2>3, PipeCount DEF EmitOpenResult, FlowInv, WgCountsOpenPorts, recvVars
  <2>5. ChannelsOutliveSenders'
    BY <1>1, <2>2 DEF FlowInv, ChannelsOutliveSenders, ChanClosed, PoolClosed, recvVars, closeVars
  <2>6. Reported \cup {p} \subseteq Reported'
    <3>1. PICK o \in Outcomes : Emit(p, o)
      BY <2>1 DEF EmitOpenResult, Finish, Outcomes
    <3>2. events[p] \in Seq(Outcomes) /\ Append(events[p], o) # <<>>
      BY AppendReports DEF HandInv, TypeInv, EventInv
    <3>3. events'[p] = Append(events[p], o)
      BY <3>1 DEF Emit, HandInv, TypeInv, EventInv
    <3> QED BY <3>1, <3>2, <3>3, EventsStay DEF Reported
  <2>7. WaitInv'
    BY <1>1, <2>2, <2>6 DEF FlowInv, WaitInv, CtxDone, OpenInFlight, recvVars, closeVars, waitVars
  <2> QED BY <2>4, <2>5, <2>7 DEF FlowInv
<1>3. CASE ~\E p \in Probes : EmitOpenResult(p)
  <2>1. InPipe' = InPipe /\ UNCHANGED <<events, portProbeWg>>
    BY <1>3 DEF Consume, Pipeline, HandlerTake, TrySubmit, WorkerTake, EmitResult, EmitCheck,
       EmitPush, EmitCancelled, Move, InPipe, HandInv, TypeInv, PipeTypeOK
  <2>2. WgCountsOpenPorts' /\ ChannelsOutliveSenders'
    BY <1>1, <2>1 DEF FlowInv, WgCountsOpenPorts, ChannelsOutliveSenders, ChanClosed, PoolClosed,
       recvVars, closeVars
  <2>3. WaitInv'
    BY <1>1, <2>1 DEF FlowInv, WaitInv, CtxDone, OpenInFlight, Reported, recvVars, closeVars, waitVars
  <2> QED BY <2>2, <2>3 DEF FlowInv
<1> QED BY <1>2, <1>3

LEMMA FlowClose ==
    ASSUME HandInv, FlowInv, CloseStart \/ CloseSteps
    PROVE  FlowInv'
<1> USE DEF CloseStart, CloseSteps, CloseCancel, CloseHandle, CloseTable, CloseDrain, CloseEmit,
            CloseChan, ClosePool
<1>1. UNCHANGED <<recvVars, pipeVars, portProbeWg, waitVars>>
  BY DEF CloseUnchanged
<1>2. InPipe' = InPipe /\ OpenInFlight' = OpenInFlight
  BY <1>1 DEF InPipe, OpenInFlight, recvVars, pipeVars
<1>3. WgCountsOpenPorts'
  BY <1>1, <1>2 DEF FlowInv, WgCountsOpenPorts, recvVars
<1>4. closeStep \in 0 .. 7 /\ closeStep' \in {closeStep, closeStep + 1}
  BY DEF HandInv, TypeInv, CloseTypeOK
<1>5. ChannelsOutliveSenders'
  <2>1. CASE CloseChan
    BY <1>1, <1>2, <2>1 DEF ChannelsOutliveSenders, ChanClosed, PoolClosed, recvVars
  <2>2. CASE ClosePool
    BY <1>1, <1>2, <2>2 DEF FlowInv, ChannelsOutliveSenders, ChanClosed, PoolClosed, recvVars, At, InPipe
  <2>3. CASE ~CloseChan /\ ~ClosePool
    <3>1. closeStep' = closeStep \/ closeStep' <= 5
      BY <2>3
    <3> QED BY <1>1, <1>2, <1>4, <3>1
            DEF FlowInv, ChannelsOutliveSenders, ChanClosed, PoolClosed, recvVars
  <2> QED BY <2>1, <2>2, <2>3
<1>6. Reported \subseteq Reported'
  <2>1. UNCHANGED events \/ \E p, o : o \in Outcomes /\ Emit(p, o)
    BY DEF Finish, Outcomes
  <2>2. CASE UNCHANGED events
    BY <2>2 DEF Reported
  <2>3. CASE \E p, o : o \in Outcomes /\ Emit(p, o)
    BY <2>3, EventsStay
  <2> QED BY <2>1, <2>2, <2>3
<1>7. WaitInv'
  BY <1>1, <1>2, <1>4, <1>6 DEF FlowInv, WaitInv, CtxDone, waitVars
<1> QED BY <1>3, <1>5, <1>7 DEF FlowInv

LEMMA FlowWait ==
    ASSUME HandInv, FlowInv, Waiting
    PROVE  FlowInv'
<1> USE DEF Waiting, WaitCall, WaitSteps, WaitTable, WaitDeadline, WaitChan, WaitGroups
<1>1. WaitUnchanged
  OBVIOUS
<1>2. InPipe' = InPipe /\ OpenInFlight' = OpenInFlight /\ Reported' = Reported
  BY <1>1 DEF WaitUnchanged, InPipe, OpenInFlight, Reported, recvVars, pipeVars
<1>3. WgCountsOpenPorts' /\ ChannelsOutliveSenders'
  BY <1>1, <1>2 DEF WaitUnchanged, FlowInv, WgCountsOpenPorts, ChannelsOutliveSenders,
     ChanClosed, PoolClosed, recvVars, closeVars
<1>4. portProbeWg = 0 => OpenInFlight = {}
  BY PipeCount DEF FlowInv, WgCountsOpenPorts, OpenInFlight
<1>5. WaitInv'
  BY <1>1, <1>2, <1>4 DEF WaitUnchanged, FlowInv, WaitInv, CtxDone, closeVars
<1> QED BY <1>3, <1>5 DEF FlowInv

LEMMA FlowInit == Init => FlowInv
<1> SUFFICES ASSUME Init PROVE FlowInv
  OBVIOUS
<1>1. InPipe = {}
  BY DEF Init, InPipe
<1>2. WgCountsOpenPorts
  BY <1>1, FS_EmptySet DEF Init, WgCountsOpenPorts
<1> QED BY <1>1, <1>2 DEF Init, FlowInv, ChannelsOutliveSenders, ChanClosed, PoolClosed, WaitInv

LEMMA FlowStep == HandInv /\ FlowInv /\ [Next]_vars => FlowInv'
BY FlowOthers, FlowRecv, FlowPipe, FlowClose, FlowWait DEF Next, Scanning, Closing, Terminated

LEMMA FlowAlways == Spec => []FlowInv
BY HandsAlways, FlowInit, FlowStep, PTL DEF Spec

\* The WaitGroup counts the open answers between the packet and the event,
\* through every way the channels, the pool and a cancelled hand-over can go.
THEOREM OpenPortsAreCounted == Spec => []WgCountsOpenPorts
BY FlowAlways, PTL DEF FlowInv

\* Close closes no channel on which a goroutine of the scanner can still send.
THEOREM ClosesAfterSenders == Spec => []ChannelsOutliveSenders
BY FlowAlways, PTL DEF FlowInv

\* Wait returns, unless the scanner is cancelled under it, only after every open
\* port that was in flight when it saw the table empty has its event.
THEOREM WaitCoversOpen == Spec => []WaitCoversOpenPorts
<1>1. FlowInv => WaitCoversOpenPorts
  BY DEF FlowInv, WaitInv, WaitCoversOpenPorts
<1> QED BY <1>1, FlowAlways, PTL

-----------------------------------------------------------------------------
(* Entries that come back to the table.                                    *)

LEMMA OnlyRemoved ==
    ASSUME TableInv, UNCHANGED probes \/ (\E k \in Keys : RemoveEntry(k)) \/ (\E S : RemoveAll(S))
    PROVE  Pending' \subseteq Pending
<1>1. CASE UNCHANGED probes
  BY <1>1 DEF Pending
<1>2. CASE \E k \in Keys : RemoveEntry(k)
  BY <1>2, ProbesAssumption DEF Pending, RemoveEntry, TableInv, TableTypeOK
<1>3. CASE \E S : RemoveAll(S)
  BY <1>3, PendRemoveAll
<1> QED BY <1>1, <1>2, <1>3

\* Only a reservation and the sweeper's Rearm put an entry into the table.
LEMMA EntriesStay ==
    ASSUME HandInv, [Next]_vars,
           ~\E q \in Probes : Reserve(q) /\ ReserveProbe(q),
           ~(Rearm /\ RearmProbe(swProbe))
    PROVE  Pending' \subseteq Pending
<1> DEFINE Goal == UNCHANGED probes \/ (\E k \in Keys : RemoveEntry(k)) \/ (\E S : RemoveAll(S))
<1> SUFFICES Goal BY OnlyRemoved DEF HandInv, TypeInv
<1>1. ASSUME NEW q \in Probes, DropUnsent(q) PROVE Goal
  <2>1. Key(q) \in Keys
    BY <1>1, AcceptedKey DEF DropUnsent, HandInv, TypeInv, TableInv, CallInv, Past
  <2> QED BY <1>1, <2>1, Releases DEF DropUnsent, DropProbe, TakeProbe
<1>2. ASSUME NEW q \in Probes, Caller(q) \/ CallerCancel(q) \/ PropagateCancel(q) \/ Clock(q)
      PROVE  Goal
  BY <1>1, <1>2, Releases DEF Caller, Scan, Reserve, Send, StoreRetry, EmitSendError, Finish,
     CallerCancel, PropagateCancel, Clock, SetRetry, CancelContexts, Elapse, tableVars
<1>3. CASE (\E k \in wire : RecvPacket(k)) \/ Recv
  BY <1>3, Releases DEF RecvPacket, Recv, RecvStop, TakeOpen, TakeRst, EnqueueOpen,
     EnqueueCancelled, EmitRecv, Finish, TakeProbe, tableVars, HandInv, TypeInv, RecvInv
<1>4. CASE Sweeper
  <2>1. CASE Requeue
    <3>1. Key(swProbe) \in Keys
      BY <2>1, AcceptedKey DEF Requeue, HandInv, TypeInv, TableInv, SweepInv
    <3> QED BY <2>1, <3>1 DEF Requeue, tableVars
  <2> QED BY <1>4, <2>1, Releases
          DEF Sweeper, Sweep, FinishExpired, Rearm, EmitExpired, Finish, tableVars
<1>5. CASE RetryLoop
  <2>1. CASE RetryDrop
    <3>1. Key(rtProbe) \in Keys
      BY <2>1, AcceptedKey DEF RetryDrop, HandInv, TypeInv, TableInv, RetryInv
    <3> QED BY <2>1, <3>1 DEF RetryDrop, DropProbe, TakeProbe, tableVars
  <2> QED BY <1>5, <2>1, Releases DEF RetryLoop, RetryExit, RetryReceive, RetryLimit,
         RetryTouch, TouchProbe, Resend, EmitRetryError, Finish, tableVars
<1>6. CASE Consume \/ \E q \in Probes : Pipeline(q) \/ EmitResult(q)
  BY <1>6, Releases DEF Consume, Pipeline, HandlerTake, TrySubmit, WorkerTake, EmitResult,
     EmitCheck, EmitPush, EmitCancelled, EmitOpenResult, Finish, tableVars
<1>7. CASE CloseStart \/ CloseSteps
  BY <1>7, Releases DEF CloseStart, CloseSteps, CloseCancel, CloseHandle, CloseTable,
     CloseDrain, CloseEmit, CloseChan, ClosePool, Finish, CancelContexts, MarkDone, tableVars
<1>8. CASE Waiting \/ Terminated \/ UNCHANGED vars
  BY <1>8 DEF Waiting, WaitCall, WaitSteps, WaitTable, WaitDeadline, WaitChan, WaitGroups,
     WaitUnchanged, Terminated, vars, tableVars
<1> QED BY <1>2, <1>3, <1>4, <1>5, <1>6, <1>7, <1>8 DEF Next, Scanning, Closing

LEMMA RearmStep ==
    ASSUME HandInv, [Next]_vars, NEW p \in Accepted, p \notin Pending, p \in Pending'
    PROVE  p \notin retried
<1>1. CASE \E q \in Probes : Reserve(q) /\ ReserveProbe(q)
  <2>1. PICK q \in Probes : Reserve(q) /\ ReserveProbe(q)
    BY <1>1
  <2>2. q \notin Accepted /\ Pending' = Pending \cup {q}
    BY <2>1, PendReserve DEF Reserve, HandInv, TypeInv, CallInv
  <2> QED BY <2>2
<1>2. CASE Rearm /\ RearmProbe(swProbe)
  <2>1. Pending' = Pending \cup {swProbe} /\ swProbe \notin retried
    BY <1>2, PendRearm DEF Rearm, HandInv, LocalInv, TypeInv, SweepInv
  <2> QED BY <2>1
<1> QED BY <1>1, <1>2, EntriesStay

\* An entry that left the table comes back at most once: only the sweeper puts
\* one back, and never one it has put back before.
THEOREM RearmsOnce == Spec => RearmedOnce
<1>1. HandInv /\ [Next]_vars => [\A p \in Accepted : p \notin Pending /\ p \in Pending' => p \notin retried]_vars
  BY RearmStep
<1> QED BY <1>1, HandsAlways, PTL DEF Spec, RearmedOnce

-----------------------------------------------------------------------------
(* The promise of port.IpOption.                                           *)

\* No retry of one probe can drop the entry of another under its own context's
\* error: either there are no calls of ProbeContext or nothing is retried.
NoStaleRetry == Linked = {} \/ SampleEvery = 0

\* A result waits for retChan in the pipeline; afterwards it was delivered or
\* its context is cancelled, and it stays in the pipeline until the event.
DeliveryInv == \A p \in Probes :
    /\ emitPc[p] = "select" => p \in InPipe
    /\ emitPc[p] = "emit" => p \in InPipe \cup Reported
    /\ p \in delivered => emitPc[p] = "emit"
    /\ p \in InPipe /\ emitPc[p] = "emit" => p \in delivered \cup cancelled

\* Whoever is about to report Aborted has a reason.
CancelReason ==
    /\ IsDone \/ cancelled \subseteq Linked
    /\ tableDone => IsDone
    /\ recvPc = "abort" => IsDone

SweepReason ==
    /\ swOutcome \in {"NoResponse", "Aborted"}
    /\ swPc \in {"rearm", "requeue"} => swOutcome = "NoResponse"
    /\ swPc = "emit" /\ swOutcome = "Aborted" => IsDone \/ swProbe \in cancelled

RetryReason == NoStaleRetry /\ rtAbort => IsDone

\* Without sampling nothing reaches retryLoop.
IdleRetryInv == SampleEvery = 0 =>
    /\ \A p \in Probes : scan[p] \notin {"setRetry", "setRetryErr"}
    /\ retry = {} /\ retryChan = {}
    /\ swPc \notin {"rearm", "requeue"}
    /\ rtPc \in {"select", "exit"} /\ rtAbort = FALSE

\* Cancellations and events are never taken back, and Close goes on.
Grows ==
    /\ cancelled \subseteq cancelled'
    /\ UNCHANGED events \/ \E p : \E o \in Outcomes : Emit(p, o)
    /\ closeStep' \in {closeStep, closeStep + 1}

LEMMA GrowStep ==
    ASSUME HandInv, [Next]_vars
    PROVE  Grows
<1> USE DEF Grows, Outcomes, Finish, Release, CancelContexts
<1>1. ASSUME NEW p \in Probes, Caller(p) \/ CallerCancel(p) \/ PropagateCancel(p) \/ Clock(p)
      PROVE  Grows
  BY <1>1 DEF Caller, Scan, Reserve, Send, StoreRetry, DropUnsent, EmitSendError, CallerCancel,
     PropagateCancel, Clock, CallUnchanged, closeVars, tableVars, ReserveProbe, SetRetry,
     DropProbe, TakeProbe, Elapse
<1>2. CASE (\E k \in wire : RecvPacket(k)) \/ Recv
  BY <1>2 DEF RecvPacket, Recv, RecvStop, TakeOpen, TakeRst, EnqueueOpen, EnqueueCancelled,
     EmitRecv, RecvUnchanged, closeVars, tableVars, TakeProbe
<1>3. CASE Sweeper
  BY <1>3 DEF Sweeper, Sweep, FinishExpired, Rearm, Requeue, EmitExpired, SweepUnchanged,
     closeVars, tableVars, RemoveAll, RearmProbe, HandInv, TypeInv, SweepInv, SweepTypeOK
<1>4. CASE RetryLoop
  BY <1>4 DEF RetryLoop, RetryExit, RetryReceive, RetryLimit, RetryTouch, Resend, RetryDrop,
     EmitRetryError, RetryUnchanged, closeVars, tableVars, TouchProbe, DropProbe, TakeProbe
<1>5. CASE Consume \/ \E p \in Probes : Pipeline(p) \/ EmitResult(p)
  BY <1>5 DEF Consume, Pipeline, HandlerTake, TrySubmit, WorkerTake, EmitResult, EmitCheck,
     EmitPush, EmitCancelled, EmitOpenResult, PipeUnchanged, closeVars, tableVars
<1>6. CASE CloseStart \/ CloseSteps
  BY <1>6 DEF CloseStart, CloseSteps, CloseCancel, CloseHandle, CloseTable, CloseDrain,
     CloseEmit, CloseChan, ClosePool, CloseUnchanged, tableVars, MarkDone, RemoveAll
<1>7. CASE Waiting \/ Terminated \/ UNCHANGED vars
  BY <1>7 DEF Waiting, WaitCall, WaitSteps, WaitTable, WaitDeadline, WaitChan, WaitGroups,
     WaitUnchanged, Terminated, vars, closeVars, tableVars
<1> QED BY <1>1, <1>2, <1>3, <1>4, <1>5, <1>6, <1>7 DEF Next, Scanning, Closing

LEMMA Grown ==
    ASSUME HandInv, Grows
    PROVE  (IsDone => IsDone') /\ Reported \subseteq Reported'
<1>1. IsDone => IsDone'
  BY DEF Grows, IsDone, HandInv, TypeInv, CloseTypeOK
<1>2. CASE UNCHANGED events
  BY <1>1, <1>2 DEF Reported
<1>3. CASE \E p : \E o \in Outcomes : Emit(p, o)
  BY <1>1, <1>3, EventsStay
<1> QED BY <1>2, <1>3 DEF Grows

LEMMA DeliveryKept ==
    ASSUME HandInv, DeliveryInv, Grows, InPipe' = InPipe, UNCHANGED <<emitPc, delivered>>
    PROVE  DeliveryInv'
BY Grown DEF DeliveryInv, Grows

LEMMA DeliveryStep ==
    ASSUME HandInv, Room, DeliveryInv, [Next]_vars
    PROVE  DeliveryInv'
<1>1. Grows /\ Reported \subseteq Reported'
  BY GrowStep, Grown
<1>2. CASE EnqueueOpen
  <2>1. InPipe' = InPipe \cup {recvProbe} /\ UNCHANGED <<emitPc, delivered>>
    BY <1>2 DEF EnqueueOpen, InPipe, HandInv, TypeInv, RecvInv, PipeTypeOK
  <2>2. recvProbe \in Hold("recv") /\ "recv" \in Hands /\ "pipe" \in Hands
    BY <1>2, HandsAre DEF EnqueueOpen, InRecv, Hands
  <2>3. recvProbe \notin InPipe \cup Reported
    BY <2>2, HandsAre DEF HandInv, Custody, Apart, Covered
  <2> QED BY <1>1, <2>1, <2>3 DEF DeliveryInv, Grows
<1>3. ASSUME NEW p \in Probes, EmitCheck(p) \/ EmitPush(p) \/ EmitCancelled(p)
      PROVE  DeliveryInv'
  <2>1. p \in InPipe /\ InPipe' = InPipe /\ UNCHANGED events
    BY <1>3 DEF EmitCheck, EmitPush, EmitCancelled, InPipe, DeliveryInv
  <2>2. \A q \in Probes \ {p} : emitPc'[q] = emitPc[q]
    BY <1>3 DEF EmitCheck, EmitPush, EmitCancelled, EmitGoto, HandInv, TypeInv, PipeTypeOK
  <2>3. /\ emitPc[p] # "emit" /\ emitPc'[p] \in {"select", "emit"}
        /\ emitPc'[p] = "emit" => p \in delivered' \cup cancelled
        /\ delivered \subseteq delivered' /\ delivered' \subseteq delivered \cup {p}
        /\ p \in delivered' => emitPc'[p] = "emit"
    BY <1>3 DEF EmitCheck, EmitPush, EmitCancelled, EmitGoto, HandInv, TypeInv, PipeTypeOK, DeliveryInv
  <2> QED BY <1>1, <2>1, <2>2, <2>3 DEF DeliveryInv, Grows
<1>4. ASSUME NEW p \in Probes, EmitOpenResult(p) PROVE DeliveryInv'
  <2>1. InPipe' = InPipe \ {p} /\ UNCHANGED <<emitPc, delivered>> /\ emitPc[p] = "emit"
    BY <1>4 DEF EmitOpenResult, Move, InPipe, HandInv, TypeInv, PipeTypeOK
  <2>2. p \in Reported'
    <3>1. PICK o \in Outcomes : Emit(p, o)
      BY <1>4 DEF EmitOpenResult, Finish, Outcomes
    <3>2. events[p] \in Seq(Outcomes) /\ Append(events[p], o) # <<>>
      BY AppendReports DEF HandInv, TypeInv, EventInv
    <3> QED BY <3>1, <3>2 DEF Emit, Reported, HandInv, TypeInv, EventInv
  <2> QED BY <1>1, <2>1, <2>2 DEF DeliveryInv, Grows
<1>5. CASE /\ ~EnqueueOpen
           /\ ~\E p \in Probes : EmitCheck(p) \/ EmitPush(p) \/ EmitCancelled(p) \/ EmitOpenResult(p)
  <2> DEFINE Same == InPipe' = InPipe /\ UNCHANGED <<emitPc, delivered>>
  <2> SUFFICES Same BY <1>1, DeliveryKept
  <2>1. ASSUME NEW p \in Probes, Caller(p) \/ CallerCancel(p) \/ PropagateCancel(p) \/ Clock(p)
        PROVE  Same
    BY <2>1 DEF Caller, Scan, Reserve, Send, StoreRetry, DropUnsent, EmitSendError, CallerCancel,
       PropagateCancel, Clock, CallUnchanged, pipeVars, InPipe
  <2>2. CASE (\E k \in wire : RecvPacket(k)) \/ Recv
    BY <1>5, <2>2 DEF RecvPacket, Recv, RecvStop, TakeOpen, TakeRst, EnqueueCancelled, EmitRecv,
       pipeVars, InPipe
  <2>3. CASE Sweeper \/ RetryLoop
    BY <2>3 DEF Sweeper, Sweep, FinishExpired, Rearm, Requeue, EmitExpired, SweepUnchanged,
       RetryLoop, RetryExit, RetryReceive, RetryLimit, RetryTouch, Resend, RetryDrop,
       EmitRetryError, RetryUnchanged, pipeVars, InPipe
  <2>4. CASE Consume \/ \E p \in Probes : Pipeline(p) \/ EmitResult(p)
    BY <1>5, <2>4 DEF Consume, Pipeline, HandlerTake, TrySubmit, WorkerTake, EmitResult, Move,
       InPipe, HandInv, TypeInv, PipeTypeOK
  <2>5. CASE CloseStart \/ CloseSteps \/ Waiting \/ Terminated \/ UNCHANGED vars
    BY <2>5 DEF CloseStart, CloseSteps, CloseCancel, CloseHandle, CloseTable, CloseDrain,
       CloseEmit, CloseChan, ClosePool, CloseUnchanged, Waiting, WaitCall, WaitSteps, WaitTable,
       WaitDeadline, WaitChan, WaitGroups, WaitUnchanged, Terminated, vars, pipeVars, InPipe
  <2> QED BY <2>1, <2>2, <2>3, <2>4, <2>5 DEF Next, Scanning, Closing
<1> QED BY <1>2, <1>3, <1>4, <1>5

LEMMA IdleRetryStep ==
    ASSUME HandInv, IdleRetryInv, [Next]_vars
    PROVE  IdleRetryInv'
<1> SUFFICES ASSUME SampleEvery = 0,
                    \A p \in Probes : scan[p] \notin {"setRetry", "setRetryErr"},
                    retry = {}, retryChan = {}, swPc \notin {"rearm", "requeue"},
                    rtPc \in {"select", "exit"}, rtAbort = FALSE
             PROVE  /\ \A p \in Probes : scan'[p] \notin {"setRetry", "setRetryErr"}
                    /\ retry' = {} /\ retryChan' = {}
                    /\ swPc' \notin {"rearm", "requeue"}
                    /\ rtPc' \in {"select", "exit"} /\ rtAbort' = FALSE
  BY DEF IdleRetryInv
<1>1. ASSUME NEW p \in Probes, Caller(p) \/ CallerCancel(p) \/ PropagateCancel(p) \/ Clock(p)
      PROVE  /\ \A q \in Probes : scan'[q] \notin {"setRetry", "setRetryErr"}
             /\ UNCHANGED <<retry, retryChan, swPc, rtPc, rtAbort>>
  <2>1. ~StoreRetry(p)
    BY DEF StoreRetry
  <2>2. UNCHANGED <<retryChan, swPc, rtPc, rtAbort>>
    BY <1>1 DEF Caller, Scan, Reserve, Send, StoreRetry, DropUnsent, EmitSendError, CallerCancel,
       PropagateCancel, Clock, CallUnchanged, sweepVars, retryVars
  <2>3. UNCHANGED retry
    BY <1>1, <2>1, Releases DEF Caller, Scan, Reserve, Send, DropUnsent, EmitSendError, Finish,
       CallerCancel, PropagateCancel, Clock, tableVars, ReserveProbe, DropProbe, TakeProbe,
       CancelContexts, Elapse
  <2>4. UNCHANGED scan \/ \E s : GotoScan(p, s) /\ s \notin {"setRetry", "setRetryErr"}
    BY <1>1, <2>1 DEF Caller, Scan, Reserve, Send, Sampled, DropUnsent, EmitSendError,
       CallerCancel, PropagateCancel, Clock, callVars
  <2> QED BY <2>2, <2>3, <2>4 DEF GotoScan, HandInv, TypeInv, CallInv, CallTypeOK
<1>2. CASE (\E k \in wire : RecvPacket(k)) \/ Recv
  BY <1>2, Releases DEF RecvPacket, Recv, RecvStop, TakeOpen, TakeRst, EnqueueOpen, EnqueueCancelled,
     EmitRecv, Finish, RecvUnchanged, callVars, sweepVars, retryVars, tableVars, TakeProbe
<1>3. CASE Sweeper
  BY <1>3, Releases DEF Sweeper, Sweep, FinishExpired, Rearm, Requeue, EmitExpired, Finish, NextRound,
     SweepUnchanged, callVars, tableVars, RemoveAll
<1>4. CASE RetryLoop
  BY <1>4 DEF RetryLoop, RetryExit, RetryReceive, RetryLimit, RetryTouch, Resend, RetryDrop,
     EmitRetryError, RetryUnchanged, callVars, sweepVars, tableVars
<1>5. CASE Consume \/ \E p \in Probes : Pipeline(p) \/ EmitResult(p)
  BY <1>5, Releases DEF Consume, Pipeline, HandlerTake, TrySubmit, WorkerTake, EmitResult, EmitCheck,
     EmitPush, EmitCancelled, EmitOpenResult, Finish, PipeUnchanged, callVars, sweepVars, retryVars,
     tableVars
<1>6. CASE CloseStart \/ CloseSteps
  BY <1>6, Releases DEF CloseStart, CloseSteps, CloseCancel, CloseHandle, CloseTable, CloseDrain,
     CloseEmit, CloseChan, ClosePool, Finish, CloseUnchanged, callVars, sweepVars, retryVars,
     tableVars, CancelContexts, MarkDone, RemoveAll
<1>7. CASE Waiting \/ Terminated \/ UNCHANGED vars
  BY <1>7 DEF Waiting, WaitCall, WaitSteps, WaitTable, WaitDeadline, WaitChan, WaitGroups,
     WaitUnchanged, Terminated, vars, callVars, sweepVars, retryVars, tableVars
<1> QED BY <1>1, <1>2, <1>3, <1>4, <1>5, <1>6, <1>7 DEF Next, Scanning, Closing

\* The local variables of the sweeper and of retryLoop are their own.
LEMMA OwnVars ==
    ASSUME [Next]_vars, ~Sweeper
    PROVE  UNCHANGED sweepVars /\ (~RetryLoop => UNCHANGED <<retryChan, rtPc, rtProbe, rtAbort>>)
<1>1. ASSUME NEW p \in Probes, Caller(p) \/ CallerCancel(p) \/ PropagateCancel(p) \/ Clock(p)
      PROVE  UNCHANGED <<sweepVars, retryVars>>
  BY <1>1 DEF Caller, Scan, Reserve, Send, StoreRetry, DropUnsent, EmitSendError, CallerCancel,
     PropagateCancel, Clock, CallUnchanged
<1>2. CASE (\E k \in wire : RecvPacket(k)) \/ Recv
  BY <1>2 DEF RecvPacket, Recv, RecvStop, TakeOpen, TakeRst, EnqueueOpen, EnqueueCancelled,
     EmitRecv, RecvUnchanged, retryVars
<1>3. CASE RetryLoop
  BY <1>3 DEF RetryLoop, RetryExit, RetryReceive, RetryLimit, RetryTouch, Resend, RetryDrop,
     EmitRetryError, RetryUnchanged
<1>4. CASE Consume \/ \E p \in Probes : Pipeline(p) \/ EmitResult(p)
  BY <1>4 DEF Consume, Pipeline, HandlerTake, TrySubmit, WorkerTake, EmitResult, EmitCheck,
     EmitPush, EmitCancelled, EmitOpenResult, PipeUnchanged, retryVars
<1>5. CASE CloseStart \/ CloseSteps
  BY <1>5 DEF CloseStart, CloseSteps, CloseCancel, CloseHandle, CloseTable, CloseDrain,
     CloseEmit, CloseChan, ClosePool, CloseUnchanged, retryVars
<1>6. CASE Waiting \/ Terminated \/ UNCHANGED vars
  BY <1>6 DEF Waiting, WaitCall, WaitSteps, WaitTable, WaitDeadline, WaitChan, WaitGroups,
     WaitUnchanged, Terminated, vars, retryVars
<1> QED BY <1>1, <1>2, <1>3, <1>4, <1>5, <1>6 DEF Next, Scanning, Closing, retryVars

LEMMA CancelReasonStep ==
    ASSUME HandInv, CancelReason, [Next]_vars
    PROVE  CancelReason'
<1>1. IsDone => IsDone'
  BY GrowStep, Grown
<1>2. CASE IsDone'
  BY <1>2 DEF CancelReason
<1>3. CASE ~IsDone'
  <2> SUFFICES ASSUME ~IsDone, ~IsDone', cancelled \subseteq Linked, ~tableDone, recvPc # "abort"
               PROVE  cancelled' \subseteq Linked /\ ~tableDone' /\ recvPc' # "abort"
    BY <1>1, <1>3 DEF CancelReason
  <2>1. ASSUME NEW p \in Probes, Caller(p) \/ CallerCancel(p) \/ PropagateCancel(p) \/ Clock(p)
        PROVE  cancelled' \subseteq Linked /\ UNCHANGED <<tableDone, recvPc>>
    BY <2>1 DEF Caller, Scan, Reserve, Send, StoreRetry, DropUnsent, EmitSendError, Finish, Release,
       CallerCancel, PropagateCancel, Clock, CallUnchanged, recvVars, tableVars, ReserveProbe,
       SetRetry, DropProbe, TakeProbe, CancelContexts, Elapse
  <2>2. CASE (\E k \in wire : RecvPacket(k)) \/ Recv
    <3>1. ~CtxDone
      BY DEF CtxDone, IsDone, HandInv, TypeInv, CloseTypeOK
    <3> QED BY <2>2, <3>1 DEF RecvPacket, Recv, RecvStop, TakeOpen, TakeRst, EnqueueOpen,
       EnqueueCancelled, EmitRecv, Finish, Release, CancelContexts, tableVars, TakeProbe
  <2>3. CASE Sweeper
    BY <2>3 DEF Sweeper, Sweep, FinishExpired, Rearm, Requeue, EmitExpired, Finish, Release,
       SweepUnchanged, recvVars, tableVars, RemoveAll, RearmProbe, CancelContexts
  <2>4. CASE RetryLoop
    <3>1. UNCHANGED recvVars
      BY <2>4 DEF RetryLoop, RetryExit, RetryReceive, RetryLimit, RetryTouch, Resend, RetryDrop,
         EmitRetryError, RetryUnchanged
    <3>2. CASE EmitRetryError
      BY <3>1, <3>2 DEF EmitRetryError, Finish, Release, CancelContexts, recvVars
    <3>3. CASE ~EmitRetryError
      <4>1. UNCHANGED <<cancelled, tableDone>>
        BY <2>4, <3>3 DEF RetryLoop, RetryExit, RetryReceive, RetryLimit, RetryTouch, Resend,
           RetryDrop, tableVars, TouchProbe, DropProbe, TakeProbe
      <4> QED BY <3>1, <4>1 DEF recvVars
    <3> QED BY <3>2, <3>3
  <2>5. CASE Consume \/ \E p \in Probes : Pipeline(p) \/ EmitResult(p)
    BY <2>5 DEF Consume, Pipeline, HandlerTake, TrySubmit, WorkerTake, EmitResult, EmitCheck,
       EmitPush, EmitCancelled, EmitOpenResult, Finish, Release, PipeUnchanged, recvVars,
       tableVars, CancelContexts
  <2>6. CASE CloseStart \/ CloseSteps
    <3>1. closeStep = 0 /\ closeStep' = 0
      BY GrowStep DEF Grows, IsDone, HandInv, TypeInv, CloseTypeOK
    <3>2. PICK p \in Probes : CloseEmit(p)
      BY <2>6, <3>1 DEF CloseStart, CloseSteps, CloseCancel, CloseHandle, CloseTable, CloseDrain,
         CloseChan, ClosePool
    <3> QED BY <3>2 DEF CloseEmit, Finish, Release, CancelContexts, CloseUnchanged, recvVars
  <2>7. CASE Waiting \/ Terminated \/ UNCHANGED vars
    BY <2>7 DEF Waiting, WaitCall, WaitSteps, WaitTable, WaitDeadline, WaitChan, WaitGroups,
       WaitUnchanged, Terminated, vars, recvVars, tableVars
  <2> QED BY <2>1, <2>2, <2>3, <2>4, <2>5, <2>6, <2>7 DEF Next, Scanning, Closing
<1> QED BY <1>2, <1>3

LEMMA SweepReasonStep ==
    ASSUME HandInv, CancelReason, SweepReason, [Next]_vars
    PROVE  SweepReason'
<1>1. Grows /\ (IsDone => IsDone')
  BY GrowStep, Grown
<1>2. CASE Sweeper
  BY <1>1, <1>2 DEF Sweeper, Sweep, FinishExpired, Rearm, Requeue, EmitExpired, NextRound, Grows,
     CancelReason, SweepReason
<1>3. CASE ~Sweeper
  BY <1>1, <1>3, OwnVars DEF sweepVars, Grows, SweepReason
<1> QED BY <1>2, <1>3

LEMMA RetryReasonStep ==
    ASSUME HandInv, CancelReason, RetryReason, IdleRetryInv, [Next]_vars
    PROVE  RetryReason'
<1> SUFFICES ASSUME NoStaleRetry, rtAbort' PROVE IsDone'
  BY DEF RetryReason, NoStaleRetry
<1>1. IsDone => IsDone'
  BY GrowStep, Grown
<1>2. CASE SampleEvery = 0
  BY <1>2, IdleRetryStep DEF IdleRetryInv
<1>3. CASE Linked = {}
  <2>1. CASE RetryLoop
    <3>1. CtxDone => IsDone
      BY DEF CtxDone, IsDone, HandInv, TypeInv, CloseTypeOK
    <3> QED BY <1>1, <1>3, <2>1, <3>1 DEF RetryLoop, RetryExit, RetryReceive, RetryLimit, RetryTouch,
       Resend, RetryDrop, EmitRetryError, RetryReason, CancelReason
  <2>2. CASE ~RetryLoop
    <3>1. UNCHANGED rtAbort
      BY <2>2, OwnVars DEF Sweeper, Sweep, FinishExpired, Rearm, Requeue, EmitExpired, SweepUnchanged
    <3> QED BY <1>1, <3>1 DEF RetryReason
  <2> QED BY <2>1, <2>2
<1> QED BY <1>2, <1>3 DEF NoStaleRetry

-----------------------------------------------------------------------------
(* The steps of the contract.                                              *)

PromiseInv ==
    /\ HandInv /\ DeliveryInv
    /\ CancelReason /\ SweepReason /\ RetryReason /\ IdleRetryInv

\* The contract sees nothing but cancellations.
CRevoke ==
    /\ Accepted' = Accepted
    /\ UNCHANGED <<delivered, events, closeStep>>
    /\ cancelled \subseteq cancelled'

\* The contract's step for a probe whose only event is o.
LEMMA FirstEvent ==
    ASSUME HandInv, Room, Grows, NEW h \in Hands, NEW p \in Hold(h), NEW o \in Outcomes, Emit(p, o),
           UNCHANGED <<srcPort, delivered, closeStep>>,
           (o = "Open") <=> (p \in delivered), o = "Aborted" => IsDone \/ p \in cancelled
    PROVE  Contract!Next
<1>1. p \in Accepted /\ p \notin Reported /\ p \in Probes
  BY DEF HandInv, Custody, Apart, Covered, Accepted
<1>2. events[p] = <<>>
  BY <1>1 DEF Reported
<1>3. events' = [events EXCEPT ![p] = <<o>>]
  BY <1>2 DEF Emit
<1>4. Accepted' = Accepted /\ IsDone' = IsDone
  BY DEF Accepted, IsDone
<1>5. Contract!Finish(p, o)
  BY <1>1, <1>2, <1>3, <1>4 DEF Contract!Finish, Contract!Open, Grows
<1> QED BY <1>1, <1>5 DEF Contract!Next, Outcomes

\* A hand outside the pipeline never holds a delivered probe.
LEMMA OtherEvent ==
    ASSUME PromiseInv, Room, Grows, NEW h \in Hands \ {"pipe"}, NEW p \in Hold(h),
           NEW o \in Outcomes \ {"Open"}, Emit(p, o), UNCHANGED <<srcPort, delivered, closeStep>>,
           o = "Aborted" => IsDone \/ p \in cancelled
    PROVE  Contract!Next
<1>1. "pipe" \in Hands /\ Hold("pipe") = InPipe
  BY HandsAre DEF Hands
<1>2. p \notin InPipe /\ p \notin Reported /\ p \in Probes
  BY <1>1 DEF PromiseInv, HandInv, Custody, Apart, Covered, Accepted
<1>3. p \notin delivered
  BY <1>2 DEF PromiseInv, DeliveryInv
<1> QED BY <1>3, FirstEvent DEF PromiseInv

LEMMA CallerContract ==
    ASSUME PromiseInv, Room, Grows, NEW p \in Probes,
           Caller(p) \/ CallerCancel(p) \/ PropagateCancel(p) \/ Clock(p)
    PROVE  CRevoke \/ Contract!Next
<1>1. UNCHANGED <<delivered, closeStep>>
  BY DEF Caller, Scan, Reserve, Send, StoreRetry, DropUnsent, EmitSendError, CallerCancel,
     PropagateCancel, Clock, CallUnchanged, pipeVars, closeVars
<1>2. CASE Reserve(p) /\ ReserveProbe(p)
  <2>1. p \notin Accepted
    BY <1>2 DEF Reserve, PromiseInv, HandInv, TypeInv, CallInv
  <2>2. Accepted' = Accepted \cup {p} /\ UNCHANGED <<events, cancelled>>
    BY <1>2, <2>1, TableReserve DEF Reserve, ReserveProbe, PromiseInv, HandInv, TypeInv
  <2>3. Contract!Accept(p)
    BY <1>1, <2>1, <2>2 DEF Contract!Accept, IsDone
  <2> QED BY <2>3 DEF Contract!Next
<1>3. CASE EmitSendError(p)
  <2>1. held[p] \in Hold("caller") /\ "caller" \in Hands
    BY <1>3, HandsAre DEF EmitSendError, InCallers, Hands
  <2>2. Emit(held[p], "Error") /\ UNCHANGED srcPort
    BY <1>3, Releases DEF EmitSendError, Finish
  <2> QED BY <1>1, <2>1, <2>2, OtherEvent DEF Outcomes
<1>4. CASE ~(Reserve(p) /\ ReserveProbe(p)) /\ ~EmitSendError(p)
  <2>1. UNCHANGED <<srcPort, events>>
    BY <1>4, Releases DEF Caller, Scan, Reserve, Send, StoreRetry, DropUnsent, CallerCancel,
       PropagateCancel, Clock, tableVars, SetRetry, DropProbe, TakeProbe, CancelContexts, Elapse
  <2> QED BY <1>1, <2>1 DEF CRevoke, Grows, Accepted
<1> QED BY <1>2, <1>3, <1>4

LEMMA RecvContract ==
    ASSUME PromiseInv, Room, Grows, (\E k \in wire : RecvPacket(k)) \/ Recv
    PROVE  CRevoke \/ Contract!Next
<1>1. UNCHANGED <<srcPort, delivered, closeStep>>
  BY Releases DEF RecvPacket, Recv, RecvStop, TakeOpen, TakeRst, EnqueueOpen, EnqueueCancelled,
     EmitRecv, Finish, RecvUnchanged, pipeVars, closeVars, tableVars, TakeProbe
<1>2. CASE EmitRecv
  <2>1. recvProbe \in Hold("recv") /\ "recv" \in Hands
    BY <1>2, HandsAre DEF EmitRecv, InRecv, Hands
  <2>2. PICK o \in {"Aborted", "Closed"} : Emit(recvProbe, o) /\ (o = "Aborted" => recvPc = "abort")
    BY <1>2 DEF EmitRecv, Finish
  <2>3. o = "Aborted" => IsDone
    BY <2>2 DEF PromiseInv, CancelReason
  <2> QED BY <1>1, <2>1, <2>2, <2>3, OtherEvent DEF Outcomes
<1>3. CASE ~EmitRecv
  <2>1. UNCHANGED events
    BY <1>3 DEF RecvPacket, Recv, RecvStop, TakeOpen, TakeRst, EnqueueOpen, EnqueueCancelled
  <2> QED BY <1>1, <2>1 DEF CRevoke, Grows, Accepted
<1> QED BY <1>2, <1>3

LEMMA SweepContract ==
    ASSUME PromiseInv, Room, Grows, Sweeper
    PROVE  CRevoke \/ Contract!Next
<1>1. UNCHANGED <<srcPort, delivered, closeStep>>
  BY Releases DEF Sweeper, Sweep, FinishExpired, Rearm, Requeue, EmitExpired, Finish,
     SweepUnchanged, pipeVars, closeVars, tableVars, RemoveAll, RearmProbe
<1>2. CASE EmitExpired
  <2>1. swProbe \in Hold("sweeper") /\ "sweeper" \in Hands
    BY <1>2, HandsAre DEF EmitExpired, PromiseInv, HandInv, LocalInv, Hands
  <2>2. swOutcome \in Outcomes \ {"Open"} /\ Emit(swProbe, swOutcome)
    BY <1>2 DEF EmitExpired, Finish, PromiseInv, SweepReason, Outcomes
  <2>3. swOutcome = "Aborted" => IsDone \/ swProbe \in cancelled
    BY <1>2 DEF EmitExpired, PromiseInv, SweepReason
  <2> QED BY <1>1, <2>1, <2>2, <2>3, OtherEvent
<1>3. CASE ~EmitExpired
  <2>1. UNCHANGED events
    BY <1>3 DEF Sweeper, Sweep, FinishExpired, Rearm, Requeue
  <2> QED BY <1>1, <2>1 DEF CRevoke, Grows, Accepted
<1> QED BY <1>2, <1>3

LEMMA RetryContract ==
    ASSUME PromiseInv, Room, NoStaleRetry, Grows, RetryLoop
    PROVE  CRevoke \/ Contract!Next
<1>1. UNCHANGED <<srcPort, delivered, closeStep>>
  BY Releases DEF RetryLoop, RetryExit, RetryReceive, RetryLimit, RetryTouch, Resend, RetryDrop,
     EmitRetryError, Finish, RetryUnchanged, pipeVars, closeVars, tableVars, TouchProbe,
     DropProbe, TakeProbe
<1>2. CASE EmitRetryError
  <2>1. rtProbe \in Hold("retry") /\ "retry" \in Hands
    BY <1>2, HandsAre DEF EmitRetryError, InRetry, Hands
  <2>2. PICK o \in {"Aborted", "Error"} : Emit(rtProbe, o) /\ (o = "Aborted" => rtAbort)
    BY <1>2 DEF EmitRetryError, Finish
  <2>3. o = "Aborted" => IsDone
    BY <2>2 DEF PromiseInv, RetryReason
  <2> QED BY <1>1, <2>1, <2>2, <2>3, OtherEvent DEF Outcomes
<1>3. CASE ~EmitRetryError
  <2>1. UNCHANGED events
    BY <1>3 DEF RetryLoop, RetryExit, RetryReceive, RetryLimit, RetryTouch, Resend, RetryDrop
  <2> QED BY <1>1, <2>1 DEF CRevoke, Grows, Accepted
<1> QED BY <1>2, <1>3

LEMMA PipeContract ==
    ASSUME PromiseInv, Room, Grows, Consume \/ \E p \in Probes : Pipeline(p) \/ EmitResult(p)
    PROVE  CRevoke \/ Contract!Next
<1>1. UNCHANGED <<srcPort, closeStep>>
  BY Releases DEF Consume, Pipeline, HandlerTake, TrySubmit, WorkerTake, EmitResult, EmitCheck,
     EmitPush, EmitCancelled, EmitOpenResult, Finish, PipeUnchanged, closeVars, tableVars
<1>2. ASSUME NEW p \in Probes, EmitPush(p) PROVE Contract!Next
  <2>1. p \in InPipe /\ p \notin delivered
    BY <1>2 DEF EmitPush, PromiseInv, DeliveryInv
  <2>2. "pipe" \in Hands /\ p \in Hold("pipe")
    BY <2>1, HandsAre DEF Hands
  <2>3. p \in Accepted /\ p \notin Reported
    BY <2>2 DEF PromiseInv, HandInv, Custody, Apart, Covered
  <2>4. Contract!Deliver(p)
    BY <1>1, <1>2, <2>1, <2>3 DEF EmitPush, Contract!Deliver, Contract!Open, Accepted, Reported,
       IsDone, tableVars
  <2> QED BY <2>4 DEF Contract!Next
<1>3. ASSUME NEW p \in Probes, EmitOpenResult(p) PROVE Contract!Next
  <2> DEFINE o == IF p \in delivered THEN "Open" ELSE "Aborted"
  <2>1. "pipe" \in Hands /\ p \in Hold("pipe")
    BY <1>3, HandsAre DEF EmitOpenResult, Hands
  <2>2. Emit(p, o) /\ UNCHANGED delivered /\ o \in Outcomes /\ ((o = "Open") <=> (p \in delivered))
    BY <1>3 DEF EmitOpenResult, Finish, Outcomes
  <2>3. o = "Aborted" => p \in cancelled
    BY <1>3 DEF EmitOpenResult, PromiseInv, DeliveryInv
  <2> HIDE DEF o
  <2> QED BY <1>1, <2>1, <2>2, <2>3, FirstEvent DEF PromiseInv
<1>4. CASE ~\E p \in Probes : EmitPush(p) \/ EmitOpenResult(p)
  <2>1. UNCHANGED <<delivered, events>>
    BY <1>4 DEF Consume, Pipeline, HandlerTake, TrySubmit, WorkerTake, EmitResult, EmitCheck,
       EmitCancelled
  <2> QED BY <1>1, <2>1 DEF CRevoke, Grows, Accepted
<1> QED BY <1>2, <1>3, <1>4

LEMMA CloseContract ==
    ASSUME PromiseInv, Room, Grows, CloseStart \/ CloseSteps
    PROVE  [Contract!Next]_Contract!cvars
<1>1. UNCHANGED <<srcPort, delivered>>
  BY Releases DEF CloseStart, CloseSteps, CloseCancel, CloseHandle, CloseTable, CloseDrain, CloseEmit,
     CloseChan, ClosePool, Finish, CloseUnchanged, pipeVars, tableVars, CancelContexts, MarkDone,
     RemoveAll
<1>2. Accepted' = Accepted
  BY <1>1 DEF Accepted
<1>3. ASSUME NEW p \in Probes, CloseEmit(p) PROVE Contract!Next
  <2>1. p \in Hold("close") /\ "close" \in Hands
    BY <1>3, HandsAre DEF CloseEmit, Hands
  <2>2. Emit(p, "Aborted") /\ UNCHANGED closeStep
    BY <1>3 DEF CloseEmit, Finish
  <2>3. drained # {} => closeStep >= 1
    BY DEF PromiseInv, HandInv, LocalInv, TypeInv, CloseTypeOK
  <2>4. IsDone
    BY <1>3, <2>3 DEF CloseEmit, IsDone
  <2> QED BY <1>1, <2>1, <2>2, <2>4, OtherEvent DEF Outcomes
<1>4. CASE CloseStart
  <2>1. IsDone' /\ UNCHANGED <<events, cancelled>>
    BY <1>4 DEF CloseStart, IsDone, tableVars
  <2>2. Contract!Close
    BY <1>1, <1>2, <2>1 DEF Contract!Close
  <2> QED BY <2>2 DEF Contract!Next
<1>5. CASE CloseCancel \/ CloseHandle \/ CloseTable \/ CloseDrain \/ CloseChan \/ ClosePool
  <2>1. IsDone /\ IsDone' /\ UNCHANGED events
    BY <1>5 DEF CloseCancel, CloseHandle, CloseTable, CloseDrain, CloseChan, ClosePool, IsDone
  <2>2. Contract!Revoke
    BY <1>1, <1>2, <2>1 DEF Contract!Revoke, Grows
  <2> QED BY <2>2 DEF Contract!Next
<1> QED BY <1>3, <1>4, <1>5 DEF CloseSteps

LEMMA PromiseStep ==
    ASSUME Room, NoStaleRetry
    PROVE  PromiseInv /\ [Next]_vars => PromiseInv' /\ [Contract!Next]_Contract!cvars
<1> SUFFICES ASSUME PromiseInv, [Next]_vars
             PROVE  PromiseInv' /\ [Contract!Next]_Contract!cvars
  OBVIOUS
<1>1. PromiseInv'
  BY HandStep, DeliveryStep, CancelReasonStep, SweepReasonStep, RetryReasonStep, IdleRetryStep
     DEF PromiseInv
<1>2. Grows
  BY GrowStep DEF PromiseInv
<1>3. CRevoke => Contract!Next
  BY DEF CRevoke, Contract!Next, Contract!Revoke, IsDone
<1>4. CASE Waiting \/ Terminated \/ UNCHANGED vars
  <2>1. UNCHANGED <<srcPort, delivered, events, closeStep>>
    BY <1>4 DEF Waiting, WaitCall, WaitSteps, WaitTable, WaitDeadline, WaitChan, WaitGroups,
       WaitUnchanged, Terminated, vars, pipeVars, closeVars, tableVars
  <2> QED BY <1>1, <1>2, <1>3, <2>1 DEF CRevoke, Grows, Accepted
<1>5. CASE Scanning
  BY <1>1, <1>2, <1>3, <1>5, CallerContract, RecvContract, SweepContract, RetryContract, PipeContract
     DEF Scanning
<1>6. CASE CloseStart \/ CloseSteps \/ \E p \in Probes : PropagateCancel(p)
  BY <1>1, <1>2, <1>3, <1>6, CallerContract, CloseContract
<1> QED BY <1>4, <1>5, <1>6 DEF Next, Closing

LEMMA PromiseInit == Init => PromiseInv /\ Contract!Init
<1> SUFFICES ASSUME Init PROVE PromiseInv /\ Contract!Init
  OBVIOUS
<1>1. HandInv
  BY HandInit
<1>2. DeliveryInv /\ CancelReason /\ SweepReason /\ RetryReason /\ IdleRetryInv
  BY DEF Init, TableInit, DeliveryInv, CancelReason, SweepReason, RetryReason, IdleRetryInv
<1>3. Contract!Init
  BY DEF Init, TableInit, Contract!Init, Accepted, IsDone
<1> QED BY <1>1, <1>2, <1>3 DEF PromiseInv

\* The SYN scanner implements the contract of port.IpOption when the retry
\* queue has room for every probe and there are either only calls of Scan, as in
\* the command, or no retries; the runs syn_retry_full and syn_stale_retry show
\* what each condition excludes.
THEOREM ScannerKeepsContract ==
    ASSUME Room, NoStaleRetry
    PROVE  Spec => ImplementsContract
<1>1. Init => PromiseInv /\ Contract!Init
  BY PromiseInit
<1>2. PromiseInv /\ [Next]_vars => PromiseInv' /\ [Contract!Next]_Contract!cvars
  BY PromiseStep
<1> QED BY <1>1, <1>2, PTL DEF Spec, ImplementsContract, Contract!Spec

-----------------------------------------------------------------------------
(* A retry in the queue and the clock.                                     *)

\* No source port of a target was reserved a second time, so that every key
\* ever used belongs to one probe.
KeysApart == \A p, q \in Accepted : Key(p) = Key(q) => p = q

\* The probes re-armed and not yet sent again, from the sweeper's hand-over to
\* the end of the limiter's wait.
Waiter == IF rtPc = "limit" THEN {rtProbe} ELSE {}
Queued == retryChan \cup Waiter \cup (IF swPc = "requeue" THEN {swProbe} ELSE {})

\* A queued probe is queued once, carries no send time, and leaves the table by
\* its context only.
QueueInv ==
    /\ rtPc \in {"limit", "touch"} => rtProbe \in retried \ retryChan
    /\ rtPc \in {"limit", "touch"} /\ swPc = "requeue" => swProbe # rtProbe
    /\ \A p \in Queued : sentAt[p] = "zero"
    /\ Queued \cap expired \subseteq cancelled

LEMMA QueuedAccepted == HandInv => Queued \subseteq Accepted
BY DEF HandInv, TypeInv, SweepInv, RetryInv, Queued, Waiter

\* Only a re-arming, a touch and the reservation of a new probe set a send time,
\* and the clock leaves a probe without one alone.
LEMMA ZeroStays ==
    ASSUME HandInv, [Next]_vars, ~Rearm, ~RetryTouch
    PROVE  \A p \in Accepted : sentAt[p] = "zero" => sentAt'[p] = "zero"
<1> DEFINE Goal == \A p \in Accepted : sentAt[p] = "zero" => sentAt'[p] = "zero"
<1>1. UNCHANGED sentAt => Goal
  OBVIOUS
<1>2. ASSUME NEW q \in Probes, Reserve(q) PROVE Goal
  <2>1. q \notin Accepted
    BY <1>2 DEF Reserve, HandInv, TypeInv, CallInv
  <2>2. UNCHANGED sentAt \/ sentAt' = [sentAt EXCEPT ![q] = "fresh"]
    BY <1>2, Releases DEF Reserve, ReserveProbe, tableVars
  <2> QED BY <2>1, <2>2 DEF HandInv, TypeInv, TableInv, TableTypeOK, Accepted
<1>3. ASSUME NEW q \in Probes, Clock(q) PROVE Goal
  BY <1>3 DEF Clock, Elapse, HandInv, TypeInv, TableInv, TableTypeOK, Accepted
<1> HIDE DEF Goal
<1>4. ASSUME NEW q \in Probes, Caller(q) \/ CallerCancel(q) \/ PropagateCancel(q) PROVE Goal
  BY <1>1, <1>2, <1>4, Releases DEF Caller, Scan, Send, StoreRetry, DropUnsent, EmitSendError,
     Finish, CallerCancel, PropagateCancel, SetRetry, DropProbe, TakeProbe, CancelContexts, tableVars
<1>5. CASE (\E k \in wire : RecvPacket(k)) \/ Recv
  BY <1>1, <1>5, Releases DEF RecvPacket, Recv, RecvStop, TakeOpen, TakeRst, EnqueueOpen,
     EnqueueCancelled, EmitRecv, Finish, TakeProbe, tableVars
<1>6. CASE Sweeper
  BY <1>1, <1>6, Releases DEF Sweeper, Sweep, FinishExpired, Requeue, EmitExpired, Finish,
     RemoveAll, tableVars
<1>7. CASE RetryLoop
  BY <1>1, <1>7, Releases DEF RetryLoop, RetryExit, RetryReceive, RetryLimit, Resend, RetryDrop,
     EmitRetryError, Finish, DropProbe, TakeProbe, tableVars
<1>8. CASE Consume \/ \E q \in Probes : Pipeline(q) \/ EmitResult(q)
  BY <1>1, <1>8, Releases DEF Consume, Pipeline, HandlerTake, TrySubmit, WorkerTake, EmitResult,
     EmitCheck, EmitPush, EmitCancelled, EmitOpenResult, Finish, tableVars
<1>9. CASE CloseStart \/ CloseSteps
  BY <1>1, <1>9, Releases DEF CloseStart, CloseSteps, CloseCancel, CloseHandle, CloseTable,
     CloseDrain, CloseEmit, CloseChan, ClosePool, Finish, CancelContexts, MarkDone, RemoveAll, tableVars
<1>10. CASE Waiting \/ Terminated \/ UNCHANGED vars
  BY <1>1, <1>10 DEF Waiting, WaitCall, WaitSteps, WaitTable, WaitDeadline, WaitChan, WaitGroups,
     WaitUnchanged, Terminated, vars, tableVars
<1> QED BY <1>3, <1>4, <1>5, <1>6, <1>7, <1>8, <1>9, <1>10 DEF Next, Scanning, Closing, Goal

\* retried only grows, by the sweeper.
LEMMA RetriedStays ==
    ASSUME HandInv, [Next]_vars
    PROVE  retried \subseteq retried'
<1>1. ASSUME NEW q \in Probes, Caller(q) \/ CallerCancel(q) \/ PropagateCancel(q) \/ Clock(q)
      PROVE  UNCHANGED retried
  BY <1>1, Releases DEF Caller, Scan, Reserve, ReserveProbe, Send, StoreRetry, DropUnsent,
     EmitSendError, Finish, CallerCancel, PropagateCancel, Clock, Elapse, SetRetry, DropProbe,
     TakeProbe, CancelContexts, tableVars
<1>2. CASE (\E k \in wire : RecvPacket(k)) \/ Recv
  BY <1>2, Releases DEF RecvPacket, Recv, RecvStop, TakeOpen, TakeRst, EnqueueOpen,
     EnqueueCancelled, EmitRecv, Finish, TakeProbe, tableVars
<1>3. CASE Sweeper
  BY <1>3, Releases DEF Sweeper, Sweep, FinishExpired, Rearm, RearmProbe, Requeue, EmitExpired,
     Finish, RemoveAll, tableVars
<1>4. CASE RetryLoop
  BY <1>4, Releases DEF RetryLoop, RetryExit, RetryReceive, RetryLimit, RetryTouch, TouchProbe,
     Resend, RetryDrop, EmitRetryError, Finish, DropProbe, TakeProbe, tableVars
<1>5. CASE Consume \/ \E q \in Probes : Pipeline(q) \/ EmitResult(q)
  BY <1>5, Releases DEF Consume, Pipeline, HandlerTake, TrySubmit, WorkerTake, EmitResult,
     EmitCheck, EmitPush, EmitCancelled, EmitOpenResult, Finish, tableVars
<1>6. CASE CloseStart \/ CloseSteps
  BY <1>6, Releases DEF CloseStart, CloseSteps, CloseCancel, CloseHandle, CloseTable,
     CloseDrain, CloseEmit, CloseChan, ClosePool, Finish, CancelContexts, MarkDone, RemoveAll, tableVars
<1>7. CASE Waiting \/ Terminated \/ UNCHANGED vars
  BY <1>7 DEF Waiting, WaitCall, WaitSteps, WaitTable, WaitDeadline, WaitChan, WaitGroups,
     WaitUnchanged, Terminated, vars, tableVars
<1> QED BY <1>1, <1>2, <1>3, <1>4, <1>5, <1>6, <1>7 DEF Next, Scanning, Closing

\* Steps that queue nothing new and expire nothing new.
LEMMA QueueKept ==
    ASSUME HandInv, QueueInv, Grows, retried \subseteq retried',
           \A p \in Accepted : sentAt[p] = "zero" => sentAt'[p] = "zero",
           Queued' \subseteq Queued, Queued' \cap expired' \subseteq expired,
           rtPc' \in {"limit", "touch"} =>
               /\ rtPc \in {"limit", "touch"} /\ rtProbe' = rtProbe /\ rtProbe' \notin retryChan'
               /\ swPc' = "requeue" => swProbe' # rtProbe'
    PROVE  QueueInv'
BY QueuedAccepted DEF QueueInv, Grows

LEMMA QueueRearm ==
    ASSUME HandInv, QueueInv, Grows, Rearm
    PROVE  QueueInv'
<1>1. UNCHANGED <<retryChan, rtPc, rtProbe, swProbe>>
  BY DEF Rearm, SweepUnchanged
<1>2. CASE ~CanRearm(swProbe)
  BY <1>1, <1>2, QueuedAccepted DEF Rearm, QueueInv, Queued, Waiter, Grows, tableVars
<1>3. CASE CanRearm(swProbe)
  <2>1. /\ retried' = retried \cup {swProbe} /\ sentAt' = [sentAt EXCEPT ![swProbe] = "zero"]
        /\ expired' = expired \ {swProbe} /\ swPc' = "requeue"
    BY <1>3 DEF Rearm, RearmProbe
  <2>2. swProbe \notin retried /\ retryChan \subseteq retried
    BY DEF Rearm, HandInv, LocalInv
  <2>3. Queued' = Queued \cup {swProbe}
    BY <1>1, <2>1 DEF Queued, Waiter, Rearm
  <2>4. \A p \in Queued' : sentAt'[p] = "zero"
    BY <2>1, <2>3, QueuedAccepted DEF QueueInv, HandInv, TypeInv, TableInv, TableTypeOK, SweepInv,
       SweepTypeOK, Accepted, Rearm
  <2>5. Queued' \cap expired' \subseteq cancelled'
    BY <2>1, <2>3 DEF QueueInv, Grows
  <2> QED BY <1>1, <2>1, <2>2, <2>4, <2>5 DEF QueueInv
<1> QED BY <1>2, <1>3

LEMMA QueueSweep ==
    ASSUME HandInv, QueueInv, Grows, Sweep,
           \A p \in Accepted : sentAt[p] = "zero" => sentAt'[p] = "zero",
           retried \subseteq retried'
    PROVE  QueueInv'
<1>1. UNCHANGED <<retryChan, rtPc, rtProbe, swProbe>> /\ expired' = Expired
      /\ swPc' \in {"finish", "exit", "sleep"} /\ swPc = "sleep"
  BY DEF Sweep, SweepUnchanged, NextRound
<1>2. Queued' = Queued
  BY <1>1 DEF Queued, Waiter
<1>3. Queued' \cap expired' \subseteq cancelled'
  BY <1>1, <1>2 DEF QueueInv, Expired, Grows
<1> QED BY <1>1, <1>2, <1>3, QueuedAccepted DEF QueueInv

LEMMA QueueTouch ==
    ASSUME HandInv, QueueInv, Grows, KeysApart, RetryTouch
    PROVE  QueueInv'
<1>1. UNCHANGED <<retryChan, swPc, swProbe, expired, retried>> /\ rtPc = "touch"
      /\ rtPc' \in {"select", "resend"}
  BY DEF RetryTouch, RetryUnchanged, sweepVars, TouchProbe, tableVars
<1>2. rtProbe \notin Queued
  BY <1>1 DEF QueueInv, Queued, Waiter
<1>3. Queued' = Queued
  BY <1>1 DEF Queued, Waiter
<1>4. UNCHANGED sentAt \/ sentAt' = [sentAt EXCEPT ![rtProbe] = "fresh"]
  <2> SUFFICES ASSUME probes[Key(rtProbe)] # NoProbe,
                      sentAt' = [sentAt EXCEPT ![probes[Key(rtProbe)]] = "fresh"]
               PROVE  probes[Key(rtProbe)] = rtProbe
    BY DEF RetryTouch, TouchProbe, tableVars
  <2>1. rtProbe \in Accepted /\ Key(rtProbe) \in Keys
    BY <1>1, AcceptedKey DEF HandInv, TypeInv, RetryInv, TableInv
  <2>2. PICK e \in Probes : e = probes[Key(rtProbe)]
    BY <2>1 DEF HandInv, TypeInv, TableInv, TableTypeOK
  <2>3. e \in Accepted /\ Key(e) = Key(rtProbe)
    BY <2>1, <2>2, NumPortsAssumption DEF HandInv, TypeInv, TableInv, Keyed, Accepted, SrcPorts, NoPort
  <2> QED BY <2>1, <2>2, <2>3 DEF KeysApart
<1>5. \A p \in Queued' : sentAt'[p] = "zero"
  BY <1>2, <1>3, <1>4, QueuedAccepted
     DEF QueueInv, HandInv, TypeInv, TableInv, TableTypeOK, Accepted
<1> QED BY <1>1, <1>3, <1>5 DEF QueueInv, Grows

LEMMA QueueReceive ==
    ASSUME HandInv, QueueInv, Grows, NEW p \in Probes, RetryReceive(p),
           \A q \in Accepted : sentAt[q] = "zero" => sentAt'[q] = "zero",
           retried \subseteq retried'
    PROVE  QueueInv'
<1>1. /\ rtPc = "select" /\ rtPc' = "limit" /\ rtProbe' = p /\ p \in retryChan
      /\ retryChan' = retryChan \ {p} /\ UNCHANGED <<swPc, swProbe, expired>>
  BY DEF RetryReceive, RetryUnchanged, sweepVars
<1>2. Queued' = Queued
  BY <1>1 DEF Queued, Waiter
<1>3. retryChan \subseteq retried /\ (swPc = "requeue" => swProbe \notin retryChan)
  BY DEF HandInv, LocalInv
<1> QED BY <1>1, <1>2, <1>3, QueuedAccepted DEF QueueInv, Grows

LEMMA QueueStep == HandInv /\ QueueInv /\ KeysApart /\ [Next]_vars => QueueInv'
<1> SUFFICES ASSUME HandInv, QueueInv, KeysApart, [Next]_vars PROVE QueueInv'
  OBVIOUS
<1>1. Grows /\ retried \subseteq retried'
  BY GrowStep, RetriedStays
<1>2. CASE Rearm
  BY <1>1, <1>2, QueueRearm
<1>3. CASE RetryTouch
  BY <1>1, <1>3, QueueTouch
<1>4. CASE ~Rearm /\ ~RetryTouch
  <2>1. \A p \in Accepted : sentAt[p] = "zero" => sentAt'[p] = "zero"
    BY <1>4, ZeroStays
  <2>2. CASE Sweep
    BY <1>1, <2>1, <2>2, QueueSweep
  <2>3. ASSUME NEW p \in Probes, RetryReceive(p) PROVE QueueInv'
    BY <1>1, <2>1, <2>3, QueueReceive
  <2>4. CASE Sweeper /\ ~Sweep
    <3>1. UNCHANGED <<rtPc, rtProbe>> /\ expired' \subseteq expired
      BY <1>4, <2>4 DEF Sweeper, FinishExpired, Requeue, EmitExpired, SweepUnchanged
    <3>2. Queued' \subseteq Queued
      BY <1>4, <2>4, <3>1 DEF Sweeper, FinishExpired, Requeue, EmitExpired, NextRound, Queued, Waiter
    <3>3. rtPc \in {"limit", "touch"} => rtProbe' \notin retryChan' /\ (swPc' = "requeue" => swProbe' # rtProbe')
      BY <1>4, <2>4, <3>1 DEF Sweeper, FinishExpired, Requeue, EmitExpired, NextRound, QueueInv
    <3> QED BY <1>1, <2>1, <3>1, <3>2, <3>3, QueueKept
  <2>5. CASE RetryLoop /\ ~\E p \in Probes : RetryReceive(p)
    <3>1. UNCHANGED <<retryChan, swPc, swProbe, expired>>
      BY <1>4, <2>5 DEF RetryLoop, RetryExit, RetryLimit, Resend, RetryDrop, EmitRetryError,
         RetryUnchanged, sweepVars
    <3>2. rtPc' \in {"limit", "touch"} => rtPc = "limit" /\ rtPc' = "touch" /\ rtProbe' = rtProbe
      BY <1>4, <2>5 DEF RetryLoop, RetryExit, RetryLimit, Resend, RetryDrop, EmitRetryError
    <3>3. Queued' \subseteq Queued
      BY <3>1, <3>2 DEF Queued, Waiter
    <3> QED BY <1>1, <2>1, <3>1, <3>2, <3>3, QueueKept DEF QueueInv
  <2>6. CASE ~Sweeper /\ ~RetryLoop
    <3>1. UNCHANGED <<retryChan, rtPc, rtProbe, swPc, swProbe, expired>>
      BY <2>6, OwnVars DEF sweepVars
    <3>2. Queued' = Queued
      BY <3>1 DEF Queued, Waiter
    <3> QED BY <1>1, <2>1, <3>1, <3>2, QueueKept DEF QueueInv
  <2> QED BY <2>2, <2>3, <2>4, <2>5, <2>6
<1> QED BY <1>2, <1>3, <1>4

\* As long as no source port of a target is reserved a second time, a probe
\* that waits in retryChan or for the limiter is never timed out before it was
\* sent again, however the sweeper, retryLoop and Close interleave: a retry has
\* no send time until TouchProbe gives it one.
THEOREM QueuedRetriesWait == Spec /\ []KeysApart => []QueuedRetryNotTimedOut
<1>1. Init => QueueInv
  BY DEF Init, QueueInv, Queued, Waiter
<1>2. QueueInv => QueuedRetryNotTimedOut
  BY DEF QueueInv, QueuedRetryNotTimedOut, Queued, Waiter
<1> QED BY <1>1, <1>2, QueueStep, HandsAlways, PTL DEF Spec
=============================================================================
