--------------------------- MODULE ScanLoop_proofs ---------------------------
(***************************************************************************)
(* Proofs about ScanLoop, for any targets, addresses, pools, limits and    *)
(* plans.                                                                  *)
(***************************************************************************)
EXTENDS ScanLoop, PortPlan_proofs

-----------------------------------------------------------------------------
(* The inductive invariant.                                                *)

Results == Targets \X PortNums
Stages == {"new", "ping", "dead", "invoke", "start", "check", "submit", "finish", "done"}
Places == {"plan", "submit", "ping", "hosts", "scanner", "close", "closing", "closeChan", "single",
           "ended"}
\* s.Wait has returned.
Waited == main \in {"close", "closing", "closeChan", "single", "ended"}

LoopTypes ==
    /\ main \in Places /\ pn \in BOOLEAN /\ sT \in BOOLEAN /\ hostGroup \in Nat
    /\ main # "plan" => addr \in AddressLists /\ hostGroup > 0
    /\ main # "plan" => ports \in Seq(PortNums) /\ IsInjective(ports)
    /\ stage \in [Targets -> Stages]
    /\ wgPing \subseteq Targets /\ wgHost \subseteq Targets
    /\ index \in [Targets -> Nat] /\ \A t \in Targets : index[t] <= Len(ports)
    /\ openPorts \in [IPs -> Nat \cup {NoCount}]
    /\ pending \subseteq Results /\ sending \subseteq Results /\ opened \subseteq Results
    /\ printed \subseteq Results /\ aborted \subseteq Results /\ left \subseteq Results
    /\ retChan \in Seq(Results) /\ Len(retChan) <= RetCap
    /\ consuming \in Results \cup {<<>>}

\* While the plan is made nothing is scanned.
PlanPart == main = "plan" =>
    /\ PlanInv
    /\ \A t \in Targets : stage[t] = "new"
    /\ wgPing = {} /\ pending = {} /\ sending = {} /\ opened = {}
    /\ retChan = <<>> /\ consuming = <<>>

\* The WaitGroups count a target as long as one of its goroutines runs.
Active == {"invoke", "start", "check", "submit", "finish"}
StageInv == \A t \in Targets :
    /\ pn => stage[t] \notin {"ping", "dead"}
    /\ ~pn /\ stage[t] \in {"ping", "invoke"} => t \in wgPing
    /\ stage[t] \in Active => t \in wgHost
    /\ stage[t] \in {"new", "ping", "dead", "invoke", "start"} => index[t] = 0
    /\ stage[t] = "submit" => index[t] < Len(ports)

\* What run has waited for stays over.
MainInv ==
    /\ main \notin {"plan", "submit"} =>
        \A t \in Targets : stage[t] # "new" /\ (pn => stage[t] # "invoke")
    /\ main \in {"hosts", "scanner"} \/ Waited => wgPing = {}
    /\ main = "scanner" \/ Waited => wgHost = {}
    /\ main \in {"closeChan", "single", "ended"} => pending = {} /\ sending = {}
    /\ main = "ended" => retChan = <<>> /\ consuming = <<>>

\* What s.Wait leaves only gets less, and only such ports are aborted.
LeftInv ==
    /\ Waited => pending \cup sending \cup aborted \subseteq left /\ (sT => left = {})
    /\ ~Waited => aborted = {}

\* A result is of a port that was submitted, and in one place: accepted by the
\* scanner, found open, on the channel, with the consumer or printed.
Received == {consuming} \ {<<>>}
ResultInv ==
    /\ \A x \in pending \cup sending \cup opened : \E k \in 1 .. index[x[1]] : x[2] = ports[k]
    /\ pending \cap opened = {} /\ sending \cap opened = {} /\ pending \cap sending = {}
    /\ opened = printed \cup ToSet(retChan) \cup Received
    /\ printed \cap ToSet(retChan) = {} /\ consuming \notin printed \cup ToSet(retChan)
    /\ IsInjective(retChan)

\* A count never exceeds the results printed for its address, and is exact
\* while the only loop for the address runs.
PrintedAt(a) == {x \in printed : addr[x[1]] = a}
CountInv ==
    /\ IsFiniteSet(printed)
    /\ \A a \in IPs : openPorts[a] <= Cardinality(PrintedAt(a))
    /\ \A t \in Targets :
        OnlyEntry(t) /\ MaxOpenPort > 0 /\ stage[t] \in {"check", "submit", "finish"} =>
            openPorts[addr[t]] = Cardinality(PrintedAt(addr[t]))
    /\ \A t \in Targets : stage[t] \in {"finish", "done"} =>
        \/ index[t] = Len(ports)
        \/ MaxOpenPort > 0 /\ Cardinality(PrintedAt(addr[t])) >= MaxOpenPort

LoopInv == LoopTypes /\ PlanPart /\ StageInv /\ MainInv /\ LeftInv /\ ResultInv /\ CountInv

-----------------------------------------------------------------------------
(* The plan.                                                               *)

LEMMA InitLoop == ScanInit => LoopInv
<1> SUFFICES ASSUME ScanInit PROVE LoopInv
  OBVIOUS
<1>1. PlanInv
  BY InitPlan DEF ScanInit
<1>2. Len(ports) = 0 /\ ports = <<>>
  BY DEF ScanInit, Init
<1>3. LoopTypes
  <2>1. retChan \in Seq(Results) /\ Len(retChan) <= RetCap
    BY LoopAssumption DEF ScanInit
  <2>2. stage \in [Targets -> Stages] /\ index \in [Targets -> Nat]
    BY DEF ScanInit, Stages
  <2>3. \A t \in Targets : index[t] <= Len(ports)
    BY <1>2 DEF ScanInit
  <2>4. openPorts \in [IPs -> Nat \cup {NoCount}]
    BY DEF ScanInit
  <2>5. /\ main \in Places /\ main = "plan" /\ consuming = <<>>
        /\ pn \in BOOLEAN /\ sT \in BOOLEAN /\ hostGroup \in Nat
    BY DEF ScanInit, Places
  <2>6. /\ wgPing = {} /\ wgHost = {} /\ pending = {} /\ sending = {} /\ opened = {} /\ printed = {}
        /\ aborted = {} /\ left = {}
    BY DEF ScanInit
  <2> QED BY <2>1, <2>2, <2>3, <2>4, <2>5, <2>6 DEF LoopTypes
<1>4. ToSet(retChan) = {} /\ IsInjective(retChan) /\ Received = {}
  BY DEF ScanInit, ToSet, IsInjective, Received
<1>5. ResultInv
  BY <1>4 DEF ScanInit, ResultInv
<1>6. CountInv
  <2>1. IsFiniteSet(printed) /\ \A a \in IPs : PrintedAt(a) = {}
    BY FS_EmptySet DEF ScanInit, PrintedAt
  <2>2. \A a \in IPs : openPorts[a] <= Cardinality(PrintedAt(a))
    <3>1. Cardinality({}) = 0
      BY FS_EmptySet
    <3>2. \A a \in IPs : openPorts[a] = -1
      BY DEF ScanInit, NoCount
    <3>3. -1 <= 0
      OBVIOUS
    <3> QED BY <2>1, <3>1, <3>2, <3>3
  <2> QED BY <2>1, <2>2 DEF ScanInit, CountInv
<1> QED BY <1>1, <1>3, <1>5, <1>6
        DEF ScanInit, LoopInv, PlanPart, StageInv, MainInv, LeftInv, Active, Waited

LEMMA MakePlanStep ==
    ASSUME LoopInv, MakePlan
    PROVE  LoopInv'
<1>1. main = "plan" /\ UNCHANGED scanVars /\ PlanInv'
  BY PlanStep DEF LoopInv, PlanPart, MakePlan
<1> USE DEF scanVars, loopVars, options, scannerVars, resultVars
<1>2. /\ \A t \in Targets : stage[t] = "new" /\ index[t] = 0
      /\ pending = {} /\ sending = {} /\ opened = {} /\ retChan = <<>> /\ consuming = <<>>
  BY <1>1 DEF LoopInv, PlanPart, StageInv
<1>3. Len(ports') \in Nat
  BY <1>1 DEF PlanInv, TypeOK
<1>4. LoopTypes'
  BY <1>1, <1>2, <1>3 DEF LoopInv, LoopTypes
<1>5. ResultInv'
  BY <1>1, <1>2 DEF LoopInv, ResultInv, Received
<1>6. CountInv'
  <2>1. \A a : PrintedAt(a)' = PrintedAt(a)
    BY <1>1 DEF PrintedAt
  <2>2. \A t \in Targets : OnlyEntry(t)' <=> OnlyEntry(t)
    BY <1>1 DEF OnlyEntry
  <2> QED BY <1>1, <1>2, <2>1, <2>2 DEF LoopInv, CountInv
<1> QED BY <1>1, <1>2, <1>4, <1>5, <1>6
        DEF LoopInv, PlanPart, StageInv, MainInv, LeftInv, Active, Waited

LEMMA StartScanStep ==
    ASSUME LoopInv, StartScan
    PROVE  LoopInv'
<1>1. /\ main = "plan" /\ main' = "submit" /\ phase = "done"
      /\ addr' \in AddressLists /\ pn' \in BOOLEAN /\ sT' \in BOOLEAN /\ hostGroup' \in Nat \ {0}
      /\ UNCHANGED <<ports, stage, wgPing, wgHost, index, resultVars>>
  BY LoopAssumption DEF StartScan, AddressLists
<1> USE DEF resultVars, scannerVars
<1>2. /\ PlanInv
      /\ \A t \in Targets : stage[t] = "new" /\ index[t] = 0
      /\ pending = {} /\ sending = {} /\ opened = {} /\ retChan = <<>> /\ consuming = <<>>
  BY <1>1 DEF LoopInv, PlanPart, StageInv
<1>3. ports \in Seq(PortNums) /\ IsInjective(ports)
  BY <1>2 DEF PlanInv, TypeOK
<1>4. LoopTypes'
  BY <1>1, <1>3 DEF LoopInv, LoopTypes, Places
<1>5. ResultInv' /\ printed = {}
  BY <1>1, <1>2 DEF LoopInv, ResultInv, Received
<1>6. CountInv'
  <2>1. \A a \in IPs : PrintedAt(a) = {} /\ PrintedAt(a)' = {}
    BY <1>1, <1>5 DEF PrintedAt
  <2> QED BY <1>1, <1>2, <2>1 DEF LoopInv, CountInv
<1> QED BY <1>1, <1>2, <1>4, <1>5, <1>6
        DEF LoopInv, PlanPart, StageInv, MainInv, LeftInv, Active, Waited

-----------------------------------------------------------------------------
(* What most steps leave as it is.                                         *)

\* Nothing but the plan moves before it is made.
LEMMA Scanning ==
    ASSUME LoopInv,
           \/ \E t \in Targets : stage[t] # "new"
           \/ wgPing # {} \/ pending # {} \/ sending # {} \/ retChan # <<>> \/ consuming # <<>>
    PROVE  main # "plan"
BY DEF LoopInv, PlanPart

LEMMA SameResults ==
    ASSUME LoopInv, UNCHANGED <<pending, sending, opened, index, ports, printed, retChan, consuming>>
    PROVE  ResultInv'
BY DEF LoopInv, ResultInv, Received

LEMMA PrintedCount ==
    ASSUME LoopInv, NEW a
    PROVE  IsFiniteSet(PrintedAt(a)) /\ Cardinality(PrintedAt(a)) \in Nat
BY FS_Subset, FS_CardinalityType DEF LoopInv, CountInv, PrintedAt

\* The counts stay right as long as no loop begins, and ends only where it may.
LEMMA SameCounts ==
    ASSUME LoopInv, main # "plan", UNCHANGED <<openPorts, printed, addr, index, ports>>,
           \A t \in Targets : stage'[t] \in {"check", "submit", "finish"} =>
               stage[t] \in {"check", "submit", "finish"},
           \A t \in Targets : stage'[t] \in {"finish", "done"} =>
               stage[t] \in {"finish", "done"} \/ index[t] = Len(ports) \/ Limited(t)
    PROVE  CountInv'
<1>1. \A a : PrintedAt(a)' = PrintedAt(a)
  BY DEF PrintedAt
<1>2. \A t \in Targets : addr[t] \in IPs
  BY DEF LoopInv, LoopTypes, IPs
<1>3. \A t \in Targets : OnlyEntry(t)' <=> OnlyEntry(t)
  BY DEF OnlyEntry
<1>4. IsFiniteSet(printed') /\ \A a \in IPs : openPorts'[a] <= Cardinality(PrintedAt(a)')
  BY <1>1 DEF LoopInv, CountInv
<1>5. ASSUME NEW t \in Targets, OnlyEntry(t)', MaxOpenPort > 0,
             stage'[t] \in {"check", "submit", "finish"}
      PROVE  openPorts'[addr'[t]] = Cardinality(PrintedAt(addr[t])')
  BY <1>1, <1>3, <1>5 DEF LoopInv, CountInv
<1>6. ASSUME NEW t \in Targets, stage'[t] \in {"finish", "done"}
      PROVE  \/ index'[t] = Len(ports')
             \/ MaxOpenPort > 0 /\ Cardinality(PrintedAt(addr[t])') >= MaxOpenPort
  <2>1. CASE stage[t] \in {"finish", "done"}
    BY <1>1, <2>1 DEF LoopInv, CountInv
  <2>2. CASE index[t] = Len(ports)
    BY <2>2
  <2>3. CASE Limited(t)
    <3>1. MaxOpenPort > 0 /\ openPorts[addr[t]] >= MaxOpenPort
      BY <2>3 DEF Limited
    <3>2. openPorts[addr[t]] <= Cardinality(PrintedAt(addr[t]))
      BY <1>2 DEF LoopInv, CountInv
    <3>3. Cardinality(PrintedAt(addr[t])) \in Nat
      BY PrintedCount
    <3>4. openPorts[addr[t]] \in Int /\ MaxOpenPort \in Nat
      BY <1>2, LoopAssumption DEF LoopInv, LoopTypes, NoCount
    <3> QED BY <1>1, <3>1, <3>2, <3>3, <3>4
  <2> QED BY <1>6, <2>1, <2>2, <2>3
<1> QED BY <1>4, <1>5, <1>6 DEF CountInv

-----------------------------------------------------------------------------
(* The targets.                                                            *)

\* A step of the two pools moves one entry before its loop begins.
LEMMA PoolStep ==
    ASSUME LoopInv, main # "plan", NEW t \in Targets, TargetUnchanged,
           stage[t] \in {"new", "ping", "invoke"},
           NEW s \in {"ping", "dead", "invoke", "start"}, Goto(t, s),
           wgPing' \subseteq Targets, wgHost' \subseteq Targets
    PROVE  /\ LoopTypes' /\ PlanPart' /\ LeftInv' /\ ResultInv' /\ CountInv'
           /\ stage'[t] = s /\ \A u \in Targets : u # t => stage'[u] = stage[u]
           /\ index[t] = 0
<1>1. UNCHANGED <<main, addr, pn, sT, hostGroup, index, ports>> /\ UNCHANGED resultVars
  BY DEF TargetUnchanged, vars, options
<1> USE DEF resultVars, scannerVars
<1>2. /\ stage' = [stage EXCEPT ![t] = s] /\ stage \in [Targets -> Stages] /\ s \in Stages
      /\ index[t] = 0
  BY DEF Goto, LoopInv, LoopTypes, Stages, StageInv
<1>3. /\ stage' \in [Targets -> Stages]
      /\ stage'[t] = s /\ \A u \in Targets : u # t => stage'[u] = stage[u]
  BY <1>2
<1>4. LoopTypes'
  BY <1>1, <1>3 DEF LoopInv, LoopTypes
<1>5. ResultInv'
  BY <1>1, SameResults
<1>6. CountInv'
  <2>1. \A u \in Targets : stage'[u] \in {"check", "submit", "finish", "done"} =>
            stage[u] = stage'[u]
    BY <1>3
  <2> QED BY <1>1, <2>1, SameCounts
<1>7. LeftInv'
  BY <1>1 DEF LoopInv, LeftInv, Waited
<1> QED BY <1>1, <1>2, <1>3, <1>4, <1>5, <1>6, <1>7 DEF PlanPart

LEMMA SubmitPingStep ==
    ASSUME LoopInv, NEW t \in Targets, SubmitPing(t)
    PROVE  LoopInv'
<1>1. /\ main = "submit" /\ ~pn /\ stage[t] = "new" /\ wgPing' = wgPing \cup {t}
      /\ UNCHANGED <<wgHost, main, pn, index, ports, pending, sending, retChan, consuming>>
  BY DEF SubmitPing, TargetUnchanged, vars, options, resultVars, scannerVars
<1>2. /\ LoopTypes' /\ PlanPart' /\ LeftInv' /\ ResultInv' /\ CountInv'
      /\ stage'[t] = "ping" /\ \A u \in Targets : u # t => stage'[u] = stage[u]
      /\ index[t] = 0
  BY <1>1, PoolStep DEF SubmitPing, LoopInv, LoopTypes
<1>3. StageInv'
  BY <1>1, <1>2 DEF LoopInv, StageInv, Active
<1> QED BY <1>1, <1>2, <1>3 DEF LoopInv, MainInv, Waited

LEMMA SubmitHostStep ==
    ASSUME LoopInv, NEW t \in Targets, SubmitHost(t)
    PROVE  LoopInv'
<1>1. /\ main = "submit" /\ pn /\ stage[t] = "new" /\ wgHost' = wgHost \cup {t}
      /\ UNCHANGED <<wgPing, main, pn, index, ports, pending, sending, retChan, consuming>>
  BY DEF SubmitHost, TargetUnchanged, vars, options, resultVars, scannerVars
<1>2. /\ LoopTypes' /\ PlanPart' /\ LeftInv' /\ ResultInv' /\ CountInv'
      /\ stage'[t] = "invoke" /\ \A u \in Targets : u # t => stage'[u] = stage[u]
      /\ index[t] = 0
  BY <1>1, PoolStep DEF SubmitHost, LoopInv, LoopTypes
<1>3. StageInv'
  BY <1>1, <1>2 DEF LoopInv, StageInv, Active
<1> QED BY <1>1, <1>2, <1>3 DEF LoopInv, MainInv, Waited

LEMMA DeadStep ==
    ASSUME LoopInv, NEW t \in Targets, Dead(t)
    PROVE  LoopInv'
<1>1. /\ stage[t] = "ping" /\ ~pn
      /\ UNCHANGED <<wgPing, wgHost, main, pn, index, ports, pending, sending, retChan, consuming>>
  BY DEF Dead, TargetUnchanged, vars, options, resultVars, scannerVars, LoopInv, StageInv
<1>2. /\ LoopTypes' /\ PlanPart' /\ LeftInv' /\ ResultInv' /\ CountInv'
      /\ stage'[t] = "dead" /\ \A u \in Targets : u # t => stage'[u] = stage[u]
      /\ index[t] = 0
  BY <1>1, Scanning, PoolStep DEF Dead, LoopInv, LoopTypes
<1>3. StageInv'
  BY <1>1, <1>2 DEF LoopInv, StageInv, Active
<1> QED BY <1>1, <1>2, <1>3 DEF LoopInv, MainInv, Waited

\* wgPing still counts the target, so that run waits for neither yet.
LEMMA LiveStep ==
    ASSUME LoopInv, NEW t \in Targets, Live(t)
    PROVE  LoopInv'
<1>1. /\ stage[t] = "ping" /\ ~pn /\ t \in wgPing /\ wgHost' = wgHost \cup {t}
      /\ UNCHANGED <<wgPing, main, pn, index, ports, pending, sending, retChan, consuming>>
  BY DEF Live, TargetUnchanged, vars, options, resultVars, scannerVars, LoopInv, StageInv
<1>2. /\ LoopTypes' /\ PlanPart' /\ LeftInv' /\ ResultInv' /\ CountInv'
      /\ stage'[t] = "invoke" /\ \A u \in Targets : u # t => stage'[u] = stage[u]
      /\ index[t] = 0
  BY <1>1, Scanning, PoolStep DEF Live, LoopInv, LoopTypes
<1>3. StageInv'
  BY <1>1, <1>2 DEF LoopInv, StageInv, Active
<1>4. main \in {"submit", "ping"}
  BY <1>1, Scanning DEF LoopInv, LoopTypes, MainInv, Places, Waited
<1> QED BY <1>1, <1>2, <1>3, <1>4 DEF LoopInv, MainInv, Waited

LEMMA InvokeStep ==
    ASSUME LoopInv, NEW t \in Targets, Invoke(t)
    PROVE  LoopInv'
<1>1. /\ stage[t] = "invoke"
      /\ UNCHANGED <<wgPing, wgHost, main, pn, index, ports, pending, sending, retChan, consuming>>
  BY DEF Invoke, TargetUnchanged, vars, options, resultVars, scannerVars
<1>2. /\ LoopTypes' /\ PlanPart' /\ LeftInv' /\ ResultInv' /\ CountInv'
      /\ stage'[t] = "start" /\ \A u \in Targets : u # t => stage'[u] = stage[u]
      /\ index[t] = 0
  BY <1>1, Scanning, PoolStep DEF Invoke, LoopInv, LoopTypes
<1>3. StageInv'
  BY <1>1, <1>2 DEF LoopInv, StageInv, Active
<1> QED BY <1>1, <1>2, <1>3 DEF LoopInv, MainInv, Waited

LEMMA PingDoneStep ==
    ASSUME LoopInv, NEW t \in Targets, PingDone(t)
    PROVE  LoopInv'
<1>1. /\ stage[t] \notin {"ping", "invoke"} /\ t \in wgPing /\ wgPing' = wgPing \ {t}
      /\ UNCHANGED <<stage, wgHost, main, addr, pn, sT, hostGroup, index, ports>>
      /\ UNCHANGED resultVars
  BY DEF PingDone, TargetUnchanged, vars, options
<1> USE DEF resultVars, scannerVars
<1>2. main # "plan"
  BY <1>1, Scanning
<1>3. LoopTypes' /\ StageInv' /\ MainInv' /\ LeftInv'
  BY <1>1 DEF LoopInv, LoopTypes, StageInv, MainInv, LeftInv, Waited
<1>4. ResultInv'
  BY <1>1, SameResults
<1> QED BY <1>1, <1>2, <1>3, <1>4, SameCounts DEF LoopInv, PlanPart

-----------------------------------------------------------------------------
(* portScan.                                                               *)

\* As long as a target is scanned the scanner is neither waited for nor closed.
LEMMA Looping ==
    ASSUME LoopInv, NEW t \in Targets, stage[t] \in Active
    PROVE  t \in wgHost /\ ~Waited /\ ~IsDone
BY DEF LoopInv, StageInv, MainInv, Waited, IsDone

\* The loop for an entry moves that entry.
LEMMA LoopMove ==
    ASSUME LoopInv, NEW t \in Targets, NEW s \in Stages, Goto(t, s)
    PROVE  /\ stage' \in [Targets -> Stages]
           /\ stage'[t] = s /\ \A u \in Targets : u # t => stage'[u] = stage[u]
BY DEF LoopInv, LoopTypes, Goto

\* An entry whose loop has not submitted a port has no result, and the only
\* entry of an address has none there.
LEMMA NothingPrinted ==
    ASSUME LoopInv, NEW t \in Targets, index[t] = 0, OnlyEntry(t)
    PROVE  PrintedAt(addr[t]) = {}
<1> SUFFICES ASSUME NEW x \in PrintedAt(addr[t]) PROVE FALSE
  OBVIOUS
<1>1. x \in printed /\ addr[x[1]] = addr[t]
  BY DEF PrintedAt
<1>2. x \in opened /\ x[1] \in Targets
  BY <1>1 DEF LoopInv, ResultInv, LoopTypes, Results
<1>3. x[1] = t
  BY <1>1, <1>2 DEF OnlyEntry
<1>4. 1 .. index[x[1]] # {}
  BY <1>2 DEF LoopInv, ResultInv
<1> QED BY <1>3, <1>4

\* What SetCount leaves: the counts of the other addresses.
LEMMA Counting ==
    ASSUME LoopInv, main # "plan", NEW t \in Targets, NEW n \in Nat \cup {NoCount}, SetCount(t, n)
    PROVE  /\ openPorts' \in [IPs -> Nat \cup {NoCount}]
           /\ \A u \in Targets : addr[u] \in IPs
           /\ MaxOpenPort > 0 => openPorts'[addr[t]] = n
           /\ \A a \in IPs : a # addr[t] \/ MaxOpenPort = 0 => openPorts'[a] = openPorts[a]
BY LoopAssumption DEF LoopInv, LoopTypes, IPs, SetCount

LEMMA ResetCountStep ==
    ASSUME LoopInv, NEW t \in Targets, ResetCount(t)
    PROVE  LoopInv'
<1>1. /\ stage[t] = "start" /\ SetCount(t, 0)
      /\ UNCHANGED <<wgPing, wgHost, main, addr, pn, sT, hostGroup, index, ports, pending, sending,
                     aborted, left, retChan, consuming, opened, printed>>
  BY DEF ResetCount, ScanUnchanged, vars, options
<1>2. main # "plan" /\ index[t] = 0
  BY <1>1, Scanning DEF LoopInv, StageInv
<1>3. /\ stage' \in [Targets -> Stages]
      /\ stage'[t] = "check" /\ \A u \in Targets : u # t => stage'[u] = stage[u]
  BY LoopMove DEF ResetCount, Stages
<1>4. /\ openPorts' \in [IPs -> Nat \cup {NoCount}]
      /\ \A u \in Targets : addr[u] \in IPs
      /\ MaxOpenPort > 0 => openPorts'[addr[t]] = 0
      /\ \A a \in IPs : a # addr[t] \/ MaxOpenPort = 0 => openPorts'[a] = openPorts[a]
  BY <1>1, <1>2, Counting
<1>5. LoopTypes'
  BY <1>1, <1>3, <1>4 DEF LoopInv, LoopTypes
<1>6. StageInv' /\ MainInv' /\ LeftInv'
  BY <1>1, <1>2, <1>3 DEF LoopInv, StageInv, MainInv, LeftInv, Active, Waited
<1>7. ResultInv'
  BY <1>1, SameResults
<1>8. CountInv'
  <2>1. \A a : PrintedAt(a)' = PrintedAt(a) /\ Cardinality(PrintedAt(a)) \in Nat
    BY <1>1, PrintedCount DEF PrintedAt
  <2>2. \A a \in IPs : openPorts'[a] <= Cardinality(PrintedAt(a)')
    <3> SUFFICES ASSUME NEW a \in IPs PROVE openPorts'[a] <= Cardinality(PrintedAt(a))
      BY <2>1
    <3>1. openPorts'[a] = openPorts[a] \/ openPorts'[a] = 0
      BY <1>4, LoopAssumption
    <3> QED BY <2>1, <3>1 DEF LoopInv, CountInv
  <2>3. ASSUME NEW u \in Targets, OnlyEntry(u)', MaxOpenPort > 0,
               stage'[u] \in {"check", "submit", "finish"}
        PROVE  openPorts'[addr'[u]] = Cardinality(PrintedAt(addr[u])')
    <3>1. OnlyEntry(u)
      BY <1>1, <2>3 DEF OnlyEntry
    <3>2. CASE u = t
      <4>1. PrintedAt(addr[t]) = {}
        BY <1>2, <3>1, <3>2, NothingPrinted
      <4> QED BY <1>1, <1>4, <2>1, <2>3, <3>2, <4>1, FS_EmptySet
    <3>3. CASE u # t
      <4>1. addr[t] # addr[u]
        BY <3>1, <3>3 DEF OnlyEntry
      <4>2. openPorts[addr[u]] = Cardinality(PrintedAt(addr[u]))
        BY <1>3, <2>3, <3>1, <3>3 DEF LoopInv, CountInv
      <4> QED BY <1>1, <1>4, <2>1, <4>1, <4>2
    <3> QED BY <3>2, <3>3
  <2>4. ASSUME NEW u \in Targets, stage'[u] \in {"finish", "done"}
        PROVE  \/ index'[u] = Len(ports')
               \/ MaxOpenPort > 0 /\ Cardinality(PrintedAt(addr[u])') >= MaxOpenPort
    BY <1>1, <1>3, <2>1, <2>4 DEF LoopInv, CountInv
  <2>5. IsFiniteSet(printed')
    BY <1>1 DEF LoopInv, CountInv
  <2> QED BY <2>2, <2>3, <2>4, <2>5 DEF CountInv
<1> QED BY <1>1, <1>2, <1>5, <1>6, <1>7, <1>8 DEF LoopInv, PlanPart

LEMMA StopStep ==
    ASSUME LoopInv, NEW t \in Targets, Stop(t)
    PROVE  LoopInv'
<1>1. /\ stage[t] = "check" /\ (index[t] = Len(ports) \/ Limited(t))
      /\ UNCHANGED <<wgPing, wgHost, main, addr, pn, sT, hostGroup, index, openPorts, ports,
                     pending, sending, aborted, left, retChan, consuming, opened, printed>>
  BY Looping DEF Stop, Active, ScanUnchanged, vars, options
<1>2. main # "plan"
  BY <1>1, Scanning
<1>3. /\ stage' \in [Targets -> Stages]
      /\ stage'[t] = "finish" /\ \A u \in Targets : u # t => stage'[u] = stage[u]
  BY LoopMove DEF Stop, Stages
<1>4. LoopTypes'
  BY <1>1, <1>3 DEF LoopInv, LoopTypes
<1>5. StageInv' /\ MainInv' /\ LeftInv'
  BY <1>1, <1>3 DEF LoopInv, StageInv, MainInv, LeftInv, Active, Waited
<1>6. ResultInv'
  BY <1>1, SameResults
<1>7. CountInv'
  BY <1>1, <1>2, <1>3, SameCounts
<1> QED BY <1>1, <1>2, <1>4, <1>5, <1>6, <1>7 DEF LoopInv, PlanPart

LEMMA CheckStep ==
    ASSUME LoopInv, NEW t \in Targets, Check(t)
    PROVE  LoopInv'
<1>1. /\ stage[t] = "check" /\ index[t] < Len(ports)
      /\ UNCHANGED <<wgPing, wgHost, main, addr, pn, sT, hostGroup, index, openPorts, ports,
                     pending, sending, aborted, left, retChan, consuming, opened, printed>>
  BY DEF Check, ScanUnchanged, vars, options
<1>2. main # "plan"
  BY <1>1, Scanning
<1>3. /\ stage' \in [Targets -> Stages]
      /\ stage'[t] = "submit" /\ \A u \in Targets : u # t => stage'[u] = stage[u]
  BY LoopMove DEF Check, Stages
<1>4. LoopTypes'
  BY <1>1, <1>3 DEF LoopInv, LoopTypes
<1>5. StageInv' /\ MainInv' /\ LeftInv'
  BY <1>1, <1>3 DEF LoopInv, StageInv, MainInv, LeftInv, Active, Waited
<1>6. ResultInv'
  BY <1>1, SameResults
<1>7. CountInv'
  BY <1>1, <1>2, <1>3, SameCounts
<1> QED BY <1>1, <1>2, <1>4, <1>5, <1>6, <1>7 DEF LoopInv, PlanPart

LEMMA FinishHostStep ==
    ASSUME LoopInv, NEW t \in Targets, FinishHost(t)
    PROVE  LoopInv'
<1>1. /\ stage[t] = "finish" /\ SetCount(t, NoCount) /\ wgHost' = wgHost \ {t}
      /\ UNCHANGED <<wgPing, main, addr, pn, sT, hostGroup, index, ports, pending, sending, aborted,
                     left, retChan, consuming, opened, printed>>
  BY DEF FinishHost, ScanUnchanged, vars, options
<1>2. main # "plan"
  BY <1>1, Scanning
<1>3. /\ stage' \in [Targets -> Stages]
      /\ stage'[t] = "done" /\ \A u \in Targets : u # t => stage'[u] = stage[u]
  BY LoopMove DEF FinishHost, Stages
<1>4. /\ openPorts' \in [IPs -> Nat \cup {NoCount}]
      /\ \A u \in Targets : addr[u] \in IPs
      /\ MaxOpenPort > 0 => openPorts'[addr[t]] = NoCount
      /\ \A a \in IPs : a # addr[t] \/ MaxOpenPort = 0 => openPorts'[a] = openPorts[a]
  BY <1>1, <1>2, Counting
<1>5. LoopTypes'
  BY <1>1, <1>3, <1>4 DEF LoopInv, LoopTypes
<1>6. StageInv' /\ MainInv' /\ LeftInv'
  BY <1>1, <1>3 DEF LoopInv, StageInv, MainInv, LeftInv, Active, Waited
<1>7. ResultInv'
  BY <1>1, SameResults
<1>8. CountInv'
  <2>1. \A a : PrintedAt(a)' = PrintedAt(a) /\ Cardinality(PrintedAt(a)) \in Nat
    BY <1>1, PrintedCount DEF PrintedAt
  <2>2. \A a \in IPs : openPorts'[a] <= Cardinality(PrintedAt(a)')
    <3> SUFFICES ASSUME NEW a \in IPs PROVE openPorts'[a] <= Cardinality(PrintedAt(a))
      BY <2>1
    <3>1. openPorts'[a] = openPorts[a] \/ openPorts'[a] = -1
      BY <1>4, LoopAssumption DEF NoCount
    <3> QED BY <2>1, <3>1 DEF LoopInv, CountInv
  <2>3. ASSUME NEW u \in Targets, OnlyEntry(u)', MaxOpenPort > 0,
               stage'[u] \in {"check", "submit", "finish"}
        PROVE  openPorts'[addr'[u]] = Cardinality(PrintedAt(addr[u])')
    <3>1. OnlyEntry(u) /\ u # t
      BY <1>1, <1>3, <2>3 DEF OnlyEntry
    <3>2. addr[t] # addr[u]
      BY <3>1 DEF OnlyEntry
    <3>3. openPorts[addr[u]] = Cardinality(PrintedAt(addr[u]))
      BY <1>3, <2>3, <3>1 DEF LoopInv, CountInv
    <3> QED BY <1>1, <1>4, <2>1, <3>2, <3>3
  <2>4. ASSUME NEW u \in Targets, stage'[u] \in {"finish", "done"}
        PROVE  \/ index'[u] = Len(ports')
               \/ MaxOpenPort > 0 /\ Cardinality(PrintedAt(addr[u])') >= MaxOpenPort
    BY <1>1, <1>3, <2>1, <2>4 DEF LoopInv, CountInv
  <2>5. IsFiniteSet(printed')
    BY <1>1 DEF LoopInv, CountInv
  <2> QED BY <2>2, <2>3, <2>4, <2>5 DEF CountInv
<1> QED BY <1>1, <1>2, <1>5, <1>6, <1>7, <1>8 DEF LoopInv, PlanPart

\* The port is new, as the plan has no port twice.
LEMMA ScanStep ==
    ASSUME LoopInv, NEW t \in Targets, Scan(t)
    PROVE  LoopInv'
<1> DEFINE x == <<t, ports[index[t] + 1]>>
<1>1. /\ stage[t] = "submit" /\ (pending' = pending \/ pending' = pending \cup {x})
      /\ index' = [index EXCEPT ![t] = @ + 1]
      /\ UNCHANGED <<wgPing, wgHost, main, addr, pn, sT, hostGroup, openPorts, ports, sending,
                     aborted, left, retChan, consuming, opened, printed>>
  BY DEF Scan, Accepted, Refused, ScanUnchanged, vars, options
<1>2. /\ main # "plan" /\ t \in wgHost /\ ~Waited
      /\ ports \in Seq(PortNums) /\ IsInjective(ports)
      /\ index \in [Targets -> Nat] /\ index[t] < Len(ports) /\ Len(ports) \in Nat
  BY <1>1, Scanning, Looping DEF LoopInv, StageInv, Active, LoopTypes
<1>3. /\ stage' \in [Targets -> Stages]
      /\ stage'[t] = "check" /\ \A u \in Targets : u # t => stage'[u] = stage[u]
  BY LoopMove DEF Scan, Stages
<1>4. /\ index' \in [Targets -> Nat] /\ index'[t] = index[t] + 1 /\ index'[t] <= Len(ports)
      /\ index'[t] \in Nat /\ \A u \in Targets : u # t => index'[u] = index[u]
  BY <1>1, <1>2
<1>5. x \in Results /\ x[1] = t /\ x[2] = ports[index'[t]] /\ index'[t] \in 1 .. index'[t]
  BY <1>2, <1>4 DEF Results
<1> HIDE DEF x
<1>6. LoopTypes'
  BY <1>1, <1>3, <1>4, <1>5 DEF LoopInv, LoopTypes
<1>7. StageInv' /\ MainInv' /\ LeftInv'
  BY <1>1, <1>2, <1>3, <1>4 DEF LoopInv, StageInv, MainInv, LeftInv, Active, Waited
<1>8. ResultInv'
  <2>1. x \notin opened \cup sending
    <3> SUFFICES ASSUME x \in opened \cup sending PROVE FALSE
      OBVIOUS
    <3>1. PICK k \in 1 .. index[t] : x[2] = ports[k]
      BY <1>5 DEF LoopInv, ResultInv
    <3>2. k \in DOMAIN ports /\ index'[t] \in DOMAIN ports /\ k # index'[t]
      BY <1>2, <1>4
    <3> QED BY <1>2, <1>5, <3>1, <3>2 DEF IsInjective
  <2>2. ASSUME NEW y \in pending' \cup sending \cup opened
        PROVE  \E k \in 1 .. index'[y[1]] : y[2] = ports[k]
    <3>1. CASE y = x
      BY <1>5, <3>1
    <3>2. CASE y \in pending \cup sending \cup opened
      <4>1. PICK k \in 1 .. index[y[1]] : y[2] = ports[k]
        BY <3>2 DEF LoopInv, ResultInv
      <4>2. y[1] \in Targets
        BY <3>2 DEF LoopInv, LoopTypes, Results
      <4>3. index[y[1]] <= index'[y[1]] /\ index[y[1]] \in Nat /\ index'[y[1]] \in Nat
        BY <1>2, <1>4, <4>2
      <4> QED BY <4>1, <4>3
    <3> QED BY <1>1, <3>1, <3>2
  <2>3. pending' \cap opened = {} /\ pending' \cap sending = {}
    BY <1>1, <2>1 DEF LoopInv, ResultInv
  <2> QED BY <1>1, <2>2, <2>3 DEF LoopInv, ResultInv, Received
<1>9. CountInv'
  <2>1. \A a : PrintedAt(a)' = PrintedAt(a)
    BY <1>1 DEF PrintedAt
  <2>2. \A u \in Targets : OnlyEntry(u)' <=> OnlyEntry(u)
    BY <1>1 DEF OnlyEntry
  <2>3. IsFiniteSet(printed') /\ \A a \in IPs : openPorts'[a] <= Cardinality(PrintedAt(a)')
    BY <1>1, <2>1 DEF LoopInv, CountInv
  <2>4. ASSUME NEW u \in Targets, OnlyEntry(u)', MaxOpenPort > 0,
               stage'[u] \in {"check", "submit", "finish"}
        PROVE  openPorts'[addr'[u]] = Cardinality(PrintedAt(addr[u])')
    BY <1>1, <1>3, <2>1, <2>2, <2>4 DEF LoopInv, CountInv
  <2>5. ASSUME NEW u \in Targets, stage'[u] \in {"finish", "done"}
        PROVE  \/ index'[u] = Len(ports')
               \/ MaxOpenPort > 0 /\ Cardinality(PrintedAt(addr[u])') >= MaxOpenPort
    <3>1. u # t
      BY <1>3, <2>5
    <3> QED BY <1>1, <1>3, <1>4, <2>1, <2>5, <3>1 DEF LoopInv, CountInv
  <2> QED BY <2>3, <2>4, <2>5 DEF CountInv
<1> QED BY <1>1, <1>2, <1>6, <1>7, <1>8, <1>9 DEF LoopInv, PlanPart

-----------------------------------------------------------------------------
(* The scanner and the consumer of its results.                            *)

LEMMA ResultNotEmpty ==
    ASSUME NEW x \in Results
    PROVE  x # <<>>
<1>1. PICK t, p : x = <<t, p>>
  BY DEF Results
<1>2. Len(<<t, p>>) = 2 /\ Len(<<>>) = 0
  OBVIOUS
<1> QED BY <1>1, <1>2

LEMMA NotOpenStep ==
    ASSUME LoopInv, NEW x, NotOpen(x)
    PROVE  LoopInv'
<1>1. /\ x \in pending /\ pending' = pending \ {x}
      /\ UNCHANGED <<main, addr, pn, sT, hostGroup, stage, wgPing, wgHost, index, ports, openPorts,
                     sending, aborted, left, retChan, consuming, opened, printed>>
  BY DEF NotOpen, ResultUnchanged, vars, loopVars, options
<1>2. main # "plan"
  BY <1>1, Scanning
<1>3. LoopTypes' /\ StageInv' /\ MainInv' /\ LeftInv'
  BY <1>1 DEF LoopInv, LoopTypes, StageInv, MainInv, LeftInv, Waited
<1>4. ResultInv'
  BY <1>1 DEF LoopInv, ResultInv, Received
<1> QED BY <1>1, <1>2, <1>3, <1>4, SameCounts DEF LoopInv, PlanPart

LEMMA FoundStep ==
    ASSUME LoopInv, NEW x, Found(x)
    PROVE  LoopInv'
<1>1. /\ x \in pending /\ pending' = pending \ {x} /\ sending' = sending \cup {x}
      /\ UNCHANGED <<main, addr, pn, sT, hostGroup, stage, wgPing, wgHost, index, ports, openPorts,
                     aborted, left, retChan, consuming, opened, printed>>
  BY DEF Found, ResultUnchanged, vars, loopVars, options
<1>2. main # "plan"
  BY <1>1, Scanning
<1>3. LoopTypes' /\ StageInv' /\ MainInv' /\ LeftInv'
  BY <1>1 DEF LoopInv, LoopTypes, StageInv, MainInv, LeftInv, Waited
<1>4. ResultInv'
  BY <1>1 DEF LoopInv, ResultInv, Received
<1> QED BY <1>1, <1>2, <1>3, <1>4, SameCounts DEF LoopInv, PlanPart

\* What is aborted was left by s.Wait.
LEMMA AbortStep ==
    ASSUME LoopInv, NEW x, Abort(x)
    PROVE  LoopInv'
<1>1. /\ x \in pending \cup sending /\ IsDone
      /\ pending' = pending \ {x} /\ sending' = sending \ {x} /\ aborted' = aborted \cup {x}
      /\ UNCHANGED <<main, addr, pn, sT, hostGroup, stage, wgPing, wgHost, index, ports, openPorts,
                     left, retChan, consuming, opened, printed>>
  BY DEF Abort, ResultUnchanged, vars, loopVars, options
<1>2. main # "plan" /\ Waited
  BY <1>1, Scanning DEF IsDone, Waited
<1>3. LoopTypes' /\ StageInv' /\ MainInv' /\ LeftInv'
  BY <1>1, <1>2 DEF LoopInv, LoopTypes, StageInv, MainInv, LeftInv, Waited
<1>4. ResultInv'
  BY <1>1 DEF LoopInv, ResultInv, Received
<1> QED BY <1>1, <1>2, <1>3, <1>4, SameCounts DEF LoopInv, PlanPart

LEMMA DeliverStep ==
    ASSUME LoopInv, NEW x, Deliver(x)
    PROVE  LoopInv'
<1>1. /\ x \in sending /\ sending' = sending \ {x} /\ Len(retChan) < RetCap
      /\ retChan' = Append(retChan, x) /\ opened' = opened \cup {x}
      /\ UNCHANGED <<main, addr, pn, sT, hostGroup, stage, wgPing, wgHost, index, ports, openPorts,
                     pending, aborted, left, consuming, printed>>
  BY DEF Deliver, ResultUnchanged, vars, loopVars, options
<1>2. main # "plan" /\ x \in Results /\ retChan \in Seq(Results)
  BY <1>1, Scanning DEF LoopInv, LoopTypes
<1>3. main # "ended"
  BY <1>1 DEF LoopInv, MainInv
<1>4. /\ retChan' \in Seq(Results) /\ Len(retChan') = Len(retChan) + 1
      /\ ToSet(retChan') = ToSet(retChan) \cup {x}
  BY <1>1, <1>2 DEF ToSet
<1>5. LoopTypes'
  BY <1>1, <1>2, <1>4, LoopAssumption DEF LoopInv, LoopTypes
<1>6. StageInv' /\ MainInv' /\ LeftInv'
  BY <1>1, <1>3 DEF LoopInv, StageInv, MainInv, LeftInv, Waited
<1>7. ResultInv'
  <2>1. x \notin opened /\ x \notin pending
    BY <1>1 DEF LoopInv, ResultInv
  <2>2. x \notin printed /\ x \notin ToSet(retChan) /\ (consuming # <<>> => consuming # x)
    BY <2>1 DEF LoopInv, ResultInv, Received
  <2>3. x # <<>>
    BY <1>2, ResultNotEmpty
  <2>4. IsInjective(retChan')
    BY <1>1, <1>2, <2>2 DEF LoopInv, ResultInv, IsInjective, ToSet
  <2>5. printed' \cap ToSet(retChan') = {} /\ consuming' \notin printed' \cup ToSet(retChan')
    BY <1>1, <1>4, <2>2, <2>3 DEF LoopInv, ResultInv
  <2>6. opened' = printed' \cup ToSet(retChan') \cup Received'
    BY <1>1, <1>4 DEF LoopInv, ResultInv, Received
  <2>7. /\ pending' \cap opened' = {} /\ sending' \cap opened' = {} /\ pending' \cap sending' = {}
        /\ pending' \cup sending' \cup opened' = pending \cup sending \cup opened
    BY <1>1, <2>1 DEF LoopInv, ResultInv
  <2> QED BY <1>1, <2>4, <2>5, <2>6, <2>7 DEF LoopInv, ResultInv
<1> QED BY <1>1, <1>2, <1>5, <1>6, <1>7, SameCounts DEF LoopInv, PlanPart

LEMMA ReceiveResultStep ==
    ASSUME LoopInv, ReceiveResult
    PROVE  LoopInv'
<1>1. /\ consuming = <<>> /\ retChan # <<>>
      /\ consuming' = Head(retChan) /\ retChan' = Tail(retChan)
      /\ UNCHANGED <<main, addr, pn, sT, hostGroup, stage, wgPing, wgHost, index, ports, openPorts,
                     pending, sending, aborted, left, opened, printed>>
  BY DEF ReceiveResult, ResultUnchanged, vars, loopVars, options, scannerVars
<1>2. main \notin {"plan", "ended"} /\ retChan \in Seq(Results) /\ IsInjective(retChan)
  BY <1>1, Scanning DEF LoopInv, LoopTypes, MainInv, ResultInv
<1>3. PICK h, q : h = Head(retChan) /\ q = Tail(retChan)
  OBVIOUS
<1>4. /\ h \in Results /\ q \in Seq(Results) /\ Len(q) = Len(retChan) - 1
      /\ \A i \in DOMAIN q : q[i] = retChan[i + 1]
      /\ h = retChan[1]
  BY <1>1, <1>2, <1>3
<1>5. h \notin ToSet(q) /\ ToSet(retChan) = ToSet(q) \cup {h} /\ IsInjective(q)
  <2>1. /\ DOMAIN q = 1 .. Len(retChan) - 1 /\ DOMAIN retChan = 1 .. Len(retChan)
        /\ Len(retChan) \in Nat \ {0}
    BY <1>1, <1>2, <1>4
  <2>2. \A i \in DOMAIN q : i + 1 \in DOMAIN retChan /\ i + 1 # 1
    BY <2>1
  <2>3. \A i \in DOMAIN retChan : i = 1 \/ (i - 1 \in DOMAIN q /\ q[i - 1] = retChan[i])
    BY <1>4, <2>1
  <2>4. h \notin ToSet(q)
    BY <1>2, <1>4, <2>1, <2>2 DEF IsInjective, ToSet
  <2>5. ToSet(retChan) \subseteq ToSet(q) \cup {h}
    BY <1>4, <2>3 DEF ToSet
  <2>6. ToSet(q) \cup {h} \subseteq ToSet(retChan)
    BY <1>4, <2>1, <2>2 DEF ToSet
  <2>7. ASSUME NEW i \in DOMAIN q, NEW j \in DOMAIN q, q[i] = q[j] PROVE i = j
    <3>1. i + 1 = j + 1
      BY <1>2, <1>4, <2>2, <2>7 DEF IsInjective
    <3> QED BY <2>1, <3>1
  <2> QED BY <2>4, <2>5, <2>6, <2>7 DEF IsInjective
<1>6. LoopTypes'
  <2>1. Len(q) <= RetCap
    BY <1>2, <1>4, LoopAssumption DEF LoopInv, LoopTypes
  <2> QED BY <1>1, <1>3, <1>4, <2>1 DEF LoopInv, LoopTypes
<1>7. StageInv' /\ MainInv' /\ LeftInv'
  BY <1>1, <1>2 DEF LoopInv, StageInv, MainInv, LeftInv, Waited
<1>8. ResultInv'
  <2>1. h # <<>>
    BY <1>4, ResultNotEmpty
  <2>2. h \notin printed /\ printed \cap ToSet(q) = {}
    BY <1>5 DEF LoopInv, ResultInv
  <2>3. opened = printed \cup ToSet(q) \cup {h}
    BY <1>1, <1>5 DEF LoopInv, ResultInv, Received
  <2> QED BY <1>1, <1>3, <1>5, <2>1, <2>2, <2>3 DEF LoopInv, ResultInv, Received
<1> QED BY <1>1, <1>2, <1>6, <1>7, <1>8, SameCounts DEF LoopInv, PlanPart

\* One result more is printed for the address of its entry, and for no other.
LEMMA consumeResultStep ==
    ASSUME LoopInv, consumeResult
    PROVE  LoopInv'
<1> DEFINE b == addr[consuming[1]]
<1>1. /\ consuming # <<>> /\ consuming' = <<>>
      /\ printed' = printed \cup {consuming}
      /\ openPorts' = IF MaxOpenPort > 0 THEN [openPorts EXCEPT ![b] = Counted(b)] ELSE openPorts
      /\ UNCHANGED <<main, addr, pn, sT, hostGroup, stage, wgPing, wgHost, index, ports, pending,
                     sending, aborted, left, retChan, opened>>
  BY DEF consumeResult, ResultUnchanged, vars, loopVars, options, scannerVars
<1>2. /\ main \notin {"plan", "ended"} /\ consuming \in Results
      /\ openPorts \in [IPs -> Nat \cup {NoCount}]
  BY <1>1, Scanning DEF LoopInv, LoopTypes, MainInv
<1>3. b \in IPs /\ \A t \in Targets : addr[t] \in IPs
  BY <1>2 DEF LoopInv, LoopTypes, IPs, Results
<1>4. Counted(b) = (IF openPorts[b] = -1 THEN -1 ELSE openPorts[b] + 1)
  BY DEF Counted, NoCount
<1> HIDE DEF b
<1>5. /\ openPorts' \in [IPs -> Nat \cup {NoCount}]
      /\ \A a \in IPs : a # b => openPorts'[a] = openPorts[a]
      /\ openPorts'[b] <= openPorts[b] + 1
      /\ MaxOpenPort > 0 /\ openPorts[b] # -1 => openPorts'[b] = openPorts[b] + 1
  BY <1>1, <1>2, <1>3, <1>4 DEF NoCount
<1>6. LoopTypes'
  BY <1>1, <1>2, <1>5 DEF LoopInv, LoopTypes
<1>7. StageInv' /\ MainInv' /\ LeftInv'
  BY <1>1 DEF LoopInv, StageInv, MainInv, LeftInv, Waited
<1>8. consuming \notin printed \cup ToSet(retChan) /\ Received = {consuming} /\ Received' = {}
  BY <1>1 DEF LoopInv, ResultInv, Received
<1>9. ResultInv'
  <2>1. <<>> \notin printed' \cup ToSet(retChan')
    <3>1. opened = printed' \cup ToSet(retChan')
      BY <1>1, <1>8 DEF LoopInv, ResultInv
    <3>2. opened \subseteq Results
      BY DEF LoopInv, LoopTypes
    <3> QED BY <3>1, <3>2, ResultNotEmpty
  <2> QED BY <1>1, <1>8, <2>1 DEF LoopInv, ResultInv
<1>10. CountInv'
  <2>1. ASSUME NEW a
        PROVE  /\ PrintedAt(a)' = IF a = b THEN PrintedAt(a) \cup {consuming} ELSE PrintedAt(a)
               /\ consuming \notin PrintedAt(a)
    BY <1>1, <1>8 DEF PrintedAt, b
  <2>2. ASSUME NEW a
        PROVE  /\ Cardinality(PrintedAt(a)) \in Nat
               /\ Cardinality(PrintedAt(a)') = IF a = b THEN Cardinality(PrintedAt(a)) + 1
                                                ELSE Cardinality(PrintedAt(a))
    BY <2>1, PrintedCount, FS_AddElement
  <2>3. IsFiniteSet(printed')
    BY <1>1, FS_AddElement DEF LoopInv, CountInv
  <2>4. ASSUME NEW a \in IPs PROVE openPorts'[a] <= Cardinality(PrintedAt(a)')
    <3>1. openPorts[a] <= Cardinality(PrintedAt(a)) /\ openPorts[a] \in Int /\ openPorts'[a] \in Int
      BY <1>2, <1>5 DEF LoopInv, CountInv, NoCount
    <3>2. CASE a = b
      BY <1>5, <2>2, <3>1, <3>2
    <3>3. CASE a # b
      BY <1>5, <2>2, <3>1, <3>3
    <3> QED BY <3>2, <3>3
  <2>5. ASSUME NEW t \in Targets, OnlyEntry(t)', MaxOpenPort > 0,
               stage'[t] \in {"check", "submit", "finish"}
        PROVE  openPorts'[addr'[t]] = Cardinality(PrintedAt(addr[t])')
    <3>1. OnlyEntry(t)
      BY <1>1, <2>5 DEF OnlyEntry
    <3>2. openPorts[addr[t]] = Cardinality(PrintedAt(addr[t]))
      BY <1>1, <2>5, <3>1 DEF LoopInv, CountInv
    <3>3. PICK a \in IPs : a = addr[t] /\ a = addr'[t]
      BY <1>1, <1>3
    <3>4. openPorts'[a] = Cardinality(PrintedAt(a)')
      <4>1. CASE a = b
        BY <1>5, <2>2, <2>5, <3>2, <3>3, <4>1
      <4>2. CASE a # b
        BY <1>5, <2>2, <3>2, <3>3, <4>2
      <4> QED BY <4>1, <4>2
    <3>5. PrintedAt(a)' = {x \in printed' : addr'[x[1]] = a}
      BY DEF PrintedAt
    <3>6. PrintedAt(addr[t])' = {x \in printed' : addr'[x[1]] = addr'[t]}
      BY DEF PrintedAt
    <3> QED BY <3>3, <3>4, <3>5, <3>6
  <2>6. ASSUME NEW t \in Targets, stage'[t] \in {"finish", "done"}
        PROVE  \/ index'[t] = Len(ports')
               \/ MaxOpenPort > 0 /\ Cardinality(PrintedAt(addr[t])') >= MaxOpenPort
    <3>1. CASE index[t] = Len(ports)
      BY <1>1, <3>1
    <3>2. CASE MaxOpenPort > 0 /\ Cardinality(PrintedAt(addr[t])) >= MaxOpenPort
      <4>1. PICK a \in IPs : a = addr[t] /\ a = addr'[t]
        BY <1>1, <1>3
      <4>2. Cardinality(PrintedAt(a)') >= MaxOpenPort
        BY <2>2, <3>2, <4>1, LoopAssumption
      <4>3. PrintedAt(a)' = {x \in printed' : addr'[x[1]] = a}
        BY DEF PrintedAt
      <4>4. PrintedAt(addr[t])' = {x \in printed' : addr'[x[1]] = addr'[t]}
        BY DEF PrintedAt
      <4> QED BY <3>2, <4>1, <4>2, <4>3, <4>4
    <3> QED BY <1>1, <2>6, <3>1, <3>2 DEF LoopInv, CountInv
  <2> QED BY <2>3, <2>4, <2>5, <2>6 DEF CountInv
<1> QED BY <1>1, <1>2, <1>6, <1>7, <1>9, <1>10 DEF LoopInv, PlanPart

-----------------------------------------------------------------------------
(* run.                                                                    *)

LEMMA MainStep ==
    ASSUME LoopInv, MainSteps
    PROVE  LoopInv'
<1>1. PICK s \in Places \ {"plan", "submit"} :
          /\ main # "plan" /\ main' = s
          /\ UNCHANGED <<addr, pn, sT, hostGroup, stage, wgPing, wgHost, index, ports, openPorts,
                         pending, sending, aborted, retChan, consuming, opened, printed>>
          /\ left' = left \/ left' = pending
  BY DEF MainSteps, AllSubmitted, WaitPing, WaitHosts, WaitScanner, CloseScanner, ScannerClosed,
     CloseRetChan, ReceiveSingle, MainGoto, MainUnchanged, Places, vars, loopVars, options,
     resultVars, scannerVars
<1>2. LoopTypes' /\ StageInv'
  <2>1. LoopTypes'
    BY <1>1 DEF LoopInv, LoopTypes
  <2>2. StageInv'
    BY <1>1 DEF LoopInv, StageInv
  <2> QED BY <2>1, <2>2
<1>3. MainInv' /\ LeftInv'
  <2> USE DEF MainInv, LeftInv, Waited, MainGoto, MainUnchanged, resultVars, scannerVars
  <2>1. CASE AllSubmitted
    BY <1>1, <2>1 DEF LoopInv, AllSubmitted, At
  <2>2. CASE WaitPing
    BY <1>1, <2>2 DEF LoopInv, WaitPing
  <2>3. CASE WaitHosts
    BY <1>1, <2>3 DEF LoopInv, WaitHosts
  <2>4. CASE WaitScanner
    BY <1>1, <2>4 DEF LoopInv, WaitScanner
  <2>5. CASE CloseScanner
    BY <1>1, <2>5 DEF LoopInv, CloseScanner
  <2>6. CASE ScannerClosed
    BY <1>1, <2>6 DEF LoopInv, ScannerClosed
  <2>7. CASE CloseRetChan
    BY <1>1, <2>7 DEF LoopInv, CloseRetChan
  <2>8. CASE ReceiveSingle
    BY <1>1, <2>8 DEF LoopInv, ReceiveSingle
  <2> QED BY <2>1, <2>2, <2>3, <2>4, <2>5, <2>6, <2>7, <2>8 DEF MainSteps
<1>4. ResultInv'
  BY <1>1, SameResults
<1>5. CountInv'
  BY <1>1, SameCounts
<1> QED BY <1>1, <1>2, <1>3, <1>4, <1>5 DEF LoopInv, PlanPart

\* Nothing of the plan matters but its ports once the scan has begun.
LEMMA StutterLoop ==
    ASSUME LoopInv, UNCHANGED <<vars, scanVars>>
    PROVE  LoopInv'
<1>1. /\ UNCHANGED vars
      /\ UNCHANGED <<main, addr, pn, sT, hostGroup, stage, wgPing, wgHost, index, openPorts, pending,
                     sending, aborted, left, retChan, consuming, opened, printed>>
  BY DEF scanVars, loopVars, options, resultVars, scannerVars
<1>2. UNCHANGED ports
  BY DEF vars
<1>3. LoopTypes'
  BY <1>1, <1>2 DEF LoopInv, LoopTypes
<1>4. StageInv' /\ MainInv' /\ LeftInv'
  BY <1>1, <1>2 DEF LoopInv, StageInv, MainInv, LeftInv, Waited
<1>5. ResultInv'
  BY <1>1, <1>2, SameResults
<1>6. PlanPart'
  <2> SUFFICES ASSUME main' = "plan" PROVE PlanPart'
    BY DEF PlanPart
  <2>1. PlanInv'
    BY <1>1, PlanStutter DEF LoopInv, PlanPart
  <2> QED BY <1>1, <2>1 DEF LoopInv, PlanPart
<1>7. CountInv'
  <2>1. \A a : PrintedAt(a)' = PrintedAt(a)
    BY <1>1 DEF PrintedAt
  <2>2. \A t \in Targets : OnlyEntry(t)' <=> OnlyEntry(t)
    BY <1>1 DEF OnlyEntry
  <2> QED BY <1>1, <1>2, <2>1, <2>2 DEF LoopInv, CountInv
<1> QED BY <1>3, <1>4, <1>5, <1>6, <1>7 DEF LoopInv

LEMMA LoopStep ==
    ASSUME LoopInv, [ScanNext]_<<vars, scanVars>>
    PROVE  LoopInv'
<1>1. ASSUME NEW t \in Targets, Target(t) PROVE LoopInv'
  BY <1>1, SubmitPingStep, SubmitHostStep, DeadStep, LiveStep, InvokeStep, PingDoneStep,
     ResetCountStep, StopStep, CheckStep, ScanStep, FinishHostStep DEF Target
<1>2. ASSUME NEW x, Scanner(x) PROVE LoopInv'
  BY <1>2, NotOpenStep, FoundStep, DeliverStep, AbortStep DEF Scanner
<1>3. CASE MakePlan \/ StartScan
  BY <1>3, MakePlanStep, StartScanStep
<1>4. CASE ReceiveResult \/ consumeResult
  BY <1>4, ReceiveResultStep, consumeResultStep
<1>5. CASE MainSteps
  BY <1>5, MainStep
<1>6. CASE Finished \/ UNCHANGED <<vars, scanVars>>
  BY <1>6, StutterLoop DEF Finished
<1> QED BY <1>1, <1>2, <1>3, <1>4, <1>5, <1>6 DEF ScanNext

LEMMA LoopInvariance == ScanSpec => []LoopInv
<1>1. ScanInit => LoopInv
  BY InitLoop
<1>2. LoopInv /\ [ScanNext]_<<vars, scanVars>> => LoopInv'
  BY LoopStep
<1> QED BY <1>1, <1>2, PTL DEF ScanSpec

-----------------------------------------------------------------------------
(* The properties.                                                         *)

\* Every piece of the command's state has its type, and only results that were
\* sent on retChan are printed.
THEOREM ScanTypes == ScanSpec => []ScanTypeOK
<1>1. LoopInv => ScanTypeOK
  <2> SUFFICES ASSUME LoopInv PROVE ScanTypeOK
    OBVIOUS
  <2>1. IF main = "plan" THEN TypeOK ELSE addr \in AddressLists /\ hostGroup > 0
    BY DEF LoopInv, LoopTypes, PlanPart, PlanInv
  <2>2. index \in [Targets -> 0 .. Len(ports)]
    <3>1. Len(ports) \in Nat
      BY DEF LoopInv, LoopTypes, PlanPart, PlanInv, TypeOK
    <3> QED BY <3>1 DEF LoopInv, LoopTypes
  <2>3. printed \subseteq opened
    BY DEF LoopInv, ResultInv
  <2>4. main \in Places /\ stage \in [Targets -> Stages]
    BY DEF LoopInv, LoopTypes
  <2> QED BY <2>1, <2>2, <2>3, <2>4 DEF LoopInv, LoopTypes, ScanTypeOK, Places, Stages, Results
<1> QED BY <1>1, LoopInvariance, PTL

\* By the time retChan is closed every target is dead or done, and Close has ended
\* whatever ports s.Wait left: none can be found open, no result is on its way.
THEOREM NothingAfterClose == ScanSpec => []QuietWhenClosed
<1>1. LoopInv => QuietWhenClosed
  <2> SUFFICES ASSUME LoopInv, Closed PROVE QuietWhenClosed
    BY DEF QuietWhenClosed
  <2>1. wgPing = {} /\ wgHost = {} /\ pending = {} /\ sending = {}
    BY DEF LoopInv, MainInv, Closed, Waited
  <2>2. ASSUME NEW t \in Targets PROVE stage[t] \in {"dead", "done"}
    <3>1. stage[t] \in Stages /\ stage[t] # "new"
      BY DEF LoopInv, LoopTypes, MainInv, Closed
    <3>2. stage[t] \notin Active /\ stage[t] # "ping"
      BY <2>1 DEF LoopInv, StageInv
    <3> QED BY <3>1, <3>2 DEF Stages, Active
  <2> QED BY <2>1, <2>2 DEF QuietWhenClosed, At
<1> QED BY <1>1, LoopInvariance, PTL

\* When the command ends every result has been printed, Close has lost at most
\* ports without an answer when s.Wait returned, none of a TCP scan, and every live
\* target has had the whole plan, or as many open ports as it may have.
THEOREM CompleteAtEnd == ScanSpec => []EndsComplete
<1>1. LoopInv /\ QuietWhenClosed => EndsComplete
  <2> SUFFICES ASSUME LoopInv, QuietWhenClosed, main = "ended" PROVE EndsComplete
    BY DEF EndsComplete
  <2>1. printed = opened
    <3>1. retChan = <<>> /\ consuming = <<>>
      BY DEF LoopInv, MainInv
    <3>2. ToSet(retChan) = {} /\ Received = {}
      BY <3>1 DEF ToSet, Received
    <3> QED BY <3>2 DEF LoopInv, ResultInv
  <2>2. ASSUME NEW t \in Targets
        PROVE  \/ stage[t] = "dead"
               \/ stage[t] = "done" /\ index[t] = Len(ports)
               \/ stage[t] = "done" /\ MaxOpenPort > 0 /\ Cardinality(PrintedOf(t)) >= MaxOpenPort
    <3>1. stage[t] \in {"dead", "done"}
      BY DEF QuietWhenClosed, Closed, At
    <3>2. PrintedOf(t) = PrintedAt(addr[t])
      BY DEF PrintedOf, PrintedAt
    <3> QED BY <3>1, <3>2 DEF LoopInv, CountInv
  <2>3. aborted \subseteq left /\ (sT => aborted = {})
    BY DEF LoopInv, LeftInv, Waited
  <2> QED BY <2>1, <2>2, <2>3 DEF EndsComplete
<1> QED BY <1>1, LoopInvariance, NothingAfterClose, PTL

\* What is scanned is the complete plan of the text, and nothing touches it
\* again before the command ends.
PhaseInv == main # "plan" => phase = "scan"

ScansThePlan == [][
    /\ StartScan => IsInjective(ports) /\ ToSet(ports) = Selected(text)
    /\ ports' # ports => main = "plan" /\ main' = "plan"]_<<vars, scanVars>>

LEMMA ScanKeepsPlan ==
    ASSUME [ScanNext]_<<vars, scanVars>>, ~MakePlan, ~StartScan
    PROVE  UNCHANGED vars /\ (main = "plan" => UNCHANGED main)
<1>1. ASSUME NEW t \in Targets, Target(t) PROVE UNCHANGED vars /\ UNCHANGED main
  BY <1>1 DEF Target, SubmitPing, SubmitHost, Dead, Live, Invoke, PingDone, ResetCount, Stop, Check,
     Scan, FinishHost, TargetUnchanged, ScanUnchanged
<1>2. ASSUME NEW x, Scanner(x) PROVE UNCHANGED vars /\ UNCHANGED main
  BY <1>2 DEF Scanner, NotOpen, Found, Deliver, Abort, ResultUnchanged
<1>3. CASE ReceiveResult \/ consumeResult
  BY <1>3 DEF ReceiveResult, consumeResult, ResultUnchanged
<1>4. CASE MainSteps
  BY <1>4 DEF MainSteps, AllSubmitted, WaitPing, WaitHosts, WaitScanner, CloseScanner,
     ScannerClosed, CloseRetChan, ReceiveSingle, MainGoto, MainUnchanged
<1>5. CASE Finished \/ UNCHANGED <<vars, scanVars>>
  BY <1>5 DEF Finished, scanVars
<1> QED BY <1>1, <1>2, <1>3, <1>4, <1>5 DEF ScanNext

LEMMA PhaseStep ==
    ASSUME PhaseInv, [ScanNext]_<<vars, scanVars>>
    PROVE  PhaseInv'
<1>1. CASE MakePlan
  BY <1>1 DEF MakePlan, scanVars, PhaseInv
<1>2. CASE StartScan
  BY <1>2 DEF StartScan, PhaseInv
<1>3. CASE ~MakePlan /\ ~StartScan
  BY <1>3, ScanKeepsPlan DEF PhaseInv, vars
<1> QED BY <1>1, <1>2, <1>3

\* The plan the command makes is the one PortPlan promises, and the command
\* scans this plan.
THEOREM PlanOfScan == ScanSpec => []PlanComplete /\ ScansThePlan
<1>1. ScanInit => PhaseInv
  BY DEF ScanInit, PhaseInv
<1>2. PhaseInv /\ [ScanNext]_<<vars, scanVars>> => PhaseInv'
  BY PhaseStep
<1>3. LoopInv /\ PhaseInv => PlanComplete
  <2>1. CASE main = "plan"
    BY <2>1, CompletePlan DEF LoopInv, PlanPart
  <2>2. CASE main # "plan"
    BY <2>2 DEF PhaseInv, PlanComplete
  <2> QED BY <2>1, <2>2
<1>4. ASSUME PlanComplete, [ScanNext]_<<vars, scanVars>>
      PROVE  /\ StartScan => IsInjective(ports) /\ ToSet(ports) = Selected(text)
             /\ ports' # ports => main = "plan" /\ main' = "plan"
  <2>1. StartScan => phase = "done" /\ ports' = ports
    BY DEF StartScan
  <2>2. MakePlan => main = "plan" /\ main' = "plan"
    BY DEF MakePlan, scanVars
  <2>3. ~MakePlan /\ ~StartScan => ports' = ports
    BY <1>4, ScanKeepsPlan DEF vars
  <2> QED BY <1>4, <2>1, <2>2, <2>3 DEF PlanComplete
<1>5. PlanComplete /\ [ScanNext]_<<vars, scanVars>> =>
        [/\ StartScan => IsInjective(ports) /\ ToSet(ports) = Selected(text)
         /\ ports' # ports => main = "plan" /\ main' = "plan"]_<<vars, scanVars>>
  BY <1>4
<1> QED BY <1>1, <1>2, <1>3, <1>5, LoopInvariance, PTL DEF ScanSpec, ScansThePlan

\* The loop of an entry goes on only through Check.
LEMMA GoesOn ==
    ASSUME LoopInv, [ScanNext]_<<vars, scanVars>>,
           NEW t \in Targets, stage[t] = "check", stage'[t] = "submit"
    PROVE  Check(t)
<1>1. stage \in [Targets -> Stages] /\ stage' # stage
  BY DEF LoopInv, LoopTypes
<1>2. PICK u \in Targets : Target(u)
  BY <1>1 DEF ScanNext, MakePlan, StartScan, Scanner, NotOpen, Found, Deliver, Abort, ReceiveResult,
     consumeResult, ResultUnchanged, MainSteps, AllSubmitted, WaitPing, WaitHosts, WaitScanner,
     CloseScanner, ScannerClosed, CloseRetChan, ReceiveSingle, MainGoto, MainUnchanged, Finished,
     scanVars, loopVars
<1>3. PICK s \in Stages : Goto(u, s) /\ (s = "submit" => Check(u))
  BY <1>1, <1>2 DEF Target, SubmitPing, SubmitHost, Dead, Live, Invoke, PingDone, ResetCount, Stop,
     Check, Scan, FinishHost, Stages
<1>4. s = "submit" /\ t = u
  BY <1>1, <1>3 DEF Goto
<1> QED BY <1>3, <1>4

\* A loop whose address has had its maxOpenPort results printed never goes on,
\* if no other entry has that address.
THEOREM LimitStopsLoop == ScanSpec => StopsSoon
<1>1. ASSUME LoopInv, [ScanNext]_<<vars, scanVars>>, NEW t \in Targets, OnlyEntry(t),
             stage[t] = "check", stage'[t] = "submit"
      PROVE  MaxOpenPort = 0 \/ Cardinality(PrintedOf(t)) < MaxOpenPort
  <2>1. ~Limited(t)
    BY <1>1, GoesOn DEF Check
  <2>2. CASE MaxOpenPort = 0
    BY <2>2
  <2>3. CASE MaxOpenPort > 0
    <3>1. openPorts[addr[t]] = Cardinality(PrintedAt(addr[t]))
      BY <1>1, <2>3 DEF LoopInv, CountInv
    <3>2. PrintedOf(t) = PrintedAt(addr[t]) /\ Cardinality(PrintedAt(addr[t])) \in Nat
      BY <1>1, PrintedCount DEF PrintedOf, PrintedAt
    <3> QED BY <2>1, <2>3, <3>1, <3>2, LoopAssumption DEF Limited
  <2> QED BY <2>2, <2>3, LoopAssumption
<1>2. ASSUME LoopInv, [ScanNext]_<<vars, scanVars>>
      PROVE  [\A t \in Targets : OnlyEntry(t) /\ stage[t] = "check" /\ stage'[t] = "submit" =>
                 MaxOpenPort = 0 \/ Cardinality(PrintedOf(t)) < MaxOpenPort]_scanVars
  BY <1>1, <1>2
<1> QED BY <1>2, LoopInvariance, PTL DEF ScanSpec, StopsSoon
=============================================================================
