------------------------- MODULE HostLimiter_proofs -------------------------
(***************************************************************************)
(* Proofs about HostLimiter, for any number of calls and hosts, any gap,   *)
(* time to live and length of the run.                                     *)
(***************************************************************************)
EXTENDS HostLimiter, FiniteSetTheorems, TLAPS

-----------------------------------------------------------------------------
(* The inductive invariant.  An entry is named by its creator, which is    *)
(* past the lock and asked for the same host, so a new entry is nobody's.  *)

Holders(e) == {c \in Calls : Holds(c) /\ entryOf[c] = e}

HostInv == \A c \in Calls : pc[c] # "idle" => host[c] \in Hosts

EntryInv == \A h \in Hosts : entries[h] \in Calls =>
                host[entries[h]] = h /\ pc[entries[h]] \notin {"idle", "lock"}

HolderInv == \A c \in Calls : Holds(c) => entryOf[c] \in Calls /\ entries[host[c]] = entryOf[c]

CountInv == \A e \in Calls : active[e] = Cardinality(Holders(e))

IInv == TypeOK /\ HostInv /\ EntryInv /\ HolderInv /\ CountInv

-----------------------------------------------------------------------------
\* An entry without waiters is not held.
LEMMA NobodyHolds ==
    ASSUME IInv, NEW e \in Calls, active[e] = 0
    PROVE  Holders(e) = {}
<1>1. IsFiniteSet(Holders(e))
  BY CallsAssumption, FS_Subset DEF Holders
<1>2. Cardinality(Holders(e)) = 0
  BY DEF IInv, CountInv
<1> QED BY <1>1, <1>2, FS_EmptySet

\* A call that is still at the lock created no entry that anybody holds.
LEMMA NewEntryIsFree ==
    ASSUME IInv, NEW c \in Calls, pc[c] = "lock"
    PROVE  Holders(c) = {} /\ \A h \in Hosts : entries[h] # c
<1>1. \A h \in Hosts : entries[h] # c
  BY DEF IInv, EntryInv
<1>2. ASSUME NEW d \in Holders(c) PROVE FALSE
  <2>1. entries[host[d]] = c /\ host[d] \in Hosts
    BY DEF IInv, HolderInv, HostInv, Holders, Holds
  <2> QED BY <1>1, <2>1
<1> QED BY <1>1, <1>2

LEMMA InitInv == Init => IInv
<1> SUFFICES ASSUME Init PROVE IInv
  OBVIOUS
<1>1. TypeOK
  BY TimeAssumption DEF Init, TypeOK, Times
<1>2. HostInv /\ EntryInv /\ HolderInv
  BY CallsAssumption DEF Init, HostInv, EntryInv, HolderInv, Holds
<1>3. CountInv
  <2>1. \A e \in Calls : Holders(e) = {}
    BY DEF Init, Holders, Holds
  <2> QED BY <2>1, FS_EmptySet DEF Init, CountInv
<1> QED BY <1>1, <1>2, <1>3 DEF IInv

-----------------------------------------------------------------------------
(* Steps that leave the store alone: nobody comes or goes.                 *)

StoreKept == UNCHANGED <<entries, active, entryOf>>

\* A call that moves between two places of which both or none hold its entry.
LEMMA KeptStep ==
    ASSUME IInv, StoreKept, TypeOK',
           \A c \in Calls : Holds(c)' = Holds(c),
           \A c \in Calls : pc[c] # "idle" => host'[c] = host[c] /\ pc'[c] # "idle",
           \A c \in Calls : pc[c] \notin {"idle", "lock"} => pc'[c] # "lock",
           \A c \in Calls : pc'[c] # "idle" => host'[c] \in Hosts
    PROVE  IInv'
<1>1. HostInv'
  BY DEF HostInv
<1>2. EntryInv'
  BY DEF IInv, EntryInv, StoreKept
<1>3. HolderInv'
  BY DEF IInv, HolderInv, StoreKept, Holds
<1>4. CountInv'
  <2>1. \A e \in Calls : Holders(e)' = Holders(e)
    BY DEF Holders, StoreKept
  <2> QED BY <2>1 DEF IInv, CountInv, StoreKept
<1> QED BY <1>1, <1>2, <1>3, <1>4 DEF IInv

LEMMA KeptActions ==
    ASSUME IInv, NEW c \in Calls,
           (\E h \in Hosts : Call(c, h)) \/ Reserve(c) \/ Refuse(c) \/ Grant(c) \/ Cancel(c)
    PROVE  IInv'
<1> USE DEF IInv
<1>1. TypeOK'
  <2> USE CallsAssumption, TimeAssumption DEF TypeOK, Times, Goto
  <2>0. clock \in Nat /\ slot[c] \in Nat
    OBVIOUS
  <2>1. CASE \E h \in Hosts : Call(c, h)
    BY <2>1 DEF Call, storeVars
  <2>2. CASE Reserve(c)
    <3>1. entryOf[c] \in Calls
      BY <2>2 DEF Reserve, HolderInv, Holds
    <3>2. Later(clock, next[entryOf[c]]) \in Nat /\ Later(clock, next[entryOf[c]]) + Gap \in Nat
      BY <3>1 DEF Later
    <3> QED BY <2>2, <3>1, <3>2 DEF Reserve, storeVars, callVars
  <2>3. CASE Refuse(c)
    BY <2>3 DEF Refuse, storeVars, callVars
  <2>4. CASE Grant(c)
    BY <2>4 DEF Grant, storeVars
  <2>5. CASE Cancel(c)
    <3>1. entryOf[c] \in Calls
      BY <2>5 DEF Cancel, HolderInv, Holds
    <3> QED BY <2>5, <3>1, <2>0 DEF Cancel, storeVars, callVars
  <2> QED BY <2>1, <2>2, <2>3, <2>4, <2>5
<1>2. StoreKept
  BY DEF Call, Reserve, Refuse, Grant, Cancel, storeVars, callVars, StoreKept
<1>3. PICK s \in {"lock", "waiting", "release"} :
        pc' = [pc EXCEPT ![c] = s] /\ (s = "lock" <=> pc[c] = "idle")
        /\ (s # "lock" => pc[c] \in {"acquired", "waiting"})
  BY DEF Call, Reserve, Refuse, Grant, Cancel, Goto
<1>4. /\ pc[c] = "idle" => \E h \in Hosts : host' = [host EXCEPT ![c] = h]
      /\ pc[c] # "idle" => host' = host
  BY DEF Call, Reserve, Refuse, Grant, Cancel, callVars
<1>5. \A d \in Calls : Holds(d)' = Holds(d)
  BY <1>3 DEF Holds, TypeOK
<1>6. \A d \in Calls : pc[d] # "idle" => host'[d] = host[d] /\ pc'[d] # "idle"
  BY <1>3, <1>4 DEF TypeOK
<1>7. \A d \in Calls : pc[d] \notin {"idle", "lock"} => pc'[d] # "lock"
  BY <1>3 DEF TypeOK
<1>8. \A d \in Calls : pc'[d] # "idle" => host'[d] \in Hosts
  BY <1>3, <1>4 DEF TypeOK, HostInv
<1> QED BY <1>1, <1>2, <1>5, <1>6, <1>7, <1>8, KeptStep

LEMMA TickStep ==
    ASSUME IInv, Tick
    PROVE  IInv'
<1>1. TypeOK'
  BY TimeAssumption DEF IInv, TypeOK, Times, Tick, storeVars, callVars
<1> QED BY <1>1, KeptStep DEF Tick, StoreKept, storeVars, callVars, Holds, IInv, HostInv

-----------------------------------------------------------------------------
(* Steps by which a call takes or releases an entry.                       *)

LEMMA AcquireStep ==
    ASSUME IInv, NEW c \in Calls, AcquireFresh(c)
    PROVE  IInv'
<1> DEFINE e == entries[host[c]]
<1>1. /\ pc[c] = "lock" /\ host[c] \in Hosts /\ e \in Calls
      /\ pc' = [pc EXCEPT ![c] = "acquired"] /\ entryOf' = [entryOf EXCEPT ![c] = e]
      /\ active' = [active EXCEPT ![e] = active[e] + 1]
      /\ lastSeen' = [lastSeen EXCEPT ![e] = readAt[c]]
      /\ UNCHANGED <<clock, entries, lastSweep, next, host, readAt, slot, granted, prompt>>
  BY DEF AcquireFresh, LoadFresh, Acquire, Goto, IInv, HostInv, TypeOK
<1> HIDE DEF e
<1>2. TypeOK'
  BY <1>1 DEF IInv, TypeOK
<1>3. HostInv' /\ EntryInv' /\ HolderInv'
  <2> USE <1>1 DEF IInv, TypeOK, Holds
  <2>1. HostInv'
    BY DEF HostInv
  <2>2. EntryInv'
    BY DEF EntryInv
  <2>3. HolderInv'
    BY DEF HolderInv, e
  <2> QED BY <2>1, <2>2, <2>3
<1>4. CountInv'
  <2> SUFFICES ASSUME NEW f \in Calls PROVE active'[f] = Cardinality(Holders(f)')
    BY DEF CountInv
  <2>1. CASE f = e
    <3>1. Holders(f)' = Holders(f) \cup {c} /\ c \notin Holders(f)
      BY <1>1, <2>1 DEF Holders, Holds, IInv, TypeOK
    <3>2. IsFiniteSet(Holders(f))
      BY CallsAssumption, FS_Subset DEF Holders
    <3>3. active'[f] = Cardinality(Holders(f)) + 1
      BY <1>1, <2>1 DEF IInv, TypeOK, CountInv
    <3> QED BY <3>1, <3>2, <3>3, FS_AddElement
  <2>2. CASE f # e
    <3>1. Holders(f)' = Holders(f)
      BY <1>1, <2>2 DEF Holders, Holds, IInv, TypeOK
    <3> QED BY <1>1, <2>2, <3>1 DEF IInv, TypeOK, CountInv
  <2> QED BY <2>1, <2>2
<1> QED BY <1>2, <1>3, <1>4 DEF IInv

LEMMA CreateStep ==
    ASSUME IInv, NEW c \in Calls, Create(c)
    PROVE  IInv'
<1>1. /\ pc[c] = "lock" /\ host[c] \in Hosts
      /\ pc' = [pc EXCEPT ![c] = "acquired"] /\ entryOf' = [entryOf EXCEPT ![c] = c]
      /\ active' = [active EXCEPT ![c] = 1] /\ lastSeen' = [lastSeen EXCEPT ![c] = readAt[c]]
      /\ next' = [next EXCEPT ![c] = 0]
      /\ lastSweep' \in {lastSweep, readAt[c]}
      /\ UNCHANGED <<clock, host, readAt, slot, granted, prompt>>
  BY DEF Create, Acquire, Goto, IInv, HostInv
<1>2. /\ entries' \in [Hosts -> Calls \cup {None}]
      /\ entries'[host[c]] = c
      /\ \A h \in Hosts \ {host[c]} : entries'[h] = entries[h] \/ entries'[h] = None
      /\ \A h \in Hosts : entries[h] \in Calls /\ entries'[h] # entries[h] => active[entries[h]] = 0
  <2>1. entries' = [h \in Hosts |->
                       IF h = host[c] THEN c
                       ELSE IF SweepDue(readAt[c]) /\ ~LoadFresh(h, readAt[c]) THEN None ELSE entries[h]]
    BY DEF Create
  <2>2. ~LoadFresh(host[c], readAt[c])
    BY DEF Create
  <2>3. \A h \in Hosts : entries[h] \in Calls /\ entries'[h] # entries[h] => active[entries[h]] = 0
    BY <2>1, <2>2, CallsAssumption DEF LoadFresh, IsExpired
  <2> QED BY <1>1, <2>1, <2>3, CallsAssumption DEF IInv, TypeOK
<1>3. TypeOK'
  BY <1>1, <1>2 DEF IInv, TypeOK
<1>4. HostInv'
  BY <1>1 DEF IInv, HostInv, TypeOK
<1>5. EntryInv'
  BY <1>1, <1>2, CallsAssumption DEF IInv, EntryInv, TypeOK
<1>6. HolderInv'
  <2> SUFFICES ASSUME NEW d \in Calls, Holds(d)'
               PROVE  entryOf'[d] \in Calls /\ entries'[host'[d]] = entryOf'[d]
    BY DEF HolderInv
  <2>1. CASE d = c
    BY <2>1, <1>1, <1>2 DEF IInv, TypeOK
  <2>2. CASE d # c
    <3>1. Holds(d) /\ entryOf'[d] = entryOf[d] /\ host'[d] = host[d]
      BY <2>2, <1>1 DEF IInv, TypeOK, Holds
    <3>2. entryOf[d] \in Calls /\ entries[host[d]] = entryOf[d] /\ host[d] \in Hosts
      BY <3>1 DEF IInv, HolderInv, HostInv, Holds
    <3>3. d \in Holders(entryOf[d])
      BY <3>1 DEF Holders
    <3>4. active[entryOf[d]] # 0
      BY <3>2, <3>3, NobodyHolds
    <3> QED BY <3>1, <3>2, <3>4, <1>2
  <2> QED BY <2>1, <2>2
<1>7. CountInv'
  <2> SUFFICES ASSUME NEW f \in Calls PROVE active'[f] = Cardinality(Holders(f)')
    BY DEF CountInv
  <2>1. CASE f = c
    <3>1. Holders(f)' = {c}
      BY <1>1, <2>1, NewEntryIsFree DEF Holders, Holds, IInv, TypeOK
    <3> QED BY <3>1, <2>1, <1>1, FS_Singleton DEF IInv, TypeOK
  <2>2. CASE f # c
    <3>1. Holders(f)' = Holders(f)
      BY <1>1, <2>2 DEF Holders, Holds, IInv, TypeOK
    <3> QED BY <1>1, <2>2, <3>1 DEF IInv, TypeOK, CountInv
  <2> QED BY <2>1, <2>2
<1> QED BY <1>3, <1>4, <1>5, <1>6, <1>7 DEF IInv

LEMMA ReleaseStep ==
    ASSUME IInv, NEW c \in Calls, Release(c)
    PROVE  IInv'
<1> DEFINE e == entryOf[c]
<1>1. /\ pc[c] = "release" /\ e \in Calls /\ pc' = [pc EXCEPT ![c] = "done"]
      /\ active' = [active EXCEPT ![e] = IF active[e] > 0 THEN active[e] - 1 ELSE active[e]]
      /\ lastSeen' = [lastSeen EXCEPT ![e] = readAt[c]]
      /\ UNCHANGED <<clock, entries, lastSweep, next, host, entryOf, granted, readAt, slot, prompt>>
  BY DEF Release, Goto, IInv, HolderInv, Holds, callVars, TypeOK
<1> HIDE DEF e
<1>2. TypeOK'
  <2>1. active[e] \in Nat
    BY <1>1 DEF IInv, TypeOK
  <2>2. (IF active[e] > 0 THEN active[e] - 1 ELSE active[e]) \in Nat
    BY <2>1
  <2> QED BY <1>1, <2>2 DEF IInv, TypeOK
<1>3. HostInv' /\ EntryInv' /\ HolderInv'
  <2> USE <1>1 DEF IInv, TypeOK, Holds
  <2>1. HostInv'
    BY DEF HostInv
  <2>2. EntryInv'
    BY DEF EntryInv
  <2>3. HolderInv'
    BY DEF HolderInv
  <2> QED BY <2>1, <2>2, <2>3
<1>4. CountInv'
  <2> SUFFICES ASSUME NEW f \in Calls PROVE active'[f] = Cardinality(Holders(f)')
    BY DEF CountInv
  <2>1. CASE f = e
    <3>1. c \in Holders(f)
      BY <1>1, <2>1 DEF Holders, Holds, e
    <3>2. Holders(f)' = Holders(f) \ {c}
      BY <1>1 DEF Holders, Holds, IInv, TypeOK
    <3>3. IsFiniteSet(Holders(f))
      BY CallsAssumption, FS_Subset DEF Holders
    <3>4. Cardinality(Holders(f)') = Cardinality(Holders(f)) - 1
      BY <3>1, <3>2, <3>3, FS_RemoveElement
    <3>5. active[f] > 0
      <4> active[f] \in Nat
        BY DEF IInv, TypeOK
      <4> QED BY <3>1, NobodyHolds
    <3>6. active'[f] = active[f] - 1
      BY <1>1, <2>1, <3>5 DEF IInv, TypeOK
    <3> QED BY <3>4, <3>6 DEF IInv, CountInv
  <2>2. CASE f # e
    <3>1. Holders(f)' = Holders(f)
      BY <1>1, <2>2 DEF Holders, Holds, IInv, TypeOK, e
    <3> QED BY <1>1, <2>2, <3>1 DEF IInv, TypeOK, CountInv
  <2> QED BY <2>1, <2>2
<1> QED BY <1>2, <1>3, <1>4 DEF IInv

-----------------------------------------------------------------------------
LEMMA StepInv == IInv /\ [Next]_vars => IInv'
<1> SUFFICES ASSUME IInv, [Next]_vars PROVE IInv'
  OBVIOUS
<1>1. CASE \E c \in Calls : \E h \in Hosts : Call(c, h)
  BY <1>1, KeptActions
<1>2. CASE \E c \in Calls : Reserve(c) \/ Refuse(c) \/ Grant(c) \/ Cancel(c)
  BY <1>2, KeptActions
<1>3. CASE \E c \in Calls : AcquireFresh(c)
  BY <1>3, AcquireStep
<1>4. CASE \E c \in Calls : Create(c)
  BY <1>4, CreateStep
<1>5. CASE \E c \in Calls : Release(c)
  BY <1>5, ReleaseStep
<1>6. CASE Tick
  BY <1>6, TickStep
<1>7. CASE UNCHANGED vars
  BY <1>7 DEF vars, storeVars, callVars, IInv, TypeOK, Times, HostInv, EntryInv, HolderInv,
              CountInv, Holders, Holds
<1> QED BY <1>1, <1>2, <1>3, <1>4, <1>5, <1>6, <1>7 DEF Next, Terminated

LEMMA Invariance == Spec => []IInv
BY InitInv, StepInv, PTL DEF Spec

\* The variables of the store and of its callers keep their types.
THEOREM TypeCorrect == Spec => []TypeOK
BY Invariance, PTL DEF IInv

\* host_limiter.go:127: an entry with waiters is never replaced or swept, so all
\* who wait for a host share the limiter that the store has for it.
THEOREM SharedLimiterHolds == Spec => []SharedLimiter
<1>1. IInv => SharedLimiter
  BY DEF IInv, HolderInv, SharedLimiter
<1> QED BY <1>1, Invariance, PTL

\* The field active of an entry is the number of calls that use it.
THEOREM ActiveCounts == Spec => []ActiveCountsWaiters
<1>1. IInv => ActiveCountsWaiters
  BY DEF IInv, CountInv, Holders, ActiveCountsWaiters
<1> QED BY <1>1, Invariance, PTL

-----------------------------------------------------------------------------
(* The spacing of the tokens.  An entry is released with the time at which *)
(* its last user began to wait, so it can expire, and a new limiter take   *)
(* its place, soon after a long wait.  The tokens keep their distance as   *)
(* long as every wait and the gap after it are over by then.               *)

\* The first time at which an entry that c releases can be replaced.
Expiry(c) == readAt[c] + TTL + 1

WaitsFit == Gap <= TTL + 1 /\ \A c \in Calls : pc[c] = "waiting" => slot[c] + Gap <= Expiry(c)

Slotted == {c \in Calls : pc[c] = "waiting"} \cup granted

\* Calls keep the entry of their host, and only they are granted a token.
CallerInv ==
    /\ \A c \in Calls : pc[c] \notin {"idle", "lock"} =>
        /\ entryOf[c] \in Calls /\ host[entryOf[c]] = host[c]
        /\ pc[entryOf[c]] \notin {"idle", "lock"}
    /\ \A c \in granted : pc[c] \in {"release", "done"} /\ slot[c] <= clock

\* Who is on time acts at the time it has read or has been waiting for.
OnTime == \A c \in Calls :
    /\ pc[c] = "lock" => readAt[c] = clock
    /\ pc[c] = "waiting" => clock <= slot[c]
    /\ pc[c] = "release" => clock + Gap <= Expiry(c)

\* A limiter's next token comes after all it has handed out.
NextInv == \A c \in Slotted : slot[c] + Gap <= next[entryOf[c]]

\* An entry nobody uses outlives its last token, and one that is gone did.
OutlivedInv == \A c \in granted :
    /\ active[entryOf[c]] = 0 => slot[c] + Gap <= lastSeen[entryOf[c]] + TTL + 1
    /\ entryOf[c] # entries[host[c]] => slot[c] + Gap <= clock

Apart(c, d) == slot[c] - slot[d] >= Gap \/ slot[d] - slot[c] >= Gap

ApartInv == \A c, d \in Slotted : c # d /\ host[c] = host[d] => Apart(c, d)

SpacingInv == CallerInv /\ (prompt => OnTime /\ NextInv /\ OutlivedInv /\ ApartInv)

\* The parts of SpacingInv that speak of a run on time.
Timely == OnTime /\ NextInv /\ OutlivedInv /\ ApartInv

LEMMA TimeTypes ==
    ASSUME IInv
    PROVE  /\ clock \in Nat /\ Gap \in Nat \ {0} /\ TTL \in Nat \ {0}
           /\ slot \in [Calls -> Nat] /\ next \in [Calls -> Nat] /\ readAt \in [Calls -> Nat]
           /\ lastSeen \in [Calls -> Nat] /\ granted \subseteq Calls
           /\ pc \in [Calls -> {"idle", "lock", "acquired", "waiting", "release", "done"}]
           /\ host \in [Calls -> Hosts \cup {None}] /\ entryOf \in [Calls -> Calls \cup {None}]
           /\ active \in [Calls -> Nat]
BY TimeAssumption DEF IInv, TypeOK, Times

\* Calls with a token hold an entry or have held one.
LEMMA SlottedFacts ==
    ASSUME IInv, CallerInv, NEW d \in Slotted
    PROVE  /\ d \in Calls /\ pc[d] \in {"waiting", "release", "done"}
           /\ entryOf[d] \in Calls /\ host[entryOf[d]] = host[d] /\ host[d] \in Hosts
           /\ pc[entryOf[d]] \notin {"idle", "lock"}
           /\ d \notin granted => pc[d] = "waiting" /\ entries[host[d]] = entryOf[d]
BY TimeTypes DEF Slotted, CallerInv, IInv, HolderInv, HostInv, Holds

\* A step of a call that keeps its token, or never had one, and no limiter.
LEMMA SpacingKept ==
    ASSUME IInv, CallerInv, Timely, Slotted' = Slotted,
           \A d \in Slotted : UNCHANGED <<slot[d], host[d], entryOf[d]>> /\ next'[entryOf[d]] = next[entryOf[d]]
    PROVE  NextInv' /\ ApartInv'
<1>1. NextInv'
  BY DEF Timely, NextInv
<1>2. ApartInv'
  BY DEF Timely, ApartInv, Apart
<1> QED BY <1>1, <1>2

LEMMA CallSpacing ==
    ASSUME IInv, CallerInv, NEW c \in Calls, NEW h \in Hosts, Call(c, h)
    PROVE  CallerInv' /\ (Timely => Timely')
<1>1. /\ pc[c] = "idle" /\ pc' = [pc EXCEPT ![c] = "lock"] /\ host' = [host EXCEPT ![c] = h]
      /\ readAt' = [readAt EXCEPT ![c] = clock]
      /\ UNCHANGED <<clock, entries, lastSeen, active, next, entryOf, granted, slot>>
  BY DEF Call, Goto, storeVars
<1>2. /\ pc'[c] = "lock" /\ readAt'[c] = clock
      /\ \A d \in Calls : d # c => pc'[d] = pc[d] /\ host'[d] = host[d] /\ readAt'[d] = readAt[d]
  BY <1>1, TimeTypes
<1>3. CallerInv'
  BY <1>1, <1>2, TimeTypes DEF CallerInv
<1>4. Slotted' = Slotted /\ c \notin Slotted
  BY <1>1, <1>2, SlottedFacts DEF Slotted
<1>5. ASSUME Timely PROVE Timely'
  <2>1. OnTime'
    BY <1>1, <1>2, <1>5 DEF Timely, OnTime, Expiry
  <2>2. NextInv' /\ ApartInv'
    <3>1. \A d \in Slotted : UNCHANGED <<slot[d], host[d], entryOf[d]>> /\ next'[entryOf[d]] = next[entryOf[d]]
      BY <1>1, <1>2, <1>4, SlottedFacts
    <3> QED BY <1>4, <1>5, <3>1, SpacingKept
  <2>3. OutlivedInv'
    <3>1. \A d \in granted : d \in Slotted /\ d # c
      BY <1>4 DEF Slotted
    <3> QED BY <1>1, <1>2, <1>5, <3>1, SlottedFacts DEF Timely, OutlivedInv
  <2> QED BY <2>1, <2>2, <2>3 DEF Timely
<1> QED BY <1>3, <1>5

LEMMA AcquireSpacing ==
    ASSUME IInv, CallerInv, NEW c \in Calls, AcquireFresh(c)
    PROVE  CallerInv' /\ (Timely => Timely')
<1> DEFINE e == entries[host[c]]
<1>1. /\ pc[c] = "lock" /\ e \in Calls /\ host[c] \in Hosts
      /\ pc' = [pc EXCEPT ![c] = "acquired"] /\ entryOf' = [entryOf EXCEPT ![c] = e]
      /\ active' = [active EXCEPT ![e] = active[e] + 1]
      /\ lastSeen' = [lastSeen EXCEPT ![e] = readAt[c]]
      /\ UNCHANGED <<clock, entries, next, host, readAt, slot, granted>>
  BY DEF AcquireFresh, LoadFresh, Acquire, Goto, IInv, HostInv, TypeOK
<1>2. host[e] = host[c] /\ pc[e] \notin {"idle", "lock"}
  BY <1>1 DEF IInv, EntryInv
<1> HIDE DEF e
<1>3. /\ pc'[c] = "acquired" /\ entryOf'[c] = e /\ active'[e] # 0
      /\ \A d \in Calls : d # c => pc'[d] = pc[d] /\ entryOf'[d] = entryOf[d]
      /\ \A d \in Calls : d # e => active'[d] = active[d] /\ lastSeen'[d] = lastSeen[d]
  BY <1>1, TimeTypes
<1>4. CallerInv'
  BY <1>1, <1>2, <1>3, TimeTypes DEF CallerInv
<1>5. Slotted' = Slotted /\ c \notin Slotted
  BY <1>1, <1>3, SlottedFacts DEF Slotted
<1>6. ASSUME Timely PROVE Timely'
  <2>1. OnTime'
    BY <1>1, <1>3, <1>6 DEF Timely, OnTime, Expiry
  <2>2. NextInv' /\ ApartInv'
    <3>1. \A d \in Slotted : UNCHANGED <<slot[d], host[d], entryOf[d]>> /\ next'[entryOf[d]] = next[entryOf[d]]
      BY <1>1, <1>3, <1>5, SlottedFacts
    <3> QED BY <1>5, <1>6, <3>1, SpacingKept
  <2>3. OutlivedInv'
    <3>1. \A d \in granted : d \in Slotted /\ d # c
      BY <1>5 DEF Slotted
    <3> QED BY <1>1, <1>3, <1>6, <3>1, SlottedFacts DEF Timely, OutlivedInv
  <2> QED BY <2>1, <2>2, <2>3 DEF Timely
<1> QED BY <1>4, <1>6

\* Entries that go have outlived their last token, and nobody had the new one.
LEMMA CreateSpacing ==
    ASSUME IInv, CallerInv, NEW c \in Calls, Create(c)
    PROVE  CallerInv' /\ (Timely => Timely')
<1>1. /\ pc[c] = "lock" /\ host[c] \in Hosts
      /\ pc' = [pc EXCEPT ![c] = "acquired"] /\ entryOf' = [entryOf EXCEPT ![c] = c]
      /\ active' = [active EXCEPT ![c] = 1] /\ lastSeen' = [lastSeen EXCEPT ![c] = readAt[c]]
      /\ next' = [next EXCEPT ![c] = 0]
      /\ UNCHANGED <<clock, host, readAt, slot, granted>>
  BY DEF Create, Acquire, Goto, IInv, HostInv
<1>2. \A h \in Hosts : entries[h] \in Calls /\ entries'[h] # entries[h] =>
          active[entries[h]] = 0 /\ readAt[c] - lastSeen[entries[h]] > TTL
  <2>1. entries' = [h \in Hosts |->
                       IF h = host[c] THEN c
                       ELSE IF SweepDue(readAt[c]) /\ ~LoadFresh(h, readAt[c]) THEN None ELSE entries[h]]
    BY DEF Create
  <2>2. ~LoadFresh(host[c], readAt[c])
    BY DEF Create
  <2> QED BY <2>1, <2>2, CallsAssumption DEF LoadFresh, IsExpired
<1>3. \A h \in Hosts : entries'[h] \in {c, None, entries[h]}
  BY DEF Create
<1>4. /\ pc'[c] = "acquired" /\ entryOf'[c] = c
      /\ \A d \in Calls : d # c => /\ pc'[d] = pc[d] /\ entryOf'[d] = entryOf[d]
                                   /\ active'[d] = active[d] /\ lastSeen'[d] = lastSeen[d]
                                   /\ next'[d] = next[d]
  BY <1>1, TimeTypes
<1>5. CallerInv'
  BY <1>1, <1>4, TimeTypes DEF CallerInv
<1>6. Slotted' = Slotted /\ \A d \in Slotted : d # c /\ entryOf[d] # c
  BY <1>1, <1>4, SlottedFacts DEF Slotted
<1>7. ASSUME Timely PROVE Timely'
  <2>1. OnTime'
    BY <1>1, <1>4, <1>7 DEF Timely, OnTime, Expiry
  <2>2. NextInv' /\ ApartInv'
    <3>1. \A d \in Slotted : UNCHANGED <<slot[d], host[d], entryOf[d]>> /\ next'[entryOf[d]] = next[entryOf[d]]
      BY <1>1, <1>4, <1>6, SlottedFacts
    <3> QED BY <1>6, <1>7, <3>1, SpacingKept
  <2>3. ASSUME NEW d \in granted
        PROVE  /\ active'[entryOf'[d]] = 0 => slot'[d] + Gap <= lastSeen'[entryOf'[d]] + TTL + 1
               /\ entryOf'[d] # entries'[host'[d]] => slot'[d] + Gap <= clock'
    <3>1. d \in Slotted /\ d \in Calls
      BY TimeTypes DEF Slotted
    <3>2. /\ d # c /\ entryOf[d] # c /\ entryOf[d] \in Calls /\ host[d] \in Hosts
          /\ slot[d] \in Nat /\ lastSeen[entryOf[d]] \in Nat /\ readAt[c] = clock
          /\ clock \in Nat /\ Gap \in Nat /\ TTL \in Nat
      BY <1>1, <1>6, <1>7, <3>1, SlottedFacts, TimeTypes DEF Timely, OnTime
    <3>3. /\ active[entryOf[d]] = 0 => slot[d] + Gap <= lastSeen[entryOf[d]] + TTL + 1
          /\ entryOf[d] # entries[host[d]] => slot[d] + Gap <= clock
      BY <1>7 DEF Timely, OutlivedInv
    <3>4. entryOf[d] = entries[host[d]] /\ entryOf[d] # entries'[host[d]] => slot[d] + Gap <= clock
      BY <1>2, <3>2, <3>3
    <3> QED BY <1>1, <1>4, <3>1, <3>2, <3>3, <3>4
  <2>4. OutlivedInv'
    BY <1>1, <2>3 DEF OutlivedInv
  <2> QED BY <2>1, <2>2, <2>4 DEF Timely
<1> QED BY <1>5, <1>7

\* The new token comes after those of the limiter and, as the clock does, after
\* those of the limiters before it.
LEMMA ReserveSpacing ==
    ASSUME IInv, CallerInv, NEW c \in Calls, Reserve(c)
    PROVE  CallerInv' /\ (Timely => Timely')
<1> DEFINE e == entryOf[c]
           s == Later(clock, next[e])
<1>1. /\ pc[c] = "acquired" /\ e \in Calls /\ host[c] \in Hosts /\ entries[host[c]] = e
      /\ pc' = [pc EXCEPT ![c] = "waiting"] /\ readAt' = [readAt EXCEPT ![c] = clock]
      /\ slot' = [slot EXCEPT ![c] = s] /\ next' = [next EXCEPT ![e] = s + Gap]
      /\ UNCHANGED <<clock, entries, lastSeen, active, host, entryOf, granted>>
  BY DEF Reserve, Goto, storeVars, callVars, IInv, HolderInv, HostInv, Holds
<1>2. clock \in Nat /\ next[e] \in Nat /\ Gap \in Nat \ {0}
  BY <1>1, TimeTypes
<1>3. s \in Nat /\ s >= clock /\ s >= next[e]
  BY <1>2 DEF Later
<1> HIDE DEF e, s
<1>4. /\ pc'[c] = "waiting" /\ slot'[c] = s /\ next'[e] = s + Gap /\ readAt'[c] = clock
      /\ \A d \in Calls : d # c => pc'[d] = pc[d] /\ slot'[d] = slot[d] /\ readAt'[d] = readAt[d]
      /\ \A d \in Calls : d # e => next'[d] = next[d]
  BY <1>1, TimeTypes
<1>5. Slotted' = Slotted \cup {c} /\ c \notin Slotted
  BY <1>1, <1>4, SlottedFacts DEF Slotted
<1>6. c \notin granted
  BY <1>5 DEF Slotted
<1>7. CallerInv'
  BY <1>1, <1>4, <1>6, TimeTypes DEF CallerInv
<1>8. ASSUME Timely PROVE Timely'
  <2>1. OnTime'
    BY <1>1, <1>3, <1>4, <1>8 DEF Timely, OnTime, Expiry
  <2>2. OutlivedInv'
    <3>1. \A d \in granted : d \in Slotted /\ d # c
      BY <1>6 DEF Slotted
    <3> QED BY <1>1, <1>4, <1>8, <3>1, SlottedFacts DEF Timely, OutlivedInv
  <2>3. ASSUME NEW d \in Slotted PROVE slot[d] + Gap <= next'[entryOf[d]]
    <3>1. slot[d] + Gap <= next[entryOf[d]] /\ entryOf[d] \in Calls
      BY <1>8, SlottedFacts DEF Timely, NextInv
    <3>2. slot[d] \in Nat
      BY SlottedFacts, TimeTypes
    <3>3. CASE entryOf[d] = e
      BY <1>2, <1>3, <1>4, <3>1, <3>2, <3>3
    <3>4. CASE entryOf[d] # e
      BY <1>4, <3>1, <3>4
    <3> QED BY <3>3, <3>4
  <2>4. NextInv'
    BY <1>1, <1>2, <1>3, <1>4, <1>5, <2>3, SlottedFacts DEF NextInv, e
  <2>5. ASSUME NEW d \in Slotted, host[d] = host[c] PROVE slot[d] + Gap <= s
    <3>1. slot[d] \in Nat
      BY SlottedFacts, TimeTypes
    <3>2. CASE entryOf[d] = e
      <4>1. slot[d] + Gap <= next[e]
        BY <1>8, <3>2 DEF Timely, NextInv
      <4> QED BY <1>2, <1>3, <3>1, <4>1
    <3>3. CASE entryOf[d] # e
      <4>1. d \in granted
        BY <1>1, <2>5, <3>3, SlottedFacts
      <4>2. slot[d] + Gap <= clock
        BY <1>1, <1>8, <2>5, <3>3, <4>1 DEF Timely, OutlivedInv
      <4> QED BY <1>2, <1>3, <3>1, <4>2
    <3> QED BY <3>2, <3>3
  <2>6. ApartInv'
    <3> SUFFICES ASSUME NEW a \in Slotted', NEW b \in Slotted', a # b, host'[a] = host'[b]
                 PROVE  Apart(a, b)'
      BY DEF ApartInv
    <3>1. \A d \in Slotted : d # c /\ slot'[d] = slot[d] /\ slot[d] \in Nat
      BY <1>4, <1>5, SlottedFacts, TimeTypes
    <3>2. CASE a = c
      BY <1>1, <1>2, <1>3, <1>4, <1>5, <2>5, <3>1, <3>2 DEF Apart
    <3>3. CASE b = c
      BY <1>1, <1>2, <1>3, <1>4, <1>5, <2>5, <3>1, <3>3 DEF Apart
    <3>4. CASE a # c /\ b # c
      BY <1>1, <1>5, <1>8, <3>1, <3>4 DEF Timely, ApartInv, Apart
    <3> QED BY <3>2, <3>3, <3>4
  <2> QED BY <2>1, <2>2, <2>4, <2>6 DEF Timely
<1> QED BY <1>7, <1>8

LEMMA RefuseSpacing ==
    ASSUME IInv, CallerInv, WaitsFit, NEW c \in Calls, Refuse(c)
    PROVE  CallerInv' /\ (Timely => Timely')
<1>1. /\ pc[c] = "acquired"
      /\ pc' = [pc EXCEPT ![c] = "release"] /\ readAt' = [readAt EXCEPT ![c] = clock]
      /\ UNCHANGED <<clock, entries, lastSeen, active, next, slot, host, entryOf, granted>>
  BY DEF Refuse, Goto, storeVars, callVars
<1>2. /\ pc'[c] = "release" /\ readAt'[c] = clock
      /\ \A d \in Calls : d # c => pc'[d] = pc[d] /\ readAt'[d] = readAt[d]
  BY <1>1, TimeTypes
<1>3. CallerInv'
  BY <1>1, <1>2, TimeTypes DEF CallerInv
<1>4. Slotted' = Slotted
  BY <1>1, <1>2, SlottedFacts DEF Slotted
<1>5. ASSUME Timely PROVE Timely'
  <2>1. clock' + Gap <= Expiry(c)'
    BY <1>1, <1>2, TimeTypes DEF WaitsFit, Expiry
  <2>2. OnTime'
    BY <1>1, <1>2, <1>5, <2>1 DEF Timely, OnTime, Expiry
  <2>3. NextInv' /\ ApartInv'
    BY <1>1, <1>4, <1>5, SpacingKept
  <2>4. OutlivedInv'
    BY <1>1, <1>5 DEF Timely, OutlivedInv
  <2> QED BY <2>2, <2>3, <2>4 DEF Timely
<1> QED BY <1>3, <1>5

\* A call that returns on time does so before its entry can expire.
LEMMA ReturnsInTime ==
    ASSUME IInv, Timely, WaitsFit, NEW c \in Calls, pc[c] = "waiting"
    PROVE  clock + Gap <= Expiry(c)
<1>1. clock \in Nat /\ slot[c] \in Nat /\ readAt[c] \in Nat /\ Gap \in Nat /\ TTL \in Nat
  BY TimeTypes
<1> QED BY <1>1 DEF Timely, OnTime, WaitsFit, Expiry

LEMMA GrantSpacing ==
    ASSUME IInv, CallerInv, WaitsFit, NEW c \in Calls, Grant(c)
    PROVE  CallerInv' /\ (Timely => Timely')
<1>1. /\ pc[c] = "waiting" /\ slot[c] <= clock
      /\ pc' = [pc EXCEPT ![c] = "release"] /\ granted' = granted \cup {c}
      /\ UNCHANGED <<clock, entries, lastSeen, active, next, slot, host, entryOf, readAt>>
  BY DEF Grant, Goto, storeVars
<1>2. pc'[c] = "release" /\ \A d \in Calls : d # c => pc'[d] = pc[d]
  BY <1>1, TimeTypes
<1>3. CallerInv'
  BY <1>1, <1>2, TimeTypes DEF CallerInv
<1>4. Slotted' = Slotted
  BY <1>1, <1>2 DEF Slotted
<1>5. entryOf[c] \in Calls /\ entries[host[c]] = entryOf[c] /\ active[entryOf[c]] # 0
  BY <1>1, NobodyHolds DEF IInv, HolderInv, Holders, Holds
<1>6. ASSUME Timely PROVE Timely'
  <2>1. OnTime'
    BY <1>1, <1>2, <1>6, ReturnsInTime DEF Timely, OnTime, Expiry
  <2>2. NextInv' /\ ApartInv'
    BY <1>1, <1>4, <1>6, SpacingKept
  <2>3. OutlivedInv'
    BY <1>1, <1>5, <1>6 DEF Timely, OutlivedInv
  <2> QED BY <2>1, <2>2, <2>3 DEF Timely
<1> QED BY <1>3, <1>6

\* Only the last token goes back, so that the next one comes after the others.
LEMMA CancelSpacing ==
    ASSUME IInv, CallerInv, WaitsFit, NEW c \in Calls, Cancel(c)
    PROVE  CallerInv' /\ (Timely => Timely')
<1> DEFINE e == entryOf[c]
<1>1. /\ pc[c] = "waiting" /\ e \in Calls /\ host[c] \in Hosts /\ entries[host[c]] = e
      /\ pc' = [pc EXCEPT ![c] = "release"]
      /\ \/ next' = next
         \/ next[e] = slot[c] + Gap /\ next' = [next EXCEPT ![e] = slot[c]]
      /\ UNCHANGED <<clock, entries, lastSeen, active, slot, host, entryOf, granted, readAt>>
  <2>1. next' = [next EXCEPT ![e] = next[e]] => next' = next
    BY TimeTypes
  <2> QED BY <2>1 DEF Cancel, Goto, storeVars, callVars, IInv, HolderInv, HostInv, Holds
<1> HIDE DEF e
<1>2. pc'[c] = "release" /\ \A d \in Calls : d # c => pc'[d] = pc[d]
  BY <1>1, TimeTypes
<1>3. CallerInv' /\ c \notin granted
  BY <1>1, <1>2, TimeTypes DEF CallerInv
<1>4. Slotted' = Slotted \ {c} /\ c \in Slotted
  BY <1>1, <1>2, <1>3, TimeTypes DEF Slotted
<1>5. ASSUME Timely PROVE Timely'
  <2>1. OnTime'
    BY <1>1, <1>2, <1>5, ReturnsInTime DEF Timely, OnTime, Expiry
  <2>2. ApartInv'
    BY <1>1, <1>4, <1>5 DEF Timely, ApartInv, Apart
  <2>3. OutlivedInv'
    BY <1>1, <1>5 DEF Timely, OutlivedInv
  <2>4. ASSUME NEW d \in Slotted, d # c PROVE slot[d] + Gap <= next'[entryOf[d]]
    <3>1. /\ slot[d] + Gap <= next[entryOf[d]] /\ entryOf[d] \in Calls /\ d \in Calls
          /\ slot[d] \in Nat /\ slot[c] \in Nat /\ Gap \in Nat \ {0}
      BY <1>5, SlottedFacts, TimeTypes DEF Timely, NextInv
    <3>2. CASE next' = next \/ entryOf[d] # e
      BY <1>1, <3>1, <3>2, TimeTypes
    <3>3. CASE entryOf[d] = e /\ next[e] = slot[c] + Gap /\ next' = [next EXCEPT ![e] = slot[c]]
      <4>1. host[d] = host[c]
        BY <1>4, <3>3, SlottedFacts DEF e
      <4>2. Apart(c, d)
        BY <1>4, <1>5, <2>4, <4>1 DEF Timely, ApartInv
      <4>3. next'[e] = slot[c]
        BY <1>1, <3>3, TimeTypes
      <4> QED BY <3>1, <3>3, <4>2, <4>3 DEF Apart
    <3> QED BY <1>1, <3>2, <3>3
  <2>5. NextInv'
    BY <1>1, <1>4, <2>4 DEF NextInv
  <2> QED BY <2>1, <2>2, <2>3, <2>5 DEF Timely
<1> QED BY <1>3, <1>5

\* The last user leaves the entry the time at which it began to wait.
LEMMA ReleaseSpacing ==
    ASSUME IInv, CallerInv, NEW c \in Calls, Release(c)
    PROVE  CallerInv' /\ (Timely => Timely')
<1> DEFINE e == entryOf[c]
<1>1. /\ pc[c] = "release" /\ e \in Calls
      /\ pc' = [pc EXCEPT ![c] = "done"] /\ lastSeen' = [lastSeen EXCEPT ![e] = readAt[c]]
      /\ active' = [active EXCEPT ![e] = IF active[e] > 0 THEN active[e] - 1 ELSE active[e]]
      /\ UNCHANGED <<clock, entries, next, slot, host, entryOf, granted, readAt>>
  BY DEF Release, Goto, IInv, HolderInv, Holds, callVars
<1> HIDE DEF e
<1>2. /\ pc'[c] = "done" /\ \A d \in Calls : d # c => pc'[d] = pc[d]
      /\ lastSeen'[e] = readAt[c]
      /\ \A f \in Calls : f # e => lastSeen'[f] = lastSeen[f] /\ active'[f] = active[f]
  BY <1>1, TimeTypes
<1>3. CallerInv'
  BY <1>1, <1>2, TimeTypes DEF CallerInv
<1>4. Slotted' = Slotted
  BY <1>1, <1>2, TimeTypes DEF Slotted
<1>5. ASSUME Timely PROVE Timely'
  <2>1. OnTime'
    BY <1>1, <1>2, <1>5 DEF Timely, OnTime, Expiry
  <2>2. NextInv' /\ ApartInv'
    BY <1>1, <1>4, <1>5, SpacingKept
  <2>3. ASSUME NEW d \in granted, entryOf[d] = e PROVE slot[d] + Gap <= lastSeen'[e] + TTL + 1
    <3>1. slot[d] <= clock /\ d \in Calls
      BY TimeTypes DEF CallerInv
    <3>2. clock + Gap <= readAt[c] + TTL + 1
      BY <1>1, <1>5 DEF Timely, OnTime, Expiry
    <3>3. slot[d] \in Nat /\ clock \in Nat /\ Gap \in Nat /\ TTL \in Nat /\ readAt[c] \in Nat
      BY <3>1, TimeTypes
    <3> QED BY <1>2, <3>1, <3>2, <3>3
  <2>4. OutlivedInv'
    <3>1. \A d \in granted : entryOf[d] \in Calls
      BY SlottedFacts DEF Slotted
    <3> QED BY <1>1, <1>2, <1>5, <2>3, <3>1 DEF Timely, OutlivedInv
  <2> QED BY <2>1, <2>2, <2>4 DEF Timely
<1> QED BY <1>3, <1>5

LEMMA TickSpacing ==
    ASSUME IInv, CallerInv, Tick
    PROVE  CallerInv' /\ (Timely /\ prompt' => Timely')
<1>1. /\ clock' = clock + 1 /\ (prompt' => \A c \in Calls : ~Due(c))
      /\ UNCHANGED <<pc, entries, lastSeen, active, next, slot, host, entryOf, granted, readAt>>
  BY DEF Tick, storeVars, callVars
<1>2. CallerInv'
  <2>1. \A c \in granted : slot[c] <= clock => slot[c] <= clock'
    BY <1>1, TimeTypes
  <2> QED BY <1>1, <2>1 DEF CallerInv
<1>3. ASSUME Timely, prompt' PROVE Timely'
  <2>1. OnTime'
    <3>1. \A c \in Calls : /\ pc[c] \notin {"lock", "release"}
                           /\ pc[c] = "waiting" => clock + 1 <= slot[c]
      BY <1>1, <1>3, TimeTypes DEF Due
    <3>2. \A c \in Calls : /\ pc'[c] \notin {"lock", "release"}
                           /\ pc'[c] = "waiting" => clock' <= slot'[c]
      BY <1>1, <3>1
    <3> QED BY <3>2 DEF OnTime
  <2>2. NextInv' /\ ApartInv'
    <3>1. Slotted' = Slotted
      BY <1>1 DEF Slotted
    <3> QED BY <1>1, <1>3, <3>1, SpacingKept
  <2>3. OutlivedInv'
    <3>1. \A c \in granted : slot[c] + Gap <= clock => slot[c] + Gap <= clock'
      BY <1>1, TimeTypes
    <3> QED BY <1>1, <1>3, <3>1 DEF Timely, OutlivedInv
  <2> QED BY <2>1, <2>2, <2>3 DEF Timely
<1> QED BY <1>2, <1>3

LEMMA InitSpacing == Init => SpacingInv
<1> SUFFICES ASSUME Init PROVE SpacingInv
  OBVIOUS
<1>1. Slotted = {} /\ granted = {}
  BY DEF Init, Slotted
<1> QED BY <1>1 DEF Init, SpacingInv, CallerInv, OnTime, NextInv, OutlivedInv, ApartInv

LEMMA SpacingStep == IInv /\ SpacingInv /\ WaitsFit /\ [Next]_vars => SpacingInv'
<1> SUFFICES ASSUME IInv, SpacingInv, WaitsFit, [Next]_vars PROVE SpacingInv'
  OBVIOUS
<1>1. CallerInv /\ (prompt => Timely)
  BY DEF SpacingInv, Timely
<1>2. ASSUME CallerInv', (Timely /\ prompt' => Timely'), (prompt' => prompt) PROVE SpacingInv'
  BY <1>1, <1>2 DEF SpacingInv, Timely
<1>3. ASSUME NEW c \in Calls, NEW h \in Hosts, Call(c, h) PROVE SpacingInv'
  BY <1>1, <1>2, <1>3, CallSpacing DEF Call
<1>4. ASSUME NEW c \in Calls, AcquireFresh(c) \/ Create(c) PROVE SpacingInv'
  BY <1>1, <1>2, <1>4, AcquireSpacing, CreateSpacing DEF AcquireFresh, Create
<1>5. ASSUME NEW c \in Calls, Reserve(c) \/ Refuse(c) \/ Grant(c) \/ Cancel(c) PROVE SpacingInv'
  BY <1>1, <1>2, <1>5, ReserveSpacing, RefuseSpacing, GrantSpacing, CancelSpacing
     DEF Reserve, Refuse, Grant, Cancel
<1>6. ASSUME NEW c \in Calls, Release(c) PROVE SpacingInv'
  BY <1>1, <1>2, <1>6, ReleaseSpacing DEF Release
<1>7. CASE Tick
  BY <1>1, <1>2, <1>7, TickSpacing DEF Tick
<1>8. CASE UNCHANGED vars
  <2>1. /\ UNCHANGED <<clock, entries, lastSeen, active, next, pc, host, entryOf, granted, readAt, slot>>
        /\ UNCHANGED prompt
    BY <1>8 DEF vars, storeVars, callVars
  <2>2. Slotted' = Slotted
    BY <2>1 DEF Slotted
  <2>3. CallerInv'
    BY <1>1, <2>1 DEF CallerInv
  <2>4. ASSUME Timely PROVE Timely'
    <3>1. OnTime' /\ OutlivedInv'
      BY <2>1, <2>4 DEF Timely, OnTime, OutlivedInv, Expiry
    <3>2. NextInv' /\ ApartInv'
      BY <1>1, <2>1, <2>2, <2>4, SpacingKept
    <3> QED BY <3>1, <3>2 DEF Timely
  <2> QED BY <1>2, <2>1, <2>3, <2>4
<1> QED BY <1>3, <1>4, <1>5, <1>6, <1>7, <1>8 DEF Next, Terminated

\* The limit of ratePreHost (README.md:294) is kept by whoever is on time, as
\* long as every wait and the gap after it fit the time to live, which is all
\* that a longer queue can break.
THEOREM TokensSpaced == Spec /\ []WaitsFit => []Spaced
<1>1. IInv /\ SpacingInv => Spaced
  <2> SUFFICES ASSUME SpacingInv, prompt PROVE Spaced
    BY DEF Spaced
  <2>1. granted \subseteq Slotted
    BY DEF Slotted
  <2> QED BY <2>1 DEF SpacingInv, ApartInv, Apart, Spaced
<1> QED BY <1>1, InitSpacing, SpacingStep, Invariance, PTL DEF Spec
=============================================================================
