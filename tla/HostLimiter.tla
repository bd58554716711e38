---------------------------- MODULE HostLimiter ----------------------------
(***************************************************************************)
(* HostLimiterStore (core/port/host_limiter.go): one token limiter per     *)
(* host, shared by every probe of that host, created on first use and      *)
(* dropped after it has been idle for a minute.                            *)
(*                                                                         *)
(* A call is one call of HostLimiterStore.Wait.  The store's map changes   *)
(* only under its lock; a call waits for its token and then releases the   *)
(* entry without it.  The limiter itself (golang.org/x/time/rate, burst 1) *)
(* is external: it hands out slots at least Gap apart.                     *)
(***************************************************************************)
EXTENDS Integers, FiniteSets

CONSTANTS
    Calls,    \* calls of Wait
    Hosts,
    None,     \* no entry, no host
    Gap,      \* time between two tokens of one host: 1 / ratePreHost
    TTL,      \* ttl of the store, a minute in the code
    MaxTime   \* bound of the clock

ASSUME CallsAssumption == None \notin Calls /\ None \notin Hosts /\ IsFiniteSet(Calls)
ASSUME TimeAssumption  == Gap \in Nat \ {0} /\ TTL \in Nat \ {0} /\ MaxTime \in Nat

VARIABLES
    clock,
    entries,    \* entries[h]: the entry of host h, named by the call that created it
    lastSeen,   \* lastSeen[e], active[e]: fields of entry e
    active,
    next,       \* next[e]: when e's limiter has its next token
    lastSweep,
    pc,         \* pc[c]: where call c is
    host,       \* host[c]: its argument
    entryOf,    \* entryOf[c]: the entry it works with
    readAt,     \* readAt[c]: its last reading of the clock
    slot,       \* slot[c]: when its token is due
    granted,    \* calls that returned without error
    prompt      \* history: nothing that was due has waited for a tick

storeVars == <<entries, lastSeen, active, lastSweep>>
callVars  == <<host, entryOf, granted>>
vars == <<clock, storeVars, next, pc, callVars, readAt, slot, prompt>>

Times == 0 .. MaxTime

Init ==
    /\ clock = 0
    /\ entries = [h \in Hosts |-> None]
    /\ lastSeen = [e \in Calls |-> 0]
    /\ active = [e \in Calls |-> 0]
    /\ next = [e \in Calls |-> 0]
    /\ lastSweep = 0
    /\ pc = [c \in Calls |-> "idle"]
    /\ host = [c \in Calls |-> None]
    /\ entryOf = [c \in Calls |-> None]
    /\ readAt = [c \in Calls |-> 0]
    /\ slot = [c \in Calls |-> 0]
    /\ granted = {}
    /\ prompt = TRUE

Goto(c, s) == pc' = [pc EXCEPT ![c] = s]

-----------------------------------------------------------------------------
\* Wait reads the clock before it asks for the lock.
Call(c, h) ==
    /\ pc[c] = "idle"
    /\ Goto(c, "lock")
    /\ host' = [host EXCEPT ![c] = h]
    /\ readAt' = [readAt EXCEPT ![c] = clock]
    /\ UNCHANGED <<clock, storeVars, next, entryOf, granted, slot, prompt>>

\* Faulty variant: waiters do not keep an entry alive.
ExpiredByAgeOnly(e, t) == t - lastSeen[e] > TTL

\* Faulty variant: an idle entry goes at once.
ExpiredWhenIdle(e, t) == active[e] = 0

\* An entry with waiters never expires.
IsExpired(e, t) == active[e] = 0 /\ t - lastSeen[e] > TTL

LoadFresh(h, t) == entries[h] # None /\ ~IsExpired(entries[h], t)

SweepDue(t) == t - lastSweep >= TTL

Acquire(e, t, a) ==
    /\ lastSeen' = [lastSeen EXCEPT ![e] = t]
    /\ active' = [active EXCEPT ![e] = a + 1]

\* acquireOrCreate, all of it under the lock of the store.
AcquireFresh(c) ==
    /\ pc[c] = "lock"
    /\ LoadFresh(host[c], readAt[c])
    /\ Goto(c, "acquired")
    /\ entryOf' = [entryOf EXCEPT ![c] = entries[host[c]]]
    /\ Acquire(entries[host[c]], readAt[c], active[entries[host[c]]])
    /\ UNCHANGED <<clock, entries, lastSweep, next, host, readAt, slot, granted, prompt>>

\* A missing or expired entry is replaced; at most once per TTL this also
\* sweeps the expired entries of the other hosts.
Create(c) ==
    /\ pc[c] = "lock"
    /\ ~LoadFresh(host[c], readAt[c])
    /\ Goto(c, "acquired")
    /\ entryOf' = [entryOf EXCEPT ![c] = c]
    /\ Acquire(c, readAt[c], 0)
    /\ next' = [next EXCEPT ![c] = 0]
    /\ LET swept(h) == SweepDue(readAt[c]) /\ ~LoadFresh(h, readAt[c])
       IN  entries' = [h \in Hosts |-> IF h = host[c] THEN c
                                       ELSE IF swept(h) THEN None ELSE entries[h]]
    /\ lastSweep' = IF SweepDue(readAt[c]) THEN readAt[c] ELSE lastSweep
    /\ UNCHANGED <<clock, host, readAt, slot, granted, prompt>>

Later(a, b) == IF a > b THEN a ELSE b

\* The argument of the deferred release is evaluated here, before the wait.
\* The limiter reserves the next token.
Reserve(c) ==
    /\ pc[c] = "acquired"
    /\ readAt' = [readAt EXCEPT ![c] = clock]
    /\ slot' = [slot EXCEPT ![c] = Later(clock, next[entryOf[c]])]
    /\ next' = [next EXCEPT ![entryOf[c]] = Later(clock, @) + Gap]
    /\ Goto(c, "waiting")
    /\ UNCHANGED <<clock, storeVars, callVars, prompt>>

\* Its context is done, or its deadline comes before the token.
Refuse(c) ==
    /\ pc[c] = "acquired"
    /\ readAt' = [readAt EXCEPT ![c] = clock]
    /\ Goto(c, "release")
    /\ UNCHANGED <<clock, storeVars, next, callVars, slot, prompt>>

Grant(c) ==
    /\ pc[c] = "waiting"
    /\ slot[c] <= clock
    /\ granted' = granted \cup {c}
    /\ Goto(c, "release")
    /\ UNCHANGED <<clock, storeVars, next, host, entryOf, readAt, slot, prompt>>

\* Faulty variant: a cancelled wait also gives back the token before its own.
CancelGivesTwo(c) ==
    /\ pc[c] = "waiting"
    /\ next' = [next EXCEPT ![entryOf[c]] = IF @ = slot[c] + Gap THEN slot[c] - Gap ELSE @]
    /\ Goto(c, "release")
    /\ UNCHANGED <<clock, storeVars, callVars, readAt, slot, prompt>>

\* A cancelled wait gives its token back, unless it was due already or a later
\* one was handed out.
Cancel(c) ==
    /\ pc[c] = "waiting"
    /\ LET back == slot[c] >= clock /\ next[entryOf[c]] = slot[c] + Gap
       IN  next' = [next EXCEPT ![entryOf[c]] = IF back THEN slot[c] ELSE @]
    /\ Goto(c, "release")
    /\ UNCHANGED <<clock, storeVars, callVars, readAt, slot, prompt>>

\* Faulty variant: a cancelled or failed wait does not release the entry.
ReleaseGrantedOnly(c) ==
    /\ pc[c] = "release"
    /\ active' = [active EXCEPT ![entryOf[c]] = IF c \in granted THEN @ - 1 ELSE @]
    /\ lastSeen' = [lastSeen EXCEPT ![entryOf[c]] = readAt[c]]
    /\ Goto(c, "done")
    /\ UNCHANGED <<clock, entries, lastSweep, next, callVars, readAt, slot, prompt>>

Release(c) ==
    /\ pc[c] = "release"
    /\ active' = [active EXCEPT ![entryOf[c]] = IF @ > 0 THEN @ - 1 ELSE @]
    /\ lastSeen' = [lastSeen EXCEPT ![entryOf[c]] = readAt[c]]
    /\ Goto(c, "done")
    /\ UNCHANGED <<clock, entries, lastSweep, next, callVars, readAt, slot, prompt>>

Due(c) == pc[c] \in {"lock", "acquired", "release"} \/ (pc[c] = "waiting" /\ slot[c] <= clock)

Tick ==
    /\ clock < MaxTime
    /\ clock' = clock + 1
    /\ prompt' = (prompt /\ \A c \in Calls : ~Due(c))
    /\ UNCHANGED <<storeVars, next, pc, callVars, readAt, slot>>

Terminated == (\A c \in Calls : pc[c] = "done") /\ UNCHANGED vars

Next ==
    \/ \E c \in Calls :
        \/ \E h \in Hosts : Call(c, h)
        \/ AcquireFresh(c) \/ Create(c) \/ Reserve(c) \/ Refuse(c)
        \/ Grant(c) \/ Cancel(c) \/ Release(c)
    \/ Tick \/ Terminated

Spec == Init /\ [][Next]_vars

-----------------------------------------------------------------------------
\* What each piece of state may hold; a time is one the clock can show.
TypeOK ==
    /\ clock \in Times
    /\ entries \in [Hosts -> Calls \cup {None}]
    /\ lastSeen \in [Calls -> Times]
    /\ active \in [Calls -> Nat]
    /\ next \in [Calls -> Nat]
    /\ lastSweep \in Times
    /\ pc \in [Calls -> {"idle", "lock", "acquired", "waiting", "release", "done"}]
    /\ host \in [Calls -> Hosts \cup {None}]
    /\ entryOf \in [Calls -> Calls \cup {None}]
    /\ readAt \in [Calls -> Times]
    /\ slot \in [Calls -> Nat]
    /\ granted \subseteq Calls
    /\ prompt \in BOOLEAN

Holds(c) == pc[c] \in {"acquired", "waiting", "release"}

\* Everybody who waits for a host waits at the limiter the store has for it: an
\* entry with waiters is never swept nor replaced (host_limiter.go:127), in
\* whatever order old clock readings, sweeps and releases arrive.
SharedLimiter == \A c \in Calls : Holds(c) => entryOf[c] = entries[host[c]]

\* active counts the calls between acquire and release, so that an entry is
\* free to expire exactly when nobody uses it.
ActiveCountsWaiters ==
    \A e \in Calls : active[e] = Cardinality({c \in Calls : Holds(c) /\ entryOf[c] = e})

\* The fixed limit of ratePreHost (README.md:294): two tokens of one host are
\* Gap apart, if timers and goroutines are on time at the scale of a tick.
Spaced ==
    prompt => \A c, d \in granted :
        c # d /\ host[c] = host[d] => slot[c] - slot[d] >= Gap \/ slot[d] - slot[c] >= Gap
=============================================================================
