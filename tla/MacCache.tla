------------------------------ MODULE MacCache ------------------------------
(***************************************************************************)
(* Neighbour resolution of the SYN scanner: watchMacCacheTable             *)
(* (core/port/syn/watchMacCache.go) with its three users in syn.go: calls  *)
(* that look up, watch and ask for an address (getHwAddrV4, getHwAddrV6),  *)
(* recv that stores what ARP and NA packets say, and Close.                *)
(*                                                                         *)
(* Every method of the table holds its lock, the steps between them do     *)
(* not.  Time is an age: an entry is old once nothing has refreshed it for *)
(* ten seconds, which a call does not wait for: macResolveTimeout is taken *)
(* to be shorter.  An address derived by SLAAC or reached by a gateway     *)
(* never gets here.                                                        *)
(***************************************************************************)
EXTENDS FiniteSets

CONSTANTS
    Resolvers,   \* calls of scanContext
    Addresses,
    V6,          \* the addresses asked for by neighbour solicitation
    NoAddress

ASSUME MacAssumption == V6 \subseteq Addresses /\ NoAddress \notin Addresses

VARIABLES
    watched,    \* the addresses with an entry
    known,      \* those whose entry has a MAC
    old,        \* those not refreshed for ten seconds
    swPc,       \* cleanTimeout: "sleep", "delete" or "stopped"
    needDel,    \* the addresses it is about to delete
    recvSet,    \* the address recv is about to store, NoAddress if none
    callPc,     \* callPc[k]: where call k is
    dst,        \* dst[k]: the address it wants
    cancelled,  \* ss.ctx
    closed,     \* Close of the table: isDone and an empty map
    raced,      \* history: calls overtaken between their test and their mark
    doomed,     \* history: calls that marked an address the sweep had chosen
    answered    \* history: calls whose answer recv has dealt with

cacheVars == <<watched, known, old>>
sweepVars == <<swPc, needDel>>
historyVars == <<raced, doomed, answered>>
macVars == <<cacheVars, sweepVars, recvSet, callPc, dst, cancelled, closed, historyVars>>

MacInit ==
    /\ watched = {} /\ known = {} /\ old = {}
    /\ swPc = "sleep" /\ needDel = {}
    /\ recvSet = NoAddress
    /\ callPc = [k \in Resolvers |-> "idle"]
    /\ dst = [k \in Resolvers |-> NoAddress]
    /\ cancelled = FALSE /\ closed = FALSE
    /\ raced = {} /\ doomed = {} /\ answered = {}

CallGoto(k, s) == callPc' = [callPc EXCEPT ![k] = s]
Waiting(a) == {k \in Resolvers : callPc[k] \in {"ask", "poll"} /\ dst[k] = a}

-----------------------------------------------------------------------------
(* The table.                                                              *)

\* Faulty variant: an entry that exists keeps its time.
UpdateKeepsTime(a) ==
    /\ watched' = watched \cup {a}
    /\ UNCHANGED <<known, old>>

UpdateLastTime(a) ==
    /\ watched' = watched \cup {a}
    /\ old' = old \ {a}
    /\ UNCHANGED known

\* Faulty variant: the MAC is stored in an entry that exists only, as a known one.
SetMacUnwatched(a) ==
    /\ known' = known \cup {a}
    /\ old' = old \ {a}
    /\ UNCHANGED watched

\* A missing entry is created.
SetMac(a) ==
    /\ watched' = watched \cup {a}
    /\ known' = known \cup {a}
    /\ old' = old \ {a}

IsNeedWatch(a) == a \in watched \ known

-----------------------------------------------------------------------------
(* A call: GetMac in scanContext, then getHwAddr.                          *)

CallUnchanged == UNCHANGED <<sweepVars, recvSet, cancelled, closed>>

Lookup(k, a) ==
    /\ callPc[k] = "idle"
    /\ dst' = [dst EXCEPT ![k] = a]
    /\ CallGoto(k, IF a \in known THEN "done" ELSE "check")
    /\ UNCHANGED <<cacheVars, historyVars>>
    /\ CallUnchanged

\* Faulty variant: nobody looks whether the address is being asked for.
CheckNothing(k) ==
    /\ callPc[k] = "check"
    /\ CallGoto(k, "mark")
    /\ UNCHANGED <<cacheVars, dst, historyVars>>
    /\ CallUnchanged

\* An address somebody else asks for is an error.
Check(k) ==
    /\ callPc[k] = "check"
    /\ CallGoto(k, IF IsNeedWatch(dst[k]) THEN "failed" ELSE "mark")
    /\ UNCHANGED <<cacheVars, dst, historyVars>>
    /\ CallUnchanged

\* An ARP request goes out at once, a solicitation from the loop.
Mark(k) ==
    /\ callPc[k] = "mark"
    /\ UpdateLastTime(dst[k])
    /\ CallGoto(k, IF dst[k] \in V6 THEN "poll" ELSE "ask")
    /\ raced' = raced \cup {j \in Resolvers \ {k} : callPc[j] = "mark" /\ dst[j] = dst[k]}
    /\ doomed' = IF dst[k] \in needDel THEN doomed \cup {k} ELSE doomed
    /\ UNCHANGED <<dst, answered>>
    /\ CallUnchanged

sendArp(k) ==
    /\ callPc[k] = "ask"
    /\ \E s \in {"poll", "failed"} : CallGoto(k, s)
    /\ UNCHANGED <<cacheVars, dst, historyVars>>
    /\ CallUnchanged

PollFound(k) ==
    /\ callPc[k] = "poll"
    /\ ~cancelled /\ dst[k] \in known
    /\ CallGoto(k, "done")
    /\ UNCHANGED <<cacheVars, dst, historyVars>>
    /\ CallUnchanged

\* The scanner is closing, the time is over or another request cannot be sent.
PollGivesUp(k) ==
    /\ callPc[k] = "poll"
    /\ cancelled \/ dst[k] \notin known
    /\ CallGoto(k, "failed")
    /\ UNCHANGED <<cacheVars, dst, historyVars>>
    /\ CallUnchanged

Resolve(k) ==
    \/ \E a \in Addresses : Lookup(k, a)
    \/ Check(k) \/ Mark(k) \/ sendArp(k) \/ PollFound(k) \/ PollGivesUp(k)

-----------------------------------------------------------------------------
(* recv: IsNeedWatch and SetMac are two steps of one goroutine.            *)

RecvUnchanged == UNCHANGED <<sweepVars, callPc, dst, cancelled, closed, raced, doomed>>

RecvWanted(a) ==
    /\ recvSet = NoAddress
    /\ IsNeedWatch(a)
    /\ recvSet' = a
    /\ UNCHANGED <<cacheVars, answered>>
    /\ RecvUnchanged

RecvUnwanted(a) ==
    /\ recvSet = NoAddress
    /\ ~IsNeedWatch(a)
    /\ answered' = answered \cup Waiting(a)
    /\ UNCHANGED <<cacheVars, recvSet>>
    /\ RecvUnchanged

RecvStore ==
    /\ recvSet # NoAddress
    /\ SetMac(recvSet)
    /\ answered' = answered \cup Waiting(recvSet)
    /\ recvSet' = NoAddress
    /\ RecvUnchanged

-----------------------------------------------------------------------------
(* Time, the sweep and Close.                                              *)

\* Nobody has waited for ten seconds.
Age(a) ==
    /\ a \in watched \ old
    /\ Waiting(a) = {}
    /\ old' = old \cup {a}
    /\ UNCHANGED <<watched, known, answered, recvSet>>
    /\ RecvUnchanged

SweepUnchanged == UNCHANGED <<recvSet, callPc, dst, cancelled, closed, historyVars>>

\* The loop looks at isDone before it sleeps.
SweptPc == IF closed THEN "stopped" ELSE "sleep"

SweepCollect ==
    /\ swPc = "sleep"
    /\ needDel' = old
    /\ swPc' = IF old = {} THEN SweptPc ELSE "delete"
    /\ UNCHANGED cacheVars
    /\ SweepUnchanged

\* An entry refreshed meanwhile goes, too.
SweepDelete(a) ==
    /\ swPc = "delete" /\ a \in needDel
    /\ needDel' = needDel \ {a}
    /\ watched' = watched \ {a} /\ known' = known \ {a} /\ old' = old \ {a}
    /\ swPc' = IF needDel = {a} THEN SweptPc ELSE "delete"
    /\ SweepUnchanged

\* ss.cancel(), some time before the table is closed.
CancelContext ==
    /\ ~cancelled
    /\ cancelled' = TRUE
    /\ UNCHANGED <<cacheVars, sweepVars, recvSet, callPc, dst, closed, historyVars>>

CloseTable ==
    /\ cancelled /\ ~closed
    /\ closed' = TRUE
    /\ watched' = {} /\ known' = {} /\ old' = {}
    /\ UNCHANGED <<sweepVars, recvSet, callPc, dst, cancelled, historyVars>>

MacNext ==
    \/ \E k \in Resolvers : Resolve(k)
    \/ \E a \in Addresses : RecvWanted(a) \/ RecvUnwanted(a) \/ Age(a) \/ SweepDelete(a)
    \/ RecvStore \/ SweepCollect \/ CancelContext \/ CloseTable

MacSpec == MacInit /\ [][MacNext]_macVars

-----------------------------------------------------------------------------
\* What each piece of state may hold; only an entry has a MAC or an age.
MacTypeOK ==
    /\ watched \subseteq Addresses /\ known \subseteq watched /\ old \subseteq watched
    /\ swPc \in {"sleep", "delete", "stopped"} /\ needDel \subseteq Addresses
    /\ recvSet \in Addresses \cup {NoAddress}
    /\ callPc \in [Resolvers -> {"idle", "check", "mark", "ask", "poll", "done", "failed"}]
    /\ dst \in [Resolvers -> Addresses \cup {NoAddress}]
    /\ cancelled \in BOOLEAN /\ closed \in BOOLEAN
    /\ raced \subseteq Resolvers /\ doomed \subseteq Resolvers /\ answered \subseteq Resolvers

\* Once recv has dealt with an answer, the call that waits for it will find the
\* MAC: neither an old sweep nor a second call can make it run into its timeout
\* (syn.go:673-723, watchMacCache.go:96).  The exception is a sweep that chose
\* the address before the call marked it (watchMacCache.go:112), and Close.
AnsweredIsKnown ==
    \A k \in answered \ doomed : callPc[k] \in {"ask", "poll"} /\ ~closed => dst[k] \in known

\* An address is asked for by one call at a time ("arp of this ip has been in
\* monitoring", syn.go:674), but for a call overtaken between IsNeedWatch and
\* UpdateLastTime and one whose entry an earlier sweep takes away.
OneResolver ==
    \A a \in Addresses \ known : \A j, k \in Waiting(a) :
        ~closed /\ j # k => {j, k} \cap (raced \cup doomed) # {}
=============================================================================
