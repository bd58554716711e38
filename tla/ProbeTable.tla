----------------------------- MODULE ProbeTable -----------------------------
(***************************************************************************)
(* watchIpStatusTable (core/port/syn/watchIpStatus.go): the pending-probe  *)
(* table of the SYN scanner.  Every goroutine of the scanner works on it   *)
(* under one lock, so each operation below is one atomic action; which     *)
(* goroutine calls it, and what it does with the answer, is SynScanner.    *)
(*                                                                         *)
(* A probe is one accepted call of Scan or ProbeContext.  Its entry is     *)
(* found by key <<target, source port>>, never by identity: two probes of  *)
(* one target can hold the same key at different times, and an operation   *)
(* given an old key acts on whatever entry is there now.                   *)
(***************************************************************************)
EXTENDS Integers, FiniteSets

CONSTANTS
    Probes,    \* the accepted calls
    NoProbe,   \* the absent entry
    Targets,   \* the (destination ip, destination port) pairs
    Target,    \* Target[p]: what p probes
    NumPorts   \* size of the source port range (49000..58999 in the code)

ASSUME ProbesAssumption  == NoProbe \notin Probes
ASSUME FiniteProbes      == IsFiniteSet(Probes)
ASSUME TargetAssumption  == Target \in [Probes -> Targets]
ASSUME NumPortsAssumption == NumPorts \in Nat \ {0}

\* Source ports, counted from synSourcePortMin.
SrcPorts == 0 .. (NumPorts - 1)
NoPort   == -1
Keys     == Targets \X SrcPorts

VARIABLES
    probes,       \* probes[k]: the entry under key k, or NoProbe
    nextSrcPort,  \* cursor of the next reservation
    srcPort,      \* srcPort[p]: the port of p's key, NoPort before it has one
    sentAt,       \* sentAt[p]: "zero", or "fresh"/"stale" against the timeout
    retried,      \* the entries already re-armed once
    retry,        \* the entries that carry a resend closure
    cancelled,    \* the probes whose context reports an error
    tableDone     \* isDone of the table

tableVars == <<probes, nextSrcPort, srcPort, sentAt, retried, retry,
               cancelled, tableDone>>

Ages == {"zero", "fresh", "stale"}

TableTypeOK ==
    /\ probes \in [Keys -> Probes \cup {NoProbe}]
    /\ nextSrcPort \in SrcPorts
    /\ srcPort \in [Probes -> SrcPorts \cup {NoPort}]
    /\ sentAt \in [Probes -> Ages]
    /\ retried \subseteq Probes
    /\ retry \subseteq Probes
    /\ cancelled \subseteq Probes
    /\ tableDone \in BOOLEAN

TableInit ==
    /\ probes = [k \in Keys |-> NoProbe]
    /\ nextSrcPort = 0
    /\ srcPort = [p \in Probes |-> NoPort]
    /\ sentAt = [p \in Probes |-> "fresh"]
    /\ retried = {}
    /\ retry = {}
    /\ cancelled = {}
    /\ tableDone = FALSE

-----------------------------------------------------------------------------
Key(p)     == <<Target[p], srcPort[p]>>
Pending    == {p \in Probes : \E k \in Keys : probes[k] = p}
IsEmpty    == Pending = {}
FreePorts(t) == {s \in SrcPorts : probes[<<t, s>>] = NoProbe}

\* The distance of port s from the cursor, in the order the code tries ports.
Offset(s) == (s - nextSrcPort + NumPorts) % NumPorts

FirstFree(t, s) ==
    /\ s \in FreePorts(t)
    /\ \A r \in FreePorts(t) : Offset(s) <= Offset(r)

Exhausted(t) == FreePorts(t) = {}

ReserveProbe(p) == \E s \in SrcPorts :
    /\ FirstFree(Target[p], s)
    /\ probes' = [probes EXCEPT ![<<Target[p], s>>] = p]
    /\ nextSrcPort' = (s + 1) % NumPorts
    /\ srcPort' = [srcPort EXCEPT ![p] = s]
    /\ sentAt' = [sentAt EXCEPT ![p] = "fresh"]
    /\ UNCHANGED <<retried, retry, cancelled, tableDone>>

\* TakeProbe and DropProbe: remove and return whatever entry key k holds.
RemoveEntry(k) == probes' = [probes EXCEPT ![k] = NoProbe]

TakeProbe(k, p) ==
    /\ p = probes[k]
    /\ p # NoProbe
    /\ RemoveEntry(k)
    /\ UNCHANGED <<nextSrcPort, srcPort, sentAt, retried, retry, cancelled, tableDone>>

DropProbe(k, p) == TakeProbe(k, p)

\* SetRetry and TouchProbe change a field of the entry at k, if there is one.
SetRetry(k) ==
    /\ retry' = retry \cup ({probes[k]} \ {NoProbe})
    /\ UNCHANGED <<probes, nextSrcPort, srcPort, sentAt, retried, cancelled, tableDone>>

\* Faulty variant: the touched entry keeps the zero send time.
TouchWithoutTime(k, p) ==
    /\ p = probes[k]
    /\ p # NoProbe
    /\ UNCHANGED tableVars

TouchProbe(k, p) ==
    /\ p = probes[k]
    /\ p # NoProbe
    /\ sentAt' = [sentAt EXCEPT ![p] = "fresh"]
    /\ UNCHANGED <<probes, nextSrcPort, srcPort, retried, retry, cancelled, tableDone>>

\* Faulty variant: the key may have been reserved again in the meantime.
RearmOverExisting(p) == ~tableDone /\ p \notin cancelled

CanRearm(p) ==
    /\ ~tableDone
    /\ p \notin cancelled
    /\ probes[Key(p)] = NoProbe

\* Faulty variant: the entry goes back with its old send time.
RearmWithOldTime(p) ==
    /\ CanRearm(p)
    /\ probes' = [probes EXCEPT ![Key(p)] = p]
    /\ retried' = retried \cup {p}
    /\ UNCHANGED <<nextSrcPort, srcPort, sentAt, retry, cancelled, tableDone>>

\* RearmProbe as handleProbeTimeout calls it: retried, and with no send time.
RearmProbe(p) ==
    /\ CanRearm(p)
    /\ probes' = [probes EXCEPT ![Key(p)] = p]
    /\ retried' = retried \cup {p}
    /\ sentAt' = [sentAt EXCEPT ![p] = "zero"]
    /\ UNCHANGED <<nextSrcPort, srcPort, retry, cancelled, tableDone>>

\* What one sweep removes: a cancelled context, or a send time past the timeout.
Expired == {p \in Pending : p \in cancelled \/ sentAt[p] = "stale"}

RemoveAll(S) ==
    /\ probes' = [k \in Keys |-> IF probes[k] \in S THEN NoProbe ELSE probes[k]]
    /\ UNCHANGED <<nextSrcPort, srcPort, sentAt, retried, retry, cancelled, tableDone>>

\* The clock passes p's timeout.
Elapse(p) ==
    /\ p \in Pending
    /\ sentAt[p] = "fresh"
    /\ sentAt' = [sentAt EXCEPT ![p] = "stale"]
    /\ UNCHANGED <<probes, nextSrcPort, srcPort, retried, retry, cancelled, tableDone>>

\* A context is cancelled: by the caller of ProbeContext, or by Close.
CancelContexts(S) ==
    /\ cancelled' = cancelled \cup S
    /\ UNCHANGED <<probes, nextSrcPort, srcPort, sentAt, retried, retry, tableDone>>

\* First step of the table's Close; the second is RemoveAll(Pending).
MarkDone ==
    /\ tableDone' = TRUE
    /\ UNCHANGED <<probes, nextSrcPort, srcPort, sentAt, retried, retry, cancelled>>
=============================================================================
