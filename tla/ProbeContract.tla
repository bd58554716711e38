--------------------------- MODULE ProbeContract ---------------------------
(***************************************************************************)
(* What a scanner promises about one accepted probe (core/port/port.go,    *)
(* IpOption.OnProbeDone and ProbeEvent): exactly one terminal event; it    *)
(* says Open exactly when the result was put on the result channel, and    *)
(* that came first; it says Aborted only when somebody asked for it.       *)
(* The scanners' models map their state to this one.                       *)
(***************************************************************************)
EXTENDS Sequences

CONSTANT Probes

VARIABLES
    accepted,  \* probes the scanner has taken on
    results,   \* probes whose OpenIpPort was put on the result channel
    events,    \* events[p]: the outcomes OnProbeDone was called with
    closing,   \* Close was called
    revoked    \* probes whose own context is cancelled

cvars == <<accepted, results, events, closing, revoked>>

Init ==
    /\ accepted = {}
    /\ results = {}
    /\ events = [p \in Probes |-> <<>>]
    /\ closing = FALSE
    /\ revoked = {}

Open(p) == p \in accepted /\ events[p] = <<>>

Accept(p) ==
    /\ p \notin accepted
    /\ accepted' = accepted \cup {p}
    /\ UNCHANGED <<results, events, closing, revoked>>

Deliver(p) ==
    /\ Open(p)
    /\ p \notin results
    /\ results' = results \cup {p}
    /\ UNCHANGED <<accepted, events, closing, revoked>>

\* Reporting a probe releases its context, which cancels it.
Finish(p, o) ==
    /\ Open(p)
    /\ (o = "Open") <=> (p \in results)
    /\ o = "Aborted" => closing \/ p \in revoked
    /\ events' = [events EXCEPT ![p] = <<o>>]
    /\ revoked \subseteq revoked'
    /\ UNCHANGED <<accepted, results, closing>>

Revoke ==
    /\ revoked \subseteq revoked'
    /\ UNCHANGED <<accepted, results, events, closing>>

Close ==
    /\ closing' = TRUE
    /\ UNCHANGED <<accepted, results, events, revoked>>

Next ==
    \/ \E p \in Probes :
        \/ Accept(p) \/ Deliver(p)
        \/ \E o \in {"Open", "Closed", "NoResponse", "Error", "Aborted"} : Finish(p, o)
    \/ Revoke \/ Close

Spec == Init /\ [][Next]_cvars
=============================================================================
