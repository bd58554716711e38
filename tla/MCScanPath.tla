----------------------------- MODULE MCScanPath -----------------------------
(* The parts around the probe table, which share no state with each other: *)
(* the host limiter, the neighbour cache and the rate a call passes before *)
(* it reserves a source port, and recv's decoding.  A behaviour follows    *)
(* one of them, chosen at the start.                                       *)
EXTENDS HostLimiter, MacCache, AdaptiveRate, FrameDecode, TLC
CONSTANTS c1, c2, c3, h1, h2, a1, a2, p1, p2, q1, x1, x2, x3, e1, e2

VARIABLE part

Parts == {"host", "mac", "rate", "frame"}

PathInit == part \in Parts /\ Init /\ MacInit /\ RateInit /\ FrameInit
            /\ (part # "frame" => waiting = {})

PathNext ==
    \/ part = "host" /\ Next /\ UNCHANGED <<part, macVars, rateVars, frameVars>>
    \/ part = "mac" /\ MacNext /\ UNCHANGED <<part, vars, rateVars, frameVars>>
    \/ part = "rate" /\ RateNext /\ UNCHANGED <<part, vars, macVars, frameVars>>
    \/ part = "frame" /\ FrameNext /\ UNCHANGED <<part, vars, macVars, rateVars>>

PathSpec == PathInit /\ [][PathNext]_<<part, vars, macVars, rateVars, frameVars>>

\* The same calls wait and resolve.
Symmetry == Permutations(Calls) \cup Permutations(Hosts)
=============================================================================
