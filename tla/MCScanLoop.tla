----------------------------- MODULE MCScanLoop -----------------------------
(* Eight ports; common ports with a repetition, as in TopTcpPorts; two     *)
(* targets, of different addresses or the same, with and without ping, by  *)
(* TCP or SYN, one at a time or both.                                      *)
EXTENDS ScanLoop, TLC
CONSTANTS t1, t2, ip1, ip2

SmallTop == <<5, 2, 5>>
SmallPlans == {<<5, 2>>}
Line(list, noPing, tcp, group) == [addr |-> list, pn |-> noPing, sT |-> tcp, hostGroup |-> group]
Apart == t1 :> ip1 @@ t2 :> ip2
Alike == t1 :> ip1 @@ t2 :> ip1
FiveLines ==
    {Line(Apart, FALSE, TRUE, 1), Line(Apart, TRUE, FALSE, 1), Line(Apart, TRUE, TRUE, 2),
     Line(Alike, FALSE, FALSE, 2), Line(Alike, TRUE, TRUE, 2)}
=============================================================================
