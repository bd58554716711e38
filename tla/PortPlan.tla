------------------------------ MODULE PortPlan ------------------------------
(***************************************************************************)
(* The scan plan (ShuffleParseAndMergeTopPorts in core/port/port.go): the  *)
(* common ports the text selects, then its other ports, shuffled in blocks *)
(* (util/shuffle.go).  Ports are 16-bit numbers that wrap after LastPort.   *)
(* A text is the list of its ranges and whether it mentions top1000; one   *)
(* that does not parse ends before any of this.                            *)
(***************************************************************************)
EXTENDS Integers, FiniteSets, SequencesExt

CONSTANTS
    LastPort,     \* the largest port, 65535
    TopTcpPorts,  \* the common ports, in order, with repetitions
    Block,        \* precision of the shuffle, 100 in the code
    MaxRanges     \* bound on the length of a text

ASSUME PlanAssumption == LastPort \in Nat \ {0} /\ Block \in Nat \ {0} /\ MaxRanges \in Nat

PortNums == 0 .. LastPort

ASSUME TopAssumption == TopTcpPorts \in Seq(1 .. LastPort - 1)

VARIABLES
    text,     \* [ranges, top]
    phase,    \* "top", "loop", "order", "done" or "error"
    item,     \* the common port, then the range that is being looked at
    port,     \* _port
    ports,    \* the plan
    skip      \* number of common ports in it

vars == <<text, phase, item, port, ports, skip>>

Texts == [ranges : UNION {[1 .. n -> PortNums \X PortNums] : n \in 0 .. MaxRanges}, top : BOOLEAN]

Init ==
    /\ text \in {t \in Texts : t.ranges # <<>> \/ t.top}
    /\ phase = "top" /\ item = 1
    /\ port = 0 /\ ports = <<>> /\ skip = 0

IsInPortRange(p, rs) == \E i \in DOMAIN rs : rs[i][1] <= p /\ p <= rs[i][2]

Picked(p) == text.top \/ IsInPortRange(p, text.ranges)

\* Faulty variant: the common ports are not deduplicated.
AppendTopCopies(p) ==
    /\ ports' = IF Picked(p) THEN Append(ports, p) ELSE ports
    /\ skip' = Len(ports')

AppendTop(p) ==
    /\ ports' = IF Picked(p) /\ p \notin ToSet(ports) THEN Append(ports, p) ELSE ports
    /\ skip' = Len(ports')

MergeTop ==
    /\ phase = "top" /\ item <= Len(TopTcpPorts)
    /\ AppendTop(TopTcpPorts[item])
    /\ item' = item + 1
    /\ UNCHANGED <<text, phase, port>>

StartRange(i) ==
    /\ item' = i
    /\ port' = IF i > Len(text.ranges) THEN 0 ELSE text.ranges[i][1]
    /\ phase' = IF i > Len(text.ranges) THEN "order" ELSE "loop"
    /\ UNCHANGED text

TopMerged ==
    /\ phase = "top" /\ item > Len(TopTcpPorts)
    /\ StartRange(1)
    /\ UNCHANGED <<ports, skip>>

InLoop == phase = "loop" /\ port <= text.ranges[item][2]

\* Faulty variant: a counter with more bits than a port.
IncrementWide == port' = port + 1 /\ UNCHANGED <<text, phase, item>>

Increment == port' = (port + 1) % (LastPort + 1) /\ UNCHANGED <<text, phase, item>>

\* Port 0, a common port or one of an earlier range: continue.
SkipPort ==
    /\ InLoop
    /\ port = 0 \/ port \in ToSet(ports)
    /\ Increment
    /\ UNCHANGED <<ports, skip>>

\* Faulty variant: no special case for the last port.
TakePortBlind ==
    /\ InLoop
    /\ port # 0 /\ port \notin ToSet(ports)
    /\ ports' = Append(ports, port)
    /\ Increment
    /\ UNCHANGED skip

\* A new port; after the last one the counter would wrap.
TakePort ==
    /\ InLoop
    /\ port # 0 /\ port \notin ToSet(ports)
    /\ ports' = Append(ports, port)
    /\ IF port = LastPort THEN StartRange(item + 1) ELSE Increment
    /\ UNCHANGED skip

RangeDone ==
    /\ phase = "loop" /\ port > text.ranges[item][2]
    /\ StartRange(item + 1)
    /\ UNCHANGED <<ports, skip>>

NoPorts ==
    /\ phase = "order" /\ ports = <<>>
    /\ phase' = "error"
    /\ UNCHANGED <<text, item, port, ports, skip>>

-----------------------------------------------------------------------------
(* util.Shuffle: rl orders a full block, rl2 the rest after the last one.  *)

Orders(n) == {f \in [0 .. n - 1 -> 0 .. n - 1] : \A i, j \in 0 .. n - 1 : f[i] = f[j] => i = j}

Precision(size) == IF size > Block THEN Block ELSE size

Get(size, rl, rl2, index) ==
    LET n == Precision(size)
        t == index % n
    IN  (index - t) + (IF (index - t) + n > size THEN rl2[t] ELSE rl[t])

ShuffleRest ==
    /\ phase = "order" /\ ports # <<>>
    /\ phase' = "done"
    /\ LET size == Len(ports) - skip
       IN  IF size = 0 THEN UNCHANGED ports
           ELSE \E rl \in Orders(Precision(size)), rl2 \in Orders(size % Precision(size)) :
                    ports' = [i \in 1 .. Len(ports) |->
                        IF i <= skip THEN ports[i] ELSE ports[skip + 1 + Get(size, rl, rl2, i - skip - 1)]]
    /\ UNCHANGED <<text, item, port, skip>>

Ended == phase \in {"done", "error"}

Terminated == Ended /\ UNCHANGED vars

Next == MergeTop \/ TopMerged \/ SkipPort \/ TakePort \/ RangeDone \/ NoPorts \/ ShuffleRest \/ Terminated

Spec == Init /\ [][Next]_vars /\ WF_vars(Next)

-----------------------------------------------------------------------------
TypeOK ==
    /\ text \in Texts
    /\ phase \in {"top", "loop", "order", "done", "error"}
    /\ item \in Nat \ {0}
    /\ port \in PortNums
    /\ ports \in Seq(PortNums)
    /\ skip \in 0 .. Len(ports)

\* The ports a text stands for.
Selected(t) ==
    {p \in PortNums \ {0} : IsInPortRange(p, t.ranges)} \cup (IF t.top THEN ToSet(TopTcpPorts) ELSE {})

\* The finished plan has every selected port exactly once and no other, the
\* common ones first; an error means that the text selects no port
\* (port.go:393: the plan must be free of duplicates; 413: common ports first).
PlanComplete ==
    /\ phase = "done" =>
        /\ IsInjective(ports) /\ ToSet(ports) = Selected(text)
        /\ ToSet(SubSeq(ports, 1, skip)) = ToSet(TopTcpPorts) \cap Selected(text)
    /\ phase = "error" => Selected(text) = {}

\* The break at 65535 is reached only when that port is new.  So the loop ends
\* exactly when at most one range of the text covers the last port; after a
\* second one the counter wraps and the loop never ends (port.go:430).
CoversLast == Cardinality({i \in DOMAIN text.ranges : text.ranges[i][2] = LastPort})

EndsUnlessLastTwice == (CoversLast <= 1 => <>Ended) /\ (CoversLast > 1 => []~Ended)
=============================================================================
