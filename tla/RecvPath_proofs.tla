--------------------------- MODULE RecvPath_proofs ---------------------------
(***************************************************************************)
(* Proofs about the two parts of the scanner that recv feeds with packets: *)
(* the decoding of frames, for any peers, ports and pending probes, and    *)
(* the neighbour cache, for any number of calls and addresses.             *)
(***************************************************************************)
EXTENDS MacCache, FrameDecode, TLAPS

-----------------------------------------------------------------------------
(* FrameDecode.                                                            *)
(* The inductive invariant.  Ports of ours stay behind only after a packet *)
(* that matched no probe, and the frame is an IPv6 one only if there was   *)
(* an IPv6 packet.                                                         *)

LeftBehind == tcpPorts \in OurPorts => unmatched

FrameHistory == frameType = 6 => sawIPv6

FrameInv == FrameTypeOK /\ LeftBehind /\ FrameHistory /\ ResetInOwnFrame

LEMMA FrameInitInv == FrameInit => FrameInv
<1> SUFFICES ASSUME FrameInit PROVE FrameInv
  OBVIOUS
<1>1. judged \in [probe : OurPorts \cup {NoPorts}, own : BOOLEAN, reset : Peers \cup {NoPorts}]
  BY DEF FrameInit, Nothing
<1>2. FrameTypeOK
  BY <1>1 DEF FrameInit, FrameTypeOK
<1>3. LeftBehind /\ FrameHistory
  BY PeersAssumption DEF FrameInit, LeftBehind, FrameHistory
<1>4. ResetInOwnFrame
  BY DEF FrameInit, ResetInOwnFrame, Nothing
<1> QED BY <1>2, <1>3, <1>4 DEF FrameInv

LEMMA DecodeType ==
    ASSUME FrameTypeOK, NEW ports \in Ports \cup {NoPorts}, NEW flags \in {"synack", "rst"}
    PROVE  /\ Decode(ports, flags).ports \in Ports \cup {NoPorts}
           /\ Decode(ports, flags).flags \in {"synack", "rst"}
BY DEF FrameTypeOK, Decode

\* The probe a packet decides was waiting.
LEMMA DecidedIsOurs ==
    ASSUME FrameTypeOK, NEW peer, NEW tcp, <<peer, tcp>> \in waiting
    PROVE  tcp \in OurPorts
BY DEF FrameTypeOK

LEMMA ReceiveInv ==
    ASSUME FrameInv, NEW peer \in Peers, NEW ports \in Ports \cup {NoPorts},
           NEW flags \in {"synack", "rst"}, Receive(peer, ports, flags)
    PROVE  FrameInv' /\ (judged'.own \/ unmatched)
<1> DEFINE tcp == Decode(ports, flags)
           has == <<peer, tcp.ports>> \in waiting
<1>1. tcp.ports \in Ports \cup {NoPorts} /\ tcp.flags \in {"synack", "rst"}
  BY DecodeType DEF FrameInv
<1>2. has => tcp.ports \in OurPorts
  BY DecidedIsOurs DEF FrameInv
<1>3. ports = NoPorts => tcp.ports = tcpPorts
  BY DEF Decode
<1>4. /\ frameType' = FrameTypeAfter(peer)
      /\ tcpPorts' = Cleaned(tcp, has)
      /\ tcpFlags' = tcp.flags
      /\ waiting' = waiting \ {<<peer, tcp.ports>>}
      /\ judged' = IF ~has THEN Nothing
                   ELSE [probe |-> tcp.ports, own |-> ports # NoPorts,
                         reset |-> IF tcp.flags = "synack" THEN peer ELSE NoPorts]
      /\ unmatched' = (tcp.ports \in OurPorts /\ ~has)
      /\ sawIPv6' = (sawIPv6 \/ Family(peer) = 6)
  BY DEF Receive
<1> HIDE DEF tcp
<1>5. FrameTypeOK'
  <2>1. tcpPorts' \in Ports \cup {NoPorts} /\ tcpFlags' \in {"synack", "rst"}
    BY <1>1, <1>4 DEF Cleaned
  <2>2. judged' \in [probe : OurPorts \cup {NoPorts}, own : BOOLEAN, reset : Peers \cup {NoPorts}]
    BY <1>2, <1>4 DEF Nothing
  <2>3. frameType' \in {4, 6} /\ sawIPv6' \in BOOLEAN /\ unmatched' \in BOOLEAN
    BY <1>4 DEF FrameInv, FrameTypeOK, FrameTypeAfter
  <2>4. waiting' \subseteq Peers \X OurPorts
    BY <1>4 DEF FrameInv, FrameTypeOK
  <2> QED BY <2>1, <2>2, <2>3, <2>4 DEF FrameTypeOK
<1>6. LeftBehind'
  BY <1>4, PeersAssumption DEF LeftBehind, Cleaned
<1>7. FrameHistory'
  BY <1>4 DEF FrameInv, FrameHistory, FrameTypeAfter
<1>8. ResetInOwnFrame'
  <2>1. CASE ~has
    BY <1>4, <2>1 DEF ResetInOwnFrame, Nothing
  <2>2. CASE has /\ tcp.flags # "synack"
    BY <1>4, <2>2 DEF ResetInOwnFrame
  <2>3. CASE has /\ tcp.flags = "synack"
    <3>1. judged'.reset = peer
      BY <1>4, <2>3
    <3>2. frameType' = Family(peer) \/ (peer \in Peers4 /\ sawIPv6')
      BY <1>4, PeersAssumption DEF FrameInv, FrameTypeOK, FrameHistory, FrameTypeAfter, Family, Peers
    <3>3. Family(peer)' = Family(peer)
      BY DEF Family
    <3> QED BY <3>1, <3>2 DEF ResetInOwnFrame, Family
  <2> QED BY <1>1, <2>1, <2>2, <2>3
<1>9. judged'.own \/ unmatched
  <2>1. CASE ~has
    BY <1>4, <2>1 DEF Nothing
  <2>2. CASE has /\ ports # NoPorts
    BY <1>4, <2>2
  <2>3. CASE has /\ ports = NoPorts
    BY <1>2, <1>3, <2>3 DEF FrameInv, LeftBehind
  <2> QED BY <2>1, <2>2, <2>3
<1> QED BY <1>5, <1>6, <1>7, <1>8, <1>9 DEF FrameInv

LEMMA FrameStepInv == FrameInv /\ [FrameNext]_frameVars => FrameInv'
<1> SUFFICES ASSUME FrameInv, [FrameNext]_frameVars PROVE FrameInv'
  OBVIOUS
<1>1. CASE UNCHANGED frameVars
  BY <1>1 DEF frameVars, FrameInv, FrameTypeOK, LeftBehind, FrameHistory, ResetInOwnFrame, Family
<1>2. CASE FrameNext
  BY <1>2, ReceiveInv DEF FrameNext
<1> QED BY <1>1, <1>2

LEMMA FrameInvariance == FrameSpec => []FrameInv
BY FrameInitInv, FrameStepInv, PTL DEF FrameSpec

\* The variables keep their types; only ports of ours are ever looked up.
THEOREM FrameTypeCorrect == FrameSpec => []FrameTypeOK
BY FrameInvariance, PTL DEF FrameInv

\* A reset of the wrong family goes out for an IPv4 packet after an IPv6 one
\* and in no other case.
THEOREM ResetsFitTheirFrame == FrameSpec => []ResetInOwnFrame
BY FrameInvariance, PTL DEF FrameInv

\* A packet without a TCP header decides a probe only when the packet before
\* it was an answer to no probe.
THEOREM DecidedByOwnHeader == FrameSpec => JudgedByOwnHeader
<1>1. FrameInv /\ [FrameNext]_frameVars => [judged'.own \/ unmatched]_frameVars
  BY ReceiveInv DEF FrameNext
<1> QED BY <1>1, FrameInvariance, PTL DEF FrameSpec, JudgedByOwnHeader

-----------------------------------------------------------------------------
(* MacCache.                                                               *)

(* The inductive invariant.                                                *)

Waits(k) == callPc[k] \in {"ask", "poll"}

\* While a call that marked in time waits, no sweep takes its entry away: the
\* entry is young and not among those the sweep is about to delete.
EntryKept == \A k \in Resolvers \ doomed :
    Waits(k) /\ ~closed => dst[k] \in watched \ old /\ dst[k] \notin needDel

\* Only a call that has marked its address is answered.
AnsweredMarked == \A k \in answered : callPc[k] \notin {"idle", "check", "mark"}

\* Two calls that may both ask for an unknown address, of which one waits
\* already: the other was overtaken between its test and its mark.
OvertakenIsRaced == \A j, k \in Resolvers \ doomed :
    /\ j # k /\ dst[j] = dst[k] /\ ~closed
    /\ Waits(j) /\ callPc[k] = "mark" /\ dst[k] \notin known
    => k \in raced

CallInv == \A k \in Resolvers : callPc[k] # "idle" => dst[k] \in Addresses

Parts == EntryKept /\ AnsweredMarked /\ AnsweredIsKnown /\ OvertakenIsRaced /\ OneResolver

MacInv == MacTypeOK /\ CallInv /\ Parts

LEMMA MacInitInv == MacInit => MacInv
BY MacAssumption DEF MacInit, MacInv, MacTypeOK, CallInv, Parts, EntryKept, AnsweredMarked,
   AnsweredIsKnown, OvertakenIsRaced, OneResolver, Waits, Waiting

LEMMA TypeStep ==
    ASSUME MacTypeOK, CallInv, [MacNext]_macVars
    PROVE  MacTypeOK' /\ CallInv'
<1> USE DEF MacTypeOK, CallInv
<1>1. CASE UNCHANGED macVars
  BY <1>1 DEF macVars, cacheVars, sweepVars, historyVars
<1>2. ASSUME NEW k \in Resolvers, Resolve(k) PROVE MacTypeOK' /\ CallInv'
  <2> USE DEF CallUnchanged, sweepVars, cacheVars, historyVars, CallGoto
  <2>1. ASSUME NEW a \in Addresses, Lookup(k, a) PROVE MacTypeOK' /\ CallInv'
    BY <2>1 DEF Lookup
  <2>2. CASE Check(k)
    BY <2>2 DEF Check
  <2>3. CASE Mark(k)
    BY <2>3 DEF Mark, UpdateLastTime
  <2>4. CASE sendArp(k) \/ PollFound(k) \/ PollGivesUp(k)
    BY <2>4 DEF sendArp, PollFound, PollGivesUp
  <2> QED BY <1>2, <2>1, <2>2, <2>3, <2>4 DEF Resolve
<1>3. ASSUME NEW a \in Addresses, RecvWanted(a) \/ RecvUnwanted(a) \/ Age(a)
      PROVE  MacTypeOK' /\ CallInv'
  BY <1>3 DEF RecvWanted, RecvUnwanted, Age, RecvUnchanged, cacheVars, sweepVars, Waiting
<1>4. CASE RecvStore
  BY <1>4 DEF RecvStore, SetMac, RecvUnchanged, sweepVars, Waiting
<1>5. ASSUME NEW a \in Addresses, SweepDelete(a) PROVE MacTypeOK' /\ CallInv'
  BY <1>5 DEF SweepDelete, SweptPc, SweepUnchanged, historyVars
<1>6. CASE SweepCollect \/ CancelContext \/ CloseTable
  BY <1>6 DEF SweepCollect, SweptPc, CancelContext, CloseTable, SweepUnchanged, cacheVars,
              sweepVars, historyVars
<1> QED BY <1>1, <1>2, <1>3, <1>4, <1>5, <1>6 DEF MacNext

-----------------------------------------------------------------------------
(* The calls.                                                              *)

\* A step of one call that does not mark: it may leave its wait or reach "mark".
LEMMA CallStep ==
    ASSUME MacInv, MacTypeOK', NEW k \in Resolvers, CallUnchanged,
           UNCHANGED <<cacheVars, historyVars>>,
           \A j \in Resolvers \ {k} : callPc'[j] = callPc[j] /\ dst'[j] = dst[j],
           Waits(k)' => Waits(k) /\ dst'[k] = dst[k],
           callPc'[k] = "mark" => dst'[k] \notin watched \ known,
           callPc'[k] \in {"idle", "check", "mark"} => callPc[k] \in {"idle", "check"}
    PROVE  Parts'
<1> USE DEF CallUnchanged, cacheVars, sweepVars, historyVars, MacInv, MacTypeOK, Parts
<1>1. EntryKept'
  BY DEF EntryKept, Waits
<1>2. AnsweredMarked'
  BY DEF AnsweredMarked
<1>3. AnsweredIsKnown'
  BY DEF AnsweredIsKnown, Waits
<1>4. OvertakenIsRaced'
  BY DEF OvertakenIsRaced, EntryKept, Waits
<1>5. OneResolver'
  BY DEF OneResolver, Waiting, Waits
<1> QED BY <1>1, <1>2, <1>3, <1>4, <1>5

\* The second of two calls was raced, or the first one lost its entry.
LEMMA MarkStep ==
    ASSUME MacInv, MacTypeOK', NEW k \in Resolvers, Mark(k)
    PROVE  Parts'
<1> USE DEF Mark, UpdateLastTime, CallGoto, CallUnchanged, sweepVars, MacInv, MacTypeOK, Parts
<1>1. /\ Waits(k)' /\ callPc[k] = "mark" /\ dst' = dst
      /\ \A j \in Resolvers \ {k} : callPc'[j] = callPc[j]
  BY DEF Waits
<1>2. EntryKept'
  BY <1>1 DEF EntryKept, Waits
<1>3. AnsweredMarked'
  BY <1>1 DEF AnsweredMarked
<1>4. AnsweredIsKnown'
  BY <1>1 DEF AnsweredIsKnown, AnsweredMarked
<1>5. OvertakenIsRaced'
  <2> SUFFICES ASSUME NEW j \in Resolvers, NEW i \in Resolvers, j \notin doomed', i \notin doomed',
                      j # i, dst[j] = dst[i], ~closed, Waits(j)', callPc'[i] = "mark",
                      dst[i] \notin known
               PROVE  i \in raced'
    BY <1>1 DEF OvertakenIsRaced
  <2>1. i # k /\ callPc[i] = "mark"
    BY <1>1 DEF Waits
  <2>2. CASE j = k
    BY <2>1, <2>2
  <2>3. CASE j # k
    BY <1>1, <2>1, <2>3 DEF OvertakenIsRaced, Waits
  <2> QED BY <2>2, <2>3
<1>6. OneResolver'
  <2> SUFFICES ASSUME NEW j \in Resolvers, NEW i \in Resolvers, Waits(j)', Waits(i)', j # i,
                      dst[j] = dst[i], dst[j] \notin known, ~closed,
                      j \notin raced' \cup doomed', i \notin raced' \cup doomed'
               PROVE  FALSE
    BY <1>1 DEF OneResolver, Waiting, Waits
  <2>1. CASE i = k
    BY <1>1, <2>1 DEF OvertakenIsRaced, Waits
  <2>2. CASE j = k
    BY <1>1, <2>2 DEF OvertakenIsRaced, Waits
  <2>3. CASE i # k /\ j # k
    <3>1. dst[j] \in Addresses
      BY <1>1, <2>3 DEF CallInv, Waits
    <3> QED BY <1>1, <2>3, <3>1 DEF OneResolver, Waiting, Waits
  <2> QED BY <2>1, <2>2, <2>3
<1> QED BY <1>2, <1>3, <1>4, <1>5, <1>6

LEMMA ResolveStep ==
    ASSUME MacInv, MacTypeOK', NEW k \in Resolvers, Resolve(k)
    PROVE  Parts'
<1>1. ASSUME NEW a \in Addresses, Lookup(k, a) PROVE Parts'
  BY <1>1, CallStep DEF MacInv, MacTypeOK, Lookup, CallGoto, Waits
<1>2. CASE Check(k)
  BY <1>2, CallStep DEF MacInv, MacTypeOK, Check, CallGoto, Waits, IsNeedWatch
<1>3. CASE sendArp(k) \/ PollFound(k) \/ PollGivesUp(k)
  BY <1>3, CallStep DEF MacInv, MacTypeOK, sendArp, PollFound, PollGivesUp, CallGoto, Waits
<1> QED BY <1>1, <1>2, <1>3, MarkStep DEF Resolve

-----------------------------------------------------------------------------
(* recv, time, the sweep and Close.                                        *)

\* A step of somebody else that keeps the entries of those who wait.
LEMMA TableStep ==
    ASSUME MacInv, MacTypeOK', UNCHANGED <<callPc, dst, raced, doomed>>, closed => closed',
           \A k \in Resolvers \ doomed : Waits(k) /\ ~closed' =>
               /\ dst[k] \in watched' \ old' /\ dst[k] \notin needDel'
               /\ dst[k] \in known => dst[k] \in known',
           \A k \in Resolvers : k \in answered' \ answered =>
               Waits(k) /\ (k \notin doomed /\ ~closed' => dst[k] \in known')
    PROVE  Parts'
<1> USE DEF MacInv, MacTypeOK, Parts
<1>1. EntryKept'
  BY DEF EntryKept, Waits
<1>2. AnsweredMarked'
  BY DEF AnsweredMarked, Waits
<1>3. AnsweredIsKnown'
  BY DEF AnsweredIsKnown, Waits
<1>4. OvertakenIsRaced'
  BY DEF OvertakenIsRaced, Waits
<1>5. OneResolver'
  <2> SUFFICES ASSUME NEW j \in Resolvers, NEW k \in Resolvers, Waits(j), Waits(k), j # k,
                      dst[j] = dst[k], dst[j] \notin known', ~closed'
               PROVE  {j, k} \cap (raced \cup doomed) # {}
    BY DEF OneResolver, Waiting, Waits
  <2>1. CASE {j, k} \cap doomed # {}
    BY <2>1
  <2>2. CASE {j, k} \cap doomed = {}
    <3>1. dst[j] \in Addresses \ known
      BY <2>2 DEF CallInv, Waits
    <3> QED BY <3>1 DEF OneResolver, Waiting, Waits
  <2> QED BY <2>1, <2>2
<1> QED BY <1>1, <1>2, <1>3, <1>4, <1>5

LEMMA RecvStep ==
    ASSUME MacInv, MacTypeOK', NEW a \in Addresses, RecvWanted(a) \/ RecvUnwanted(a) \/ Age(a)
    PROVE  Parts'
<1> USE DEF RecvUnchanged, sweepVars, Parts, MacInv, EntryKept, Waits
<1>1. CASE RecvWanted(a)
  BY <1>1, TableStep DEF RecvWanted, cacheVars
<1>2. CASE RecvUnwanted(a)
  BY <1>2, TableStep DEF RecvUnwanted, cacheVars, Waiting, IsNeedWatch
<1>3. CASE Age(a)
  BY <1>3, TableStep DEF Age, Waiting
<1> QED BY <1>1, <1>2, <1>3

LEMMA StoreStep ==
    ASSUME MacInv, MacTypeOK', RecvStore
    PROVE  Parts'
BY TableStep DEF RecvStore, SetMac, Waiting, RecvUnchanged, sweepVars, Parts, MacInv, EntryKept,
   Waits

LEMMA SweepStep ==
    ASSUME MacInv, MacTypeOK', SweepCollect \/ \E a \in Addresses : SweepDelete(a)
    PROVE  Parts'
<1> USE DEF SweepUnchanged, historyVars, Parts, MacInv, EntryKept, Waits
<1>1. CASE SweepCollect
  BY <1>1, TableStep DEF SweepCollect, cacheVars
<1>2. ASSUME NEW a \in Addresses, SweepDelete(a) PROVE Parts'
  BY <1>2, TableStep DEF SweepDelete
<1> QED BY <1>1, <1>2

LEMMA CloseStep ==
    ASSUME MacInv, MacTypeOK', CancelContext \/ CloseTable
    PROVE  Parts'
<1> USE DEF historyVars, sweepVars, cacheVars, Parts, MacInv, EntryKept, Waits
<1>1. CASE CancelContext
  BY <1>1, TableStep DEF CancelContext
<1>2. CASE CloseTable
  BY <1>2, TableStep DEF CloseTable
<1> QED BY <1>1, <1>2

LEMMA MacStepInv == MacInv /\ [MacNext]_macVars => MacInv'
<1> SUFFICES ASSUME MacInv, [MacNext]_macVars PROVE MacInv'
  OBVIOUS
<1>1. MacTypeOK' /\ CallInv'
  BY TypeStep DEF MacInv
<1>2. CASE UNCHANGED macVars
  BY <1>2, <1>1 DEF macVars, cacheVars, sweepVars, historyVars, MacInv, Parts, EntryKept,
     AnsweredMarked, AnsweredIsKnown, OvertakenIsRaced, OneResolver, Waits, Waiting
<1>3. CASE MacNext
  BY <1>3, <1>1, ResolveStep, RecvStep, StoreStep, SweepStep, CloseStep DEF MacNext, MacInv
<1> QED BY <1>2, <1>3

LEMMA MacInvariance == MacSpec => []MacInv
BY MacInitInv, MacStepInv, PTL DEF MacSpec

\* The variables keep their types; only an entry has a MAC or an age.
THEOREM MacTypeCorrect == MacSpec => []MacTypeOK
BY MacInvariance, PTL DEF MacInv

\* A call whose answer recv has dealt with finds the MAC, unless a sweep chose
\* its address before it marked it or the table is closed.
THEOREM AnswersAreFound == MacSpec => []AnsweredIsKnown
BY MacInvariance, PTL DEF MacInv, Parts

\* Two calls ask for one unknown address only if one was overtaken between its
\* test and its mark or lost its entry to an earlier sweep.
THEOREM OneAsks == MacSpec => []OneResolver
BY MacInvariance, PTL DEF MacInv, Parts
=============================================================================
