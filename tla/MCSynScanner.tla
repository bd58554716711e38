---------------------------- MODULE MCSynScanner ----------------------------
EXTENDS SynScanner, TLC
CONSTANTS p1, p2, p3, t1, t2
MCOneTarget == [p \in Probes |-> t1]

\* The program closes the scanner without waiting for it.
NoWaitSpec == Init /\ [][Scanning \/ Closing]_vars

\* What syn_test.go:430-446 sets up: every SYN is out and its call has returned
\* when the program waits, recv gets no answer, and Close comes after Wait.
AllSent == \A p \in Probes : scan[p] = "sent"
Unanswered == UNCHANGED recvVars
SentThenWaitSpec == Init /\ [][(Scanning \/ (AllSent /\ Waiting)) /\ Unanswered]_vars

NoWaitFairSpec == NoWaitSpec /\ Fairness

Symmetry == Permutations(Probes)

\* Two states that differ only in values nobody reads again are one state: the
\* send time of an entry outside the table, the flags of a reported entry, the
\* sampling counter after the last send, the answers after recv has returned.
Sending == \E p \in Probes : scan[p] \in {"idle", "reserve", "send"}

LiveState ==
    <<probes, nextSrcPort, srcPort, [p \in Pending |-> sentAt[p]],
      retried \ Reported, retry \ Reported, cancelled, tableDone,
      scan, held, IF Sending THEN sampleCount ELSE 0,
      IF recvPc = "exit" THEN {} ELSE wire,
      events, recvVars, sweepVars, retryVars, pipeVars, portProbeWg, closeVars, waitVars>>
=============================================================================
