------------------------------ MODULE ScanLoop ------------------------------
(***************************************************************************)
(* The command (run in cmd/go-portScan.go): it makes the plan of ports     *)
(* (PortPlan), pings the targets in one pool of goroutines, scans the live *)
(* ones in another, counts and prints the results as they come and in the  *)
(* end waits for all of them before it closes the result channel.          *)
(*                                                                         *)
(* The scanner is the TCP or the SYN scanner as ProbeContract has it: it   *)
(* may refuse a port, and it reports each accepted one once: not open,     *)
(* open (a result on retChan) or, once it is being closed, aborted.  The   *)
(* TCP scanner's Wait covers every accepted port (WaitCoversAccepted), the *)
(* SYN scanner's only the ports found open (WaitCoversOpenPorts): it may   *)
(* leave ports that are not answered yet, by its deadline or because its   *)
(* sweeper holds them.  Only Close ends those.  Ports are not              *)
(* fingerprinted.                                                          *)
(***************************************************************************)
EXTENDS PortPlan

CONSTANTS
    Targets,       \* entries of the target list, in the shuffled order of their groups
    CommandLines,  \* those to look at: each entry's address, and the options
    PingPool,      \* rateP
    MaxOpenPort,   \* maxOpenPort; 0: no limit
    MaxConcurrent, \* cap(inflight), the dials the TCP scanner has at a time
    RetCap,        \* cap(retChan), 5000 in the code
    Followed       \* bound: the plans whose scan is followed

ASSUME LoopAssumption ==
    /\ \A c \in CommandLines : c.pn \in BOOLEAN /\ c.sT \in BOOLEAN /\ c.hostGroup \in Nat \ {0}
    /\ PingPool \in Nat \ {0} /\ MaxConcurrent \in Nat \ {0} /\ RetCap \in Nat \ {0}
    /\ MaxOpenPort \in Nat

VARIABLES
    main,      \* where run is
    addr,      \* addr[t]: the address of entry t
    pn,        \* no ping
    sT,        \* TCP scanner, else SYN
    hostGroup, \* targets scanned at a time
    stage,     \* stage[t]: where entry t is
    wgPing,    \* entries the WaitGroup wgPing counts
    wgHost,    \* entries wgHostScan counts
    index,     \* index[t]: ports done of the loop for t
    openPorts, \* ipPortNumMap
    pending,   \* ports the scanner has accepted that may still turn out open
    sending,   \* ports found open whose result is not on retChan yet
    retChan,   \* the results on it, as pairs of entry and port
    consuming, \* the result the consumer has received, or <<>>
    opened,    \* results ever put on retChan
    printed,   \* results ever printed
    aborted,   \* ports ever given up by Close
    left       \* history: the pending ports when s.Wait saw no result on its way

options == <<pn, sT, hostGroup>>
loopVars == <<addr, options, stage, wgPing, wgHost, index>>
scannerVars == <<pending, sending, aborted, left>>
resultVars == <<openPorts, scannerVars, retChan, consuming, opened, printed>>
scanVars == <<main, loopVars, resultVars>>

NoCount == -1
NoIP == "none"
AddressLists == {c.addr : c \in CommandLines}
IPs == UNION {{list[t] : t \in Targets} : list \in AddressLists}

ScanInit ==
    /\ Init
    /\ main = "plan"
    /\ addr = [t \in Targets |-> NoIP]
    /\ pn = FALSE /\ sT = FALSE /\ hostGroup = 0
    /\ stage = [t \in Targets |-> "new"]
    /\ wgPing = {} /\ wgHost = {}
    /\ index = [t \in Targets |-> 0]
    /\ openPorts = [a \in IPs |-> NoCount]
    /\ pending = {} /\ sending = {} /\ retChan = <<>> /\ consuming = <<>>
    /\ opened = {} /\ printed = {} /\ aborted = {} /\ left = {}

At(stages) == {t \in Targets : stage[t] \in stages}
Goto(t, s) == stage' = [stage EXCEPT ![t] = s]

-----------------------------------------------------------------------------
(* The plan.  Once it is made its text is not needed any more, and what    *)
(* the rest of the command line says begins to matter.                     *)

MakePlan ==
    /\ main = "plan"
    /\ MergeTop \/ TopMerged \/ SkipPort \/ TakePort \/ RangeDone \/ NoPorts \/ ShuffleRest
    /\ UNCHANGED scanVars

NoText == [ranges |-> <<>>, top |-> FALSE]

StartScan ==
    /\ main = "plan"
    /\ phase = "done" /\ ports \in Followed
    /\ main' = "submit"
    /\ phase' = "scan" /\ text' = NoText /\ item' = 1 /\ skip' = 0
    /\ \E c \in CommandLines :
        addr' = c.addr /\ pn' = c.pn /\ sT' = c.sT /\ hostGroup' = c.hostGroup
    /\ UNCHANGED <<port, ports, stage, wgPing, wgHost, index, resultVars>>

-----------------------------------------------------------------------------
(* The targets: poolPing and hostScan, whose Invoke waits for room.        *)

TargetUnchanged == UNCHANGED <<vars, main, addr, options, index, resultVars>>

SubmitPing(t) ==
    /\ main = "submit" /\ ~pn
    /\ stage[t] = "new"
    /\ Cardinality(wgPing) < PingPool
    /\ wgPing' = wgPing \cup {t}
    /\ Goto(t, "ping")
    /\ UNCHANGED wgHost
    /\ TargetUnchanged

\* Without ping run itself adds to wgHostScan and waits in Invoke.
SubmitHost(t) ==
    /\ main = "submit" /\ pn
    /\ stage[t] = "new" /\ At({"invoke"}) = {}
    /\ wgHost' = wgHost \cup {t}
    /\ Goto(t, "invoke")
    /\ UNCHANGED wgPing
    /\ TargetUnchanged

Dead(t) ==
    /\ stage[t] = "ping"
    /\ Goto(t, "dead")
    /\ UNCHANGED <<wgPing, wgHost>>
    /\ TargetUnchanged

\* Faulty variant: wgHostScan does not count a target that answered its ping.
LiveUncounted(t) ==
    /\ stage[t] = "ping"
    /\ Goto(t, "invoke")
    /\ UNCHANGED <<wgPing, wgHost>>
    /\ TargetUnchanged

Live(t) ==
    /\ stage[t] = "ping"
    /\ wgHost' = wgHost \cup {t}
    /\ Goto(t, "invoke")
    /\ UNCHANGED wgPing
    /\ TargetUnchanged

Invoke(t) ==
    /\ stage[t] = "invoke"
    /\ Cardinality(At({"start", "check", "submit", "finish"})) < hostGroup
    /\ Goto(t, "start")
    /\ UNCHANGED <<wgPing, wgHost>>
    /\ TargetUnchanged

PingDone(t) ==
    /\ t \in wgPing
    /\ stage[t] \notin {"ping", "invoke"}
    /\ wgPing' = wgPing \ {t}
    /\ UNCHANGED <<stage, wgHost>>
    /\ TargetUnchanged

-----------------------------------------------------------------------------
(* portScan.                                                               *)

ScanUnchanged ==
    UNCHANGED <<vars, main, addr, options, wgPing, sending, aborted, left, retChan, consuming,
                opened, printed>>

\* s.Close was called: Scan is refused and WaitLimiter fails.
IsDone == main \in {"closing", "closeChan", "single", "ended"}

SetCount(t, n) ==
    openPorts' = IF MaxOpenPort = 0 THEN openPorts ELSE [openPorts EXCEPT ![addr[t]] = n]

ResetCount(t) ==
    /\ stage[t] = "start"
    /\ SetCount(t, 0)
    /\ Goto(t, "check")
    /\ UNCHANGED <<wgHost, index, pending>>
    /\ ScanUnchanged

Limited(t) == MaxOpenPort > 0 /\ openPorts[addr[t]] >= MaxOpenPort

Stop(t) ==
    /\ stage[t] = "check"
    /\ index[t] = Len(ports) \/ Limited(t) \/ IsDone
    /\ Goto(t, "finish")
    /\ UNCHANGED <<wgHost, index, openPorts, pending>>
    /\ ScanUnchanged

\* Faulty variant: the count is read before the first port only.
CheckFirst(t) ==
    /\ stage[t] = "check"
    /\ index[t] < Len(ports)
    /\ index[t] > 0 \/ ~Limited(t)
    /\ Goto(t, "submit")
    /\ UNCHANGED <<wgHost, index, openPorts, pending>>
    /\ ScanUnchanged

\* The global limiter lets the next port through, and the count is below the limit.
Check(t) ==
    /\ stage[t] = "check"
    /\ index[t] < Len(ports) /\ ~Limited(t) /\ ~IsDone
    /\ Goto(t, "submit")
    /\ UNCHANGED <<wgHost, index, openPorts, pending>>
    /\ ScanUnchanged

PrintedOf(t) == {x \in printed : addr[x[1]] = addr[t]}

\* A dial waits for its place in inflight; the SYN scanner may fail to send.
HasPlace == sT => Cardinality(pending \cup sending) < MaxConcurrent
Accepted(t) == ~IsDone /\ HasPlace /\ pending' = pending \cup {<<t, ports[index[t] + 1]>>}
Refused == (IsDone \/ ~sT) /\ UNCHANGED pending

\* The error of Scan is not looked at.
Scan(t) ==
    /\ stage[t] = "submit"
    /\ Accepted(t) \/ Refused
    /\ index' = [index EXCEPT ![t] = @ + 1]
    /\ Goto(t, "check")
    /\ UNCHANGED <<wgHost, openPorts>>
    /\ ScanUnchanged

FinishHost(t) ==
    /\ stage[t] = "finish"
    /\ SetCount(t, NoCount)
    /\ wgHost' = wgHost \ {t}
    /\ Goto(t, "done")
    /\ UNCHANGED <<index, pending>>
    /\ ScanUnchanged

Target(t) ==
    \/ SubmitPing(t) \/ SubmitHost(t) \/ Dead(t) \/ Live(t) \/ Invoke(t) \/ PingDone(t)
    \/ ResetCount(t) \/ Stop(t) \/ Check(t) \/ Scan(t) \/ FinishHost(t)

-----------------------------------------------------------------------------
(* The scanner and the consumer of its results.                            *)

ResultUnchanged == UNCHANGED <<vars, main, loopVars>>

NotOpen(x) ==
    /\ x \in pending
    /\ pending' = pending \ {x}
    /\ UNCHANGED <<openPorts, sending, aborted, left, retChan, consuming, opened, printed>>
    /\ ResultUnchanged

\* An answer that comes after the scanner's context is cancelled is aborted at once.
Found(x) ==
    /\ x \in pending /\ ~IsDone
    /\ pending' = pending \ {x}
    /\ sending' = sending \cup {x}
    /\ UNCHANGED <<openPorts, aborted, left, retChan, consuming, opened, printed>>
    /\ ResultUnchanged

Deliver(x) ==
    /\ x \in sending
    /\ Len(retChan) < RetCap
    /\ sending' = sending \ {x}
    /\ retChan' = Append(retChan, x)
    /\ opened' = opened \cup {x}
    /\ UNCHANGED <<openPorts, pending, aborted, left, consuming, printed>>
    /\ ResultUnchanged

Abort(x) ==
    /\ x \in pending \cup sending /\ IsDone
    /\ pending' = pending \ {x}
    /\ sending' = sending \ {x}
    /\ aborted' = aborted \cup {x}
    /\ UNCHANGED <<openPorts, left, retChan, consuming, opened, printed>>
    /\ ResultUnchanged

Scanner(x) == NotOpen(x) \/ Found(x) \/ Deliver(x) \/ Abort(x)

\* Faulty variant: the results are received only when run waits for the end.
ReceiveLate ==
    /\ main = "single"
    /\ consuming = <<>> /\ retChan # <<>>
    /\ consuming' = Head(retChan)
    /\ retChan' = Tail(retChan)
    /\ UNCHANGED <<openPorts, scannerVars, opened, printed>>
    /\ ResultUnchanged

ReceiveResult ==
    /\ consuming = <<>> /\ retChan # <<>>
    /\ consuming' = Head(retChan)
    /\ retChan' = Tail(retChan)
    /\ UNCHANGED <<openPorts, scannerVars, opened, printed>>
    /\ ResultUnchanged

\* A result is counted while a loop for its address runs.
Counted(a) == IF openPorts[a] = NoCount THEN NoCount ELSE openPorts[a] + 1

consumeResult ==
    /\ consuming # <<>>
    /\ consuming' = <<>>
    /\ printed' = printed \cup {consuming}
    /\ LET a == addr[consuming[1]]
       IN  openPorts' = IF MaxOpenPort > 0 THEN [openPorts EXCEPT ![a] = Counted(a)] ELSE openPorts
    /\ UNCHANGED <<scannerVars, retChan, opened>>
    /\ ResultUnchanged

-----------------------------------------------------------------------------
(* run once all targets are submitted.                                     *)

MainUnchanged == UNCHANGED <<vars, loopVars, resultVars>>

MainGoto(s) == main' = s /\ MainUnchanged

\* The last Invoke has returned, too.
AllSubmitted ==
    /\ main = "submit"
    /\ At({"new"}) = {} /\ (pn => At({"invoke"}) = {})
    /\ MainGoto("ping")

\* Faulty variant: the pings are not waited for, only the scans they start.
PingNotWaited == main = "ping" /\ MainGoto("hosts")

WaitPing == main = "ping" /\ wgPing = {} /\ MainGoto("hosts")
WaitHosts == main = "hosts" /\ wgHost = {} /\ MainGoto("scanner")

\* Faulty variant: the scanner is not waited for.
ScannerNotWaited ==
    /\ main = "scanner" /\ main' = "close"
    /\ left' = pending
    /\ UNCHANGED <<vars, loopVars, openPorts, pending, sending, aborted, retChan, consuming,
                   opened, printed>>

\* s.Wait: no result is on its way (portProbeWg) and every dial of a TCP scan is over;
\* a port of a SYN scan may be past Wait's deadline or with the sweeper (syn.go:396-401).
WaitScanner ==
    /\ main = "scanner" /\ main' = "close"
    /\ sending = {} /\ (sT => pending = {})
    /\ left' = pending
    /\ UNCHANGED <<vars, loopVars, openPorts, pending, sending, aborted, retChan, consuming,
                   opened, printed>>

\* Faulty variant: retChan is closed before the scanner.
CloseRetChanFirst == main = "close" /\ MainGoto("single")

\* s.Close cancels what is under way ...
CloseScanner == main = "close" /\ MainGoto("closing")

\* ... and returns when the last goroutine that sends on retChan has ended.
ScannerClosed == main = "closing" /\ pending \cup sending = {} /\ MainGoto("closeChan")

CloseRetChan == main = "closeChan" /\ MainGoto("single")

\* The consumer's loop over retChan is over.
ReceiveSingle ==
    /\ main = "single"
    /\ retChan = <<>> /\ consuming = <<>>
    /\ MainGoto("ended")

MainSteps ==
    \/ AllSubmitted \/ WaitPing \/ WaitHosts
    \/ WaitScanner \/ CloseScanner \/ ScannerClosed \/ CloseRetChan \/ ReceiveSingle

\* A plan that is an error, never made or not followed.
Finished ==
    /\ main = "ended" \/ (main = "plan" /\ Ended /\ ports \notin Followed)
    /\ UNCHANGED <<vars, scanVars>>

ScanNext ==
    \/ MakePlan \/ StartScan
    \/ \E t \in Targets : Target(t)
    \/ \E x \in pending \cup sending : Scanner(x)
    \/ ReceiveResult \/ consumeResult
    \/ MainSteps \/ Finished

ScanSpec == ScanInit /\ [][ScanNext]_<<vars, scanVars>> /\ WF_<<vars, scanVars>>(ScanNext)

-----------------------------------------------------------------------------
\* What each piece of state may hold; only results on retChan are printed.
ScanTypeOK ==
    /\ main \in {"plan", "submit", "ping", "hosts", "scanner", "close", "closing", "closeChan",
                 "single", "ended"}
    /\ IF main = "plan" THEN TypeOK ELSE addr \in AddressLists /\ hostGroup > 0
    /\ pn \in BOOLEAN /\ sT \in BOOLEAN /\ hostGroup \in Nat
    /\ stage \in [Targets -> {"new", "ping", "dead", "invoke", "start", "check", "submit",
                              "finish", "done"}]
    /\ wgPing \subseteq Targets /\ wgHost \subseteq Targets
    /\ index \in [Targets -> 0 .. Len(ports)]
    /\ openPorts \in [IPs -> Nat \cup {NoCount}]
    /\ pending \cup sending \cup opened \cup aborted \subseteq Targets \X PortNums
    /\ left \subseteq Targets \X PortNums
    /\ printed \subseteq opened
    /\ Len(retChan) <= RetCap

Closed == main \in {"single", "ended"}

\* Nobody can send on retChan once it is closed, nor scan with a closed scanner:
\* by then every target's goroutines have ended, and Close has ended whatever
\* s.Wait left.  wgHostScan counts a target before its ping stops counting, the
\* scanner is waited for after the last loop, and retChan is closed after
\* s.Close (cmd/go-portScan.go:284-288, 307-311).
QuietWhenClosed ==
    Closed => At({"dead", "done"}) = Targets /\ wgPing = {} /\ pending \cup sending = {}

\* When the command ends, every result has been printed; what Close has given up
\* was not found open before s.Wait was over, and is none of a TCP scan; and every
\* target that answered the ping has had all ports of the plan submitted, unless
\* as many open ports of its address as maxOpenPort were printed (cmd:247-263,
\* 309-312).
EndsComplete ==
    main = "ended" =>
        /\ printed = opened
        /\ aborted \subseteq left /\ (sT => aborted = {})
        /\ \A t \in Targets :
            \/ stage[t] = "dead"
            \/ stage[t] = "done" /\ index[t] = Len(ports)
            \/ stage[t] = "done" /\ MaxOpenPort > 0 /\ Cardinality(PrintedOf(t)) >= MaxOpenPort

\* maxOpenPort stops a target soon (README.md:303): after that many of its results
\* are printed the loop never goes on, so that at most the one port it had decided
\* on before is still submitted.  The count of an address that is listed twice is
\* reset and deleted by the loop of the other entry, and nothing is promised.
OnlyEntry(t) == \A u \in Targets \ {t} : addr[u] # addr[t]
StopsSoon ==
    [][\A t \in Targets : OnlyEntry(t) /\ stage[t] = "check" /\ stage'[t] = "submit" =>
            MaxOpenPort = 0 \/ Cardinality(PrintedOf(t)) < MaxOpenPort]_scanVars

\* A scan that begins comes to its end: pools, channels and waits never block
\* each other for good.
ScanEnds == main = "submit" ~> main = "ended"
=============================================================================
