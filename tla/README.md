# go-portScan: a TLA+ model of the scanners

This directory models go-portScan: how a probe travels from the caller of `Scan`
or `ProbeContext` to the one terminal event that `port.IpOption.OnProbeDone`
promises, how `Wait` and `Close` agree with the goroutines that carry it, what a
call passes on its way (host limiter, neighbour cache, send rate), and how the
command plans, scans, prints and ends. TLC checks the models on small instances; TLAPS proves
the theorems of the `*_proofs` modules for every instance.

## 1. Inventory

| part | source | state | operations | talks to |
|---|---|---|---|---|
| pending-probe table | `core/port/syn/watchIpStatus.go` | map of entries by (ip, source port, destination port), port cursor, `isDone` | reserve, take, drop, set retry, touch, re-arm, sweep, close | every goroutine of the SYN scanner, under one lock |
| SYN scanner | `core/port/syn/syn.go` | `isDone`, context, `openPortChan`, `retryChan`, five WaitGroups, pcap handle | `Scan`, `ProbeContext`, `recv`, `retryLoop`, `portProbeHandle`, `handleProbeTimeout`, `Wait`, `Close` | table, limiters, worker pool, `retChan` |
| TCP scanner | `core/port/tcp/tcp.go` | `isDone`, context, `inflight` semaphore, WaitGroup | `Scan`, `ProbeContext`, dial goroutines, `Wait`, `Close` | limiters, worker pool, `retChan` |
| frame decoding | `recv` in `core/port/syn/syn.go` | decoded layers, header of the resets | decode a packet, answer it | table |
| worker pool | `core/port/worker_pool.go` | bounded job queue, job and worker WaitGroups | `TrySubmit`, workers, `Wait`, `Close` | both scanners |
| probe contract | `core/port/port.go` | none | `EmitProbeDone`, `EmitOpenProbeResult` | the caller's callback, `retChan` |
| host limiter | `core/port/host_limiter.go` | one token limiter per host, last use, active waiters | `Wait`, expiry, sweep | both scanners |
| port plan | `core/port/port.go` | none | `ParsePortRangeStr`, `ShuffleParseAndMergeTopPorts` | command line |
| rate adaptation | `core/port/syn/adaptive.go` | current rate, window counters | sampling, evaluation | SYN scanner |
| MAC cache | `core/port/syn/watchMacCache.go`, `getHwAddrV4/V6` | addresses by ip | watch, set, get, sweep | `recv` and callers |
| fingerprints | `core/port/fingerprint/` | rule tables | identify a service, fetch a page | jobs of the worker pool |
| command line | `cmd/go-portScan.go` | open ports per host | scan loop, result consumer | scanner, `retChan` |
| liveness, devices, util | `core/host/`, `core/port/syn/device.go`, `util/` | none | ping, route lookup, files, HTTP client | command line |

What is hard: an entry of the table is wanted by five goroutines at once (the
caller whose send failed, `recv`, the sweeper, `retryLoop`, `Close`) and found
by a key that may be reused; results pass through two bounded channels while
contexts are cancelled asynchronously; `Wait` reads several of these pieces one
after the other; `Close` has to stop everything in an order in which no one
still sends on what it closes. `PROJECT.json` lists the hazards line by line.

## 2. Modules

| module | models | uses |
|---|---|---|
| `ProbeContract` | what a scanner promises about a probe, for any scanner | |
| `ProbeTable` | the pending-probe table | |
| `SynScanner` | the SYN scanner's goroutines, its properties, and the refinement mapping to `ProbeContract` | EXTENDS `ProbeTable`, INSTANCE `ProbeContract` |
| `TcpScanner` | the TCP scanner, its properties and its refinement mapping | INSTANCE `ProbeContract` |
| `HostLimiter` | the per-host limiters both scanners wait for | |
| `MacCache` | neighbour resolution: the MAC table, its sweep, the calls that wait for an address and `recv` | |
| `AdaptiveRate` | the send rate and the overlapping evaluations that change it | |
| `FrameDecode` | what `recv` keeps from one packet to the next | |
| `PortPlan` | the list of ports to scan and its order | |
| `ScanLoop` | the command: plan, pools, result consumer, shutdown | EXTENDS `PortPlan` |
| `MCSynScanner`, `MCTcpScanner`, `MCHostLimiter`, `MCScanLoop` | constants, views and symmetry for TLC | EXTENDS the module named |
| `MCScanPath` | one run for four modules without common state | EXTENDS `HostLimiter`, `MacCache`, `AdaptiveRate`, `FrameDecode` |
| `SynScanner_proofs`, `TcpScanner_proofs`, `HostLimiter_proofs`, `AdaptiveRate_proofs`, `PortPlan_proofs` | theorems | EXTENDS the module named |
| `SynCustody_proofs` | custody of a probe, queued retries, the refinement of `ProbeContract` | EXTENDS `SynScanner_proofs` |
| `RecvPath_proofs` | theorems about what `recv` feeds | EXTENDS `MacCache`, `FrameDecode` |
| `ScanLoop_proofs` | theorems about the command | EXTENDS `ScanLoop`, `PortPlan_proofs` |

A definition commented as a faulty variant is not part of any specification: it is
the bug that the property named with it in `PROJECT.json` must catch.

## 3. The SYN scanner

`ProbeTable` is the table: one operator per method, each atomic because the
method holds the lock. `SynScanner` EXTENDS it and adds the goroutines. A probe
is one call of `Scan` or `ProbeContext`; `Linked` is the set of the latter, whose
contexts can be cancelled alone and outlive the scanner's for a moment. The limiters,
neighbour resolution, the evaluation of the rate and packet decoding are modules of
their own (section 5) and at most one step here.

| in the model | in the code |
|---|---|
| `probes`, `nextSrcPort`, `tableDone` | the table's map, cursor and `isDone` |
| `sentAt`, `retried`, `retry`, `srcPort` | fields of the `pendingProbe` |
| `cancelled` | `probe.context().Err() != nil` |
| `scan`, `held` | where a call of `scanContext` is; the entry it dropped |
| `recvPc`, `recvKey`, `recvProbe` | the goroutine `recv` |
| `swPc`, `expired`, `swProbe`, `swOutcome` | `cleanTimeout` and `finishExpiredProbe` |
| `retryChan`, `rtPc`, `rtProbe`, `rtAbort` | `retryLoop` and its queue |
| `place`, `emitPc` | where an open probe is: `openPortChan`, the handler, the pool's queue, a worker |
| `portProbeWg`, `retLen`, `delivered` | the WaitGroup, `len(retChan)`, results sent on it |
| `closeStep`, `drained` | how far `Close` is; the entries its table has still to abort |
| `waitPc`, `due`, `dueOpen` | `Wait`; what it saw when it found the table empty (history) |
| `events` | the outcomes `OnProbeDone` was called with |

Time is abstracted to an age: `Elapse(p)` makes a fresh entry stale, after which
a sweep may remove it. `retryChan` is a set, because only its size and members
matter; the order of retries is left open. A packet may carry any key a SYN was
sent for, at any time and any number of times, so answers can be lost,
duplicated or late. `Unread` results of earlier probes may already fill
`retChan`. Limiters, MAC resolution and context tests before the reservation
change nothing shared, so one action `Scan` covers them. Packet contents are left
out; the reset after an open answer and what `recv` keeps between packets are in
`FrameDecode`.

### Runs

| run | instance | shows |
|---|---|---|
| `syn_scan` | 2 `Scan` probes, one target, 1 source port, both sampled, room for 2 in the retry queue | types, one event at most, exactly one holder, re-armed once, implements `ProbeContract` |
| `syn_probe` | a `ProbeContext` probe and a fingerprinted `Scan` probe, 2 ports, no sampling, `Wait` and `Close` | WaitGroup counts, channel closing order, `Wait` covers open ports |
| `syn_live` | 1 sampled `ProbeContext` probe with fingerprint, `retChan` full | every accepted probe reported, `Close` returns, a queued retry does not time out, implements `ProbeContract` when the caller cancels |
| `syn_retry_full` | 2 sampled probes, retry queue of 1 | violation: two events for a probe |
| `syn_wait_early` | 1 probe whose SYN is out before the program waits, no answer | violation: `Wait` returns before the event |
| `syn_stale_retry` | 2 sampled `ProbeContext` probes, one target, 1 source port | violation: a probe is reported aborted though nobody cancelled it |

Two probes of one target and one source port are the smallest instance in which
a key is reused while an old user of it is still under way, a queue of size one
is full and empty, and two goroutines race for each of two entries. The
scanner's invariants relate at most two probes. `syn_scan` gives the retry queue
room for every probe; `syn_retry_full` takes it away. `QueuedRetryNotTimedOut` is
checked with one probe: with a reused key, the late `TouchProbe` of an answered
retry may refresh, and so expire, the entry of another probe waiting in
`retryChan`. `QueuedRetriesWait` proves it for any number of probes while no key is
used twice. Probes in
`SYMMETRY` runs are interchangeable; those runs check safety only. The safety
runs use the `VIEW` `LiveState`, which forgets local variables that their
goroutine will overwrite before it reads them, so that states differing only in
such leftovers count as one; `syn_live` uses no view.

### Fairness

`Fairness` assumes that each goroutine of the scanner keeps running when it can,
that the clock advances and that `context.AfterFunc` runs. Nothing makes the
program call, cancel, wait, close or read results, and no target has to answer.
`recv` blocks in the packet read, so it is only fair to stop once the handle is
closed. `EventuallyReported` states its one further premise itself: the program
keeps reading results. `CloseTerminates` needs none.

### Findings

* `handleProbeTimeout` re-arms a probe and only then finds `retryChan` full. It
  drops the entry again but ignores whether it was still there. If `recv`, a
  failed send, a resend or `Close` took it in between, both report it
  (`syn_retry_full`; `port.go:255` says once). `ReportedOnce` proves that this is
  the only way: with room for every probe nothing is reported twice.
* `finishRetryError` drops whatever entry has the key of the retry that failed. A
  `ProbeContext` probe cancelled while its retry is queued is swept; when the port
  cursor has come round, its key belongs to a new probe, and the late retry reports
  that one as aborted, perhaps before its SYN is sent (`syn_stale_retry`). In the
  code the cursor has 10,000 ports to pass first, so this is rare. Without
  `ProbeContext` calls, or without retries, it cannot happen
  (`SynCustody_proofs!ScannerKeepsContract`).
* The sweeper removes expired entries and reports them afterwards. `Wait` polls
  the emptiness of the table and can return while the sweeper still holds a probe
  (`syn_wait_early`: the SYN was sent, its call has returned, nobody answers;
  `syn_test.go:455` expects the no-response event of such a probe before `Close`).

## 4. The TCP scanner

A call of `Scan` or `ProbeContext` is one element of `Probes`, followed through
the caller's part and then the goroutine's.

| in the model | in the code |
|---|---|
| `stage` | where the call is (`queue`: the send on `inflight`; `limit`: the limiters; `start`: before `wg.Add`), then where its goroutine or job is (`direct`: the goroutine itself emits; `jobs`, `worker`: the pool) |
| `inflight`, `running` | `len(inflight)`; the goroutines `ts.wg` counts |
| `emitPc`, `retLen`, `delivered` | `EmitOpenProbeResult`, `len(retChan)`, results sent on it |
| `cancelled` | probes whose context has an error; `Scan` calls share the scanner's |
| `closeStep`, `waitPc`, `due` | progress of `Close` and `Wait`; what `Wait` has to cover (history) |

Dials and fingerprints take any time and have any outcome. The limiters are one
step that passes or, for a cancelled call or one with a deadline, fails. The
goroutine's `wg.Done` and its place of `inflight` go in one step, `Leave`, at any
time after the probe is reported or handed over. A worker's budget never
cancels the result, so it is left out.

| run | instance | shows |
|---|---|---|
| `tcp_scan` | a `ProbeContext` and 2 fingerprinted `Scan` calls, 2 places, 1 worker, queue and `retChan` of 1 | types, places of `inflight`, `Wait`, closing order, implements `ProbeContract` |
| `tcp_live` | a `ProbeContext` and a fingerprinted `Scan` call, 1 place, `retChan` full | every accepted probe reported, `Close` returns |
| `tcp_late_submit` | 1 fingerprinted `ProbeContext` call | violation: it submits to the closed pool |

Three calls for two places make one wait; two fingerprinted calls fill the worker
and the queue, and the one left over saturates the pool; one free slot of
`retChan` makes senders wait. In `tcp_scan` the fingerprinted calls are calls of
`Scan`: `tcp_late_submit` shows what a fingerprinted `ProbeContext` call can do.
Fairness is as for the SYN scanner: goroutines that can run do, limiters hand out
tokens, dials end by their timeout. `PropagateCancel` is fair since the runtime
starts the function of `context.AfterFunc`.

Finding: `wg.Add` runs in the caller, after its last context check. `Close` can
pass its `wg.Wait` in between and close the pool. The context of a `ProbeContext`
call is cancelled by `context.AfterFunc` in a goroutine of its own, so the late
dial can still succeed and `TrySubmit` then sends on a closed channel
(`tcp_late_submit`; `worker_pool.go:55` promises the order). For calls of `Scan`,
whose context `Close` cancels itself, `tcp_scan` shows it cannot happen.

## 5. Around the probe table

Four parts work beside the table and share no variable with it or with each
other. `MCScanPath` checks them in one run: a behaviour chooses one `part` at the
start and follows its module alone, so the run is the union of four instances
and no interleaving between them is claimed. Calls of the host limiter and calls
that resolve an address are the same set, hence the common symmetry.

| run | instance | shows |
|---|---|---|
| `scan_path`, host | 3 calls, 2 hosts, gap 1, time to live 2, 3 ticks | one limiter per host for all who wait, exact waiter count, spacing |
| `scan_path`, mac | 3 calls, 2 addresses, one of them IPv6 | answers reach the calls that wait, one request at a time |
| `scan_path`, rate | 2 evaluators, rates 10 to 21, 3 healthy windows, 1 retry per window, 1 dropped packet | bounds, no lost write error, drops counted once, stepwise recovery, the limiter follows |
| `scan_path`, frame | 2 IPv4 peers and an IPv6 peer, 3 port pairs, one not ours | leftovers decide only after an unmatched answer, resets leave in their own frame |
| `host_queue` | 4 calls, 1 host, gap 1, time to live 1, 2 ticks | violation: two tokens in the same tick |

### Host limiter

A call of `HostLimiterStore.Wait` reads the clock, takes or creates the entry of
its host under the store's lock, reads the clock for the deferred release, waits
at the entry's limiter and releases the entry. These are the steps `Call`,
`AcquireFresh` or `Create`, `Reserve` or `Refuse`, `Grant` or `Cancel`, and
`Release`; `readAt` is the last reading of the clock. `Create` includes the sweep.
The branch of `acquireOrCreate` for a lost `LoadOrStore` cannot run under the
lock and is left out. The limiter of `golang.org/x/time/rate` is external: with
burst 1 it hands out slots (`slot`) at least `Gap` apart, kept in `next`, and a
cancelled wait returns its slot if no later one was handed out.

Three calls let one hold an entry while another finds it expired and a third
sweeps; three ticks are more than the time to live, so entries do expire. The
clock may run while calls are between two steps, so readings of the clock are
used late and out of order. `Spaced` is about the slots of the limiter and so
presumes (`prompt`) that nothing that was due has waited for a tick: a goroutine
that sleeps past its slot can send close to the next one under any limiter.
With three calls a queue is no longer than the time to live, and `TokensSpaced`
proves that nothing else is needed.

Finding: `defer entry.release(s.now())` evaluates the clock before the wait. A
call that waits longer than the time to live leaves the entry with an old
`lastSeen`; it expires at once and the next call gets a new limiter, whose first
token comes at the same moment as the last one of the old (`host_queue`;
`README.md:294` promises a fixed limit). In the code this takes a queue of more
than a minute on one host. `SharedLimiter` holds all the same, and is proved:
those who wait at the same time never wait at different limiters.

### Neighbour cache

| in the model | in the code |
|---|---|
| `watched`, `known`, `old` | addresses with an entry, with a MAC, not refreshed for ten seconds |
| `callPc`, `dst` | a call in `getHwAddrV4` or `getHwAddrV6`: `check` is `IsNeedWatch`, `mark` is `UpdateLastTime`, `ask` the first ARP request, `poll` the loop |
| `recvSet` | `recv` between `IsNeedWatch` and `SetMac` |
| `swPc`, `needDel` | `cleanTimeout` |

Each method of the table is atomic, the steps between them are not. A call waits
for less than ten seconds (`macResolveTimeout`, 800 ms by default), which `Age`
takes for granted; with a longer `--timeout` a sweep could take the entry of a
call that still waits. `AnsweredIsKnown` follows one answer through all of this:
once `recv` is done with it, the call that waits will find the MAC. There is one
exception: a sweep that has already chosen an old entry deletes it although the
call has refreshed it, `recv` then drops the answer as unwanted, and the call runs
into its timeout. The history variable `doomed` names the calls this can happen
to; `raced` names those for which `OneResolver` allows a second request. Three
calls are the least for two to race while a third finds the address marked.

### Send rate

Every call of `WaitLimiter` may find the window over. It claims the window under
the lock, reads the capture statistics without it, evaluates under it again and
sets the limiter without it: `beginEvaluation`, `ReadStats`, `evaluateClaimed`,
`applyAdaptiveRate`. Windows may end while an evaluation is under way, so two can
overlap. `DropsCountedOnce` and `LimitFollowsRate` hold as long as none did
(`overlapped`); after an overlap an older drop count may be put back and the
limiter may keep the older rate. `NoRaiseAfterError`, `RecoversInSteps` and the
bounds of the rate hold in any case. The rates 10 to 21 make both the floor of a
cut and the ceiling of a raise bite (21, 14, 10, 20, 21); the window's retries are
bounded by `MaxRetries`, the capture's drops by `MaxDrops`, and `healthyWindows`
stops at the threshold it is compared with.

### Frame decoding

gopacket decodes into the same structures for every packet. A first fragment
passes the capture filter but its TCP header is not decoded, so the ports of an
earlier packet stay in `tcpLayer`; `recv` clears them only after an answer that
matched a probe. `JudgedByOwnHeader` says that this is the only way in which a
packet without a header decides about a probe. `ResetInOwnFrame` says the same of
the Ethernet type: the first IPv6 packet sets it in the header of the resets and
nothing sets it back, so IPv4 resets after it go out in IPv6 frames.

## 6. The command

`PortPlan` follows `ShuffleParseAndMergeTopPorts` after parsing: one step per common
port (`MergeTop`, then `TopMerged`), one per iteration of the range loop (`SkipPort`,
`TakePort`, `RangeDone`) and the block shuffle with any permutations. `item` is the
index of the loop that runs. A port wraps after `LastPort`, 65535 in the code.
`ScanLoop` takes the finished plan and runs the command with it:

| in the model | in the code |
|---|---|
| `main` | where `run` is: submitting, waiting for pings, hosts and the scanner, in `s.Close` (`close`, `closing`), before `close(retChan)` (`closeChan`), waiting for the consumer (`single`), ended |
| `pn`, `sT`, `hostGroup` | the options of the command line |
| `stage` | where a target is: `ping` (a worker of `poolPing`), `invoke` (counted, waiting for a place in `hostScan`), then the steps of `portScan` |
| `wgPing`, `wgHost` | the targets the two WaitGroups count |
| `openPorts` | `ipPortNumMap`, `NoCount` for a missing key |
| `pending`, `sending` | ports the scanner has accepted that may still turn out open; ports found open whose result is in `EmitOpenProbeResult` or on the way there |
| `retChan`, `consuming` | results on the channel; the result in `consumeResult` |
| `aborted`, `left` | ports `Close` has given up; history of the ports `s.Wait` left |

The scanner is abstract, as `ProbeContract` has it: an accepted port is later not open
(`NotOpen`) or found open (`Found`), and then its result goes to `retChan` when there is
room (`Deliver`). A TCP scan waits in `Scan` for one of `MaxConcurrent` places
(`inflight`), a SYN scan may fail to send; the error is ignored. Once `s.Close` has
cancelled the scanner's context, `Scan` is refused, `WaitLimiter` fails, and pending ports
and results that cannot be sent are given up (`Abort`).

What `WaitScanner` may rely on differs. The TCP scanner's `Wait` covers every accepted
port (`WaitCoversAccepted`). The SYN scanner's covers the open answers in flight only
(`WgCountsOpenPorts`, `WaitCoversOpenPorts`): it may return at its deadline, or while the sweeper
holds a probe it will re-arm (`syn.go:396-401`), so accepted ports may still turn out
open after it, and be printed or be lost to `Close`. It is `Close` that makes
`retChan` quiet: `ScannerClosed` returns when nothing is pending or being sent, as
`ChannelsOutliveSenders` says of the SYN scanner (after `Close` nothing is in its
pipeline) and as `CloseWg` and `ClosePool` have it for the TCP scanner. `CloseRetChan` is a step of its own after
it, and `QuietWhenClosed` fails if `run` closes `retChan` first. What `Close` may lose
is bounded by `EndsComplete`: only ports that `s.Wait` left, so none of a TCP scan.

| run | instance | shows |
|---|---|---|
| `command` | ports 0 to 7, all texts of up to 2 ranges with and without `top1000`, blocks of 2; then the plan of 2 common ports on 2 targets, in 5 command lines: addresses apart or alike, with and without ping, TCP or SYN, 1 or 2 scan workers; 1 ping worker, 1 place for a dial, limit 1, `retChan` of 1 | the plan, when its loop ends, quiet channel at close, complete results, the limit, and that every scan ends |

Eight ports give ranges that are empty, reversed, overlapping, and that touch 0
and the last port, and up to six shuffled ports in blocks of two, complete and
incomplete. `Followed` bounds the plans that are scanned. With one scan worker (`hostGroup`
1) the ping worker of the second target waits in `Invoke` while the loop of the first
waits for a place in the TCP scanner, whose dial waits for room on `retChan`, which one
result fills, and `run` waits for all of them: the waits whose cycle `ScanEnds` excludes. Two
scan workers on one address let both loops use one count. The only fairness is that
the program as a whole does not stop while a step is possible.

Flaw in the plan: the loop breaks at 65535 only if that port is new
(`port.go:435`), so a text with two ranges ending there, such as `1-65535,65535`,
never ends. `EndsUnlessLastTwice` states both directions; that such a text never ends is proved
for any last port (`LastTwiceNeverEnds`).

Limit of `maxOpenPort` (`README.md:303`): `StopsSoon` leaves out an address that is
listed twice. There the loop that starts later sets the shared count back to 0 and
the one that ends first deletes it, after which the other never stops early.

## 7. Proofs

All theorems hold for every value of the constants that satisfies the modules'
named assumptions: finite sets of calls, positive capacities, and constants such
as `NoProbe` that are not what they are distinguished from.

| module | theorems | property proved |
|---|---|---|
| `SynScanner_proofs` | `TypeCorrect` | `TypeOK` |
| `SynCustody_proofs` | `ReportedOnce`, `AlwaysOneHolder` | `AtMostOneEvent`, `OneHolder`, if `Room` |
| | `OpenPortsAreCounted`, `ClosesAfterSenders`, `WaitCoversOpen`, `RearmsOnce` | `WgCountsOpenPorts`, `ChannelsOutliveSenders`, `WaitCoversOpenPorts`, `RearmedOnce` |
| | `QueuedRetriesWait` | `QueuedRetryNotTimedOut`, while `KeysApart` |
| | `ScannerKeepsContract` | `ImplementsContract`, if `Room` and `NoStaleRetry` |
| `TcpScanner_proofs` | `TypeCorrect`, `PlacesAreAccounted`, `WaitIsComplete` | `TypeOK`, `PlacesAccounted`, `WaitCoversAccepted` |
| | `ScannerKeepsContract` | `ImplementsContract` |
| | `ScanNeverSubmitsLate` | `NoSubmitAfterClose`, if `FingerPrint \cap Linked = {}` |
| `HostLimiter_proofs` | `TypeCorrect`, `SharedLimiterHolds`, `ActiveCounts` | `TypeOK`, `SharedLimiter`, `ActiveCountsWaiters` |
| | `TokensSpaced` | `Spaced`, while `WaitsFit` |
| `AdaptiveRate_proofs` | `RateTypeCorrect`, `ErrorsHoldRaises`, `DropsAreCountedOnce`, `LimitIsCurrent`, `RateRecovers` | `RateTypeOK`, `NoRaiseAfterError`, `DropsCountedOnce`, `LimitFollowsRate`, `RecoversInSteps` |
| `RecvPath_proofs` | `MacTypeCorrect`, `AnswersAreFound`, `OneAsks` | `MacTypeOK`, `AnsweredIsKnown`, `OneResolver` |
| | `ResetsFitTheirFrame`, `DecidedByOwnHeader` | `ResetInOwnFrame`, `JudgedByOwnHeader` |
| `PortPlan_proofs` | `PlanIsComplete`, `LastTwiceNeverEnds` | `PlanComplete`; the safety half of `EndsUnlessLastTwice` |
| `ScanLoop_proofs` | `ScanTypes`, `NothingAfterClose`, `CompleteAtEnd`, `LimitStopsLoop`, `PlanOfScan` | `ScanTypeOK`, `QuietWhenClosed`, `EndsComplete`, `StopsSoon`, `PlanComplete` of the command |

A premise in the last column is an assumption of the theorem: `Room` says that the
retry queue holds every probe, `NoStaleRetry` that there are no calls of
`ProbeContext` or no retries, `KeysApart` that no source port of a target has been
reserved twice, `WaitsFit` that every wait at a host limiter and the gap after it
fit the time to live. `syn_retry_full`, `syn_stale_retry`, `tcp_late_submit` and
`host_queue` show that `Room`, `NoStaleRetry`, `FingerPrint \cap Linked = {}` and
`WaitsFit` are needed. The last two premises are about the behaviour and not about the
constants; in the program they fail only if an address and port is probed again after the
cursor has passed all 10,000 source ports, or if a host has a queue of a minute.

**SYN scanner, types.** `TypeOK` is not inductive: `recv` looks up the key it read,
`retryLoop` the key of the probe it received, and the type of the result depends
on these being real keys and probes. The invariant `TypeInv` adds what each
goroutine holds at each of its steps (`RecvInv`, `SweepInv`, `RetryInv`,
`CallInv`) and `Keyed`: the entry found under a key is a probe that reserved
exactly this key. Lemmas about the table's operations show that each keeps
`Keyed` and the set of accepted probes; a frame lemma carries the parts an action
leaves alone; one lemma per action does the rest, and `TypeStep` joins them.

**SYN scanner, custody.** The summands of `Holders` are seven sets of probes, the
hands: table, callers, `recv`, sweeper, `retryLoop`, pipeline, `Close`. `HandInv`
says that they are always disjoint (`Apart`) and, with `Room`, that together they
are the accepted probes without an event (`Covered`). Four lemmas say how custody
may change: a set passes from one hand to another (`Passes`), a probe leaves its
hand with its event (`Finishes`), a probe enters the table (`Enters`), or, without
`Room` only, something is lost (`Loses`); each action is one of these or changes no
hand (`Quiet`). `LocalInv` carries what the sweeper knows between its steps:
`RoomForOne` needs that the probe it requeues is not in `retryChan` yet, and
`RearmsOnce` that the probe it re-arms never was. `FlowInv` then follows the
WaitGroup: only because the hands are disjoint does each probe count once.

**SYN scanner, refinement.** `PromiseInv` adds where a delivered result can be
(`DeliveryInv`) and why somebody about to report an abort may do so
(`CancelReason`, `SweepReason`, `RetryReason`). `FirstEvent` turns each event into a
`Finish` of the contract; the other steps map to `Accept`, `Deliver`, `Close`,
`Revoke` or nothing. `NoStaleRetry` is needed in one place, `RetryReasonStep`: without
it the reason of one probe's failed retry is no reason for the probe it drops.

**SYN scanner, queued retries.** `Queued` are the probes between their re-arming and the
end of the limiter's wait: in the sweeper's hands, in `retryChan`, at the limiter.
`QueueInv` says that they carry no send time, and that a probe in the hands of
`retryLoop` is not queued a second time. `ZeroStays` shows that the clock and every
step but a touch leave it so, and a touch reaches the entry of its own probe only,
by `Keyed` and `KeysApart` (`QueueTouch`).

**TCP scanner.** `PlacesAccounted` counts a set and is inductive only together
with `TypeOK` (a place is only given back while one is taken) and `RunInv`: a
probe keeps its goroutine until it is reported or handed to the pool, so the
place moves from the call to the goroutine without overlap. `WaitIsComplete`
follows `Wait` through its two waits: once no goroutine is left, `RunInv` says
that every due probe is handed off; once the pool is empty too, every due probe
is done, and `EmitInv` says that done probes were reported. Two frame lemmas,
for a step of a call and a step of a probe, carry most actions. The refinement
needs that only done probes have an event and that past the select a result was
delivered or its context cancelled (`PInv`); `ScanNeverSubmitsLate` needs that `Close`
has cancelled every call of `Scan` before it stops waiting (`PoolInv`).

**Host limiter.** An entry is named by the call that created it. `EntryInv` says
that the entry of a host was created for this host by a call past the lock, so an
entry a call is about to create belongs to nobody; `HolderInv` is
`SharedLimiter` plus the type of `entryOf`; `CountInv` is `ActiveCountsWaiters`,
needed at once: an entry may only be dropped when `active` is 0, and only the
count says that then nobody holds it (`NobodyHolds`).

`TokensSpaced` follows tokens from one limiter of a host to the next. `NextInv` and
`ApartInv` keep the slots of one limiter a gap apart. `OnTime` says that a call on its
way to `Release` got its token early enough for the gap to pass before the entry,
with the clock reading the call writes back, can expire; `OutlivedInv` says the same of
tokens whose call has left. So when `Create` replaces an entry, every earlier token of
the host lies a gap back. `Refuse` and `Grant` are where `WaitsFit` enters: the clock
is read before the wait.

**Neighbour cache, rate, frames.** In `RecvPath_proofs`, `EntryKept` says that a sweep
leaves the entry of a waiting call alone unless it doomed the call, and
`OvertakenIsRaced` that a second call about to mark the same unknown address is one
that tested it too early; ports of ours stay in `tcpLayer` only after an answer that
matched no probe (`LeftBehind`). In `AdaptiveRate_proofs` two evaluations are never
under way before `overlapped` is set (`OneEvaluator`), so what the one has read or
decided is still current (`DropsInv`, `LimitInv`); `CalmInv` bounds `healthyWindows` by
the windows since the last write error. `RecoversInSteps` divides a count of windows;
`RunInv` says the same of the number of full runs so far (`FullRuns`) and of the windows
of the run under way, each of which a step of the evaluation changes by one.

**Port plan.** `PlanInv` says what `ports` holds in each phase, never anything twice:
of the common ports looked at, those the text picks; then also the ports of the ranges
whose loop is over and, of the range under way, those below the counter, unless that range
goes up to a last port that is in the plan already (`Endless`). For the shuffle, `GetInBlock`
shows that every index stays in its block and moves by the permutation of that block,
complete or last, and blocks do not overlap (`BlockUnique`), so a shuffled plan is a
permutation of the plan. `LastTwiceNeverEnds` follows because of the ranges whose loop is
over at most one ends at the last port (`FirstRangesDone`): a second one finds that port
in the plan, skips it, and the counter starts again at 0.

**Command.** `LoopInv` says what each place of `run` has behind it (`MainInv`): all
targets submitted, then no ping under way, then no scan, and after `Close` no port that
can turn out open. Nothing of this rests on what `s.Wait` leaves; `LeftInv` says that it only
gets less, as no loop accepts ports any more, and that only such ports are given up. `StageInv` ties a target's place to the two WaitGroups: a live target enters
`wgHost` before it leaves `wgPing`, so at no moment is it in neither. `CountInv` bounds an
address's count by the results printed for it and makes them equal while the only loop
of an address runs; `ResultInv` says that an open port is on the channel, with the
consumer or printed, and so printed once both are empty. This gives `CompleteAtEnd` and
`LimitStopsLoop`. `PlanPart` carries
`PlanInv` from `PortPlan_proofs` to the step that begins the scan, so `PlanOfScan` can say
that what is scanned is the complete plan and stays it (`ScansThePlan`).

Only model-checked: liveness (`EventuallyReported`, `CloseTerminates`, `ScanEnds` and that
a plan does end, the other half of `EndsUnlessLastTwice`), which needs fairness and
`ENABLED`. The findings are shown by counterexamples.

## 8. Not modelled

* `fingerprint/`: rule tables, regular expressions, TLS and HTTP exchanges on one
  connection; the scanners see a job that takes any time.
* `core/host/ping.go`, `device.go`, `util/` (files, log, HTTP): input and output
  without shared state. Of `util/`, only the block shuffle is modelled.
* `host_pacer.go`: no scanner uses it at this commit.
* In `syn.go`: packet layouts and checksums, BPF filters, opening the capture,
  choosing route and source address. In `port.go`: parsing of port texts. In
  `go-portScan.go`: flags, target lists and ranges, output formats, the network
  liveness mode. All are sequential and leave nothing behind but their result.
* The fallbacks built without pcap, which only return errors.

## 9. Plan

Done: all modules of section 2; every safety property a passing run checks is proved,
where section 7 says so under a premise, with both refinements; the liveness of both scanners and of the command is checked.

Left:

1. `ClosedMeansAborted` of `SynScanner` states the comment at `watchIpStatus.go:232`,
   which the code does not keep: the sweeper fixes the outcome before it reports it.
   No run shows it yet.
2. The command composed with `ProbeContract` in place of its own abstract scanner.
3. What bounds the command in the length of its lists of targets and ports, as a
   variant that decreases; the proof of liveness itself is out of the prover's reach.
