----------------------------- MODULE FrameDecode -----------------------------
(***************************************************************************)
(* What recv (core/port/syn/syn.go) keeps from one packet to the next: the *)
(* parser decodes into the same layers every time and leaves alone what a  *)
(* packet does not have, and the Ethernet header of the resets is built    *)
(* once.  A packet that passes the capture filter may still lack a decoded *)
(* TCP header: the first fragment of an IPv4 packet, or a broken header.   *)
(***************************************************************************)
EXTENDS FiniteSets

CONSTANTS
    Peers4, Peers6,  \* source addresses
    Ports,           \* pairs of ports, one of ours first
    OurPorts,        \* those whose own port is between 49000 and 59000
    NoPorts          \* no TCP header, or a cleaned one

Peers == Peers4 \cup Peers6

ASSUME PeersAssumption == Peers4 \cap Peers6 = {} /\ OurPorts \subseteq Ports /\ NoPorts \notin Ports

VARIABLES
    waiting,    \* the table: the address and ports of each pending probe
    tcpPorts,   \* the ports in tcpLayer
    tcpFlags,   \* its flags, "synack" or "rst"
    frameType,  \* eth.EthernetType of the next reset
    judged,     \* what the last packet decided, and by which header
    sawIPv6,    \* history: an IPv6 packet came before
    unmatched   \* history: the last TCP header matched no probe

frameVars == <<waiting, tcpPorts, tcpFlags, frameType, judged, sawIPv6, unmatched>>

Nothing == [probe |-> NoPorts, own |-> TRUE, reset |-> NoPorts]

FrameInit ==
    /\ waiting \in SUBSET (Peers \X OurPorts)
    /\ tcpPorts = NoPorts /\ tcpFlags = "rst"
    /\ frameType = 4
    /\ judged = Nothing
    /\ sawIPv6 = FALSE /\ unmatched = FALSE

Family(peer) == IF peer \in Peers6 THEN 6 ELSE 4

\* The parser: a packet without a TCP header leaves tcpLayer as it is.
Decode(ports, flags) ==
    IF ports = NoPorts THEN [ports |-> tcpPorts, flags |-> tcpFlags]
                       ELSE [ports |-> ports, flags |-> flags]

\* Faulty variant: a matched answer stays in tcpLayer.
CleanedNever(tcp, has) == tcp.ports

\* An answer without a probe is left by a continue before the cleaning; ports
\* that are not ours are never cleaned.
Cleaned(tcp, has) == IF has THEN NoPorts ELSE tcp.ports

\* Faulty variant: the frame keeps the type it was built with.
FrameTypeFixed(peer) == frameType

FrameTypeAfter(peer) == IF Family(peer) = 6 THEN 6 ELSE frameType

\* One packet that is neither ARP nor NA; those are dealt with first and touch
\* none of this.  A SYN-ACK is answered by a reset.  The return of recv when the
\* scanner is closing is left out.
Receive(peer, ports, flags) ==
    LET tcp == Decode(ports, flags)
        has == <<peer, tcp.ports>> \in waiting
    IN  /\ frameType' = FrameTypeAfter(peer)
        /\ tcpPorts' = Cleaned(tcp, has)
        /\ tcpFlags' = tcp.flags
        /\ waiting' = waiting \ {<<peer, tcp.ports>>}
        /\ judged' = IF ~has THEN Nothing
                     ELSE [probe |-> tcp.ports, own |-> ports # NoPorts,
                           reset |-> IF tcp.flags = "synack" THEN peer ELSE NoPorts]
        /\ unmatched' = (tcp.ports \in OurPorts /\ ~has)
        /\ sawIPv6' = (sawIPv6 \/ Family(peer) = 6)

FrameNext ==
    \E peer \in Peers, ports \in Ports \cup {NoPorts}, flags \in {"synack", "rst"} :
        Receive(peer, ports, flags)

FrameSpec == FrameInit /\ [][FrameNext]_frameVars

-----------------------------------------------------------------------------
\* What each piece of state may hold; only ports of ours decide anything.
FrameTypeOK ==
    /\ waiting \subseteq Peers \X OurPorts
    /\ tcpPorts \in Ports \cup {NoPorts} /\ tcpFlags \in {"synack", "rst"}
    /\ frameType \in {4, 6}
    /\ judged \in [probe : OurPorts \cup {NoPorts}, own : BOOLEAN, reset : Peers \cup {NoPorts}]
    /\ sawIPv6 \in BOOLEAN /\ unmatched \in BOOLEAN

\* A probe is answered by the header of a packet that has none only if the
\* packet before was an answer to no probe, whose ports stay behind
\* (syn.go:979-982, 1018-1021; the cleaning is at 1033).
JudgedByOwnHeader == [][judged'.own \/ unmatched]_frameVars

\* The reset goes out in a frame of the family of its packet; after the first
\* IPv6 packet, a probe's or not, IPv4 resets no longer do (syn.go:965, 1012, 1015).
ResetInOwnFrame ==
    judged.reset # NoPorts =>
        frameType = Family(judged.reset) \/ (judged.reset \in Peers4 /\ sawIPv6)
=============================================================================
