----------------------------- MODULE SSDPDevice -----------------------------
(***************************************************************************)
(* Discovery: LocalLib/SSDPDevice.cpp, which loop() calls through          *)
(* SSDP_Service().  The device joins the multicast group with the address  *)
(* it has, announces itself, refreshes what it announced, answers searches *)
(* after a random delay, and says goodbye when its address changes.  All   *)
(* that it sends waits in one queue of slots; a slot whose time is 0 is    *)
(* free, and time is millis(), which wraps.                                *)
(*                                                                         *)
(* update() and with it NOTIFY_UPDATE are left out: nothing calls it.      *)
(***************************************************************************)
EXTENDS Integers, FiniteSets

CONSTANTS
    Stations,       \* the addresses a station may be given
    AccessPoint,    \* the address of the soft-AP
    Peers,          \* control points: address and port
    SameSubnet,     \* the pairs of a control point and an address in one subnet
    ServiceEnabled, \* the product has FW_UPNP_SERVICE_TYPE
    QueueSize,      \* SSDP_QUEUE_SIZE
    Wrap,           \* the values of millis()
    First, Second, Third,   \* when the rounds of announcements are sent
    Refresh,        \* m_interval * 450
    MaxDelay,       \* MX, in the units of the clock
    JoinRetry,      \* before another attempt to join
    MaxLag,         \* the longest time between two calls by loop()
    MaxFailing      \* no send fails beyond this, with what earlier ones have left behind

NoAddress == "0.0.0.0"
Multicast == "SSDP_MULTICAST_ADDR"
Addresses == Stations \cup {AccessPoint}
Times == 0 .. Wrap - 1

\* There is room for what a join posts, no wait is longer than half a turn of millis(), and a
\* network does not give the station the address the device has as access point.
ASSUME DiscoveryConstants ==
    /\ NoAddress \notin Addresses /\ AccessPoint \notin Stations /\ Multicast \notin Peers
    /\ ServiceEnabled \in BOOLEAN
    /\ QueueSize \in Nat /\ QueueSize >= (IF ServiceEnabled THEN 12 ELSE 9)
    /\ {Wrap, First, Second, Third, Refresh, MaxDelay, JoinRetry, MaxLag} \subseteq Nat \ {0}
    /\ MaxFailing \in Nat
    /\ First # Second /\ Third <= Refresh /\ 2 * (Refresh + MaxLag) < Wrap /\ MaxDelay <= Refresh

VARIABLES
    network,        \* [station, accessPoint]: the addresses WiFi has
    ssdp,           \* [last, station, accessPoint, retryAt]: the m_ variables of those names
    queue,          \* m_queue
    clock,          \* millis()
    advertised,     \* the addresses announced to others and not withdrawn
    silent,         \* history: those given up with a goodbye that could not be sent
    lost            \* what is no longer refreshed: a send that failed, or a time that was 0

discoveryVars == <<network, ssdp, queue, clock, advertised, silent, lost>>

-----------------------------------------------------------------------------
(* The queue.                                                              *)

Udns == {"ROOT_FOR_ALL", "ROOT_BY_UUID", "ROOT_BY_TYPE"}
          \cup (IF ServiceEnabled THEN {"SERVICE_BY_TYPE"} ELSE {})

\* m_queue is the set of what its used slots hold: which slot holds it makes no difference.
Entry(type, udn, to, interface, time) ==
    [type |-> type, udn |-> udn, to |-> to, interface |-> interface, time |-> time]

In(time, delay) == (time + delay) % Wrap
\* static_cast<int32_t>(now - time) >= 0
Due(now, time) == 2 * ((now - time) % Wrap) < Wrap
Later(a, b) == a # b /\ Due(a, b)

\* A slot whose time is 0 is free.
Placed(q, e) == IF e.time = 0 THEN q ELSE q \cup {e}
Twins(q, e) == {f \in q : e.type # "ALIVE_INIT" /\ [f EXCEPT !.time = e.time] = e}
Responses(q) == {f \in q : f.type = "RESPONSE"}
IsFull(q) == Cardinality(q) >= QueueSize
AnyOf(S) == CHOOSE f \in S : TRUE

\* Mutation: a response may take the slot of an announcement, instead of the other way round.
PostOverAnnouncement(q, e) ==
    LET alive == {f \in q : f.type = "ALIVE"} IN
    IF Twins(q, e) # {}
      THEN LET f == AnyOf(Twins(q, e)) IN
           IF Later(f.time, e.time) THEN Placed(q \ {f}, e) ELSE q
    ELSE IF ~IsFull(q) THEN Placed(q, e)
    ELSE IF e.type = "RESPONSE" /\ alive # {} THEN Placed(q \ {AnyOf(alive)}, e)
    ELSE q

\* post(): one that waits already keeps the earlier time, else a free slot; an announcement
\* may take the slot of a response, and what finds no slot is dropped.  (Which response is
\* left open: announcements are only ever posted into an empty queue.)
Post(q, e) ==
    IF Twins(q, e) # {}
      THEN LET f == AnyOf(Twins(q, e)) IN
           IF Later(f.time, e.time) THEN Placed(q \ {f}, e) ELSE q
    ELSE IF ~IsFull(q) THEN Placed(q, e)
    ELSE IF e.type # "RESPONSE" /\ Responses(q) # {} THEN Placed(q \ {AnyOf(Responses(q))}, e)
    ELSE q

\* One of each that has a time, in the order of the enumeration.
PostAll(q, type, to, interface, at) ==
    LET PostOne(r, u) ==
            IF u \in DOMAIN at THEN Post(r, Entry(type, u, to, interface, at[u])) ELSE r
    IN  PostOne(PostOne(PostOne(PostOne(q, "ROOT_FOR_ALL"), "ROOT_BY_UUID"), "ROOT_BY_TYPE"),
                "SERVICE_BY_TYPE")

\* postNotifyALive(); the 20 ms between two of a round are no time here.
Announce(q, interface, now) ==
    LET At(delay) == [u \in Udns |-> In(now, delay)]
        q1 == PostAll(q, "ALIVE_INIT", Multicast, interface, At(First))
        q2 == PostAll(q1, "ALIVE_INIT", Multicast, interface, At(Second))
    IN  PostAll(q2, "ALIVE", Multicast, interface, At(Third))

-----------------------------------------------------------------------------
(* The parts of handleClient().                                            *)

\* The address to be found at: the station's if it has one.
Preferred == IF network.station # NoAddress THEN network.station ELSE network.accessPoint
Station == IF Preferred = network.station THEN network.station ELSE NoAddress
SoftAP == IF Preferred = network.station THEN NoAddress ELSE network.accessPoint

TopologyChanged ==
    \/ ssdp.last # NoAddress /\ ssdp.last # Preferred
    \/ ssdp.station # NoAddress /\ ssdp.station # Station
    \/ ssdp.accessPoint # NoAddress /\ ssdp.accessPoint # SoftAP

NotJoined(retryAt) ==
    [last |-> NoAddress, station |-> NoAddress, accessPoint |-> NoAddress, retryAt |-> retryAt]

Left == IF TopologyChanged THEN NotJoined(0) ELSE ssdp

\* sendAllByebye(): goodbye to everything that was announced with the old addresses.
Abandoned == IF TopologyChanged THEN {ssdp.station, ssdp.accessPoint} \ {NoAddress} ELSE {}

\* A goodbye that cannot be sent is not tried again: `unsaid' are the addresses one was for.
\* (That a goodbye which is sent arrives, nobody knows.)
Withdrawn(unsaid) == advertised \ (Abandoned \ unsaid)

\* Mutation: what waits is not thrown away.
KeptQueueStale == queue

\* clearQueue()
KeptQueue == IF TopologyChanged THEN {} ELSE queue

MayJoin(now) ==
    /\ Preferred # NoAddress
    /\ Left.last = NoAddress
    /\ Left.retryAt = 0 \/ Due(now, Left.retryAt)

\* beginMulticast() and the memory it needs may fail.
Attempts(now) == IF MayJoin(now) THEN BOOLEAN ELSE {FALSE}
Joined(now, ok) ==
    IF ok THEN [last |-> Preferred, station |-> Station, accessPoint |-> SoftAP, retryAt |-> 0]
    ELSE IF MayJoin(now) THEN [Left EXCEPT !.retryAt = In(now, JoinRetry)]
    ELSE Left

JoinedQueue(now, ok) ==
    IF ok THEN Announce(KeptQueue, Preferred, now) ELSE KeptQueue

\* interfaceForRemote()
InterfaceFor(d, peer) ==
    IF d.accessPoint # NoAddress /\ <<peer, d.accessPoint>> \in SameSubnet THEN d.accessPoint
    ELSE IF d.station # NoAddress /\ <<peer, d.station>> \in SameSubnet THEN d.station
    ELSE d.last

\* What a search asks for and how long each answer shall wait: for all that the device is,
\* for one of them, or, like any datagram that is not a complete search, for nothing.
Delays == [{} -> {0}] \cup [Udns -> 0 .. MaxDelay - 1]
            \cup UNION {[{u} -> 0 .. MaxDelay - 1] : u \in Udns}

\* postResponse()
Answered(q, d, peer, delay, now) ==
    IF d.last = NoAddress THEN q
    ELSE PostAll(q, "RESPONSE", peer, InterfaceFor(d, peer),
                 [u \in DOMAIN delay |-> In(now, delay[u])])

\* What is sent now, if anything is.
DueNow(q, d, now) == IF d.last = NoAddress THEN {} ELSE {e \in q : Due(now, e.time)}

\* send(): an announcement is put in again, unless it could not be sent.
Renewed(due, failing, now) ==
    {[e EXCEPT !.time = In(now, Refresh)] : e \in {f \in due \ failing : f.type = "ALIVE"}}
Sent(q, due, failing, now) ==
    (q \ due) \cup (IF In(now, Refresh) = 0 THEN {} ELSE Renewed(due, failing, now))

\* The announcements that end here.
Ending(due, failing, now) ==
    {e.udn : e \in {f \in due : f.type = "ALIVE" /\ (f \in failing \/ In(now, Refresh) = 0)}}

-----------------------------------------------------------------------------
(* Steps.                                                                  *)

DiscoveryInit ==
    /\ network = [station |-> NoAddress, accessPoint |-> NoAddress]
    /\ ssdp = NotJoined(0)
    /\ queue = {}
    /\ clock = 0
    /\ advertised = {}
    /\ silent = {}
    /\ lost = {}

\* WiFi connects, with any address, or loses its network; the soft-AP is turned on or off.
WiFiChanges ==
    /\ network' \in [station : Stations \cup {NoAddress}, accessPoint : {AccessPoint, NoAddress}]
    /\ UNCHANGED <<ssdp, queue, clock, advertised, silent, lost>>

\* handleClient(), some time after its last call: any send may fail.
HandleClient ==
    \E lag \in 0 .. MaxLag : LET now == In(clock, lag) IN
    \E ok \in Attempts(now) :
        LET d == Joined(now, ok)
            waiting == JoinedQueue(now, ok)
        IN  \E peer \in Peers, delay \in Delays :
            LET q == Answered(waiting, d, peer, delay, now)
                due == DueNow(q, d, now)
            IN  \E failing \in SUBSET due, unsaid \in SUBSET (Abandoned \cap advertised) :
                /\ failing # {} \/ unsaid # {} =>
                      Cardinality(failing) + Cardinality(unsaid)
                        + Cardinality(lost) + Cardinality(silent) <= MaxFailing
                /\ clock' = now
                /\ ssdp' = d
                /\ queue' = Sent(q, due, failing, now)
                /\ advertised' = Withdrawn(unsaid) \cup {e.interface : e \in due \ failing}
                /\ silent' = (silent \ Abandoned) \cup unsaid
                /\ lost' = (IF ok THEN {u \in Udns : In(now, Third) = 0} ELSE lost)
                             \cup Ending(due, failing, now)
    /\ UNCHANGED network

DiscoveryNext == WiFiChanges \/ HandleClient

DiscoverySpec == DiscoveryInit /\ [][DiscoveryNext]_discoveryVars

-----------------------------------------------------------------------------
(* Properties.                                                             *)

Waits(e) == (e.time - clock) % Wrap

\* As long as the device is in the group, everything it is announces itself again before
\* half of max-age is over, whatever searches fill the queue, unless a send failed or a time
\* fell on 0 (SSDPDevice.cpp:256-310, 476-480): the code then never announces it again.
KeepsAdvertising ==
    ssdp.last # NoAddress =>
        \A u \in Udns \ lost : \E e \in queue :
            e.type = "ALIVE" /\ e.udn = u /\ e.interface = ssdp.last /\ Waits(e) <= Refresh

\* Others know the device by its present address only: an address it has lost is withdrawn,
\* and nothing that waits names it (SSDPDevice.cpp:529-562, 645-687).  The exception: where
\* a goodbye cannot be sent (SSDPDevice.cpp:377-389), nobody ever withdraws that address.
OneLocation ==
    /\ advertised \subseteq ({ssdp.last} \ {NoAddress}) \cup silent
    /\ \A e \in queue : e.interface = ssdp.last

\* An answer that waits is not put off by a search that is repeated: what waits for the same
\* control point afterwards waits for the same time or an earlier one (SSDPDevice.cpp:277-281).
NotPostponed ==
    [][\A e \in Responses(queue), f \in Responses(queue') :
         f = [e EXCEPT !.time = f.time]
           => f.time = e.time \/ Later(e.time, f.time)]_discoveryVars

=============================================================================
