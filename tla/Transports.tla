----------------------------- MODULE Transports -----------------------------
(***************************************************************************)
(* The sockets of the media driver: UdpChannelTransport opens and closes    *)
(* them, WildcardPortManager reserves the ports they are bound to, and      *)
(* DataTransportPoller and ControlTransportPoller read from those that are  *)
(* registered, each by itself or through epoll.                             *)
(*                                                                         *)
(* Neither the set of ports nor the lists of the pollers are guarded by a   *)
(* lock, so a call is one step here; the calls come in any order.  The      *)
(* kernel is modelled as far as these files rely on it: descriptors are     *)
(* reused, and a descriptor that is closed leaves the epoll sets.           *)
(***************************************************************************)
EXTENDS Integers, SequencesExt, FiniteSetsExt

CONSTANTS
    Transports,
    Multicast,       \* those with a separate socket to send with, and SO_REUSEADDR
    PassThrough,     \* those of a sender without an explicit control address
    Control,         \* those that the ControlTransportPoller polls
    EndpointOf,      \* the channel endpoint each belongs to
    BindPort,        \* the port each asks for, 0 for any
    LowPort, HighPort,
    EphemeralPorts,  \* what the kernel may choose for port 0
    Fds,             \* the descriptors there are
    None,
    ITERATION_THRESHOLD,
    MaxEntries       \* bound: the length of a poller's list

\* Both bounds 0 is the mode in which the ports are the kernel's: a manager of this
\* kind is one for which all transports pass through.
ASSUME PortsAssumption ==
    /\ LowPort \in Nat /\ HighPort \in Nat \ {0} /\ LowPort <= HighPort
    /\ BindPort \in [Transports -> Nat]
    /\ EphemeralPorts \subseteq Nat \ {0}
    /\ Multicast \cup PassThrough \cup Control \subseteq Transports
    /\ Fds \subseteq Nat
    /\ None \notin Transports

VARIABLES
    port_set,    \* the ports that are reserved
    next_port,   \* where the search for a free one begins
    transport,   \* receive_fd_, send_fd_ and bound_address_ of each
    socket,      \* the kernel: of each descriptor whether it is open, its port, SO_REUSEADDR
    arrived,     \* the descriptors with datagrams that were not read
    entries,     \* the list of each poller
    epoll,       \* the kernel: the entry each watched descriptor was added with
    collided,    \* history: ports that were asked for while another transport had them
    reopened     \* history: transports that were reopened while they were registered

ports == <<port_set, next_port>>
pollers == <<entries, epoll>>
vars == <<ports, transport, socket, arrived, pollers, collided, reopened>>

Pollers == {"data", "control"}
PollerOf(t) == IF t \in Control THEN "control" ELSE "data"

\* The descriptor that is polled.
FdOf(t) ==
    IF t \in Control \ Multicast THEN transport[t].send_fd ELSE transport[t].receive_fd

-----------------------------------------------------------------------------
(* WildcardPortManager.                                                     *)

PortRange == LowPort .. HighPort
Free == PortRange \ port_set

\* From next_port to the end of the range, then from its beginning.
find_open_port ==
    LET ahead == {p \in Free : p >= next_port}
    IN  Min(IF ahead = {} THEN Free ELSE ahead)

Allocates(t) == t \notin PassThrough /\ BindPort[t] = 0

\* The port to bind to and what has become of the reservations.
get_managed_port(t) ==
    IF t \in PassThrough
    THEN [port |-> BindPort[t], port_set |-> port_set, next_port |-> next_port]
    ELSE IF BindPort[t] # 0
    THEN [port |-> BindPort[t], port_set |-> port_set \cup {BindPort[t]},
          next_port |-> next_port]
    ELSE [port |-> find_open_port, port_set |-> port_set \cup {find_open_port},
          next_port |-> IF find_open_port = HighPort THEN LowPort ELSE find_open_port + 1]

free_managed_port(set, port) == IF port \in PortRange THEN set \ {port} ELSE set

-----------------------------------------------------------------------------
(* The kernel's sockets.                                                    *)

Closed == [open |-> FALSE, port |-> 0, reuse |-> FALSE]
FreeFds == {fd \in Fds : ~socket[fd].open}

Holders(port) == {fd \in Fds : socket[fd].open /\ socket[fd].port = port}
CanBind(t, port) ==
    \A fd \in Holders(port) : t \in Multicast /\ socket[fd].reuse

\* This port was taken by one who did not find it free, or freed by one who did not
\* have it, and those who have it are still there.
Collide(new) ==
    collided' = {p \in collided \cup new :
                   \E fd \in Fds : socket'[fd].open /\ socket'[fd].port = p}
Taken(port) == IF Holders(port) = {} THEN {} ELSE {port}

IsOpen(t) == transport[t].receive_fd \in Fds \/ transport[t].send_fd \in Fds

-----------------------------------------------------------------------------
(* UdpChannelTransport::open_datagram_channel() and close().  An open       *)
(* transport throws and changes nothing.                                    *)

\* All ports are in use: the exception leaves the socket open.
NoPortLeft(t) ==
    /\ ~IsOpen(t) /\ FreeFds # {}
    /\ Allocates(t) /\ Free = {}
    /\ LET fd == Min(FreeFds)
       IN  /\ transport' = [transport EXCEPT ![t].receive_fd = fd]
           /\ socket' = [socket EXCEPT ![fd] = [Closed EXCEPT !.open = TRUE]]
    /\ reopened' = reopened \cup ({t} \cap Range(entries[PollerOf(t)]))
    /\ UNCHANGED <<ports, arrived, pollers, collided>>

\* Mutant: the reservation is left behind.
BindFailsReserved(t) ==
    /\ ~IsOpen(t) /\ FreeFds # {}
    /\ Allocates(t) => Free # {}
    /\ LET managed == get_managed_port(t)
       IN  /\ port_set' = managed.port_set
           /\ next_port' = managed.next_port
           /\ UNCHANGED <<transport, socket, arrived, pollers, reopened>>
           /\ Collide(Taken(managed.port))

\* Whatever the reason - this or another process has the port, the address is not
\* local - the reservation is given back and the socket closed.
BindFails(t) ==
    /\ ~IsOpen(t) /\ FreeFds # {}
    /\ Allocates(t) => Free # {}
    /\ LET managed == get_managed_port(t)
       IN  /\ port_set' = free_managed_port(managed.port_set, managed.port)
           /\ next_port' = managed.next_port
           /\ UNCHANGED <<transport, socket, arrived, pollers, reopened>>
           /\ Collide(Taken(managed.port))

\* The receive socket is bound to this port, and getsockname() says so.
Bound(t, port) ==
    /\ ~IsOpen(t) /\ FreeFds # {}
    /\ Allocates(t) => Free # {}
    /\ LET managed == get_managed_port(t)
       IN  IF managed.port = 0
           THEN port \in EphemeralPorts /\ Holders(port) = {}
           ELSE port = managed.port /\ CanBind(t, port)
    /\ next_port' = get_managed_port(t).next_port

\* The socket to receive with, and the one to send with if there is one by now.
Opened(t, port, send) ==
    LET fd == Min(FreeFds)
        other == Min(FreeFds \ {fd})
        bound == [open |-> TRUE, port |-> port, reuse |-> t \in Multicast]
        fds == [receive_fd |-> fd, bound_address |-> port,
                send_fd |-> IF ~send THEN -1 ELSE IF t \in Multicast THEN other ELSE fd]
    IN  /\ port_set' = get_managed_port(t).port_set
        /\ transport' = [transport EXCEPT ![t] = fds]
        /\ socket' = IF send /\ t \in Multicast
                     THEN [socket EXCEPT ![fd] = bound, ![other] = [Closed EXCEPT !.open = TRUE]]
                     ELSE [socket EXCEPT ![fd] = bound]
        /\ reopened' = reopened \cup ({t} \cap Range(entries[PollerOf(t)]))
        /\ Collide(Taken(port))
        /\ UNCHANGED <<arrived, pollers>>

\* The receive socket cannot be made non-blocking: the exception leaves it open.
NonblockingFails(t) ==
    \E port \in EphemeralPorts \cup PortRange \cup {BindPort[t]} :
        Bound(t, port) /\ Opened(t, port, FALSE)

\* All went well; or joining the multicast group, connecting a unicast socket or
\* making the send socket non-blocking has failed, which leaves the sockets open.
Open(t) ==
    /\ t \in Multicast => Cardinality(FreeFds) >= 2
    /\ \E port \in EphemeralPorts \cup PortRange \cup {BindPort[t]} :
        Bound(t, port) /\ Opened(t, port, TRUE)

\* The send socket of a multicast transport cannot be created, or not connected: all
\* is undone, except what bound_address_ says.
SendSocketFails(t) ==
    /\ t \in Multicast
    /\ \E port \in EphemeralPorts \cup PortRange \cup {BindPort[t]} :
        /\ Bound(t, port)
        /\ port_set' = free_managed_port(get_managed_port(t).port_set, port)
        /\ transport' = [transport EXCEPT ![t].bound_address = port]
        /\ UNCHANGED <<socket, arrived, pollers, reopened>>
        /\ Collide(Taken(port))

SocketsOf(t) == {transport[t].receive_fd, transport[t].send_fd} \cap Fds

\* The kernel forgets the descriptors.
CloseSockets(fds) ==
    /\ socket' = [fd \in Fds |-> IF fd \in fds THEN Closed ELSE socket[fd]]
    /\ arrived' = arrived \ fds
    /\ epoll' = [p \in Pollers |-> [fd \in Fds |-> IF fd \in fds THEN None ELSE epoll[p][fd]]]

\* Mutant: what the transport was bound to last is freed by every close.
CloseAndFree(t) ==
    LET fd == transport[t].receive_fd
    IN  /\ CloseSockets(SocketsOf(t))
        /\ port_set' = free_managed_port(port_set, transport[t].bound_address)
        /\ transport' = [transport EXCEPT ![t].receive_fd = -1, ![t].send_fd = -1]
        /\ Collide(IF IsOpen(t) /\ socket[fd].port = 0 THEN {transport[t].bound_address} ELSE {})
        /\ UNCHANGED <<next_port, entries, reopened>>

\* A transport for which there was no port left is not bound, and bound_address_ is
\* that of an earlier open: the port is freed, whoever has it now.
Close(t) ==
    LET fd == transport[t].receive_fd
    IN  /\ IsOpen(t)
        /\ CloseSockets(SocketsOf(t))
        /\ port_set' = free_managed_port(port_set, transport[t].bound_address)
        /\ transport' = [transport EXCEPT ![t].receive_fd = -1, ![t].send_fd = -1]
        /\ Collide(IF socket[fd].port = 0 THEN {transport[t].bound_address} ELSE {})
        /\ UNCHANGED <<next_port, entries, reopened>>

-----------------------------------------------------------------------------
(* The pollers.                                                             *)

Registered(t) == t \in Range(entries[PollerOf(t)])

\* Mutant: epoll is told of a transport only when there are too many to poll directly.
RegisterUnwatched(t) ==
    LET p == PollerOf(t)
    IN  /\ FdOf(t) \in Fds /\ epoll[p][FdOf(t)] = None
        /\ Len(entries[p]) < MaxEntries
        /\ entries' = [entries EXCEPT ![p] = Append(@, t)]
        /\ epoll' = [epoll EXCEPT ![p][FdOf(t)] =
                        IF Len(entries[p]) < ITERATION_THRESHOLD THEN None ELSE t]
        /\ UNCHANGED <<ports, transport, socket, arrived, collided, reopened>>

\* register_for_read(): epoll refuses a descriptor that is closed or watched
\* already, and the entry is removed again.
Register(t) ==
    LET p == PollerOf(t)
    IN  /\ FdOf(t) \in Fds /\ epoll[p][FdOf(t)] = None
        /\ Len(entries[p]) < MaxEntries
        /\ entries' = [entries EXCEPT ![p] = Append(@, t)]
        /\ epoll' = [epoll EXCEPT ![p][FdOf(t)] = t]
        /\ UNCHANGED <<ports, transport, socket, arrived, collided, reopened>>

\* The first entry of the transport, and what its descriptor is now.
RemoveEntries(p, gone, list) ==
    /\ entries' = [entries EXCEPT ![p] = list]
    /\ epoll' = [epoll EXCEPT ![p] = [fd \in Fds |-> IF \E t \in gone : FdOf(t) = fd
                                                     THEN None ELSE @[fd]]]
    /\ reopened' = reopened \ (gone \ Range(list))
    /\ UNCHANGED <<ports, transport, socket, arrived, collided>>

\* Mutant: the descriptor stays in the epoll set.
CancelReadWatched(t) ==
    /\ Registered(t)
    /\ entries' = [entries EXCEPT ![PollerOf(t)] = RemoveFirst(@, t)]
    /\ reopened' = reopened \ ({t} \ Range(entries'[PollerOf(t)]))
    /\ UNCHANGED <<ports, transport, socket, arrived, epoll, collided>>

cancel_read(t) ==
    /\ Registered(t)
    /\ RemoveEntries(PollerOf(t), {t}, RemoveFirst(entries[PollerOf(t)], t))

\* The entries one after the other, without those that are erased.
Without(list, gone) ==
    LET kept[i \in 0 .. Len(list)] ==
          IF i = 0 THEN <<>>
          ELSE IF list[i] \in gone THEN kept[i - 1] ELSE Append(kept[i - 1], list[i])
    IN  kept[Len(list)]

\* Of the data poller only.
cancel_read_for_all_transports(endpoint) ==
    LET gone == {t \in Range(entries["data"]) : EndpointOf[t] = endpoint}
    IN  /\ gone # {}
        /\ RemoveEntries("data", gone, Without(entries["data"], gone))

Direct(p) == Len(entries[p]) <= ITERATION_THRESHOLD
IsShut(p, i) == FdOf(entries[p][i]) \notin Fds

\* Up to this entry a direct poll comes: to receive from a transport that is closed is
\* an exception of the data poller, and nothing for the control poller.
Reach(p) ==
    LET shut == {i \in DOMAIN entries[p] : IsShut(p, i)}
    IN  IF p = "data" /\ shut # {} THEN Min(shut) - 1 ELSE Len(entries[p])

\* The descriptors that are read until nothing is left in them.
PollDirect(p) == {FdOf(entries[p][i]) : i \in 1 .. Reach(p)}
PollEpoll(p) == {FdOf(epoll[p][fd]) : fd \in {f \in arrived : epoll[p][f] # None}}

\* poll_transports()
Poll(p) ==
    LET read == (IF Direct(p) THEN PollDirect(p) ELSE PollEpoll(p)) \cap arrived
    IN  /\ read # {}
        /\ arrived' = arrived \ read
        /\ UNCHANGED <<ports, transport, socket, pollers, collided, reopened>>

\* A datagram for a socket that is bound.
Arrive(fd) ==
    /\ socket[fd].open /\ socket[fd].port # 0
    /\ fd \notin arrived
    /\ arrived' = arrived \cup {fd}
    /\ UNCHANGED <<ports, transport, socket, pollers, collided, reopened>>

-----------------------------------------------------------------------------
Init ==
    /\ port_set = {} /\ next_port = LowPort
    /\ transport = [t \in Transports |-> [receive_fd |-> -1, send_fd |-> -1, bound_address |-> 0]]
    /\ socket = [fd \in Fds |-> Closed]
    /\ arrived = {}
    /\ entries = [p \in Pollers |-> <<>>]
    /\ epoll = [p \in Pollers |-> [fd \in Fds |-> None]]
    /\ collided = {} /\ reopened = {}

OpenAttempt(t) ==
    NoPortLeft(t) \/ BindFails(t) \/ NonblockingFails(t) \/ Open(t) \/ SendSocketFails(t)

Next ==
    \/ \E t \in Transports : OpenAttempt(t) \/ Close(t) \/ Register(t) \/ cancel_read(t)
    \/ \E t \in Transports : cancel_read_for_all_transports(EndpointOf[t])
    \/ \E p \in Pollers : Poll(p)
    \/ \E fd \in Fds : Arrive(fd)

Spec == Init /\ [][Next]_vars

\* The receiver and the sender poll in their duty cycles.
FairSpec == Spec /\ \A p \in Pollers : WF_vars(Poll(p))

-----------------------------------------------------------------------------
(* Properties.                                                              *)

\* A range that begins with 0 has the kernel choose when it is 0's turn: the port it
\* chooses is not reserved, and the 0 is reserved for good.
KernelsPorts == IF 0 \in PortRange THEN EphemeralPorts ELSE {}

\* A reservation is there for as long as the socket that it was made for: neither
\* a failed open nor a close frees the port of another transport.  Except that a
\* port that is asked for by its number is not refused when it is taken, and that
\* an open that found no port leaves a bound_address_ from the time before; then
\* the port is given to the next transport too, and its bind fails.
BoundPortsReserved ==
    \A t \in Transports \ PassThrough :
        IsOpen(t) => LET port == socket[transport[t].receive_fd].port
                     IN  port \in PortRange \ {0} =>
                           port \in port_set \cup collided \cup KernelsPorts

\* Every reservation of the range belongs to a socket that is open and bound, whatever
\* step of an open failed: "all ports in use" is the truth, but for a port 0.
ReservationsBound ==
    \A port \in (port_set \cap PortRange) \ {0} : Holders(port) # {}

\* An epoll set never holds a pointer to an entry that was erased, or to the entry of
\* another descriptor, although descriptors are reused; and a transport that is
\* registered is in the list once and watched, unless it was closed and opened
\* again in between.
EventsFindTheirEntry ==
    \A p \in Pollers :
        /\ \A fd \in Fds : epoll[p][fd] # None =>
              epoll[p][fd] \in Range(entries[p]) /\ FdOf(epoll[p][fd]) = fd
        /\ \A t \in Range(entries[p]) \ reopened :
              /\ Cardinality({i \in DOMAIN entries[p] : entries[p][i] = t}) = 1
              /\ FdOf(t) \in Fds => epoll[p][FdOf(t)] = t

\* What arrives for a registered transport is read.  A direct poll of the data
\* poller does not come past a transport that was closed and not cancelled; an
\* epoll does not see one that was closed and opened again.
Deaf(t) ==
    LET p == PollerOf(t)
    IN  IF Direct(p)
        THEN p = "data" /\ \E j \in DOMAIN entries[p] : IsShut(p, j)
        ELSE t \in reopened
EveryDatagramRead ==
    \A t \in Transports :
        []<>(~ (Registered(t) /\ FdOf(t) \in arrived) \/ Deaf(t))
=============================================================================
