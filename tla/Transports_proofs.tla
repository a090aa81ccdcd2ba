------------------------- MODULE Transports_proofs --------------------------
(***************************************************************************)
(* What holds of the ports and the sockets for any number of transports,   *)
(* ports and descriptors, whichever step of an open fails: the reservations *)
(* are those of the sockets that are bound, and the entries that the epoll  *)
(* sets point to are those of the lists.                                    *)
(***************************************************************************)
EXTENDS Transports, FiniteSetTheorems, WellFoundedInduction, TLAPS

Fd == Fds \cup {-1}
Socket == [open : BOOLEAN, port : Nat, reuse : BOOLEAN]

TypesOfSockets ==
  /\ transport \in [Transports -> [receive_fd : Fd, send_fd : Fd, bound_address : Nat]]
  /\ socket \in [Fds -> Socket]

\* What an open transport is bound to; 0 if there was no port left.
PortOf(t) == socket[transport[t].receive_fd].port

\* A descriptor of a transport is open; what the first is bound to is known, and
\* the second, if it is another, is not bound.
OwnedSockets ==
  \A t \in Transports :
    /\ transport[t].receive_fd \in Fds =>
         /\ socket[transport[t].receive_fd].open
         /\ PortOf(t) \in {0, transport[t].bound_address}
    /\ transport[t].send_fd \in Fds =>
         /\ transport[t].receive_fd \in Fds
         /\ socket[transport[t].send_fd].open
         /\ \/ transport[t].send_fd = transport[t].receive_fd
            \/ socket[transport[t].send_fd].port = 0

\* No descriptor belongs to two transports.
SocketsApart ==
  \A t, u \in Transports : t # u => SocketsOf(t) \cap SocketsOf(u) = {}

\* Two transports with one port are in collision.
SharedPortsCollided ==
  \A t, u \in Transports :
    t # u /\ IsOpen(t) /\ IsOpen(u) /\ PortOf(t) = PortOf(u) /\ PortOf(t) # 0 =>
      PortOf(t) \in collided

IInv == /\ TypesOfSockets /\ OwnedSockets /\ SocketsApart /\ SharedPortsCollided
        /\ BoundPortsReserved /\ ReservationsBound

-----------------------------------------------------------------------------
(* The descriptors and ports that are chosen.                               *)

LEMMA MinOfNaturals ==
  ASSUME NEW S \in SUBSET Nat, S # {}
  PROVE  Min(S) \in S
<1>1. PICK x \in S : \A y \in S : ~ (<<y, x>> \in OpToRel(<, Nat))
  BY NatLessThanWellFounded, WFMin
<1>2. \A y \in S : x =< y
  <2>1. SUFFICES ASSUME NEW y \in S PROVE ~ (y < x)
    OBVIOUS
  <2>2. ~ (<<y, x>> \in OpToRel(<, Nat))
    BY <1>1
  <2>3. <<y, x>> \in Nat \X Nat
    OBVIOUS
  <2> QED BY <2>2, <2>3 DEF OpToRel
<1> QED BY <1>2 DEF Min

LEMMA OpenPort ==
  ASSUME Free # {}
  PROVE  find_open_port \in Free
<1>1. Free \in SUBSET Nat
  BY PortsAssumption DEF Free, PortRange
<1>2. CASE {p \in Free : p >= next_port} = {}
  BY <1>1, <1>2, MinOfNaturals DEF find_open_port
<1>3. CASE {p \in Free : p >= next_port} # {}
  <2> DEFINE ahead == {p \in Free : p >= next_port}
  <2>1. ahead \in SUBSET Nat
    BY <1>1
  <2>2. Min(ahead) \in ahead
    BY <1>3, <2>1, MinOfNaturals
  <2> QED BY <1>3, <2>2 DEF find_open_port
<1> QED BY <1>2, <1>3

\* The port that is reserved is the port to bind to, and 0 only if the range has it.
LEMMA ManagedPort ==
  ASSUME NEW t \in Transports, Allocates(t) => Free # {}
  PROVE  /\ get_managed_port(t).port \in Nat
         /\ get_managed_port(t).port_set =
              IF t \in PassThrough THEN port_set ELSE port_set \cup {get_managed_port(t).port}
         /\ t \notin PassThrough => get_managed_port(t).port # 0 \/ 0 \in PortRange
<1>1. Allocates(t) => find_open_port \in Nat /\ find_open_port \in PortRange
  BY OpenPort, PortsAssumption DEF Free, PortRange
<1>2. BindPort[t] \in Nat
  BY PortsAssumption
<1> QED BY <1>1, <1>2 DEF get_managed_port, Allocates

\* What is reserved is what is bound, or a 0 for which the kernel chose.
LEMMA BoundPort ==
  ASSUME NEW t \in Transports, NEW port, Bound(t, port)
  PROVE  /\ port \in Nat \ {0}
         /\ get_managed_port(t).port_set \in {port_set, port_set \cup {port}, port_set \cup {0}}
         /\ t \notin PassThrough =>
              port \in get_managed_port(t).port_set \cup KernelsPorts
<1>1. Allocates(t) => Free # {}
  BY DEF Bound
<1>2. IF get_managed_port(t).port = 0 THEN port \in EphemeralPorts
      ELSE port = get_managed_port(t).port
  BY DEF Bound
<1>3. get_managed_port(t).port \in Nat
  BY <1>1, ManagedPort
<1>4. port \in Nat \ {0}
  BY <1>2, <1>3, PortsAssumption
<1>5. get_managed_port(t).port \in {port, 0}
  BY <1>2
<1>6. get_managed_port(t).port = 0 /\ t \notin PassThrough => port \in KernelsPorts
  BY <1>1, <1>2, ManagedPort DEF KernelsPorts
<1> QED BY <1>1, <1>4, <1>5, <1>6, ManagedPort

LEMMA FreeDescriptor ==
  ASSUME FreeFds # {}
  PROVE  Min(FreeFds) \in FreeFds
<1>1. FreeFds \in SUBSET Nat
  BY PortsAssumption DEF FreeFds
<1> QED BY <1>1, MinOfNaturals

LEMMA SecondDescriptor ==
  ASSUME FreeFds # {}, Cardinality(FreeFds) >= 2
  PROVE  Min(FreeFds \ {Min(FreeFds)}) \in FreeFds \ {Min(FreeFds)}
<1> DEFINE fd == Min(FreeFds)
<1>1. fd \in FreeFds
  BY FreeDescriptor
<1>2. FreeFds \ {fd} # {}
  <2>1. SUFFICES ASSUME FreeFds = {fd} PROVE FALSE
    BY <1>1
  <2>2. Cardinality(FreeFds) = 1
    BY <2>1, FS_Singleton
  <2> QED BY <2>2
<1>3. FreeFds \ {fd} \in SUBSET Nat
  BY PortsAssumption DEF FreeFds
<1> QED BY <1>2, <1>3, MinOfNaturals

-----------------------------------------------------------------------------
(* The steps that leave the sockets alone.                                  *)

\* What is taken while others have it is in collision from then on.
LEMMA CollidedLasts ==
  ASSUME NEW new, Collide(new), NEW port \in collided \cup new,
         NEW fd \in Fds, socket'[fd].open, socket'[fd].port = port
  PROVE  port \in collided'
BY DEF Collide

LEMMA TakenPort ==
  ASSUME NEW port, NEW fd \in Fds, socket[fd].open, socket[fd].port = port
  PROVE  port \in Taken(port)
BY DEF Taken, Holders

\* An attempt to open that leaves no socket behind gives back the port it took.
LEMMA FailedOpen ==
  ASSUME IInv, NEW t \in Transports, ~IsOpen(t), NEW port,
         port_set' = free_managed_port(get_managed_port(t).port_set, port),
         get_managed_port(t).port_set \in {port_set, port_set \cup {port}, port_set \cup {0}},
         Collide(Taken(port)),
         socket' = socket,
         \/ transport' = transport
         \/ port \in Nat /\ transport' = [transport EXCEPT ![t].bound_address = port]
  PROVE  IInv'
<1> USE DEF IInv
<1>1. /\ \A u \in Transports : /\ transport'[u].receive_fd = transport[u].receive_fd
                               /\ transport'[u].send_fd = transport[u].send_fd
      /\ \A u \in Transports : u # t => transport'[u] = transport[u]
  BY DEF TypesOfSockets
<1>2. transport[t].receive_fd \notin Fds /\ transport[t].send_fd \notin Fds
  BY DEF IsOpen
<1>3. \A u \in Transports : IsOpen(u)' <=> IsOpen(u)
  BY <1>1 DEF IsOpen
<1>4. \A u \in Transports : PortOf(u)' = PortOf(u)
  BY <1>1 DEF PortOf
<1>5. ASSUME NEW u \in Transports, IsOpen(u)
      PROVE  /\ transport[u].receive_fd \in Fds
             /\ socket[transport[u].receive_fd].open
  BY <1>5 DEF IsOpen, OwnedSockets
<1>6. \A u \in Transports :
        IsOpen(u) /\ PortOf(u) \in collided \cup Taken(port) => PortOf(u) \in collided'
  BY <1>5, CollidedLasts DEF PortOf
<1>7. TypesOfSockets'
  BY DEF TypesOfSockets
<1>8. OwnedSockets'
  BY <1>1, <1>2, <1>4 DEF OwnedSockets
<1>9. SocketsApart'
  BY <1>1 DEF SocketsApart, SocketsOf
<1>10. SharedPortsCollided'
  BY <1>3, <1>4, <1>6 DEF SharedPortsCollided
<1>11. BoundPortsReserved'
  <2>1. SUFFICES ASSUME NEW u \in Transports \ PassThrough, IsOpen(u),
                        PortOf(u) \in PortRange \ {0}, PortOf(u) \notin KernelsPorts
                 PROVE  PortOf(u) \in port_set' \cup collided'
    BY <1>3, <1>4 DEF BoundPortsReserved, PortOf, KernelsPorts
  <2>2. PortOf(u) \in port_set \cup collided
    BY <2>1 DEF BoundPortsReserved, PortOf
  <2>3. CASE PortOf(u) = port
    BY <1>5, <1>6, <2>1, <2>3, TakenPort DEF PortOf
  <2>4. CASE PortOf(u) # port
    BY <1>6, <2>1, <2>2, <2>4 DEF free_managed_port
  <2> QED BY <2>3, <2>4
<1>12. ReservationsBound'
  BY DEF ReservationsBound, Holders, free_managed_port
<1> QED BY <1>7, <1>8, <1>9, <1>10, <1>11, <1>12

LEMMA Unchanged ==
  ASSUME IInv, UNCHANGED <<port_set, transport, socket, collided>>
  PROVE  IInv'
BY DEF IInv, TypesOfSockets, OwnedSockets, SocketsApart, SharedPortsCollided,
       BoundPortsReserved, ReservationsBound, PortOf, SocketsOf, IsOpen, Holders

-----------------------------------------------------------------------------
(* The steps that create sockets, and close().                              *)

\* A transport gets a socket, bound to this port or to none (0), and perhaps a
\* second one.
LEMMA NewSockets ==
  ASSUME IInv, NEW t \in Transports, ~IsOpen(t),
         NEW fd \in FreeFds, NEW second \in FreeFds \cup {-1},
         NEW address \in Nat, NEW port \in {0, address},
         transport' = [transport EXCEPT
           ![t] = [receive_fd |-> fd, bound_address |-> address, send_fd |-> second]],
         socket' \in [Fds -> Socket],
         \A f \in Fds : socket[f].open => socket'[f] = socket[f],
         socket'[fd].open, socket'[fd].port = port,
         second \in Fds \ {fd} => socket'[second].open /\ socket'[second].port = 0,
         port_set \subseteq port_set', port_set' \subseteq port_set \cup {port, 0},
         t \notin PassThrough => port \in port_set' \cup {0} \cup KernelsPorts,
         \A p \in collided \cup Taken(port) :
            p # 0 /\ (\E f \in Fds : socket'[f].open /\ socket'[f].port = p) => p \in collided'
  PROVE  IInv'
<1> USE DEF IInv
<1>1. /\ \A u \in Transports : u # t => transport'[u] = transport[u]
      /\ transport'[t] = [receive_fd |-> fd, bound_address |-> address, send_fd |-> second]
  BY DEF TypesOfSockets
<1>2. transport[t].receive_fd \notin Fds /\ transport[t].send_fd \notin Fds
  BY DEF IsOpen
<1>3. fd \in Fds /\ ~socket[fd].open /\ (second \in Fds => ~socket[second].open)
  BY PortsAssumption DEF FreeFds
<1>4. ASSUME NEW u \in Transports, u # t, NEW f \in SocketsOf(u)
      PROVE  /\ f \in Fds /\ f # fd /\ f # second
             /\ socket[f].open /\ socket'[f] = socket[f]
  <2>1. f \in Fds /\ socket[f].open
    BY <1>4 DEF SocketsOf, OwnedSockets
  <2> QED BY <2>1, <1>3
<1>5. ASSUME NEW u \in Transports, u # t, IsOpen(u)
      PROVE  /\ transport[u].receive_fd \in SocketsOf(u)
             /\ PortOf(u)' = PortOf(u)
  <2>1. transport[u].receive_fd \in SocketsOf(u)
    BY <1>5 DEF IsOpen, SocketsOf, OwnedSockets
  <2> QED BY <2>1, <1>1, <1>4, <1>5 DEF PortOf
<1>6. \A u \in Transports : u # t => (IsOpen(u)' <=> IsOpen(u))
  BY <1>1 DEF IsOpen
<1>7. PortOf(t)' = port
  BY <1>1 DEF PortOf
<1>8. ASSUME NEW u \in Transports, u # t, IsOpen(u), PortOf(u) # 0,
             PortOf(u) \in collided \cup Taken(port)
      PROVE  PortOf(u) \in collided'
  <2>1. transport[u].receive_fd \in SocketsOf(u)
    BY <1>5, <1>8
  <2>2. /\ transport[u].receive_fd \in Fds
        /\ socket'[transport[u].receive_fd].open
        /\ socket'[transport[u].receive_fd].port = PortOf(u)
    BY <1>4, <1>8, <2>1 DEF PortOf
  <2> QED BY <1>8, <2>2
<1>9. TypesOfSockets'
  BY <1>3 DEF TypesOfSockets, Fd, FreeFds
<1>10. OwnedSockets'
  <2>1. ASSUME NEW u \in Transports, u # t, transport[u].receive_fd \in Fds
        PROVE  /\ socket'[transport[u].receive_fd].open
               /\ PortOf(u)' \in {0, transport'[u].bound_address}
    BY <1>1, <1>4, <1>5, <2>1 DEF OwnedSockets, SocketsOf, IsOpen
  <2>2. ASSUME NEW u \in Transports, u # t, transport[u].send_fd \in Fds
        PROVE  /\ transport[u].receive_fd \in Fds
               /\ socket'[transport[u].send_fd].open
               /\ \/ transport[u].send_fd = transport[u].receive_fd
                  \/ socket'[transport[u].send_fd].port = 0
    BY <1>4, <2>2 DEF OwnedSockets, SocketsOf
  <2> QED BY <1>1, <1>3, <1>7, <2>1, <2>2 DEF OwnedSockets
<1>11. SocketsApart'
  <2>1. \A u \in Transports : u # t => SocketsOf(u)' = SocketsOf(u)
    BY <1>1 DEF SocketsOf
  <2>2. SocketsOf(t)' \subseteq {fd, second}
    BY <1>1 DEF SocketsOf
  <2> QED BY <1>4, <2>1, <2>2 DEF SocketsApart
<1>12. SharedPortsCollided'
  <2>1. ASSUME NEW u \in Transports, u # t, IsOpen(u), PortOf(u) = port, port # 0
        PROVE  port \in collided'
    <3>1. /\ transport[u].receive_fd \in Fds
          /\ socket[transport[u].receive_fd].open
          /\ socket[transport[u].receive_fd].port = port
      BY <1>4, <1>5, <2>1 DEF PortOf
    <3>2. port \in Taken(port)
      BY <3>1, TakenPort
    <3> QED BY <1>8, <2>1, <3>2
  <2>2. ASSUME NEW u \in Transports, NEW v \in Transports, u # t, v # t, u # v,
               IsOpen(u), IsOpen(v), PortOf(u) = PortOf(v), PortOf(u) # 0
        PROVE  PortOf(u) \in collided'
    BY <1>8, <2>2 DEF SharedPortsCollided
  <2> QED BY <1>5, <1>6, <1>7, <2>1, <2>2 DEF SharedPortsCollided
<1>13. BoundPortsReserved'
  <2>1. ASSUME NEW u \in Transports \ PassThrough, u # t, IsOpen(u),
               PortOf(u) \in PortRange \ {0}, PortOf(u) \notin KernelsPorts
        PROVE  PortOf(u) \in port_set' \cup collided'
    <3>1. PortOf(u) \in port_set \cup collided /\ PortOf(u) # 0
      BY <2>1 DEF BoundPortsReserved, PortOf
    <3> QED BY <1>8, <2>1, <3>1
  <2>2. ASSUME t \notin PassThrough, port \in PortRange \ {0}, port \notin KernelsPorts
        PROVE  port \in port_set'
    BY <2>2
  <2>3. SUFFICES ASSUME NEW u \in Transports \ PassThrough, IsOpen(u)',
                        PortOf(u)' \in PortRange \ {0}, PortOf(u)' \notin KernelsPorts
                 PROVE  PortOf(u)' \in port_set' \cup collided'
    BY DEF BoundPortsReserved, PortOf, KernelsPorts
  <2>4. CASE u = t
    BY <1>7, <2>2, <2>3, <2>4
  <2>5. CASE u # t
    BY <1>5, <1>6, <2>1, <2>3, <2>5
  <2> QED BY <2>4, <2>5
<1>14. ReservationsBound'
  <2>1. SUFFICES ASSUME NEW p \in (port_set' \cap PortRange) \ {0} PROVE Holders(p)' # {}
    BY DEF ReservationsBound
  <2>2. CASE p = port
    BY <1>3, <2>2 DEF Holders
  <2>3. CASE p \in port_set
    <3>1. PICK f \in Fds : socket[f].open /\ socket[f].port = p
      BY <2>1, <2>3 DEF ReservationsBound, Holders
    <3> QED BY <3>1 DEF Holders
  <2> QED BY <2>1, <2>2, <2>3
<1> QED BY <1>9, <1>10, <1>11, <1>12, <1>13, <1>14

\* A socket that is not bound.
Unbound == [Closed EXCEPT !.open = TRUE]

LEMMA UnboundSocket == Unbound \in Socket /\ Unbound.open /\ Unbound.port = 0
BY DEF Unbound, Closed, Socket

LEMMA NoPortLeftKeeps ==
  ASSUME IInv, NEW t \in Transports, NoPortLeft(t)
  PROVE  IInv'
<1> DEFINE fd == Min(FreeFds)
           address == transport[t].bound_address
<1>1. fd \in FreeFds /\ fd \in Fds
  BY FreeDescriptor DEF NoPortLeft, FreeFds
<1>2. ~IsOpen(t) /\ transport[t].send_fd = -1 /\ address \in Nat
  BY DEF NoPortLeft, IsOpen, IInv, TypesOfSockets, Fd
<1>3. transport' = [transport EXCEPT
        ![t] = [receive_fd |-> fd, bound_address |-> address, send_fd |-> -1]]
  <2>1. transport' = [transport EXCEPT ![t] = [transport[t] EXCEPT !.receive_fd = fd]]
    BY DEF NoPortLeft, IInv, TypesOfSockets
  <2>2. transport[t] \in [receive_fd : Fd, send_fd : Fd, bound_address : Nat]
    BY DEF IInv, TypesOfSockets
  <2>3. [transport[t] EXCEPT !.receive_fd = fd]
          = [receive_fd |-> fd, bound_address |-> address, send_fd |-> -1]
    <3> HIDE DEF fd
    <3> QED BY <1>2, <2>2
  <2> QED BY <2>1, <2>3
<1>4. socket' = [socket EXCEPT ![fd] = Unbound]
  BY DEF NoPortLeft, Unbound
<1>5. /\ socket' \in [Fds -> Socket]
      /\ socket'[fd].open /\ socket'[fd].port = 0
      /\ \A f \in Fds : socket[f].open => socket'[f] = socket[f]
  BY <1>1, <1>4, UnboundSocket DEF IInv, TypesOfSockets, FreeFds
<1>6. port_set' = port_set /\ collided' = collided
  BY DEF NoPortLeft, ports
<1>7. \A p \in collided \cup Taken(0) : p # 0 => p \in collided'
  BY <1>6 DEF Taken
<1>8. -1 \notin Fds
  BY PortsAssumption
<1> HIDE DEF fd, address
<1> QED BY <1>1, <1>2, <1>3, <1>5, <1>6, <1>7, <1>8, NewSockets

LEMMA OpenedKeeps ==
  ASSUME IInv, NEW t \in Transports, NEW port, NEW send \in BOOLEAN,
         send /\ t \in Multicast => Cardinality(FreeFds) >= 2,
         Bound(t, port), Opened(t, port, send)
  PROVE  IInv'
<1> DEFINE fd == Min(FreeFds)
           other == Min(FreeFds \ {fd})
           second == IF ~send THEN -1 ELSE IF t \in Multicast THEN other ELSE fd
           bound == [open |-> TRUE, port |-> port, reuse |-> t \in Multicast]
<1>1. fd \in FreeFds /\ fd \in Fds
  BY FreeDescriptor DEF Bound, FreeFds
<1>2. send /\ t \in Multicast => other \in FreeFds /\ other # fd
  BY SecondDescriptor DEF Bound
<1>3. second \in FreeFds \cup {-1} /\ (second \in Fds \ {fd} => send /\ t \in Multicast)
  BY <1>1, <1>2, PortsAssumption
<1>4. port \in Nat \ {0}
  BY BoundPort
<1>5. ~IsOpen(t)
  BY DEF Bound
<1>6. transport' = [transport EXCEPT
        ![t] = [receive_fd |-> fd, bound_address |-> port, send_fd |-> second]]
  BY DEF Opened
<1>7. socket' = IF send /\ t \in Multicast
                THEN [socket EXCEPT ![fd] = bound, ![other] = Unbound]
                ELSE [socket EXCEPT ![fd] = bound]
  BY DEF Opened, Unbound
<1>8. bound \in Socket
  BY <1>4 DEF Socket
<1>9. /\ socket' \in [Fds -> Socket]
      /\ socket'[fd] = bound
      /\ send /\ t \in Multicast => other \in Fds /\ socket'[other] = Unbound
      /\ \A f \in Fds : socket[f].open => socket'[f] = socket[f]
  <2> HIDE DEF fd, other, bound
  <2> QED BY <1>1, <1>2, <1>7, <1>8, UnboundSocket DEF IInv, TypesOfSockets, FreeFds
<1>10. second \in Fds \ {fd} => socket'[second].open /\ socket'[second].port = 0
  BY <1>3, <1>9, UnboundSocket
<1>11. socket'[fd].open /\ socket'[fd].port = port
  BY <1>9
<1>12. /\ port_set' \in {port_set, port_set \cup {port}, port_set \cup {0}}
       /\ t \notin PassThrough => port \in port_set' \cup KernelsPorts
  BY BoundPort DEF Opened
<1>13. Collide(Taken(port))
  BY DEF Opened
<1>14. \A p \in collided \cup Taken(port) :
         (\E f \in Fds : socket'[f].open /\ socket'[f].port = p) => p \in collided'
  BY <1>13, CollidedLasts
<1> HIDE DEF fd, second
<1> QED BY <1>1, <1>3, <1>4, <1>5, <1>6, <1>9, <1>10, <1>11, <1>12, <1>14, NewSockets

LEMMA SendSocketFailsKeeps ==
  ASSUME IInv, NEW t \in Transports, SendSocketFails(t)
  PROVE  IInv'
<1>1. PICK port : /\ Bound(t, port)
                  /\ port_set' = free_managed_port(get_managed_port(t).port_set, port)
                  /\ transport' = [transport EXCEPT ![t].bound_address = port]
                  /\ socket' = socket
                  /\ Collide(Taken(port))
  BY DEF SendSocketFails
<1>2. /\ port \in Nat
      /\ get_managed_port(t).port_set \in {port_set, port_set \cup {port}, port_set \cup {0}}
  BY <1>1, BoundPort
<1>3. ~IsOpen(t)
  BY <1>1 DEF Bound
<1> QED BY <1>1, <1>2, <1>3, FailedOpen

LEMMA BindFailsKeeps ==
  ASSUME IInv, NEW t \in Transports, BindFails(t)
  PROVE  IInv'
<1> DEFINE port == get_managed_port(t).port
<1>1. /\ ~IsOpen(t) /\ (Allocates(t) => Free # {})
      /\ port_set' = free_managed_port(get_managed_port(t).port_set, port)
      /\ transport' = transport /\ socket' = socket
      /\ Collide(Taken(port))
  BY DEF BindFails
<1>2. get_managed_port(t).port_set \in {port_set, port_set \cup {port}}
  BY <1>1, ManagedPort
<1> HIDE DEF port
<1> QED BY <1>1, <1>2, FailedOpen

\* Only what is closed loses its reservation, unless it is in collision.
LEMMA CloseKeeps ==
  ASSUME IInv, NEW t \in Transports, Close(t)
  PROVE  IInv'
<1> USE DEF IInv
<1> DEFINE r == transport[t].receive_fd
           address == transport[t].bound_address
<1>1. /\ r \in Fds /\ socket[r].open /\ PortOf(t) = socket[r].port
      /\ PortOf(t) \in {0, address}
      /\ address \in Nat
  BY DEF Close, IsOpen, OwnedSockets, PortOf, TypesOfSockets
<1>2. /\ \A u \in Transports : u # t => transport'[u] = transport[u]
      /\ transport'[t].receive_fd = -1 /\ transport'[t].send_fd = -1
      /\ transport' \in [Transports -> [receive_fd : Fd, send_fd : Fd, bound_address : Nat]]
  BY DEF Close, TypesOfSockets, Fd
<1>3. socket' = [f \in Fds |-> IF f \in SocketsOf(t) THEN Closed ELSE socket[f]]
  BY DEF Close, CloseSockets
<1>4. port_set' = free_managed_port(port_set, address)
  BY DEF Close
<1>5. Collide(IF PortOf(t) = 0 THEN {address} ELSE {})
  BY DEF Close, PortOf
<1>6. -1 \notin Fds
  BY PortsAssumption
<1>7. ASSUME NEW u \in Transports, u # t, NEW f \in SocketsOf(u)
      PROVE  f \in Fds /\ socket[f].open /\ socket'[f] = socket[f]
  <2>1. f \in Fds /\ f \notin SocketsOf(t)
    BY <1>7 DEF SocketsOf, SocketsApart
  <2>2. socket[f].open
    BY <1>7 DEF SocketsOf, OwnedSockets
  <2> QED BY <1>3, <2>1, <2>2
<1>8. ~IsOpen(t)'
  BY <1>2, <1>6 DEF IsOpen
<1>9. ASSUME NEW u \in Transports, u # t
      PROVE  /\ IsOpen(u)' <=> IsOpen(u)
             /\ IsOpen(u) => /\ transport[u].receive_fd \in SocketsOf(u)
                             /\ PortOf(u)' = PortOf(u)
  <2>1. IsOpen(u)' <=> IsOpen(u)
    BY <1>2, <1>9 DEF IsOpen
  <2>2. IsOpen(u) => transport[u].receive_fd \in SocketsOf(u)
    BY DEF IsOpen, SocketsOf, OwnedSockets
  <2> QED BY <1>2, <1>7, <1>9, <2>1, <2>2 DEF PortOf
<1>10. ASSUME NEW u \in Transports, u # t, IsOpen(u),
              \/ PortOf(u) \in collided
              \/ PortOf(t) = 0 /\ PortOf(u) = address
       PROVE  PortOf(u) \in collided'
  <2>1. /\ transport[u].receive_fd \in Fds
        /\ socket'[transport[u].receive_fd].open
        /\ socket'[transport[u].receive_fd].port = PortOf(u)
    BY <1>7, <1>9, <1>10 DEF PortOf
  <2> QED BY <1>5, <1>10, <2>1, CollidedLasts
<1>11. TypesOfSockets'
  BY <1>2, <1>3 DEF TypesOfSockets, Socket, Closed
<1>12. OwnedSockets'
  <2>1. ASSUME NEW u \in Transports, u # t, transport[u].receive_fd \in Fds
        PROVE  /\ socket'[transport[u].receive_fd].open
               /\ PortOf(u)' \in {0, transport'[u].bound_address}
    BY <1>2, <1>7, <1>9, <2>1 DEF OwnedSockets, SocketsOf, IsOpen
  <2>2. ASSUME NEW u \in Transports, u # t, transport[u].send_fd \in Fds
        PROVE  /\ transport[u].receive_fd \in Fds
               /\ socket'[transport[u].send_fd].open
               /\ \/ transport[u].send_fd = transport[u].receive_fd
                  \/ socket'[transport[u].send_fd].port = 0
    BY <1>7, <2>2 DEF OwnedSockets, SocketsOf
  <2> QED BY <1>2, <1>6, <2>1, <2>2 DEF OwnedSockets
<1>13. SocketsApart'
  <2>1. \A u \in Transports : u # t => SocketsOf(u)' = SocketsOf(u)
    BY <1>2 DEF SocketsOf
  <2>2. SocketsOf(t)' = {}
    BY <1>2, <1>6 DEF SocketsOf
  <2> QED BY <2>1, <2>2 DEF SocketsApart
<1>14. SharedPortsCollided'
  BY <1>8, <1>9, <1>10 DEF SharedPortsCollided
<1>15. BoundPortsReserved'
  <2>1. SUFFICES ASSUME NEW u \in Transports \ PassThrough, u # t, IsOpen(u),
                        PortOf(u) \in PortRange \ {0}, PortOf(u) \notin KernelsPorts
                 PROVE  PortOf(u) \in port_set' \cup collided'
    BY <1>8, <1>9 DEF BoundPortsReserved, PortOf, KernelsPorts
  <2>2. PortOf(u) \in port_set \cup collided /\ PortOf(u) # 0
    BY <2>1 DEF BoundPortsReserved, PortOf
  <2>3. CASE PortOf(u) # address
    BY <1>4, <1>10, <2>1, <2>2, <2>3 DEF free_managed_port
  <2>4. CASE PortOf(u) = address /\ PortOf(t) = 0
    BY <1>10, <2>1, <2>4
  <2>5. CASE PortOf(u) = address /\ PortOf(t) = address
    <3>1. PortOf(u) \in collided
      <4>1. IsOpen(t)
        BY DEF Close
      <4> QED BY <2>1, <2>2, <2>5, <4>1 DEF SharedPortsCollided
    <3> QED BY <1>10, <2>1, <3>1
  <2> QED BY <1>1, <2>3, <2>4, <2>5
<1>16. ReservationsBound'
  <2>1. SUFFICES ASSUME NEW p \in (port_set' \cap PortRange) \ {0} PROVE Holders(p)' # {}
    BY DEF ReservationsBound
  <2>2. p \in port_set /\ p # address /\ p # 0
    BY <1>4, <2>1 DEF free_managed_port, PortRange
  <2>3. PICK f \in Fds : socket[f].open /\ socket[f].port = p
    BY <2>1, <2>2 DEF ReservationsBound, Holders
  <2>4. f \notin SocketsOf(t)
    BY <1>1, <2>2, <2>3 DEF SocketsOf, OwnedSockets, PortOf
  <2> QED BY <1>3, <2>3, <2>4 DEF Holders
<1> QED BY <1>11, <1>12, <1>13, <1>14, <1>15, <1>16

-----------------------------------------------------------------------------
(* The lists of the pollers.                                                *)

\* The steps of the loop that erases the entries of an endpoint.
Step(list, gone, i, kept) ==
  IF i = 0 THEN <<>> ELSE IF list[i] \in gone THEN kept[i - 1] ELSE Append(kept[i - 1], list[i])
Loop(list, gone, kept, n) ==
  kept = [i \in 0 .. n |-> Step(list, gone, i, kept)]

\* The recursion is defined up to the end of the list.
LEMMA LoopExists ==
  ASSUME NEW list \in Seq(Transports), NEW gone
  PROVE  \A n \in 0 .. Len(list) : \E kept : Loop(list, gone, kept, n)
<1> DEFINE Bad == {n \in 0 .. Len(list) : ~ \E kept : Loop(list, gone, kept, n)}
<1>1. SUFFICES ASSUME Bad # {} PROVE FALSE
  OBVIOUS
<1>2. Bad \in SUBSET Nat
  OBVIOUS
<1>3. PICK n \in Bad : \A k \in Bad : ~ (<<k, n>> \in OpToRel(<, Nat))
  BY <1>1, <1>2, NatLessThanWellFounded, WFMin
<1>4. n \in 0 .. Len(list) /\ ~ \E kept : Loop(list, gone, kept, n)
  OBVIOUS
<1>5. CASE n = 0
  <2>1. Loop(list, gone, [i \in 0 .. 0 |-> <<>>], 0)
    BY DEF Loop, Step
  <2> QED BY <1>4, <1>5, <2>1
<1>6. CASE n # 0
  <2>1. n - 1 \in Nat /\ n - 1 \in 0 .. Len(list)
    BY <1>4, <1>6
  <2>2. n - 1 \notin Bad
    <3>1. <<n - 1, n>> \in OpToRel(<, Nat)
      BY <1>4, <2>1 DEF OpToRel
    <3> QED BY <1>3, <3>1
  <2>3. PICK old : Loop(list, gone, old, n - 1)
    BY <2>1, <2>2
  <2> DEFINE new == [i \in 0 .. n |-> IF i = n THEN Step(list, gone, n, old) ELSE old[i]]
  <2>4. \A i \in 0 .. n - 1 : new[i] = old[i]
    BY <1>4
  <2>5. new[n] = Step(list, gone, n, new)
    <3>1. n \in 0 .. n /\ n - 1 \in 0 .. n - 1
      BY <1>4, <2>1
    <3>2. new[n - 1] = old[n - 1] /\ new[n] = Step(list, gone, n, old)
      BY <2>4, <3>1
    <3> HIDE DEF new
    <3> QED BY <1>6, <3>2 DEF Step
  <2>6. ASSUME NEW i \in 0 .. n - 1
        PROVE  new[i] = Step(list, gone, i, new)
    <3>1. old[i] = Step(list, gone, i, old)
      BY <2>3 DEF Loop
    <3>2. i # 0 => i - 1 \in 0 .. n - 1
      BY <1>4
    <3>3. i # 0 => new[i - 1] = old[i - 1]
      BY <2>4, <3>2
    <3>4. new[i] = old[i]
      BY <2>4
    <3> HIDE DEF new
    <3> QED BY <3>1, <3>3, <3>4 DEF Step
  <2>7. new = [i \in 0 .. n |-> Step(list, gone, i, new)]
    <3>1. \A i \in 0 .. n : i = n \/ i \in 0 .. n - 1
      BY <1>4
    <3>2. \A i \in 0 .. n : new[i] = Step(list, gone, i, new)
      BY <2>5, <2>6, <3>1
    <3>3. new = [i \in 0 .. n |-> new[i]]
      OBVIOUS
    <3> HIDE DEF new
    <3> QED BY <3>2, <3>3
  <2> HIDE DEF new
  <2> QED BY <1>4, <2>7 DEF Loop
<1> QED BY <1>5, <1>6

\* What is left of the list is what the loop has kept at its end.
LEMMA WithoutIsLoop ==
  ASSUME NEW list \in Seq(Transports), NEW gone
  PROVE  \E kept : Loop(list, gone, kept, Len(list)) /\ Without(list, gone) = kept[Len(list)]
<1> DEFINE kept == CHOOSE kept : Loop(list, gone, kept, Len(list))
<1>1. Len(list) \in 0 .. Len(list)
  OBVIOUS
<1>2. Loop(list, gone, kept, Len(list))
  BY <1>1, LoopExists
<1>3. Without(list, gone) = kept[Len(list)]
  BY DEF Without, Loop, Step
<1> HIDE DEF kept
<1> QED BY <1>2, <1>3

\* What is left of a list without these: m says where each of the rest was.
Keeps(m, rest, list, gone) ==
  /\ m \in [1 .. Len(rest) -> 1 .. Len(list)]
  /\ \A i, j \in 1 .. Len(rest) : m[i] = m[j] => i = j
  /\ \A i \in 1 .. Len(rest) : rest[i] = list[m[i]]
  /\ \A j \in 1 .. Len(list) : list[j] \notin gone => \E i \in 1 .. Len(rest) : m[i] = j
  /\ \A t \in gone : \E j \in 1 .. Len(list) :
       list[j] = t /\ \A i \in 1 .. Len(rest) : m[i] # j

\* What the first n entries leave.
KeptSoFar(rest, list, gone, n) ==
  /\ rest \in Seq(Transports)
  /\ \E m \in [1 .. Len(rest) -> 1 .. n] :
       /\ \A i, j \in 1 .. Len(rest) : m[i] = m[j] => i = j
       /\ \A i \in 1 .. Len(rest) : rest[i] = list[m[i]] /\ list[m[i]] \notin gone
       /\ \A j \in 1 .. n : list[j] \notin gone => \E i \in 1 .. Len(rest) : m[i] = j

\* One step of the loop.
LEMMA LoopStep ==
  ASSUME NEW list \in Seq(Transports), NEW gone, NEW kept, NEW n \in 1 .. Len(list),
         kept[n] = Step(list, gone, n, kept), KeptSoFar(kept[n - 1], list, gone, n - 1)
  PROVE  KeptSoFar(kept[n], list, gone, n)
<1>1. PICK old : old = kept[n - 1]
  OBVIOUS
<1>2. KeptSoFar(old, list, gone, n - 1)
  BY <1>1
<1>3. old \in Seq(Transports) /\ list[n] \in Transports /\ n # 0 /\ n \in Nat
  BY <1>2 DEF KeptSoFar
<1>4. Len(old) \in Nat
  BY <1>3
<1>5. PICK m \in [1 .. Len(old) -> 1 .. n - 1] :
        /\ \A i, j \in 1 .. Len(old) : m[i] = m[j] => i = j
        /\ \A i \in 1 .. Len(old) : old[i] = list[m[i]] /\ list[m[i]] \notin gone
        /\ \A j \in 1 .. n - 1 : list[j] \notin gone => \E i \in 1 .. Len(old) : m[i] = j
  BY <1>2, Zenon DEF KeptSoFar
<1>6. \A j \in 1 .. n : j = n \/ j \in 1 .. n - 1
  BY <1>3
<1>7. /\ \A i \in 1 .. Len(old) : m[i] \in 1 .. n - 1 /\ m[i] \in 1 .. n /\ m[i] # n
      /\ n \in 1 .. n
  <2>1. \A x \in 1 .. n - 1 : x \in 1 .. n /\ x # n
    BY <1>3
  <2> QED BY <1>3, <1>5, <2>1
<1>8. CASE list[n] \in gone
  <2>1. kept[n] = old
    BY <1>1, <1>3, <1>8 DEF Step
  <2>2. m \in [1 .. Len(old) -> 1 .. n]
    BY <1>5, <1>7
  <2>3. \A j \in 1 .. n : list[j] \notin gone => \E i \in 1 .. Len(old) : m[i] = j
    BY <1>5, <1>6, <1>8
  <2>4. KeptSoFar(old, list, gone, n)
    BY <1>3, <1>5, <2>2, <2>3, Zenon DEF KeptSoFar
  <2> QED BY <2>1, <2>4
<1>9. CASE list[n] \notin gone
  <2>1. PICK longer : longer = Append(old, list[n])
    OBVIOUS
  <2>2. PICK new : new = [i \in 1 .. Len(longer) |-> IF i = Len(longer) THEN n ELSE m[i]]
    OBVIOUS
  <2>3. kept[n] = longer
    BY <1>1, <1>3, <1>9, <2>1 DEF Step
  <2>4. /\ longer \in Seq(Transports) /\ Len(longer) = Len(old) + 1
        /\ longer[Len(longer)] = list[n]
        /\ \A i \in 1 .. Len(old) : longer[i] = old[i]
    BY <1>3, <1>4, <2>1
  <2>5. /\ Len(longer) \in 1 .. Len(longer)
        /\ \A i \in 1 .. Len(old) : i \in 1 .. Len(longer) /\ i # Len(longer)
        /\ \A i \in 1 .. Len(longer) : i = Len(longer) \/ i \in 1 .. Len(old)
    BY <1>4, <2>4
  <2>6. new[Len(longer)] = n /\ \A i \in 1 .. Len(old) : new[i] = m[i]
    BY <2>2, <2>5
  <2>7. new \in [1 .. Len(longer) -> 1 .. n]
    <3>1. \A i \in 1 .. Len(longer) : new[i] \in 1 .. n
      BY <1>7, <2>5, <2>6
    <3> QED BY <2>2, <3>1
  <2>8. \A i, j \in 1 .. Len(longer) : new[i] = new[j] => i = j
    BY <1>5, <1>7, <2>5, <2>6
  <2>9. \A i \in 1 .. Len(longer) : longer[i] = list[new[i]] /\ list[new[i]] \notin gone
    BY <1>5, <1>9, <2>4, <2>5, <2>6
  <2>10. \A j \in 1 .. n : list[j] \notin gone => \E i \in 1 .. Len(longer) : new[i] = j
    BY <1>5, <1>6, <2>5, <2>6
  <2>11. KeptSoFar(longer, list, gone, n)
    BY <2>4, <2>7, <2>8, <2>9, <2>10, Zenon DEF KeptSoFar
  <2> QED BY <2>3, <2>11
<1> QED BY <1>8, <1>9

\* The loop erases the entries of these, and no other.
LEMMA WithoutKeeps ==
  ASSUME NEW list \in Seq(Transports), NEW gone \in SUBSET Range(list)
  PROVE  /\ Without(list, gone) \in Seq(Transports)
         /\ \E m : Keeps(m, Without(list, gone), list, gone)
<1> DEFINE N == Len(list)
<1>1. PICK kept : Loop(list, gone, kept, N) /\ Without(list, gone) = kept[N]
  BY WithoutIsLoop
<1>2. \A n \in 0 .. N : kept[n] = Step(list, gone, n, kept)
  BY <1>1 DEF Loop
<1>3. N \in Nat
  OBVIOUS
<1> DEFINE Bad == {n \in 0 .. N : ~ KeptSoFar(kept[n], list, gone, n)}
<1>4. Bad = {}
  <2>1. SUFFICES ASSUME Bad # {} PROVE FALSE
    OBVIOUS
  <2>2. Bad \in SUBSET Nat
    BY <1>3
  <2>3. PICK n \in Bad : \A k \in Bad : ~ (<<k, n>> \in OpToRel(<, Nat))
    BY <2>1, <2>2, NatLessThanWellFounded, WFMin
  <2>4. n \in 0 .. N /\ ~ KeptSoFar(kept[n], list, gone, n)
    OBVIOUS
  <2>5. CASE n = 0
    <3>1. kept[0] = <<>>
      BY <1>2, <1>3 DEF Step
    <3>2. kept[0] \in Seq(Transports) /\ Len(kept[0]) = 0
      BY <3>1
    <3>3. \A i \in Int : i \notin 1 .. 0
      OBVIOUS
    <3>4. [i \in 1 .. 0 |-> 0] \in [1 .. 0 -> 1 .. 0]
      BY <3>3
    <3>5. KeptSoFar(kept[0], list, gone, 0)
      BY <3>2, <3>3, <3>4 DEF KeptSoFar
    <3> QED BY <2>4, <2>5, <3>5
  <2>6. CASE n # 0
    <3>1. n - 1 \in Nat /\ n - 1 \in 0 .. N /\ n \in 1 .. Len(list)
      BY <2>4, <2>6
    <3>2. <<n - 1, n>> \in OpToRel(<, Nat)
      BY <2>4, <3>1 DEF OpToRel
    <3>3. KeptSoFar(kept[n - 1], list, gone, n - 1)
      BY <2>3, <3>1, <3>2
    <3> QED BY <1>2, <2>4, <3>1, <3>3, LoopStep
  <2> QED BY <2>5, <2>6
<1>5. KeptSoFar(kept[N], list, gone, N)
  BY <1>3, <1>4
<1> DEFINE rest == kept[N]
<1>6. PICK m \in [1 .. Len(rest) -> 1 .. N] :
        /\ \A i, j \in 1 .. Len(rest) : m[i] = m[j] => i = j
        /\ \A i \in 1 .. Len(rest) : rest[i] = list[m[i]] /\ list[m[i]] \notin gone
        /\ \A j \in 1 .. N : list[j] \notin gone => \E i \in 1 .. Len(rest) : m[i] = j
  BY <1>5 DEF KeptSoFar
<1>7. \A t \in gone : \E j \in 1 .. Len(list) :
        list[j] = t /\ \A i \in 1 .. Len(rest) : m[i] # j
  <2>1. ASSUME NEW t \in gone
        PROVE  \E j \in 1 .. Len(list) : list[j] = t
    BY DEF Range
  <2> HIDE DEF rest
  <2> QED BY <1>6, <2>1
<1>8. Keeps(m, rest, list, gone)
  BY <1>6, <1>7 DEF Keeps
<1> QED BY <1>1, <1>5, <1>8 DEF KeptSoFar

\* What two sequences are, one after the other.
LEMMA Concatenation ==
  ASSUME NEW s \in Seq(Transports), NEW u \in Seq(Transports)
  PROVE  /\ s \o u \in Seq(Transports) /\ Len(s \o u) = Len(s) + Len(u)
         /\ \A i \in 1 .. Len(s) : (s \o u)[i] = s[i]
         /\ \A i \in 1 .. Len(u) : (s \o u)[Len(s) + i] = u[i]
OBVIOUS

\* The first entry of the transport is erased, and no other.
LEMMA RemoveFirstKeeps ==
  ASSUME NEW list \in Seq(Transports), NEW t \in Range(list)
  PROVE  /\ RemoveFirst(list, t) \in Seq(Transports)
         /\ \E m : Keeps(m, RemoveFirst(list, t), list, {t})
<1> DEFINE I == {i \in 1 .. Len(list) : list[i] = t}
           k == Min(I)
           rest == SubSeq(list, 1, k - 1) \o SubSeq(list, k + 1, Len(list))
           m == [i \in 1 .. Len(list) - 1 |-> IF i < k THEN i ELSE i + 1]
<1>1. I # {} /\ I \in SUBSET Nat
  BY DEF Range
<1>2. k \in I
  BY <1>1, MinOfNaturals
<1>3. k \in 1 .. Len(list) /\ list[k] = t
  BY <1>2
<1>4. RemoveFirst(list, t) = rest
  BY <1>1 DEF RemoveFirst, RemoveAt, SelectInSeq
<1> HIDE DEF k
<1>5. /\ SubSeq(list, 1, k - 1) \in Seq(Transports)
      /\ Len(SubSeq(list, 1, k - 1)) = k - 1
      /\ \A i \in 1 .. k - 1 : SubSeq(list, 1, k - 1)[i] = list[i]
  BY <1>3
<1>6. /\ SubSeq(list, k + 1, Len(list)) \in Seq(Transports)
      /\ Len(SubSeq(list, k + 1, Len(list))) = Len(list) - k
      /\ \A i \in 1 .. Len(list) - k : SubSeq(list, k + 1, Len(list))[i] = list[k + i]
  BY <1>3
<1> DEFINE before == SubSeq(list, 1, k - 1)
           after == SubSeq(list, k + 1, Len(list))
<1> HIDE DEF before, after
<1>7. /\ rest \in Seq(Transports) /\ Len(rest) = Len(list) - 1
      /\ \A i \in 1 .. Len(list) - 1 : rest[i] = list[IF i < k THEN i ELSE i + 1]
  <2>1. /\ before \in Seq(Transports) /\ Len(before) = k - 1
        /\ \A i \in 1 .. k - 1 : before[i] = list[i]
    BY <1>5 DEF before
  <2>2. /\ after \in Seq(Transports) /\ Len(after) = Len(list) - k
        /\ \A i \in 1 .. Len(list) - k : after[i] = list[k + i]
    BY <1>6 DEF after
  <2>3. rest = before \o after
    BY DEF before, after
  <2>4. /\ rest \in Seq(Transports) /\ Len(rest) = (k - 1) + (Len(list) - k)
        /\ \A i \in 1 .. k - 1 : rest[i] = before[i]
        /\ \A i \in 1 .. Len(list) - k : rest[(k - 1) + i] = after[i]
    <3>1. /\ before \o after \in Seq(Transports)
          /\ Len(before \o after) = Len(before) + Len(after)
          /\ \A i \in 1 .. Len(before) : (before \o after)[i] = before[i]
          /\ \A i \in 1 .. Len(after) : (before \o after)[Len(before) + i] = after[i]
      <4>1. before \in Seq(Transports) /\ after \in Seq(Transports)
        BY <2>1, <2>2
      <4> QED BY <4>1, Concatenation
    <3> HIDE DEF rest
    <3> QED BY <2>1, <2>2, <2>3, <3>1
  <2> HIDE DEF rest
  <2>5. ASSUME NEW i \in 1 .. Len(list) - 1, i < k
        PROVE  rest[i] = list[i]
    BY <1>3, <2>1, <2>4, <2>5
  <2>6. ASSUME NEW i \in 1 .. Len(list) - 1, ~ (i < k)
        PROVE  rest[i] = list[i + 1]
    <3> DEFINE h == i - (k - 1)
    <3>1. h \in 1 .. Len(list) - k /\ k + h = i + 1 /\ (k - 1) + h = i
      BY <1>3, <2>6
    <3> HIDE DEF h
    <3>2. rest[(k - 1) + h] = after[h] /\ after[h] = list[k + h]
      BY <2>2, <2>4, <3>1
    <3> QED BY <3>1, <3>2
  <2>7. ASSUME NEW i \in 1 .. Len(list) - 1
        PROVE  rest[i] = list[IF i < k THEN i ELSE i + 1]
    BY <2>5, <2>6
  <2>8. Len(rest) = Len(list) - 1
    BY <1>3, <2>4
  <2> QED BY <2>4, <2>7, <2>8
<1> HIDE DEF rest
<1>8. m \in [1 .. Len(rest) -> 1 .. Len(list)]
  BY <1>3, <1>7
<1>9. \A i, j \in 1 .. Len(rest) : m[i] = m[j] => i = j
  BY <1>3, <1>7
<1>10. \A i \in 1 .. Len(rest) : rest[i] = list[m[i]] /\ m[i] # k
  BY <1>3, <1>7
<1>11. ASSUME NEW j \in 1 .. Len(list), j # k
       PROVE  \E i \in 1 .. Len(rest) : m[i] = j
  <2>1. CASE j < k
    <3>1. j \in 1 .. Len(rest) /\ m[j] = j
      BY <1>3, <1>7, <2>1
    <3> QED BY <3>1
  <2>2. CASE ~ (j < k)
    <3>1. j - 1 \in 1 .. Len(rest) /\ m[j - 1] = j
      BY <1>3, <1>7, <1>11, <2>2
    <3> QED BY <3>1
  <2> QED BY <2>1, <2>2
<1> HIDE DEF m
<1>12. Keeps(m, rest, list, {t})
  BY <1>3, <1>8, <1>9, <1>10, <1>11 DEF Keeps
<1> QED BY <1>4, <1>7, <1>12

-----------------------------------------------------------------------------
(* The pollers.                                                             *)

TypesOfPollers ==
  /\ entries \in [Pollers -> Seq(Transports)]
  /\ epoll \in [Pollers -> [Fds -> Transports \cup {None}]]
  /\ \A p \in Pollers : \A i \in 1 .. Len(entries[p]) : PollerOf(entries[p][i]) = p

\* The transport is in the list, and in one place.
Once(list, t) ==
  \E i \in 1 .. Len(list) : list[i] = t /\ \A j \in 1 .. Len(list) : list[j] = t => j = i

Watched ==
  \A p \in Pollers : \A fd \in Fds : epoll[p][fd] # None =>
    epoll[p][fd] \in Range(entries[p]) /\ FdOf(epoll[p][fd]) = fd

Listed ==
  \A p \in Pollers : \A t \in Range(entries[p]) \ reopened :
    /\ Once(entries[p], t)
    /\ FdOf(t) \in Fds => epoll[p][FdOf(t)] = t

PollInv == TypesOfPollers /\ Watched /\ Listed

\* To be in one place is to be in the list once.
LEMMA OnceIsOne ==
  ASSUME NEW list \in Seq(Transports), NEW t
  PROVE  Cardinality({i \in DOMAIN list : list[i] = t}) = 1 <=> Once(list, t)
<1> DEFINE I == {i \in DOMAIN list : list[i] = t}
<1>1. DOMAIN list = 1 .. Len(list)
  OBVIOUS
<1>2. IsFiniteSet(1 .. Len(list)) /\ I \subseteq 1 .. Len(list)
  BY <1>1, FS_Interval
<1>3. IsFiniteSet(I)
  BY <1>2, FS_Subset
<1>4. Cardinality(I) = 1 <=> \E i : I = {i}
  BY <1>3, FS_Singleton
<1>5. ASSUME NEW i, I = {i} PROVE Once(list, t)
  <2>1. i \in I
    BY <1>5
  <2>2. \A j \in 1 .. Len(list) : list[j] = t => j \in I
    BY <1>1
  <2> QED BY <1>1, <1>5, <2>1, <2>2 DEF Once
<1>6. ASSUME Once(list, t) PROVE \E i : I = {i}
  <2>1. PICK i \in 1 .. Len(list) : list[i] = t /\ \A j \in 1 .. Len(list) : list[j] = t => j = i
    BY <1>6 DEF Once
  <2>2. I = {i}
    BY <1>1, <2>1
  <2> QED BY <2>2
<1> QED BY <1>4, <1>5, <1>6

\* What EventsFindTheirEntry counts, said with places.
LEMMA PollInvMeaning ==
  ASSUME PollInv
  PROVE  EventsFindTheirEntry
<1>1. ASSUME NEW p \in Pollers, NEW t, Once(entries[p], t)
      PROVE  Cardinality({i \in DOMAIN entries[p] : entries[p][i] = t}) = 1
  <2>1. entries[p] \in Seq(Transports)
    BY DEF PollInv, TypesOfPollers
  <2> QED BY <1>1, <2>1, OnceIsOne
<1> QED BY <1>1 DEF PollInv, Watched, Listed, EventsFindTheirEntry

\* What is in a list.
LEMMA InList ==
  ASSUME PollInv, NEW p \in Pollers, NEW t
  PROVE  /\ t \in Range(entries[p]) <=> \E i \in 1 .. Len(entries[p]) : entries[p][i] = t
         /\ t \in Range(entries[p]) => t \in Transports /\ PollerOf(t) = p
<1>1. entries[p] \in Seq(Transports)
  BY DEF PollInv, TypesOfPollers
<1>2. DOMAIN entries[p] = 1 .. Len(entries[p])
  BY <1>1
<1>3. \A i \in 1 .. Len(entries[p]) : entries[p][i] \in Transports
  BY <1>1
<1>4. \A i \in 1 .. Len(entries[p]) : PollerOf(entries[p][i]) = p
  BY DEF PollInv, TypesOfPollers
<1>5. t \in Range(entries[p]) <=> \E i \in 1 .. Len(entries[p]) : entries[p][i] = t
  BY <1>2 DEF Range
<1> QED BY <1>3, <1>4, <1>5

\* What is polled is a descriptor of the transport.
LEMMA PolledFd ==
  ASSUME IInv, NEW t \in Transports
  PROVE  /\ FdOf(t) \in {transport[t].receive_fd, transport[t].send_fd}
         /\ FdOf(t) \in Fds => FdOf(t) \in SocketsOf(t) /\ socket[FdOf(t)].open /\ IsOpen(t)
BY DEF FdOf, SocketsOf, IsOpen, IInv, OwnedSockets

\* No descriptor is polled for two transports.
LEMMA PolledApart ==
  ASSUME IInv, NEW t \in Transports, NEW u \in Transports, FdOf(t) = FdOf(u), FdOf(t) \in Fds
  PROVE  t = u
BY PolledFd DEF IInv, SocketsApart

\* The steps that leave the lists and the descriptors alone.
LEMMA PollUnchanged ==
  ASSUME PollInv, UNCHANGED <<transport, pollers, reopened>>
  PROVE  PollInv'
<1>1. \A t : FdOf(t)' = FdOf(t)
  BY DEF FdOf
<1> QED BY <1>1 DEF PollInv, TypesOfPollers, Watched, Listed, pollers, PollerOf

\* A transport that is not open is opened: nothing watched it.
LEMMA PollOpened ==
  ASSUME IInv, PollInv, NEW t \in Transports, ~IsOpen(t), UNCHANGED pollers,
         \A u \in Transports : u # t => transport'[u] = transport[u],
         reopened' = reopened \cup ({t} \cap Range(entries[PollerOf(t)]))
  PROVE  PollInv'
<1>1. entries' = entries /\ epoll' = epoll
  BY DEF pollers
<1>2. \A u \in Transports : u # t => FdOf(u)' = FdOf(u)
  BY DEF FdOf
<1>3. FdOf(t) \notin Fds
  BY PolledFd
<1>4. TypesOfPollers'
  BY <1>1 DEF PollInv, TypesOfPollers, PollerOf
<1>5. Watched'
  <2>1. SUFFICES ASSUME NEW p \in Pollers, NEW fd \in Fds, NEW e,
                        e = epoll[p][fd], e # None
                 PROVE  e \in Range(entries[p]) /\ FdOf(e)' = fd
    BY <1>1 DEF Watched
  <2>2. e \in Range(entries[p]) /\ FdOf(e) = fd
    BY <2>1 DEF PollInv, Watched
  <2>3. e \in Transports /\ e # t
    BY <1>3, <2>2, InList
  <2> QED BY <1>2, <2>2, <2>3
<1>6. Listed'
  <2>1. SUFFICES ASSUME NEW p \in Pollers, NEW u \in Range(entries[p]) \ reopened'
                 PROVE  /\ Once(entries[p], u)
                        /\ FdOf(u)' \in Fds => epoll[p][FdOf(u)'] = u
    BY <1>1 DEF Listed
  <2>2. u \in Transports /\ PollerOf(u) = p /\ u # t /\ u \notin reopened
    BY <2>1, InList
  <2> QED BY <1>2, <2>1, <2>2 DEF PollInv, Listed
<1> QED BY <1>4, <1>5, <1>6 DEF PollInv

\* Every outcome of open_datagram_channel().
LEMMA PollOpenAttempt ==
  ASSUME IInv, PollInv, NEW t \in Transports, OpenAttempt(t)
  PROVE  PollInv'
<1> USE DEF IInv, TypesOfSockets
<1>1. CASE NoPortLeft(t)
  BY <1>1, PollOpened DEF NoPortLeft
<1>2. CASE BindFails(t)
  BY <1>2, PollUnchanged DEF BindFails
<1>3. ASSUME NEW port, NEW send \in BOOLEAN, Bound(t, port), Opened(t, port, send)
      PROVE  PollInv'
  BY <1>3, PollOpened DEF Bound, Opened
<1>4. CASE NonblockingFails(t)
  BY <1>3, <1>4 DEF NonblockingFails
<1>5. CASE Open(t)
  BY <1>3, <1>5 DEF Open
<1>6. CASE SendSocketFails(t)
  <2>1. PICK port : /\ transport' = [transport EXCEPT ![t].bound_address = port]
                    /\ UNCHANGED <<pollers, reopened>>
    BY <1>6 DEF SendSocketFails
  <2>2. \A u \in Transports : /\ transport'[u].receive_fd = transport[u].receive_fd
                              /\ transport'[u].send_fd = transport[u].send_fd
    BY <2>1
  <2>3. \A u \in Transports : FdOf(u)' = FdOf(u)
    BY <2>2 DEF FdOf
  <2>4. entries' = entries /\ epoll' = epoll /\ reopened' = reopened
    BY <2>1 DEF pollers
  <2>5. TypesOfPollers'
    BY <2>4 DEF PollInv, TypesOfPollers, PollerOf
  <2>6. Watched'
    <3>1. \A p \in Pollers : \A fd \in Fds : epoll[p][fd] # None => epoll[p][fd] \in Transports
      BY InList DEF PollInv, Watched
    <3> QED BY <2>3, <2>4, <3>1 DEF PollInv, Watched
  <2>7. Listed'
    <3>1. \A p \in Pollers : \A u \in Range(entries[p]) : u \in Transports
      BY InList
    <3> QED BY <2>3, <2>4, <3>1 DEF PollInv, Listed
  <2> QED BY <2>5, <2>6, <2>7 DEF PollInv
<1> QED BY <1>1, <1>2, <1>4, <1>5, <1>6 DEF OpenAttempt

\* The kernel has forgotten the descriptors that are closed.
LEMMA PollClose ==
  ASSUME IInv, PollInv, NEW t \in Transports, Close(t)
  PROVE  PollInv'
<1>1. /\ entries' = entries /\ reopened' = reopened
      /\ epoll' = [p \in Pollers |-> [fd \in Fds |-> IF fd \in SocketsOf(t) THEN None
                                                     ELSE epoll[p][fd]]]
      /\ transport' = [transport EXCEPT ![t].receive_fd = -1, ![t].send_fd = -1]
  BY DEF Close, CloseSockets
<1>2. \A u \in Transports : u # t => FdOf(u)' = FdOf(u)
  BY <1>1 DEF FdOf, IInv, TypesOfSockets
<1>3. FdOf(t)' \notin Fds
  BY <1>1, PortsAssumption DEF FdOf, IInv, TypesOfSockets
<1>4. TypesOfPollers'
  BY <1>1 DEF PollInv, TypesOfPollers, PollerOf
<1>5. Watched'
  <2>1. SUFFICES ASSUME NEW p \in Pollers, NEW fd \in Fds \ SocketsOf(t), NEW e,
                        e = epoll[p][fd], e # None
                 PROVE  e \in Range(entries[p]) /\ FdOf(e)' = fd
    BY <1>1 DEF Watched
  <2>2. e \in Range(entries[p]) /\ FdOf(e) = fd
    BY <2>1 DEF PollInv, Watched
  <2>3. e \in Transports /\ e # t
    BY <2>2, InList, PolledFd
  <2> QED BY <1>2, <2>2, <2>3
<1>6. Listed'
  <2>1. SUFFICES ASSUME NEW p \in Pollers, NEW u \in Range(entries[p]) \ reopened
                 PROVE  /\ Once(entries[p], u)
                        /\ FdOf(u)' \in Fds => epoll'[p][FdOf(u)'] = u
    BY <1>1 DEF Listed
  <2>2. Once(entries[p], u) /\ (FdOf(u) \in Fds => epoll[p][FdOf(u)] = u)
    BY <2>1 DEF PollInv, Listed
  <2>3. ASSUME u # t, FdOf(u) \in Fds
        PROVE  FdOf(u) \notin SocketsOf(t)
    BY <2>3, InList, PolledFd DEF IInv, SocketsApart
  <2>4. u \in Transports
    BY InList
  <2>5. CASE u = t
    BY <1>3, <2>2, <2>5
  <2>6. CASE u # t
    BY <1>1, <1>2, <2>2, <2>3, <2>4, <2>6
  <2> QED BY <2>5, <2>6
<1> QED BY <1>4, <1>5, <1>6 DEF PollInv

\* epoll takes a descriptor that is not watched: a listed transport is not listed
\* again, unless it was reopened.
LEMMA PollRegister ==
  ASSUME IInv, PollInv, NEW t \in Transports, Register(t)
  PROVE  PollInv'
<1> DEFINE p == PollerOf(t)
           list == entries[p]
<1>1. /\ p \in Pollers /\ FdOf(t) \in Fds /\ epoll[p][FdOf(t)] = None
      /\ entries' = [entries EXCEPT ![p] = Append(list, t)]
      /\ epoll' = [epoll EXCEPT ![p][FdOf(t)] = t]
      /\ transport' = transport /\ reopened' = reopened
  BY DEF Register, Pollers, PollerOf
<1>2. list \in Seq(Transports) /\ None \notin Transports
  BY <1>1, PortsAssumption DEF PollInv, TypesOfPollers
<1>3. \A u : FdOf(u)' = FdOf(u)
  BY <1>1 DEF FdOf
<1> HIDE DEF p
<1>4. /\ entries'[p] = Append(list, t)
      /\ \A q \in Pollers : q # p => entries'[q] = entries[q] /\ epoll'[q] = epoll[q]
      /\ epoll'[p] = [epoll[p] EXCEPT ![FdOf(t)] = t]
      /\ epoll[p] \in [Fds -> Transports \cup {None}]
  BY <1>1 DEF PollInv, TypesOfPollers
<1>5. /\ Append(list, t) \in Seq(Transports) /\ Len(Append(list, t)) = Len(list) + 1
      /\ Append(list, t)[Len(list) + 1] = t
      /\ \A i \in 1 .. Len(list) : Append(list, t)[i] = list[i]
  BY <1>2
<1>6. Len(list) \in Nat /\ \A i \in 1 .. Len(list) + 1 : i = Len(list) + 1 \/ i \in 1 .. Len(list)
  BY <1>2
<1>7. TypesOfPollers'
  <2>1. entries' \in [Pollers -> Seq(Transports)]
    BY <1>1, <1>5 DEF PollInv, TypesOfPollers
  <2>2. epoll' \in [Pollers -> [Fds -> Transports \cup {None}]]
    BY <1>1, <1>4 DEF PollInv, TypesOfPollers
  <2>3. ASSUME NEW q \in Pollers, NEW i \in 1 .. Len(entries'[q])
        PROVE  PollerOf(entries'[q][i]) = q
    <3>1. CASE q # p
      BY <1>4, <2>3, <3>1 DEF PollInv, TypesOfPollers
    <3>2. CASE q = p
      <4>1. \A j \in 1 .. Len(list) : PollerOf(list[j]) = p
        BY <1>1 DEF PollInv, TypesOfPollers
      <4>2. PollerOf(t) = p
        BY DEF p
      <4>3. i = Len(list) + 1 \/ i \in 1 .. Len(list)
        BY <1>4, <1>5, <1>6, <2>3, <3>2
      <4> QED BY <1>4, <1>5, <3>2, <4>1, <4>2, <4>3
    <3> QED BY <3>1, <3>2
  <2> QED BY <2>1, <2>2, <2>3 DEF TypesOfPollers, PollerOf
<1>8. \A u : u \in Range(Append(list, t)) <=> u = t \/ u \in Range(list)
  <2>1. DOMAIN list = 1 .. Len(list) /\ DOMAIN Append(list, t) = 1 .. Len(list) + 1
    BY <1>2, <1>5
  <2> QED BY <1>5, <1>6, <2>1 DEF Range
<1>9. Watched'
  <2>1. SUFFICES ASSUME NEW q \in Pollers, NEW fd \in Fds, NEW e, e = epoll'[q][fd], e # None
                 PROVE  e \in Range(entries'[q]) /\ FdOf(e) = fd
    BY <1>3 DEF Watched
  <2>2. e = epoll[q][fd] => e \in Range(entries[q]) /\ FdOf(e) = fd
    BY <2>1 DEF PollInv, Watched
  <2>3. CASE q = p /\ fd = FdOf(t)
    BY <1>4, <1>8, <2>1, <2>3
  <2>4. CASE q # p \/ fd # FdOf(t)
    BY <1>4, <1>8, <2>1, <2>2, <2>4
  <2> QED BY <2>3, <2>4
<1>10. Listed'
  <2>1. SUFFICES ASSUME NEW q \in Pollers, NEW u \in Range(entries'[q]) \ reopened
                 PROVE  /\ Once(entries'[q], u)
                        /\ FdOf(u) \in Fds => epoll'[q][FdOf(u)] = u
    BY <1>1, <1>3 DEF Listed
  <2>2. u \in Range(entries[q]) =>
          Once(entries[q], u) /\ (FdOf(u) \in Fds => epoll[q][FdOf(u)] = u)
    BY <2>1 DEF PollInv, Listed
  <2>3. CASE q # p
    BY <1>4, <2>1, <2>2, <2>3
  <2>4. CASE q = p /\ u = t
    <3>1. t \notin Range(list)
      BY <1>1, <1>2, <2>2, <2>4
    <3>2. \A i \in 1 .. Len(list) : list[i] # t
      BY <1>1, <3>1, InList
    <3>3. Once(Append(list, t), t)
      BY <1>5, <1>6, <3>2 DEF Once
    <3> QED BY <1>1, <1>4, <2>4, <3>3
  <2>5. CASE q = p /\ u # t
    <3>1. u \in Range(list)
      BY <1>4, <1>8, <2>1, <2>5
    <3>2. Once(list, u) /\ (FdOf(u) \in Fds => epoll[p][FdOf(u)] = u)
      BY <2>2, <2>5, <3>1
    <3>3. Once(Append(list, t), u)
      <4>1. PICK i \in 1 .. Len(list) :
              list[i] = u /\ \A j \in 1 .. Len(list) : list[j] = u => j = i
        BY <3>2 DEF Once
      <4>2. i \in 1 .. Len(list) + 1
        BY <1>6
      <4> QED BY <1>5, <1>6, <2>5, <4>1, <4>2 DEF Once
    <3>4. u \in Transports
      BY <1>1, <3>1, InList
    <3>5. FdOf(u) \in Fds => FdOf(u) # FdOf(t)
      BY <1>1, <1>2, <3>2, <3>4
    <3> QED BY <1>4, <2>5, <3>2, <3>3, <3>5
  <2> QED BY <2>3, <2>4, <2>5
<1> QED BY <1>7, <1>9, <1>10 DEF PollInv

\* The entries that are erased are no longer watched, and the rest is as it was.
LEMMA PollRemove ==
  ASSUME IInv, PollInv, NEW p \in Pollers, NEW gone \in SUBSET Range(entries[p]),
         NEW rest \in Seq(Transports), NEW m, Keeps(m, rest, entries[p], gone),
         RemoveEntries(p, gone, rest)
  PROVE  PollInv'
<1> DEFINE list == entries[p]
<1>1. /\ entries' = [entries EXCEPT ![p] = rest]
      /\ epoll' = [epoll EXCEPT ![p] = [fd \in Fds |-> IF \E t \in gone : FdOf(t) = fd
                                                       THEN None ELSE epoll[p][fd]]]
      /\ reopened' = reopened \ (gone \ Range(rest))
      /\ transport' = transport
  BY DEF RemoveEntries, PollInv, TypesOfPollers
<1>2. /\ entries'[p] = rest
      /\ \A q \in Pollers : q # p => entries'[q] = entries[q] /\ epoll'[q] = epoll[q]
      /\ \A fd \in Fds : epoll'[p][fd] = IF \E t \in gone : FdOf(t) = fd
                                         THEN None ELSE epoll[p][fd]
      /\ list \in Seq(Transports)
  BY <1>1 DEF PollInv, TypesOfPollers
<1>3. \A u : FdOf(u)' = FdOf(u)
  BY <1>1 DEF FdOf
<1>4. /\ \A i \in 1 .. Len(rest) : m[i] \in 1 .. Len(list) /\ rest[i] = list[m[i]]
      /\ \A i, j \in 1 .. Len(rest) : m[i] = m[j] => i = j
      /\ \A j \in 1 .. Len(list) : list[j] \notin gone => \E i \in 1 .. Len(rest) : m[i] = j
      /\ \A t \in gone : \E j \in 1 .. Len(list) :
           list[j] = t /\ \A i \in 1 .. Len(rest) : m[i] # j
  BY DEF Keeps
<1> HIDE DEF list
<1>5. \A u : u \in Range(rest) <=> \E i \in 1 .. Len(rest) : rest[i] = u
  <2>1. DOMAIN rest = 1 .. Len(rest)
    OBVIOUS
  <2> QED BY <2>1 DEF Range
<1>6. \A u : u \in Range(list) <=> \E i \in 1 .. Len(list) : list[i] = u
  BY InList DEF list
<1>7. gone \subseteq Transports /\ \A t \in gone : PollerOf(t) = p
  BY InList
<1>8. Range(rest) \subseteq Range(list) /\ \A u \in Range(list) \ gone : u \in Range(rest)
  <2>1. ASSUME NEW u \in Range(rest) PROVE u \in Range(list)
    <3>1. PICK i \in 1 .. Len(rest) : rest[i] = u
      BY <1>5
    <3>2. m[i] \in 1 .. Len(list) /\ list[m[i]] = u
      BY <1>4, <3>1
    <3> QED BY <1>6, <3>2
  <2>2. ASSUME NEW u \in Range(list) \ gone PROVE u \in Range(rest)
    <3>1. PICK j \in 1 .. Len(list) : list[j] = u
      BY <1>6
    <3>2. PICK i \in 1 .. Len(rest) : m[i] = j
      BY <1>4, <3>1
    <3>3. rest[i] = u
      BY <1>4, <3>1, <3>2
    <3> QED BY <1>5, <3>3
  <2> QED BY <2>1, <2>2
<1>9. TypesOfPollers'
  <2>1. entries' \in [Pollers -> Seq(Transports)]
    BY <1>1 DEF PollInv, TypesOfPollers
  <2>2. epoll' \in [Pollers -> [Fds -> Transports \cup {None}]]
    BY <1>1 DEF PollInv, TypesOfPollers
  <2>3. ASSUME NEW q \in Pollers, NEW i \in 1 .. Len(entries'[q])
        PROVE  PollerOf(entries'[q][i]) = q
    <3>1. CASE q # p
      BY <1>2, <2>3, <3>1 DEF PollInv, TypesOfPollers
    <3>2. CASE q = p
      <4>1. \A j \in 1 .. Len(list) : PollerOf(list[j]) = p
        BY DEF PollInv, TypesOfPollers, list
      <4>2. i \in 1 .. Len(rest) /\ entries'[q][i] = rest[i]
        BY <1>2, <2>3, <3>2
      <4> QED BY <1>4, <3>2, <4>1, <4>2
    <3> QED BY <3>1, <3>2
  <2> QED BY <2>1, <2>2, <2>3 DEF TypesOfPollers, PollerOf
<1>10. Watched'
  <2>1. SUFFICES ASSUME NEW q \in Pollers, NEW fd \in Fds, NEW e, e = epoll'[q][fd], e # None
                 PROVE  e \in Range(entries'[q]) /\ FdOf(e) = fd
    BY <1>3 DEF Watched
  <2>2. e = epoll[q][fd]
    BY <1>2, <2>1
  <2>3. e \in Range(entries[q]) /\ FdOf(e) = fd
    BY <2>1, <2>2 DEF PollInv, Watched
  <2>4. q = p => e \notin gone
    BY <1>2, <2>1, <2>3
  <2> QED BY <1>2, <1>8, <2>3, <2>4 DEF list
<1>11. Listed'
  <2>1. SUFFICES ASSUME NEW q \in Pollers, NEW u \in Range(entries'[q]) \ reopened'
                 PROVE  /\ Once(entries'[q], u)
                        /\ FdOf(u) \in Fds => epoll'[q][FdOf(u)] = u
    BY <1>3 DEF Listed
  <2>2. u \in Range(entries[q])
    BY <1>2, <1>8, <2>1 DEF list
  <2>3. u \in Transports /\ PollerOf(u) = q
    BY <2>2, InList
  <2>4. u \notin reopened
    BY <1>1, <1>2, <1>7, <2>1, <2>3
  <2>5. Once(entries[q], u) /\ (FdOf(u) \in Fds => epoll[q][FdOf(u)] = u)
    BY <2>2, <2>4 DEF PollInv, Listed
  <2>6. CASE q # p
    BY <1>2, <2>5, <2>6
  <2>7. CASE q = p
    <3>1. PICK k \in 1 .. Len(list) :
            list[k] = u /\ \A j \in 1 .. Len(list) : list[j] = u => j = k
      BY <2>5, <2>7 DEF Once, list
    <3>2. PICK i \in 1 .. Len(rest) : rest[i] = u
      BY <1>2, <1>5, <2>1, <2>7
    <3>3. u \notin gone
      BY <1>4, <3>1, <3>2
    <3>4. Once(rest, u)
      <4>1. ASSUME NEW j \in 1 .. Len(rest), rest[j] = u PROVE j = i
        <5>1. m[j] \in 1 .. Len(list) /\ list[m[j]] = u
          BY <1>4, <4>1
        <5>2. m[i] \in 1 .. Len(list) /\ list[m[i]] = u
          BY <1>4, <3>2
        <5>3. m[j] = k /\ m[i] = k
          BY <3>1, <5>1, <5>2
        <5> QED BY <1>4, <5>3
      <4> QED BY <3>2, <4>1 DEF Once
    <3>5. FdOf(u) \in Fds => \A t \in gone : FdOf(t) # FdOf(u)
      BY <1>7, <2>3, <3>3, PolledApart
    <3> QED BY <1>2, <2>5, <2>7, <3>4, <3>5
  <2> QED BY <2>6, <2>7
<1> QED BY <1>9, <1>10, <1>11 DEF PollInv

\* cancel_read() and cancel_read_for_all_transports().
LEMMA PollCancel ==
  ASSUME IInv, PollInv, NEW t \in Transports,
         cancel_read(t) \/ cancel_read_for_all_transports(EndpointOf[t])
  PROVE  PollInv'
<1>1. CASE cancel_read(t)
  <2> DEFINE p == PollerOf(t)
  <2>1. /\ p \in Pollers /\ t \in Range(entries[p])
        /\ RemoveEntries(p, {t}, RemoveFirst(entries[p], t))
    BY <1>1 DEF cancel_read, Registered, PollerOf, Pollers
  <2>2. entries[p] \in Seq(Transports)
    BY <2>1 DEF PollInv, TypesOfPollers
  <2> HIDE DEF p
  <2>3. PICK m : Keeps(m, RemoveFirst(entries[p], t), entries[p], {t})
    BY <2>1, <2>2, RemoveFirstKeeps
  <2>4. RemoveFirst(entries[p], t) \in Seq(Transports)
    BY <2>1, <2>2, RemoveFirstKeeps
  <2> QED BY <2>1, <2>3, <2>4, PollRemove
<1>2. CASE cancel_read_for_all_transports(EndpointOf[t])
  <2> DEFINE list == entries["data"]
             gone == {u \in Range(list) : EndpointOf[u] = EndpointOf[t]}
  <2>1. RemoveEntries("data", gone, Without(list, gone))
    BY <1>2 DEF cancel_read_for_all_transports
  <2>2. "data" \in Pollers /\ list \in Seq(Transports) /\ gone \in SUBSET Range(list)
    BY DEF Pollers, PollInv, TypesOfPollers
  <2> HIDE DEF gone
  <2>3. PICK m : Keeps(m, Without(list, gone), list, gone)
    BY <2>2, WithoutKeeps
  <2>4. Without(list, gone) \in Seq(Transports)
    BY <2>2, WithoutKeeps
  <2> QED BY <2>1, <2>2, <2>3, <2>4, PollRemove
<1> QED BY <1>1, <1>2
-----------------------------------------------------------------------------
(* The theorems.                                                            *)

\* What each part of the invariant says, stays true in every step.
THEOREM InvCorrect == Spec => []IInv
<1>1. Init => IInv
  <2> SUFFICES ASSUME Init PROVE IInv
    OBVIOUS
  <2>1. TypesOfSockets
    BY DEF Init, TypesOfSockets, Fd, Socket, Closed
  <2>2. \A t \in Transports : transport[t].receive_fd \notin Fds /\ transport[t].send_fd \notin Fds
    BY PortsAssumption DEF Init
  <2>3. \A t \in Transports : ~IsOpen(t) /\ SocketsOf(t) = {}
    BY <2>2 DEF IsOpen, SocketsOf
  <2>4. port_set = {}
    BY DEF Init
  <2> QED BY <2>1, <2>2, <2>3, <2>4
          DEF IInv, OwnedSockets, SocketsApart, SharedPortsCollided,
              BoundPortsReserved, ReservationsBound
<1>2. IInv /\ [Next]_vars => IInv'
  <2> SUFFICES ASSUME IInv, [Next]_vars PROVE IInv'
    OBVIOUS
  <2>1. ASSUME NEW t \in Transports, OpenAttempt(t) PROVE IInv'
    <3>1. CASE NoPortLeft(t)
      BY <3>1, NoPortLeftKeeps
    <3>2. CASE BindFails(t)
      BY <3>2, BindFailsKeeps
    <3>3. CASE NonblockingFails(t)
      BY <3>3, OpenedKeeps DEF NonblockingFails
    <3>4. CASE Open(t)
      BY <3>4, OpenedKeeps DEF Open
    <3>5. CASE SendSocketFails(t)
      BY <3>5, SendSocketFailsKeeps
    <3> QED BY <2>1, <3>1, <3>2, <3>3, <3>4, <3>5 DEF OpenAttempt
  <2>2. ASSUME NEW t \in Transports, Close(t) PROVE IInv'
    BY <2>2, CloseKeeps
  <2>3. ASSUME NEW t \in Transports,
               \/ Register(t) \/ cancel_read(t)
               \/ cancel_read_for_all_transports(EndpointOf[t])
        PROVE  IInv'
    BY <2>3, Unchanged
       DEF Register, cancel_read, cancel_read_for_all_transports, RemoveEntries, ports
  <2>4. ASSUME \/ \E p \in Pollers : Poll(p)
               \/ \E fd \in Fds : Arrive(fd)
        PROVE  IInv'
    BY <2>4, Unchanged DEF Poll, Arrive, ports
  <2>5. CASE UNCHANGED vars
    BY <2>5, Unchanged DEF vars, ports
  <2> QED BY <2>1, <2>2, <2>3, <2>4, <2>5 DEF Next
<1> QED BY <1>1, <1>2, PTL DEF Spec

\* Neither a failed open nor a close frees the port of another transport, whatever
\* the number of transports, except the collisions that BoundPortsReserved names.
THEOREM PortsStayReserved == Spec => []BoundPortsReserved
BY InvCorrect, PTL DEF IInv

\* No step of open_datagram_channel() that fails leaves a reservation behind.
THEOREM NoReservationLeaks == Spec => []ReservationsBound
BY InvCorrect, PTL DEF IInv

\* What the epoll sets point to is in the lists, and what is in the lists is watched.
THEOREM PollInvCorrect == Spec => []PollInv
<1>1. Init => PollInv
  <2> SUFFICES ASSUME Init PROVE PollInv
    OBVIOUS
  <2>1. /\ entries = [p \in Pollers |-> <<>>]
        /\ epoll = [p \in Pollers |-> [fd \in Fds |-> None]]
    BY DEF Init
  <2>2. TypesOfPollers
    BY <2>1 DEF TypesOfPollers
  <2>3. \A p \in Pollers : Range(entries[p]) = {}
    BY <2>1 DEF Range
  <2> QED BY <2>1, <2>2, <2>3 DEF PollInv, Watched, Listed
<1>2. IInv /\ PollInv /\ [Next]_vars => PollInv'
  <2> SUFFICES ASSUME IInv, PollInv, [Next]_vars PROVE PollInv'
    OBVIOUS
  <2>1. ASSUME NEW t \in Transports, OpenAttempt(t) PROVE PollInv'
    BY <2>1, PollOpenAttempt
  <2>2. ASSUME NEW t \in Transports, Close(t) PROVE PollInv'
    BY <2>2, PollClose
  <2>3. ASSUME NEW t \in Transports, Register(t) PROVE PollInv'
    BY <2>3, PollRegister
  <2>4. ASSUME NEW t \in Transports,
               cancel_read(t) \/ cancel_read_for_all_transports(EndpointOf[t])
        PROVE  PollInv'
    BY <2>4, PollCancel
  <2>5. ASSUME \/ \E p \in Pollers : Poll(p)
               \/ \E fd \in Fds : Arrive(fd)
        PROVE  PollInv'
    BY <2>5, PollUnchanged DEF Poll, Arrive
  <2>6. CASE UNCHANGED vars
    BY <2>6, PollUnchanged DEF vars
  <2> QED BY <2>1, <2>2, <2>3, <2>4, <2>5, <2>6 DEF Next
<1> QED BY <1>1, <1>2, InvCorrect, PTL DEF Spec

\* An event of epoll always comes with an entry that is in the list and has that
\* descriptor, however descriptors are reused, transports closed, opened again and
\* cancelled, for any number of them.
THEOREM EventsHaveEntries == Spec => []EventsFindTheirEntry
BY PollInvCorrect, PollInvMeaning, PTL
=============================================================================
