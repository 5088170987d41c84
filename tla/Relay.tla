---------------------------------- MODULE Relay ----------------------------------
(***************************************************************************)
(* The client (tunnel_client.cpp), one connection of the server            *)
(* (tunnel_server.cpp) and what lies between and behind them: applications *)
(* ask, the client gives each a conversation, the server gives each        *)
(* conversation a socket to the service, and the answers come back.        *)
(*                                                                         *)
(* A packet is the conversation number it carries and, which no program    *)
(* sees, the application whose question it is or answers.  The encoder and *)
(* decoder are the network here: packets are lost, late and out of order.  *)
(* Ages count ticks as in ConvManager.                                     *)
(***************************************************************************)
EXTENDS ConvManager, FiniteSets

CONSTANTS
  Apps,        \* addresses of applications
  Conv,        \* conversation numbers
  Fds,         \* descriptors the server's kernel hands out, numbers
  MaxConvNum,  \* max_conv_num
  None,        \* no application
  MaxNet,      \* bound: packets between client and server
  MaxDelayed,  \* bound: datagrams in the delay queue of one end
  MaxFd64      \* bound: sockets opened in a behaviour

ASSUME RelayAssumption ==
  /\ Fds \subseteq Nat
  /\ None \notin Apps
  /\ {MaxConvNum, MaxNet, MaxDelayed, MaxFd64} \subseteq Nat

VARIABLES
  client,      \* conv_manager.c of the client: applications by conversation
  server,      \* conv_manager.s of the connection: fd64s by conversation
  client_delay,\* delayed answers at the client, records [addr, asker]
  server_delay,\* delayed questions at the server, records [fd64, asker]
  fd64_to_fd, counter,  \* fd_manager of the server
  sockets,     \* the server's kernel: per descriptor the number of the socket
  net,         \* packets on the way, records [to, conv, asker]
  askers,      \* per socket the applications whose questions left through it
  drawn_by,    \* history: the application that drew a conversation number last
  collided,    \* history: a number was drawn that was still remembered somewhere
  strayed      \* history: before that, an answer reached somebody else

serverVars == <<server, server_delay, fd64_to_fd, counter, sockets, askers>>
clientVars == <<client, client_delay, strayed, drawn_by, collided>>
vars == <<clientVars, serverVars, net>>

Fd64 == 0 .. MaxFd64 - 1

Packet(to, conv, asker) == [to |-> to, conv |-> conv, asker |-> asker]

\* A packet may be lost, also because there is no room on the way.
Sent(on_the_way, p) ==
  {on_the_way} \cup (IF Cardinality(on_the_way) < MaxNet THEN {on_the_way \cup {p}} ELSE {})

-----------------------------------------------------------------------------
(* The client *)

\* client_process_local_packet for an application that has a conversation.
AskAgain(a) ==
  /\ a \in DOMAIN client.data_to_conv
  /\ LET c == client.data_to_conv[a]
     IN  /\ client' = UpdateActiveTime(client, c)
         /\ net' \in Sent(net, Packet("server", c, a))
  /\ UNCHANGED <<client_delay, strayed, drawn_by, collided, serverVars>>

\* The number is still in use for another application somewhere.
Remembered(c, a) ==
  /\ drawn_by[c] \notin {a, None}
  /\ c \in Convs(server) \/ \E p \in net : p.conv = c

\* Mutant of GetNewConv: numbers in use are drawn as well.
GetAnyConv == Conv

\* get_new_conv draws until the number is not one of its own.
GetNewConv == Conv \ Convs(client)

\* The same for a new application, which is ignored when max_conv_num is reached.
AskFirst(a) ==
  /\ a \notin DOMAIN client.data_to_conv
  /\ Cardinality(Convs(client)) < MaxConvNum
  /\ \E c \in GetNewConv :
       /\ client' = UpdateActiveTime(InsertConv(client, c, a), c)
       /\ net' \in Sent(net, Packet("server", c, a))
       /\ drawn_by' = [drawn_by EXCEPT ![c] = a]
       /\ collided' = (collided \/ Remembered(c, a))
  /\ UNCHANGED <<client_delay, strayed, serverVars>>

Reaches(addr, asker) == strayed' = (strayed \/ (~collided /\ addr # asker))

\* client_process_remote_packet for a conversation that exists; delay_send takes the
\* application's address with it, or sends at once.
ClientReceives(p) ==
  /\ p \in net /\ p.to = "client"
  /\ IsConvUsed(client, p.conv)
  /\ client' = UpdateActiveTime(client, p.conv)
  /\ net' = net \ {p}
  /\ LET addr == client.conv_to_data[p.conv]
     IN  \/ /\ Reaches(addr, p.asker)
            /\ UNCHANGED client_delay
         \/ /\ Cardinality(client_delay) < MaxDelayed
            /\ client_delay' = client_delay \cup {[addr |-> addr, asker |-> p.asker]}
            /\ UNCHANGED strayed
  /\ UNCHANGED <<drawn_by, collided, serverVars>>

ClientDrops(p) ==
  /\ p \in net /\ p.to = "client"
  /\ ~IsConvUsed(client, p.conv)
  /\ net' = net \ {p}
  /\ UNCHANGED <<clientVars, serverVars>>

ClientDelayEnds(d) ==
  /\ d \in client_delay
  /\ client_delay' = client_delay \ {d}
  /\ Reaches(d.addr, d.asker)
  /\ UNCHANGED <<client, drawn_by, collided, serverVars, net>>

\* conn_timer_cb of the client.
ClientTimer ==
  /\ ClearIsDue(client)
  /\ client' = ClearInactive(client)
  /\ UNCHANGED <<client_delay, strayed, drawn_by, collided, serverVars, net>>

-----------------------------------------------------------------------------
(* The server *)

Leaves(users, socket, asker) == [users EXCEPT ![socket] = @ \cup {asker}]

\* delay_send: the question waits under the fd64 of its socket, or leaves at once.
Forward(fd64, fd, asker) ==
  \/ /\ askers' = Leaves(askers, sockets'[fd], asker)
     /\ UNCHANGED server_delay
  \/ /\ Cardinality(server_delay) < MaxDelayed
     /\ server_delay' = server_delay \cup {[fd64 |-> fd64, asker |-> asker]}
     /\ UNCHANGED askers

\* server_process_tunnel_packet for a conversation that has its socket.
ServerReceives(p) ==
  /\ p \in net /\ p.to = "server"
  /\ IsConvUsed(server, p.conv)
  /\ server' = UpdateActiveTime(server, p.conv)
  /\ UNCHANGED <<fd64_to_fd, counter, sockets>>
  /\ LET fd64 == server.conv_to_data[p.conv]
     IN  Forward(fd64, fd64_to_fd[fd64], p.asker)
  /\ net' = net \ {p}
  /\ UNCHANGED clientVars

Free == Fds \ DOMAIN sockets

\* The same for a new conversation: it gets a socket with the lowest free descriptor.
ServerOpens(p) ==
  /\ p \in net /\ p.to = "server"
  /\ ~IsConvUsed(server, p.conv)
  /\ Cardinality(Convs(server)) < MaxConvNum
  /\ counter < MaxFd64
  /\ \E fd \in Free :
       /\ \A other \in Free : fd <= other
       /\ sockets' = With(sockets, fd, counter)
       /\ fd64_to_fd' = With(fd64_to_fd, counter, fd)
       /\ Forward(counter, fd, p.asker)
  /\ counter' = counter + 1
  /\ server' = UpdateActiveTime(InsertConv(server, p.conv, counter), p.conv)
  /\ net' = net \ {p}
  /\ UNCHANGED clientVars

\* max_conv_num is reached or no socket can be made.
ServerDrops(p) ==
  /\ p \in net /\ p.to = "server"
  /\ ~IsConvUsed(server, p.conv)
  /\ Cardinality(Convs(server)) >= MaxConvNum \/ Free = {}
  /\ net' = net \ {p}
  /\ UNCHANGED <<clientVars, serverVars>>

\* my_send: the datagram is dropped if its socket has been closed.
ServerDelayEnds(d) ==
  /\ d \in server_delay
  /\ server_delay' = server_delay \ {d}
  /\ askers' = IF d.fd64 \in DOMAIN fd64_to_fd
               THEN Leaves(askers, sockets[fd64_to_fd[d.fd64]], d.asker) ELSE askers
  /\ UNCHANGED <<server, fd64_to_fd, counter, sockets, clientVars, net>>

\* remote_cb and server_process_remote_packet: the service answers a question.
ServiceAnswers(fd64) ==
  /\ fd64 \in DOMAIN fd64_to_fd
  /\ LET c == server.data_to_conv[fd64]
     IN  /\ server' = UpdateActiveTime(server, c)
         /\ \E a \in askers[sockets[fd64_to_fd[fd64]]] :
              net' \in Sent(net, Packet("client", c, a))
  /\ UNCHANGED <<clientVars, server_delay, fd64_to_fd, counter, sockets, askers>>

\* conn_timer_cb of the server: the sockets of the conversations cleared are closed.
ServerTimer ==
  /\ ClearIsDue(server)
  /\ server' = ClearInactive(server)
  /\ LET closed == DOMAIN server.data_to_conv \ DOMAIN server'.data_to_conv
     IN  /\ fd64_to_fd' = [x \in DOMAIN fd64_to_fd \ closed |-> fd64_to_fd[x]]
         /\ sockets' = [fd \in DOMAIN sockets \ {fd64_to_fd[x] : x \in closed} |-> sockets[fd]]
  /\ UNCHANGED <<clientVars, server_delay, counter, askers, net>>

-----------------------------------------------------------------------------
Tick ==
  /\ client' = Aged(client)
  /\ server' = Aged(server)
  /\ UNCHANGED <<client_delay, strayed, drawn_by, collided, server_delay, fd64_to_fd,
                 counter, sockets, askers, net>>

Init ==
  /\ \E stamp \in Stamps : client = NewManager(stamp)
  /\ \E stamp \in Stamps : server = NewManager(stamp)
  /\ client_delay = {} /\ server_delay = {}
  /\ fd64_to_fd = << >> /\ counter = 0 /\ sockets = << >>
  /\ net = {}
  /\ askers = [s \in Fd64 |-> {}]
  /\ drawn_by = [c \in Conv |-> None]
  /\ collided = FALSE /\ strayed = FALSE

\* The client's callbacks: of its listening socket, of its socket to the server, of
\* its timer, and before the loop sleeps.
ClientListens == \E a \in Apps : AskAgain(a) \/ AskFirst(a)

ClientRemote == \E p \in net : ClientReceives(p) \/ ClientDrops(p)

ClientPrepares == \E d \in client_delay : ClientDelayEnds(d)

Client == ClientListens \/ ClientRemote \/ ClientPrepares \/ ClientTimer

\* The server's.
ServerListens == \E p \in net : ServerReceives(p) \/ ServerOpens(p) \/ ServerDrops(p)

ServerRemote == \E fd64 \in Fd64 : ServiceAnswers(fd64)

ServerPrepares == \E d \in server_delay : ServerDelayEnds(d)

Server == ServerListens \/ ServerRemote \/ ServerPrepares \/ ServerTimer

Next == Client \/ Server \/ Tick

Spec == Init /\ [][Next]_vars

-----------------------------------------------------------------------------
(* Properties *)

\* Unless a number is drawn while the other end or a packet still remembers it for
\* another application, which 32 random bits make unlikely, applications are kept
\* apart: no answer reaches an application that did not ask, and the service never
\* sees two applications behind one source port, although conversations expire at
\* both ends at different times, descriptors are reused and datagrams are delayed.
ApplicationsAreKeptApart ==
  /\ ~strayed
  /\ ~collided => \A s \in Fd64 : Cardinality(askers[s]) <= 1
================================================================================
