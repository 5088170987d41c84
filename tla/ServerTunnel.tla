------------------------------ MODULE ServerTunnel ------------------------------
(***************************************************************************)
(* The server's event loop (tunnel_server.cpp): its connections            *)
(* (conn_manager_t, connection.cpp), the conversations of each, the        *)
(* sockets to the remote service (fd_manager_t) and the libev watchers     *)
(* whose callbacks hold a pointer to a connection.                         *)
(*                                                                         *)
(* The loop is single-threaded.  A callback without a loop is one step; a  *)
(* callback with one is a step per iteration, and while `work' holds an    *)
(* unfinished loop no other callback starts.  Ages count ticks as in       *)
(* ConvManager.                                                            *)
(***************************************************************************)
EXTENDS ConvManager, FiniteSets, TLC

CONSTANTS
  Addr,              \* addresses of clients
  Conv,              \* conversation numbers the clients use
  Fd,                \* file descriptors the kernel hands out for new sockets
  End,               \* the end iterator of conn_manager.mp
  ConnTimeout,       \* server_conn_timeout
  ConnClearInterval, ConnClearRatio, ConnClearMin,
  MaxConnNum,        \* max_conn_num
  MaxConvNum,        \* max_conv_num
  HeapStamps,        \* what new conn_info_t may leave in last_clear_time, as ages
  MaxBatch,          \* bound: packets recovered from one datagram
  MaxFd64            \* bound: sockets created in a behaviour

ASSUME ServerAssumption ==
  /\ Fd \subseteq Nat
  /\ End \notin Addr
  /\ ConnTimeout \in 0 .. Ancient
  /\ ConnClearInterval \in 0 .. Ancient - 1
  /\ ConnClearRatio \in Nat \ {0}
  /\ HeapStamps \subseteq Stamps
  /\ {ConnClearMin, MaxConnNum, MaxConvNum, MaxBatch, MaxFd64} \subseteq Nat

VARIABLES
  mp,           \* conn_manager.mp: the addresses in iteration order
  clear_it,     \* conn_manager.clear_it: an address, or End
  last_clear,   \* conn_manager.last_clear_time, as an age
  conv_manager, \* the conversations of every connection
  last_active,  \* last_active_time of every connection, as an age
  fd64_to_fd, fd_to_fd64, fd_info, counter,  \* fd_manager; fd_info is the addr
  sockets,      \* the kernel: open sockets
  io,           \* libev: active io watchers, records [fd, fd64, conn]
  timers,       \* libev: active timers, records [kind, conn]
  work,         \* the loop the running callback is in, or Idle
  conn_idle,    \* history: ticks since a packet of the connection was handled
  conv_idle     \* history: ticks since a packet of the conversation was handled

conns == <<mp, clear_it, last_clear, conv_manager, last_active>>
fds == <<fd64_to_fd, fd_to_fd64, fd_info, counter, sockets>>
history == <<conn_idle, conv_idle>>
vars == <<conns, fds, io, timers, work, history>>

Fd64 == 0 .. MaxFd64 - 1   \* the code counts from 2^32 + 99 and never wraps

Idle == [job |-> "none"]

Live == DOMAIN conv_manager

ConnTimer(a) == [kind |-> "conn", conn |-> a]
FecTimer(a) == [kind |-> "fec", conn |-> a]

Init ==
  /\ mp = << >> /\ clear_it = End /\ last_clear = Ancient
  /\ conv_manager = << >> /\ last_active = << >>
  /\ fd64_to_fd = << >> /\ fd_to_fd64 = << >> /\ fd_info = << >>
  /\ counter = 0
  /\ sockets = {}
  /\ io = {} /\ timers = {}
  /\ work = Idle
  /\ conn_idle = [a \in Addr |-> Ancient]
  /\ conv_idle = [x \in Addr \X Conv |-> Ancient]

-----------------------------------------------------------------------------
(* A datagram from a client: server_process_tunnel_packet.  Which packets  *)
(* the decoder recovers from it is its business; any few may come out.     *)

\* The loop over the recovered packets is done when none is left.
Delivering(a, left) ==
  IF left = << >> THEN Idle ELSE [job |-> "deliver", conn |-> a, left |-> left]

Batches == UNION {[1 .. n -> Conv] : n \in 0 .. MaxBatch}

PacketOfConnection(a, batch) ==
  /\ work = Idle
  /\ a \in Live
  /\ last_active' = [last_active EXCEPT ![a] = 0]
  /\ work' = Delivering(a, batch)
  /\ conn_idle' = [conn_idle EXCEPT ![a] = 0]
  /\ UNCHANGED <<mp, clear_it, last_clear, conv_manager, fds, io, timers, conv_idle>>

\* conn_info_t: the manager of a new connection has no conversations, and its
\* last_clear_time is whatever the heap held: its constructor sets a local variable
\* of that name.
conn_info_t(a) ==
  \E garbage \in HeapStamps : conv_manager' = With(conv_manager, a, NewManager(garbage))

\* The hash table may put the new connection anywhere in its order.
find_insert(a) ==
  /\ \E i \in 1 .. Len(mp) + 1 : mp' = InsertAt(mp, i, a)
  /\ conn_info_t(a)

PacketOfNewConnection(a, batch) ==
  /\ work = Idle
  /\ a \notin Live
  /\ Len(mp) < MaxConnNum
  /\ find_insert(a)
  /\ last_active' = With(last_active, a, 0)
  /\ timers' = timers \cup {ConnTimer(a)}
  /\ work' = Delivering(a, batch)
  /\ conn_idle' = [conn_idle EXCEPT ![a] = 0]
  /\ UNCHANGED <<clear_it, last_clear, fds, io, conv_idle>>

NextPacket == work' = Delivering(work.conn, Tail(work.left))

DeliverToKnown ==
  /\ work.job = "deliver"
  /\ LET a == work.conn
         c == Head(work.left)
     IN /\ IsConvUsed(conv_manager[a], c)
        /\ conv_manager' = [conv_manager EXCEPT ![a] = UpdateActiveTime(@, c)]
        /\ conv_idle' = [conv_idle EXCEPT ![<<a, c>>] = 0]
  /\ NextPacket
  /\ UNCHANGED <<mp, clear_it, last_clear, last_active, fds, io, timers, conn_idle>>

\* The kernel hands out the lowest free descriptor.
new_connected_socket2(fd) ==
  /\ fd \notin sockets
  /\ \A other \in Fd \ sockets : fd <= other
  /\ sockets' = sockets \cup {fd}

\* fd_manager.create, and the info that goes with the number.
create(fd, a) ==
  /\ counter < MaxFd64
  /\ counter' = counter + 1
  /\ fd_to_fd64' = With(fd_to_fd64, fd, counter)
  /\ fd64_to_fd' = With(fd64_to_fd, counter, fd)
  /\ fd_info' = With(fd_info, counter, a)

DeliverToNew ==
  /\ work.job = "deliver"
  /\ LET a == work.conn
         c == Head(work.left)
         m == conv_manager[a]
     IN /\ ~IsConvUsed(m, c)
        /\ Cardinality(Convs(m)) < MaxConvNum
        /\ \E fd \in Fd : /\ new_connected_socket2(fd)
                         /\ create(fd, a)
                         /\ io' = io \cup {[fd |-> fd, fd64 |-> counter, conn |-> a]}
        /\ conv_manager' =
             [conv_manager EXCEPT ![a] = UpdateActiveTime(InsertConv(m, c, counter), c)]
        /\ conv_idle' = [conv_idle EXCEPT ![<<a, c>>] = 0]
  /\ NextPacket
  /\ UNCHANGED <<mp, clear_it, last_clear, last_active, timers, conn_idle>>

\* max_conv_num is reached, or the socket cannot be made.
DropUndeliverable ==
  /\ work.job = "deliver"
  /\ ~IsConvUsed(conv_manager[work.conn], Head(work.left))
  /\ NextPacket
  /\ UNCHANGED <<conns, fds, io, timers, history>>

-----------------------------------------------------------------------------
(* A packet from the remote service: remote_cb and                         *)
(* server_process_remote_packet.  The encoder starts or stops its flush    *)
(* timer, or leaves it: FecEncode says when.                               *)

\* Mutant: packets from the remote service do not keep the connection alive.
RemotePacketUnnoticed(w) ==
  /\ work = Idle
  /\ LET m == conv_manager[w.conn]
         c == m.data_to_conv[w.fd64]
     IN /\ conv_manager' = [conv_manager EXCEPT ![w.conn] = UpdateActiveTime(m, c)]
        /\ conv_idle' = [conv_idle EXCEPT ![<<w.conn, c>>] = 0]
  /\ conn_idle' = [conn_idle EXCEPT ![w.conn] = 0]
  /\ UNCHANGED <<mp, clear_it, last_clear, last_active, timers, fds, io, work>>

RemotePacket(w) ==
  /\ work = Idle
  /\ w.fd64 \in DOMAIN fd64_to_fd
  /\ LET m == conv_manager[w.conn]
         c == m.data_to_conv[w.fd64]
     IN /\ conv_manager' = [conv_manager EXCEPT ![w.conn] = UpdateActiveTime(m, c)]
        /\ conv_idle' = [conv_idle EXCEPT ![<<w.conn, c>>] = 0]
  /\ last_active' = [last_active EXCEPT ![w.conn] = 0]
  /\ conn_idle' = [conn_idle EXCEPT ![w.conn] = 0]
  /\ \/ timers' = timers \cup {FecTimer(w.conn)}
     \/ timers' = timers \ {FecTimer(w.conn)}
  /\ UNCHANGED <<mp, clear_it, last_clear, fds, io, work>>

\* fec_encode_cb: the encoder flushes and stops its timer.
FecTimeout(a) ==
  /\ work = Idle
  /\ FecTimer(a) \in timers
  /\ timers' = timers \ {FecTimer(a)}
  /\ UNCHANGED <<conns, fds, io, work, history>>

-----------------------------------------------------------------------------
(* Closing: server_clear_function stops the watcher, fd64_close forgets    *)
(* the descriptor and closes the socket.                                   *)

\* fd64_close, for each number in F.
fd64_close(F) ==
  LET closed == {fd64_to_fd[x] : x \in F}
  IN /\ fd64_to_fd' = [x \in DOMAIN fd64_to_fd \ F |-> fd64_to_fd[x]]
     /\ fd_to_fd64' = [fd \in DOMAIN fd_to_fd64 \ closed |-> fd_to_fd64[fd]]
     /\ fd_info' = [x \in DOMAIN fd_info \ F |-> fd_info[x]]
     /\ sockets' = sockets \ closed
     /\ UNCHANGED counter

\* Mutant: the watcher of a closed socket stays in the loop.
CloseKeepingWatcher(F) == fd64_close(F) /\ UNCHANGED io

Close(F) == fd64_close(F) /\ io' = {w \in io : w.fd64 \notin F}

(* The timer of a connection: conv_manager.clear_inactive.  It expires the *)
(* longest idle conversations, a few at a time.                            *)

ConvClearing(a, left) == [job |-> "convs", conn |-> a, left |-> left]

ConnTimerFires(a) ==
  /\ work = Idle
  /\ ConnTimer(a) \in timers
  /\ ClearIsDue(conv_manager[a])
  /\ conv_manager' = [conv_manager EXCEPT ![a].last_clear = 0]
  /\ work' = ConvClearing(a, NumToClean(Len(conv_manager[a].lru),
                                        ConvClearRatio, ConvClearMin))
  /\ UNCHANGED <<mp, clear_it, last_clear, last_active, fds, io, timers, history>>

ClearConv ==
  /\ work.job = "convs"
  /\ LET a == work.conn
         m == conv_manager[a]
         c == Oldest(m).key
     IN /\ work.left > 0
        /\ OldestExpired(m)
        /\ Close({m.conv_to_data[c]})
        /\ conv_manager' = [conv_manager EXCEPT ![a] = EraseConv(m, c)]
  /\ work' = ConvClearing(work.conn, work.left - 1)
  /\ UNCHANGED <<mp, clear_it, last_clear, last_active, timers, history>>

ClearConvDone ==
  /\ work.job = "convs"
  /\ \/ work.left = 0
     \/ ~OldestExpired(conv_manager[work.conn])
  /\ work' = Idle
  /\ UNCHANGED <<conns, fds, io, timers, history>>

-----------------------------------------------------------------------------
(* The global timer: conn_manager.clear_inactive walks the connections,    *)
(* starting where the last clearing stopped.                               *)

ConnClearing(it, left) == [job |-> "conns", it |-> it, left |-> left]

GlobalTimerFires ==
  /\ work = Idle
  /\ last_clear > ConnClearInterval
  /\ last_clear' = 0
  /\ work' = ConnClearing(clear_it, NumToClean(Len(mp), ConnClearRatio, ConnClearMin))
  /\ UNCHANGED <<mp, clear_it, conv_manager, last_active, fds, io, timers, history>>

\* The end of the table wraps to its beginning.
Visited == IF work.it = End THEN Head(mp) ELSE work.it

Position(a) == CHOOSE i \in DOMAIN mp : mp[i] = a

\* it++
After(a) == IF Position(a) = Len(mp) THEN End ELSE mp[Position(a) + 1]

MayVisit == work.job = "conns" /\ work.left > 0 /\ mp # << >>

Abandoned(a) == Convs(conv_manager[a]) = {} /\ last_active[a] >= ConnTimeout

KeepConn ==
  /\ MayVisit
  /\ ~Abandoned(Visited)
  /\ work' = ConnClearing(After(Visited), work.left - 1)
  /\ UNCHANGED <<conns, fds, io, timers, history>>

\* Mutant: the encoder's destructor leaves its timer running.
TimersWithoutConnTimer(a) == timers \ {ConnTimer(a)}

\* ~fec_encode_manager_t stops the encoder's timer.
clear_all(a, running) == running \ {FecTimer(a)}

\* ~conn_info_t stops the connection's timer, and with it the encoder goes.
TimersWithout(a) == clear_all(a, timers \ {ConnTimer(a)})

\* ~conv_manager_t closes the sockets of the conversations that are left.
clear(m) == Close({m.conv_to_data[c] : c \in Convs(m)})

EraseConn ==
  /\ MayVisit
  /\ LET a == Visited
         m == conv_manager[a]
     IN /\ Abandoned(a)
        /\ mp' = RemoveAt(mp, Position(a))
        /\ clear(m)
        /\ conv_manager' = Without(conv_manager, a)
        /\ last_active' = Without(last_active, a)
        /\ timers' = TimersWithout(a)
  /\ work' = ConnClearing(After(Visited), work.left - 1)
  /\ UNCHANGED <<clear_it, last_clear, history>>

\* Mutant: the iterator of the last clearing is not written back.
ClearConnForgetful ==
  /\ work.job = "conns"
  /\ ~MayVisit
  /\ work' = Idle
  /\ UNCHANGED <<conns, fds, io, timers, history>>

ClearConnDone ==
  /\ work.job = "conns"
  /\ ~MayVisit
  /\ clear_it' = work.it
  /\ work' = Idle
  /\ UNCHANGED <<mp, last_clear, conv_manager, last_active, fds, io, timers, history>>

-----------------------------------------------------------------------------
Tick ==
  /\ work = Idle
  /\ last_clear' = Older(last_clear)
  /\ conv_manager' = [a \in Live |-> Aged(conv_manager[a])]
  /\ last_active' = [a \in Live |-> Older(last_active[a])]
  /\ conn_idle' = [a \in Addr |-> Older(conn_idle[a])]
  /\ conv_idle' = [x \in Addr \X Conv |-> Older(conv_idle[x])]
  /\ UNCHANGED <<mp, clear_it, fds, io, timers, work>>

(* The watchers that tunnel_server_event_loop starts, and those that the    *)
(* callbacks start themselves.                                             *)

local_listen_cb ==
  \E a \in Addr, batch \in Batches :
    PacketOfConnection(a, batch) \/ PacketOfNewConnection(a, batch)

remote_cb == \E w \in io : RemotePacket(w)

fec_encode_cb == \E a \in Addr : FecTimeout(a)

conn_timer_cb == \E a \in Addr : ConnTimerFires(a)

global_timer_cb == GlobalTimerFires

Iterate ==
  \/ DeliverToKnown \/ DeliverToNew \/ DropUndeliverable
  \/ ClearConv \/ ClearConvDone
  \/ KeepConn \/ EraseConn \/ ClearConnDone

Next ==
  \/ local_listen_cb \/ remote_cb
  \/ fec_encode_cb \/ conn_timer_cb \/ global_timer_cb
  \/ Iterate
  \/ Tick

Spec == Init /\ [][Next]_vars

\* A callback returns, time passes, and the loop serves every timer even while
\* packets keep coming.
FairSpec ==
  /\ Spec
  /\ WF_vars(Iterate)
  /\ SF_vars(Tick)
  /\ SF_vars(GlobalTimerFires)
  /\ \A a \in Addr : SF_vars(ConnTimerFires(a))

-----------------------------------------------------------------------------
(* Properties *)

\* Every variable has its type.
TypeOK ==
  /\ mp \in Seq(Addr)
  /\ clear_it \in Addr \cup {End}
  /\ last_clear \in Ages
  /\ Live \subseteq Addr
  /\ \A a \in Live : IsManager(conv_manager[a], Conv, Fd64)
  /\ DOMAIN last_active = Live
  /\ \A a \in Live : last_active[a] \in Ages
  /\ DOMAIN fd64_to_fd \subseteq Fd64
  /\ \A x \in DOMAIN fd64_to_fd : fd64_to_fd[x] \in Fd
  /\ DOMAIN fd_to_fd64 \subseteq Fd
  /\ \A fd \in DOMAIN fd_to_fd64 : fd_to_fd64[fd] \in Fd64
  /\ DOMAIN fd_info \subseteq Fd64
  /\ \A x \in DOMAIN fd_info : fd_info[x] \in Addr
  /\ counter \in 0 .. MaxFd64
  /\ sockets \subseteq Fd
  /\ io \subseteq [fd : Fd, fd64 : Fd64, conn : Addr]
  /\ timers \subseteq [kind : {"conn", "fec"}, conn : Addr]
  /\ conn_idle \in [Addr -> Ages]
  /\ conv_idle \in [Addr \X Conv -> Ages]

\* Who uses a socket: the conversations that map to it.
Owners(x) ==
  {y \in Live \X Conv : /\ IsConvUsed(conv_manager[y[1]], y[2])
                        /\ conv_manager[y[1]].conv_to_data[y[2]] = x}

\* Every open socket belongs to exactly one conversation of one live connection,
\* the one fd_info and its watcher name, and no conversation lacks its socket:
\* none leaks, none is shared, and the assertions of server_clear_function,
\* server_process_remote_packet and fd_manager hold.
SocketsHaveOneOwner ==
  /\ sockets = DOMAIN fd_to_fd64
  /\ \A fd \in sockets : fd_to_fd64[fd] \in DOMAIN fd64_to_fd
                         /\ fd64_to_fd[fd_to_fd64[fd]] = fd
  /\ \A x \in DOMAIN fd64_to_fd :
       /\ fd64_to_fd[x] \in sockets
       /\ x \in DOMAIN fd_info
       /\ Cardinality(Owners(x)) = 1
       /\ \A y \in Owners(x) : y[1] = fd_info[x]
  /\ \A a \in Live : \A c \in Convs(conv_manager[a]) :
       conv_manager[a].conv_to_data[c] \in DOMAIN fd64_to_fd
  /\ io = {[fd |-> fd64_to_fd[x], fd64 |-> x, conn |-> fd_info[x]] :
             x \in DOMAIN fd64_to_fd}

\* The order of the last uses the code keeps is the true one, and so are its
\* ages: clear_inactive0 stops at the first entry that is young enough.
ManagersMatchTraffic ==
  \A a \in Live :
    /\ Consistent(conv_manager[a])
    /\ last_active[a] = conn_idle[a]
    /\ \A i \in DOMAIN conv_manager[a].lru :
         conv_manager[a].lru[i].age = conv_idle[<<a, conv_manager[a].lru[i].key>>]

\* Whatever holds on to a connection finds it alive: the callbacks the event loop may
\* still start, and the iterator of the clearing, also the one kept between two
\* clearings, although connections come and go; and no live connection is without its
\* timer (connection.h:258-272, connection.cpp:85-140).
PointersAreLive ==
  /\ \A w \in io : w.conn \in Live
  /\ \A t \in timers : t.conn \in Live
  /\ \A a \in Live : ConnTimer(a) \in timers
  /\ Live = {mp[i] : i \in DOMAIN mp} /\ Cardinality(Live) = Len(mp)
  /\ work.job = "conns" => work.it \in Live \cup {End}
  /\ work.job # "conns" => clear_it \in Live \cup {End}

\* A conversation disappears only after conv_timeout without a packet in either
\* direction, a connection only after server_conn_timeout and without conversations.
OnlyIdleIsCleared ==
  [][\A a \in Live :
       /\ a \notin Live' => conn_idle[a] >= ConnTimeout /\ Convs(conv_manager[a]) = {}
       /\ a \in Live' => \A c \in Convs(conv_manager[a]) :
            ~IsConvUsed(conv_manager'[a], c) => conv_idle[<<a, c>>] >= ConvTimeout]_vars

\* While a conversation lives it keeps its socket: the remote service sees one
\* source port for it.
ConversationKeepsSocket ==
  [][\A a \in Live \cap Live' :
       \A c \in Convs(conv_manager[a]) \cap Convs(conv_manager'[a]) :
         conv_manager'[a].conv_to_data[c] = conv_manager[a].conv_to_data[c]]_vars

\* A connection whose client has gone silent is forgotten, however busy the others
\* are and whatever conversations it had; a conversation nobody uses gives its socket
\* back, however busy the others of its connection are.
SilenceIsForgotten ==
  \A a \in Addr :
    /\ <>[](conn_idle[a] # 0) => <>[](a \notin Live)
    /\ \A c \in Conv :
         <>[](conv_idle[<<a, c>>] # 0) =>
           <>[](a \notin Live \/ ~IsConvUsed(conv_manager[a], c))

================================================================================
