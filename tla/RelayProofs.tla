------------------------------ MODULE RelayProofs ------------------------------
(***************************************************************************)
(* Applications are kept apart, for any number of applications, numbers,   *)
(* descriptors, sockets and packets.                                       *)
(*                                                                         *)
(* The argument follows a question.  A number in use at the client belongs *)
(* to the application that drew it last; while no number is drawn that is  *)
(* remembered elsewhere, every packet on the way and every socket of the   *)
(* server belong to the application that drew their number.                *)
(***************************************************************************)
EXTENDS Relay, FiniteSetTheorems, TLAPS

-----------------------------------------------------------------------------
(* What the operators on managers do to the two tables *)

IsRecord(m) ==
  m = [conv_to_data |-> m.conv_to_data, data_to_conv |-> m.data_to_conv,
       lru |-> m.lru, last_clear |-> m.last_clear]

\* The two tables are inverse to each other.
MutuallyInverse(m) ==
  /\ \A c \in DOMAIN m.conv_to_data :
       /\ m.conv_to_data[c] \in DOMAIN m.data_to_conv
       /\ m.data_to_conv[m.conv_to_data[c]] = c
  /\ \A d \in DOMAIN m.data_to_conv :
       /\ m.data_to_conv[d] \in DOMAIN m.conv_to_data
       /\ m.conv_to_data[m.data_to_conv[d]] = d

SameTables(m, n) ==
  /\ n.conv_to_data = m.conv_to_data
  /\ n.data_to_conv = m.data_to_conv

LEMMA UpdateKeepsTables ==
  ASSUME NEW m, NEW c, IsRecord(m)
  PROVE  IsRecord(UpdateActiveTime(m, c)) /\ SameTables(m, UpdateActiveTime(m, c))
<1> DEFINE q == LruPushFront(LruErase(m.lru, c), c)
<1> HIDE DEF q
<1>1. UpdateActiveTime(m, c) = [m EXCEPT !.lru = q]
  BY DEF UpdateActiveTime, q
<1>2. [m EXCEPT !.lru = q] =
        [conv_to_data |-> m.conv_to_data, data_to_conv |-> m.data_to_conv,
         lru |-> q, last_clear |-> m.last_clear]
  BY DEF IsRecord
<1> QED  BY <1>1, <1>2 DEF IsRecord, SameTables

LEMMA AgedKeepsTables ==
  ASSUME NEW m, IsRecord(m)
  PROVE  IsRecord(Aged(m)) /\ SameTables(m, Aged(m))
<1> DEFINE q == [i \in DOMAIN m.lru |-> AgedEntry(m.lru[i])]
           t == Older(m.last_clear)
<1> HIDE DEF q, t
<1>1. Aged(m) = [m EXCEPT !.lru = q, !.last_clear = t]
  BY DEF Aged, q, t
<1>2. Aged(m) =
        [conv_to_data |-> m.conv_to_data, data_to_conv |-> m.data_to_conv,
         lru |-> q, last_clear |-> t]
  BY <1>1 DEF IsRecord
<1> QED  BY <1>1, <1>2 DEF IsRecord, SameTables

\* A new conversation enters both tables.
LEMMA InsertTables ==
  ASSUME NEW m, NEW c, NEW d, IsRecord(m)
  PROVE  LET n == UpdateActiveTime(InsertConv(m, c, d), c)
         IN  /\ IsRecord(n)
             /\ n.conv_to_data = With(m.conv_to_data, c, d)
             /\ n.data_to_conv = With(m.data_to_conv, d, c)
<1> DEFINE q == LruPushFront(m.lru, c)
           f == With(m.conv_to_data, c, d)
           g == With(m.data_to_conv, d, c)
<1>1. InsertConv(m, c, d) = [m EXCEPT !.data_to_conv = g, !.conv_to_data = f, !.lru = q]
  BY DEF InsertConv
<1> HIDE DEF q, f, g
<1>2. InsertConv(m, c, d) =
        [conv_to_data |-> f, data_to_conv |-> g, lru |-> q, last_clear |-> m.last_clear]
  BY <1>1 DEF IsRecord
<1>3. /\ IsRecord(InsertConv(m, c, d))
      /\ InsertConv(m, c, d).conv_to_data = f
      /\ InsertConv(m, c, d).data_to_conv = g
  BY <1>2 DEF IsRecord
<1>4. f = With(m.conv_to_data, c, d) /\ g = With(m.data_to_conv, d, c)
  BY DEF f, g
<1> QED  BY <1>3, <1>4, UpdateKeepsTables DEF SameTables

LEMMA InsertInverse ==
  ASSUME NEW m, NEW n, NEW c, NEW d, MutuallyInverse(m),
         c \notin DOMAIN m.conv_to_data, d \notin DOMAIN m.data_to_conv,
         n.conv_to_data = With(m.conv_to_data, c, d),
         n.data_to_conv = With(m.data_to_conv, d, c)
  PROVE  MutuallyInverse(n)
BY DEF MutuallyInverse, With

\* A clearing takes the same conversations out of both tables.
LEMMA ClearTables ==
  ASSUME NEW m, IsRecord(m)
  PROVE  LET n    == ClearInactive(m)
             gone == Cleared(m)
         IN  /\ IsRecord(n)
             /\ gone \subseteq DOMAIN m.conv_to_data
             /\ n.conv_to_data =
                  [c \in DOMAIN m.conv_to_data \ gone |-> m.conv_to_data[c]]
             /\ n.data_to_conv =
                  [d \in DOMAIN m.data_to_conv \ {m.conv_to_data[c] : c \in gone} |->
                     m.data_to_conv[d]]
<1> DEFINE gone == Cleared(m)
           q == SelectSeq(m.lru, LAMBDA e : e.key \notin gone)
           f == [c \in DOMAIN m.conv_to_data \ gone |-> m.conv_to_data[c]]
           g == [d \in DOMAIN m.data_to_conv \ {m.conv_to_data[c] : c \in gone} |->
                   m.data_to_conv[d]]
<1>1. ClearInactive(m) =
        [m EXCEPT !.conv_to_data = f, !.data_to_conv = g, !.lru = q, !.last_clear = 0]
  BY DEF ClearInactive
<1>2. gone \subseteq DOMAIN m.conv_to_data
  BY DEF Cleared, Convs
<1> HIDE DEF q, f, g
<1>3. ClearInactive(m) =
        [conv_to_data |-> f, data_to_conv |-> g, lru |-> q, last_clear |-> 0]
  BY <1>1 DEF IsRecord
<1>4. /\ IsRecord(ClearInactive(m))
      /\ ClearInactive(m).conv_to_data = f
      /\ ClearInactive(m).data_to_conv = g
  BY <1>3 DEF IsRecord
<1> QED  BY <1>2, <1>4 DEF f, g

LEMMA ClearInverse ==
  ASSUME NEW m, IsRecord(m), MutuallyInverse(m)
  PROVE  MutuallyInverse(ClearInactive(m))
<1> DEFINE n    == ClearInactive(m)
           gone == Cleared(m)
<1>1. /\ gone \subseteq DOMAIN m.conv_to_data
      /\ n.conv_to_data =
           [c \in DOMAIN m.conv_to_data \ gone |-> m.conv_to_data[c]]
      /\ n.data_to_conv =
           [d \in DOMAIN m.data_to_conv \ {m.conv_to_data[c] : c \in gone} |->
              m.data_to_conv[d]]
  BY ClearTables
<1> HIDE DEF n, gone
<1>2. MutuallyInverse(n)
  BY <1>1 DEF MutuallyInverse
<1> QED  BY <1>2 DEF n

LEMMA NewManagerTables ==
  ASSUME NEW t
  PROVE  /\ IsRecord(NewManager(t)) /\ MutuallyInverse(NewManager(t))
         /\ DOMAIN NewManager(t).conv_to_data = {}
         /\ DOMAIN NewManager(t).data_to_conv = {}
BY DEF IsRecord, NewManager, MutuallyInverse

-----------------------------------------------------------------------------
(* The inductive invariant *)

TablesOK ==
  /\ IsRecord(client) /\ MutuallyInverse(client)
  /\ IsRecord(server) /\ MutuallyInverse(server)
  /\ DOMAIN client.conv_to_data \subseteq Conv
  /\ DOMAIN client.data_to_conv \subseteq Apps
  /\ DOMAIN server.conv_to_data \subseteq Conv

\* Every conversation of the server has an open socket, numbered once and for all.
SocketsOK ==
  /\ counter \in Nat
  /\ DOMAIN server.data_to_conv = DOMAIN fd64_to_fd
  /\ \A x \in DOMAIN fd64_to_fd :
       /\ x \in Fd64 /\ x < counter
       /\ fd64_to_fd[x] \in DOMAIN sockets
       /\ sockets[fd64_to_fd[x]] = x
  /\ \A d \in server_delay : d.fd64 \in Fd64 /\ d.fd64 < counter

\* Whose packets are on the way, and whose questions left.
UsersOK ==
  /\ net \subseteq [to : {"client", "server"}, conv : Conv, asker : Apps]
  /\ server_delay \subseteq [fd64 : Fd64, asker : Apps]
  /\ client_delay \subseteq [addr : Apps, asker : Apps]
  /\ askers \in [Fd64 -> SUBSET Apps]
  /\ \A s \in Fd64 : s >= counter => askers[s] = {}
  /\ drawn_by \in [Conv -> Apps \cup {None}]

\* A number the client uses belongs to whoever drew it last.
DrawnOK ==
  \A c \in DOMAIN client.conv_to_data : drawn_by[c] = client.conv_to_data[c]

\* Without a collision, so does everything that carries the number.
NetOK == \A p \in net : p.asker = drawn_by[p.conv]

ConvOK(c) ==
  LET x == server.conv_to_data[c]
  IN  /\ drawn_by[c] \in Apps
      /\ askers[x] \subseteq {drawn_by[c]}
      /\ \A d \in server_delay : d.fd64 = x => d.asker = drawn_by[c]

OwnersOK == \A c \in DOMAIN server.conv_to_data : ConvOK(c)

OneAsker == \A s \in Fd64 : \E a \in Apps \cup {None} : askers[s] \subseteq {a}

AnswersOK == \A d \in client_delay : d.addr = d.asker

ApartOK == NetOK /\ OwnersOK /\ OneAsker /\ AnswersOK

IInv ==
  /\ TablesOK
  /\ SocketsOK
  /\ UsersOK
  /\ DrawnOK
  /\ ~collided => ApartOK
  /\ ~strayed

LEMMA InitIInv == Init => IInv
<1> SUFFICES ASSUME Init PROVE IInv
  OBVIOUS
<1>1. /\ IsRecord(client) /\ MutuallyInverse(client)
      /\ IsRecord(server) /\ MutuallyInverse(server)
      /\ DOMAIN client.conv_to_data = {} /\ DOMAIN client.data_to_conv = {}
      /\ DOMAIN server.conv_to_data = {} /\ DOMAIN server.data_to_conv = {}
  BY NewManagerTables DEF Init
<1>2. TablesOK
  BY <1>1 DEF TablesOK
<1>3. SocketsOK
  BY <1>1 DEF Init, SocketsOK
<1>4. UsersOK
  BY DEF Init, UsersOK
<1>5. DrawnOK
  BY <1>1 DEF DrawnOK
<1>6. ApartOK
  BY <1>1 DEF Init, ApartOK, NetOK, OwnersOK, OneAsker, AnswersOK
<1> QED  BY <1>2, <1>3, <1>4, <1>5, <1>6 DEF Init, IInv

\* The invariant gives the property.
LEMMA IInvImplies == IInv => ApplicationsAreKeptApart
<1> SUFFICES ASSUME IInv, ~collided, NEW s \in Fd64 PROVE Cardinality(askers[s]) <= 1
  BY DEF IInv, ApplicationsAreKeptApart
<1>1. PICK a : askers[s] \subseteq {a}
  BY DEF IInv, ApartOK, OneAsker
<1>2. IsFiniteSet({a}) /\ Cardinality({a}) = 1
  BY FS_Singleton
<1>3. Cardinality(askers[s]) <= Cardinality({a})
  BY <1>1, <1>2, FS_Subset
<1> QED  BY <1>2, <1>3

-----------------------------------------------------------------------------
(* The tables keep what the callbacks rely on *)

\* What does not touch the client's tables keeps what is known of them.
LEMMA SameClient ==
  ASSUME IInv, IsRecord(client'), SameTables(client, client'),
         drawn_by' = drawn_by
  PROVE  /\ IsRecord(client') /\ MutuallyInverse(client')
         /\ DOMAIN client'.conv_to_data \subseteq Conv
         /\ DOMAIN client'.data_to_conv \subseteq Apps
         /\ DrawnOK'
BY DEF IInv, TablesOK, DrawnOK, MutuallyInverse, SameTables

LEMMA SameServer ==
  ASSUME IInv, IsRecord(server'), SameTables(server, server')
  PROVE  /\ IsRecord(server') /\ MutuallyInverse(server')
         /\ DOMAIN server'.conv_to_data \subseteq Conv
         /\ DOMAIN server'.data_to_conv = DOMAIN fd64_to_fd
BY DEF IInv, TablesOK, SocketsOK, MutuallyInverse, SameTables

LEMMA Unmoved == ASSUME NEW m, IsRecord(m) PROVE SameTables(m, m)
BY DEF SameTables

LEMMA SentPackets ==
  ASSUME NEW p, net' \in Sent(net, p)
  PROVE  net' \subseteq net \cup {p}
BY DEF Sent

-----------------------------------------------------------------------------
(* The client's steps *)

\* A packet sent for a conversation of its own asker joins what is on the way.
LEMMA SentKeepsNet ==
  ASSUME UsersOK, NEW to \in {"client", "server"}, NEW c \in Conv, NEW a \in Apps,
         net' \in Sent(net, Packet(to, c, a))
  PROVE  /\ net' \subseteq [to : {"client", "server"}, conv : Conv, asker : Apps]
         /\ NetOK /\ drawn_by' = drawn_by /\ drawn_by[c] = a => NetOK'
<1>1. net' \subseteq net \cup {Packet(to, c, a)}
  BY SentPackets
<1> QED  BY <1>1 DEF UsersOK, Packet, NetOK

LEMMA AskAgainStep ==
  ASSUME IInv, NEW a \in Apps, AskAgain(a)
  PROVE  IInv'
<1> DEFINE c == client.data_to_conv[a]
<1>1. c \in Conv /\ drawn_by[c] = a
  BY DEF AskAgain, IInv, TablesOK, MutuallyInverse, DrawnOK
<1>2. IsRecord(client') /\ SameTables(client, client')
  BY UpdateKeepsTables DEF AskAgain, IInv, TablesOK
<1>3. TablesOK' /\ DrawnOK'
  BY <1>2, SameClient DEF AskAgain, serverVars, IInv, TablesOK
<1>4. SocketsOK'
  BY DEF AskAgain, serverVars, IInv, SocketsOK
<1>5. /\ net' \subseteq [to : {"client", "server"}, conv : Conv, asker : Apps]
      /\ NetOK => NetOK'
  BY <1>1, SentKeepsNet DEF AskAgain, IInv
<1>6. UsersOK'
  BY <1>5 DEF AskAgain, serverVars, IInv, UsersOK
<1>7. ApartOK => ApartOK'
  BY <1>5 DEF AskAgain, serverVars, ApartOK, OwnersOK, ConvOK, OneAsker, AnswersOK
<1> QED  BY <1>3, <1>4, <1>6, <1>7 DEF AskAgain, IInv

\* Drawing a number hands it to another application only if nobody remembers it.
LEMMA DrawKeepsApart ==
  ASSUME UsersOK, TablesOK, ApartOK, NEW a \in Apps, NEW c \in Conv, ~Remembered(c, a),
         drawn_by' = [drawn_by EXCEPT ![c] = a],
         net' \in Sent(net, Packet("server", c, a)),
         UNCHANGED <<client_delay, serverVars>>
  PROVE  ApartOK'
<1>1. drawn_by[c] = a \/ (c \notin DOMAIN server.conv_to_data /\ \A p \in net : p.conv # c)
  <2>1. CASE drawn_by[c] = None
    BY <2>1, RelayAssumption DEF UsersOK, ApartOK, NetOK, OwnersOK, ConvOK
  <2>2. CASE drawn_by[c] # None
    BY <2>2 DEF Remembered, Convs
  <2> QED  BY <2>1, <2>2
<1>2. \A e \in Conv : drawn_by'[e] = IF e = c THEN a ELSE drawn_by[e]
  BY DEF UsersOK
<1>3. NetOK'
  <2>1. net' \subseteq net \cup {Packet("server", c, a)}
    BY SentPackets
  <2> QED  BY <1>1, <1>2, <2>1 DEF ApartOK, NetOK, UsersOK, Packet
<1>4. OwnersOK'
  <2> SUFFICES ASSUME NEW e \in DOMAIN server.conv_to_data PROVE ConvOK(e)'
    BY DEF OwnersOK, serverVars
  <2>1. e \in Conv /\ drawn_by'[e] = drawn_by[e]
    BY <1>1, <1>2 DEF TablesOK
  <2>2. ConvOK(e)
    BY DEF ApartOK, OwnersOK
  <2> QED  BY <2>1, <2>2 DEF ConvOK, serverVars
<1>5. OneAsker' /\ AnswersOK'
  BY DEF ApartOK, OneAsker, AnswersOK, serverVars
<1> QED  BY <1>3, <1>4, <1>5 DEF ApartOK

LEMMA AskFirstStep ==
  ASSUME IInv, NEW a \in Apps, AskFirst(a)
  PROVE  IInv'
<1>1. PICK c \in Conv \ DOMAIN client.conv_to_data :
        /\ client' = UpdateActiveTime(InsertConv(client, c, a), c)
        /\ net' \in Sent(net, Packet("server", c, a))
        /\ drawn_by' = [drawn_by EXCEPT ![c] = a]
        /\ collided' = (collided \/ Remembered(c, a))
  BY DEF AskFirst, GetNewConv, Convs
<1>2. /\ IsRecord(client')
      /\ client'.conv_to_data = With(client.conv_to_data, c, a)
      /\ client'.data_to_conv = With(client.data_to_conv, a, c)
  BY <1>1, InsertTables DEF IInv, TablesOK
<1>3. MutuallyInverse(client')
  <2>1. a \notin DOMAIN client.data_to_conv /\ MutuallyInverse(client)
    BY DEF AskFirst, IInv, TablesOK
  <2> QED  BY <1>2, <2>1, InsertInverse
<1>4. TablesOK'
  BY <1>2, <1>3 DEF AskFirst, serverVars, IInv, TablesOK, With
<1>5. SocketsOK'
  BY DEF AskFirst, serverVars, IInv, SocketsOK
<1>6. UsersOK'
  <2>1. net' \subseteq [to : {"client", "server"}, conv : Conv, asker : Apps]
    BY <1>1, SentKeepsNet DEF IInv
  <2> QED  BY <1>1, <2>1 DEF AskFirst, serverVars, IInv, UsersOK
<1>7. DrawnOK'
  BY <1>1, <1>2 DEF IInv, DrawnOK, UsersOK, With, TablesOK
<1>8. ~collided' => ApartOK'
  <2> SUFFICES ASSUME ~collided' PROVE ApartOK'
    OBVIOUS
  <2>1. UsersOK /\ TablesOK /\ ApartOK /\ ~Remembered(c, a)
    BY <1>1 DEF IInv
  <2>2. UNCHANGED <<client_delay, serverVars>>
    BY DEF AskFirst
  <2> QED  BY <1>1, <2>1, <2>2, DrawKeepsApart
<1> QED  BY <1>4, <1>5, <1>6, <1>7, <1>8 DEF AskFirst, IInv

\* An answer goes to the application that has the number now, which asked.
LEMMA ClientReceivesStep ==
  ASSUME IInv, NEW p \in net, ClientReceives(p)
  PROVE  IInv'
<1> DEFINE addr == client.conv_to_data[p.conv]
<1>1. /\ addr \in Apps /\ p.asker \in Apps
      /\ ~collided => addr = p.asker
  BY DEF ClientReceives, IsConvUsed, Convs, IInv, TablesOK, MutuallyInverse, UsersOK, DrawnOK,
         ApartOK, NetOK
<1>2. IsRecord(client') /\ SameTables(client, client')
  BY UpdateKeepsTables DEF ClientReceives, IInv, TablesOK
<1>3. TablesOK' /\ DrawnOK'
  BY <1>2, SameClient DEF ClientReceives, serverVars, IInv, TablesOK
<1>4. SocketsOK'
  BY DEF ClientReceives, serverVars, IInv, SocketsOK
<1>5. client_delay' \subseteq client_delay \cup {[addr |-> addr, asker |-> p.asker]}
  BY DEF ClientReceives
<1>6. UsersOK'
  BY <1>1, <1>5 DEF ClientReceives, serverVars, IInv, UsersOK
<1>7. ~collided => ApartOK'
  BY <1>1, <1>5 DEF ClientReceives, serverVars, IInv, ApartOK, NetOK, OwnersOK, ConvOK,
                    OneAsker, AnswersOK
<1>8. ~strayed'
  BY <1>1 DEF ClientReceives, Reaches, IInv
<1> QED  BY <1>3, <1>4, <1>6, <1>7, <1>8 DEF ClientReceives, IInv

LEMMA ClientDropsStep ==
  ASSUME IInv, NEW p \in net, ClientDrops(p)
  PROVE  IInv'
<1>1. TablesOK' /\ SocketsOK' /\ UsersOK' /\ DrawnOK'
  BY DEF ClientDrops, clientVars, serverVars, IInv, TablesOK, SocketsOK, UsersOK, DrawnOK
<1>2. ApartOK => ApartOK'
  BY DEF ClientDrops, clientVars, serverVars, ApartOK, NetOK, OwnersOK, ConvOK, OneAsker,
         AnswersOK
<1> QED  BY <1>1, <1>2 DEF ClientDrops, clientVars, IInv

LEMMA ClientDelayEndsStep ==
  ASSUME IInv, NEW d \in client_delay, ClientDelayEnds(d)
  PROVE  IInv'
<1>1. TablesOK' /\ SocketsOK' /\ UsersOK' /\ DrawnOK'
  BY DEF ClientDelayEnds, serverVars, IInv, TablesOK, SocketsOK, UsersOK, DrawnOK
<1>2. ApartOK => ApartOK'
  BY DEF ClientDelayEnds, serverVars, ApartOK, NetOK, OwnersOK, ConvOK, OneAsker,
         AnswersOK
<1>3. ~strayed'
  BY DEF ClientDelayEnds, Reaches, IInv, ApartOK, AnswersOK
<1> QED  BY <1>1, <1>2, <1>3 DEF ClientDelayEnds, IInv

LEMMA ClientTimerStep ==
  ASSUME IInv, ClientTimer
  PROVE  IInv'
<1> DEFINE gone == Cleared(client)
<1>1. /\ IsRecord(client')
      /\ client'.conv_to_data =
           [c \in DOMAIN client.conv_to_data \ gone |-> client.conv_to_data[c]]
      /\ DOMAIN client'.data_to_conv \subseteq DOMAIN client.data_to_conv
  <2>1. IsRecord(client) /\ client' = ClearInactive(client)
    BY DEF ClientTimer, IInv, TablesOK
  <2>2. client'.data_to_conv =
          [d \in DOMAIN client.data_to_conv \ {client.conv_to_data[c] : c \in gone} |->
             client.data_to_conv[d]]
    BY <2>1, ClearTables
  <2>3. /\ IsRecord(client')
        /\ client'.conv_to_data =
             [c \in DOMAIN client.conv_to_data \ gone |-> client.conv_to_data[c]]
    BY <2>1, ClearTables
  <2> QED  BY <2>2, <2>3
<1>2. MutuallyInverse(client')
  BY ClearInverse DEF ClientTimer, IInv, TablesOK
<1> HIDE DEF gone
<1>3. TablesOK' /\ SocketsOK' /\ UsersOK'
  <2>1. TablesOK'
    BY <1>1, <1>2 DEF ClientTimer, serverVars, IInv, TablesOK
  <2>2. SocketsOK' /\ UsersOK'
    BY DEF ClientTimer, serverVars, IInv, SocketsOK, UsersOK
  <2> QED  BY <2>1, <2>2
<1>4. DrawnOK'
  BY <1>1 DEF ClientTimer, IInv, DrawnOK
<1>5. ApartOK => ApartOK'
  BY DEF ClientTimer, serverVars, ApartOK, NetOK, OwnersOK, ConvOK, OneAsker, AnswersOK
<1> QED  BY <1>3, <1>4, <1>5 DEF ClientTimer, IInv

-----------------------------------------------------------------------------
(* The server's steps *)

\* A question that waits or leaves under the number of its own socket.
LEMMA ForwardKeepsUsers ==
  ASSUME UsersOK, counter \in Nat, counter' \in Nat, counter <= counter',
         NEW x \in Fd64, x < counter', NEW fd, NEW a \in Apps,
         sockets'[fd] = x, Forward(x, fd, a)
  PROVE  /\ server_delay' \subseteq server_delay \cup {[fd64 |-> x, asker |-> a]}
         /\ \A s \in Fd64 : askers'[s] = askers[s] \/ (s = x /\ askers'[s] = askers[s] \cup {a})
         /\ server_delay' \subseteq [fd64 : Fd64, asker : Apps]
         /\ askers' \in [Fd64 -> SUBSET Apps]
         /\ \A s \in Fd64 : s >= counter' => askers'[s] = {}
<1>1. CASE /\ askers' = Leaves(askers, x, a)
           /\ UNCHANGED server_delay
  BY <1>1 DEF Leaves, UsersOK, Fd64
<1>2. CASE /\ server_delay' = server_delay \cup {[fd64 |-> x, asker |-> a]}
           /\ UNCHANGED askers
  BY <1>2 DEF UsersOK, Fd64
<1> QED  BY <1>1, <1>2 DEF Forward

LEMMA ServerReceivesStep ==
  ASSUME IInv, NEW p \in net, ServerReceives(p)
  PROVE  IInv'
<1> DEFINE c == p.conv
           x == server.conv_to_data[c]
<1>1. /\ c \in DOMAIN server.conv_to_data /\ p.asker \in Apps
      /\ x \in DOMAIN server.data_to_conv /\ server.data_to_conv[x] = c
  BY DEF ServerReceives, IsConvUsed, Convs, IInv, TablesOK, MutuallyInverse, UsersOK
<1>2. /\ x \in DOMAIN fd64_to_fd
      /\ x \in Fd64 /\ x < counter /\ sockets'[fd64_to_fd[x]] = x
  BY <1>1 DEF ServerReceives, IInv, SocketsOK
<1>3. IsRecord(server') /\ SameTables(server, server')
  BY UpdateKeepsTables DEF ServerReceives, IInv, TablesOK
<1>4. TablesOK'
  BY <1>3, SameServer DEF ServerReceives, clientVars, IInv, TablesOK
<1>5. /\ server_delay' \subseteq server_delay \cup {[fd64 |-> x, asker |-> p.asker]}
      /\ \A s \in Fd64 : askers'[s] = askers[s] \/ (s = x /\ askers'[s] = askers[s] \cup {p.asker})
      /\ server_delay' \subseteq [fd64 : Fd64, asker : Apps]
      /\ askers' \in [Fd64 -> SUBSET Apps]
      /\ \A s \in Fd64 : s >= counter' => askers'[s] = {}
  BY <1>1, <1>2, ForwardKeepsUsers DEF ServerReceives, IInv, SocketsOK
<1>6. SocketsOK'
  BY <1>2, <1>3, <1>5 DEF ServerReceives, SameTables, IInv, SocketsOK
<1>7. UsersOK' /\ DrawnOK'
  BY <1>5 DEF ServerReceives, clientVars, IInv, UsersOK, DrawnOK
<1>8. ASSUME ~collided PROVE ApartOK'
  <2>1. p.asker = drawn_by[c] /\ ApartOK
    BY <1>8 DEF IInv, ApartOK, NetOK
  <2>2. NetOK' /\ AnswersOK'
    BY <2>1 DEF ServerReceives, clientVars, ApartOK, NetOK, AnswersOK
  <2>3. askers[x] \subseteq {drawn_by[c]}
    BY <1>1, <2>1 DEF ApartOK, OwnersOK, ConvOK
  <2>4. OneAsker'
    <3> SUFFICES ASSUME NEW s \in Fd64
                 PROVE  \E a \in Apps \cup {None} : askers'[s] \subseteq {a}
      BY DEF OneAsker
    <3>1. CASE askers'[s] = askers[s]
      BY <2>1, <3>1 DEF ApartOK, OneAsker
    <3>2. CASE s = x /\ askers'[s] = askers[s] \cup {p.asker}
      BY <1>1, <2>1, <2>3, <3>2
    <3> QED  BY <1>5, <3>1, <3>2
  <2>5. OwnersOK'
    <3> SUFFICES ASSUME NEW e \in DOMAIN server.conv_to_data PROVE ConvOK(e)'
      BY <1>3 DEF OwnersOK, SameTables
    <3>1. ConvOK(e) /\ server.conv_to_data[e] \in Fd64
      BY <2>1 DEF ApartOK, OwnersOK, IInv, TablesOK, MutuallyInverse, SocketsOK
    <3>2. server.conv_to_data[e] = x => e = c
      BY <1>1 DEF IInv, TablesOK, MutuallyInverse
    <3>3. server'.conv_to_data[e] = server.conv_to_data[e] /\ drawn_by' = drawn_by
      BY <1>3 DEF SameTables, ServerReceives, clientVars
    <3> QED  BY <1>5, <2>1, <3>1, <3>2, <3>3 DEF ConvOK
  <2> QED  BY <2>2, <2>4, <2>5 DEF ApartOK
<1> QED  BY <1>4, <1>6, <1>7, <1>8 DEF ServerReceives, clientVars, IInv

LEMMA ServerOpensStep ==
  ASSUME IInv, NEW p \in net, ServerOpens(p)
  PROVE  IInv'
<1> DEFINE c == p.conv
<1>1. PICK fd \in Free :
        /\ sockets' = With(sockets, fd, counter)
        /\ fd64_to_fd' = With(fd64_to_fd, counter, fd)
        /\ Forward(counter, fd, p.asker)
  BY DEF ServerOpens
<1>2. /\ c \in Conv \ DOMAIN server.conv_to_data /\ p.asker \in Apps
      /\ counter \in Fd64 /\ counter \notin DOMAIN fd64_to_fd
      /\ counter' = counter + 1 /\ counter' \in Nat /\ MaxFd64 \in Nat
  BY RelayAssumption DEF ServerOpens, IsConvUsed, Convs, IInv, UsersOK, SocketsOK, Fd64
<1>3. /\ IsRecord(server')
      /\ server'.conv_to_data = With(server.conv_to_data, c, counter)
      /\ server'.data_to_conv = With(server.data_to_conv, counter, c)
  BY InsertTables DEF ServerOpens, IInv, TablesOK
<1>4. MutuallyInverse(server')
  <2>1. counter \notin DOMAIN server.data_to_conv /\ MutuallyInverse(server)
    BY <1>2 DEF IInv, TablesOK, SocketsOK
  <2> QED  BY <1>2, <1>3, <2>1, InsertInverse
<1>5. TablesOK'
  BY <1>2, <1>3, <1>4 DEF ServerOpens, clientVars, IInv, TablesOK, With
<1>6. /\ server_delay' \subseteq server_delay \cup {[fd64 |-> counter, asker |-> p.asker]}
      /\ \A s \in Fd64 : askers'[s] = askers[s] \/ (s = counter /\ askers'[s] = askers[s] \cup {p.asker})
      /\ server_delay' \subseteq [fd64 : Fd64, asker : Apps]
      /\ askers' \in [Fd64 -> SUBSET Apps]
      /\ \A s \in Fd64 : s >= counter' => askers'[s] = {}
  <2>1. sockets'[fd] = counter
    BY <1>1 DEF With
  <2> QED  BY <1>1, <1>2, <2>1, ForwardKeepsUsers DEF IInv, SocketsOK
<1>7. SocketsOK'
  <2>1. DOMAIN server'.data_to_conv = DOMAIN fd64_to_fd'
    BY <1>1, <1>3 DEF IInv, SocketsOK, With
  <2>2. ASSUME NEW y \in DOMAIN fd64_to_fd'
        PROVE  /\ y \in Fd64 /\ y < counter'
               /\ fd64_to_fd'[y] \in DOMAIN sockets'
               /\ sockets'[fd64_to_fd'[y]] = y
    <3>1. counter \in Nat /\ counter < counter'
      BY <1>2 DEF IInv, SocketsOK
    <3>2. CASE y = counter
      BY <1>1, <1>2, <3>1, <3>2 DEF With
    <3>3. CASE y # counter
      <4>1. /\ y \in DOMAIN fd64_to_fd /\ fd64_to_fd'[y] = fd64_to_fd[y]
            /\ y \in Fd64 /\ y < counter
            /\ fd64_to_fd[y] \in DOMAIN sockets /\ sockets[fd64_to_fd[y]] = y
        BY <1>1, <2>2, <3>3 DEF IInv, SocketsOK, With
      <4>2. /\ fd64_to_fd[y] # fd /\ sockets'[fd64_to_fd[y]] = y
            /\ fd64_to_fd[y] \in DOMAIN sockets'
        BY <1>1, <4>1 DEF With, Free
      <4>3. y < counter'
        BY <3>1, <4>1 DEF Fd64, ServerOpens
      <4> QED  BY <4>1, <4>2, <4>3
    <3> QED  BY <3>2, <3>3
  <2>3. ASSUME NEW d \in server_delay' PROVE d.fd64 \in Fd64 /\ d.fd64 < counter'
    <3>1. counter \in Nat /\ counter < counter'
      BY <1>2 DEF IInv, SocketsOK
    <3>2. d \in server_delay \/ d.fd64 = counter
      BY <1>6, <2>3
    <3>3. d \in server_delay => d.fd64 \in Fd64 /\ d.fd64 < counter /\ d.fd64 \in Nat
      BY DEF IInv, SocketsOK, Fd64
    <3> QED  BY <1>2, <3>1, <3>2, <3>3
  <2> QED  BY <1>2, <2>1, <2>2, <2>3 DEF SocketsOK
<1>8. UsersOK' /\ DrawnOK'
  BY <1>6 DEF ServerOpens, clientVars, IInv, UsersOK, DrawnOK
<1>9. ASSUME ~collided PROVE ApartOK'
  <2>1. p.asker = drawn_by[c] /\ ApartOK /\ drawn_by' = drawn_by
    BY <1>9 DEF IInv, ApartOK, NetOK, ServerOpens, clientVars
  <2>2. NetOK' /\ AnswersOK'
    BY <2>1 DEF ServerOpens, clientVars, ApartOK, NetOK, AnswersOK
  <2>3. askers[counter] = {} /\ \A d \in server_delay : d.fd64 # counter
    BY <1>2 DEF IInv, UsersOK, SocketsOK
  <2>4. OneAsker'
    <3> SUFFICES ASSUME NEW s \in Fd64
                 PROVE  \E a \in Apps \cup {None} : askers'[s] \subseteq {a}
      BY DEF OneAsker
    <3>1. CASE askers'[s] = askers[s]
      BY <2>1, <3>1 DEF ApartOK, OneAsker
    <3>2. CASE s = counter /\ askers'[s] = askers[s] \cup {p.asker}
      BY <1>2, <2>1, <2>3, <3>2
    <3> QED  BY <1>6, <3>1, <3>2
  <2>5. OwnersOK'
    <3> SUFFICES ASSUME NEW e \in DOMAIN server'.conv_to_data PROVE ConvOK(e)'
      BY DEF OwnersOK
    <3>1. CASE e = c
      <4>1. server'.conv_to_data[e] = counter
        BY <1>3, <3>1 DEF With
      <4> QED  BY <1>2, <1>6, <2>1, <2>3, <3>1, <4>1 DEF ConvOK
    <3>2. CASE e # c
      <4>1. /\ e \in DOMAIN server.conv_to_data
            /\ server'.conv_to_data[e] = server.conv_to_data[e]
        BY <1>3, <3>2 DEF With
      <4>2. ConvOK(e) /\ server.conv_to_data[e] \in Fd64 /\ server.conv_to_data[e] # counter
        BY <1>2, <2>1, <4>1 DEF ApartOK, OwnersOK, IInv, TablesOK, MutuallyInverse, SocketsOK
      <4> QED  BY <1>6, <2>1, <4>1, <4>2 DEF ConvOK
    <3> QED  BY <3>1, <3>2
  <2> QED  BY <2>2, <2>4, <2>5 DEF ApartOK
<1> QED  BY <1>5, <1>7, <1>8, <1>9 DEF ServerOpens, clientVars, IInv

LEMMA ServerDropsStep ==
  ASSUME IInv, NEW p \in net, ServerDrops(p)
  PROVE  IInv'
<1>1. TablesOK' /\ SocketsOK' /\ UsersOK' /\ DrawnOK'
  BY DEF ServerDrops, clientVars, serverVars, IInv, TablesOK, SocketsOK, UsersOK, DrawnOK
<1>2. ApartOK => ApartOK'
  BY DEF ServerDrops, clientVars, serverVars, ApartOK, NetOK, OwnersOK, ConvOK, OneAsker,
         AnswersOK
<1> QED  BY <1>1, <1>2 DEF ServerDrops, clientVars, IInv

\* A delayed question leaves through its socket if that is still open: its number
\* still belongs to the same conversation.
LEMMA ServerDelayEndsStep ==
  ASSUME IInv, NEW d \in server_delay, ServerDelayEnds(d)
  PROVE  IInv'
<1>1. CASE d.fd64 \notin DOMAIN fd64_to_fd
  <2>1. askers' = askers
    BY <1>1 DEF ServerDelayEnds
  <2>2. TablesOK' /\ SocketsOK' /\ UsersOK' /\ DrawnOK'
    BY <2>1 DEF ServerDelayEnds, clientVars, IInv, TablesOK, SocketsOK, UsersOK, DrawnOK
  <2>3. ApartOK => ApartOK'
    BY <2>1 DEF ServerDelayEnds, clientVars, ApartOK, NetOK, OwnersOK, ConvOK, OneAsker,
                AnswersOK
  <2> QED  BY <2>2, <2>3 DEF ServerDelayEnds, clientVars, IInv
<1>2. CASE d.fd64 \in DOMAIN fd64_to_fd
  <2> DEFINE x == d.fd64
             c == server.data_to_conv[x]
  <2>1. /\ x \in Fd64 /\ x < counter /\ sockets[fd64_to_fd[x]] = x
        /\ c \in DOMAIN server.conv_to_data /\ server.conv_to_data[c] = x
        /\ d.asker \in Apps
    BY <1>2 DEF IInv, TablesOK, MutuallyInverse, SocketsOK, UsersOK
  <2>2. askers' = [askers EXCEPT ![x] = @ \cup {d.asker}]
    BY <1>2, <2>1 DEF ServerDelayEnds, Leaves
  <2>3. \A s \in Fd64 : askers'[s] = askers[s] \/ (s = x /\ askers'[s] = askers[s] \cup {d.asker})
    BY <2>2 DEF IInv, UsersOK
  <2>4. TablesOK' /\ SocketsOK' /\ DrawnOK'
    BY DEF ServerDelayEnds, clientVars, IInv, TablesOK, SocketsOK, DrawnOK
  <2>5. UsersOK'
    <3>1. askers' \in [Fd64 -> SUBSET Apps]
      BY <2>1, <2>2 DEF IInv, UsersOK
    <3>2. \A s \in Fd64 : s >= counter => askers'[s] = {}
      BY <2>1, <2>3 DEF IInv, UsersOK, SocketsOK, Fd64
    <3> QED  BY <3>1, <3>2 DEF ServerDelayEnds, clientVars, IInv, UsersOK
  <2>6. ASSUME ~collided PROVE ApartOK'
    <3>1. ApartOK
      BY <2>6 DEF IInv
    <3>2. d.asker = drawn_by[c] /\ askers[x] \subseteq {drawn_by[c]}
      BY <2>1, <3>1 DEF ApartOK, OwnersOK, ConvOK
    <3>3. NetOK' /\ AnswersOK'
      BY <3>1 DEF ServerDelayEnds, clientVars, ApartOK, NetOK, AnswersOK
    <3>4. OneAsker'
      <4> SUFFICES ASSUME NEW s \in Fd64
                   PROVE  \E a \in Apps \cup {None} : askers'[s] \subseteq {a}
        BY DEF OneAsker
      <4>1. CASE askers'[s] = askers[s]
        BY <3>1, <4>1 DEF ApartOK, OneAsker
      <4>2. CASE s = x /\ askers'[s] = askers[s] \cup {d.asker}
        BY <2>1, <3>2, <4>2
      <4> QED  BY <2>3, <4>1, <4>2
    <3>5. OwnersOK'
      <4> SUFFICES ASSUME NEW e \in DOMAIN server.conv_to_data PROVE ConvOK(e)'
        BY DEF OwnersOK, ServerDelayEnds
      <4>1. ConvOK(e) /\ server.conv_to_data[e] \in Fd64
        BY <3>1 DEF ApartOK, OwnersOK, IInv, TablesOK, MutuallyInverse, SocketsOK
      <4>2. server.conv_to_data[e] = x => e = c
        BY DEF IInv, TablesOK, MutuallyInverse
      <4>3. /\ server' = server /\ drawn_by' = drawn_by
            /\ server_delay' \subseteq server_delay
        BY DEF ServerDelayEnds, clientVars
      <4> QED  BY <2>3, <3>2, <4>1, <4>2, <4>3 DEF ConvOK
    <3> QED  BY <3>3, <3>4, <3>5 DEF ApartOK
  <2> QED  BY <2>4, <2>5, <2>6 DEF ServerDelayEnds, clientVars, IInv
<1> QED  BY <1>1, <1>2

LEMMA ServiceAnswersStep ==
  ASSUME IInv, NEW x \in Fd64, ServiceAnswers(x)
  PROVE  IInv'
<1> DEFINE c == server.data_to_conv[x]
<1>1. /\ x \in DOMAIN fd64_to_fd /\ sockets[fd64_to_fd[x]] = x
      /\ c \in DOMAIN server.conv_to_data /\ server.conv_to_data[c] = x /\ c \in Conv
  BY DEF ServiceAnswers, IInv, TablesOK, MutuallyInverse, SocketsOK
<1>2. PICK a \in askers[x] : net' \in Sent(net, Packet("client", c, a))
  BY <1>1 DEF ServiceAnswers
<1>3. a \in Apps
  BY <1>2 DEF IInv, UsersOK
<1>4. IsRecord(server') /\ SameTables(server, server')
  BY UpdateKeepsTables DEF ServiceAnswers, IInv, TablesOK
<1>5. TablesOK'
  BY <1>4, SameServer DEF ServiceAnswers, clientVars, IInv, TablesOK
<1>6. SocketsOK' /\ DrawnOK'
  BY <1>4 DEF ServiceAnswers, clientVars, SameTables, IInv, SocketsOK, DrawnOK
<1>7. /\ net' \subseteq [to : {"client", "server"}, conv : Conv, asker : Apps]
      /\ NetOK /\ drawn_by[c] = a => NetOK'
  BY <1>1, <1>2, <1>3, SentKeepsNet DEF ServiceAnswers, clientVars, IInv
<1>8. UsersOK'
  BY <1>7 DEF ServiceAnswers, clientVars, IInv, UsersOK
<1>9. ASSUME ~collided PROVE ApartOK'
  <2>1. ApartOK /\ a = drawn_by[c]
    BY <1>1, <1>2, <1>9 DEF IInv, ApartOK, OwnersOK, ConvOK
  <2>2. NetOK'
    BY <1>7, <2>1 DEF ApartOK
  <2>3. OwnersOK'
    BY <1>4, <2>1 DEF ServiceAnswers, clientVars, SameTables, ApartOK, OwnersOK, ConvOK
  <2>4. OneAsker' /\ AnswersOK'
    BY <2>1 DEF ServiceAnswers, clientVars, ApartOK, OneAsker, AnswersOK
  <2> QED  BY <2>2, <2>3, <2>4 DEF ApartOK
<1> QED  BY <1>5, <1>6, <1>8, <1>9 DEF ServiceAnswers, clientVars, IInv

\* A clearing closes the sockets of its conversations and no other.
LEMMA ServerTimerStep ==
  ASSUME IInv, ServerTimer
  PROVE  IInv'
<1> DEFINE gone   == Cleared(server)
           closed == DOMAIN server.data_to_conv \ DOMAIN server'.data_to_conv
<1>1. IsRecord(server) /\ MutuallyInverse(server) /\ server' = ClearInactive(server)
  BY DEF ServerTimer, IInv, TablesOK
<1>2. IsRecord(server') /\ gone \subseteq DOMAIN server.conv_to_data
  BY <1>1, ClearTables
<1>3. server'.conv_to_data =
        [c \in DOMAIN server.conv_to_data \ gone |-> server.conv_to_data[c]]
  BY <1>1, ClearTables
<1>4. server'.data_to_conv =
        [d \in DOMAIN server.data_to_conv \ {server.conv_to_data[c] : c \in gone} |->
           server.data_to_conv[d]]
  BY <1>1, ClearTables
<1>5. MutuallyInverse(server')
  BY <1>1, ClearInverse
<1> HIDE DEF gone
<1>6. TablesOK'
  BY <1>2, <1>3, <1>5 DEF ServerTimer, clientVars, IInv, TablesOK
<1>7. /\ fd64_to_fd' = [x \in DOMAIN fd64_to_fd \ closed |-> fd64_to_fd[x]]
      /\ sockets' = [fd \in DOMAIN sockets \ {fd64_to_fd[x] : x \in closed} |-> sockets[fd]]
      /\ closed \subseteq DOMAIN fd64_to_fd
  BY DEF ServerTimer, IInv, SocketsOK
<1>8. DOMAIN server'.data_to_conv = DOMAIN fd64_to_fd \ closed
  BY <1>4 DEF IInv, SocketsOK
<1> HIDE DEF closed
<1>9. SocketsOK'
  <2>1. DOMAIN server'.data_to_conv = DOMAIN fd64_to_fd'
    BY <1>7, <1>8
  <2>2. ASSUME NEW y \in DOMAIN fd64_to_fd'
        PROVE  /\ y \in Fd64 /\ y < counter'
               /\ fd64_to_fd'[y] \in DOMAIN sockets'
               /\ sockets'[fd64_to_fd'[y]] = y
    <3>1. /\ y \in DOMAIN fd64_to_fd /\ y \notin closed /\ fd64_to_fd'[y] = fd64_to_fd[y]
          /\ y \in Fd64 /\ y < counter
          /\ fd64_to_fd[y] \in DOMAIN sockets /\ sockets[fd64_to_fd[y]] = y
      BY <1>7, <2>2 DEF IInv, SocketsOK
    <3>2. \A x \in closed : sockets[fd64_to_fd[x]] = x
      BY <1>7 DEF IInv, SocketsOK
    <3>3. fd64_to_fd[y] \notin {fd64_to_fd[x] : x \in closed}
      BY <3>1, <3>2
    <3>4. counter' = counter
      BY DEF ServerTimer
    <3> QED  BY <1>7, <3>1, <3>3, <3>4
  <2> QED  BY <2>1, <2>2 DEF ServerTimer, IInv, SocketsOK
<1>10. UsersOK' /\ DrawnOK'
  BY DEF ServerTimer, clientVars, IInv, UsersOK, DrawnOK
<1>11. ApartOK => ApartOK'
  BY <1>3 DEF ServerTimer, clientVars, ApartOK, NetOK, OwnersOK, ConvOK, OneAsker, AnswersOK
<1> QED  BY <1>6, <1>9, <1>10, <1>11 DEF ServerTimer, clientVars, IInv

LEMMA TickStep ==
  ASSUME IInv, Tick
  PROVE  IInv'
<1>1. /\ IsRecord(client') /\ SameTables(client, client')
      /\ IsRecord(server') /\ SameTables(server, server')
  BY AgedKeepsTables DEF Tick, IInv, TablesOK
<1>2. TablesOK' /\ DrawnOK'
  BY <1>1, SameClient, SameServer DEF Tick, TablesOK
<1>3. SocketsOK' /\ UsersOK'
  BY <1>1 DEF Tick, SameTables, IInv, SocketsOK, UsersOK
<1>4. ApartOK => ApartOK'
  BY <1>1 DEF Tick, SameTables, ApartOK, NetOK, OwnersOK, ConvOK, OneAsker, AnswersOK
<1> QED  BY <1>2, <1>3, <1>4 DEF Tick, IInv

LEMMA StutterStep ==
  ASSUME IInv, UNCHANGED vars
  PROVE  IInv'
BY DEF vars, clientVars, serverVars, IInv, TablesOK, SocketsOK, UsersOK, DrawnOK, ApartOK,
       NetOK, OwnersOK, ConvOK, OneAsker, AnswersOK

-----------------------------------------------------------------------------

LEMMA NextIInv == IInv /\ [Next]_vars => IInv'
<1> SUFFICES ASSUME IInv, [Next]_vars PROVE IInv'
  OBVIOUS
<1>1. ASSUME NEW a \in Apps, AskAgain(a) \/ AskFirst(a) PROVE IInv'
  BY <1>1, AskAgainStep, AskFirstStep
<1>2. ASSUME NEW p \in net, ClientReceives(p) \/ ClientDrops(p) PROVE IInv'
  BY <1>2, ClientReceivesStep, ClientDropsStep
<1>3. ASSUME NEW p \in net, ServerReceives(p) \/ ServerOpens(p) \/ ServerDrops(p) PROVE IInv'
  BY <1>3, ServerReceivesStep, ServerOpensStep, ServerDropsStep
<1>4. ASSUME NEW d \in client_delay, ClientDelayEnds(d) PROVE IInv'
  BY <1>4, ClientDelayEndsStep
<1>5. ASSUME NEW d \in server_delay, ServerDelayEnds(d) PROVE IInv'
  BY <1>5, ServerDelayEndsStep
<1>6. ASSUME NEW x \in Fd64, ServiceAnswers(x) PROVE IInv'
  BY <1>6, ServiceAnswersStep
<1>7. CASE ClientTimer \/ ServerTimer \/ Tick
  BY <1>7, ClientTimerStep, ServerTimerStep, TickStep
<1>8. CASE UNCHANGED vars
  BY <1>8, StutterStep
<1> QED  BY <1>1, <1>2, <1>3, <1>4, <1>5, <1>6, <1>7, <1>8
          DEF Next, Client, ClientListens, ClientRemote, ClientPrepares,
              Server, ServerListens, ServerRemote, ServerPrepares

\* As long as no number is drawn while it is remembered elsewhere, no answer reaches
\* an application that did not ask, and no two applications share a source port.
THEOREM KeptApart == Spec => []ApplicationsAreKeptApart
<1>1. Init => IInv
  BY InitIInv
<1>2. IInv /\ [Next]_vars => IInv'
  BY NextIInv
<1>3. IInv => ApplicationsAreKeptApart
  BY IInvImplies
<1> QED  BY <1>1, <1>2, <1>3, PTL DEF Spec
================================================================================
