---------------------------- MODULE SendPathProofs ----------------------------
(***************************************************************************)
(* Proofs about FecEncode and SendPath for all parameters, commands and    *)
(* packet lengths.  The first part is about the encoder alone and Spec.    *)
(* The encoder keeps its specification in the whole path to the network:   *)
(* every step of SendPath is a step of FecEncode or leaves it alone, so    *)
(* the same holds of SendSpec.  The second part shows that, and then what  *)
(* the path adds: the latency of a group under --fix-latency, and how      *)
(* cooking can spoil the redundancy of a group.                            *)
(***************************************************************************)
EXTENDS SendPath, TLAPS, FiniteSetTheorems, WellFoundedInduction

Packet == [id : Nat, len : Nat]

-----------------------------------------------------------------------------
(* Type correctness *)

LEMMA InitTypeOK == Init => TypeOK
BY ParametersAssumption, SizesAssumption DEF Init, TypeOK, BlobHeader

LEMMA CurrentParType ==
  ASSUME TypeOK
  PROVE  CurrentPar \in Parameters
BY DEF TypeOK, CurrentPar

LEMMA NewPacketType ==
  ASSUME TypeOK, NEW len \in Lens
  PROVE  /\ len \in Nat
         /\ Append(pending, NewPacket(len)) \in Seq(Packet)
         /\ Len(Append(pending, NewPacket(len))) = Len(pending) + 1
         /\ <<NewPacket(len)>> \in Seq(Packet)
         /\ Len(<<NewPacket(len)>>) = 1
<1>1. len \in Nat
  BY SizesAssumption
<1>2. NewPacket(len) \in Packet
  BY <1>1 DEF NewPacket, Packet, TypeOK
<1>3. QED
  BY <1>1, <1>2 DEF TypeOK, Packet

LEMMA AppendedLenType ==
  ASSUME NEW par, NEW n \in Nat, NEW len \in Nat
  PROVE  AppendedLen(par, n, len) \in Nat
BY DEF AppendedLen, LenField

\* Every command leaves a usable parameter set.
LEMMA CommandType ==
  ASSUME TypeOK, NEW c \in Commands
  PROVE  CommandResult(c) \in Parameters
<1> DEFINE g == g_fec_par
<1>1. g \in Parameters /\ g.version + 1 \in Nat
  BY DEF TypeOK, Parameters
<1>2. CASE c.cmd = "fec"
  <2>1. c.value \in Seq(Nat) \ {<< >>}
    BY <1>2, CommandsAssumption
  <2>2. [g EXCEPT !.rs = c.value, !.version = g.version + 1] \in Parameters
    BY <1>1, <2>1 DEF Parameters
  <2>3. QED
    BY <1>2, <2>2 DEF CommandResult
<1>3. CASE c.cmd = "mode"
  <2>1. c.value \in {0, 1}
    BY <1>3, CommandsAssumption
  <2>2. [g EXCEPT !.mode = c.value, !.version = g.version + 1] \in Parameters
    BY <1>1, <2>1 DEF Parameters
  <2>3. QED
    BY <1>1, <1>3, <2>2 DEF CommandResult
<1>4. CASE c.cmd = "mtu"
  <2>1. c.value \in Nat
    BY <1>4, CommandsAssumption
  <2>2. [g EXCEPT !.mtu = c.value] \in Parameters
    BY <1>1, <2>1 DEF Parameters
  <2>3. QED
    BY <1>4, <2>2 DEF CommandResult
<1>5. CASE c.cmd = "queue-len"
  <2>1. c.value \in Nat \ {0}
    BY <1>5, CommandsAssumption
  <2>2. [g EXCEPT !.queue_len = c.value] \in Parameters
    BY <1>1, <2>1 DEF Parameters
  <2>3. QED
    BY <1>5, <2>2 DEF CommandResult
<1>6. CASE c.cmd = "timeout"
  <2>1. c.value \in Nat
    BY <1>6, CommandsAssumption
  <2>2. [g EXCEPT !.timeout = c.value] \in Parameters
    BY <1>1, <2>1 DEF Parameters
  <2>3. QED
    BY <1>6, <2>2 DEF CommandResult
<1>7. QED
  BY <1>2, <1>3, <1>4, <1>5, <1>6, CommandsAssumption

LEMMA NextSeqType ==
  ASSUME TypeOK, GroupDone
  PROVE  seq' \in 0 .. SeqMod - 1 /\ g_fec_par' \in Parameters
BY SizesAssumption DEF TypeOK, GroupDone

LEMMA NextTypeOK == TypeOK /\ [Next]_vars => TypeOK'
<1> SUFFICES ASSUME TypeOK, [Next]_vars PROVE TypeOK'
  OBVIOUS
<1> USE DEF Packet
<1>1. CurrentPar \in Parameters /\ CurrentPar.timeout \in Nat
  BY CurrentParType DEF Parameters
<1>2. BlobHeader \in Nat /\ << >> \in Seq(Packet) /\ Len(<< >>) = 0
  BY DEF BlobHeader
<1>3. ASSUME NEW len \in Lens, RejectTooLong(len)
      PROVE  TypeOK'
  BY <1>1, <1>3 DEF RejectTooLong, TypeOK
<1>4. ASSUME NEW len \in Lens, Collect(len)
      PROVE  TypeOK'
  <2>1. current_len' \in Nat
    BY <1>4, NewPacketType, AppendedLenType DEF Collect, TypeOK
  <2>2. pending' \in Seq(Packet)
    BY <1>4, NewPacketType DEF Collect
  <2>3. timer' \in Nat \cup {Off} /\ age' \in Nat
    BY <1>1, <1>4 DEF Collect, TypeOK
  <2>4. QED
    BY <1>1, <1>4, <2>1, <2>2, <2>3 DEF Collect, TypeOK
<1>5. ASSUME NEW len \in Lens, CollectAndFlush(len)
      PROVE  TypeOK'
  <2>1. seq' \in 0 .. SeqMod - 1 /\ g_fec_par' \in Parameters
    BY <1>5, NextSeqType DEF CollectAndFlush
  <2>2. QED
    BY <1>1, <1>2, <1>5, <2>1 DEF CollectAndFlush, TypeOK
<1>6. ASSUME NEW len \in Lens, FlushAndCollect(len)
      PROVE  TypeOK'
  <2>1. seq' \in 0 .. SeqMod - 1 /\ g_fec_par' \in Parameters
    BY <1>6, NextSeqType DEF FlushAndCollect
  <2>2. current_len' \in Nat
    BY <1>2, <1>6, NewPacketType, AppendedLenType DEF FlushAndCollect
  <2>3. pending' \in Seq(Packet)
    BY <1>6, NewPacketType DEF FlushAndCollect
  <2>4. QED
    BY <1>1, <1>6, <2>1, <2>2, <2>3 DEF FlushAndCollect, TypeOK
<1>7. CASE Timeout
  <2>1. seq' \in 0 .. SeqMod - 1 /\ g_fec_par' \in Parameters
    BY <1>7, NextSeqType DEF Timeout
  <2>2. QED
    BY <1>1, <1>2, <1>7, <2>1 DEF Timeout, TypeOK
<1>8. CASE Tick
  BY <1>8 DEF Tick, TypeOK
<1>9. ASSUME NEW c \in Commands, HandleCommand(c)
      PROVE  TypeOK'
  BY <1>9, CommandType DEF HandleCommand, TypeOK
<1>10. CASE UNCHANGED vars
  BY <1>10 DEF vars, history, TypeOK
<1>11. QED
  BY <1>3, <1>4, <1>5, <1>6, <1>7, <1>8, <1>9, <1>10 DEF Next, Input

\* Every reachable state is well typed, for all parameters and commands.
THEOREM TypeCorrect == Spec => []TypeOK
BY InitTypeOK, NextTypeOK, PTL DEF Spec

-----------------------------------------------------------------------------
(* The deadline and the limit of a group *)

\* Parameters are only replaced between groups.
LEMMA CurrentParFixed ==
  counter # 0 => CurrentPar = fec_par
BY DEF CurrentPar

\* What a parameter set guarantees to an encoder that has collected nothing.
LEMMA EmptyBelowLimit ==
  ASSUME NEW par \in Parameters
  PROVE  /\ 0 < par.queue_len
         /\ 0 < TailX(par)
         /\ par.queue_len \in Nat
         /\ TailX(par) \in Nat
         /\ par.timeout \in Nat
         /\ par.mode \in {0, 1}
<1>1. par.rs \in Seq(Nat) /\ par.rs # << >>
  BY DEF Parameters
<1>2. Len(par.rs) \in Nat /\ Len(par.rs) # 0
  BY <1>1
<1>3. QED
  BY <1>2 DEF Parameters, TailX

GroupInv == DeadlineTracksGroup /\ GroupBelowLimit

LEMMA InitGroupInv == Init => GroupInv
<1> SUFFICES ASSUME Init PROVE GroupInv
  OBVIOUS
<1>1. 0 < fec_par.queue_len /\ 0 < TailX(fec_par)
  BY ParametersAssumption, EmptyBelowLimit DEF Init
<1>2. Len(<< >>) = 0
  OBVIOUS
<1>3. QED
  BY <1>1, <1>2 DEF Init, GroupInv, DeadlineTracksGroup, GroupBelowLimit

LEMMA NextGroupInv == TypeOK /\ GroupInv /\ [Next]_vars => GroupInv'
<1> SUFFICES ASSUME TypeOK, GroupInv, [Next]_vars PROVE GroupInv'
  OBVIOUS
<1> DEFINE par == CurrentPar
<1>1. /\ 0 < par.queue_len
      /\ 0 < TailX(par)
      /\ par.queue_len \in Nat
      /\ TailX(par) \in Nat
      /\ par.timeout \in Nat
      /\ par.mode \in {0, 1}
  BY CurrentParType, EmptyBelowLimit
<1>2. counter \in Nat /\ age \in Nat /\ Off \notin Nat
  BY SizesAssumption DEF TypeOK
<1>3. /\ counter = Len(pending)
      /\ counter = 0 <=> timer = Off
      /\ timer # Off => timer + age = fec_par.timeout
      /\ fec_par.mode = 0 => counter < fec_par.queue_len
      /\ fec_par.mode = 1 => counter < TailX(fec_par)
  BY DEF GroupInv, DeadlineTracksGroup, GroupBelowLimit
<1>4. counter # 0 => par = fec_par
  BY CurrentParFixed
<1>5. Len(<< >>) = 0
  OBVIOUS
\* An encoder with an empty group satisfies the invariant whatever its
\* parameters are.
<1>6. ASSUME counter' = 0, pending' = << >>, timer' = Off, fec_par' = par
      PROVE  GroupInv'
  BY <1>1, <1>5, <1>6 DEF GroupInv, DeadlineTracksGroup, GroupBelowLimit, TailX
<1>7. ASSUME NEW len \in Lens, RejectTooLong(len)
      PROVE  GroupInv'
  <2>1. counter = 0 /\ timer = Off
    BY <1>3, <1>7 DEF RejectTooLong, TooLong
  <2>2. /\ counter' = counter
        /\ timer' = timer
        /\ pending' = pending
        /\ fec_par' = par
    BY <1>7 DEF RejectTooLong
  <2>3. QED
    BY <1>1, <1>3, <2>1, <2>2
      DEF GroupInv, DeadlineTracksGroup, GroupBelowLimit, TailX
<1>8. ASSUME NEW len \in Lens, Collect(len)
      PROVE  GroupInv'
  <2>1. /\ counter' = counter + 1
        /\ fec_par' = par
        /\ pending' = Append(pending, NewPacket(len))
        /\ timer' = IF counter = 0 THEN par.timeout ELSE timer
        /\ age' = IF counter = 0 THEN 0 ELSE age
        /\ ~Completes(par)
    BY <1>8 DEF Collect
  <2>2. counter' = Len(pending')
    BY <1>3, <2>1, NewPacketType
  <2>3. timer' # Off /\ timer' + age' = fec_par'.timeout
    BY <1>1, <1>2, <1>3, <1>4, <2>1
  <2>4. par.mode = 0 => counter + 1 < par.queue_len
    BY <1>1, <1>2, <1>3, <1>4, <2>1 DEF Completes
  <2>5. par.mode = 1 => counter + 1 < TailX(par)
    BY <1>1, <1>2, <1>3, <1>4, <2>1 DEF Completes
  <2>6. QED
    BY <1>2, <2>1, <2>2, <2>3, <2>4, <2>5
      DEF GroupInv, DeadlineTracksGroup, GroupBelowLimit, TailX
<1>9. ASSUME NEW len \in Lens, CollectAndFlush(len)
      PROVE  GroupInv'
  BY <1>6, <1>9 DEF CollectAndFlush
<1>10. ASSUME NEW len \in Lens, FlushAndCollect(len)
       PROVE  GroupInv'
  <2>1. /\ counter' = 1
        /\ fec_par' = par
        /\ pending' = <<NewPacket(len)>>
        /\ timer' = par.timeout
        /\ age' = 0
        /\ par.mode = 0
        /\ counter > 0
    BY <1>10 DEF FlushAndCollect, Delayed
  <2>2. counter' = Len(pending')
    BY <2>1, NewPacketType
  <2>3. 1 < par.queue_len
    BY <1>1, <1>2, <1>3, <1>4, <2>1
  <2>4. timer' # Off /\ timer' + age' = fec_par'.timeout
    BY <1>1, <1>2, <2>1
  <2>5. QED
    BY <2>1, <2>2, <2>3, <2>4
      DEF GroupInv, DeadlineTracksGroup, GroupBelowLimit
<1>11. CASE Timeout
  BY <1>6, <1>11 DEF Timeout
<1>12. CASE Tick
  <2>1. timer \in Nat
    BY <1>12 DEF Tick, TypeOK
  <2>2. timer # 0 /\ timer' = timer - 1 /\ age' = age + 1
    BY <1>12 DEF Tick
  <2>3. UNCHANGED <<counter, pending, fec_par>>
    BY <1>12 DEF Tick
  <2>4. timer' # Off /\ timer' + age' = timer + age /\ timer # Off
    BY <1>2, <2>1, <2>2
  <2>5. QED
    BY <1>3, <2>3, <2>4
      DEF GroupInv, DeadlineTracksGroup, GroupBelowLimit, TailX
<1>13. ASSUME UNCHANGED <<counter, pending, fec_par, timer, age>>
       PROVE  GroupInv'
  BY <1>3, <1>13 DEF GroupInv, DeadlineTracksGroup, GroupBelowLimit, TailX
<1>14. ASSUME NEW c \in Commands, HandleCommand(c)
       PROVE  GroupInv'
  BY <1>13, <1>14 DEF HandleCommand
<1>15. CASE UNCHANGED vars
  BY <1>13, <1>15 DEF vars, history
<1>16. QED
  BY <1>7, <1>8, <1>9, <1>10, <1>11, <1>12, <1>14, <1>15 DEF Next, Input

\* For all parameters, lengths and commands: a group has a running timer set
\* to its own deadline, and the assertions at the top of input() hold whenever
\* input() is called.
THEOREM GroupAlwaysBounded == Spec => []GroupIsBounded
<1>1. GroupInv => GroupIsBounded
  BY DEF GroupInv, GroupIsBounded
<1>2. QED
  BY <1>1, InitGroupInv, NextGroupInv, TypeCorrect, PTL DEF Spec

-----------------------------------------------------------------------------
(* Which parameters a group is coded with *)

\* The version tells the redundancy and the mode apart, though not the rest.
VersionInv ==
  /\ fec_par.version <= g_fec_par.version
  /\ fec_par.version = g_fec_par.version =>
       /\ fec_par.rs = g_fec_par.rs
       /\ fec_par.mode = g_fec_par.mode

LEMMA CommandVersion ==
  ASSUME TypeOK, VersionInv, NEW c \in Commands
  PROVE  \/ /\ CommandResult(c).version = g_fec_par.version
            /\ CommandResult(c).rs = g_fec_par.rs
            /\ CommandResult(c).mode = g_fec_par.mode
         \/ CommandResult(c).version = g_fec_par.version + 1
<1> DEFINE g == g_fec_par
<1>1. g \in Parameters
  BY DEF TypeOK
<1>2. ASSUME NEW v, NEW n
      PROVE  /\ [g EXCEPT !.rs = v, !.version = n].version = n
             /\ [g EXCEPT !.mode = v, !.version = n].version = n
  BY <1>1 DEF Parameters
<1>3. ASSUME NEW v, NEW h,
             \/ h = [g EXCEPT !.mtu = v]
             \/ h = [g EXCEPT !.queue_len = v]
             \/ h = [g EXCEPT !.timeout = v]
      PROVE  h.version = g.version /\ h.rs = g.rs /\ h.mode = g.mode
  BY <1>1, <1>3 DEF Parameters
<1>4. CASE c.cmd = "fec"
  BY <1>2, <1>4, ZenonT(60) DEF CommandResult
<1>5. CASE c.cmd = "mode"
  BY <1>2, <1>5 DEF CommandResult
<1>6. CASE c.cmd = "mtu"
  BY <1>3, <1>6 DEF CommandResult
<1>7. CASE c.cmd = "queue-len"
  BY <1>3, <1>7 DEF CommandResult
<1>8. CASE c.cmd = "timeout"
  BY <1>3, <1>8 DEF CommandResult
<1>9. QED
  BY <1>4, <1>5, <1>6, <1>7, <1>8, CommandsAssumption

\* The parameters input() works with agree with the global ones in what the
\* version covers, if no group is being collected.
LEMMA CurrentParVersion ==
  ASSUME TypeOK, VersionInv
  PROVE  /\ CurrentPar = fec_par \/ CurrentPar = g_fec_par
         /\ counter = 0 => /\ CurrentPar.rs = g_fec_par.rs
                           /\ CurrentPar.mode = g_fec_par.mode
BY DEF CurrentPar, VersionInv

\* A step takes new parameters through CurrentPar or keeps the old ones, and
\* only a command changes the global ones.
LEMMA ParameterSteps ==
  ASSUME [Next]_vars
  PROVE  \/ g_fec_par' = g_fec_par /\ fec_par' = CurrentPar
         \/ UNCHANGED <<g_fec_par, fec_par, accepted>>
         \/ /\ \E c \in Commands : g_fec_par' = CommandResult(c)
            /\ UNCHANGED <<fec_par, accepted>>
BY DEF Next, Input, RejectTooLong, Collect, CollectAndFlush, FlushAndCollect,
       GroupDone, Timeout, Tick, HandleCommand, vars, history

LEMMA NextVersionInv == TypeOK /\ VersionInv /\ [Next]_vars => VersionInv'
<1> SUFFICES ASSUME TypeOK, VersionInv, [Next]_vars PROVE VersionInv'
  OBVIOUS
<1>1. fec_par.version \in Nat /\ g_fec_par.version \in Nat
  BY DEF TypeOK, Parameters
<1>2. CASE g_fec_par' = g_fec_par /\ fec_par' = CurrentPar
  BY <1>1, <1>2, CurrentParVersion DEF VersionInv
<1>3. CASE UNCHANGED <<g_fec_par, fec_par, accepted>>
  BY <1>3 DEF VersionInv
<1>4. ASSUME NEW c \in Commands, g_fec_par' = CommandResult(c),
             UNCHANGED <<fec_par, accepted>>
      PROVE  VersionInv'
  BY <1>1, <1>4, CommandVersion DEF VersionInv
<1>5. QED
  BY <1>2, <1>3, <1>4, ParameterSteps

\* For all parameters and commands: no command changes the coding of a group
\* under way, and every group started from an empty encoder has the redundancy
\* and the mode that were commanded last.
THEOREM SettingsFixedPerGroup == Spec => OneSettingPerGroup
<1> DEFINE A == /\ counter > 0 => fec_par' = fec_par
                /\ counter = 0 /\ accepted' # accepted =>
                     /\ fec_par'.rs = g_fec_par.rs
                     /\ fec_par'.mode = g_fec_par.mode
<1>1. Init => VersionInv
  <2> SUFFICES ASSUME Init PROVE VersionInv
    OBVIOUS
  <2>1. fec_par = g_fec_par /\ fec_par.version \in Nat
    BY ParametersAssumption DEF Init, Parameters
  <2>2. QED
    BY <2>1 DEF VersionInv
<1>2. TypeOK /\ VersionInv /\ [Next]_vars => VersionInv'
  BY NextVersionInv
<1>3. TypeOK /\ VersionInv /\ [Next]_vars => [A]_vars
  <2> SUFFICES ASSUME TypeOK, VersionInv, [Next]_vars PROVE A
    OBVIOUS
  <2>1. CASE g_fec_par' = g_fec_par /\ fec_par' = CurrentPar
    BY <2>1, CurrentParVersion, CurrentParFixed
  <2>2. CASE UNCHANGED <<g_fec_par, fec_par, accepted>>
    BY <2>2
  <2>3. CASE UNCHANGED <<fec_par, accepted>>
    BY <2>3
  <2>4. QED
    BY <2>1, <2>2, <2>3, ParameterSteps
<1>4. OneSettingPerGroup <=> [][A]_vars
  BY DEF OneSettingPerGroup
<1>5. QED
  BY <1>1, <1>2, <1>3, <1>4, TypeCorrect, PTL DEF Spec

-----------------------------------------------------------------------------
(* No packet is lost, repeated or reordered *)

\* The first n packet ids in order.
UpTo(n) == [i \in 1 .. n |-> i]

LEMMA UpToNext ==
  ASSUME NEW n \in Nat
  PROVE  UpTo(n) \in Seq(Nat) /\ Append(UpTo(n), n + 1) = UpTo(n + 1)
<1>1. UpTo(n) \in Seq(Nat) /\ UpTo(n + 1) \in Seq(Nat)
  BY DEF UpTo
<1>2. Len(UpTo(n)) = n /\ Len(UpTo(n + 1)) = n + 1
  BY DEF UpTo
<1>3. Append(UpTo(n), n + 1) \in Seq(Nat) /\ Len(Append(UpTo(n), n + 1)) = n + 1
  BY <1>1, <1>2
<1>4. ASSUME NEW i \in 1 .. n + 1
      PROVE  Append(UpTo(n), n + 1)[i] = UpTo(n + 1)[i]
  BY <1>1, <1>2 DEF UpTo
<1>5. QED
  BY <1>1, <1>2, <1>3, <1>4

LEMMA IdsType ==
  ASSUME NEW group \in Seq(Packet)
  PROVE  /\ Ids(group) \in Seq(Nat)
         /\ Len(Ids(group)) = Len(group)
<1>1. Len(group) \in Nat
  OBVIOUS
<1>2. ASSUME NEW i \in 1 .. Len(group)
      PROVE  group[i].id \in Nat
  <2>1. group[i] \in Packet
    OBVIOUS
  <2>2. QED
    BY <2>1 DEF Packet
<1>3. Ids(group) \in [1 .. Len(group) -> Nat]
  BY <1>2 DEF Ids
<1>4. QED
  BY <1>1, <1>3 DEF Ids

LEMMA IdsAppend ==
  ASSUME NEW group \in Seq(Packet), NEW p \in Packet
  PROVE  Ids(Append(group, p)) = Append(Ids(group), p.id)
<1> DEFINE g == Append(group, p)
           s == Ids(g)
           t == Append(Ids(group), p.id)
<1>1. p.id \in Nat
  BY DEF Packet
<1>2. /\ g \in Seq(Packet)
      /\ Len(g) = Len(group) + 1
      /\ \A i \in 1 .. Len(group) : g[i] = group[i]
      /\ g[Len(group) + 1] = p
      /\ Len(group) \in Nat
  OBVIOUS
<1> HIDE DEF g
<1>3. s \in Seq(Nat) /\ Len(s) = Len(group) + 1
  BY <1>2, IdsType
<1>4. Ids(group) \in Seq(Nat) /\ Len(Ids(group)) = Len(group)
  BY IdsType
<1>5. t \in Seq(Nat) /\ Len(t) = Len(group) + 1
  BY <1>1, <1>4
<1>6. ASSUME NEW i \in 1 .. Len(group) + 1
      PROVE  s[i] = t[i]
  <2>1. s[i] = g[i].id
    BY <1>2 DEF Ids
  <2>2. CASE i = Len(group) + 1
    BY <1>1, <1>2, <1>4, <2>1, <2>2
  <2>3. CASE i \in 1 .. Len(group)
    <3>1. t[i] = Ids(group)[i]
      BY <1>1, <1>4, <2>3
    <3>2. Ids(group)[i] = group[i].id
      BY <2>3 DEF Ids
    <3>3. QED
      BY <1>2, <2>1, <2>3, <3>1, <3>2
  <2>4. i = Len(group) + 1 \/ i \in 1 .. Len(group)
    BY <1>2
  <2>5. QED
    BY <2>2, <2>3, <2>4
<1>7. QED
  BY <1>3, <1>5, <1>6 DEF g

LEMMA ConcatAppend ==
  ASSUME NEW s \in Seq(Nat), NEW t \in Seq(Nat), NEW e \in Nat
  PROVE  /\ s \o Append(t, e) = Append(s \o t, e)
         /\ s \o << >> = s
         /\ s \o <<e>> = Append(s, e)
<1>1. s \o Append(t, e) = Append(s \o t, e)
  <2>1. s \o Append(t, e) \in Seq(Nat) /\ Append(s \o t, e) \in Seq(Nat)
    OBVIOUS
  <2>2. /\ Len(s \o Append(t, e)) = Len(s) + Len(t) + 1
        /\ Len(Append(s \o t, e)) = Len(s) + Len(t) + 1
    OBVIOUS
  <2>3. ASSUME NEW i \in 1 .. Len(s) + Len(t) + 1
        PROVE  (s \o Append(t, e))[i] = Append(s \o t, e)[i]
    OBVIOUS
  <2>4. QED
    BY <2>1, <2>2, <2>3
<1>2. s \o << >> = s
  OBVIOUS
<1>3. s \o <<e>> = Append(s, e)
  OBVIOUS
<1>4. QED
  BY <1>1, <1>2, <1>3

\* The data that left, followed by the data that waits in the blob, is every
\* accepted packet in order; in mode 1 nothing waits.
OrderInv(par) ==
  /\ emitted \in Seq(Nat)
  /\ par.mode = 0 => emitted \o Ids(pending) = UpTo(accepted)
  /\ par.mode = 1 => emitted = UpTo(accepted)

LEMMA IdsEmpty == Ids(<< >>) = << >>
BY DEF Ids

\* Between groups the order does not depend on the parameters, so it carries
\* over to those input() takes.
LEMMA OrderCurrentPar ==
  ASSUME TypeOK, GroupInv, OrderInv(fec_par)
  PROVE  OrderInv(CurrentPar)
<1>1. CASE counter = 0
  <2>1. pending = << >>
    <3>1. pending \in Seq(Packet)
      BY DEF TypeOK, Packet
    <3>2. Len(pending) = 0
      BY <1>1 DEF GroupInv, DeadlineTracksGroup
    <3>3. QED
      BY <3>1, <3>2
  <2>2. emitted \in Seq(Nat) /\ emitted \o Ids(pending) = emitted
    BY <2>1, IdsEmpty, ConcatAppend DEF OrderInv
  <2>3. fec_par.mode \in {0, 1}
    BY DEF TypeOK, Parameters
  <2>4. QED
    BY <2>2, <2>3 DEF OrderInv
<1>2. CASE counter # 0
  BY <1>2, CurrentParFixed
<1>3. QED
  BY <1>1, <1>2

\* The packets a flush carries.
LEMMA FlushedData ==
  ASSUME NEW par \in Parameters, NEW group, NEW n, NEW last \in BOOLEAN
  PROVE  Flushed(par, group, n, last).data =
           IF par.mode = 0 THEN Ids(group)
           ELSE IF last THEN <<group[Len(group)].id>> ELSE << >>
<1>1. CASE par.mode = 0
  BY <1>1 DEF Flushed
<1>2. CASE par.mode = 1
  BY <1>2 DEF Flushed, DataNum
<1>3. QED
  BY <1>1, <1>2 DEF Parameters

LEMMA OrderWhenEmpty ==
  ASSUME emitted' \in Seq(Nat), emitted' = UpTo(accepted'), pending' = << >>
  PROVE  OrderInv(fec_par)'
<1>1. Ids(pending') = << >>
  BY IdsEmpty
<1>2. emitted' \o << >> = emitted'
  BY ConcatAppend
<1>3. QED
  BY <1>1, <1>2 DEF OrderInv, Ids, UpTo

LEMMA OrderWhenBlob ==
  ASSUME emitted' \in Seq(Nat), fec_par'.mode = 0,
         emitted' \o Ids(pending') = UpTo(accepted')
  PROVE  OrderInv(fec_par)'
<1>1. Ids(pending)' = Ids(pending') /\ UpTo(accepted)' = UpTo(accepted')
  BY DEF Ids, UpTo
<1>2. QED
  BY <1>1 DEF OrderInv

LEMMA NextOrder ==
  TypeOK /\ GroupInv /\ OrderInv(fec_par) /\ [Next]_vars => OrderInv(fec_par)'
<1> SUFFICES ASSUME TypeOK, GroupInv, OrderInv(fec_par), [Next]_vars
             PROVE  OrderInv(fec_par)'
  OBVIOUS
<1> DEFINE par == CurrentPar
           ids == Ids(pending)
<1>1. par \in Parameters /\ par.mode \in {0, 1}
  BY CurrentParType DEF Parameters
<1>2. /\ emitted \in Seq(Nat)
      /\ par.mode = 0 => emitted \o ids = UpTo(accepted)
      /\ par.mode = 1 => emitted = UpTo(accepted)
  BY OrderCurrentPar DEF OrderInv
<1>3. pending \in Seq(Packet) /\ ids \in Seq(Nat)
  BY IdsType DEF TypeOK, Packet
<1>4. accepted \in Nat /\ accepted + 1 \in Nat
  BY DEF TypeOK
<1>5. Append(UpTo(accepted), accepted + 1) = UpTo(accepted + 1)
  BY <1>4, UpToNext
<1>6. emitted \o << >> = emitted
  BY <1>2, ConcatAppend
<1>7. emitted \o <<accepted + 1>> \in Seq(Nat)
      /\ emitted \o <<accepted + 1>> = Append(emitted, accepted + 1)
  BY <1>2, <1>4, ConcatAppend
<1>8. emitted \o ids \in Seq(Nat)
  BY <1>2, <1>3
\* A group with one more packet, and a group of one packet.
<1>9. ASSUME NEW len \in Lens
      PROVE  /\ Ids(Append(pending, NewPacket(len))) = Append(ids, accepted + 1)
             /\ Ids(<<NewPacket(len)>>) = <<accepted + 1>>
             /\ Append(pending, NewPacket(len))
                  [Len(Append(pending, NewPacket(len)))].id = accepted + 1
             /\ Append(ids, accepted + 1) \in Seq(Nat)
             /\ emitted \o Append(ids, accepted + 1)
                  = Append(emitted \o ids, accepted + 1)
             /\ emitted \o Append(ids, accepted + 1) \in Seq(Nat)
  <2>1. NewPacket(len) \in Packet /\ NewPacket(len).id = accepted + 1
    BY <1>4, SizesAssumption DEF NewPacket, Packet
  <2>2. Ids(Append(pending, NewPacket(len))) = Append(ids, accepted + 1)
    BY <1>3, <2>1, IdsAppend
  <2>3. Ids(<<NewPacket(len)>>) = <<accepted + 1>>
    BY <2>1 DEF Ids
  <2>4. Append(pending, NewPacket(len))[Len(Append(pending, NewPacket(len)))]
          = NewPacket(len)
    BY <1>3, <2>1
  <2>5. emitted \o Append(ids, accepted + 1)
          = Append(emitted \o ids, accepted + 1)
    BY <1>2, <1>3, <1>4, ConcatAppend
  <2>6. Append(ids, accepted + 1) \in Seq(Nat)
    BY <1>3, <1>4
  <2>7. emitted \o Append(ids, accepted + 1) \in Seq(Nat)
    BY <1>2, <2>6
  <2>8. QED
    BY <2>1, <2>2, <2>3, <2>4, <2>5, <2>6, <2>7
<1> HIDE DEF ids
<1>10. ASSUME NEW len \in Lens, RejectTooLong(len)
       PROVE  OrderInv(fec_par)'
  <2>1. /\ emitted' = emitted
        /\ pending' = pending
        /\ accepted' = accepted
        /\ fec_par' = par
    BY <1>6, <1>10 DEF RejectTooLong, Output, NoOutput
  <2>2. QED
    BY <1>2, <2>1 DEF OrderInv, Ids, UpTo, ids
<1>11. ASSUME NEW len \in Lens, Collect(len)
       PROVE  OrderInv(fec_par)'
  <2>1. /\ pending' = Append(pending, NewPacket(len))
        /\ accepted' = accepted + 1
        /\ fec_par' = par
    BY <1>11 DEF Collect
  <2>2. CASE par.mode = 0
    <3>1. emitted' = emitted
      BY <1>6, <1>11, <2>2 DEF Collect, Output, NoOutput
    <3>2. emitted \o Append(ids, accepted + 1) = UpTo(accepted + 1)
      BY <1>2, <1>5, <1>9, <2>2
    <3>3. emitted' \o Ids(pending') = UpTo(accepted')
      BY <1>9, <2>1, <3>1, <3>2
    <3>4. QED
      BY <1>2, <2>1, <2>2, <3>1, <3>3, OrderWhenBlob
  <2>3. CASE par.mode = 1
    <3>1. emitted' = emitted \o <<accepted + 1>>
      BY <1>9, <1>11, <2>3 DEF Collect, Output, FastSent
    <3>2. emitted' = UpTo(accepted')
      BY <1>2, <1>5, <1>7, <2>1, <2>3, <3>1
    <3>3. QED
      BY <1>7, <2>1, <2>3, <3>1, <3>2 DEF OrderInv, Ids, UpTo
  <2>4. QED
    BY <1>1, <2>2, <2>3
<1>12. ASSUME NEW len \in Lens, CollectAndFlush(len)
       PROVE  OrderInv(fec_par)'
  <2>1. /\ pending' = << >>
        /\ accepted' = accepted + 1
        /\ fec_par' = par
    BY <1>12 DEF CollectAndFlush
  <2>2. emitted' = emitted \o
          IF par.mode = 0 THEN Append(ids, accepted + 1) ELSE <<accepted + 1>>
    BY <1>1, <1>9, <1>12, FlushedData DEF CollectAndFlush, Output
  <2>3. emitted' = UpTo(accepted')
    BY <1>1, <1>2, <1>5, <1>7, <1>9, <2>1, <2>2
  <2>4. emitted' \in Seq(Nat)
    BY <1>7, <1>9, <2>2
  <2>5. QED
    BY <2>1, <2>3, <2>4, OrderWhenEmpty
<1>13. ASSUME NEW len \in Lens, FlushAndCollect(len)
       PROVE  OrderInv(fec_par)'
  <2>1. /\ pending' = <<NewPacket(len)>>
        /\ accepted' = accepted + 1
        /\ fec_par' = par
        /\ par.mode = 0
    BY <1>13 DEF FlushAndCollect, Delayed
  <2>2. emitted' = emitted \o ids
    BY <1>1, <1>13, <2>1, FlushedData DEF FlushAndCollect, Output, ids
  <2>3. emitted' \in Seq(Nat) /\ emitted' = UpTo(accepted)
    BY <1>2, <1>8, <2>1, <2>2
  <2>4. emitted' \o <<accepted + 1>> = Append(emitted', accepted + 1)
    BY <1>4, <2>3, ConcatAppend
  <2>5. emitted' \o Ids(pending') = UpTo(accepted')
    BY <1>5, <1>9, <2>1, <2>3, <2>4
  <2>6. QED
    BY <2>1, <2>3, <2>5, OrderWhenBlob
<1>14. CASE Timeout
  <2>1. /\ pending' = << >>
        /\ accepted' = accepted
        /\ fec_par' = par
    BY <1>14 DEF Timeout
  <2>2. emitted' = emitted \o IF par.mode = 0 THEN ids ELSE << >>
    BY <1>1, <1>14, FlushedData DEF Timeout, Output, ids
  <2>3. emitted' = UpTo(accepted')
    BY <1>1, <1>2, <1>6, <2>1, <2>2
  <2>4. emitted' \in Seq(Nat)
    BY <1>2, <1>6, <1>8, <2>2
  <2>5. QED
    BY <2>1, <2>3, <2>4, OrderWhenEmpty
<1>15. ASSUME UNCHANGED <<fec_par, pending, accepted, emitted>>
       PROVE  OrderInv(fec_par)'
  BY <1>15 DEF OrderInv, Ids, UpTo
<1>16. ASSUME NEW c \in Commands, HandleCommand(c)
       PROVE  OrderInv(fec_par)'
  BY <1>15, <1>16 DEF HandleCommand
<1>17. CASE Tick
  BY <1>15, <1>17 DEF Tick
<1>18. CASE UNCHANGED vars
  BY <1>15, <1>18 DEF vars, history
<1>19. QED
  BY <1>10, <1>11, <1>12, <1>13, <1>14, <1>16, <1>17, <1>18 DEF Next, Input

\* For all parameters, lengths and commands: every accepted packet leaves
\* exactly once and in the order of arrival, through every path of input().
THEOREM PacketsLeaveInOrder == Spec => []InOrderExactlyOnce
<1>1. Init => OrderInv(fec_par)
  <2> SUFFICES ASSUME Init PROVE OrderInv(fec_par)
    OBVIOUS
  <2>1. emitted = << >> /\ pending = << >> /\ UpTo(accepted) = << >>
    BY DEF Init, UpTo
  <2>2. emitted \in Seq(Nat) /\ emitted \o << >> = emitted
    BY <2>1
  <2>3. QED
    BY <2>1, <2>2, IdsEmpty DEF OrderInv
<1>2. TypeOK /\ OrderInv(fec_par) => InOrderExactlyOnce
  <2> SUFFICES ASSUME TypeOK, OrderInv(fec_par) PROVE InOrderExactlyOnce
    OBVIOUS
  <2>1. fec_par.mode \in {0, 1}
    BY DEF TypeOK, Parameters
  <2>2. emitted \o << >> = emitted
    BY ConcatAppend DEF OrderInv
  <2>3. QED
    BY <2>1, <2>2 DEF OrderInv, InOrderExactlyOnce, UpTo
<1>3. QED
  BY <1>1, <1>2, NextOrder, InitGroupInv, NextGroupInv, TypeCorrect, PTL DEF Spec

-----------------------------------------------------------------------------
(* Datagrams fit the mtu *)

\* A set of natural numbers has a least element.
LEMMA LeastElement ==
  ASSUME NEW S, S \subseteq Nat, S # {}
  PROVE  \E m \in S : \A n \in S : m <= n
<1>1. IsWellFoundedOn(OpToRel(<, Nat), Nat)
  BY NatLessThanWellFounded, Zenon
<1>2. PICK m \in S : \A n \in S : ~ (<<n, m>> \in OpToRel(<, Nat))
  BY <1>1, WFMin, Zenon
<1>3. ASSUME NEW n \in S
      PROVE  m <= n
  <2>1. n \in Nat /\ m \in Nat
    OBVIOUS
  <2>2. ~ (n < m)
    BY <1>2, <2>1, Zenon DEF OpToRel
  <2>3. QED
    BY <2>1, <2>2
<1>4. QED
  BY <1>3

LEMMA DivMonotone ==
  ASSUME NEW a \in Nat, NEW c \in Nat, NEW b \in Nat \ {0}, a <= c
  PROVE  a \div b <= c \div b
<1> DEFINE p == a \div b
           q == c \div b
<1>1. p \in Nat /\ q \in Nat /\ b * p <= a /\ c < b * q + b
  OBVIOUS
<1> HIDE DEF p, q
<1>2. b * p < b * (q + 1)
  BY <1>1
<1>3. p < q + 1
  BY <1>1, <1>2
<1>4. p <= q
  BY <1>1, <1>3
<1>5. QED
  BY <1>4 DEF p, q

LEMMA RoundUpMonotone ==
  ASSUME NEW a \in Nat, NEW c \in Nat, NEW b \in Nat \ {0}, a <= c
  PROVE  RoundUpDiv(a, b) \in Nat /\ RoundUpDiv(a, b) <= RoundUpDiv(c, b)
<1> DEFINE e == a + b - 1
           f == c + b - 1
<1>1. e \in Nat /\ f \in Nat /\ e <= f
  OBVIOUS
<1> HIDE DEF e, f
<1>2. e \div b \in Nat /\ e \div b <= f \div b
  BY <1>1, DivMonotone
<1>3. QED
  BY <1>2 DEF RoundUpDiv, e, f

LEMMA CostType ==
  ASSUME NEW par \in Parameters, NEW n \in Nat, NEW x \in 1 .. TailX(par)
  PROVE  Cost(par, n, x) \in Nat
<1>1. x \in Nat \ {0} /\ par.rs[x] \in Nat
  BY DEF Parameters, TailX
<1>2. ShardLenWith(n, x, 0) \in Nat
  <2>1. n + LenField + 0 \in Nat
    BY DEF LenField
  <2>2. QED
    BY <1>1, <2>1, RoundUpMonotone DEF ShardLenWith
<1>3. QED
  BY <1>1, <1>2, SizesAssumption DEF Cost

\* The short-packet loop ends with the tail or with a group size whose shards,
\* as the loop measures them, fit the mtu.
LEMMA BestDataNumFits ==
  ASSUME NEW par \in Parameters, NEW n \in Nat
  PROVE  /\ BestDataNum(par, n) \in 1 .. TailX(par)
         /\ \/ BestDataNum(par, n) = TailX(par)
            \/ ShardLenWith(n, BestDataNum(par, n), 0) <= par.mtu
<1> DEFINE better == {x \in 1 .. TailX(par) - 1 :
                        /\ ShardLenWith(n, x, 0) <= par.mtu
                        /\ Cost(par, n, x) < Cost(par, n, TailX(par))}
           best   == {x \in better :
                        \A z \in better : \/ Cost(par, n, x) < Cost(par, n, z)
                                          \/ /\ Cost(par, n, x) = Cost(par, n, z)
                                             /\ x <= z}
<1>1. TailX(par) \in Nat /\ TailX(par) > 0
  BY EmptyBelowLimit
<1>2. \A x \in better : x \in 1 .. TailX(par) /\ x \in Nat /\ Cost(par, n, x) \in Nat
  BY <1>1, CostType
<1>3. ASSUME better # {}
      PROVE  best # {}
  <2> DEFINE costs == {Cost(par, n, x) : x \in better}
  <2>1. PICK c \in costs : \A d \in costs : c <= d
    <3>1. costs \subseteq Nat /\ costs # {}
      BY <1>2, <1>3
    <3>2. QED
      BY <3>1, LeastElement
  <2> DEFINE cheapest == {x \in better : Cost(par, n, x) = c}
  <2>2. PICK x \in cheapest : \A z \in cheapest : x <= z
    <3>1. cheapest \subseteq Nat /\ cheapest # {}
      BY <1>2
    <3>2. QED
      BY <3>1, LeastElement
  <2>3. ASSUME NEW z \in better
        PROVE  \/ Cost(par, n, x) < Cost(par, n, z)
               \/ Cost(par, n, x) = Cost(par, n, z) /\ x <= z
    <3>1. c <= Cost(par, n, z) /\ Cost(par, n, z) \in Nat
      BY <1>2, <2>1
    <3>2. Cost(par, n, x) = c /\ c \in Nat
      BY <1>2, <2>2
    <3>3. Cost(par, n, z) = c => x <= z
      BY <2>2
    <3>4. QED
      BY <3>1, <3>2, <3>3
  <2>4. x \in best
    BY <2>2, <2>3
  <2>5. QED
    BY <2>4
<1>4. BestDataNum(par, n) =
        IF better = {} THEN TailX(par) ELSE CHOOSE x \in best : TRUE
  BY DEF BestDataNum
<1>5. CASE better = {}
  BY <1>1, <1>4, <1>5
<1>6. CASE better # {}
  <2>1. BestDataNum(par, n) \in best
    BY <1>3, <1>4, <1>6
  <2>2. QED
    BY <1>2, <2>1
<1>7. QED
  BY <1>5, <1>6

\* The number of data shards of a flush is one the parameters have a
\* redundancy for.
LEMMA DataNumType ==
  ASSUME NEW par \in Parameters, NEW n \in Nat, NEW group,
         par.mode = 1 => Len(group) \in 1 .. TailX(par)
  PROVE  /\ DataNum(par, group, n) \in 1 .. TailX(par)
         /\ par.rs[DataNum(par, group, n)] \in Nat
<1>1. TailX(par) \in Nat /\ TailX(par) > 0
  BY EmptyBelowLimit
<1>2. DataNum(par, group, n) \in 1 .. TailX(par)
  BY <1>1, BestDataNumFits DEF DataNum
<1>3. QED
  BY <1>2 DEF TailX, Parameters

\* A blob that fits the mtu when cut for the tail fits it as it is sent.
LEMMA FlushedFits ==
  ASSUME NEW par \in Parameters, NEW n \in Nat, NEW group, NEW last,
         par.mode = 0, RoundUpDiv(n, TailX(par)) <= par.mtu
  PROVE  Flushed(par, group, n, last).len <= par.mtu
<1> DEFINE x == DataNum(par, group, n)
<1>1. x \in Nat \ {0}
  BY DataNumType, EmptyBelowLimit
<1>2. Flushed(par, group, n, last).len = RoundUpDiv(n, x)
  BY DEF Flushed
<1>3. x = TailX(par) \/ x = BestDataNum(par, n)
  BY DEF DataNum
<1>4. CASE x = TailX(par)
  BY <1>2, <1>4
<1>5. CASE x = BestDataNum(par, n) /\ x # TailX(par)
  <2>1. ShardLenWith(n, x, 0) <= par.mtu
    BY <1>5, BestDataNumFits
  <2> HIDE DEF x
  <2>2. n + LenField + 0 \in Nat /\ n <= n + LenField + 0
    BY DEF LenField
  <2>3. RoundUpDiv(n, x) \in Nat /\ RoundUpDiv(n, x) <= ShardLenWith(n, x, 0)
    BY <1>1, <2>2, RoundUpMonotone DEF ShardLenWith
  <2>4. ShardLenWith(n, x, 0) \in Nat
    BY <1>1, <2>2, RoundUpMonotone DEF ShardLenWith
  <2>5. QED
    BY <1>2, <2>1, <2>3, <2>4 DEF Parameters
<1>6. QED
  BY <1>3, <1>4, <1>5

\* A blob of two or more packets fits the mtu, cut for the tail.
BlobFits ==
  fec_par.mode = 0 /\ counter > 1
    => RoundUpDiv(current_len, TailX(fec_par)) <= fec_par.mtu

OversizeInv == OversizedOnlyAlone /\ BlobFits

LEMMA InitOversize == Init => OversizeInv
<1> SUFFICES ASSUME Init PROVE OversizeInv
  OBVIOUS
<1>1. output.len = 0 /\ counter = 0 /\ fec_par.mtu \in Nat
  BY ParametersAssumption DEF Init, NoOutput, Parameters
<1>2. QED
  BY <1>1 DEF OversizeInv, OversizedOnlyAlone, BlobFits

LEMMA NextOversize ==
  TypeOK /\ GroupInv /\ OversizeInv /\ [Next]_vars => OversizeInv'
<1> SUFFICES ASSUME TypeOK, GroupInv, OversizeInv, [Next]_vars
             PROVE  OversizeInv'
  OBVIOUS
<1> DEFINE par == CurrentPar
<1>1. par \in Parameters /\ par.mode \in {0, 1} /\ par.mtu \in Nat
  BY CurrentParType DEF Parameters
<1>2. /\ counter \in Nat /\ counter = Len(pending) /\ pending \in Seq(Packet)
      /\ current_len \in Nat
  BY DEF TypeOK, GroupInv, DeadlineTracksGroup, Packet
<1>3. counter # 0 => par = fec_par
  BY CurrentParFixed
<1>4. par.mode = 0 /\ counter > 1 => RoundUpDiv(current_len, TailX(par)) <= par.mtu
  BY <1>2, <1>3 DEF OversizeInv, BlobFits
\* A packet that input() appends to a blob that is not empty leaves it short
\* enough.
<1>5. ASSUME NEW len \in Lens, Fits(par, len), par.mode = 0, counter > 0
      PROVE  RoundUpDiv(AppendedLen(par, current_len, len), TailX(par)) <= par.mtu
  <2>1. ~ (ShardLenWith(current_len, TailX(par), len) > par.mtu)
    BY <1>5 DEF Fits, Delayed
  <2>2. AppendedLen(par, current_len, len) = current_len + LenField + len
    BY <1>5 DEF AppendedLen
  <2>3. current_len + LenField + len \in Nat /\ TailX(par) \in Nat \ {0}
    BY <1>1, <1>2, SizesAssumption, EmptyBelowLimit DEF LenField
  <2>4. RoundUpDiv(current_len + LenField + len, TailX(par)) \in Nat
    BY <2>3, RoundUpMonotone
  <2>5. QED
    BY <1>1, <2>1, <2>2, <2>4 DEF ShardLenWith
<1> HIDE DEF par
\* Nothing leaves, or a mode-1 datagram.
<1>6. ASSUME fec_par' = par, \/ output'.len = 0 \/ output'.mode = 1
      PROVE  OversizedOnlyAlone'
  BY <1>1, <1>6 DEF OversizedOnlyAlone
\* A flush: the group is one packet, or its blob fits.
<1>7. ASSUME NEW group \in Seq(Packet), NEW n \in Nat, NEW last \in BOOLEAN,
             fec_par' = par, output' = Flushed(par, group, n, last),
             par.mode = 0 /\ Len(group) # 1 => RoundUpDiv(n, TailX(par)) <= par.mtu
      PROVE  OversizedOnlyAlone'
  <2>1. CASE par.mode = 1
    <3>1. output'.mode = 1
      BY <1>7, <2>1 DEF Flushed
    <3>2. QED
      BY <1>6, <1>7, <3>1
  <2>2. CASE par.mode = 0 /\ Len(group) = 1
    <3>1. Len(output'.data) = 1
      BY <1>1, <1>7, <2>2, FlushedData, IdsType, ZenonT(60)
    <3>2. QED
      BY <3>1 DEF OversizedOnlyAlone
  <2>3. CASE par.mode = 0 /\ Len(group) # 1
    <3>1. output'.len <= par.mtu
      BY <1>1, <1>7, <2>3, FlushedFits
    <3>2. output'.len \in Nat
      <4>1. DataNum(par, group, n) \in Nat \ {0}
        <5>1. TailX(par) \in Nat
          BY <1>1, EmptyBelowLimit
        <5>2. DataNum(par, group, n) \in 1 .. TailX(par)
          BY <1>1, <1>7, <2>3, DataNumType
        <5>3. QED
          BY <5>1, <5>2
      <4>2. output'.len = RoundUpDiv(n, DataNum(par, group, n))
        BY <1>7, <2>3 DEF Flushed
      <4>3. QED
        BY <4>1, <4>2, RoundUpMonotone
    <3>3. ~ (output'.len > fec_par'.mtu)
      BY <1>1, <1>7, <3>1, <3>2
    <3>4. QED
      BY <3>3 DEF OversizedOnlyAlone
  <2>4. QED
    BY <1>1, <2>1, <2>2, <2>3
<1>8. ASSUME counter' \in {0, 1}
      PROVE  BlobFits'
  BY <1>8 DEF BlobFits
<1>9. ASSUME NEW len \in Lens, RejectTooLong(len)
      PROVE  OversizeInv'
  <2>1. counter' = 0 /\ fec_par' = par /\ output'.len = 0
    BY <1>9 DEF RejectTooLong, TooLong, Output, NoOutput, par
  <2>2. QED
    BY <1>6, <1>8, <2>1 DEF OversizeInv
<1>10. ASSUME NEW len \in Lens, Collect(len)
       PROVE  OversizeInv'
  <2>1. /\ fec_par' = par
        /\ counter' = counter + 1
        /\ current_len' = AppendedLen(par, current_len, len)
        /\ Fits(par, len)
    BY <1>10 DEF Collect, par
  <2>2. output'.len = 0 \/ output'.mode = 1
    BY <1>1, <1>10 DEF Collect, Output, NoOutput, FastSent, par
  <2>3. BlobFits'
    <3>1. CASE counter = 0
      BY <1>8, <2>1, <3>1
    <3>2. CASE counter > 0
      BY <1>5, <2>1, <3>2 DEF BlobFits, TailX, RoundUpDiv
    <3>3. QED
      BY <1>2, <3>1, <3>2
  <2>4. QED
    BY <1>6, <2>1, <2>2, <2>3 DEF OversizeInv
<1>11. ASSUME NEW len \in Lens, CollectAndFlush(len)
       PROVE  OversizeInv'
  <2> DEFINE group == Append(pending, NewPacket(len))
             blob  == AppendedLen(par, current_len, len)
  <2>1. /\ fec_par' = par
        /\ counter' = 0
        /\ output' = Flushed(par, group, blob, TRUE)
        /\ Fits(par, len)
    BY <1>11 DEF CollectAndFlush, Output, par
  <2>2. group \in Seq(Packet) /\ Len(group) = counter + 1
    BY <1>2, NewPacketType
  <2>3. blob \in Nat
    BY <1>2, AppendedLenType, SizesAssumption
  <2>4. par.mode = 0 /\ Len(group) # 1 => RoundUpDiv(blob, TailX(par)) <= par.mtu
    BY <1>2, <1>5, <2>1, <2>2
  <2> HIDE DEF group, blob
  <2>5. OversizedOnlyAlone'
    BY <1>7, <2>1, <2>2, <2>3, <2>4
  <2>6. QED
    BY <1>8, <2>1, <2>5 DEF OversizeInv
\* A flush of what was pending.
<1>12. ASSUME NEW last \in BOOLEAN, fec_par' = par, counter > 0,
              output' = Flushed(par, pending, current_len, last)
       PROVE  OversizedOnlyAlone'
  <2>1. par.mode = 0 /\ Len(pending) # 1
          => RoundUpDiv(current_len, TailX(par)) <= par.mtu
    BY <1>2, <1>4, <1>12
  <2>2. QED
    BY <1>2, <1>7, <1>12, <2>1
<1>13. ASSUME NEW len \in Lens, FlushAndCollect(len)
       PROVE  OversizeInv'
  <2>1. /\ fec_par' = par
        /\ counter > 0
        /\ counter' = 1
        /\ output' = Flushed(par, pending, current_len, TRUE)
    BY <1>13 DEF FlushAndCollect, Delayed, Output, par
  <2>2. QED
    BY <1>8, <1>12, <2>1 DEF OversizeInv
<1>14. CASE Timeout
  <2>1. /\ fec_par' = par
        /\ counter > 0
        /\ counter' = 0
        /\ output' = Flushed(par, pending, current_len, FALSE)
    BY <1>14 DEF Timeout, Output, par
  <2>2. QED
    BY <1>8, <1>12, <2>1 DEF OversizeInv
<1>15. ASSUME UNCHANGED <<fec_par, counter, current_len, output>>
       PROVE  OversizeInv'
  BY <1>15 DEF OversizeInv, OversizedOnlyAlone, BlobFits, RoundUpDiv, TailX
<1>16. ASSUME NEW c \in Commands, HandleCommand(c)
       PROVE  OversizeInv'
  BY <1>15, <1>16 DEF HandleCommand
<1>17. CASE Tick
  BY <1>15, <1>17 DEF Tick
<1>18. CASE UNCHANGED vars
  BY <1>15, <1>18 DEF vars, history
<1>19. QED
  BY <1>9, <1>10, <1>11, <1>13, <1>14, <1>16, <1>17, <1>18 DEF Next, Input

\* For all parameters, lengths and commands: a mode-0 datagram longer than the
\* mtu carries one packet, too long by itself; several packets never share one.
THEOREM SharedDatagramsFit == Spec => []OversizedOnlyAlone
<1>1. OversizeInv => OversizedOnlyAlone
  BY DEF OversizeInv
<1>2. QED
  BY <1>1, InitOversize, NextOversize, InitGroupInv, NextGroupInv, TypeCorrect,
     PTL DEF Spec

-----------------------------------------------------------------------------
(* A sequence number names one group *)

\* The number of the k-th group, for k up to SeqMod; the numbers wrap once.
Slot(k) == IF FirstSeq + k < SeqMod THEN FirstSeq + k ELSE FirstSeq + k - SeqMod

LEMMA SlotNext ==
  ASSUME NEW k \in Nat, k < SeqMod
  PROVE  /\ Slot(k) \in 0 .. SeqMod - 1
         /\ Slot(k + 1) = (Slot(k) + 1) % SeqMod
<1>1. FirstSeq \in Nat /\ SeqMod \in Nat /\ FirstSeq < SeqMod /\ SeqMod > 0
  BY SizesAssumption
<1>2. Slot(k) \in 0 .. SeqMod - 1
  BY <1>1 DEF Slot
<1>3. ASSUME NEW s \in 0 .. SeqMod - 1
      PROVE  (s + 1) % SeqMod = IF s + 1 = SeqMod THEN 0 ELSE s + 1
  <2>1. CASE s + 1 = SeqMod
    BY <1>1, <2>1
  <2>2. CASE s + 1 < SeqMod
    BY <1>1, <2>2
  <2>3. QED
    BY <1>1, <2>1, <2>2
<1>4. Slot(k + 1) = IF Slot(k) + 1 = SeqMod THEN 0 ELSE Slot(k) + 1
  BY <1>1 DEF Slot
<1>5. QED
  BY <1>2, <1>3, <1>4

LEMMA SlotsDiffer ==
  ASSUME NEW j \in Nat, NEW k \in Nat, j < k, k < SeqMod
  PROVE  Slot(j) # Slot(k)
BY SizesAssumption DEF Slot

\* The datagrams that left, each by its sequence number and its place.
Places == {<<a[1], a[2]>> : a \in sent_shards}

\* Datagram a belongs to one of the first k groups.
Earlier(a, k) == \E j \in 0 .. k - 1 : a[1] = Slot(j)

\* Datagram a left ahead of the flush of the group being collected.
OfGroup(a) ==
  /\ fec_par.mode = 1
  /\ counter > 0
  /\ a[1] = seq
  /\ a[2] \in 0 .. counter - 1
  /\ a[3] = pending[1].id

\* k groups were flushed, of at least one packet each.
GroupsSent(k) ==
  /\ k <= accepted - counter
  /\ seq = Slot(k)
  /\ \A a \in sent_shards : Earlier(a, k) \/ OfGroup(a)

PlacesCounted ==
  /\ IsFiniteSet(Places)
  /\ Cardinality(Places) = sent_count

OneGroupPerSeq == \A a, b \in sent_shards : a[1] = b[1] => a[3] = b[3]

SeqInv ==
  /\ accepted <= MaxPackets
  /\ \E k \in Nat : GroupsSent(k)
  /\ OneGroupPerSeq
  /\ PlacesCounted

\* Handing over datagrams whose places are all new, and which agree with the
\* earlier ones of their number on the group.
LEMMA OutputCounted ==
  ASSUME PlacesCounted, OneGroupPerSeq, NEW o, Output(o), IsFiniteSet(o.shards),
         \A a \in sent_shards :
           a[1] = o.seq => a[2] \notin o.shards /\ a[3] = o.first
  PROVE  PlacesCounted' /\ OneGroupPerSeq'
<1> DEFINE new   == {<<o.seq, i, o.first>> : i \in o.shards}
           added == {<<o.seq, i>> : i \in o.shards}
           f     == [i \in o.shards |-> <<o.seq, i>>]
<1>1. sent_shards' = sent_shards \cup new
  BY DEF Output
<1>2. sent_count' = sent_count + Cardinality(o.shards)
  BY DEF Output
<1>3. Places' = Places \cup added
  <2>1. Places' = {<<a[1], a[2]>> : a \in sent_shards \cup new}
    BY <1>1 DEF Places
  <2>2. ASSUME NEW a \in new
        PROVE  <<a[1], a[2]>> \in added
    OBVIOUS
  <2>3. ASSUME NEW p \in added
        PROVE  \E a \in new : p = <<a[1], a[2]>>
    <3>1. PICK i \in o.shards : p = <<o.seq, i>>
      OBVIOUS
    <3>2. <<o.seq, i, o.first>> \in new
      OBVIOUS
    <3>3. QED
      BY <3>1, <3>2
  <2> HIDE DEF new, added
  <2>4. QED
    BY <2>1, <2>2, <2>3 DEF Places
<1>4. Places \cap added = {}
  BY DEF Places
<1>5. IsFiniteSet(added) /\ Cardinality(added) = Cardinality(o.shards)
  <2>1. f \in Bijection(o.shards, added)
    BY Zenon DEF Bijection, Injection, Surjection, IsInjective
  <2>2. ExistsBijection(o.shards, added)
    BY <2>1 DEF ExistsBijection
  <2>3. QED
    BY <2>2, FS_Bijection
<1>6. PlacesCounted'
  <2>1. IsFiniteSet(Places) /\ Cardinality(Places) = sent_count
    BY DEF PlacesCounted
  <2> HIDE DEF added
  <2>2. /\ IsFiniteSet(Places \cup added)
        /\ Cardinality(Places \cup added) =
             Cardinality(Places) + Cardinality(added) - Cardinality(Places \cap added)
    BY <1>5, <2>1, FS_Union
  <2>3. Cardinality(Places \cap added) = 0
    BY <1>4, FS_EmptySet
  <2>4. Cardinality(Places) \in Nat /\ Cardinality(added) \in Nat
    BY <1>5, <2>1, FS_CardinalityType
  <2>5. Cardinality(Places \cup added) = sent_count + Cardinality(o.shards)
    BY <1>5, <2>1, <2>2, <2>3, <2>4
  <2>6. QED
    BY <1>2, <1>3, <2>2, <2>5 DEF PlacesCounted
<1>7. OneGroupPerSeq'
  <2> SUFFICES ASSUME NEW a \in sent_shards', NEW b \in sent_shards', a[1] = b[1]
               PROVE  a[3] = b[3]
    BY DEF OneGroupPerSeq
  <2>1. ASSUME NEW c \in new
        PROVE  c[1] = o.seq /\ c[3] = o.first
    OBVIOUS
  <2>2. CASE a \in sent_shards /\ b \in sent_shards
    BY <2>2 DEF OneGroupPerSeq
  <2>3. CASE a \in new /\ b \in new
    BY <2>1, <2>3
  <2>4. CASE a \in new /\ b \in sent_shards
    BY <2>1, <2>4
  <2>5. CASE a \in sent_shards /\ b \in new
    BY <2>1, <2>5
  <2>6. QED
    BY <1>1, <2>2, <2>3, <2>4, <2>5
<1>8. QED
  BY <1>6, <1>7

\* In a group whose number has not wrapped, the datagrams that carry the number
\* belong to the group being collected.
LEMMA NumberIsFresh ==
  ASSUME NEW k \in Nat, GroupsSent(k), k < SeqMod,
         NEW a \in sent_shards, a[1] = seq
  PROVE  OfGroup(a)
<1>1. ASSUME Earlier(a, k)
      PROVE  FALSE
  <2>1. PICK j \in 0 .. k - 1 : a[1] = Slot(j)
    BY <1>1 DEF Earlier
  <2>2. j \in Nat /\ j < k
    BY <2>1
  <2>3. Slot(j) # Slot(k)
    BY <2>2, SlotsDiffer
  <2>4. QED
    BY <2>1, <2>3 DEF GroupsSent
<1>2. QED
  BY <1>1 DEF GroupsSent

\* A flush starts the next number.
LEMMA FlushStep ==
  ASSUME TypeOK, SeqInv, NEW o, Output(o), GroupDone, o.seq = seq,
         IsFiniteSet(o.shards),
         accepted - counter < SeqMod,
         accepted' - counter' > accepted - counter, accepted' <= MaxPackets,
         accepted' \in Nat, counter' \in Nat,
         \A a \in sent_shards :
           OfGroup(a) => a[2] \notin o.shards /\ a[3] = o.first
  PROVE  SeqInv'
<1>1. PICK k \in Nat : GroupsSent(k)
  BY DEF SeqInv
<1>2. accepted \in Nat /\ counter \in Nat /\ SeqMod \in Nat
  BY SizesAssumption DEF TypeOK
<1>3. k < SeqMod /\ k + 1 <= accepted' - counter' /\ k + 1 \in Nat
  <2>1. k \in Nat /\ k <= accepted - counter
    BY <1>1 DEF GroupsSent
  <2>2. k < SeqMod
    BY <1>2, <2>1
  <2>3. ASSUME NEW p \in Nat, NEW q \in Nat, p - q > accepted - counter
        PROVE  k + 1 <= p - q
    BY <1>2, <2>1, <2>3
  <2>4. k + 1 \in Nat
    BY <2>1
  <2>5. k + 1 <= accepted' - counter'
    BY <2>3
  <2>6. QED
    BY <2>2, <2>4, <2>5
<1>4. PlacesCounted' /\ OneGroupPerSeq'
  BY <1>1, <1>3, NumberIsFresh, OutputCounted DEF SeqInv
<1>5. seq' = Slot(k + 1) /\ seq = Slot(k)
  BY <1>1, <1>3, SlotNext DEF GroupsSent, GroupDone
<1>6. ASSUME NEW a \in sent_shards'
      PROVE  Earlier(a, k + 1)
  <2>1. CASE a \in sent_shards
    <3>1. CASE Earlier(a, k)
      BY <3>1 DEF Earlier
    <3>2. CASE OfGroup(a)
      BY <1>5, <3>2 DEF Earlier, OfGroup
    <3>3. QED
      BY <1>1, <2>1, <3>1, <3>2 DEF GroupsSent
  <2>2. CASE a \in {<<o.seq, i, o.first>> : i \in o.shards}
    <3>1. a[1] = Slot(k)
      BY <1>5, <2>2
    <3>2. QED
      BY <1>3, <3>1 DEF Earlier
  <2>3. QED
    BY <2>1, <2>2 DEF Output
<1>7. GroupsSent(k + 1)'
  BY <1>3, <1>5, <1>6 DEF GroupsSent, Earlier, Slot
<1>8. QED
  BY <1>3, <1>4, <1>7 DEF SeqInv

\* What a step that collects or rejects keeps: the number, and the datagrams
\* sent ahead of the group.
LEMMA SameNumberStep ==
  ASSUME SeqInv, TypeOK, seq' = seq, accepted' \in Nat, counter' \in Nat,
         accepted' - counter' = accepted - counter, accepted' <= MaxPackets,
         PlacesCounted', OneGroupPerSeq',
         \A k \in Nat : \A a \in sent_shards' :
           GroupsSent(k) => Earlier(a, k) \/ OfGroup(a)'
  PROVE  SeqInv'
<1>1. PICK k \in Nat : GroupsSent(k)
  BY DEF SeqInv
<1>2. k <= accepted - counter /\ seq' = Slot(k)
  BY <1>1 DEF GroupsSent
<1>3. GroupsSent(k)'
  BY <1>1, <1>2 DEF GroupsSent, Earlier, Slot
<1>4. QED
  BY <1>1, <1>3 DEF SeqInv

\* Within one round of the numbers they do not repeat.
OneRound == MaxPackets \in Nat /\ MaxPackets <= SeqMod

LEMMA InitSeqInv == OneRound /\ Init => SeqInv
<1> SUFFICES ASSUME OneRound, Init PROVE SeqInv
  OBVIOUS
<1>1. /\ sent_shards = {} /\ sent_count = 0 /\ accepted = 0 /\ counter = 0
      /\ seq = FirstSeq
  BY DEF Init
<1>2. PlacesCounted
  BY <1>1, FS_EmptySet DEF PlacesCounted, Places
<1>3. GroupsSent(0)
  BY <1>1, SizesAssumption DEF GroupsSent, Slot
<1>4. QED
  BY <1>1, <1>2, <1>3 DEF SeqInv, OneGroupPerSeq, OneRound

\* The shards of a flush, and those that left ahead of it.
LEMMA FlushedShards ==
  ASSUME NEW par \in Parameters, NEW group, NEW n \in Nat, NEW last \in BOOLEAN,
         par.mode = 1 => Len(group) \in 1 .. TailX(par)
  PROVE  LET o == Flushed(par, group, n, last)
         IN  /\ o.seq = seq
             /\ o.first = group[1].id
             /\ IsFiniteSet(o.shards)
             /\ o.shards \subseteq Nat
             /\ par.mode = 1 => \A i \in o.shards :
                  i >= Len(group) - 1 /\ (~last => i >= Len(group))
<1> DEFINE o == Flushed(par, group, n, last)
           x == DataNum(par, group, n)
           y == par.rs[x]
<1>1. x \in 1 .. TailX(par) /\ y \in Nat /\ TailX(par) \in Nat
  BY DataNumType, EmptyBelowLimit
<1>2. o.seq = seq /\ o.first = group[1].id
  BY DEF Flushed
<1>3. CASE par.mode = 0
  <2>1. o.shards = 0 .. x + y - 1
    BY <1>3 DEF Flushed
  <2> HIDE DEF x, y
  <2>2. IsFiniteSet(0 .. x + y - 1)
    BY <1>1, FS_Interval
  <2>3. 0 .. x + y - 1 \subseteq Nat
    OBVIOUS
  <2>4. QED
    BY <1>2, <1>3, <2>1, <2>2, <2>3
<1>4. CASE par.mode = 1
  <2>1. o.shards = (IF last THEN {x - 1} ELSE {}) \cup x .. x + y - 1
    BY <1>4 DEF Flushed
  <2>2. x = Len(group)
    BY <1>4 DEF DataNum
  <2> HIDE DEF x, y
  <2>3. IsFiniteSet(x .. x + y - 1)
    BY <1>1, FS_Interval
  <2>4. IsFiniteSet(x .. x + y - 1 \cup {x - 1})
    BY <2>3, FS_AddElement
  <2>5. IsFiniteSet(o.shards)
    <3>1. CASE last
      BY <2>1, <2>4, <3>1
    <3>2. CASE ~last
      BY <2>1, <2>3, <3>2
    <3>3. QED
      BY <3>1, <3>2
  <2>6. \A i \in o.shards : i >= Len(group) - 1 /\ (~last => i >= Len(group))
    BY <1>1, <2>1, <2>2
  <2>7. o.shards \subseteq Nat
    BY <1>1, <2>1
  <2>8. QED
    BY <1>2, <2>5, <2>6, <2>7
<1>5. QED
  BY <1>3, <1>4 DEF Parameters

LEMMA NextSeqInv ==
  ASSUME OneRound
  PROVE  TypeOK /\ GroupInv /\ SeqInv /\ [Next]_vars => SeqInv'
<1> SUFFICES ASSUME TypeOK, GroupInv, SeqInv, [Next]_vars PROVE SeqInv'
  OBVIOUS
<1> DEFINE par == CurrentPar
<1>1. par \in Parameters /\ par.mode \in {0, 1} /\ TailX(par) \in Nat
  BY CurrentParType, EmptyBelowLimit DEF Parameters
<1>2. /\ counter \in Nat /\ counter = Len(pending) /\ pending \in Seq(Packet)
      /\ current_len \in Nat /\ accepted \in Nat /\ accepted <= MaxPackets
      /\ MaxPackets \in Nat /\ SeqMod \in Nat /\ MaxPackets <= SeqMod
  BY SizesAssumption
     DEF TypeOK, GroupInv, DeadlineTracksGroup, Packet, SeqInv, OneRound
<1>3. counter # 0 => par = fec_par
  BY CurrentParFixed
<1>4. par.mode = 1 /\ counter # 0 => counter < TailX(par)
  BY <1>3 DEF GroupInv, GroupBelowLimit
<1>5. PlacesCounted /\ OneGroupPerSeq
  BY DEF SeqInv
<1> HIDE DEF par
\* Nothing leaves.
<1>6. ASSUME Output(NoOutput)
      PROVE  sent_shards' = sent_shards /\ sent_count' = sent_count
  <2>1. sent_shards' = sent_shards /\ sent_count' = sent_count + 0
    BY <1>6, FS_EmptySet DEF Output, NoOutput
  <2>2. sent_count \in Nat
    BY <1>5, FS_CardinalityType DEF PlacesCounted
  <2>3. QED
    BY <2>1, <2>2
<1>7. ASSUME UNCHANGED <<sent_shards, sent_count>>
      PROVE  PlacesCounted' /\ OneGroupPerSeq'
  BY <1>5, <1>7 DEF PlacesCounted, Places, OneGroupPerSeq
\* A group with one more packet.
<1>8. ASSUME NEW len \in Lens
      PROVE  LET group == Append(pending, NewPacket(len))
             IN  /\ group \in Seq(Packet)
                 /\ Len(group) = counter + 1
                 /\ counter > 0 => group[1] = pending[1]
  <2>1. NewPacket(len) \in Packet
    BY <1>2, SizesAssumption DEF NewPacket, Packet
  <2>2. QED
    BY <1>2, <2>1
<1>9. ASSUME NEW len \in Lens, accepted < MaxPackets, RejectTooLong(len)
      PROVE  SeqInv'
  <2>1. /\ counter = 0 /\ Output(NoOutput)
        /\ seq' = seq /\ accepted' = accepted /\ counter' = counter
    BY <1>9 DEF RejectTooLong, TooLong
  <2>2. UNCHANGED <<sent_shards, sent_count>>
    BY <1>6, <2>1
  <2>3. \A k \in Nat : \A a \in sent_shards' : GroupsSent(k) => Earlier(a, k)
    BY <1>2, <2>1, <2>2 DEF GroupsSent, OfGroup
  <2>4. QED
    BY <1>2, <1>7, <2>1, <2>2, <2>3, SameNumberStep
<1>10. ASSUME NEW len \in Lens, accepted < MaxPackets, Collect(len)
       PROVE  SeqInv'
  <2> DEFINE group == Append(pending, NewPacket(len))
  <2>1. /\ seq' = seq /\ accepted' = accepted + 1 /\ counter' = counter + 1
        /\ fec_par' = par /\ pending' = group
        /\ Output(IF par.mode = 1 THEN FastSent(group) ELSE NoOutput)
    BY <1>10 DEF Collect, par
  <2>2. group \in Seq(Packet) /\ Len(group) = counter + 1
        /\ (counter > 0 => group[1] = pending[1])
    BY <1>8
  <2> HIDE DEF group
  <2>3. accepted' \in Nat /\ counter' \in Nat /\ accepted' <= MaxPackets
        /\ accepted' - counter' = accepted - counter
    BY <1>2, <1>10, <2>1
  <2>4. CASE par.mode = 0
    <3>1. UNCHANGED <<sent_shards, sent_count>>
      BY <1>6, <2>1, <2>4
    <3>2. \A k \in Nat : \A a \in sent_shards' : GroupsSent(k) => Earlier(a, k)
      BY <1>2, <1>3, <2>4, <3>1 DEF GroupsSent, OfGroup
    <3>3. QED
      BY <1>7, <2>1, <2>3, <3>1, <3>2, SameNumberStep
  <2>5. CASE par.mode = 1
    <3> DEFINE o == FastSent(group)
    <3>1. Output(o)
      BY <2>1, <2>5
    <3>2. o.seq = seq /\ o.shards = {counter} /\ o.first = group[1].id
      BY <1>2, <2>2 DEF FastSent
    <3> HIDE DEF o
    <3>3. IsFiniteSet(o.shards)
      BY <3>2, FS_Singleton
    <3>4. ASSUME NEW a \in sent_shards, OfGroup(a)
          PROVE  a[2] \notin o.shards /\ a[3] = o.first
      BY <1>2, <2>2, <3>2, <3>4 DEF OfGroup
    <3>5. ASSUME NEW a \in sent_shards, a[1] = o.seq
          PROVE  OfGroup(a)
      <4>1. PICK k \in Nat : GroupsSent(k)
        BY DEF SeqInv
      <4>2. k < SeqMod
        BY <1>2, <1>10, <4>1 DEF GroupsSent
      <4>3. QED
        BY <3>2, <3>5, <4>1, <4>2, NumberIsFresh
    <3>6. PlacesCounted' /\ OneGroupPerSeq'
      BY <1>5, <3>1, <3>3, <3>4, <3>5, OutputCounted
    <3>7. ASSUME NEW a, OfGroup(a)
          PROVE  OfGroup(a)'
      BY <1>2, <1>3, <2>1, <2>2, <3>7 DEF OfGroup
    <3>8. ASSUME NEW a \in {<<o.seq, i, o.first>> : i \in o.shards}
          PROVE  OfGroup(a)'
      BY <1>2, <2>1, <2>5, <3>2 DEF OfGroup
    <3>9. \A k \in Nat : \A a \in sent_shards' :
            GroupsSent(k) => Earlier(a, k) \/ OfGroup(a)'
      BY <3>1, <3>7, <3>8 DEF GroupsSent, Output
    <3>10. QED
      BY <2>1, <2>3, <3>6, <3>9, SameNumberStep
  <2>6. QED
    BY <1>1, <2>4, <2>5
<1>11. ASSUME NEW len \in Lens, accepted < MaxPackets, CollectAndFlush(len)
       PROVE  SeqInv'
  <2> DEFINE group == Append(pending, NewPacket(len))
             blob  == AppendedLen(par, current_len, len)
             o     == Flushed(par, group, blob, TRUE)
  <2>1. /\ Output(o) /\ GroupDone /\ accepted' = accepted + 1 /\ counter' = 0
        /\ Completes(par)
    BY <1>11 DEF CollectAndFlush, par
  <2>2. group \in Seq(Packet) /\ Len(group) = counter + 1
        /\ (counter > 0 => group[1] = pending[1])
    BY <1>8
  <2>3. blob \in Nat
    BY <1>2, AppendedLenType, SizesAssumption
  <2> HIDE DEF group, blob
  <2>4. par.mode = 1 => Len(group) \in 1 .. TailX(par)
    BY <1>2, <2>1, <2>2 DEF Completes
  <2>5. /\ o.seq = seq /\ o.first = group[1].id /\ IsFiniteSet(o.shards)
        /\ par.mode = 1 => \A i \in o.shards : i >= counter
    <3>1. Len(group) - 1 = counter
      BY <1>2, <2>2
    <3>2. ASSUME NEW last \in BOOLEAN, last = TRUE
          PROVE  LET q == Flushed(par, group, blob, last)
                 IN  /\ q.seq = seq /\ q.first = group[1].id
                     /\ IsFiniteSet(q.shards)
                     /\ par.mode = 1 => \A i \in q.shards : i >= counter
      BY <1>1, <2>3, <2>4, <3>1, <3>2, FlushedShards
    <3>3. QED
      BY <3>2, Zenon
  <2> HIDE DEF o
  <2>6. \A a \in sent_shards : OfGroup(a) => a[2] \notin o.shards /\ a[3] = o.first
    BY <1>2, <1>3, <2>2, <2>5 DEF OfGroup
  <2>7. /\ accepted' \in Nat /\ counter' \in Nat /\ accepted' <= MaxPackets
        /\ accepted' - counter' > accepted - counter
        /\ accepted - counter < SeqMod
    BY <1>2, <1>11, <2>1
  <2>8. QED
    BY <2>1, <2>5, <2>6, <2>7, FlushStep
\* A flush of what was pending.
<1>12. ASSUME NEW last \in BOOLEAN, NEW o, counter > 0, GroupDone,
              Output(o), o = Flushed(par, pending, current_len, last),
              par.mode = 0 \/ ~last,
              accepted' \in Nat, accepted' - counter' > accepted - counter,
              counter' \in Nat, accepted' <= MaxPackets
       PROVE  SeqInv'
  <2>1. par.mode = 1 => Len(pending) \in 1 .. TailX(par)
    BY <1>1, <1>2, <1>4, <1>12
  <2>2. /\ o.seq = seq /\ o.first = pending[1].id /\ IsFiniteSet(o.shards)
        /\ par.mode = 1 => \A i \in o.shards : i >= counter
    <3>1. /\ o.seq = seq /\ o.first = pending[1].id /\ IsFiniteSet(o.shards)
          /\ par.mode = 1 => \A i \in o.shards :
               i >= Len(pending) - 1 /\ (~last => i >= Len(pending))
      BY <1>1, <1>2, <1>12, <2>1, FlushedShards, Zenon
    <3>2. par.mode = 1 => ~last
      BY <1>12
    <3>3. QED
      BY <1>2, <3>1, <3>2
  <2>3. /\ GroupDone /\ Output(o) /\ accepted' \in Nat /\ counter' \in Nat
        /\ accepted' <= MaxPackets /\ accepted' - counter' > accepted - counter
    BY <1>12
  <2>4. \A a \in sent_shards : OfGroup(a) => a[2] \notin o.shards /\ a[3] = o.first
    BY <1>2, <1>3, <2>2 DEF OfGroup
  <2>5. accepted - counter < SeqMod
    BY <1>2, <1>12
  <2>6. QED
    BY <2>2, <2>3, <2>4, <2>5, FlushStep
<1>13. ASSUME NEW len \in Lens, accepted < MaxPackets, FlushAndCollect(len)
       PROVE  SeqInv'
  <2>1. /\ par.mode = 0 /\ counter > 0 /\ GroupDone
        /\ Output(Flushed(par, pending, current_len, TRUE))
        /\ accepted' = accepted + 1 /\ counter' = 1
    BY <1>13 DEF FlushAndCollect, Delayed, par
  <2>2. /\ accepted' \in Nat /\ counter' \in Nat /\ accepted' <= MaxPackets
        /\ accepted' - counter' > accepted - counter
    BY <1>2, <1>13, <2>1
  <2>3. QED
    BY <1>12, <2>1, <2>2, Zenon
<1>14. CASE Timeout
  <2>1. /\ counter > 0 /\ GroupDone
        /\ Output(Flushed(par, pending, current_len, FALSE))
        /\ accepted' = accepted /\ counter' = 0
    BY <1>14 DEF Timeout, par
  <2>2. /\ accepted' \in Nat /\ counter' \in Nat /\ accepted' <= MaxPackets
        /\ accepted' - counter' > accepted - counter
    BY <1>2, <2>1
  <2>3. QED
    BY <1>12, <2>1, <2>2, Zenon
<1>15. ASSUME UNCHANGED <<fec_par, seq, counter, pending, accepted, sent_shards,
                          sent_count>>
       PROVE  SeqInv'
  BY <1>15 DEF SeqInv, PlacesCounted, Places, OneGroupPerSeq, GroupsSent,
               Earlier, OfGroup, Slot
<1>16. ASSUME NEW c \in Commands, HandleCommand(c)
       PROVE  SeqInv'
  BY <1>15, <1>16 DEF HandleCommand
<1>17. CASE Tick
  BY <1>15, <1>17 DEF Tick
<1>18. CASE UNCHANGED vars
  BY <1>15, <1>18 DEF vars, history
<1>19. QED
  BY <1>9, <1>10, <1>11, <1>13, <1>14, <1>16, <1>17, <1>18 DEF Next, Input

\* For all parameters, lengths and commands: while no more packets are accepted
\* than there are sequence numbers, a number stands for one group and a place in
\* it for one datagram, on every path of input() and wherever the numbers start.
THEOREM NumbersNameGroups ==
  ASSUME OneRound
  PROVE  Spec => []SeqNamesOneGroup
<1>1. SeqInv => SeqNamesOneGroup
  BY DEF SeqInv, SeqNamesOneGroup, OneGroupPerSeq, PlacesCounted, Places
<1>2. Init => SeqInv
  BY InitSeqInv
<1>3. TypeOK /\ GroupInv /\ SeqInv /\ [Next]_vars => SeqInv'
  BY NextSeqInv
<1>4. QED
  BY <1>1, <1>2, <1>3, InitGroupInv, NextGroupInv, TypeCorrect, PTL DEF Spec

-----------------------------------------------------------------------------
(* The path to the network *)

\* Time that passes is the encoder's time if its timer runs.
LEMMA TimeIsTheEncoders == TimePasses => [Tick]_vars
<1>1. CASE timer = Off
  BY <1>1 DEF TimePasses, vars, history
<1>2. CASE timer # Off
  BY <1>2 DEF TimePasses, Tick
<1> QED  BY <1>1, <1>2

LEMMA StepIsTheEncoders == [SendNext]_allVars => [Next]_vars
<1> SUFFICES ASSUME [SendNext]_allVars PROVE [Next]_vars
  OBVIOUS
<1>1. ASSUME NEW len \in Lens, SendPacket(len) PROVE [Next]_vars
  BY <1>1 DEF SendPacket, Next
<1>2. CASE SendTimeout
  BY <1>2 DEF SendTimeout, Next
<1>3. CASE SendDue
  BY <1>3 DEF SendDue
<1>4. CASE TimePasses
  BY <1>4, TimeIsTheEncoders DEF Next
<1>5. ASSUME NEW c \in Commands, SendCommand(c) PROVE [Next]_vars
  BY <1>5 DEF SendCommand, Next
<1>6. CASE SendPlain
  BY <1>6 DEF SendPlain
<1>7. CASE UNCHANGED allVars
  BY <1>7 DEF allVars
<1> QED  BY <1>1, <1>2, <1>3, <1>4, <1>5, <1>6, <1>7 DEF SendNext

-----------------------------------------------------------------------------
(* delay_send_batch *)

\* The state a batch works on is a record of these three fields.
IsState(s) == s = [queue |-> s.queue, wire |-> s.wire, cooked |-> s.cooked]

\* add() refuses the datagram, sends it and cooks it in place, or lets a copy wait.
LEMMA AddShape ==
  ASSUME NEW s, IsState(s), NEW d, NEW delay
  PROVE  LET r == Add(s, d, delay)
         IN  /\ IsState(r)
             /\ \/ r = s
                \/ /\ delay = 0
                   /\ r.queue = s.queue
                   /\ r.wire = s.wire \cup {d}
                   /\ r.cooked = s.cooked \cup {d.index + 1}
                \/ /\ r.queue = s.queue \cup {[left |-> delay, d |-> d]}
                   /\ r.wire = s.wire
                   /\ r.cooked = s.cooked
<1> DEFINE q == s.queue
           w == s.wire
           c == s.cooked
<1>1. /\ s = [queue |-> q, wire |-> w, cooked |-> c]
      /\ s.queue = q /\ s.wire = w /\ s.cooked = c
  BY DEF IsState
<1> HIDE DEF q, w, c
<1>2. ASSUME NEW x, NEW y
      PROVE  [s EXCEPT !.cooked = x, !.wire = y]
               = [queue |-> q, wire |-> y, cooked |-> x]
  <2>1. [s EXCEPT !.cooked = x] = [queue |-> q, wire |-> w, cooked |-> x]
    BY <1>1
  <2>2. [[queue |-> q, wire |-> w, cooked |-> x] EXCEPT !.wire = y]
          = [queue |-> q, wire |-> y, cooked |-> x]
    OBVIOUS
  <2>3. QED
    BY <2>1, <2>2
<1>3. ASSUME NEW x
      PROVE  [s EXCEPT !.queue = x] = [queue |-> x, wire |-> w, cooked |-> c]
  BY <1>1
<1>4. ASSUME NEW a, NEW b, NEW e
      PROVE  IsState([queue |-> a, wire |-> b, cooked |-> e])
  BY DEF IsState
<1>5. CASE opt.capacity # 0 /\ Cardinality(s.queue) >= opt.capacity
  BY <1>5 DEF Add
<1>6. CASE ~ (opt.capacity # 0 /\ Cardinality(s.queue) >= opt.capacity) /\ delay = 0
  <2>1. Add(s, d, delay)
          = [queue |-> q, wire |-> w \cup {d}, cooked |-> c \cup {d.index + 1}]
    BY <1>1, <1>2, <1>6, Zenon DEF Add
  <2>2. QED
    BY <1>1, <1>4, <1>6, <2>1
<1>7. CASE ~ (opt.capacity # 0 /\ Cardinality(s.queue) >= opt.capacity) /\ delay # 0
  <2>1. Add(s, d, delay)
          = [queue |-> q \cup {[left |-> delay, d |-> d]}, wire |-> w, cooked |-> c]
    BY <1>1, <1>3, <1>7, Zenon DEF Add
  <2>2. QED
    BY <1>1, <1>4, <1>7, <2>1
<1>8. QED
  BY <1>5, <1>6, <1>7

\* The recursion over the batch is well defined.
LEMMA OneByOneUnfolds ==
  ASSUME NEW s, NEW ds, Len(ds) \in Nat, NEW delays, NEW dropped
  PROVE  LET after == OneByOne(s, ds, delays, dropped)
         IN  after = [i \in 0 .. Len(ds) |->
                        IF i = 0 THEN s
                        ELSE IF i \in dropped THEN after[i - 1]
                        ELSE Add(after[i - 1], ds[i], delays[i])]
<1> DEFINE Value(g, i) == IF i = 0 THEN s
                          ELSE IF i \in dropped THEN g[i - 1]
                          ELSE Add(g[i - 1], ds[i], delays[i])
           Solves(g, m) == g = [i \in 0 .. m |-> Value(g, i)]
           unsolved == {m \in 0 .. Len(ds) : ~ \E g : Solves(g, m)}
<1>1. OneByOne(s, ds, delays, dropped) = CHOOSE g : Solves(g, Len(ds))
  BY DEF OneByOne
<1>2. unsolved = {}
  <2>1. SUFFICES ASSUME unsolved # {} PROVE FALSE
    OBVIOUS
  <2>2. PICK m \in unsolved : \A n \in unsolved : m <= n
    <3>1. unsolved \subseteq Nat
      OBVIOUS
    <3>2. QED
      BY <2>1, <3>1, LeastElement
  <2>3. m \in 0 .. Len(ds) /\ ~ \E g : Solves(g, m)
    BY <2>2
  <2>4. CASE m = 0
    <3>1. Solves([i \in 0 .. 0 |-> s], 0)
      OBVIOUS
    <3>2. QED
      BY <2>3, <2>4, <3>1
  <2>5. CASE m # 0
    <3>1. m - 1 \in 0 .. Len(ds) /\ ~ (m <= m - 1)
      BY <2>3, <2>5
    <3>2. PICK g : Solves(g, m - 1)
      BY <2>2, <3>1
    <3> DEFINE h == [i \in 0 .. m |-> IF i = m THEN Value(g, m) ELSE g[i]]
    <3>3. ASSUME NEW i \in 0 .. m
          PROVE  h[i] = Value(h, i)
      <4>1. i # 0 => i - 1 \in 0 .. m /\ i - 1 # m /\ h[i - 1] = g[i - 1]
        BY <2>3
      <4>2. Value(h, i) = Value(g, i)
        BY <4>1
      <4>3. i # m => i \in 0 .. m - 1 /\ h[i] = g[i]
        BY <2>3
      <4> HIDE DEF Value, h
      <4>4. i # m => g[i] = Value(g, i)
        BY <3>2, <4>3
      <4>5. i = m => h[i] = Value(g, i)
        BY DEF h
      <4>6. QED
        BY <4>2, <4>3, <4>4, <4>5
    <3>4. Solves(h, m)
      BY <3>3
    <3>5. QED
      BY <2>3, <3>4
  <2>6. QED
    BY <2>4, <2>5
<1>3. \E g : Solves(g, Len(ds))
  BY <1>2
<1>4. QED
  BY <1>1, <1>3

\* What a batch may add to the state it works on: a datagram with delay that waits, or
\* one without that leaves and is cooked where it is.
Added(s, r, ds, delays) ==
  /\ IsState(r)
  /\ s.wire \subseteq r.wire
  /\ \A d \in r.wire : \/ d \in s.wire
                       \/ \E i \in DOMAIN ds : d = ds[i] /\ delays[i] = 0
  /\ \A e \in r.queue : \/ e \in s.queue
                        \/ \E i \in DOMAIN ds : e = [left |-> delays[i], d |-> ds[i]]
  /\ \A j \in r.cooked :
       \/ j \in s.cooked
       \/ \E i \in DOMAIN ds : /\ j = ds[i].index + 1
                               /\ ds[i] \in r.wire
                               /\ delays[i] = 0

LEMMA AddAdds ==
  ASSUME NEW s, NEW q, NEW ds, NEW delays, Added(s, q, ds, delays),
         NEW i \in DOMAIN ds
  PROVE  Added(s, Add(q, ds[i], delays[i]), ds, delays)
<1> DEFINE r == Add(q, ds[i], delays[i])
<1>1. /\ IsState(r)
      /\ \/ r = q
         \/ /\ delays[i] = 0
            /\ r.queue = q.queue
            /\ r.wire = q.wire \cup {ds[i]}
            /\ r.cooked = q.cooked \cup {ds[i].index + 1}
         \/ /\ r.queue = q.queue \cup {[left |-> delays[i], d |-> ds[i]]}
            /\ r.wire = q.wire
            /\ r.cooked = q.cooked
  BY AddShape DEF Added
<1> HIDE DEF r
<1>2. CASE r = q
  BY <1>2 DEF r
<1>3. CASE /\ delays[i] = 0
           /\ r.queue = q.queue
           /\ r.wire = q.wire \cup {ds[i]}
           /\ r.cooked = q.cooked \cup {ds[i].index + 1}
  <2>1. Added(s, r, ds, delays)
    BY <1>1, <1>3 DEF Added
  <2>2. QED
    BY <2>1 DEF r
<1>4. CASE /\ r.queue = q.queue \cup {[left |-> delays[i], d |-> ds[i]]}
           /\ r.wire = q.wire
           /\ r.cooked = q.cooked
  <2>1. Added(s, r, ds, delays)
    BY <1>1, <1>4 DEF Added
  <2>2. QED
    BY <2>1 DEF r
<1>5. QED
  BY <1>1, <1>2, <1>3, <1>4

LEMMA BatchAdds ==
  ASSUME NEW s, IsState(s), NEW ds, Len(ds) \in Nat, DOMAIN ds = 1 .. Len(ds),
         NEW delays, NEW dropped
  PROVE  Added(s, DelaySendBatch(s, ds, delays, dropped), ds, delays)
<1> DEFINE after == OneByOne(s, ds, delays, dropped)
<1>1. CASE AtOnce(ds, delays)
  <2> DEFINE r == SendBatch(s, ds)
             c == s.cooked \cup {ds[i].index + 1 : i \in DOMAIN ds}
             w == s.wire \cup {ds[i] : i \in DOMAIN ds}
  <2>1. r = [queue |-> s.queue, wire |-> w, cooked |-> c]
    <3>1. SendBatch(s, ds) = [[s EXCEPT !.cooked = c] EXCEPT !.wire = w]
      BY DEF SendBatch
    <3>2. ASSUME NEW p, NEW q, NEW k, NEW x, NEW y
          PROVE  [[[queue |-> p, wire |-> q, cooked |-> k]
                     EXCEPT !.cooked = x] EXCEPT !.wire = y]
                   = [queue |-> p, wire |-> y, cooked |-> x]
      <4>1. [[queue |-> p, wire |-> q, cooked |-> k] EXCEPT !.cooked = x]
              = [queue |-> p, wire |-> q, cooked |-> x]
        OBVIOUS
      <4>2. [[queue |-> p, wire |-> q, cooked |-> x] EXCEPT !.wire = y]
              = [queue |-> p, wire |-> y, cooked |-> x]
        OBVIOUS
      <4>3. QED
        BY <4>1, <4>2
    <3> HIDE DEF c, w
    <3>3. s = [queue |-> s.queue, wire |-> s.wire, cooked |-> s.cooked]
      BY DEF IsState
    <3>4. QED
      BY <3>1, <3>2, <3>3, Zenon
  <2>2. \A i \in DOMAIN ds : delays[i] = 0
    BY <1>1 DEF AtOnce
  <2>3. DelaySendBatch(s, ds, delays, dropped) = r
    BY <1>1 DEF DelaySendBatch
  <2> HIDE DEF r
  <2>4. r.queue = s.queue /\ r.wire = w /\ r.cooked = c /\ IsState(r)
    BY <2>1 DEF IsState
  <2>5. Added(s, r, ds, delays)
    BY <2>2, <2>4 DEF Added
  <2>6. QED
    BY <2>3, <2>5
<1>2. CASE ~ AtOnce(ds, delays)
  <2> DEFINE missed == {i \in 0 .. Len(ds) : ~ Added(s, after[i], ds, delays)}
  <2>1. /\ after[0] = s
        /\ \A i \in 1 .. Len(ds) :
             after[i] = IF i \in dropped THEN after[i - 1]
                        ELSE Add(after[i - 1], ds[i], delays[i])
    <3>1. after = [i \in 0 .. Len(ds) |->
                     IF i = 0 THEN s
                     ELSE IF i \in dropped THEN after[i - 1]
                     ELSE Add(after[i - 1], ds[i], delays[i])]
      BY OneByOneUnfolds
    <3> HIDE DEF after
    <3>2. 0 \in 0 .. Len(ds)
      OBVIOUS
    <3>3. \A i \in 1 .. Len(ds) : i \in 0 .. Len(ds) /\ i # 0
      OBVIOUS
    <3>4. QED
      BY <3>1, <3>2, <3>3, Zenon
  <2> HIDE DEF after
  <2>2. missed = {}
    <3>1. SUFFICES ASSUME missed # {} PROVE FALSE
      OBVIOUS
    <3>2. PICK m \in missed : \A n \in missed : m <= n
      <4>1. missed \subseteq Nat
        OBVIOUS
      <4>2. QED
        BY <3>1, <4>1, LeastElement
    <3>3. m \in 0 .. Len(ds) /\ ~ Added(s, after[m], ds, delays)
      BY <3>2
    <3>4. m # 0
      <4>1. Added(s, s, ds, delays)
        BY DEF Added
      <4>2. QED
        BY <2>1, <3>3, <4>1
    <3>5. m - 1 \in 0 .. Len(ds) /\ ~ (m <= m - 1) /\ m \in 1 .. Len(ds)
      BY <3>3, <3>4
    <3>6. Added(s, after[m - 1], ds, delays)
      BY <3>2, <3>5
    <3>7. Added(s, Add(after[m - 1], ds[m], delays[m]), ds, delays)
      BY <3>5, <3>6, AddAdds
    <3>8. QED
      BY <2>1, <3>3, <3>5, <3>6, <3>7
  <2>3. Added(s, after[Len(ds)], ds, delays)
    BY <2>2
  <2>4. QED
    BY <1>2, <2>3 DEF DelaySendBatch, after
<1>3. QED
  BY <1>1, <1>2

-----------------------------------------------------------------------------
(* One call of from_normal_to_fec *)

\* What the encoder's output is made of in a call.
OutputOK ==
  /\ IsFiniteSet(output'.shards)
  /\ output'.shards \subseteq Nat

\* The encoder returns nothing, a packet it keeps, or a finished group.
CallOutput ==
  \/ /\ output' = NoOutput
     /\ fec_par'.mode = 0
  \/ /\ fec_par'.mode = 1
     /\ counter' = counter + 1
     /\ seq' = seq
     /\ output'.mode = 1
     /\ output'.x = 0
     /\ output'.seq = seq
     /\ output'.shards = {counter}
     /\ Len(output'.data) = 1
  \/ /\ fec_par'.mode \in {0, 1}
     /\ output'.mode = fec_par'.mode
     /\ output'.seq = seq
     /\ fec_par'.mode = 1 => output'.x \in Nat /\ output'.x >= counter /\ counter' = 0

LEMMA CallsReturn ==
  ASSUME TypeOK, GroupInv, \/ \E len \in Lens : Input(len)
                           \/ Timeout
  PROVE  /\ OutputOK
         /\ CallOutput
         /\ fec_par'.timeout \in Nat
         /\ SinceFirstPacket \in Nat
         /\ SinceFirstPacket <= fec_par'.timeout
         /\ counter \in Nat
<1> DEFINE par == CurrentPar
<1>1. par \in Parameters /\ par.mode \in {0, 1} /\ TailX(par) \in Nat /\ par.timeout \in Nat
  BY CurrentParType, EmptyBelowLimit DEF Parameters
<1>2. /\ counter \in Nat /\ counter = Len(pending) /\ pending \in Seq(Packet)
      /\ current_len \in Nat /\ age \in Nat
  BY DEF TypeOK, GroupInv, DeadlineTracksGroup, Packet
<1>3. counter # 0 => par = fec_par
  BY CurrentParFixed
<1>4. par.mode = 1 /\ counter # 0 => counter < TailX(par)
  BY <1>3 DEF GroupInv, GroupBelowLimit
<1>5. fec_par' = par
  BY DEF Input, RejectTooLong, Collect, CollectAndFlush, FlushAndCollect, Timeout
<1>6. SinceFirstPacket \in Nat /\ SinceFirstPacket <= par.timeout
  <2>1. CASE counter = 0
    BY <1>1, <2>1 DEF SinceFirstPacket
  <2>2. CASE counter # 0
    <3>1. timer \in Nat /\ timer + age = par.timeout
      BY <1>3, <2>2 DEF GroupInv, DeadlineTracksGroup, TypeOK
    <3>2. QED
      BY <1>2, <2>2, <3>1 DEF SinceFirstPacket
  <2>3. QED
    BY <2>1, <2>2
<1> HIDE DEF par
<1>7. ASSUME output' = NoOutput, par.mode = 0
      PROVE  OutputOK /\ CallOutput
  <2>1. output'.shards = {}
    BY <1>7 DEF NoOutput
  <2>2. QED
    BY <1>5, <1>7, <2>1, FS_EmptySet DEF OutputOK, CallOutput
\* A group leaves: the pending one, or the pending one and the new packet.
<1>8. ASSUME NEW group, NEW n \in Nat, NEW last \in BOOLEAN,
             output' = Flushed(par, group, n, last),
             par.mode = 1 => /\ Len(group) \in 1 .. TailX(par)
                             /\ Len(group) >= counter
                             /\ counter' = 0
      PROVE  OutputOK /\ CallOutput
  <2>1. output'.seq = seq /\ OutputOK
    BY <1>1, <1>8, FlushedShards, Zenon DEF OutputOK
  <2>2. output'.mode = par.mode
    BY <1>1, <1>8 DEF Flushed
  <2>3. par.mode = 1 => output'.x = Len(group)
    BY <1>8 DEF Flushed, DataNum
  <2>4. QED
    BY <1>1, <1>5, <1>8, <2>1, <2>2, <2>3 DEF CallOutput
<1>9. ASSUME NEW len \in Lens, Input(len)
      PROVE  OutputOK /\ CallOutput
  <2> DEFINE group == Append(pending, NewPacket(len))
  <2>1. Len(group) = counter + 1
    BY <1>2, NewPacketType
  <2>2. CASE RejectTooLong(len)
    BY <1>7, <2>2 DEF RejectTooLong, TooLong, Output, par
  <2>3. CASE Collect(len)
    <3>1. CASE par.mode = 0
      BY <1>7, <2>3, <3>1 DEF Collect, Output, par
    <3>2. CASE par.mode = 1
      <4>1. output' = FastSent(group) /\ counter' = counter + 1 /\ seq' = seq
        BY <2>3, <3>2 DEF Collect, Output, par
      <4> HIDE DEF group
      <4>2. output'.shards = {counter}
        BY <1>2, <2>1, <4>1 DEF FastSent
      <4>3. /\ output'.mode = 1 /\ output'.x = 0 /\ output'.seq = seq
            /\ Len(output'.data) = 1
        BY <4>1 DEF FastSent
      <4>4. IsFiniteSet({counter})
        BY FS_Singleton
      <4>5. QED
        BY <1>2, <1>5, <3>2, <4>1, <4>2, <4>3, <4>4 DEF OutputOK, CallOutput
    <3>3. QED
      BY <1>1, <3>1, <3>2
  <2>4. CASE CollectAndFlush(len)
    <3>1. /\ output' = Flushed(par, group, AppendedLen(par, current_len, len), TRUE)
          /\ counter' = 0
          /\ Completes(par)
      BY <2>4 DEF CollectAndFlush, Output, par
    <3>2. AppendedLen(par, current_len, len) \in Nat
      BY <1>2, AppendedLenType, SizesAssumption
    <3>3. par.mode = 1 => Len(group) \in 1 .. TailX(par) /\ Len(group) >= counter
      BY <1>2, <2>1, <3>1 DEF Completes
    <3> HIDE DEF group
    <3>4. QED
      BY <1>8, <3>1, <3>2, <3>3, Zenon
  <2>5. CASE FlushAndCollect(len)
    <3>1. output' = Flushed(par, pending, current_len, TRUE) /\ par.mode = 0
      BY <2>5 DEF FlushAndCollect, Delayed, Output, par
    <3>2. ~ (par.mode = 1)
      BY <3>1
    <3>3. QED
      BY <1>2, <1>8, <3>1, <3>2, Zenon
  <2>6. QED
    BY <1>9, <2>2, <2>3, <2>4, <2>5 DEF Input
<1>10. ASSUME Timeout
       PROVE  OutputOK /\ CallOutput
  <2>1. /\ output' = Flushed(par, pending, current_len, FALSE)
        /\ counter > 0 /\ counter' = 0
    BY <1>10 DEF Timeout, Output, par
  <2>2. par.mode = 1 => Len(pending) \in 1 .. TailX(par) /\ Len(pending) >= counter
    BY <1>1, <1>2, <1>4, <2>1
  <2>3. par.mode = 1 => /\ Len(pending) \in 1 .. TailX(par)
                        /\ Len(pending) >= counter
                        /\ counter' = 0
    BY <2>1, <2>2
  <2>4. current_len \in Nat /\ output' = Flushed(par, pending, current_len, FALSE)
    BY <1>2, <2>1
  <2>5. QED
    BY <1>8, <2>3, <2>4, Zenon
<1>11. QED
  BY <1>1, <1>2, <1>5, <1>6, <1>9, <1>10

\* The datagrams of a call carry the numbers of the shards.
LEMMA InOrderType ==
  ASSUME NEW S, IsFiniteSet(S), S \subseteq Nat
  PROVE  /\ Cardinality(S) \in Nat
         /\ Len(InOrder(S)) = Cardinality(S)
         /\ DOMAIN InOrder(S) = 1 .. Cardinality(S)
         /\ \A i \in 1 .. Cardinality(S) : InOrder(S)[i] \in Nat
         /\ \A k : S = {k} => \A i \in 1 .. Cardinality(S) : InOrder(S)[i] = k
<1> DEFINE first == CHOOSE i \in S : \A j \in S : i <= j
           n == Cardinality(S)
<1>1. n \in Nat
  BY FS_CardinalityType
<1>2. n # 0 => S # {}
  BY FS_EmptySet
<1>3. S # {} => first \in S
  BY LeastElement
<1>4. \A k : S = {k} => first = k /\ n = 1
  BY <1>3, FS_Singleton
<1> HIDE DEF n, first
<1>5. InOrder(S) = [i \in 1 .. n |-> first + i - 1]
  BY DEF InOrder, n, first
<1>6. Len(InOrder(S)) = n /\ DOMAIN InOrder(S) = 1 .. n
  BY <1>1, <1>5
<1>7. ASSUME NEW i \in 1 .. n
      PROVE  InOrder(S)[i] = first + i - 1 /\ first \in Nat /\ first + i - 1 \in Nat
  <2>1. first \in Nat
    <3>1. n # 0
      BY <1>1
    <3>2. first \in S
      BY <1>2, <1>3, <3>1
    <3>3. QED
      BY <3>2
  <2>2. InOrder(S)[i] = first + i - 1
    BY <1>5
  <2>3. QED
    BY <1>1, <2>1, <2>2
<1>8. ASSUME NEW k, S = {k}, NEW i \in 1 .. n
      PROVE  InOrder(S)[i] = k
  <2>1. first = k /\ i = 1
    BY <1>4, <1>8
  <2>2. InOrder(S)[i] = first + i - 1 /\ first \in Nat
    BY <1>7
  <2>3. QED
    BY <2>1, <2>2
<1>9. QED
  BY <1>1, <1>6, <1>7, <1>8 DEF n

-----------------------------------------------------------------------------
(* Latency, and what cooking spoils *)

IsDatagram(d) ==
  d = [seq |-> d.seq, index |-> d.index, mode |-> d.mode, redundant |-> d.redundant,
       clean |-> d.clean, ids |-> d.ids, needed |-> d.needed, timeout |-> d.timeout,
       scatter |-> d.scatter, latency |-> d.latency]

\* A datagram that waits leaves when its group's timeout, and what it was scattered by,
\* are over.
Waits(e) ==
  /\ e = [left |-> e.left, d |-> e.d]
  /\ IsDatagram(e.d)
  /\ e.left \in Nat
  /\ e.d.latency \in Int
  /\ e.d.timeout \in Int
  /\ e.d.scatter \in Int
  /\ e.left + e.d.latency <= e.d.timeout + e.d.scatter
  /\ opt.fix_latency /\ e.d.mode = 0 => e.left + e.d.latency = e.d.timeout + e.d.scatter

QueueOK == \A e \in delay_mp : Waits(e)

\* Datagram e is packet i of group n, sent from where it lies.
SentInPlace(e, n, i) ==
  /\ e.seq = n
  /\ e.mode = 1
  /\ ~e.redundant
  /\ e.index = i
  /\ e.scatter = 0

\* What is cooked was sent in place, in this group.
CookedOK ==
  /\ cooked # {} => opt.rewrites
  /\ \A j \in cooked : /\ j \in 1 .. counter
                       /\ \E e \in wire : SentInPlace(e, seq, j - 1)

SendInv == QueueOK /\ NothingWaitsTooLong /\ StableLatency /\ CookedOK /\ OnlyInPlaceCookingSpoils

LEMMA DatagramFields ==
  ASSUME NEW i, NEW c
  PROVE  LET d == Datagram(output', i, c)
         IN  /\ IsDatagram(d)
             /\ d.seq = output'.seq
             /\ d.index = i
             /\ d.mode = output'.mode
             /\ d.redundant <=> output'.x # 0 /\ i >= output'.x
             /\ ~d.clean => /\ output'.mode = 1
                            /\ output'.x # 0
                            /\ i >= output'.x
                            /\ CookedAtCoding(output') # {}
             /\ d.timeout = fec_par'.timeout
             /\ d.scatter = c
             /\ d.latency = SinceFirstPacket
BY DEF Datagram, IsDatagram

\* What a call makes of the encoder's output.
LEMMA SendShape ==
  ASSUME OutputOK, Send
  PROVE  \E scatter, delays, ds, s :
           LET n == Cardinality(output'.shards)
           IN  /\ n \in Nat
               /\ scatter \in [1 .. n -> Nat]
               /\ DOMAIN ds = 1 .. n
               /\ \A i \in 1 .. n :
                    /\ ds[i] = Datagram(output', InOrder(output'.shards)[i], scatter[i])
                    /\ delays[i] = CommonLatency(output') + scatter[i]
               /\ Added([queue |-> delay_mp, wire |-> wire,
                         cooked |-> CookedAtCoding(output')], s, ds, delays)
               /\ delay_mp' = s.queue
               /\ wire' = s.wire
               /\ cooked' = IF opt.rewrites /\ fec_par'.mode = 1
                            THEN s.cooked \cap (1 .. counter')
                            ELSE {}
<1> DEFINE o == output'
           shards == InOrder(o.shards)
           n == Cardinality(o.shards)
           s0 == [queue |-> delay_mp, wire |-> wire, cooked |-> CookedAtCoding(o)]
<1>1. n \in Nat /\ Len(shards) = n
  BY InOrderType DEF OutputOK
<1>2. PICK scatter \in Scatters(n),
           dropped \in IF opt.random_drop THEN SUBSET (1 .. n) ELSE {{}} :
        LET ds     == [i \in 1 .. n |-> Datagram(o, shards[i], scatter[i])]
            delays == [i \in 1 .. n |-> CommonLatency(o) + scatter[i]]
            s      == DelaySendBatch(s0, ds, delays, dropped)
        IN  /\ delay_mp' = s.queue
            /\ wire' = s.wire
            /\ cooked' = IF opt.rewrites /\ fec_par'.mode = 1
                         THEN s.cooked \cap (1 .. counter')
                         ELSE {}
  BY <1>1 DEF Send
<1> DEFINE ds     == [i \in 1 .. n |-> Datagram(o, shards[i], scatter[i])]
           delays == [i \in 1 .. n |-> CommonLatency(o) + scatter[i]]
           s      == DelaySendBatch(s0, ds, delays, dropped)
<1>3. scatter \in [1 .. n -> Nat]
  <2>1. PICK m : scatter \in [1 .. n -> 0 .. m]
    BY <1>2 DEF Scatters
  <2>2. 0 .. m \subseteq Nat
    OBVIOUS
  <2>3. QED
    BY <2>1, <2>2
<1>4. /\ delay_mp' = s.queue
      /\ wire' = s.wire
      /\ cooked' = IF opt.rewrites /\ fec_par'.mode = 1
                   THEN s.cooked \cap (1 .. counter')
                   ELSE {}
  BY <1>2
<1>5. IsState(s0)
  BY DEF IsState
<1> HIDE DEF s0, n, o, shards
<1>6. DOMAIN ds = 1 .. n /\ Len(ds) = n
  BY <1>1
<1>7. \A i \in 1 .. n : /\ ds[i] = Datagram(o, shards[i], scatter[i])
                        /\ delays[i] = CommonLatency(o) + scatter[i]
  OBVIOUS
<1> HIDE DEF ds, delays
<1>8. Added(s0, s, ds, delays)
  BY <1>1, <1>5, <1>6, BatchAdds
<1> HIDE DEF s
<1>9. \E scatter_, delays_, ds_, s_ :
        /\ n \in Nat
        /\ scatter_ \in [1 .. n -> Nat]
        /\ DOMAIN ds_ = 1 .. n
        /\ \A i \in 1 .. n : /\ ds_[i] = Datagram(o, shards[i], scatter_[i])
                            /\ delays_[i] = CommonLatency(o) + scatter_[i]
        /\ Added(s0, s_, ds_, delays_)
        /\ delay_mp' = s_.queue
        /\ wire' = s_.wire
        /\ cooked' = IF opt.rewrites /\ fec_par'.mode = 1
                     THEN s_.cooked \cap (1 .. counter')
                     ELSE {}
  BY <1>1, <1>3, <1>4, <1>6, <1>7, <1>8, Zenon
<1>10. QED
  BY <1>9, Zenon DEF s0, n, o, shards

\* Time that passes for a waiting datagram.
LEMMA WaitingAges ==
  ASSUME NEW e, Waits(e), e.left # 0
  PROVE  LET f == [e EXCEPT !.left = @ - 1, !.d.latency = @ + 1]
         IN  /\ Waits(f)
             /\ f.d.clean = e.d.clean
             /\ f.d.seq = e.d.seq
             /\ f.d.index = e.d.index
<1> DEFINE d == e.d
           m == [d EXCEPT !.latency = d.latency + 1]
           f == [[e EXCEPT !.left = e.left - 1] EXCEPT !.d = m]
<1>1. m = [seq |-> d.seq, index |-> d.index, mode |-> d.mode, redundant |-> d.redundant,
           clean |-> d.clean, ids |-> d.ids, needed |-> d.needed, timeout |-> d.timeout,
           scatter |-> d.scatter, latency |-> d.latency + 1]
  BY DEF Waits, IsDatagram
<1> HIDE DEF m
<1>2. IsDatagram(m)
  BY <1>1 DEF IsDatagram
<1>3. f = [left |-> e.left - 1, d |-> m]
  <2>1. e = [left |-> e.left, d |-> d]
    BY DEF Waits
  <2> HIDE DEF d
  <2>2. [e EXCEPT !.left = e.left - 1] = [left |-> e.left - 1, d |-> d]
    BY <2>1
  <2>3. [[left |-> e.left - 1, d |-> d] EXCEPT !.d = m] = [left |-> e.left - 1, d |-> m]
    OBVIOUS
  <2>4. QED
    BY <2>2, <2>3
<1>4. [e EXCEPT !.left = @ - 1, !.d.latency = @ + 1] = f
  BY DEF m, Waits
<1> HIDE DEF f
<1>5. Waits(f)
  <2>1. f.left = e.left - 1 /\ f.d = m
    BY <1>3
  <2>2. /\ e.left - 1 \in Nat /\ e.left \in Nat
        /\ d.latency \in Int /\ d.timeout \in Int /\ d.scatter \in Int
        /\ e.left + d.latency <= d.timeout + d.scatter
        /\ opt.fix_latency /\ d.mode = 0 => e.left + d.latency = d.timeout + d.scatter
    BY DEF Waits
  <2>3. /\ m.latency = d.latency + 1 /\ m.timeout = d.timeout /\ m.scatter = d.scatter
        /\ m.mode = d.mode
    BY <1>1
  <2> HIDE DEF d
  <2>4. /\ m.latency \in Int
        /\ (e.left - 1) + m.latency = e.left + d.latency
        /\ m.timeout + m.scatter = d.timeout + d.scatter
        /\ m.mode = d.mode
    <3>1. \A l, k \in Int : k + 1 \in Int /\ (l - 1) + (k + 1) = l + k
      OBVIOUS
    <3>2. e.left \in Int
      BY <2>2
    <3>3. QED
      BY <2>2, <2>3, <3>1, <3>2
  <2>5. QED
    BY <1>2, <1>3, <2>1, <2>2, <2>3, <2>4 DEF Waits
<1>6. f.d.clean = e.d.clean /\ f.d.seq = e.d.seq /\ f.d.index = e.d.index
  <2>1. f.d = m
    BY <1>3
  <2>2. m.clean = d.clean /\ m.seq = d.seq /\ m.index = d.index
    BY <1>1
  <2>3. QED
    BY <2>1, <2>2
<1>7. QED
  BY <1>4, <1>5, <1>6, Zenon

\* A spoiled datagram is spoiled by one that was sent in place.
SpoiledInPlace(d, sent) ==
  ~d.clean =>
    /\ opt.rewrites
    /\ \E e \in sent : /\ e.seq = d.seq
                       /\ e.mode = 1
                       /\ ~e.redundant
                       /\ e.index < d.index
                       /\ e.scatter = 0

\* A call keeps the invariant, whatever the encoder returns.
LEMMA CallKeepsInv ==
  ASSUME TypeOK, GroupInv, SendInv, \/ \E len \in Lens : Input(len)
                                    \/ Timeout,
         Send, opt' = opt
  PROVE  SendInv'
<1> DEFINE o == output'
           numbers == InOrder(o.shards)
           n == Cardinality(o.shards)
           s0 == [queue |-> delay_mp, wire |-> wire, cooked |-> CookedAtCoding(o)]
<1>1. /\ OutputOK
      /\ CallOutput
      /\ fec_par'.timeout \in Nat
      /\ SinceFirstPacket \in Nat
      /\ SinceFirstPacket <= fec_par'.timeout
      /\ counter \in Nat
  BY CallsReturn
<1>2. PICK scatter, delays, ds, s :
        /\ n \in Nat
        /\ scatter \in [1 .. n -> Nat]
        /\ DOMAIN ds = 1 .. n
        /\ \A i \in 1 .. n : /\ ds[i] = Datagram(o, numbers[i], scatter[i])
                             /\ delays[i] = CommonLatency(o) + scatter[i]
        /\ Added(s0, s, ds, delays)
        /\ delay_mp' = s.queue
        /\ wire' = s.wire
        /\ cooked' = IF opt.rewrites /\ fec_par'.mode = 1
                     THEN s.cooked \cap (1 .. counter')
                     ELSE {}
  BY <1>1, SendShape, Zenon
<1>3. /\ \A i \in 1 .. n : numbers[i] \in Nat
      /\ \A k : o.shards = {k} => \A i \in 1 .. n : numbers[i] = k
  BY <1>1, InOrderType DEF OutputOK
<1>4. /\ CommonLatency(o) \in Nat
      /\ CommonLatency(o) + SinceFirstPacket <= fec_par'.timeout
      /\ opt.fix_latency /\ o.mode = 0
           => CommonLatency(o) = fec_par'.timeout - SinceFirstPacket
      /\ o.mode = 1 => CommonLatency(o) = 0
  BY <1>1 DEF CommonLatency
<1>5. s0.queue = delay_mp /\ s0.wire = wire /\ s0.cooked = CookedAtCoding(o)
  OBVIOUS
<1>6. CookedAtCoding(o) \subseteq cooked
  BY DEF CookedAtCoding
<1> HIDE DEF s0, n, numbers
\* A datagram of this call.
<1>7. ASSUME NEW i \in 1 .. n
      PROVE  /\ IsDatagram(ds[i])
             /\ ds[i].seq = o.seq
             /\ ds[i].index = numbers[i]
             /\ ds[i].mode = o.mode
             /\ ds[i].redundant <=> o.x # 0 /\ numbers[i] >= o.x
             /\ ~ds[i].clean => /\ o.mode = 1
                                /\ o.x # 0
                                /\ numbers[i] >= o.x
                                /\ CookedAtCoding(o) # {}
             /\ ds[i].timeout = fec_par'.timeout
             /\ ds[i].scatter = scatter[i]
             /\ ds[i].latency = SinceFirstPacket
  <2>1. ds[i] = Datagram(output', numbers[i], scatter[i])
    BY <1>2
  <2>2. QED
    BY <2>1, DatagramFields
<1>8. ASSUME NEW i \in 1 .. n
      PROVE  /\ scatter[i] \in Nat
             /\ delays[i] \in Nat
             /\ delays[i] + ds[i].latency <= ds[i].timeout + ds[i].scatter
             /\ opt.fix_latency /\ o.mode = 0
                  => delays[i] + ds[i].latency = ds[i].timeout + ds[i].scatter
             /\ o.mode = 1 => delays[i] = scatter[i]
  <2>1. scatter[i] \in Nat /\ delays[i] = CommonLatency(o) + scatter[i]
    BY <1>2
  <2>2. QED
    BY <1>1, <1>4, <1>7, <2>1
<1>9. QueueOK'
  <2> SUFFICES ASSUME NEW e \in delay_mp' PROVE Waits(e)'
    BY DEF QueueOK
  <2>1. CASE e \in delay_mp
    <3>1. Waits(e)
      BY <2>1 DEF SendInv, QueueOK
    <3>2. QED
      BY <3>1 DEF Waits
  <2>2. ASSUME NEW i \in 1 .. n, e = [left |-> delays[i], d |-> ds[i]]
        PROVE  Waits(e)'
    <3>1. e.left = delays[i] /\ e.d = ds[i]
      BY <2>2
    <3>2. /\ e.d.latency \in Int /\ e.d.timeout \in Int /\ e.d.scatter \in Int
          /\ e.left \in Nat
      BY <1>1, <1>7, <1>8, <3>1
    <3>3. /\ e.left + e.d.latency <= e.d.timeout + e.d.scatter
          /\ opt.fix_latency /\ e.d.mode = 0 => e.left + e.d.latency = e.d.timeout + e.d.scatter
      BY <1>7, <1>8, <3>1
    <3>4. QED
      BY <1>7, <2>2, <3>1, <3>2, <3>3 DEF Waits
  <2>3. QED
    BY <1>2, <1>5, <2>1, <2>2 DEF Added
<1>10. wire \subseteq wire' /\ \A d \in wire' : \/ d \in wire
                                               \/ \E i \in 1 .. n : d = ds[i] /\ delays[i] = 0
  BY <1>2, <1>5 DEF Added
<1>11. StableLatency'
  <2> SUFFICES ASSUME opt.fix_latency, NEW d \in wire', d.mode = 0
               PROVE  d.latency = d.timeout + d.scatter
    BY DEF StableLatency
  <2>1. CASE d \in wire
    BY <2>1 DEF SendInv, StableLatency
  <2>2. ASSUME NEW i \in 1 .. n, d = ds[i], delays[i] = 0
        PROVE  d.latency = d.timeout + d.scatter
    BY <1>1, <1>7, <1>8, <2>2
  <2>3. QED
    BY <1>10, <2>1, <2>2
<1>12. NothingWaitsTooLong'
  <2>1. ASSUME NEW d \in wire'
        PROVE  d.latency <= d.timeout + d.scatter
    <3>1. CASE d \in wire
      BY <3>1 DEF SendInv, NothingWaitsTooLong
    <3>2. ASSUME NEW i \in 1 .. n, d = ds[i], delays[i] = 0
          PROVE  d.latency <= d.timeout + d.scatter
      BY <1>1, <1>7, <1>8, <3>2
    <3>3. QED
      BY <1>10, <3>1, <3>2
  <2>2. \A e \in delay_mp' : e.left + e.d.latency <= e.d.timeout + e.d.scatter
    BY <1>9 DEF QueueOK, Waits
  <2>3. QED
    BY <2>1, <2>2 DEF NothingWaitsTooLong
\* A datagram of this call that is spoiled is redundancy of the group being collected.
<1>13. ASSUME NEW i \in 1 .. n
       PROVE  SpoiledInPlace(ds[i], wire)
  <2> SUFFICES ASSUME ~ds[i].clean
               PROVE  /\ opt.rewrites
                      /\ \E e \in wire : /\ e.seq = ds[i].seq
                                         /\ e.mode = 1
                                         /\ ~e.redundant
                                         /\ e.index < ds[i].index
                                         /\ e.scatter = 0
    BY DEF SpoiledInPlace
  <2>1. o.mode = 1 /\ o.x # 0 /\ numbers[i] >= o.x /\ CookedAtCoding(o) # {}
    BY <1>7
  <2>2. o.seq = seq /\ o.x \in Nat /\ o.x >= counter
    BY <1>1, <2>1 DEF CallOutput, NoOutput
  <2>3. PICK j \in cooked : TRUE
    BY <1>6, <2>1
  <2>4. opt.rewrites /\ j \in 1 .. counter /\ \E e \in wire : SentInPlace(e, seq, j - 1)
    BY <2>3 DEF SendInv, CookedOK
  <2>5. PICK e \in wire : SentInPlace(e, seq, j - 1)
    BY <2>4
  <2>6. j - 1 < ds[i].index
    BY <1>1, <1>3, <1>7, <2>1, <2>2, <2>4
  <2>7. ds[i].seq = seq
    BY <1>7, <2>2
  <2>8. QED
    BY <2>4, <2>5, <2>6, <2>7 DEF SentInPlace
<1>14. OnlyInPlaceCookingSpoils'
  <2>1. ASSUME NEW d, SpoiledInPlace(d, wire)
        PROVE  SpoiledInPlace(d, wire')
    BY <1>10, <2>1 DEF SpoiledInPlace
  <2>2. \A d \in wire \cup {e.d : e \in delay_mp} : SpoiledInPlace(d, wire)
    BY DEF SendInv, OnlyInPlaceCookingSpoils, SpoiledInPlace
  <2>3. ASSUME NEW d \in wire'
        PROVE  SpoiledInPlace(d, wire')
    BY <1>10, <1>13, <2>1, <2>2
  <2>4. ASSUME NEW e \in delay_mp'
        PROVE  SpoiledInPlace(e.d, wire')
    <3>1. CASE e \in delay_mp
      BY <2>1, <2>2, <3>1
    <3>2. ASSUME NEW i \in 1 .. n, e = [left |-> delays[i], d |-> ds[i]]
          PROVE  SpoiledInPlace(e.d, wire')
      <4>1. e.d = ds[i]
        BY <3>2
      <4>2. QED
        BY <1>13, <2>1, <4>1
    <3>3. QED
      BY <1>2, <1>5, <3>1, <3>2 DEF Added
  <2>5. QED
    BY <2>3, <2>4 DEF OnlyInPlaceCookingSpoils, SpoiledInPlace
<1>15. CookedOK'
  <2> SUFFICES ASSUME NEW j \in cooked'
               PROVE  /\ opt.rewrites
                      /\ j \in 1 .. counter'
                      /\ \E e \in wire' : SentInPlace(e, seq', j - 1)
    BY DEF CookedOK, SentInPlace
  <2>1. opt.rewrites /\ fec_par'.mode = 1 /\ j \in s.cooked /\ j \in 1 .. counter'
    BY <1>2
  <2>2. /\ counter' = counter + 1 /\ seq' = seq
        /\ o.mode = 1 /\ o.x = 0 /\ o.seq = seq /\ o.shards = {counter}
    BY <1>1, <2>1 DEF CallOutput
  <2>3. CASE j \in CookedAtCoding(o)
    <3>1. j \in cooked
      BY <1>6, <2>3
    <3>2. PICK e \in wire : SentInPlace(e, seq, j - 1)
      BY <3>1 DEF SendInv, CookedOK
    <3>3. QED
      BY <1>10, <2>1, <2>2, <3>2
  <2>4. ASSUME NEW i \in 1 .. n, j = ds[i].index + 1, ds[i] \in s.wire, delays[i] = 0
        PROVE  \E e \in wire' : SentInPlace(e, seq', j - 1)
    <3>1. numbers[i] = counter
      BY <1>3, <2>2
    <3>2. ds[i].index = counter /\ j - 1 = counter
      BY <1>1, <1>7, <2>4, <3>1
    <3>3. ds[i].scatter = 0
      BY <1>7, <1>8, <2>2, <2>4
    <3>4. SentInPlace(ds[i], seq', j - 1)
      BY <1>7, <2>2, <3>2, <3>3 DEF SentInPlace
    <3>5. QED
      BY <1>2, <2>4, <3>4
  <2>5. QED
    BY <1>2, <1>5, <2>1, <2>3, <2>4 DEF Added
<1>16. QED
  BY <1>9, <1>11, <1>14, <1>15, <1>12 DEF SendInv

\* Steps after which more may have left, with nothing in it spoiled, and what waits
\* only gets older.
LEMMA OtherStepKeepsInv ==
  ASSUME SendInv, UNCHANGED <<opt, cooked, seq, counter>>,
         wire \subseteq wire',
         \A e \in delay_mp' : /\ Waits(e)
                              /\ \E f \in delay_mp : /\ e.d.clean = f.d.clean
                                                     /\ e.d.seq = f.d.seq
                                                     /\ e.d.index = f.d.index,
         \A d \in wire' \ wire :
           /\ d.latency <= d.timeout + d.scatter
           /\ opt.fix_latency /\ d.mode = 0 => d.latency = d.timeout + d.scatter
           /\ d.clean \/ \E f \in delay_mp : d = f.d
  PROVE  SendInv'
<1>1. QueueOK'
  BY DEF QueueOK, Waits
<1>2. StableLatency'
  BY DEF SendInv, StableLatency
<1>3. CookedOK'
  BY DEF SendInv, CookedOK, SentInPlace
<1>4. \A d \in wire \cup {e.d : e \in delay_mp} : SpoiledInPlace(d, wire)
  BY DEF SendInv, OnlyInPlaceCookingSpoils, SpoiledInPlace
<1>5. ASSUME NEW d, SpoiledInPlace(d, wire)
      PROVE  SpoiledInPlace(d, wire')
  BY <1>5 DEF SpoiledInPlace
<1>6. ASSUME NEW d \in wire'
      PROVE  SpoiledInPlace(d, wire')
  <2>1. CASE d \in wire
    BY <1>4, <1>5, <2>1
  <2>2. CASE d.clean
    BY <2>2 DEF SpoiledInPlace
  <2>3. CASE \E f \in delay_mp : d = f.d
    BY <1>4, <1>5, <2>3
  <2>4. QED
    BY <2>1, <2>2, <2>3
<1>7. ASSUME NEW e \in delay_mp'
      PROVE  SpoiledInPlace(e.d, wire')
  <2>1. PICK f \in delay_mp : /\ e.d.clean = f.d.clean
                              /\ e.d.seq = f.d.seq
                              /\ e.d.index = f.d.index
    OBVIOUS
  <2>2. SpoiledInPlace(f.d, wire')
    BY <1>4, <1>5
  <2>3. QED
    BY <2>1, <2>2 DEF SpoiledInPlace
<1>8. OnlyInPlaceCookingSpoils'
  BY <1>6, <1>7 DEF OnlyInPlaceCookingSpoils, SpoiledInPlace
<1>9. NothingWaitsTooLong'
  <2>1. \A d \in wire' : d.latency <= d.timeout + d.scatter
    BY DEF SendInv, NothingWaitsTooLong
  <2>2. \A e \in delay_mp' : e.left + e.d.latency <= e.d.timeout + e.d.scatter
    BY DEF Waits
  <2>3. QED
    BY <2>1, <2>2 DEF NothingWaitsTooLong
<1>10. QED
  BY <1>1, <1>2, <1>3, <1>8, <1>9 DEF SendInv

\* With FEC disabled the packet leaves as it came, or is refused.
LEMMA PlainAdds ==
  ASSUME SendPlain
  PROVE  /\ wire \subseteq wire'
         /\ \A d \in wire' \ wire : /\ d.clean
                                     /\ d.latency = d.timeout + d.scatter
                                     /\ d.latency <= d.timeout + d.scatter
<1> DEFINE ds == <<Plain(plain')>>
           s0 == [queue |-> delay_mp, wire |-> wire, cooked |-> {}]
<1>1. PICK dropped : wire' = DelaySendBatch(s0, ds, <<0>>, dropped).wire
  BY DEF SendPlain
<1>2. Len(ds) = 1 /\ DOMAIN ds = 1 .. 1
  OBVIOUS
<1>3. /\ ds[1].clean
      /\ ds[1].latency = ds[1].timeout + ds[1].scatter
      /\ ds[1].latency <= ds[1].timeout + ds[1].scatter
  BY DEF Plain
<1>4. IsState(s0) /\ s0.wire = wire
  BY DEF IsState
<1> HIDE DEF ds, s0
<1>5. Added(s0, DelaySendBatch(s0, ds, <<0>>, dropped), ds, <<0>>)
  BY <1>2, <1>4, BatchAdds
<1>6. /\ wire \subseteq wire'
      /\ \A d \in wire' : d \in wire \/ \E i \in DOMAIN ds : d = ds[i]
  BY <1>1, <1>4, <1>5 DEF Added
<1>7. \A i \in DOMAIN ds : i = 1
  BY <1>2
<1>8. QED
  BY <1>3, <1>6, <1>7

LEMMA InitSendInv == SendInit => SendInv
BY DEF SendInit, SendInv, QueueOK, NothingWaitsTooLong, StableLatency, CookedOK, OnlyInPlaceCookingSpoils

LEMMA NextSendInv ==
  TypeOK /\ GroupInv /\ SendInv /\ [SendNext]_allVars => SendInv'
<1> SUFFICES ASSUME TypeOK, GroupInv, SendInv, [SendNext]_allVars
             PROVE  SendInv'
  OBVIOUS
<1>1. \A e \in delay_mp : Waits(e)
  BY DEF SendInv, QueueOK
<1>2. ASSUME NEW len \in Lens, SendPacket(len)
      PROVE  SendInv'
  BY <1>2, CallKeepsInv DEF SendPacket
<1>3. CASE SendTimeout
  BY <1>3, CallKeepsInv DEF SendTimeout
<1>4. CASE SendPlain
  <2>1. UNCHANGED <<opt, cooked, seq, counter, delay_mp>>
    BY <1>4 DEF SendPlain, vars
  <2>2. QED
    BY <1>1, <1>4, <2>1, PlainAdds, OtherStepKeepsInv
<1>5. CASE SendDue
  <2>1. /\ UNCHANGED <<opt, cooked, seq, counter>>
        /\ wire' = wire \cup {e.d : e \in {f \in delay_mp : f.left = 0}}
        /\ delay_mp' = {e \in delay_mp : e.left # 0}
    BY <1>5 DEF SendDue, vars
  <2>2. ASSUME NEW d \in wire' \ wire
        PROVE  /\ d.latency <= d.timeout + d.scatter
               /\ opt.fix_latency /\ d.mode = 0 => d.latency = d.timeout + d.scatter
               /\ \E f \in delay_mp : d = f.d
    <3>1. PICK f \in delay_mp : d = f.d /\ f.left = 0
      BY <2>1
    <3>2. Waits(f)
      BY <1>1
    <3>3. /\ 0 + d.latency <= d.timeout + d.scatter
          /\ opt.fix_latency /\ d.mode = 0 => 0 + d.latency = d.timeout + d.scatter
      BY <3>1, <3>2 DEF Waits
    <3>4. d.latency \in Int
      BY <3>1, <3>2 DEF Waits
    <3>5. QED
      BY <3>1, <3>3, <3>4
  <2>3. QED
    BY <1>1, <2>1, <2>2, OtherStepKeepsInv
<1>6. CASE TimePasses
  <2>1. /\ UNCHANGED <<opt, cooked, seq, counter, wire>>
        /\ \A e \in delay_mp : e.left # 0
        /\ delay_mp' = {[e EXCEPT !.left = @ - 1, !.d.latency = @ + 1] : e \in delay_mp}
    BY <1>6 DEF TimePasses
  <2>2. ASSUME NEW g \in delay_mp'
        PROVE  /\ Waits(g)
               /\ \E e \in delay_mp : /\ g.d.clean = e.d.clean
                                      /\ g.d.seq = e.d.seq
                                      /\ g.d.index = e.d.index
    <3>1. PICK e \in delay_mp : g = [e EXCEPT !.left = @ - 1, !.d.latency = @ + 1]
      BY <2>1
    <3>2. Waits(e) /\ e.left # 0
      BY <1>1, <2>1
    <3>3. QED
      BY <3>1, <3>2, WaitingAges
  <2>3. QED
    BY <2>1, <2>2, OtherStepKeepsInv
<1>7. ASSUME UNCHANGED <<opt, cooked, seq, counter, wire, delay_mp>>
      PROVE  SendInv'
  BY <1>1, <1>7, OtherStepKeepsInv
<1>8. ASSUME NEW c \in Commands, SendCommand(c)
      PROVE  SendInv'
  BY <1>7, <1>8 DEF SendCommand, HandleCommand, sendVars
<1>9. CASE UNCHANGED allVars
  BY <1>7, <1>9 DEF allVars, vars, sendVars
<1>10. QED
  BY <1>2, <1>3, <1>4, <1>5, <1>6, <1>8, <1>9 DEF SendNext

\* What the encoder's own invariants say holds in the whole path.
LEMMA EncoderInvariants == SendSpec => [](TypeOK /\ GroupInv)
<1>1. SendInit => Init
  BY DEF SendInit
<1>2. QED
  BY <1>1, StepIsTheEncoders, InitTypeOK, NextTypeOK, InitGroupInv, NextGroupInv,
     PTL DEF SendSpec

LEMMA SendInvariant == SendSpec => []SendInv
BY EncoderInvariants, InitSendInv, NextSendInv, PTL DEF SendSpec

\* For all parameters, jitters, intervals and commands: with --fix-latency every mode-0
\* datagram leaves exactly its group's timeout, and its own scatter, after the group's
\* first packet, whether the group was finished by a packet or by the timer.
THEOREM LatencyIsStable == SendSpec => []StableLatency
<1>1. SendInv => StableLatency
  BY DEF SendInv
<1>2. QED
  BY <1>1, SendInvariant, PTL

\* For all parameters, options and commands, in either mode: no datagram is kept longer
\* than its group's timeout and its own scatter after the group's first packet.
THEOREM DelayIsBounded == SendSpec => []NothingWaitsTooLong
<1>1. SendInv => NothingWaitsTooLong
  BY DEF SendInv
<1>2. QED
  BY <1>1, SendInvariant, PTL

\* For all options and parameters: redundancy that does not cover what the application
\* sent was spoiled by a packet of its group that left in mode 1 without a delay and
\* was rewritten where the encoder keeps it; nothing else spoils it.
THEOREM SpoiledOnlyInPlace == SendSpec => []OnlyInPlaceCookingSpoils
<1>1. SendInv => OnlyInPlaceCookingSpoils
  BY DEF SendInv
<1>2. QED
  BY <1>1, SendInvariant, PTL
===============================================================================
