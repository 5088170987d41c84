------------------------------ MODULE ConvManager ------------------------------
(***************************************************************************)
(* The conversations of one connection: conv_manager_t (connection.h) and  *)
(* the lru_collector_t (common.h) that orders them by last use.  The       *)
(* operators map a manager to a manager; the callbacks of the tunnels are  *)
(* built from them.                                                        *)
(*                                                                         *)
(* A time stamp is its age: how many ticks ago it was taken, counted up to *)
(* Ancient, since the code only asks whether a stamp is older than one of  *)
(* its timeouts.                                                           *)
(***************************************************************************)
EXTENDS Integers, Sequences, SequencesExt

CONSTANTS
  ConvTimeout,       \* conv_timeout: a conversation idle for that long expires
  ConvClearInterval, \* conv_clear_interval: time between two clearings
  ConvClearRatio,    \* conv_clear_ratio and conv_clear_min: how many
  ConvClearMin,      \*   conversations a clearing may remove
  Ancient            \* bound: the age at which ages stop growing

ASSUME ConvAssumption ==
  /\ ConvTimeout \in Nat
  /\ ConvClearInterval \in Nat
  /\ ConvClearRatio \in Nat \ {0}
  /\ ConvClearMin \in Nat
  /\ Ancient \in Nat
  /\ Ancient >= ConvTimeout
  /\ Ancient > ConvClearInterval

Ages == 0 .. Ancient

\* What may stand in a stamp nobody has set: a time of the past, or one ahead of the
\* clock, which it gets to unless that is as far ahead as -Ancient.
Stamps == -Ancient .. Ancient

Older(age) == IF age \in {-Ancient, Ancient} THEN age ELSE age + 1

Without(f, x) == [y \in DOMAIN f \ {x} |-> f[y]]

With(f, x, v) == [y \in DOMAIN f \cup {x} |-> IF y = x THEN v ELSE f[y]]

\* lru is the list q, the latest use first; mp, its index, has the same keys.
IsManager(m, Conv, Data) ==
  /\ DOMAIN m = {"conv_to_data", "data_to_conv", "lru", "last_clear"}
  /\ DOMAIN m.conv_to_data \subseteq Conv
  /\ m.conv_to_data \in [DOMAIN m.conv_to_data -> Data]
  /\ DOMAIN m.data_to_conv \subseteq Data
  /\ m.data_to_conv \in [DOMAIN m.data_to_conv -> Conv]
  /\ m.lru \in Seq([key : Conv, age : Ages])
  /\ m.last_clear \in Stamps

\* The constructor leaves last_clear_time as it finds it.
NewManager(last_clear) ==
  [conv_to_data |-> << >>, data_to_conv |-> << >>, lru |-> << >>,
   last_clear |-> last_clear]

Convs(m) == DOMAIN m.conv_to_data

\* Mutant: the lookup asks the wrong map.
IsConvUsedAsData(m, conv) == conv \in DOMAIN m.data_to_conv

IsConvUsed(m, conv) == conv \in Convs(m)

\* mp says where in q the key is; that it does is asserted.
LruErase(q, key) ==
  LET places == {i \in DOMAIN q : q[i].key = key}
  IN  IF places = {} THEN q ELSE RemoveAt(q, CHOOSE i \in places : TRUE)

LruPushFront(q, key) == << [key |-> key, age |-> 0] >> \o q

\* Mutant: an update that moves the entry's time but not the entry.
UpdateInPlace(m, conv) ==
  [m EXCEPT !.lru = [i \in DOMAIN @ |->
                       IF @[i].key = conv THEN [@[i] EXCEPT !.age = 0] ELSE @[i]]]

UpdateActiveTime(m, conv) ==
  [m EXCEPT !.lru = LruPushFront(LruErase(@, conv), conv)]

InsertConv(m, conv, data) ==
  [m EXCEPT !.data_to_conv = With(@, data, conv),
            !.conv_to_data = With(@, conv, data),
            !.lru = LruPushFront(@, conv)]

EraseConv(m, conv) ==
  [m EXCEPT !.conv_to_data = Without(@, conv),
            !.data_to_conv = Without(@, m.conv_to_data[conv]),
            !.lru = LruErase(@, conv)]

\* clear_inactive looks at the clock, clear_inactive0 at the oldest entries.  The clock
\* is unsigned: its distance from a stamp ahead of it wraps to more than any interval.
ClearIsDue(m) == m.last_clear \notin 0 .. ConvClearInterval

NumToClean(size, ratio, least) ==
  LET n == size \div ratio + least IN IF n < size THEN n ELSE size

Oldest(m) == Last(m.lru)

OldestExpired(m) == m.lru # << >> /\ Oldest(m).age >= ConvTimeout

\* What the loop of clear_inactive0 removes, one by one from the end of the list,
\* until it has removed enough or meets an entry that is young enough.
Cleared(m) ==
  LET n == NumToClean(Len(m.lru), ConvClearRatio, ConvClearMin)
  IN  {c \in Convs(m) :
         \E i \in DOMAIN m.lru :
           /\ m.lru[i].key = c
           /\ i > Len(m.lru) - n
           /\ \A k \in i .. Len(m.lru) : m.lru[k].age >= ConvTimeout}

\* clear_inactive, for a caller that does nothing between the rounds of the loop.
ClearInactive(m) ==
  LET gone == Cleared(m)
  IN  [m EXCEPT !.conv_to_data = [c \in DOMAIN @ \ gone |-> @[c]],
                !.data_to_conv = [d \in DOMAIN @ \ {m.conv_to_data[c] : c \in gone} |-> @[d]],
                !.lru = SelectSeq(@, LAMBDA e : e.key \notin gone),
                !.last_clear = 0]

AgedEntry(e) == [e EXCEPT !.age = Older(@)]

Aged(m) ==
  [m EXCEPT !.lru = [i \in DOMAIN @ |-> AgedEntry(@[i])],
            !.last_clear = Older(@)]

(* A manager is consistent if the two maps are inverse and the list holds  *)
(* every conversation once, the longest idle last.                         *)
Consistent(m) ==
  /\ \A c \in Convs(m) :
       /\ m.conv_to_data[c] \in DOMAIN m.data_to_conv
       /\ m.data_to_conv[m.conv_to_data[c]] = c
  /\ \A d \in DOMAIN m.data_to_conv :
       /\ m.data_to_conv[d] \in Convs(m)
       /\ m.conv_to_data[m.data_to_conv[d]] = d
  /\ {m.lru[i].key : i \in DOMAIN m.lru} = Convs(m)
  /\ \A i, j \in DOMAIN m.lru :
       i < j => m.lru[i].key # m.lru[j].key /\ m.lru[i].age <= m.lru[j].age

================================================================================
