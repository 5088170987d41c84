----------------------------- MODULE FecParameter -----------------------------
(***************************************************************************)
(* fec_parameter_t: the redundancy for every number of data packets, as    *)
(* -f x1:y1,x2:y2,... and the command "fec" give it.  A string is the      *)
(* sequence of its pairs, or Unparsable.                                   *)
(***************************************************************************)
EXTENDS Integers, SequencesExt

CONSTANTS max_fec_packet_num,
          Unparsable    \* a string sscanf does not read as pairs

ASSUME FecAssumption ==
  max_fec_packet_num \in Nat \ {0} /\ Unparsable \notin Seq([x : Int, y : Int])

\* The checks that are made before anything is stored.
Acceptable(s) ==
  /\ s # Unparsable
  /\ s # << >>
  /\ \A i \in DOMAIN s : s[i].x >= 1 /\ s[i].y >= 0 /\ s[i].x + s[i].y <= max_fec_packet_num
  /\ \A i \in 2 .. Len(s) : s[i].x > s[i - 1].x

\* The decoder's check of a group is stricter: what the message of the parser asks for
\* ("should <%d"), not what the parser checks.
TakenByDecoder(x, y) == x + y < max_fec_packet_num

CeilDiv(a, b) == -((-a) \div b)

\* Mutant of Between: rounded down.
BetweenDown(a, b, x) ==
  LET y == a.y + ((b.y - a.y) * (x - a.x)) \div (b.x - a.x)
  IN  IF x + y > max_fec_packet_num THEN max_fec_packet_num - x ELSE y

\* On the line from a to b, rounded up: the code adds 0.9999 and truncates, and
\* with fewer than 256 packets a fraction is above 1/255.
Between(a, b, x) ==
  LET y == a.y + CeilDiv((b.y - a.y) * (x - a.x), b.x - a.x)
  IN  IF x + y > max_fec_packet_num THEN max_fec_packet_num - x ELSE y

\* Up to the first x everything has the redundancy of the first pair; between
\* two pairs it is interpolated.
Redundancy(s, x) ==
  IF x <= s[1].x THEN s[1].y
  ELSE LET i == CHOOSE j \in 2 .. Len(s) : s[j - 1].x < x /\ x <= s[j].x
       IN  IF x = s[i].x THEN s[i].y ELSE Between(s[i - 1], s[i], x)

\* Entries behind the last x keep what they held.
rs_from_str(par, s) ==
  IF ~Acceptable(s) THEN par
  ELSE LET cnt == s[Len(s)].x
       IN  [par EXCEPT !.rs_cnt = cnt,
                       !.rs_par = [x \in DOMAIN par.rs_par |->
                                     IF x <= cnt THEN [x |-> x, y |-> Redundancy(s, x)]
                                     ELSE par.rs_par[x]]]

rs_to_str(par) == [i \in 1 .. par.rs_cnt |-> par.rs_par[i]]

get_tail(par) == par.rs_par[par.rs_cnt]

\* clone and copy_fec take the entries in use.
CopyTable(par, other) ==
  [par EXCEPT !.rs_cnt = other.rs_cnt,
              !.rs_par = [x \in DOMAIN par.rs_par |->
                            IF x <= other.rs_cnt THEN other.rs_par[x] ELSE par.rs_par[x]]]

copy_fec(par, other) == CopyTable(par, other)

clone(par, other) ==
  [CopyTable(par, other) EXCEPT !.version = other.version, !.mtu = other.mtu,
     !.queue_len = other.queue_len, !.timeout = other.timeout, !.mode = other.mode]
===============================================================================
