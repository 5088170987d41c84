--------------------------------- MODULE Clock ---------------------------------
(***************************************************************************)
(* get_current_time_us: the wall clock, corrected so that it never goes    *)
(* back when somebody sets it.                                             *)
(***************************************************************************)
EXTENDS Integers, SequencesExt

Start == [value_fix |-> 0, largest_value |-> 0, now |-> 0]

\* Mutant of get_current_time_us: the correction is not accumulated.
ForgetsOldFix(clock, raw_value) ==
  LET fixed_value == raw_value + clock.value_fix
  IN  IF fixed_value < clock.largest_value
      THEN [clock EXCEPT !.value_fix = clock.largest_value - fixed_value, !.now = clock.largest_value]
      ELSE [clock EXCEPT !.largest_value = fixed_value, !.now = fixed_value]

\* One reading; `now` is what the caller gets.
get_current_time_us(clock, raw_value) ==
  LET fixed_value == raw_value + clock.value_fix
  IN  IF fixed_value < clock.largest_value
      THEN LET fix == clock.value_fix + clock.largest_value - fixed_value
           IN  [clock EXCEPT !.value_fix = fix, !.now = raw_value + fix]
      ELSE [clock EXCEPT !.largest_value = fixed_value, !.now = fixed_value]

\* What the callers see of the readings of the wall clock.
Readings(raw) ==
  LET after[i \in 0 .. Len(raw)] ==
        IF i = 0 THEN Start ELSE get_current_time_us(after[i - 1], raw[i])
  IN  [i \in DOMAIN raw |-> after[i].now]
================================================================================
