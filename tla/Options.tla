-------------------------------- MODULE Options --------------------------------
(***************************************************************************)
(* From the command line to the settings the program runs with.  An        *)
(* argument is what sscanf and the parsers get from it: the numbers it     *)
(* starts with, the pairs of a table, whether it has a colon, its text.    *)
(***************************************************************************)
EXTENDS FecParameter, Bits

MaxInt == 2147483647
MinInt == -MaxInt - 1

Running == 1             \* what exit codes are not

Flags == {"client", "server", "disable_filter", "disable_fec", "disable_obscure", "disable_xor",
          "disable_checksum", "fix_latency", "log_position", "debug_fec_enc", "debug_fec_dec",
          "keep_reconnect", "manual_set_tun", "persist_tun"}

\* An error is not taken for flags.
ASSUME FlagsAssumption == \A flags \in SUBSET Flags : flags # Refused

-----------------------------------------------------------------------------
(* Settings *)

EmptyTable == [version |-> 0, mtu |-> 1250, queue_len |-> 200, timeout |-> 8 * 1000, mode |-> 0,
               rs_cnt |-> 0, rs_par |-> [x \in 1 .. max_fec_packet_num |-> [x |-> 0, y |-> 0]]]

NoText == [numbers |-> << >>, pairs |-> Unparsable, colon |-> FALSE, text |-> ""]

NoAddress == [family |-> "none", ip |-> "", port |-> 0]

\* Flags are the names of the options that set them.
Defaults ==
  [exit |-> Running, fec |-> EmptyTable, flags |-> {},
   queue_len |-> 200, mode |-> 0, mtu |-> 1250, timeout |-> 8 * 1000,
   random_drop |-> 0, delay_capacity |-> 0, report |-> 0, sock_buf |-> 1024 * 1024,
   decode_buf |-> 2000, tun_mtu |-> 1500, header_overhead |-> 40, mssfix |-> 1250,
   log_level |-> 4, enable_log_color |-> TRUE,
   jitter |-> [min |-> 0, max |-> 0], interval |-> [min |-> 0, max |-> 0],
   key |-> "", fifo |-> "", sub_net |-> "10.22.22.0", tun_dev |-> "", out_interface |-> "",
   rs_par_str |-> [NoText EXCEPT !.colon = TRUE, !.pairs = <<[x |-> 20, y |-> 10]>>],
   local_addr |-> NoAddress, remote_addr |-> NoAddress, out_addr |-> NoAddress]

Exit(s, code) == [s EXCEPT !.exit = code]

-----------------------------------------------------------------------------
(* Single arguments: what becomes of the old setting, or Refused *)

\* sscanf leaves the variable alone when there is no number to read.
Scanned(arg, old) == IF arg.numbers = << >> THEN old ELSE Head(arg.numbers)

Limits ==
  [queue_len      |-> [min |-> 1, max |-> 10000],
   random_drop    |-> [min |-> 0, max |-> 10000],
   delay_capacity |-> [min |-> 0, max |-> MaxInt],
   report         |-> [min |-> 1, max |-> MaxInt],
   decode_buf     |-> [min |-> 300, max |-> 20000],
   mode           |-> [min |-> 0, max |-> 1],
   mtu            |-> [min |-> 100, max |-> 2000]]

Unlimited == {"tun_mtu", "header_overhead", "mssfix"}

ReadNumber(old, name, arg) ==
  LET value == Scanned(arg, old)
  IN  IF name \in DOMAIN Limits /\ ~(Limits[name].min <= value /\ value <= Limits[name].max)
      THEN Refused ELSE value

\* Kept in microseconds, but checked in milliseconds.
ReadTimeout(old, arg) ==
  LET value == Scanned(arg, old)
  IN  IF value < 0 \/ value > 1000 THEN Refused ELSE value * 1000

ReadSockBuf(arg) ==
  LET value == Scanned(arg, -1)
  IN  IF 10 <= value /\ value <= 10 * 1024 THEN value * 1024 ELSE Refused

\* value * 1000 in 32 bits, from its two halves.
TimesThousand(value) ==
  LET low  == (value % 65536) * 1000
      high == ((value \div 65536) * 1000 + low \div 65536) % 65536
  IN  (IF high >= 32768 THEN high - 65536 ELSE high) * 65536 + (low % 65536)

\* min:max overwrites what it reads; the check is made before the multiplication.
ReadPair(old, arg) ==
  LET n   == arg.numbers
      min == IF Len(n) >= 1 THEN n[1] ELSE old.min
      max == IF Len(n) >= 2 THEN n[2] ELSE old.max
  IN  IF min < 0 \/ max < 0 \/ min > max THEN Refused
      ELSE [min |-> TimesThousand(min), max |-> TimesThousand(max)]

\* Mutant of ReadJitter: a single number is only the maximum.
ReadJitterMax(old, arg, uninitialized) ==
  IF arg.colon THEN ReadPair(old, arg)
  ELSE LET value == Scanned(arg, uninitialized)
       IN  IF value < 0 \/ value > 1000 * 10 THEN Refused
           ELSE [min |-> TimesThousand(old.min), max |-> value * 1000]

\* A single number that cannot be read leaves a variable without a value.
ReadJitter(old, arg, uninitialized) ==
  IF arg.colon THEN ReadPair(old, arg)
  ELSE LET value == Scanned(arg, uninitialized)
       IN  IF value < 0 \/ value > 1000 * 10 THEN Refused
           ELSE [min |-> 0, max |-> value * 1000]

ReadInterval(old, arg) ==
  IF arg.colon THEN ReadPair(old, arg)
  ELSE LET value == Scanned(arg, -1)
       IN  IF value < 0 \/ value > 1000 * 10 THEN Refused
           ELSE [min |-> value * 1000, max |-> value * 1000]

\* An empty argument leaves the old text; there must be a key at last.
ReadText(old, name, arg) ==
  LET text == IF arg.text = "" THEN old ELSE arg.text
  IN  IF name = "key" /\ text = "" THEN Refused ELSE text

\* Into a new buffer every time, which an empty argument leaves as the allocator
\* returns it.
ReadInterface(arg, uninitialized) ==
  CASE arg.text # ""     -> arg.text
    [] arg.text = "" /\ uninitialized = 0 -> Refused
    [] OTHER             -> "uninitialized"

\* address_t::from_str: [ip]:port must be an address of version 6 and ip:port of
\* version 4; `bracketed` and `version` say what inet_pton finds.
FromStr(arg) ==
  IF /\ "address" \in DOMAIN arg
     /\ arg.numbers # << >>
     /\ Head(arg.numbers) \in 0 .. 65535
     /\ arg.address.version = (IF arg.address.bracketed THEN 6 ELSE 4)
  THEN [family |-> IF arg.address.bracketed THEN "AF_INET6" ELSE "AF_INET",
        ip |-> arg.text, port |-> Head(arg.numbers)]
  ELSE Refused

\* Kept for the end, unless it is clearly not a table.
ReadFec(arg) == IF arg.colon THEN arg ELSE Refused

-----------------------------------------------------------------------------
(* The options *)

Texts == {"key", "fifo", "sub_net", "tun_dev"}

Addresses == {"local_addr", "remote_addr", "out_addr"}

\* The log level and the colours have been dealt with before, and -h does nothing.
Ignored == {"log_level", "enable_color", "disable_color", "h"}

\* The setting an option is about.
Field(name) == IF name \in Flags THEN "flags" ELSE IF name = "fec" THEN "rs_par_str" ELSE name

NewValue(old, option, uninitialized) ==
  LET name == option.name
      arg  == option.arg
  IN  CASE name \in Flags         -> old \cup {name}
        [] name \in Texts         -> ReadText(old, name, arg)
        [] name = "out_interface" -> ReadInterface(arg, uninitialized)
        [] name \in Addresses     -> FromStr(arg)
        [] name \in DOMAIN Limits \cup Unlimited -> ReadNumber(old, name, arg)
        [] name = "jitter"        -> ReadJitter(old, arg, uninitialized)
        [] name = "interval"      -> ReadInterval(old, arg)
        [] name = "timeout"       -> ReadTimeout(old, arg)
        [] name = "sock_buf"      -> ReadSockBuf(arg)
        [] name = "fec"           -> ReadFec(arg)
        [] OTHER                  -> Refused

ReadOption(s, option, uninitialized) ==
  LET field == Field(option.name)
      value == NewValue(s[field], option, uninitialized)
  IN  IF option.name \in Ignored THEN s
      ELSE IF value = Refused THEN Exit(s, -1) ELSE [s EXCEPT ![field] = value]

\* The first time through the line only these are looked at.
ReadLogOption(s, option) ==
  CASE option.name = "log_level" ->
         LET level == Scanned(option.arg, s.log_level)
         IN  IF level \in 0 .. 6 THEN [s EXCEPT !.log_level = level] ELSE Exit(s, -1)
    [] option.name = "enable_color"  -> [s EXCEPT !.enable_log_color = TRUE]
    [] option.name = "disable_color" -> [s EXCEPT !.enable_log_color = FALSE]
    [] OTHER -> s

\* What an option does in one of the two passes; nothing after one that ends the program.
Read(pass, s, option, uninitialized) ==
  IF s.exit # Running THEN s
  ELSE IF pass = "log" THEN ReadLogOption(s, option) ELSE ReadOption(s, option, uninitialized)

\* The line from its beginning.
Passed(pass, s, argv, uninitialized) ==
  LET read[i \in 0 .. Len(argv)] ==
        IF i = 0 THEN s ELSE Read(pass, read[i - 1], argv[i], uninitialized)
  IN  read[Len(argv)]

\* What is looked at before the options are: anywhere on the line, the argument of
\* another option too.
Mentions(argv, word) == \E i \in DOMAIN argv : argv[i].name = word \/ argv[i].arg.text = word

\* What is required of them together, and the table of -f at last.
Completed(s, argv) ==
  LET given(name) == \E i \in DOMAIN argv : argv[i].name = name
      pairs == s.rs_par_str.pairs
  IN  CASE s.exit # Running -> s
        [] ("client" \in s.flags) = ("server" \in s.flags)    -> Exit(s, -1)
        [] ~given("local_addr") \/ ~given("remote_addr")      -> Exit(s, -1)
        [] ~Acceptable(pairs)                                 -> Exit(s, -1)
        [] OTHER -> [s EXCEPT !.fec = rs_from_str([s.fec EXCEPT !.queue_len = s.queue_len,
                                        !.mode = s.mode, !.mtu = s.mtu, !.timeout = s.timeout], pairs)]

process_arg(argv, uninitialized) ==
  LET s == [Defaults EXCEPT !.fec = rs_from_str(@, Defaults.rs_par_str.pairs)]
  IN  IF Mentions(argv, "--unit-test") THEN Exit(s, 0)
      ELSE Completed(Passed("options", Passed("log", s, argv, uninitialized), argv, uninitialized), argv)

\* Whether the settings are those of a client decides between the two event loops.
main(argv, uninitialized) ==
  CASE argv = << >> -> Exit(Defaults, -1)
    [] Mentions(argv, "-h") \/ Mentions(argv, "--help") -> Exit(Defaults, 0)
    [] OTHER -> process_arg(argv, uninitialized)
-----------------------------------------------------------------------------

\* The decoder's table of groups: doubled until it is twice the --decode-buf.
group_table_size(fec_buff_num) ==
  LET doubled[n \in Nat] == IF n < 2 * fec_buff_num THEN doubled[2 * n] ELSE n
  IN  doubled[1]
===============================================================================
