------------------------------- MODULE MCEvLoop -------------------------------
EXTENDS EvLoop

CONSTANTS s1, flush, conn

OneSignal == <<s1>>

\* One descriptor for two sockets, except with poll, where one moves to the place of another.
FewFds == [epoll |-> {3}, poll |-> {3, 4}, select |-> {3}]

AnyFlags == {{}, {"poll"}, {"select"}}

TwoTimers == {flush, conn}

\* The flush timer of an encoder and, with epoll, the timer of a connection.
FlushAndConn ==
  [b \in {"epoll", "poll", "select"} |->
     [t \in TwoTimers |-> IF t = flush THEN {[after |-> 1, repeat |-> 0]}
                          ELSE IF b = "epoll" THEN {[after |-> 0, repeat |-> 2]} ELSE {}]]
===============================================================================
