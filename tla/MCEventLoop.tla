---------------------------- MODULE MCEventLoop ----------------------------
(* EventLoop instantiated for TLC.                                         *)
EXTENDS EventLoop

\* A callback may start waiting on a second fd in both directions.
Client == {[fd |-> 4, rd |-> TRUE, wr |-> TRUE]}

\* A loop entered before any fd is registered.
NoWaiters == << >>

\* Two readers on different fds, so one pump can queue two fd events.
TwoReaders == << [fd |-> 3, rd |-> TRUE, wr |-> FALSE],
                 [fd |-> 4, rd |-> TRUE, wr |-> FALSE] >>
\* One repeated timer armed before run(); a callback may add a one-shot one.
Timers2 == {"t1", "t2"}
RepeatT1 == {"t1"}
ArmT1 == <<"t1">>
=============================================================================
