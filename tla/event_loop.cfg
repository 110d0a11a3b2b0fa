\* run() entered with no fd registered: a timer or posted-event callback
\* registers the client's fd (read and write), up to three times, so the
\* vector grows from capacity 0 to 1, 2 and 4 while events are in flight.
CONSTANTS
    Fds = {4}
    InitWaiters <- NoWaiters
    AddedWaiters <- Client
    MaxWaiters = 3
    TimerIds <- Timers2
    Repeating <- RepeatT1
    InitTimers <- ArmT1
    PostIds = {e1}
SPECIFICATION Spec
INVARIANTS TypeOK OneShotFiresOnce
PROPERTIES Responsive
\* run() returns once a callback has called stop().
CHECK_DEADLOCK FALSE
