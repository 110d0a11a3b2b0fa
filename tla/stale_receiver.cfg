CONSTANTS
    Fds = {3, 4}
    InitWaiters <- TwoReaders
    AddedWaiters <- Client
    MaxWaiters = 3
    TimerIds <- Timers2
    Repeating <- RepeatT1
    InitTimers <- ArmT1
    PostIds = {}
SPECIFICATION Spec
INVARIANT NoStaleReceiver
