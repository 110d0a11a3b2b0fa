---------------------------- MODULE EventLoop ----------------------------
(***************************************************************************)
(* libfoundation's EventLoop (libs/libfoundation/src/EventLoop.cpp and    *)
(* include/libfoundation/EventLoop.h): one user thread runs run(), which  *)
(* pumps until m_stop_flag is set.  A pump polls the fd waiters with a    *)
(* zero-timeout select, queues an event per ready direction, queues an    *)
(* event per expired timer, moves m_event_queue into a local batch and    *)
(* dispatches it, then erases invalid timers.  Callbacks run on the same  *)
(* thread and may call add(fd, ...), add(timer), add(rec, ev) and stop(). *)
(*                                                                         *)
(* The kernel (which fds are ready) and the clock (which timers have      *)
(* expired) are the environment and change between any two steps.        *)
(*                                                                         *)
(* QueuedEvent keeps a reference to its receiver.  For an fd event that   *)
(* is an element of the std::vector m_waiting_fds; a push_back past the   *)
(* vector's capacity moves its elements to a new buffer and frees the old *)
(* one.  The model numbers buffers (buf) and stamps each fd event with   *)
(* the buffer its receiver lives in.                                      *)
(***************************************************************************)
EXTENDS Naturals, Sequences, SequencesExt, FiniteSets

CONSTANTS
    Fds,            \* file descriptors a waiter may watch
    InitWaiters,    \* m_waiting_fds when run() is entered
    AddedWaiters,   \* waiters a callback may register with add(fd, ...)
    MaxWaiters,     \* bound on Len(m_waiting_fds)
    TimerIds,       \* identities of timers
    Repeating,      \* the timers created repeated
    InitTimers,     \* m_timers when run() is entered (distinct ids)
    PostIds         \* events a callback may post with add(rec, ev)

Dirs == {"r", "w"}
Waiter == [fd : Fds, rd : BOOLEAN, wr : BOOLEAN]

ASSUME /\ InitWaiters \in Seq(Waiter) /\ AddedWaiters \subseteq Waiter
       /\ MaxWaiters \in Nat /\ Len(InitWaiters) <= MaxWaiters
       /\ Repeating \subseteq TimerIds
       /\ InitTimers \in Seq(TimerIds)

VARIABLES
    waiters,    \* m_waiting_fds
    cap,        \* capacity of m_waiting_fds' buffer
    buf,        \* number of that buffer (bumped at each reallocation)
    timers,     \* m_timers: << [id, valid, due] >>
    queue,      \* m_event_queue
    batch,      \* events_to_dispatch of the current pump
    next,       \* index in batch of the event being or to be dispatched
    stopFlag,   \* m_stop_flag
    phase,      \* "pump", "dispatch", "callback" or "done" (run returned)
    ready,      \* the (fd, direction) pairs select would report
    fired       \* ghost: callbacks run per timer, counted up to 2

vars == <<waiters, cap, buf, timers, queue, batch, next, stopFlag, phase,
          ready, fired>>

FdEvent == [kind : {"fd"}, slot : 1..MaxWaiters, dir : Dirs, buf : Nat]
TimerEvent == [kind : {"timer"}, id : TimerIds]
PostEvent == [kind : {"post"}, id : PostIds]
Event == FdEvent \cup TimerEvent \cup PostEvent

\* Mutant: the buffer is not grown when it is full.
GrowNot(c) == c

\* Capacity of a std::vector after a push_back into a full buffer: the C++
\* library doubles it (from one for an empty vector).
Grow(c) == IF c = 0 THEN 1 ELSE 2 * c

\* Capacity of a vector built by n push_backs from empty.
RECURSIVE CapFor(_)
CapFor(n) == IF n = 0 THEN 0 ELSE LET c == CapFor(n - 1) IN
                                   IF n > c THEN Grow(c) ELSE c

UsedTimerIds == {timers[k].id : k \in DOMAIN timers}
UsedPostIds ==
    {e.id : e \in {ev \in ToSet(queue) \cup ToSet(batch) : ev.kind = "post"}}

TypeOK ==
    /\ waiters \in Seq(Waiter) /\ Len(waiters) <= cap
    /\ buf \in Nat
    /\ timers \in Seq([id : TimerIds, valid : BOOLEAN, due : BOOLEAN])
    /\ queue \in Seq(Event) /\ batch \in Seq(Event)
    /\ next \in 1..Len(batch) + 1
    /\ stopFlag \in BOOLEAN
    /\ phase \in {"pump", "dispatch", "callback", "done"}
    /\ ready \subseteq Fds \X Dirs
    /\ fired \in [TimerIds -> 0..2]

Init ==
    /\ waiters = InitWaiters
    /\ cap = CapFor(Len(InitWaiters))
    /\ buf = 0
    /\ timers = [k \in DOMAIN InitTimers |->
                    [id |-> InitTimers[k], valid |-> TRUE, due |-> FALSE]]
    /\ queue = <<>> /\ batch = <<>> /\ next = 1
    /\ stopFlag = FALSE
    /\ phase = "pump"
    /\ ready = {}
    /\ fired = [i \in TimerIds |-> 0]
-----------------------------------------------------------------------------
(* The pump: check_fds, check_timers and the move of m_event_queue.       *)

Wants(w, d) == IF d = "r" THEN w.rd ELSE w.wr

\* check_fds (lines 61-72): waiter i asked for direction d and select set
\* its fd in that set; a read event is queued before a write event.
WaiterEvents(i) ==
    SelectSeq(<<[kind |-> "fd", slot |-> i, dir |-> "r", buf |-> buf],
                [kind |-> "fd", slot |-> i, dir |-> "w", buf |-> buf]>>,
              LAMBDA e : Wants(waiters[i], e.dir)
                         /\ <<waiters[i].fd, e.dir>> \in ready)

ReadyEvents == FlattenSeq([i \in DOMAIN waiters |-> WaiterEvents(i)])

\* check_timers (lines 75-96): one event per expired timer, in list order;
\* a repeated timer is reloaded, any other is marked invalid.
ExpiredEvents ==
    LET due == SelectSeq(timers, LAMBDA t : t.due)
    IN  [k \in DOMAIN due |-> [kind |-> "timer", id |-> due[k].id]]

\* Mutant: every expired timer is reloaded, one-shot timers included.
TimersReloadAll ==
    [k \in DOMAIN timers |-> [timers[k] EXCEPT !.due = FALSE]]

TimersAfterCheck ==
    [k \in DOMAIN timers |->
        IF timers[k].due
        THEN [timers[k] EXCEPT !.due = FALSE,
                               !.valid = @ /\ timers[k].id \in Repeating]
        ELSE timers[k]]

\* pump (lines 111-116): the events posted since the last pump come first,
\* then those of check_fds, then those of check_timers.
Pump(fdEvents) ==
    /\ phase = "pump"
    /\ batch' = queue \o fdEvents \o ExpiredEvents
    /\ queue' = <<>>
    /\ next' = 1
    /\ timers' = TimersAfterCheck
    /\ phase' = "dispatch"
    /\ UNCHANGED <<waiters, cap, buf, stopFlag, ready, fired>>

\* check_fds returns at once when there is no waiter (line 31) ...
PumpNoWaiters == waiters = <<>> /\ Pump(<<>>)

\* ... or when select reports an error (lines 56-59) ...
PumpSelectFailed == waiters # <<>> /\ Pump(<<>>)

\* ... and otherwise queues the ready directions.
PumpSelected == waiters # <<>> /\ Pump(ReadyEvents)

-----------------------------------------------------------------------------
(* Dispatch (lines 117-119).  receive_event runs the receiver's callback: *)
(* an fd callback reads or writes its fd until it would block, a timer    *)
(* callback counts as a run of that timer.  A stale fd receiver is read  *)
(* from the freed buffer, which still holds the moved-from waiter.        *)

Dispatch ==
    /\ phase = "dispatch"
    /\ next <= Len(batch)
    /\ LET e == batch[next] IN
         /\ ready' = IF e.kind = "fd"
                     THEN ready \ {<<waiters[e.slot].fd, e.dir>>}
                     ELSE ready
         /\ fired' = IF e.kind = "timer"
                     THEN [fired EXCEPT ![e.id] = IF @ < 2 THEN @ + 1 ELSE 2]
                     ELSE fired
    /\ phase' = "callback"
    /\ UNCHANGED <<waiters, cap, buf, timers, queue, batch, next, stopFlag>>

Return ==
    /\ phase = "callback"
    /\ next' = next + 1
    /\ phase' = "dispatch"
    /\ UNCHANGED <<waiters, cap, buf, timers, queue, batch, stopFlag, ready,
                   fired>>

\* Mutant: m_event_queue is cleared after the dispatch instead of right
\* after the move, dropping what callbacks posted.
CleanupClearsQueue ==
    /\ phase = "dispatch"
    /\ next > Len(batch)
    /\ timers' = SelectSeq(timers, LAMBDA t : t.valid)
    /\ batch' = <<>>
    /\ next' = 1
    /\ queue' = <<>>
    /\ phase' = IF stopFlag THEN "done" ELSE "pump"
    /\ UNCHANGED <<waiters, cap, buf, stopFlag, ready, fired>>

\* After the batch: cleanup_timers (lines 99-109) erases the invalid timers,
\* events_to_dispatch is destroyed, and run() (lines 127-133) tests the stop
\* flag before the next pump.
Cleanup ==
    /\ phase = "dispatch"
    /\ next > Len(batch)
    /\ timers' = SelectSeq(timers, LAMBDA t : t.valid)
    /\ batch' = <<>>
    /\ next' = 1
    /\ phase' = IF stopFlag THEN "done" ELSE "pump"
    /\ UNCHANGED <<waiters, cap, buf, queue, stopFlag, ready, fired>>

-----------------------------------------------------------------------------
(* What a callback may call (EventLoop.h).                                *)

\* add(fd, on_read, on_write) (lines 58-61): push_back into m_waiting_fds;
\* a full buffer is replaced by one of Grow(cap) elements.
AddWaiter(w) ==
    /\ phase = "callback"
    /\ Len(waiters) < MaxWaiters
    /\ waiters' = Append(waiters, w)
    /\ IF Len(waiters) = cap
       THEN cap' = Grow(cap) /\ buf' = buf + 1
       ELSE UNCHANGED <<cap, buf>>
    /\ UNCHANGED <<timers, queue, batch, next, stopFlag, phase, ready, fired>>

\* add(timer) (lines 63-71): push_back into m_timers, a new timer object.
AddTimer(id) ==
    /\ phase = "callback"
    /\ id \notin UsedTimerIds
    /\ timers' = Append(timers, [id |-> id, valid |-> TRUE, due |-> FALSE])
    /\ fired' = [fired EXCEPT ![id] = 0]
    /\ UNCHANGED <<waiters, cap, buf, queue, batch, next, stopFlag, phase,
                   ready>>

\* add(rec, ev) (lines 73-76): push_back into m_event_queue.
Post(id) ==
    /\ phase = "callback"
    /\ id \notin UsedPostIds
    /\ queue' = Append(queue, [kind |-> "post", id |-> id])
    /\ UNCHANGED <<waiters, cap, buf, timers, batch, next, stopFlag, phase,
                   ready, fired>>

\* stop(code) (line 78).
Stop ==
    /\ phase = "callback"
    /\ stopFlag' = TRUE
    /\ UNCHANGED <<waiters, cap, buf, timers, queue, batch, next, phase,
                   ready, fired>>

-----------------------------------------------------------------------------
(* The environment: the clock expires a timer, the kernel makes an fd     *)
(* ready.                                                                 *)

Expire(k) ==
    /\ timers[k].valid /\ ~timers[k].due
    /\ timers' = [timers EXCEPT ![k].due = TRUE]
    /\ UNCHANGED <<waiters, cap, buf, queue, batch, next, stopFlag, phase,
                   ready, fired>>

FdReady(fd, d) ==
    /\ <<fd, d>> \notin ready
    /\ ready' = ready \cup {<<fd, d>>}
    /\ UNCHANGED <<waiters, cap, buf, timers, queue, batch, next, stopFlag,
                   phase, fired>>

LoopStep ==
    \/ PumpNoWaiters \/ PumpSelectFailed \/ PumpSelected
    \/ Dispatch \/ Return \/ Cleanup

Next ==
    \/ LoopStep
    \/ \E w \in AddedWaiters : AddWaiter(w)
    \/ \E id \in TimerIds : AddTimer(id)
    \/ \E id \in PostIds : Post(id)
    \/ Stop
    \/ \E k \in DOMAIN timers : Expire(k)
    \/ \E fd \in Fds, d \in Dirs : FdReady(fd, d)

\* The loop thread is scheduled (sched_yield returns) and callbacks return;
\* select does not fail forever.
Fairness == WF_vars(LoopStep) /\ SF_vars(PumpSelected)

Spec == Init /\ [][Next]_vars /\ Fairness

-----------------------------------------------------------------------------
(* Properties.                                                            *)

\* The callback of event e is running.
Serving(e) == phase = "callback" /\ batch[next] = e

\* Every receiver that has something to deliver gets its callback run, unless
\* the loop stops first: an expired timer (check_timers, then dispatch in a
\* later step), a ready fd some waiter asked for (check_fds), and an event a
\* callback posted with add(rec, ev) (moved to the next pump's batch).
Responsive ==
    /\ \A id \in TimerIds :
         (\E k \in DOMAIN timers : timers[k].id = id /\ timers[k].due)
           ~> (Serving([kind |-> "timer", id |-> id]) \/ phase = "done")
    /\ \A fd \in Fds, d \in Dirs :
         (<<fd, d>> \in ready
            /\ \E i \in DOMAIN waiters : waiters[i].fd = fd /\ Wants(waiters[i], d))
           ~> (\/ phase = "done"
               \/ /\ phase = "callback" /\ batch[next].kind = "fd"
                  /\ batch[next].dir = d /\ waiters[batch[next].slot].fd = fd)
    /\ \A id \in PostIds :
         (\E k \in DOMAIN queue : queue[k] = [kind |-> "post", id |-> id])
           ~> (Serving([kind |-> "post", id |-> id]) \/ phase = "done")

\* A timer that is not repeated runs its callback at most once: check_timers
\* marks it invalid when it fires and cleanup_timers erases it before the
\* next pump can see it expired again.
OneShotFiresOnce == \A id \in TimerIds \ Repeating : fired[id] <= 1

\* Every fd event not yet finished dispatching refers to a waiter in the
\* current buffer of m_waiting_fds: no add(fd, ...) from a callback has moved
\* the waiters under a QueuedEvent's reference.
NoStaleReceiver ==
    \A k \in next..Len(batch) : batch[k].kind = "fd" => batch[k].buf = buf
=============================================================================
