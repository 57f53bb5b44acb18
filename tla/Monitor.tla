------------------------------ MODULE Monitor ------------------------------
(***************************************************************************)
(* srvctl/src/monitor.c: the process that supervises one service.  It      *)
(* starts the service's two programs, "run" and "log", connects run's      *)
(* output to log by a pipe, restarts them when they die, suspends the one  *)
(* that dies too often, and obeys one-byte commands read from a FIFO.      *)
(*                                                                         *)
(* The program is one thread and its signal handlers.  Every label of pc   *)
(* is a stretch of the thread that touches nothing a handler changes more  *)
(* than once, so a handler runs between two steps and never inside one.    *)
(* SIGCHLD is blocked except while polling and while waiting for a child   *)
(* to terminate; SIGALRM, SIGHUP and SIGTERM/INT/QUIT interrupt anywhere.  *)
(*                                                                         *)
(* Time: less than TIMER_CHILD seconds pass between two blocking calls, so *)
(* the alarm becomes due only in a call that blocks (see AlarmDue).        *)
(***************************************************************************)
EXTENDS Naturals, Sequences

CONSTANTS
    Pids,               \* process identifiers the kernel gives to children
    NoPid,              \* child_proc.proc.pid = 0
    CHILD_MAXSTARTS,    \* restarts allowed in a period of the timer
    CHILD_SUSPENSION,   \* periods a suspension lasts
    Attempts,           \* signals terminate_child tries, the last is SIGKILL
    CallsFail,          \* whether system calls may fail
    MaxEvents           \* bound: commands and signals sent to the monitor,
                        \* edits of its files and failing calls, together

ASSUME PidAssumption   == NoPid \notin Pids
ASSUME LimitAssumption == /\ CHILD_MAXSTARTS \in Nat \ {0}
                          /\ CHILD_SUSPENSION \in Nat \ {0}
                          /\ Attempts \in Nat \ {0}
ASSUME BoundAssumption == CallsFail \in BOOLEAN /\ MaxEvents \in Nat

VARIABLES
    pc,                 \* where the thread is
    cur,                \* the child being started or terminated
    attempt,            \* index of the signal terminate_child is at
    pid,                \* child_proc.proc.pid of each child
    starts,             \* child_proc.starts
    suspended,          \* child_proc.suspended
    suspended_periods,  \* child_proc.suspended_periods
    flag_stop, flag_intr, flag_forward, flag_ignchld, flag_timer,
    alarm,              \* the kernel's timer: off, armed, or SIGALRM due
    chld,               \* SIGCHLD is pending
    control,            \* unread bytes of PIPE_CONTROL
    pipe,               \* pipe_runlog is open
    end,                \* the pipe_runlog each child is attached to
    stdin,              \* pipe_stdin is open
    status,             \* contents of FILE_STATUS
    procs,              \* the kernel's process table, children only
    up,                 \* FILE_UP exists
    files,              \* what stat and exec find for each program
    gaveup,             \* children terminate_child left behind alive
    stale,              \* the last write of FILE_STATUS failed
    events              \* how much of MaxEvents is used up

child_vars  == <<starts, suspended, suspended_periods>>
thread_vars == <<pc, cur, attempt>>
flag_vars   == <<flag_stop, flag_intr, flag_forward, flag_ignchld, flag_timer>>
timer_vars  == <<flag_timer, alarm>>
pipe_vars   == <<pipe, end, stdin>>
file_vars   == <<status, stale>>
world_vars  == <<up, files>>
vars == <<thread_vars, pid, child_vars, flag_vars, alarm, chld, control,
          pipe_vars, file_vars, procs, gaveup, events, world_vars>>

Child   == {"run", "log"}
Command == {"w", "k", "x", "signal"}

Labels  == {"setup", "check", "log", "run", "timer", "count", "fork", "poll",
            "term", "termwait", "termcheck", "reset",
            "exited", "died", "aborted"}
Stopped == {"exited", "died", "aborted"}
Blocked == {"poll", "termwait"}   \* poll or sleep, with SIGCHLD unblocked

ThreadTypes ==
    /\ pc \in Labels
    /\ cur \in Child
    /\ attempt \in 1..Attempts
    /\ gaveup \subseteq Child
    /\ events \in 0..MaxEvents

ChildTypes ==
    /\ pid \in [Child -> Pids \cup {NoPid}]
    /\ procs \in [Pids -> {"free", "alive", "zombie"}]
    /\ starts \in [Child -> 0..CHILD_MAXSTARTS + 1]
    /\ suspended \in [Child -> BOOLEAN]
    /\ suspended_periods \in [Child -> 0..CHILD_SUSPENSION - 1]

FlagTypes ==
    /\ flag_stop \in BOOLEAN /\ flag_intr \in BOOLEAN
    /\ flag_forward \in BOOLEAN /\ flag_ignchld \in BOOLEAN
    /\ flag_timer \in BOOLEAN /\ chld \in BOOLEAN
    /\ alarm \in {"off", "armed", "due"}

PipeTypes ==
    /\ control \in Seq(Command)
    /\ pipe \in BOOLEAN /\ stdin \in BOOLEAN
    /\ end \in [Child -> {"none", "current", "closed"}]

FileTypes ==
    /\ status \in [run: Pids \cup {NoPid}, log: Pids \cup {NoPid},
                   forward: BOOLEAN]
    /\ stale \in BOOLEAN /\ up \in BOOLEAN
    /\ files \in [Child -> {"none", "bad", "ok"}]

TypeOK == ThreadTypes /\ ChildTypes /\ FlagTypes /\ PipeTypes /\ FileTypes

Init ==
    /\ pc = "setup" /\ cur = "run" /\ attempt = 1
    /\ pid = [c \in Child |-> NoPid]
    /\ starts = [c \in Child |-> 0]
    /\ suspended = [c \in Child |-> FALSE]
    /\ suspended_periods = [c \in Child |-> 0]
    /\ flag_stop = FALSE /\ flag_intr = FALSE /\ flag_forward = FALSE
    /\ flag_ignchld = FALSE /\ flag_timer = FALSE
    /\ alarm = "off" /\ chld = FALSE /\ control = <<>>
    /\ pipe = FALSE /\ end = [c \in Child |-> "none"] /\ stdin = FALSE
    /\ status = [run |-> NoPid, log |-> NoPid, forward |-> FALSE]
    /\ procs = [p \in Pids |-> "free"]
    /\ up \in BOOLEAN
    /\ files \in [Child -> {"none", "ok"}]
    /\ gaveup = {} /\ stale = FALSE
    /\ events = 0

-----------------------------------------------------------------------------
(* Helpers *)

goto(label) == pc' = label /\ UNCHANGED <<cur, attempt>>

\* Leave start_child or terminate_child: their locals are dead.
leave(label) == pc' = label /\ cur' = "run" /\ attempt' = 1

Event == events < MaxEvents /\ events' = events + 1
Fault == CallsFail /\ Event
MayFail == CallsFail /\ events < MaxEvents   \* the failure that ends it

\* The FIFO after a byte is written to it.  A wake-up behind an unread wake-up
\* adds nothing but one more turn of the main loop, and is dropped here to keep
\* the FIFO finite.
Queued(queue, cmd) ==
    IF cmd = "w" /\ queue # <<>> /\ queue[Len(queue)] = "w"
    THEN queue ELSE Append(queue, cmd)

\* mutant: the status is written before the child's record is updated
write_status_early(newpid, newforward) ==
    /\ status' = [run |-> pid["run"], log |-> pid["log"], forward |-> newforward]
    /\ stale' = FALSE
    /\ UNCHANGED events

\* FILE_STATUS is replaced by rename, so it holds the old or the new contents.
write_status(newpid, newforward) ==
    \/ /\ status' = [run |-> newpid["run"], log |-> newpid["log"],
                     forward |-> newforward]
       /\ stale' = FALSE
       /\ UNCHANGED events
    \/ Fault /\ stale' = TRUE /\ UNCHANGED status

\* Creates the pipe unless it is open.
create_pipe_never == UNCHANGED pipe   \* mutant: the call is missing
create_pipe == pipe' = TRUE

\* A live child attached to the pipe keeps its end after the monitor's close.
close_pipe ==
    /\ pipe' = FALSE
    /\ end' = [c \in Child |-> IF end[c] = "none" THEN "none" ELSE "closed"]

-----------------------------------------------------------------------------
(* Start-up *)

setup_monitor ==
    /\ pc = "setup"
    /\ \/ goto("check") /\ stdin' = TRUE /\ UNCHANGED <<events, file_vars>>
       \/ goto("check") /\ stdin' = TRUE /\ Fault /\ stale' = TRUE
          /\ UNCHANGED status
       \/ Fault /\ goto("died") /\ UNCHANGED <<stdin, file_vars>>
    /\ UNCHANGED <<pid, child_vars, flag_vars, alarm, chld, control, pipe, end,
                   procs, gaveup, world_vars>>

-----------------------------------------------------------------------------
(* check_children: reap every dead child, also from terminate_child *)

Reap(p) ==
    /\ pc \in {"check", "termcheck"}
    /\ procs[p] = "zombie"
    /\ procs' = [procs EXCEPT ![p] = "free"]
    /\ pid' = [c \in Child |-> IF pid[c] = p THEN NoPid ELSE pid[c]]
    /\ end' = [c \in Child |-> IF pid[c] = p THEN "none" ELSE end[c]]
    /\ gaveup' = {c \in gaveup : pid[c] # p}
    /\ flag_forward' = (flag_forward /\ pid["run"] # p)
    /\ IF \E c \in Child : pid[c] = p
       THEN write_status(pid', flag_forward')
       ELSE UNCHANGED <<file_vars, events>>   \* "unknown child process exited"
    /\ UNCHANGED <<thread_vars, child_vars, flag_stop, flag_intr, flag_ignchld,
                   timer_vars, chld, control, pipe, stdin, world_vars>>

NoZombie == \A p \in Pids : procs[p] # "zombie"

-----------------------------------------------------------------------------
(* start_children *)

\* check_children found no more; is the service to be up?
start_children ==
    /\ pc = "check" /\ NoZombie
    /\ goto(IF flag_intr \/ ~up THEN "poll" ELSE "log")
    /\ UNCHANGED <<pid, child_vars, flag_vars, alarm, chld, control, pipe_vars,
                   file_vars, procs, gaveup, events, world_vars>>

start(child) == pc' = "timer" /\ cur' = child /\ UNCHANGED attempt

\* mutant: a log is started beside a run that does not forward to it
WantLog_always == ~suspended["log"] /\ pid["log"] = NoPid
WantLog == /\ ~suspended["log"] /\ pid["log"] = NoPid
           /\ pid["run"] = NoPid \/ flag_forward

create_procattr_log ==
    /\ pc = "log"
    /\ \/ WantLog /\ start("log") /\ create_pipe /\ UNCHANGED events
       \/ WantLog /\ Fault /\ goto("run") /\ (create_pipe \/ UNCHANGED pipe)
       \/ ~WantLog /\ goto("run") /\ UNCHANGED <<pipe, events>>
    /\ UNCHANGED <<pid, child_vars, flag_vars, alarm, chld, control, end, stdin,
                   file_vars, procs, gaveup, world_vars>>

\* mutant: the test that run is not running is missing
WantRun_again == ~suspended["run"]
WantRun == ~suspended["run"] /\ pid["run"] = NoPid

\* The two assertions at the head of the function, and what follows them.
create_procattr_run ==
    /\ pc = "run"
    /\ \/ ~WantRun /\ goto("poll") /\ UNCHANGED <<flag_forward, events>>
       \/ /\ WantRun /\ (~stdin \/ (pid["log"] # NoPid /\ ~pipe))
          /\ goto("aborted") /\ flag_forward' = FALSE /\ UNCHANGED events
       \/ /\ WantRun /\ stdin /\ (pid["log"] # NoPid => pipe)
          /\ start("run") /\ flag_forward' = (pid["log"] # NoPid)
          /\ UNCHANGED events
       \/ /\ WantRun /\ stdin
          /\ Fault /\ goto("poll") /\ flag_forward' = FALSE
    /\ UNCHANGED <<pid, child_vars, flag_stop, flag_intr, flag_ignchld,
                   timer_vars, chld, control, pipe_vars, file_vars, procs,
                   gaveup, world_vars>>

\* Where start_children continues once start_child(cur) returns.  Its sleep of
\* PAUSE_RESPAWN seconds is one with the poll that follows.
started == leave(IF cur = "log" THEN "run" ELSE "poll")

start_child_timer ==
    /\ pc = "timer"
    /\ goto("count")
    /\ flag_timer' = TRUE
    /\ alarm' = IF flag_timer THEN alarm ELSE "armed"
    /\ UNCHANGED <<pid, child_vars, flag_stop, flag_intr, flag_forward,
                   flag_ignchld, chld, control, pipe_vars, file_vars, procs,
                   gaveup, events, world_vars>>

\* The tests after ++starts and before apr_proc_create.
MayStart == files[cur] # "none" /\ ~flag_intr

\* The handler only asks whether starts exceeds CHILD_MAXSTARTS, so it is
\* counted no further than that.
start_child_count ==
    /\ pc = "count"
    /\ starts' = [starts EXCEPT ![cur] =
                    IF @ > CHILD_MAXSTARTS THEN @ ELSE @ + 1]
    /\ IF MayStart THEN goto("fork") ELSE started
    /\ UNCHANGED <<pid, suspended, suspended_periods, flag_vars, alarm, chld,
                   control, pipe_vars, file_vars, procs, gaveup, events,
                   world_vars>>

start_child_fork ==
    /\ pc = "fork"
    /\ files[cur] = "ok"
    /\ started
    /\ \E p \in Pids :
         /\ procs[p] = "free"
         /\ procs' = [procs EXCEPT ![p] = "alive"]
         /\ pid' = [pid EXCEPT ![cur] = p]
    /\ end' = [end EXCEPT ![cur] = IF cur = "log" \/ flag_forward
                                   THEN "current" ELSE "none"]
    /\ write_status(pid', flag_forward)
    /\ UNCHANGED <<child_vars, flag_vars, alarm, chld, control, pipe, stdin,
                   gaveup, world_vars>>

\* apr_proc_create fails: not executable, removed meanwhile, or no process.
start_child_fail ==
    /\ pc = "fork"
    /\ \/ files[cur] # "ok" /\ UNCHANGED events
       \/ files[cur] = "ok" /\ Fault
    /\ started
    /\ UNCHANGED <<pid, child_vars, flag_vars, alarm, chld, control, pipe_vars,
                   file_vars, procs, gaveup, world_vars>>

-----------------------------------------------------------------------------
(* wait_for_command and parse_command.  A pending SIGCHLD is delivered as    *)
(* soon as it is unblocked, so poll starts with none pending.                *)

loop_end_never(stop) == "check"   \* mutant: the loop does not test flag_stop
loop_end_always(stop) == "exited"   \* mutant: the loop ends after any command
loop_end(stop) == IF stop THEN "exited" ELSE "check"

poll_nothing ==   \* timeout, or EINTR; or poll or read fails and we sleep
    /\ pc = "poll" /\ ~chld
    /\ \/ control = <<>> /\ UNCHANGED <<control, events>>
       \/ control # <<>> /\ Fault /\ UNCHANGED control
    /\ goto("check")
    /\ UNCHANGED <<pid, child_vars, flag_vars, alarm, chld, pipe_vars,
                   file_vars, procs, gaveup, world_vars>>

\* 'w' does nothing, a signal number is sent to run: it may exit (ChildExit).
parse_command_signal ==
    /\ pc = "poll" /\ ~chld
    /\ control # <<>> /\ Head(control) \in {"w", "signal"}
    /\ control' = Tail(control)
    /\ goto("check")
    /\ UNCHANGED <<pid, child_vars, flag_vars, alarm, chld, pipe_vars,
                   file_vars, procs, gaveup, events, world_vars>>

parse_command_terminate ==
    /\ pc = "poll" /\ ~chld
    /\ control # <<>> /\ Head(control) \in {"k", "x"}
    /\ control' = Tail(control)
    /\ flag_stop' = (flag_stop \/ Head(control) = "x")
    /\ stdin' = (stdin /\ Head(control) # "x")
    /\ close_pipe
    /\ pc' = "term" /\ cur' = "run" /\ attempt' = 1
    /\ flag_ignchld' = TRUE
    /\ UNCHANGED <<pid, child_vars, flag_intr, flag_forward, timer_vars, chld,
                   file_vars, procs, gaveup, events, world_vars>>

-----------------------------------------------------------------------------
(* terminate_child(cur) *)

terminate_child_signal ==
    /\ pc = "term"
    /\ \/ pid[cur] = NoPid /\ pc' = "reset" /\ attempt' = 1 /\ UNCHANGED cur
       \/ pid[cur] # NoPid /\ goto("termwait")
    /\ UNCHANGED <<pid, child_vars, flag_vars, alarm, chld, control, pipe_vars,
                   file_vars, procs, gaveup, events, world_vars>>

\* PAUSE_TERMWAIT is over, or any signal cut the sleep short.
terminate_child_wait ==
    /\ pc = "termwait" /\ ~chld
    /\ goto("termcheck")
    /\ UNCHANGED <<pid, child_vars, flag_vars, alarm, chld, control, pipe_vars,
                   file_vars, procs, gaveup, events, world_vars>>

terminate_child_check ==
    /\ pc = "termcheck" /\ NoZombie
    /\ UNCHANGED cur
    /\ IF attempt = Attempts
       THEN /\ pc' = "reset" /\ attempt' = 1
            /\ gaveup' = IF pid[cur] = NoPid THEN gaveup ELSE gaveup \cup {cur}
       ELSE pc' = "term" /\ attempt' = attempt + 1 /\ UNCHANGED gaveup
    /\ UNCHANGED <<pid, child_vars, flag_vars, alarm, chld, control, pipe_vars,
                   file_vars, procs, events, world_vars>>

\* parse_command terminates log after run.
terminate_log_skipped == leave(loop_end(flag_stop))   \* mutant: only run is
terminate_log == pc' = "term" /\ cur' = "log" /\ attempt' = 1

unignore_forgotten == UNCHANGED flag_ignchld   \* mutant: the flag stays set
unignore == flag_ignchld' = FALSE

\* Reset the suspension, then go on with log, or return to the main loop.
terminate_child_reset ==
    /\ pc = "reset"
    /\ starts' = [starts EXCEPT ![cur] = 0]
    /\ suspended' = [suspended EXCEPT ![cur] = FALSE]
    /\ suspended_periods' = [suspended_periods EXCEPT ![cur] = 0]
    /\ IF cur = "run"
       THEN terminate_log /\ UNCHANGED flag_ignchld
       ELSE leave(loop_end(flag_stop)) /\ unignore
    /\ UNCHANGED <<pid, flag_stop, flag_intr, flag_forward, timer_vars, chld,
                   control, pipe_vars, file_vars, procs, gaveup, events,
                   world_vars>>

-----------------------------------------------------------------------------
(* Signal handlers *)

Running == pc \notin Stopped

\* poll blocks only on an empty FIFO.  A handler that runs inside it makes it
\* return EINTR; one that ran before poll looked at the FIFO does not.
interrupts == \/ UNCHANGED thread_vars
              \/ pc = "poll" /\ control = <<>> /\ goto("check")

\* mutant: a write that fails is only warned of
write_command_warns(cmd) ==
    \/ pc # "setup" /\ control' = Queued(control, cmd) /\ interrupts
    \/ pc = "setup" /\ goto("died") /\ UNCHANGED control
    \/ pc # "setup" /\ MayFail /\ interrupts /\ UNCHANGED control

\* What a handler writes to its own FIFO.  It dies on the spot, children or not,
\* when the write fails, and before pipe_control is set up, by an assertion.
write_command(cmd) ==
    \/ pc # "setup" /\ control' = Queued(control, cmd) /\ interrupts
    \/ (pc = "setup" \/ MayFail) /\ goto("died") /\ UNCHANGED control

\* check_suspension(c): whether it lifts c's suspension, whether it asks for
\* another period of the timer and for a wake-up, and c's fields after it.
Lift_late(c) ==   \* mutant: > for >=
    suspended[c] /\ suspended_periods[c] + 1 > CHILD_SUSPENSION
Lift(c) == suspended[c] /\ suspended_periods[c] + 1 >= CHILD_SUSPENSION

\* mutant: no restart of the timer when the child has just been suspended
Restart_forgotten(c) == IF suspended[c] THEN ~Lift(c)
                        ELSE starts[c] \in 1..CHILD_MAXSTARTS
Restart(c) == IF suspended[c] THEN ~Lift(c) ELSE starts[c] > 0

Wakeup_forgotten(c) == FALSE   \* mutant: a lifted suspension wakes nobody
Wakeup(c) == Lift(c)

\* mutant: the attempts are not reset when the child is suspended
check_suspension_counting(c) ==
    [starts    |-> IF suspended[c] \/ starts[c] > CHILD_MAXSTARTS
                   THEN starts[c] ELSE 0,
     suspended |-> IF suspended[c] THEN ~Lift(c)
                   ELSE starts[c] > CHILD_MAXSTARTS,
     periods   |-> IF ~suspended[c] THEN suspended_periods[c]
                   ELSE IF Lift(c) THEN 0 ELSE suspended_periods[c] + 1]

check_suspension(c) ==
    [starts    |-> IF suspended[c] THEN starts[c] ELSE 0,
     suspended |-> IF suspended[c] THEN ~Lift(c)
                   ELSE starts[c] > CHILD_MAXSTARTS,
     periods   |-> IF ~suspended[c] THEN suspended_periods[c]
                   ELSE IF Lift(c) THEN 0 ELSE suspended_periods[c] + 1]

\* The handler that dies writing its wake-up leaves log or run unchecked, which
\* nobody can tell afterwards: the records die with it.
handle_alarm ==
    LET checked == [c \in Child |-> check_suspension(c)]
        restart == \E c \in Child : Restart(c)
    IN /\ Running /\ alarm = "due"
       /\ starts' = [c \in Child |-> checked[c].starts]
       /\ suspended' = [c \in Child |-> checked[c].suspended]
       /\ suspended_periods' = [c \in Child |-> checked[c].periods]
       /\ flag_timer' = (flag_timer /\ restart)
       /\ alarm' = IF restart THEN "armed" ELSE "off"
       /\ IF \E c \in Child : Wakeup(c)
          THEN write_command("w") ELSE interrupts /\ UNCHANGED control
       /\ UNCHANGED <<pid, flag_stop, flag_intr, flag_forward, flag_ignchld,
                      chld, pipe_vars, file_vars, procs, gaveup, events,
                      world_vars>>

handle_chld ==
    /\ pc \in Blocked /\ chld
    /\ chld' = FALSE
    /\ IF flag_ignchld
       THEN interrupts /\ UNCHANGED control ELSE write_command("w")
    /\ UNCHANGED <<pid, child_vars, flag_vars, alarm, pipe_vars, file_vars,
                   procs, gaveup, events, world_vars>>

Outside == Running /\ Event

handle_hup ==
    /\ Outside
    /\ write_command("w")
    /\ UNCHANGED <<pid, child_vars, flag_vars, alarm, chld, pipe_vars,
                   file_vars, procs, gaveup, world_vars>>

handle_term ==
    /\ Outside
    /\ flag_intr' = TRUE
    /\ write_command("x")
    /\ UNCHANGED <<pid, child_vars, flag_stop, flag_forward, flag_ignchld,
                   timer_vars, chld, pipe_vars, file_vars, procs, gaveup,
                   world_vars>>

-----------------------------------------------------------------------------
(* The world: the kernel, the children, and srvctl *)

\* The kernel's timer runs out while the thread sleeps or polls; the signal may
\* be delivered at once or at any later point of the thread.
AlarmDue ==
    /\ pc \in Blocked /\ alarm = "armed"
    /\ alarm' = "due"
    /\ UNCHANGED <<thread_vars, pid, child_vars, flag_vars, chld, control,
                   pipe_vars, file_vars, procs, gaveup, events, world_vars>>

\* A child exits: on its own, by a signal of ours or by one of anyone else's.
ChildExit(p) ==
    /\ Running /\ procs[p] = "alive"
    /\ procs' = [procs EXCEPT ![p] = "zombie"]
    /\ chld' = TRUE
    /\ UNCHANGED <<thread_vars, pid, child_vars, flag_vars, alarm, control,
                   pipe_vars, file_vars, gaveup, events, world_vars>>

\* srvctl writes a command to the FIFO.
SendCommand(cmd) ==
    /\ Outside /\ pc # "setup"
    /\ control' = Queued(control, cmd)
    /\ UNCHANGED <<thread_vars, pid, child_vars, flag_vars, alarm, chld,
                   pipe_vars, file_vars, procs, gaveup, world_vars>>

\* FILE_UP is created or removed, a program is installed, broken or removed.
Edit ==
    /\ Outside
    /\ \/ up' = ~up /\ UNCHANGED files
       \/ /\ \E c \in Child, kind \in {"none", "bad", "ok"} :
               kind # files[c] /\ files' = [files EXCEPT ![c] = kind]
          /\ UNCHANGED up
    /\ UNCHANGED <<thread_vars, pid, child_vars, flag_vars, alarm, chld,
                   control, pipe_vars, file_vars, procs, gaveup>>

-----------------------------------------------------------------------------
Thread ==
    \/ setup_monitor
    \/ \E p \in Pids : Reap(p)
    \/ start_children
    \/ create_procattr_log
    \/ create_procattr_run
    \/ start_child_timer
    \/ start_child_count
    \/ start_child_fork
    \/ start_child_fail
    \/ parse_command_signal
    \/ parse_command_terminate
    \/ terminate_child_signal
    \/ terminate_child_wait
    \/ terminate_child_check
    \/ terminate_child_reset

World ==
    \/ poll_nothing
    \/ handle_hup
    \/ handle_term
    \/ \E p \in Pids : ChildExit(p)
    \/ \E cmd \in Command : SendCommand(cmd)
    \/ Edit

\* Only a monitor that has stopped has nothing to do.
Finished == pc \in Stopped /\ UNCHANGED vars

Next == Thread \/ handle_alarm \/ handle_chld \/ AlarmDue \/ World \/ Finished

Spec == Init /\ [][Next]_vars

\* The kernel runs the thread and delivers pending signals, and its clock does
\* not stand still.  Nothing is assumed of the children, of the outside or of
\* the hour-long timeout of poll.
Fairness == /\ WF_vars(Thread)
            /\ WF_vars(handle_alarm)
            /\ WF_vars(handle_chld)
            /\ SF_vars(AlarmDue)

FairSpec == Spec /\ Fairness

-----------------------------------------------------------------------------
(* Safety *)

\* A suspension is lifted by the handler of SIGALRM only, so a suspended child
\* always has a timer running for it; the flag that guards alarm() in
\* start_child agrees with the kernel (check_suspension, start_child).
SuspensionTimed ==
    /\ \A c \in Child : suspended[c] => flag_timer
    /\ flag_timer <=> alarm # "off"

\* The handler may turn the timer off between start_child's test of flag_timer and
\* its ++starts, which leaves an attempt that no period of the timer will count.
\* A child has at most one, never enough to be suspended for attempts of long ago
\* (start_child, check_suspension).
UntimedAttempts ==
    ~flag_timer => \A c \in Child : starts[c] <= 1

\* The children the kernel still knows are exactly those recorded in run and
\* log, one process each: no second instance of a program runs, no child goes
\* unreaped, and no signal reaches a process that is not ours
\* (start_child, check_children, signal_child).
ChildrenTracked ==
    /\ \A p \in Pids : procs[p] # "free" <=> \E c \in Child : pid[c] = p
    /\ pid["run"] = pid["log"] => pid["run"] = NoPid

\* A log that runs beside run reads what run writes: run forwards its output,
\* and both hold ends of the same pipe, whatever order they were started, died
\* and were restarted in -- unless terminate_child left one of them alive.  The
\* monitor holds that pipe too, but for a termination and for one that died in it
\* (create_procattr_run, create_procattr_log, close_pipe).
ForwardingIntact ==
    gaveup = {} /\ pid["run"] # NoPid /\ pid["log"] # NoPid
    => /\ flag_forward /\ end["run"] = end["log"]
       /\ pipe \/ pc \in {"term", "termwait", "termcheck", "reset", "died"}

\* The assertion "If log is running, we must have a pipe already" fails only
\* when a log that survived SIGKILL is still there (create_procattr_run).
AbortsOnlyOnSurvivor == pc = "aborted" => "log" \in gaveup

\* What srvctl reads in FILE_STATUS is which children run, unless the last
\* write of the file failed (write_status).
StatusTruthful ==
    ~stale => \A c \in Child : status[c] = pid[c]

\* When the monitor exits on command it leaves no child behind, dead or alive,
\* except one that survived SIGKILL -- also when the signal that stopped it
\* arrived while a child was being started (parse_command, terminate_child).
CleanExit ==
    pc = "exited" =>
        \A p \in Pids : procs[p] # "free" => \E c \in gaveup : pid[c] = p

\* A monitor interrupted by SIGTERM, SIGINT or SIGQUIT cannot forget to stop:
\* until it does, the command to terminate is unread in its FIFO (handler).
Unread(cmd, queue) == \E i \in 1..Len(queue) : queue[i] = cmd
InterruptRemembered ==
    flag_intr /\ Running => flag_stop \/ Unread("x", control)

\* "After this point, the program should not die in vain": no assertion fails.
\* The code breaks it: see AbortsOnlyOnSurvivor for how.
NeverAborts == pc # "aborted"

(* Refinement *)

Life == CASE pc = "exited" -> "closed"
          [] pc = "died" -> "failed"
          [] pc = "aborted" -> "broken"
          [] OTHER -> "open"

Instance(c) == IF pid[c] = NoPid THEN "down"
               ELSE IF procs[pid[c]] = "zombie" THEN "dead" ELSE "up"
Instances == [c \in Child |-> Instance(c)]

Chosen  == IF pc \in {"timer", "count", "fork"} THEN {cur} ELSE {}
Decided == IF pc = "fork" THEN {cur} ELSE {}
Asked   == flag_stop \/ Unread("x", control)
Wait    == [c \in Child |-> IF suspended[c]
                             THEN CHILD_SUSPENSION - suspended_periods[c] ELSE 0]

S == INSTANCE Supervisor WITH
         life <- Life, inst <- Instances, chosen <- Chosen, decided <- Decided,
         wait <- Wait, stop <- flag_intr, asked <- Asked, survivors <- gaveup

\* The monitor keeps what Supervisor promises: one instance of a program at a
\* time, started neither suspended nor once interrupted; a suspension that is
\* waited out unless the program is terminated; a stop only on request, which
\* is never lost, with nothing left behind; and any other end only by a failing
\* call, before anything was started, or after giving up on a child (the whole
\* of monitor.c).
Supervises == S!Spec

(* Liveness *)

\* A command or a signal to stop is eventually obeyed, however the children
\* behave while they are being terminated.
StopObeyed ==
    (flag_intr \/ Unread("x", control)) ~> pc \in Stopped

Wanted(c) == up /\ files[c] = "ok" /\ ~flag_intr /\ Running
Alive(c)  == pid[c] # NoPid /\ procs[pid[c]] = "alive"

\* run never stays dead: when it dies, or a wake-up is sent, while the service
\* is wanted, it is eventually started -- after its suspension, if it dies too
\* often -- although the death may fall before poll, into a termination that
\* ignores SIGCHLD, or together with log's.
RunRestarted ==
    (/\ Wanted("run")
     /\ \/ pid["run"] # NoPid /\ ~Alive("run")
        \/ Unread("w", control))
    ~> Alive("run") \/ ~Wanted("run")

\* So does log, unless run was started meanwhile without forwarding to it.
LogRestarted ==
    (Wanted("log") /\ pid["log"] # NoPid /\ ~Alive("log"))
    ~> \/ Alive("log") \/ ~Wanted("log")
       \/ pid["run"] # NoPid /\ ~flag_forward
=============================================================================
