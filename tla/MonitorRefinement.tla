------------------------- MODULE MonitorRefinement -------------------------
(***************************************************************************)
(* Monitor implements Supervisor.  Each step of the monitor is a step of   *)
(* Supervisor under the mapping given in Monitor, or leaves everything     *)
(* Supervisor sees as it was.  The argument leans on the invariants of     *)
(* MonitorProofs: a child that is chosen has no process, each process is   *)
(* the record of one child, and a child is given up or gone before its     *)
(* termination is over.                                                    *)
(***************************************************************************)
EXTENDS MonitorProofs

\* A monitor that has not started looking has no children.
SetupInv == pc = "setup" => \A c \in Child : pid[c] = NoPid

\* A monitor that is still setting up has no children (setup_monitor).
LEMMA SetupInvariant == Spec => []SetupInv
<1>1. Init => SetupInv
  BY DEF Init, SetupInv
<1>2. SetupInv /\ [Next]_vars => SetupInv'
  <2> SUFFICES ASSUME SetupInv, [Next]_vars, pc' = "setup"
               PROVE  pc = "setup" /\ pid' = pid
    BY DEF SetupInv
  <2> QED
    BY DEF Next, Thread, World, Finished, vars, thread_vars, goto, leave, start,
           started, interrupts, write_command, loop_end, terminate_log,
           setup_monitor, Reap, start_children, create_procattr_log,
           create_procattr_run, start_child_timer, start_child_count,
           start_child_fork, start_child_fail, parse_command_signal,
           parse_command_terminate, terminate_child_signal,
           terminate_child_wait, terminate_child_check, terminate_child_reset,
           handle_alarm, handle_chld, AlarmDue, poll_nothing, handle_hup,
           handle_term, ChildExit, SendCommand, Edit
<1> QED
  BY <1>1, <1>2, PTL DEF Spec

\* What check_suspension makes of a child's suspension.
LEMMA CheckedSuspension ==
    ASSUME TypeOK, NEW c \in Child
    PROVE  /\ suspended[c] /\ Lift(c) =>
                ~check_suspension(c).suspended /\ check_suspension(c).periods = 0
           /\ suspended[c] /\ ~Lift(c) =>
                /\ check_suspension(c).suspended
                /\ check_suspension(c).periods = suspended_periods[c] + 1
           /\ ~suspended[c] => check_suspension(c).periods = suspended_periods[c]
<1>1. /\ check_suspension(c).suspended =
           (IF suspended[c] THEN ~Lift(c) ELSE starts[c] > CHILD_MAXSTARTS)
      /\ check_suspension(c).periods =
           (IF ~suspended[c] THEN suspended_periods[c]
            ELSE IF Lift(c) THEN 0 ELSE suspended_periods[c] + 1)
  BY DEF check_suspension
<1> HIDE DEF check_suspension
<1> QED
  BY <1>1, Zenon

\* Periods are counted for suspended children only.
PeriodsInv == \A c \in Child : ~suspended[c] => suspended_periods[c] = 0

\* Only a suspended child has periods to count (check_suspension).
LEMMA PeriodsInvariant == Spec => []PeriodsInv
<1>1. Init => PeriodsInv
  BY DEF Init, PeriodsInv
<1>2. TypeOK /\ PeriodsInv /\ [Next]_vars => PeriodsInv'
  <2> SUFFICES ASSUME TypeOK, PeriodsInv, [Next]_vars PROVE PeriodsInv'
    OBVIOUS
  <2>1. CASE terminate_child_reset
    BY <2>1 DEF terminate_child_reset, PeriodsInv, TypeOK, ChildTypes
  <2>2. CASE handle_alarm
    <3>1. ASSUME NEW c \in Child
          PROVE  ~suspended'[c] => suspended_periods'[c] = 0
      <4>1. /\ suspended'[c] = check_suspension(c).suspended
            /\ suspended_periods'[c] = check_suspension(c).periods
        BY <2>2 DEF handle_alarm
      <4>2. ~suspended[c] => suspended_periods[c] = 0
        BY DEF PeriodsInv
      <4> QED
        BY <4>1, <4>2, CheckedSuspension, Zenon
    <3> QED
      BY <3>1 DEF PeriodsInv
  <2>3. CASE UNCHANGED <<suspended, suspended_periods>>
    BY <2>3 DEF PeriodsInv
  <2>4. terminate_child_reset \/ handle_alarm
        \/ UNCHANGED <<suspended, suspended_periods>>
    BY DEF Next, Thread, World, Finished, vars, child_vars, setup_monitor, Reap,
         start_children, create_procattr_log, create_procattr_run,
         start_child_timer, start_child_count, start_child_fork,
         start_child_fail, parse_command_signal, parse_command_terminate,
         terminate_child_signal, terminate_child_wait, terminate_child_check,
         AlarmDue, handle_chld, poll_nothing, handle_hup, handle_term,
         ChildExit, SendCommand, Edit
  <2> QED
    BY <2>1, <2>2, <2>3, <2>4
<1> QED
  BY <1>1, <1>2, TypeCorrect, PTL DEF Spec

-----------------------------------------------------------------------------
(* What a step leaves of the picture Supervisor has *)

\* A wake-up written to the FIFO is no request to stop.
LEMMA WakeAsksNothing ==
    ASSUME NEW queue \in Seq(Command)
    PROVE  Unread("x", Queued(queue, "w")) <=> Unread("x", queue)
<1> DEFINE new == Append(queue, "w")
<1>1. Unread("x", queue) => Unread("x", Queued(queue, "w"))
  BY WriteKeeps DEF Command
<1>2. ASSUME Unread("x", new) PROVE Unread("x", queue)
  <2>1. PICK i \in 1..Len(new) : new[i] = "x"
    BY <1>2 DEF Unread
  <2>2. i \in 1..Len(queue) /\ queue[i] = "x"
    BY <2>1
  <2> QED
    BY <2>2 DEF Unread
<1> QED
  BY <1>1, <1>2 DEF Queued

\* The parts of the picture, each with the variables it depends on.
thread_view == <<Life, Chosen, Decided>>
child_view  == <<Instances, gaveup>>

\* Supervisor's view of the children depends on their records and processes only.
LEMMA ChildFrame ==
    ASSUME UNCHANGED <<pid, procs, gaveup>> PROVE UNCHANGED child_view
  BY DEF child_view, Instances, Instance

\* ... and that of the suspensions on theirs,
LEMMA WaitFrame ==
    ASSUME UNCHANGED <<suspended, suspended_periods>> PROVE UNCHANGED Wait
  BY DEF Wait

\* ... and whether the monitor was asked to stop on flag_stop and the FIFO.
LEMMA AskedFrame ==
    ASSUME UNCHANGED <<flag_stop, control>> PROVE UNCHANGED Asked
  BY DEF Asked

Elsewhere == Labels \ (Starting \cup Stopped)

\* The thread moves between places that look the same from above.
LEMMA ThreadFrame ==
    ASSUME \/ UNCHANGED <<pc, cur>>
           \/ pc \in Elsewhere /\ pc' \in Elsewhere
           \/ pc = "timer" /\ pc' = "count" /\ cur' = cur
    PROVE  UNCHANGED thread_view
  BY DEF thread_view, Life, Chosen, Decided, Elsewhere, Labels, Starting, Stopped

\* The steps Supervisor does not see: in the thread,
LEMMA ThreadStutters ==
    ASSUME TypeOK,
           \/ setup_monitor /\ pc' # "died"
           \/ start_children \/ start_child_timer \/ poll_nothing
           \/ terminate_child_signal \/ terminate_child_wait
           \/ create_procattr_log /\ pc' = "run"
           \/ create_procattr_run /\ pc' = "poll"
           \/ terminate_child_check /\ gaveup' = gaveup
           \/ AlarmDue \/ Edit \/ UNCHANGED vars
    PROVE  UNCHANGED S!vars
<1> USE DEF vars, thread_vars, child_vars, flag_vars, timer_vars, goto
<1>1. UNCHANGED <<pid, procs, gaveup, suspended, suspended_periods, flag_stop,
                  flag_intr, control>>
  BY DEF setup_monitor, start_children, start_child_timer, poll_nothing,
         terminate_child_signal, terminate_child_wait, create_procattr_log,
         create_procattr_run, terminate_child_check, AlarmDue, Edit
<1>2. UNCHANGED thread_view
  <2>1. \/ UNCHANGED <<pc, cur>>
        \/ pc \in Elsewhere /\ pc' \in Elsewhere
        \/ pc = "timer" /\ pc' = "count" /\ cur' = cur
    BY DEF setup_monitor, start_children, start_child_timer, poll_nothing,
           terminate_child_signal, terminate_child_wait, create_procattr_log,
           create_procattr_run, terminate_child_check, AlarmDue, Edit, Outside,
           Elsewhere, Labels, Starting, Stopped
  <2> QED
    BY <2>1, ThreadFrame
<1> QED
  BY <1>1, <1>2, ChildFrame, WaitFrame, AskedFrame
  DEF S!vars, thread_view, child_view

\* ... and in what only moves commands into the FIFO or out of it.
LEMMA CommandSteps ==
    ASSUME TypeOK, pc' # "died",
           \/ parse_command_signal \/ parse_command_terminate
           \/ handle_chld \/ handle_hup
           \/ \E cmd \in Command : SendCommand(cmd)
    PROVE  [S!Ask]_S!vars
<1> USE DEF vars, thread_vars, child_vars, flag_vars, timer_vars, goto, leave,
            interrupts, write_command
<1>1. UNCHANGED <<pid, procs, gaveup, suspended, suspended_periods, flag_intr>>
  BY DEF parse_command_signal, parse_command_terminate, handle_chld, handle_hup,
         SendCommand
<1>2. /\ UNCHANGED thread_view
      /\ S!Open
  <2>1. /\ pc \in Labels \ Stopped
        /\ \/ UNCHANGED <<pc, cur>>
           \/ pc \in Elsewhere /\ pc' \in Elsewhere
    BY DEF parse_command_signal, parse_command_terminate, handle_chld,
           handle_hup, SendCommand, Outside, Running, Elsewhere, Labels,
           Starting, Stopped, Blocked, TypeOK, ThreadTypes
  <2> QED
    BY <2>1, ThreadFrame DEF S!Open, Life, Stopped
<1>3. Asked => Asked'
  <2>0. control \in Seq(Command) /\ "w" \in Command
    BY DEF TypeOK, PipeTypes, Command
  <2>1. CASE parse_command_signal
    BY <2>0, <2>1, ReadKeeps DEF parse_command_signal, Asked
  <2>2. CASE parse_command_terminate /\ Head(control) = "x"
    BY <2>2 DEF parse_command_terminate, Asked
  <2>3. CASE parse_command_terminate /\ Head(control) # "x"
    BY <2>0, <2>3, ReadKeeps DEF parse_command_terminate, Asked
  <2>4. CASE handle_chld \/ handle_hup
    <3>1. control' = control \/ control' = Queued(control, "w")
      BY <2>4 DEF handle_chld, handle_hup
    <3>2. UNCHANGED flag_stop
      BY <2>4 DEF handle_chld, handle_hup
    <3> QED
      BY <2>0, <3>1, <3>2, WriteKeeps DEF Asked
  <2>5. ASSUME NEW cmd \in Command, SendCommand(cmd) PROVE Asked => Asked'
    BY <2>0, <2>5, WriteKeeps DEF SendCommand, Asked
  <2> QED
    BY <2>1, <2>2, <2>3, <2>4, <2>5
<1>4. Asked' = Asked \/ Asked' = TRUE
  BY <1>3 DEF Asked
<1> QED
  BY <1>1, <1>2, <1>4, ChildFrame, WaitFrame
  DEF S!Ask, S!vars, thread_view, child_view

-----------------------------------------------------------------------------
(* Starting and ending children *)

\* The record of another child is another process.
LEMMA OtherProcess ==
    ASSUME TypeOK, ChildrenTracked, NEW c \in Child, NEW d \in Child \ {c},
           pid[c] # NoPid
    PROVE  pid[d] # pid[c]
  BY DEF ChildrenTracked, Child

\* start_children picks a program: Supervisor's Choose.
LEMMA ChooseStep ==
    ASSUME TypeOK,
           \/ create_procattr_log /\ pc' = "timer"
           \/ create_procattr_run /\ pc' = "timer"
    PROVE  \E c \in Child : S!Choose(c)
<1> USE DEF flag_vars, timer_vars, child_vars, goto, start
<1>1. /\ pc \in {"log", "run"} /\ pc' = "timer"
      /\ cur' \in Child /\ pid[cur'] = NoPid /\ ~suspended[cur']
      /\ UNCHANGED <<pid, procs, gaveup, suspended, suspended_periods, flag_stop,
                     flag_intr, control>>
  BY DEF create_procattr_log, create_procattr_run, WantLog, WantRun, Child
<1>2. Life = "open" /\ Life' = "open" /\ Chosen = {} /\ Chosen' = {cur'}
      /\ Decided = {} /\ Decided' = {}
  BY <1>1 DEF Life, Chosen, Decided
<1>3. Instances[cur'] = "down" /\ Wait[cur'] = 0
  BY <1>1 DEF Instances, Instance, Wait
<1>4. S!Choose(cur')
  BY <1>1, <1>2, <1>3, ChildFrame, WaitFrame, AskedFrame
  DEF S!Choose, S!Open, child_view
<1> QED
  BY <1>1, <1>4

\* start_child counts the attempt: Supervisor's Decide, or Forgo if the program
\* is not to be started.
LEMMA CountStep ==
    ASSUME TypeOK, start_child_count
    PROVE  (\E c \in Child : S!Decide(c)) \/ S!Forgo
<1> USE DEF flag_vars, child_vars, goto, started, leave, pipe_vars
<1>1. /\ pc = "count" /\ cur \in Child
      /\ UNCHANGED <<pid, procs, gaveup, suspended, suspended_periods, flag_stop,
                     flag_intr, control>>
  BY DEF start_child_count, TypeOK, ThreadTypes
<1>2. Life = "open" /\ Chosen = {cur} /\ Decided = {}
  BY <1>1 DEF Life, Chosen, Decided
<1>3. UNCHANGED <<Instances, Wait, Asked>>
  BY <1>1, ChildFrame, WaitFrame, AskedFrame DEF child_view
<1>4. CASE MayStart
  <2>1. ~flag_intr /\ pc' = "fork" /\ cur' = cur
    BY <1>4 DEF start_child_count, MayStart
  <2>2. Life' = "open" /\ Chosen' = {cur} /\ Decided' = {cur}
    BY <2>1 DEF Life, Chosen, Decided
  <2>3. S!Decide(cur)
    BY <1>1, <1>2, <1>3, <2>1, <2>2 DEF S!Decide, S!Open
  <2> QED
    BY <1>1, <2>3
<1>5. CASE ~MayStart
  <2>1. pc' \in {"run", "poll"}
    BY <1>5 DEF start_child_count
  <2>2. Life' = "open" /\ Chosen' = {} /\ Decided' = {}
    BY <2>1 DEF Life, Chosen, Decided
  <2> QED
    BY <1>1, <1>2, <1>3, <2>2 DEF S!Forgo, S!Open
<1> QED
  BY <1>4, <1>5

\* A failed fork is Supervisor's Forgo (start_child).
LEMMA FailStep ==
    ASSUME TypeOK, start_child_fail
    PROVE  S!Forgo
<1> USE DEF flag_vars, child_vars, started, leave, pipe_vars
<1>1. /\ pc = "fork" /\ pc' \in {"run", "poll"}
      /\ UNCHANGED <<pid, procs, gaveup, suspended, suspended_periods, flag_stop,
                     flag_intr, control>>
  BY DEF start_child_fail
<1>2. Life = "open" /\ Life' = "open" /\ Chosen' = {} /\ Decided' = {}
  BY <1>1 DEF Life, Chosen, Decided
<1> QED
  BY <1>1, <1>2, ChildFrame, WaitFrame, AskedFrame
  DEF S!Forgo, S!Open, child_view

\* A successful one is its Start (start_child).
LEMMA ForkStep ==
    ASSUME TypeOK, IInv, start_child_fork
    PROVE  \E c \in Child : S!Start(c)
<1> USE DEF flag_vars, child_vars, started, leave
<1>1. /\ pc = "fork" /\ pc' \in {"run", "poll"} /\ cur \in Child
      /\ UNCHANGED <<gaveup, suspended, suspended_periods, flag_stop, flag_intr,
                     control>>
  BY DEF start_child_fork, TypeOK, ThreadTypes
<1>2. Life = "open" /\ Life' = "open" /\ Chosen' = {} /\ Decided = {cur}
      /\ Decided' = {}
  BY <1>1 DEF Life, Chosen, Decided
<1>3. pid[cur] = NoPid
  BY <1>1 DEF IInv, StartingInv, Starting
<1>4. PICK p \in Pids : /\ procs[p] = "free"
                        /\ procs' = [procs EXCEPT ![p] = "alive"]
                        /\ pid' = [pid EXCEPT ![cur] = p]
  BY DEF start_child_fork
<1>5. pid'[cur] = p /\ procs'[p] = "alive" /\ p # NoPid
  BY <1>1, <1>4, PidAssumption DEF TypeOK, ChildTypes
<1>6. ASSUME NEW d \in Child \ {cur}
      PROVE  pid'[d] = pid[d] /\ (pid[d] # NoPid => procs'[pid[d]] = procs[pid[d]])
  <2>1. pid[d] # p
    BY <1>4 DEF IInv, ChildrenTracked
  <2> QED
    BY <1>4, <2>1 DEF TypeOK, ChildTypes
<1>7. Instances[cur] = "down" /\ Instances' = [Instances EXCEPT ![cur] = "up"]
  BY <1>1, <1>3, <1>5, <1>6 DEF Instances, Instance
<1>8. S!Start(cur)
  BY <1>1, <1>2, <1>7, WaitFrame, AskedFrame DEF S!Start, S!Open
<1> QED
  BY <1>1, <1>8

\* A child that dies by itself is Supervisor's Die.
LEMMA ExitStep ==
    ASSUME TypeOK, IInv, NEW p \in Pids, ChildExit(p)
    PROVE  \E c \in Child : S!Die(c)
<1> USE DEF flag_vars, child_vars, thread_vars
<1>1. /\ Running /\ procs[p] = "alive"
      /\ procs' = [procs EXCEPT ![p] = "zombie"]
      /\ UNCHANGED <<pc, cur, pid, gaveup, suspended, suspended_periods,
                     flag_stop, flag_intr, control>>
  BY DEF ChildExit
<1>2. PICK c \in Child : pid[c] = p
  BY <1>1 DEF IInv, ChildrenTracked
<1>3. p # NoPid /\ procs'[p] = "zombie"
  BY <1>1, PidAssumption DEF TypeOK, ChildTypes
<1>4. ASSUME NEW d \in Child \ {c}
      PROVE  pid[d] # NoPid => procs'[pid[d]] = procs[pid[d]]
  BY <1>1, <1>2, <1>3, OtherProcess DEF TypeOK, ChildTypes, IInv
<1>5. Instances[c] = "up" /\ Instances' = [Instances EXCEPT ![c] = "dead"]
  BY <1>1, <1>2, <1>3, <1>4 DEF Instances, Instance
<1>6. Life = "open" /\ UNCHANGED thread_view
  BY <1>1, ThreadFrame DEF Life, Running, Stopped
<1>7. S!Die(c)
  BY <1>1, <1>5, <1>6, WaitFrame, AskedFrame DEF S!Die, S!Open, thread_view
<1> QED
  BY <1>7

\* check_children forgets one dead child: Supervisor's Reap.
LEMMA ReapStep ==
    ASSUME TypeOK, IInv, NEW p \in Pids, Reap(p)
    PROVE  \E c \in Child : S!Reap(c)
<1> USE DEF child_vars, thread_vars, timer_vars
<1>1. /\ pc \in {"check", "termcheck"} /\ procs[p] = "zombie"
      /\ procs' = [procs EXCEPT ![p] = "free"]
      /\ pid' = [c \in Child |-> IF pid[c] = p THEN NoPid ELSE pid[c]]
      /\ gaveup' = {c \in gaveup : pid[c] # p}
      /\ UNCHANGED <<pc, cur, suspended, suspended_periods, flag_stop, flag_intr,
                     control>>
  BY DEF Reap
<1>2. PICK c \in Child : pid[c] = p
  BY <1>1 DEF IInv, ChildrenTracked
<1>3. p # NoPid
  BY PidAssumption
<1>4. ASSUME NEW d \in Child \ {c}
      PROVE  pid[d] # p /\ (pid[d] # NoPid => procs'[pid[d]] = procs[pid[d]])
  BY <1>1, <1>2, <1>3, OtherProcess DEF TypeOK, ChildTypes, IInv
<1>5. Instances[c] = "dead" /\ Instances' = [Instances EXCEPT ![c] = "down"]
  BY <1>1, <1>2, <1>3, <1>4 DEF Instances, Instance
<1>6. gaveup' = gaveup \ {c}
  BY <1>1, <1>2, <1>4 DEF TypeOK, ThreadTypes
<1>7. Life = "open" /\ UNCHANGED thread_view
  BY <1>1, ThreadFrame DEF Life
<1>8. S!Reap(c)
  BY <1>1, <1>5, <1>6, <1>7, WaitFrame, AskedFrame DEF S!Reap, S!Open, thread_view
<1> QED
  BY <1>8

-----------------------------------------------------------------------------
(* Terminating children, periods, interrupts and the end *)

\* terminate_child runs out of attempts: Supervisor's GiveUp.
LEMMA GiveUpStep ==
    ASSUME TypeOK, terminate_child_check, gaveup' # gaveup
    PROVE  \E c \in Child : S!GiveUp(c)
<1> USE DEF child_vars, flag_vars
<1>1. /\ pc = "termcheck" /\ pc' = "reset" /\ cur \in Child
      /\ pid[cur] # NoPid /\ gaveup' = gaveup \cup {cur}
      /\ UNCHANGED <<pid, procs, suspended, suspended_periods, flag_stop,
                     flag_intr, control>>
  BY DEF terminate_child_check, TypeOK, ThreadTypes
<1>2. Life = "open" /\ Chosen = {} /\ UNCHANGED thread_view
  BY <1>1, ThreadFrame DEF Life, Chosen, Elsewhere, Labels, Starting, Stopped
<1>3. Instances[cur] # "down" /\ UNCHANGED Instances
  BY <1>1 DEF Instances, Instance
<1>4. S!GiveUp(cur)
  BY <1>1, <1>2, <1>3, WaitFrame, AskedFrame DEF S!GiveUp, S!Open, thread_view
<1> QED
  BY <1>1, <1>4

\* terminate_child lifts the suspension: Supervisor's Terminated.
LEMMA ResetStep ==
    ASSUME TypeOK, IInv, terminate_child_reset
    PROVE  \E c \in Child : S!Terminated(c)
<1> USE DEF flag_vars, pipe_vars
<1>1. /\ pc = "reset" /\ cur \in Child
      /\ suspended' = [suspended EXCEPT ![cur] = FALSE]
      /\ UNCHANGED <<pid, procs, gaveup, flag_stop, flag_intr, control>>
      /\ \A c \in Child \ {cur} : suspended_periods'[c] = suspended_periods[c]
  BY DEF terminate_child_reset, timer_vars, unignore, TypeOK, ThreadTypes, ChildTypes
<1>2. Life = "open" /\ Chosen = {} /\ Decided = {}
  BY <1>1 DEF Life, Chosen, Decided
<1>3. Wait' = [Wait EXCEPT ![cur] = 0]
  BY <1>1 DEF Wait, TypeOK, ChildTypes
<1>4. Instances[cur] = "down" \/ cur \in gaveup
  BY <1>1 DEF IInv, TerminatingInv, Settled, Instances, Instance
<1>5. Chosen' = {} /\ Decided' = {}
      /\ (Life' = "open" \/ (Life' = "closed" /\ flag_stop /\ cur = "log"))
  <2>1. pc' = "term" \/ pc' = "check" \/ (pc' = "exited" /\ flag_stop /\ cur = "log")
    BY <1>1 DEF terminate_child_reset, terminate_log, leave, loop_end, Child
  <2> QED
    BY <2>1 DEF Life, Chosen, Decided
<1>6. cur = "log" => S!Settled
  BY <1>1, <1>4 DEF IInv, TerminatingInv, Terminating, Settled, Instances,
                    Instance, S!Settled, Child
<1>7. S!Terminated(cur)
  BY <1>1, <1>2, <1>3, <1>4, <1>5, <1>6, ChildFrame, AskedFrame
  DEF S!Terminated, S!Open, child_view, Asked
<1> QED
  BY <1>1, <1>7

\* handle_alarm counts a period for both children at once: Supervisor's Period.
LEMMA AlarmStep ==
    ASSUME TypeOK, PeriodsInv, handle_alarm, pc' # "died"
    PROVE  S!Period
<1> USE DEF flag_vars, pipe_vars
<1>1. /\ Running /\ interrupts
      /\ UNCHANGED <<pid, procs, gaveup, flag_stop, flag_intr>>
      /\ control' = Queued(control, "w") \/ control' = control
  BY DEF handle_alarm, write_command, goto
<1>2. ASSUME NEW c \in Child
      PROVE  /\ Wait'[c] \in 0..CHILD_SUSPENSION
             /\ IF Wait[c] > 0 THEN Wait'[c] = Wait[c] - 1
                ELSE Wait'[c] \in {0, CHILD_SUSPENSION}
  <2>1. /\ suspended'[c] = check_suspension(c).suspended
        /\ suspended_periods'[c] = check_suspension(c).periods
    BY DEF handle_alarm
  <2>2. /\ suspended_periods[c] \in 0..CHILD_SUSPENSION - 1
        /\ suspended[c] \in BOOLEAN
        /\ CHILD_SUSPENSION \in Nat \ {0}
    BY LimitAssumption DEF TypeOK, ChildTypes
  <2>3. /\ Wait[c] = IF suspended[c] THEN CHILD_SUSPENSION - suspended_periods[c]
                     ELSE 0
        /\ Wait'[c] = IF suspended'[c]
                       THEN CHILD_SUSPENSION - suspended_periods'[c] ELSE 0
    BY DEF Wait
  <2>4. CASE suspended[c] /\ Lift(c)
    <3>1. ~suspended'[c]
      BY <2>1, <2>4, CheckedSuspension, Zenon
    <3> QED
      BY <2>2, <2>3, <2>4, <3>1 DEF Lift
  <2>5. CASE suspended[c] /\ ~Lift(c)
    <3>1. suspended'[c] /\ suspended_periods'[c] = suspended_periods[c] + 1
      BY <2>1, <2>5, CheckedSuspension, Zenon
    <3> QED
      BY <2>2, <2>3, <2>5, <3>1 DEF Lift
  <2>6. CASE ~suspended[c]
    <3>1. suspended_periods'[c] = 0
      BY <2>1, <2>6, CheckedSuspension DEF PeriodsInv
    <3> QED
      BY <2>2, <2>3, <2>6, <3>1
  <2> QED
    BY <2>2, <2>4, <2>5, <2>6
<1>3. Wait' \in [Child -> 0..CHILD_SUSPENSION]
  BY <1>2 DEF Wait
<1>4. Life = "open" /\ UNCHANGED thread_view
  <2>1. UNCHANGED <<pc, cur>> \/ (pc \in Elsewhere /\ pc' \in Elsewhere)
    BY <1>1 DEF interrupts, thread_vars, goto, Elsewhere, Labels, Starting, Stopped
  <2> QED
    BY <1>1, <2>1, ThreadFrame DEF Life, Running, Stopped
<1>5. UNCHANGED Asked
  BY <1>1, WakeAsksNothing DEF Asked, TypeOK, PipeTypes
<1> QED
  BY <1>1, <1>2, <1>3, <1>4, <1>5, ChildFrame
  DEF S!Period, S!Open, thread_view, child_view

\* A signal to stop is Supervisor's Interrupt (handler).
LEMMA TermStep ==
    ASSUME TypeOK, handle_term, pc' # "died"
    PROVE  S!Interrupt
<1> USE DEF flag_vars, child_vars, timer_vars
<1>1. /\ Running /\ interrupts
      /\ flag_intr' = TRUE /\ control' = Queued(control, "x")
      /\ UNCHANGED <<pid, procs, gaveup, flag_stop, suspended, suspended_periods>>
  BY DEF handle_term, Outside, write_command, goto
<1>2. Life = "open" /\ UNCHANGED thread_view
  <2>1. UNCHANGED <<pc, cur>> \/ (pc \in Elsewhere /\ pc' \in Elsewhere)
    BY <1>1 DEF interrupts, thread_vars, goto, Elsewhere, Labels, Starting, Stopped
  <2> QED
    BY <1>1, <2>1, ThreadFrame DEF Life, Running, Stopped
<1>3. Asked' = TRUE
  BY <1>1, WritePuts DEF Asked, TypeOK, PipeTypes
<1> QED
  BY <1>1, <1>2, <1>3, ChildFrame, WaitFrame
  DEF S!Interrupt, S!Open, thread_view, child_view

\* A monitor dies before it has children, or when a handler cannot write to the
\* FIFO, whatever the thread was doing: Supervisor's Fail (write_command).
LEMMA DeathStep ==
    ASSUME TypeOK, TypeOK', SetupInv, pc' = "died",
           \/ setup_monitor \/ handle_hup \/ handle_term
           \/ handle_alarm \/ handle_chld
    PROVE  S!Fail
<1> USE DEF flag_vars, child_vars, timer_vars, pipe_vars, thread_vars, goto,
            interrupts, write_command
<1>1. /\ pc \notin Stopped
      /\ flag_intr' \in {flag_intr, TRUE}
      /\ UNCHANGED <<pid, procs, gaveup, flag_stop, control>>
  BY DEF setup_monitor, handle_hup, handle_term, handle_alarm, handle_chld,
         Outside, Running, Stopped, Blocked
<1>2. CallsFail \/ pc = "setup"
  BY DEF setup_monitor, handle_hup, handle_term, handle_alarm, handle_chld,
         Outside, Running, Stopped, Blocked, MayFail, Fault
<1>3. pc = "setup" => Chosen = {} /\ \A c \in Child : Instances[c] = "down"
  BY DEF SetupInv, Chosen, Instances, Instance
<1>4. Wait' \in [Child -> 0..CHILD_SUSPENSION]
  BY LimitAssumption DEF Wait, TypeOK, ChildTypes
<1>5. Life = "open" /\ Life' = "failed" /\ Chosen' = {} /\ Decided' = {}
  BY <1>1 DEF Life, Chosen, Decided, Stopped
<1> QED
  BY <1>1, <1>2, <1>3, <1>4, <1>5, ChildFrame, AskedFrame
  DEF S!Fail, S!Open, child_view

\* The assertion about the pipe fails with a child that could not be terminated:
\* Supervisor's Break.
LEMMA BreakStep ==
    ASSUME TypeOK, IInv', create_procattr_run, pc' = "aborted"
    PROVE  S!Break
<1> USE DEF flag_vars, child_vars, timer_vars, goto
<1>1. /\ pc = "run"
      /\ UNCHANGED <<pid, procs, gaveup, flag_stop, flag_intr, suspended,
                     suspended_periods, control>>
  BY DEF create_procattr_run
<1>2. gaveup # {}
  BY <1>1 DEF IInv, AbortsOnlyOnSurvivor
<1>3. Life = "open" /\ Life' = "broken" /\ UNCHANGED <<Chosen, Decided>>
      /\ Chosen = {}
  BY <1>1 DEF Life, Chosen, Decided
<1> QED
  BY <1>1, <1>2, <1>3, ChildFrame, WaitFrame, AskedFrame
  DEF S!Break, S!Open, child_view

-----------------------------------------------------------------------------
\* Every step of the monitor is one of Supervisor's, or changes nothing it sees.
LEMMA RefinementStep ==
    TypeOK /\ TypeOK' /\ IInv /\ IInv' /\ SetupInv /\ PeriodsInv /\ [Next]_vars
    => [S!Next]_S!vars
<1> SUFFICES ASSUME TypeOK, TypeOK', IInv, IInv', SetupInv, PeriodsInv,
                    [Next]_vars
             PROVE  [S!Next]_S!vars
  OBVIOUS
<1>1. CASE setup_monitor
  BY <1>1, ThreadStutters, DeathStep DEF S!Next
<1>2. ASSUME NEW p \in Pids, Reap(p) PROVE S!Next
  BY <1>2, ReapStep DEF S!Next
<1>3. CASE create_procattr_log
  <2>1. pc' \in {"timer", "run"}
    BY <1>3 DEF create_procattr_log, start, goto
  <2> QED
    BY <1>3, <2>1, ThreadStutters, ChooseStep DEF S!Next
<1>4. CASE create_procattr_run
  <2>1. pc' \in {"timer", "poll", "aborted"}
    BY <1>4 DEF create_procattr_run, start, goto
  <2> QED
    BY <1>4, <2>1, ThreadStutters, ChooseStep, BreakStep DEF S!Next
<1>5. CASE start_child_count
  BY <1>5, CountStep DEF S!Next
<1>6. CASE start_child_fork
  BY <1>6, ForkStep DEF S!Next
<1>7. CASE start_child_fail
  BY <1>7, FailStep DEF S!Next
<1>8. CASE terminate_child_check
  BY <1>8, ThreadStutters, GiveUpStep DEF S!Next
<1>9. CASE terminate_child_reset
  BY <1>9, ResetStep DEF S!Next
<1>10. CASE handle_alarm
  BY <1>10, AlarmStep, DeathStep DEF S!Next
<1>11. CASE handle_term
  BY <1>11, TermStep, DeathStep DEF S!Next
<1>12. ASSUME NEW p \in Pids, ChildExit(p) PROVE S!Next
  BY <1>12, ExitStep DEF S!Next
<1>13. CASE handle_hup \/ handle_chld
  BY <1>13, CommandSteps, DeathStep DEF S!Next
<1>14. CASE parse_command_signal \/ parse_command_terminate
            \/ \E cmd \in Command : SendCommand(cmd)
  <2>1. pc' # "died"
    BY <1>14 DEF parse_command_signal, parse_command_terminate, SendCommand,
                 Outside, Running, Stopped, thread_vars, goto
  <2> QED
    BY <1>14, <2>1, CommandSteps DEF S!Next
<1>15. CASE \/ start_children \/ start_child_timer \/ poll_nothing
            \/ terminate_child_signal \/ terminate_child_wait
            \/ AlarmDue \/ Edit \/ UNCHANGED vars
  BY <1>15, ThreadStutters
<1> QED
  BY <1>1, <1>2, <1>3, <1>4, <1>5, <1>6, <1>7, <1>8, <1>9, <1>10, <1>11, <1>12,
     <1>13, <1>14, <1>15 DEF Next, Thread, World, Finished

\* The monitor does what Supervisor promises, and nothing else, for all
\* processes, limits and bounds, whether calls fail or not.
THEOREM MonitorSupervises == Spec => Supervises
<1>1. Init => S!Init
  <2> SUFFICES ASSUME Init PROVE S!Init
    OBVIOUS
  <2>1. Life = "open" /\ Chosen = {} /\ Decided = {}
    BY DEF Init, Life, Chosen, Decided
  <2>2. Instances = [c \in Child |-> "down"] /\ Wait = [c \in Child |-> 0]
    BY DEF Init, Instances, Instance, Wait
  <2>3. Asked = FALSE
    BY DEF Init, Asked, Unread
  <2> QED
    BY <2>1, <2>2, <2>3 DEF Init, S!Init
<1>2. TypeOK /\ TypeOK' /\ IInv /\ IInv' /\ SetupInv /\ PeriodsInv
      /\ [Next]_vars => [S!Next]_S!vars
  BY RefinementStep
<1> QED
  BY <1>1, <1>2, TypeCorrect, ChildrenInvariant, SetupInvariant, PeriodsInvariant,
     PTL DEF Spec, Supervises, S!Spec
=============================================================================
