--------------------------- MODULE MonitorProofs ---------------------------
(***************************************************************************)
(* Theorems about Monitor, for every value of its constants.               *)
(*                                                                         *)
(* The safety properties are not inductive one by one.  IInv adds what     *)
(* they lean on: where the thread is when it creates or terminates a       *)
(* child, and what has been settled by then.                               *)
(***************************************************************************)
EXTENDS Monitor, TLAPS

Starting    == {"timer", "count", "fork"}
Terminating == {"term", "termwait", "termcheck", "reset"}

\* A child is started only while it has no process, and log only after the
\* pipe it reads was created.
StartingInv ==
    pc \in Starting => /\ pid[cur] = NoPid
                       /\ cur = "log" => pipe

\* terminate_child returns when the child is gone or given up, run before log.
Settled(c) == pid[c] = NoPid \/ c \in gaveup
TerminatingInv ==
    /\ pc = "reset" => Settled(cur)
    /\ pc \in Terminating /\ cur = "log" => Settled("run")
    /\ pc = "exited" => \A c \in Child : Settled(c)

\* The main loop runs until flag_stop, which is set with run's stdin closed.
StopInv ==
    /\ pc \in {"setup", "check", "log", "run", "poll"} \cup Starting => ~flag_stop
    /\ ~flag_stop /\ pc # "setup" /\ pc # "died" => stdin

\* Outside a termination a log that was not given up has its pipe.
PipeInv ==
    pid["log"] # NoPid /\ "log" \notin gaveup /\ pc \notin Terminating \cup {"exited", "died"}
    => pipe

IInv == /\ ChildrenTracked
        /\ StartingInv
        /\ TerminatingInv
        /\ StopInv
        /\ PipeInv
        /\ AbortsOnlyOnSurvivor

-----------------------------------------------------------------------------
(* Type correctness *)

\* A command added to the FIFO leaves a sequence of commands.
LEMMA WriteCommandType ==
    ASSUME NEW queue \in Seq(Command), NEW cmd \in Command
    PROVE  Queued(queue, cmd) \in Seq(Command)
  BY DEF Queued

\* A write of FILE_STATUS, whether it succeeds or fails.
LEMMA WriteStatusType ==
    ASSUME TypeOK,
           NEW newpid \in [Child -> Pids \cup {NoPid}],
           NEW newforward \in BOOLEAN,
           write_status(newpid, newforward)
    PROVE  /\ status' \in [run: Pids \cup {NoPid}, log: Pids \cup {NoPid},
                           forward: BOOLEAN]
           /\ stale' \in BOOLEAN
           /\ events' \in 0..MaxEvents
<1> USE BoundAssumption DEF write_status, TypeOK, ThreadTypes, FileTypes
<1>1. status' \in [run: Pids \cup {NoPid}, log: Pids \cup {NoPid},
                  forward: BOOLEAN]
  BY DEF Child
<1>2. stale' \in BOOLEAN
  OBVIOUS
<1>3. events' \in 0..MaxEvents
  BY DEF Event, Fault
<1> QED
  BY <1>1, <1>2, <1>3

\* The initial state of the monitor has the types of TypeOK.
LEMMA TypeInit == Init => TypeOK
<1> SUFFICES ASSUME Init PROVE TypeOK
  OBVIOUS
<1> USE LimitAssumption, BoundAssumption DEF Init, Child
<1>1. ThreadTypes
  BY DEF ThreadTypes, Labels
<1>2. ChildTypes
  BY DEF ChildTypes
<1>3. FlagTypes
  BY DEF FlagTypes
<1>4. PipeTypes
  <2>1. control \in Seq(Command)
    OBVIOUS
  <2>2. pipe \in BOOLEAN /\ stdin \in BOOLEAN
    OBVIOUS
  <2>3. end \in [Child -> {"none", "current", "closed"}]
    OBVIOUS
  <2> QED
    BY <2>1, <2>2, <2>3 DEF PipeTypes
<1>5. FileTypes
  BY DEF FileTypes
<1> QED
  BY <1>1, <1>2, <1>3, <1>4, <1>5 DEF TypeOK

\* Every step of the thread, of a handler and of the world keeps the types.
LEMMA TypeStep == TypeOK /\ [Next]_vars => TypeOK'
<1> SUFFICES ASSUME TypeOK, [Next]_vars PROVE TypeOK'
  OBVIOUS
<1> USE LimitAssumption, BoundAssumption
    DEF TypeOK, ThreadTypes, ChildTypes, FlagTypes, PipeTypes, FileTypes,
        Labels, Stopped, Child, goto, leave, Event, Fault, thread_vars,
        child_vars, flag_vars, timer_vars, pipe_vars, file_vars, world_vars
<1>0. "w" \in Command /\ "x" \in Command
  BY DEF Command
<1>1. CASE setup_monitor
  <2>1. ThreadTypes'
    BY <1>1 DEF setup_monitor
  <2>2. ChildTypes'
    BY <1>1 DEF setup_monitor
  <2>3. FlagTypes'
    BY <1>1 DEF setup_monitor
  <2>4. PipeTypes'
    BY <1>1 DEF setup_monitor
  <2>5. FileTypes'
    BY <1>1 DEF setup_monitor
  <2> QED
    BY <2>1, <2>2, <2>3, <2>4, <2>5
<1>2. ASSUME NEW p \in Pids, Reap(p) PROVE TypeOK'
  <2>2. ChildTypes'
    BY <1>2 DEF Reap
  <2>3. FlagTypes'
    BY <1>2 DEF Reap
  <2>4. PipeTypes'
    BY <1>2 DEF Reap
  <2>5. FileTypes' /\ events' \in 0..MaxEvents
    <3>1. CASE write_status(pid', flag_forward')
      BY <1>2, <2>2, <2>3, <3>1, WriteStatusType DEF Reap
    <3>2. CASE UNCHANGED <<file_vars, events>>
      BY <1>2, <3>2 DEF Reap
    <3> QED
      BY <1>2, <3>1, <3>2 DEF Reap
  <2>1. ThreadTypes'
    BY <1>2, <2>5 DEF Reap
  <2> QED
    BY <2>1, <2>2, <2>3, <2>4, <2>5
<1>3. CASE start_children
  <2>1. ThreadTypes'
    BY <1>3 DEF start_children
  <2>2. ChildTypes'
    BY <1>3 DEF start_children
  <2>3. FlagTypes'
    BY <1>3 DEF start_children
  <2>4. PipeTypes'
    BY <1>3 DEF start_children
  <2>5. FileTypes'
    BY <1>3 DEF start_children
  <2> QED
    BY <2>1, <2>2, <2>3, <2>4, <2>5
<1>4. CASE create_procattr_log
  <2>1. ThreadTypes'
    BY <1>4 DEF create_procattr_log, start, create_pipe
  <2>2. ChildTypes'
    BY <1>4 DEF create_procattr_log, start, create_pipe
  <2>3. FlagTypes'
    BY <1>4 DEF create_procattr_log, start, create_pipe
  <2>4. PipeTypes'
    BY <1>4 DEF create_procattr_log, start, create_pipe
  <2>5. FileTypes'
    BY <1>4 DEF create_procattr_log, start, create_pipe
  <2> QED
    BY <2>1, <2>2, <2>3, <2>4, <2>5
<1>5. CASE create_procattr_run
  <2>1. ThreadTypes'
    BY <1>5 DEF create_procattr_run, start
  <2>2. ChildTypes'
    BY <1>5 DEF create_procattr_run, start
  <2>3. FlagTypes'
    BY <1>5 DEF create_procattr_run, start
  <2>4. PipeTypes'
    BY <1>5 DEF create_procattr_run, start
  <2>5. FileTypes'
    BY <1>5 DEF create_procattr_run, start
  <2> QED
    BY <2>1, <2>2, <2>3, <2>4, <2>5
<1>6. CASE start_child_timer
  <2>1. ThreadTypes'
    BY <1>6 DEF start_child_timer
  <2>2. ChildTypes'
    BY <1>6 DEF start_child_timer
  <2>3. FlagTypes'
    BY <1>6 DEF start_child_timer
  <2>4. PipeTypes'
    BY <1>6 DEF start_child_timer
  <2>5. FileTypes'
    BY <1>6 DEF start_child_timer
  <2> QED
    BY <2>1, <2>2, <2>3, <2>4, <2>5
<1>7. CASE start_child_count
  <2>1. ThreadTypes'
    BY <1>7 DEF start_child_count, started
  <2>2. ChildTypes'
    BY <1>7 DEF start_child_count, started
  <2>3. FlagTypes'
    BY <1>7 DEF start_child_count, started
  <2>4. PipeTypes'
    BY <1>7 DEF start_child_count, started
  <2>5. FileTypes'
    BY <1>7 DEF start_child_count, started
  <2> QED
    BY <2>1, <2>2, <2>3, <2>4, <2>5
<1>8. CASE start_child_fork
  <2>2. ChildTypes'
    BY <1>8 DEF start_child_fork
  <2>3. FlagTypes'
    BY <1>8 DEF start_child_fork
  <2>4. PipeTypes'
    BY <1>8 DEF start_child_fork
  <2>5. FileTypes' /\ events' \in 0..MaxEvents
    <3>1. write_status(pid', flag_forward) /\ UNCHANGED world_vars
      BY <1>8 DEF start_child_fork
    <3> QED
      BY <2>2, <3>1, WriteStatusType
  <2>1. ThreadTypes'
    BY <1>8, <2>5 DEF start_child_fork, started
  <2> QED
    BY <2>1, <2>2, <2>3, <2>4, <2>5
<1>9. CASE start_child_fail
  <2>1. ThreadTypes'
    BY <1>9 DEF start_child_fail, started
  <2>2. ChildTypes'
    BY <1>9 DEF start_child_fail, started
  <2>3. FlagTypes'
    BY <1>9 DEF start_child_fail, started
  <2>4. PipeTypes'
    BY <1>9 DEF start_child_fail, started
  <2>5. FileTypes'
    BY <1>9 DEF start_child_fail, started
  <2> QED
    BY <2>1, <2>2, <2>3, <2>4, <2>5
<1>10. CASE parse_command_signal
  <2>1. ThreadTypes'
    BY <1>10 DEF parse_command_signal
  <2>2. ChildTypes'
    BY <1>10 DEF parse_command_signal
  <2>3. FlagTypes'
    BY <1>10 DEF parse_command_signal
  <2>4. PipeTypes'
    BY <1>10 DEF parse_command_signal
  <2>5. FileTypes'
    BY <1>10 DEF parse_command_signal
  <2> QED
    BY <2>1, <2>2, <2>3, <2>4, <2>5
<1>11. CASE parse_command_terminate
  <2>1. ThreadTypes'
    BY <1>11 DEF parse_command_terminate, close_pipe
  <2>2. ChildTypes'
    BY <1>11 DEF parse_command_terminate, close_pipe
  <2>3. FlagTypes'
    BY <1>11 DEF parse_command_terminate, close_pipe
  <2>4. PipeTypes'
    <3>1. control' \in Seq(Command)
      BY <1>11 DEF parse_command_terminate
    <3>2. pipe' \in BOOLEAN /\ stdin' \in BOOLEAN
      BY <1>11 DEF parse_command_terminate, close_pipe
    <3>3. end' \in [Child -> {"none", "current", "closed"}]
      BY <1>11 DEF parse_command_terminate, close_pipe
    <3> QED
      BY <3>1, <3>2, <3>3
  <2>5. FileTypes'
    BY <1>11 DEF parse_command_terminate, close_pipe
  <2> QED
    BY <2>1, <2>2, <2>3, <2>4, <2>5
<1>12. CASE terminate_child_signal
  <2>1. ThreadTypes'
    BY <1>12 DEF terminate_child_signal
  <2>2. ChildTypes'
    BY <1>12 DEF terminate_child_signal
  <2>3. FlagTypes'
    BY <1>12 DEF terminate_child_signal
  <2>4. PipeTypes'
    BY <1>12 DEF terminate_child_signal
  <2>5. FileTypes'
    BY <1>12 DEF terminate_child_signal
  <2> QED
    BY <2>1, <2>2, <2>3, <2>4, <2>5
<1>13. CASE terminate_child_wait
  <2>1. ThreadTypes'
    BY <1>13 DEF terminate_child_wait
  <2>2. ChildTypes'
    BY <1>13 DEF terminate_child_wait
  <2>3. FlagTypes'
    BY <1>13 DEF terminate_child_wait
  <2>4. PipeTypes'
    BY <1>13 DEF terminate_child_wait
  <2>5. FileTypes'
    BY <1>13 DEF terminate_child_wait
  <2> QED
    BY <2>1, <2>2, <2>3, <2>4, <2>5
<1>14. CASE terminate_child_check
  <2>1. ThreadTypes'
    <3>1. gaveup' = gaveup \/ gaveup' = gaveup \cup {cur}
      BY <1>14 DEF terminate_child_check
    <3>2. pc' \in Labels /\ cur' \in Child /\ events' \in 0..MaxEvents
      BY <1>14 DEF terminate_child_check
    <3>3. attempt' \in 1..Attempts
      BY <1>14 DEF terminate_child_check
    <3> QED
      BY <3>1, <3>2, <3>3
  <2>2. ChildTypes'
    BY <1>14 DEF terminate_child_check
  <2>3. FlagTypes'
    BY <1>14 DEF terminate_child_check
  <2>4. PipeTypes'
    BY <1>14 DEF terminate_child_check
  <2>5. FileTypes'
    BY <1>14 DEF terminate_child_check
  <2> QED
    BY <2>1, <2>2, <2>3, <2>4, <2>5
<1>15. CASE terminate_child_reset
  <2>1. ThreadTypes'
    BY <1>15 DEF terminate_child_reset, terminate_log, unignore, loop_end
  <2>2. ChildTypes'
    BY <1>15 DEF terminate_child_reset, terminate_log, unignore, loop_end
  <2>3. FlagTypes'
    BY <1>15 DEF terminate_child_reset, terminate_log, unignore, loop_end
  <2>4. PipeTypes'
    BY <1>15 DEF terminate_child_reset, terminate_log, unignore, loop_end
  <2>5. FileTypes'
    BY <1>15 DEF terminate_child_reset, terminate_log, unignore, loop_end
  <2> QED
    BY <2>1, <2>2, <2>3, <2>4, <2>5
<1>16. CASE handle_alarm
  <2>1. ThreadTypes'
    BY <1>16 DEF handle_alarm, check_suspension, Lift, Wakeup, Restart, interrupts, write_command
  <2>2. ChildTypes'
    <3>1. starts' \in [Child -> 0..CHILD_MAXSTARTS + 1]
      BY <1>16 DEF handle_alarm, check_suspension
    <3>2. suspended' \in [Child -> BOOLEAN]
      <4>1. \A c \in Child : check_suspension(c).suspended \in BOOLEAN
        <5>1. \A c \in Child : check_suspension(c).suspended =
                (IF suspended[c] THEN ~Lift(c) ELSE starts[c] > CHILD_MAXSTARTS)
          BY DEF check_suspension
        <5>2. \A c \in Child : (~Lift(c)) \in BOOLEAN /\ (starts[c] > CHILD_MAXSTARTS) \in BOOLEAN
          BY DEF Lift
        <5> QED
          BY <5>1, <5>2, Zenon
      <4> QED
        BY <1>16, <4>1, Zenon DEF handle_alarm
    <3>3. suspended_periods' \in [Child -> 0..CHILD_SUSPENSION - 1]
      BY <1>16 DEF handle_alarm, check_suspension, Lift
    <3> QED
      BY <1>16, <3>1, <3>2, <3>3 DEF handle_alarm
  <2>3. FlagTypes'
    BY <1>16 DEF handle_alarm, check_suspension, Lift, Wakeup, Restart, interrupts, write_command
  <2>4. PipeTypes'
    <3>1. control' = control \/ control' = Queued(control, "w")
      BY <1>16 DEF handle_alarm, write_command
    <3>2. Queued(control, "w") \in Seq(Command)
      BY <1>0, WriteCommandType
    <3> QED
      BY <1>16, <3>1, <3>2 DEF handle_alarm
  <2>5. FileTypes'
    BY <1>16 DEF handle_alarm, check_suspension, Lift, Wakeup, Restart, interrupts, write_command
  <2> QED
    BY <2>1, <2>2, <2>3, <2>4, <2>5
<1>17. CASE handle_chld
  <2>1. ThreadTypes'
    BY <1>17 DEF handle_chld, interrupts, write_command
  <2>2. ChildTypes'
    BY <1>17 DEF handle_chld, interrupts, write_command
  <2>3. FlagTypes'
    BY <1>17 DEF handle_chld, interrupts, write_command
  <2>4. PipeTypes'
    <3>1. control' = control \/ control' = Queued(control, "w")
      BY <1>17 DEF handle_chld, write_command
    <3>2. Queued(control, "w") \in Seq(Command)
      BY <1>0, WriteCommandType
    <3> QED
      BY <1>17, <3>1, <3>2 DEF handle_chld
  <2>5. FileTypes'
    BY <1>17 DEF handle_chld, interrupts, write_command
  <2> QED
    BY <2>1, <2>2, <2>3, <2>4, <2>5
<1>18. CASE AlarmDue
  <2>1. ThreadTypes'
    BY <1>18 DEF AlarmDue
  <2>2. ChildTypes'
    BY <1>18 DEF AlarmDue
  <2>3. FlagTypes'
    BY <1>18 DEF AlarmDue
  <2>4. PipeTypes'
    BY <1>18 DEF AlarmDue
  <2>5. FileTypes'
    BY <1>18 DEF AlarmDue
  <2> QED
    BY <2>1, <2>2, <2>3, <2>4, <2>5
<1>19. CASE poll_nothing
  <2>1. ThreadTypes'
    BY <1>19 DEF poll_nothing
  <2>2. ChildTypes'
    BY <1>19 DEF poll_nothing
  <2>3. FlagTypes'
    BY <1>19 DEF poll_nothing
  <2>4. PipeTypes'
    BY <1>19 DEF poll_nothing
  <2>5. FileTypes'
    BY <1>19 DEF poll_nothing
  <2> QED
    BY <2>1, <2>2, <2>3, <2>4, <2>5
<1>20. CASE handle_hup
  <2>1. ThreadTypes'
    BY <1>20 DEF handle_hup, Outside, interrupts, write_command
  <2>2. ChildTypes'
    BY <1>20 DEF handle_hup, Outside, interrupts, write_command
  <2>3. FlagTypes'
    BY <1>20 DEF handle_hup, Outside, interrupts, write_command
  <2>4. PipeTypes'
    <3>1. control' = control \/ control' = Queued(control, "w")
      BY <1>20 DEF handle_hup, write_command
    <3>2. Queued(control, "w") \in Seq(Command)
      BY <1>0, WriteCommandType
    <3> QED
      BY <1>20, <3>1, <3>2 DEF handle_hup
  <2>5. FileTypes'
    BY <1>20 DEF handle_hup, Outside, interrupts, write_command
  <2> QED
    BY <2>1, <2>2, <2>3, <2>4, <2>5
<1>21. CASE handle_term
  <2>1. ThreadTypes'
    BY <1>21 DEF handle_term, Outside, interrupts, write_command
  <2>2. ChildTypes'
    BY <1>21 DEF handle_term, Outside, interrupts, write_command
  <2>3. FlagTypes'
    BY <1>21 DEF handle_term, Outside, interrupts, write_command
  <2>4. PipeTypes'
    <3>1. control' = control \/ control' = Queued(control, "x")
      BY <1>21 DEF handle_term, write_command
    <3>2. Queued(control, "x") \in Seq(Command)
      BY <1>0, WriteCommandType
    <3> QED
      BY <1>21, <3>1, <3>2 DEF handle_term
  <2>5. FileTypes'
    BY <1>21 DEF handle_term, Outside, interrupts, write_command
  <2> QED
    BY <2>1, <2>2, <2>3, <2>4, <2>5
<1>22. ASSUME NEW p \in Pids, ChildExit(p) PROVE TypeOK'
  <2>1. ThreadTypes'
    BY <1>22 DEF ChildExit
  <2>2. ChildTypes'
    BY <1>22 DEF ChildExit
  <2>3. FlagTypes'
    BY <1>22 DEF ChildExit
  <2>4. PipeTypes'
    BY <1>22 DEF ChildExit
  <2>5. FileTypes'
    BY <1>22 DEF ChildExit
  <2> QED
    BY <2>1, <2>2, <2>3, <2>4, <2>5
<1>23. ASSUME NEW cmd \in Command, SendCommand(cmd) PROVE TypeOK'
  <2>1. ThreadTypes'
    BY <1>23 DEF SendCommand, Outside
  <2>2. ChildTypes'
    BY <1>23 DEF SendCommand, Outside
  <2>3. FlagTypes'
    BY <1>23 DEF SendCommand, Outside
  <2>4. PipeTypes'
    BY <1>23, <1>0, WriteCommandType DEF SendCommand, Outside
  <2>5. FileTypes'
    BY <1>23 DEF SendCommand, Outside
  <2> QED
    BY <2>1, <2>2, <2>3, <2>4, <2>5
<1>24. CASE Edit
  <2>1. ThreadTypes'
    BY <1>24 DEF Edit, Outside
  <2>2. ChildTypes'
    BY <1>24 DEF Edit, Outside
  <2>3. FlagTypes'
    BY <1>24 DEF Edit, Outside
  <2>4. PipeTypes'
    BY <1>24 DEF Edit, Outside
  <2>5. FileTypes'
    <3>1. up' \in BOOLEAN
      BY <1>24 DEF Edit
    <3>2. files' \in [Child -> {"none", "bad", "ok"}]
      BY <1>24 DEF Edit
    <3> QED
      BY <1>24, <3>1, <3>2 DEF Edit
  <2> QED
    BY <2>1, <2>2, <2>3, <2>4, <2>5
<1>25. CASE UNCHANGED vars
  <2>1. ThreadTypes'
    BY <1>25 DEF vars
  <2>2. ChildTypes'
    BY <1>25 DEF vars
  <2>3. FlagTypes'
    BY <1>25 DEF vars
  <2>4. PipeTypes'
    BY <1>25 DEF vars
  <2>5. FileTypes'
    BY <1>25 DEF vars
  <2> QED
    BY <2>1, <2>2, <2>3, <2>4, <2>5
<1> QED
  BY <1>1, <1>2, <1>3, <1>4, <1>5, <1>6, <1>7, <1>8, <1>9, <1>10, <1>11, <1>12,
     <1>13, <1>14, <1>15, <1>16, <1>17, <1>18, <1>19, <1>20, <1>21, <1>22,
     <1>23, <1>24, <1>25
  DEF Next, Thread, World, Finished

\* The variables of the monitor always have the types of TypeOK.
THEOREM TypeCorrect == Spec => []TypeOK
<1>1. Init => TypeOK
  BY TypeInit
<1>2. TypeOK /\ [Next]_vars => TypeOK'
  BY TypeStep
<1> QED
  BY <1>1, <1>2, PTL DEF Spec

-----------------------------------------------------------------------------
(* The suspension timer *)

\* Four actions touch the timer or a suspension; every other leaves both alone.
LEMMA TimerFrame ==
    ASSUME [Next]_vars
    PROVE  \/ start_child_timer \/ terminate_child_reset
           \/ handle_alarm \/ AlarmDue
           \/ UNCHANGED <<suspended, flag_timer, alarm>>
  BY DEF Next, Thread, World, Finished, vars, child_vars, flag_vars, timer_vars,
         setup_monitor, Reap, start_children, create_procattr_log,
         create_procattr_run, start_child_count, start_child_fork,
         start_child_fail, parse_command_signal, parse_command_terminate,
         terminate_child_signal, terminate_child_wait, terminate_child_check,
         handle_chld, poll_nothing, handle_hup, handle_term, ChildExit,
         SendCommand, Edit

\* A child that check_suspension leaves suspended asks for another period.
LEMMA SuspendedRestarts ==
    ASSUME TypeOK, NEW c \in Child, check_suspension(c).suspended
    PROVE  Restart(c)
<1>1. check_suspension(c).suspended =
        (IF suspended[c] THEN ~Lift(c) ELSE starts[c] > CHILD_MAXSTARTS)
  BY DEF check_suspension
<1>2. IF suspended[c] THEN ~Lift(c) ELSE starts[c] > CHILD_MAXSTARTS
  BY <1>1, Zenon
<1>3. starts[c] > CHILD_MAXSTARTS => starts[c] > 0
  BY LimitAssumption DEF TypeOK, ChildTypes
<1> QED
  BY <1>2, <1>3, Zenon DEF Restart

\* A step leaves no suspended child without timer (handle_alarm, start_child).
LEMMA TimerStep == TypeOK /\ SuspensionTimed /\ [Next]_vars => SuspensionTimed'
<1> SUFFICES ASSUME TypeOK, SuspensionTimed, [Next]_vars PROVE SuspensionTimed'
  OBVIOUS
<1>1. CASE start_child_timer
  BY <1>1 DEF start_child_timer, SuspensionTimed, child_vars
<1>2. CASE terminate_child_reset
  <2>1. \A c \in Child : suspended'[c] => suspended[c]
    BY <1>2 DEF terminate_child_reset, TypeOK, ChildTypes
  <2>2. UNCHANGED <<flag_timer, alarm>>
    BY <1>2 DEF terminate_child_reset, timer_vars
  <2> QED
    BY <2>1, <2>2 DEF SuspensionTimed
<1>3. CASE handle_alarm
  <2>1. flag_timer
    BY <1>3 DEF handle_alarm, SuspensionTimed
  <2>2. flag_timer' <=> \E c \in Child : Restart(c)
    BY <1>3, <2>1 DEF handle_alarm
  <2>3. \A c \in Child : suspended'[c] => Restart(c)
    BY <1>3, SuspendedRestarts DEF handle_alarm
  <2>4. flag_timer' <=> alarm' # "off"
    BY <1>3, <2>2 DEF handle_alarm
  <2> QED
    BY <2>2, <2>3, <2>4 DEF SuspensionTimed
<1>4. CASE AlarmDue
  BY <1>4 DEF AlarmDue, SuspensionTimed, child_vars, flag_vars
<1>5. CASE UNCHANGED <<suspended, flag_timer, alarm>>
  BY <1>5 DEF SuspensionTimed
<1> QED
  BY <1>1, <1>2, <1>3, <1>4, <1>5, TimerFrame

\* A suspended child always has a running timer that will lift its suspension.
THEOREM SuspensionIsTimed == Spec => []SuspensionTimed
<1>1. Init => SuspensionTimed
  BY DEF Init, SuspensionTimed
<1>2. TypeOK /\ SuspensionTimed /\ [Next]_vars => SuspensionTimed'
  BY TimerStep
<1> QED
  BY <1>1, <1>2, TypeCorrect, PTL DEF Spec

-----------------------------------------------------------------------------
(* Attempts that no period counts *)

\* A child that is suspended is tried at most once more, by a start_child under
\* way; and the attempt under way is the first when no timer runs for it.
UntimedInv ==
    /\ UntimedAttempts
    /\ \A c \in Child : suspended[c] => starts[c] <= 1
    /\ pc = "count" /\ ~flag_timer => starts[cur] = 0
    /\ pc \in {"timer", "count"} /\ suspended[cur] => starts[cur] = 0

\* What check_suspension makes of the attempts it counts.
LEMMA CheckedStarts ==
    ASSUME TypeOK, NEW c \in Child
    PROVE  /\ suspended[c] => check_suspension(c).starts = starts[c]
           /\ ~suspended[c] => check_suspension(c).starts = 0
           /\ ~Restart(c) /\ ~suspended[c] => starts[c] = 0
<1>1. check_suspension(c).starts = (IF suspended[c] THEN starts[c] ELSE 0)
  BY DEF check_suspension
<1>2. ~Restart(c) /\ ~suspended[c] => starts[c] = 0
  BY DEF Restart, TypeOK, ChildTypes
<1> HIDE DEF check_suspension
<1> QED
  BY <1>1, <1>2, Zenon

\* Everything else leaves the attempts, the suspensions and the timer alone.
LEMMA UntimedFrame ==
    ASSUME [Next]_vars
    PROVE  \/ create_procattr_log \/ create_procattr_run
           \/ start_child_timer \/ start_child_count
           \/ terminate_child_reset \/ handle_alarm
           \/ /\ UNCHANGED <<starts, suspended, flag_timer>>
              /\ UNCHANGED <<pc, cur>> \/ pc' \notin {"timer", "count"}
  BY DEF Next, Thread, World, Finished, vars, thread_vars, child_vars, flag_vars,
         timer_vars, goto, leave, started, loop_end, terminate_log, interrupts,
         write_command, setup_monitor, Reap, start_children, start_child_fork,
         start_child_fail, parse_command_signal, parse_command_terminate,
         terminate_child_signal, terminate_child_wait, terminate_child_check,
         AlarmDue, handle_chld, poll_nothing, handle_hup, handle_term,
         ChildExit, SendCommand, Edit

\* Every step leaves at most one attempt of a child untimed (handle_alarm).
LEMMA UntimedStep == TypeOK /\ UntimedInv /\ [Next]_vars => UntimedInv'
<1> SUFFICES ASSUME TypeOK, UntimedInv, [Next]_vars PROVE UntimedInv'
  OBVIOUS
<1> USE LimitAssumption
    DEF UntimedInv, UntimedAttempts, TypeOK, ThreadTypes, ChildTypes, child_vars,
        flag_vars, timer_vars, goto, leave
<1>1. CASE create_procattr_log \/ create_procattr_run
  BY <1>1 DEF create_procattr_log, create_procattr_run, WantLog, WantRun, start
<1>2. CASE start_child_timer
  BY <1>2 DEF start_child_timer
<1>3. CASE start_child_count
  BY <1>3 DEF start_child_count, started
<1>4. CASE terminate_child_reset
  BY <1>4 DEF terminate_child_reset, terminate_log, loop_end
<1>5. CASE handle_alarm
  <2>1. /\ \A c \in Child : /\ starts'[c] = check_suspension(c).starts
                           /\ suspended'[c] = check_suspension(c).suspended
        /\ flag_timer' <=> flag_timer /\ \E c \in Child : Restart(c)
        /\ UNCHANGED cur
        /\ pc' \in {pc, "check", "died"}
    BY <1>5 DEF handle_alarm, interrupts, write_command, thread_vars
  <2>2. ASSUME NEW c \in Child PROVE starts'[c] <= 1 /\ starts'[c] \in {0, starts[c]}
    <3>1. suspended[c] \in BOOLEAN /\ starts[c] \in Nat
      OBVIOUS
    <3> QED
      BY <2>1, <3>1, CheckedStarts
  <2>3. ASSUME NEW c \in Child, ~\E d \in Child : Restart(d), starts'[c] # 0
        PROVE  suspended[c]
    BY <2>1, <2>3, CheckedStarts
  <2>4. ASSUME pc' = "count", ~flag_timer' PROVE starts'[cur] = 0
    <3>1. CASE ~flag_timer
      BY <2>1, <2>2, <2>4, <3>1
    <3>2. CASE suspended[cur]
      BY <2>1, <2>2, <2>4, <3>2
    <3> QED
      BY <2>1, <2>3, <2>4, <3>1, <3>2
  <2>5. ASSUME pc' \in {"timer", "count"}, suspended'[cur] PROVE starts'[cur] = 0
    <3>1. CASE suspended[cur]
      BY <2>1, <2>2, <2>5, <3>1
    <3>2. CASE ~suspended[cur]
      BY <2>1, <3>2, CheckedStarts
    <3> QED
      BY <3>1, <3>2
  <2> QED
    BY <2>1, <2>2, <2>4, <2>5
<1>6. CASE /\ UNCHANGED <<starts, suspended, flag_timer>>
           /\ UNCHANGED <<pc, cur>> \/ pc' \notin {"timer", "count"}
  BY <1>6
<1> QED
  BY <1>1, <1>2, <1>3, <1>4, <1>5, <1>6, UntimedFrame

\* A child has at most one attempt that no period of the timer will count.
THEOREM UntimedAttemptsAreFew == Spec => []UntimedAttempts
<1>1. Init => UntimedInv
  BY DEF Init, UntimedInv, UntimedAttempts
<1>2. TypeOK /\ UntimedInv /\ [Next]_vars => UntimedInv'
  BY UntimedStep
<1>3. UntimedInv => UntimedAttempts
  BY DEF UntimedInv
<1> QED
  BY <1>1, <1>2, <1>3, TypeCorrect, PTL DEF Spec

-----------------------------------------------------------------------------
(* The children *)

\* What the handlers, the world and the commands that terminate nothing do to
\* the thread and to what it knows of its children: end a poll, or the monitor.
quiet ==
    /\ UNCHANGED <<pid, procs, gaveup, flag_stop, stdin, pipe>>
    /\ \/ UNCHANGED <<pc, cur>>
       \/ pc = "poll" /\ pc' = "check" /\ cur' = cur
       \/ pc' = "died"

\* The steps that touch neither the children nor what is known of them.
LEMMA QuietSteps ==
    ASSUME \/ handle_alarm \/ handle_chld \/ AlarmDue \/ poll_nothing
           \/ parse_command_signal \/ handle_hup \/ handle_term
           \/ (\E cmd \in Command : SendCommand(cmd)) \/ Edit
           \/ UNCHANGED vars
    PROVE  quiet
  BY DEF quiet, vars, thread_vars, flag_vars, pipe_vars, goto, interrupts,
         write_command, handle_alarm, handle_chld, AlarmDue, poll_nothing,
         parse_command_signal, handle_hup, handle_term, SendCommand, Edit

\* Every step preserves the invariant.
LEMMA ChildrenStep == TypeOK /\ IInv /\ [Next]_vars => IInv'
<1> SUFFICES ASSUME TypeOK, IInv, [Next]_vars PROVE IInv'
  OBVIOUS
<1> USE PidAssumption
    DEF IInv, Settled, Starting, Terminating, Child, goto, leave, TypeOK,
        ThreadTypes, ChildTypes, thread_vars, flag_vars, pipe_vars
<1>1. CASE setup_monitor
  <2>1. ChildrenTracked'
    BY <1>1 DEF setup_monitor, ChildrenTracked
  <2>2. StartingInv'
    BY <1>1 DEF setup_monitor, StartingInv
  <2>3. TerminatingInv'
    BY <1>1 DEF setup_monitor, TerminatingInv
  <2>4. StopInv'
    BY <1>1 DEF setup_monitor, StopInv
  <2>5. PipeInv'
    BY <1>1 DEF setup_monitor, PipeInv
  <2>6. AbortsOnlyOnSurvivor'
    BY <1>1 DEF setup_monitor, AbortsOnlyOnSurvivor
  <2> QED
    BY <2>1, <2>2, <2>3, <2>4, <2>5, <2>6
<1>2. ASSUME NEW p \in Pids, Reap(p) PROVE IInv'
  <2>1. ChildrenTracked'
    BY <1>2 DEF Reap, ChildrenTracked
  <2>2. StartingInv'
    BY <1>2 DEF Reap, StartingInv
  <2>3. TerminatingInv'
    BY <1>2 DEF Reap, TerminatingInv
  <2>4. StopInv'
    BY <1>2 DEF Reap, StopInv
  <2>5. PipeInv'
    BY <1>2 DEF Reap, PipeInv
  <2>6. AbortsOnlyOnSurvivor'
    BY <1>2 DEF Reap, AbortsOnlyOnSurvivor
  <2> QED
    BY <2>1, <2>2, <2>3, <2>4, <2>5, <2>6
<1>3. CASE start_children
  <2>1. ChildrenTracked'
    BY <1>3 DEF start_children, ChildrenTracked
  <2>2. StartingInv'
    BY <1>3 DEF start_children, StartingInv
  <2>3. TerminatingInv'
    BY <1>3 DEF start_children, TerminatingInv
  <2>4. StopInv'
    BY <1>3 DEF start_children, StopInv
  <2>5. PipeInv'
    BY <1>3 DEF start_children, PipeInv
  <2>6. AbortsOnlyOnSurvivor'
    BY <1>3 DEF start_children, AbortsOnlyOnSurvivor
  <2> QED
    BY <2>1, <2>2, <2>3, <2>4, <2>5, <2>6
<1>4. CASE create_procattr_log
  <2>1. ChildrenTracked'
    BY <1>4 DEF create_procattr_log, start, create_pipe, WantLog, ChildrenTracked
  <2>2. StartingInv'
    BY <1>4 DEF create_procattr_log, start, create_pipe, WantLog, StartingInv
  <2>3. TerminatingInv'
    BY <1>4 DEF create_procattr_log, start, create_pipe, WantLog, TerminatingInv
  <2>4. StopInv'
    BY <1>4 DEF create_procattr_log, start, create_pipe, WantLog, StopInv
  <2>5. PipeInv'
    BY <1>4 DEF create_procattr_log, start, create_pipe, WantLog, PipeInv
  <2>6. AbortsOnlyOnSurvivor'
    BY <1>4 DEF create_procattr_log, start, create_pipe, WantLog, AbortsOnlyOnSurvivor
  <2> QED
    BY <2>1, <2>2, <2>3, <2>4, <2>5, <2>6
<1>5. CASE create_procattr_run
  <2>1. ChildrenTracked'
    BY <1>5 DEF create_procattr_run, start, WantRun, ChildrenTracked
  <2>2. StartingInv'
    BY <1>5 DEF create_procattr_run, start, WantRun, StartingInv
  <2>3. TerminatingInv'
    BY <1>5 DEF create_procattr_run, start, WantRun, TerminatingInv
  <2>4. StopInv'
    BY <1>5 DEF create_procattr_run, start, WantRun, StopInv
  <2>5. PipeInv'
    BY <1>5 DEF create_procattr_run, start, WantRun, PipeInv
  <2>6. AbortsOnlyOnSurvivor'
    BY <1>5 DEF create_procattr_run, start, WantRun, AbortsOnlyOnSurvivor, StopInv, PipeInv
  <2> QED
    BY <2>1, <2>2, <2>3, <2>4, <2>5, <2>6
<1>6. CASE start_child_timer
  <2>1. ChildrenTracked'
    BY <1>6 DEF start_child_timer, ChildrenTracked
  <2>2. StartingInv'
    BY <1>6 DEF start_child_timer, StartingInv
  <2>3. TerminatingInv'
    BY <1>6 DEF start_child_timer, TerminatingInv
  <2>4. StopInv'
    BY <1>6 DEF start_child_timer, StopInv
  <2>5. PipeInv'
    BY <1>6 DEF start_child_timer, PipeInv
  <2>6. AbortsOnlyOnSurvivor'
    BY <1>6 DEF start_child_timer, AbortsOnlyOnSurvivor
  <2> QED
    BY <2>1, <2>2, <2>3, <2>4, <2>5, <2>6
<1>7. CASE start_child_count
  <2>1. ChildrenTracked'
    BY <1>7 DEF start_child_count, started, ChildrenTracked
  <2>2. StartingInv'
    BY <1>7 DEF start_child_count, started, StartingInv
  <2>3. TerminatingInv'
    BY <1>7 DEF start_child_count, started, TerminatingInv
  <2>4. StopInv'
    BY <1>7 DEF start_child_count, started, StopInv
  <2>5. PipeInv'
    BY <1>7 DEF start_child_count, started, PipeInv
  <2>6. AbortsOnlyOnSurvivor'
    BY <1>7 DEF start_child_count, started, AbortsOnlyOnSurvivor
  <2> QED
    BY <2>1, <2>2, <2>3, <2>4, <2>5, <2>6
<1>8. CASE start_child_fork
  <2>1. ChildrenTracked'
    BY <1>8 DEF start_child_fork, started, ChildrenTracked, StartingInv
  <2>2. StartingInv'
    BY <1>8 DEF start_child_fork, started, StartingInv
  <2>3. TerminatingInv'
    BY <1>8 DEF start_child_fork, started, TerminatingInv
  <2>4. StopInv'
    BY <1>8 DEF start_child_fork, started, StopInv
  <2>5. PipeInv'
    BY <1>8 DEF start_child_fork, started, PipeInv, StartingInv
  <2>6. AbortsOnlyOnSurvivor'
    BY <1>8 DEF start_child_fork, started, AbortsOnlyOnSurvivor
  <2> QED
    BY <2>1, <2>2, <2>3, <2>4, <2>5, <2>6
<1>9. CASE start_child_fail
  <2>1. ChildrenTracked'
    BY <1>9 DEF start_child_fail, started, ChildrenTracked
  <2>2. StartingInv'
    BY <1>9 DEF start_child_fail, started, StartingInv
  <2>3. TerminatingInv'
    BY <1>9 DEF start_child_fail, started, TerminatingInv
  <2>4. StopInv'
    BY <1>9 DEF start_child_fail, started, StopInv
  <2>5. PipeInv'
    BY <1>9 DEF start_child_fail, started, PipeInv
  <2>6. AbortsOnlyOnSurvivor'
    BY <1>9 DEF start_child_fail, started, AbortsOnlyOnSurvivor
  <2> QED
    BY <2>1, <2>2, <2>3, <2>4, <2>5, <2>6
<1>10. CASE parse_command_terminate
  <2>1. ChildrenTracked'
    BY <1>10 DEF parse_command_terminate, close_pipe, ChildrenTracked
  <2>2. StartingInv'
    BY <1>10 DEF parse_command_terminate, close_pipe, StartingInv
  <2>3. TerminatingInv'
    BY <1>10 DEF parse_command_terminate, close_pipe, TerminatingInv
  <2>4. StopInv'
    BY <1>10 DEF parse_command_terminate, close_pipe, StopInv
  <2>5. PipeInv'
    BY <1>10 DEF parse_command_terminate, close_pipe, PipeInv
  <2>6. AbortsOnlyOnSurvivor'
    BY <1>10 DEF parse_command_terminate, close_pipe, AbortsOnlyOnSurvivor
  <2> QED
    BY <2>1, <2>2, <2>3, <2>4, <2>5, <2>6
<1>11. CASE terminate_child_signal
  <2>1. ChildrenTracked'
    BY <1>11 DEF terminate_child_signal, ChildrenTracked
  <2>2. StartingInv'
    BY <1>11 DEF terminate_child_signal, StartingInv
  <2>3. TerminatingInv'
    BY <1>11 DEF terminate_child_signal, TerminatingInv
  <2>4. StopInv'
    BY <1>11 DEF terminate_child_signal, StopInv
  <2>5. PipeInv'
    BY <1>11 DEF terminate_child_signal, PipeInv
  <2>6. AbortsOnlyOnSurvivor'
    BY <1>11 DEF terminate_child_signal, AbortsOnlyOnSurvivor
  <2> QED
    BY <2>1, <2>2, <2>3, <2>4, <2>5, <2>6
<1>12. CASE terminate_child_wait
  <2>1. ChildrenTracked'
    BY <1>12 DEF terminate_child_wait, ChildrenTracked
  <2>2. StartingInv'
    BY <1>12 DEF terminate_child_wait, StartingInv
  <2>3. TerminatingInv'
    BY <1>12 DEF terminate_child_wait, TerminatingInv
  <2>4. StopInv'
    BY <1>12 DEF terminate_child_wait, StopInv
  <2>5. PipeInv'
    BY <1>12 DEF terminate_child_wait, PipeInv
  <2>6. AbortsOnlyOnSurvivor'
    BY <1>12 DEF terminate_child_wait, AbortsOnlyOnSurvivor
  <2> QED
    BY <2>1, <2>2, <2>3, <2>4, <2>5, <2>6
<1>13. CASE terminate_child_check
  <2>1. ChildrenTracked'
    BY <1>13 DEF terminate_child_check, ChildrenTracked
  <2>2. StartingInv'
    BY <1>13 DEF terminate_child_check, StartingInv
  <2>3. TerminatingInv'
    BY <1>13 DEF terminate_child_check, TerminatingInv
  <2>4. StopInv'
    BY <1>13 DEF terminate_child_check, StopInv
  <2>5. PipeInv'
    BY <1>13 DEF terminate_child_check, PipeInv
  <2>6. AbortsOnlyOnSurvivor'
    BY <1>13 DEF terminate_child_check, AbortsOnlyOnSurvivor
  <2> QED
    BY <2>1, <2>2, <2>3, <2>4, <2>5, <2>6
<1>14. CASE terminate_child_reset
  <2>1. ChildrenTracked'
    BY <1>14 DEF terminate_child_reset, terminate_log, loop_end, ChildrenTracked
  <2>2. StartingInv'
    BY <1>14 DEF terminate_child_reset, terminate_log, loop_end, StartingInv
  <2>3. TerminatingInv'
    BY <1>14 DEF terminate_child_reset, terminate_log, loop_end, TerminatingInv
  <2>4. StopInv'
    BY <1>14 DEF terminate_child_reset, terminate_log, loop_end, StopInv
  <2>5. PipeInv'
    BY <1>14 DEF terminate_child_reset, terminate_log, loop_end, PipeInv, TerminatingInv
  <2>6. AbortsOnlyOnSurvivor'
    BY <1>14 DEF terminate_child_reset, terminate_log, loop_end, AbortsOnlyOnSurvivor
  <2> QED
    BY <2>1, <2>2, <2>3, <2>4, <2>5, <2>6
<1>15. ASSUME NEW p \in Pids, ChildExit(p) PROVE IInv'
  <2>1. ChildrenTracked'
    BY <1>15 DEF ChildExit, ChildrenTracked
  <2>2. StartingInv'
    BY <1>15 DEF ChildExit, StartingInv
  <2>3. TerminatingInv'
    BY <1>15 DEF ChildExit, TerminatingInv
  <2>4. StopInv'
    BY <1>15 DEF ChildExit, StopInv
  <2>5. PipeInv'
    BY <1>15 DEF ChildExit, PipeInv
  <2>6. AbortsOnlyOnSurvivor'
    BY <1>15 DEF ChildExit, AbortsOnlyOnSurvivor
  <2> QED
    BY <2>1, <2>2, <2>3, <2>4, <2>5, <2>6
<1>16. CASE quiet
  <2>1. ChildrenTracked'
    BY <1>16 DEF quiet, ChildrenTracked
  <2>2. StartingInv'
    BY <1>16 DEF quiet, StartingInv
  <2>3. TerminatingInv'
    BY <1>16 DEF quiet, TerminatingInv
  <2>4. StopInv'
    BY <1>16 DEF quiet, StopInv
  <2>5. PipeInv'
    BY <1>16 DEF quiet, PipeInv
  <2>6. AbortsOnlyOnSurvivor'
    BY <1>16 DEF quiet, AbortsOnlyOnSurvivor
  <2> QED
    BY <2>1, <2>2, <2>3, <2>4, <2>5, <2>6
<1> QED
  BY <1>1, <1>2, <1>3, <1>4, <1>5, <1>6, <1>7, <1>8, <1>9, <1>10, <1>11, <1>12,
     <1>13, <1>14, <1>15, <1>16, QuietSteps
  DEF Next, Thread, World, Finished

\* The invariant behind the theorems that follow.
LEMMA ChildrenInvariant == Spec => []IInv
<1>1. Init => IInv
  BY PidAssumption
  DEF Init, IInv, ChildrenTracked, StartingInv, TerminatingInv, StopInv,
      PipeInv, AbortsOnlyOnSurvivor, Starting, Terminating, Settled, Child
<1>2. TypeOK /\ IInv /\ [Next]_vars => IInv'
  BY ChildrenStep
<1> QED
  BY <1>1, <1>2, TypeCorrect, PTL DEF Spec

\* The monitor knows exactly the processes it has not reaped, one per program.
THEOREM ChildrenAreTracked == Spec => []ChildrenTracked
<1>1. IInv => ChildrenTracked
  BY DEF IInv
<1> QED
  BY <1>1, ChildrenInvariant, PTL

\* Only a log that survived SIGKILL makes the monitor fail an assertion.
THEOREM AbortNeedsSurvivor == Spec => []AbortsOnlyOnSurvivor
<1>1. IInv => AbortsOnlyOnSurvivor
  BY DEF IInv
<1> QED
  BY <1>1, ChildrenInvariant, PTL

\* A monitor told to exit leaves only children behind that survived SIGKILL.
THEOREM ExitIsClean == Spec => []CleanExit
<1>1. IInv => CleanExit
  BY PidAssumption
  DEF IInv, ChildrenTracked, TerminatingInv, Settled, CleanExit
<1> QED
  BY <1>1, ChildrenInvariant, PTL

-----------------------------------------------------------------------------
(* The pipe between run and log *)

\* What a running log implies about run: its output is forwarded, both when it
\* is there already and when it is about to be started, and each of the two
\* that was not given up is attached to the pipe that is open.
ForwardInv ==
    /\ pid["run"] # NoPid /\ pid["log"] # NoPid => flag_forward
    /\ pc \in Starting /\ cur = "log" => pid["run"] = NoPid \/ flag_forward
    /\ pc \in Starting /\ cur = "run" => (flag_forward <=> pid["log"] # NoPid)
    /\ gaveup = {} /\ pid["run"] # NoPid /\ pid["log"] # NoPid
         => end["run"] = end["log"]
    /\ \A c \in Child :
         /\ pid[c] # NoPid /\ c \notin gaveup
         /\ c = "run" => flag_forward
         /\ pc \notin Terminating \cup {"exited", "died"}
         => end[c] = "current"

\* ForwardInv depends on these variables only.
LEMMA ForwardFrame ==
    ASSUME [Next]_vars
    PROVE  \/ \E p \in Pids : Reap(p)
           \/ create_procattr_log \/ create_procattr_run \/ start_child_count
           \/ start_child_fork \/ start_child_fail \/ parse_command_terminate
           \/ terminate_child_signal \/ terminate_child_wait
           \/ terminate_child_check \/ terminate_child_reset
           \/ /\ UNCHANGED <<pid, gaveup, flag_forward, end>>
              /\ \/ UNCHANGED <<pc, cur>>
                 \/ pc' = "died"
                 \/ pc \notin Terminating \cup {"exited", "died"}
                    /\ pc' \notin Starting
                 \/ pc \in Starting /\ pc' \in Starting /\ cur' = cur
  BY DEF Next, Thread, World, Finished, vars, thread_vars, flag_vars, pipe_vars,
         Starting, Terminating, goto, interrupts, write_command, setup_monitor,
         start_children, start_child_timer, parse_command_signal, handle_alarm,
         handle_chld, AlarmDue, poll_nothing, handle_hup, handle_term,
         ChildExit, SendCommand, Edit

\* ... and every step keeps it (start_children, terminate_child).
LEMMA ForwardStep == TypeOK /\ IInv /\ ForwardInv /\ [Next]_vars => ForwardInv'
<1> SUFFICES ASSUME TypeOK, IInv, ForwardInv, [Next]_vars PROVE ForwardInv'
  OBVIOUS
<1> USE DEF ForwardInv, Starting, Terminating, Child, goto, leave, started,
            TypeOK, ThreadTypes, ChildTypes, PipeTypes, thread_vars, pipe_vars,
            flag_vars
<1>1. ASSUME NEW p \in Pids, Reap(p) PROVE ForwardInv'
  <2>1. pc' \notin Starting
    BY <1>1 DEF Reap
  <2>2. pid'["run"] # NoPid => (flag_forward' <=> flag_forward)
    BY <1>1, PidAssumption DEF Reap
  <2>3. \A c \in Child : pid'[c] # NoPid =>
           pid'[c] = pid[c] /\ end'[c] = end[c] /\ (c \in gaveup' <=> c \in gaveup)
    BY <1>1 DEF Reap
  <2> QED
    BY <1>1, <2>1, <2>2, <2>3 DEF Reap
<1>2. CASE create_procattr_log
  BY <1>2 DEF create_procattr_log, start, WantLog
<1>3. CASE create_procattr_run
  BY <1>3 DEF create_procattr_run, start, WantRun
<1>4. CASE start_child_count
  BY <1>4 DEF start_child_count
<1>5. CASE start_child_fork
  BY <1>5 DEF start_child_fork, IInv, StartingInv
<1>6. CASE start_child_fail
  BY <1>6 DEF start_child_fail
<1>7. CASE parse_command_terminate
  BY <1>7 DEF parse_command_terminate, close_pipe
<1>8. CASE terminate_child_signal
  BY <1>8 DEF terminate_child_signal
<1>9. CASE terminate_child_wait
  BY <1>9 DEF terminate_child_wait
<1>10. CASE terminate_child_check
  BY <1>10 DEF terminate_child_check
<1>11. CASE terminate_child_reset
  <2>1. pc' \notin Starting /\ UNCHANGED <<pid, gaveup, flag_forward, end>>
    BY <1>11 DEF terminate_child_reset, terminate_log, loop_end
  <2>2. pc' \in Terminating \/ \A c \in Child : pid[c] = NoPid \/ c \in gaveup
    BY <1>11 DEF terminate_child_reset, terminate_log, IInv, TerminatingInv, Settled
  <2> QED
    BY <2>1, <2>2
<1>12. CASE /\ UNCHANGED <<pid, gaveup, flag_forward, end>>
            /\ \/ UNCHANGED <<pc, cur>>
               \/ pc' = "died"
               \/ pc \notin Terminating \cup {"exited", "died"}
                  /\ pc' \notin Starting
               \/ pc \in Starting /\ pc' \in Starting /\ cur' = cur
  BY <1>12
<1> QED
  BY <1>1, <1>2, <1>3, <1>4, <1>5, <1>6, <1>7, <1>8, <1>9, <1>10, <1>11, <1>12,
     ForwardFrame

\* A log beside run reads what run writes, unless one of them survived SIGKILL.
THEOREM ForwardingIsIntact == Spec => []ForwardingIntact
<1>1. Init => ForwardInv
  BY DEF Init, ForwardInv, Starting, Child
<1>2. TypeOK /\ IInv /\ ForwardInv /\ [Next]_vars => ForwardInv'
  BY ForwardStep
<1>3. IInv /\ ForwardInv => ForwardingIntact
  <2> SUFFICES ASSUME IInv, ForwardInv, gaveup = {},
                      pid["run"] # NoPid, pid["log"] # NoPid
               PROVE  /\ flag_forward /\ end["run"] = end["log"]
                      /\ pipe \/ pc \in Terminating \cup {"died"}
    BY DEF ForwardingIntact, Terminating
  <2>1. flag_forward /\ end["run"] = end["log"]
    BY DEF ForwardInv
  <2>2. pc # "exited"
    BY DEF IInv, TerminatingInv, Settled, Child
  <2>3. pipe \/ pc \in Terminating \cup {"died"}
    BY <2>2 DEF IInv, PipeInv
  <2> QED
    BY <2>1, <2>3
<1> QED
  BY <1>1, <1>2, <1>3, TypeCorrect, ChildrenInvariant, PTL DEF Spec

-----------------------------------------------------------------------------
(* Commands in the FIFO *)

\* Writing to the FIFO loses no command that is in it,
LEMMA WriteKeeps ==
    ASSUME NEW queue \in Seq(Command), NEW cmd \in Command, Unread("x", queue)
    PROVE  Unread("x", Queued(queue, cmd))
<1>1. CASE Queued(queue, cmd) = queue
  BY <1>1
<1>2. CASE Queued(queue, cmd) = Append(queue, cmd)
  <2>1. PICK i \in 1..Len(queue) : queue[i] = "x"
    BY DEF Unread
  <2>2. i \in 1..Len(Append(queue, cmd)) /\ Append(queue, cmd)[i] = "x"
    BY <2>1
  <2> QED
    BY <1>2, <2>2 DEF Unread
<1> QED
  BY <1>1, <1>2 DEF Queued

\* ... and puts the command to terminate there,
LEMMA WritePuts ==
    ASSUME NEW queue \in Seq(Command)
    PROVE  Unread("x", Queued(queue, "x"))
<1> DEFINE new == Append(queue, "x")
<1>1. Len(queue) + 1 \in 1..Len(new) /\ new[Len(queue) + 1] = "x"
  OBVIOUS
<1>2. Queued(queue, "x") = new
  BY DEF Queued
<1> QED
  BY <1>1, <1>2 DEF Unread

\* ... and reading another command leaves it there.
LEMMA ReadKeeps ==
    ASSUME NEW queue \in Seq(Command), queue # <<>>, Head(queue) # "x",
           Unread("x", queue)
    PROVE  Unread("x", Tail(queue))
<1>1. PICK i \in 1..Len(queue) : queue[i] = "x"
  BY DEF Unread
<1>2. i - 1 \in 1..Len(Tail(queue)) /\ Tail(queue)[i - 1] = "x"
  BY <1>1
<1> QED
  BY <1>2 DEF Unread

\* Whatever else happens leaves the FIFO and the flags alone, and a monitor
\* that has stopped stays so.
LEMMA ControlFrame ==
    ASSUME [Next]_vars
    PROVE  \/ parse_command_signal \/ parse_command_terminate
           \/ handle_alarm \/ handle_chld \/ handle_hup \/ handle_term
           \/ \E cmd \in Command : SendCommand(cmd)
           \/ UNCHANGED <<control, flag_intr, flag_stop>> /\ (Running' => Running)
  BY DEF Next, Thread, World, Finished, vars, thread_vars, flag_vars,
         timer_vars, Running, Stopped, Outside, goto, leave, setup_monitor,
         Reap, start_children, create_procattr_log, create_procattr_run,
         start_child_timer, start_child_count, start_child_fork,
         start_child_fail, terminate_child_signal, terminate_child_wait,
         terminate_child_check, terminate_child_reset, AlarmDue, poll_nothing,
         ChildExit, Edit

\* Every step keeps the command in the FIFO until it is obeyed (handler, parse_command).
LEMMA InterruptStep ==
    TypeOK /\ InterruptRemembered /\ [Next]_vars => InterruptRemembered'
<1> SUFFICES ASSUME TypeOK, InterruptRemembered, [Next]_vars
             PROVE  InterruptRemembered'
  OBVIOUS
<1> DEFINE Kept == flag_stop \/ Unread("x", control)
<1>0. control \in Seq(Command) /\ "w" \in Command
  BY DEF TypeOK, PipeTypes, Command
<1>1. CASE parse_command_signal
  <2>1. flag_intr' /\ Running' => Kept
    BY <1>1 DEF parse_command_signal, InterruptRemembered, Running, Stopped, flag_vars
  <2>2. Kept => Kept'
    BY <1>0, <1>1, ReadKeeps DEF parse_command_signal, flag_vars
  <2> QED
    BY <2>1, <2>2 DEF InterruptRemembered
<1>2. CASE parse_command_terminate
  <2>1. flag_intr' => Kept
    BY <1>2 DEF parse_command_terminate, InterruptRemembered, Running, Stopped
  <2>2. CASE Head(control) = "x"
    BY <1>2, <2>2 DEF parse_command_terminate, InterruptRemembered
  <2>3. CASE Head(control) # "x"
    <3>1. Kept => Kept'
      BY <1>0, <1>2, <2>3, ReadKeeps DEF parse_command_terminate
    <3> QED
      BY <2>1, <3>1 DEF InterruptRemembered
  <2> QED
    BY <2>2, <2>3
<1>3. CASE handle_alarm
  <2>1. flag_intr' => Kept
    BY <1>3 DEF handle_alarm, InterruptRemembered
  <2>2. control' = control \/ control' = Queued(control, "w")
    BY <1>3 DEF handle_alarm, write_command
  <2>3. Kept => Kept'
    BY <1>0, <1>3, <2>2, WriteKeeps DEF handle_alarm
  <2> QED
    BY <2>1, <2>3 DEF InterruptRemembered
<1>4. CASE handle_chld
  <2>1. flag_intr' => Kept
    BY <1>4 DEF handle_chld, InterruptRemembered, Blocked, Running, Stopped, flag_vars
  <2>2. control' = control \/ control' = Queued(control, "w")
    BY <1>4 DEF handle_chld, write_command
  <2>3. Kept => Kept'
    BY <1>0, <1>4, <2>2, WriteKeeps DEF handle_chld, flag_vars
  <2> QED
    BY <2>1, <2>3 DEF InterruptRemembered
<1>5. CASE handle_hup
  <2>1. flag_intr' => Kept
    BY <1>5 DEF handle_hup, Outside, InterruptRemembered, flag_vars
  <2>2. control' = control \/ control' = Queued(control, "w")
    BY <1>5 DEF handle_hup, write_command
  <2>3. Kept => Kept'
    BY <1>0, <1>5, <2>2, WriteKeeps DEF handle_hup, flag_vars
  <2> QED
    BY <2>1, <2>3 DEF InterruptRemembered
<1>6. CASE handle_term
  <2>1. CASE pc' = "died"
    BY <2>1 DEF InterruptRemembered, Running, Stopped
  <2>2. CASE control' = Queued(control, "x")
    BY <1>0, <2>2, WritePuts DEF InterruptRemembered
  <2> QED
    BY <1>6, <2>1, <2>2 DEF handle_term, write_command, goto
<1>7. ASSUME NEW cmd \in Command, SendCommand(cmd) PROVE InterruptRemembered'
  <2>1. flag_intr' /\ Running' => Kept
    BY <1>7 DEF SendCommand, Outside, InterruptRemembered, flag_vars
  <2>2. Kept => Kept'
    BY <1>0, <1>7, WriteKeeps DEF SendCommand, flag_vars
  <2> QED
    BY <2>1, <2>2 DEF InterruptRemembered
<1>8. CASE UNCHANGED <<control, flag_intr, flag_stop>> /\ (Running' => Running)
  BY <1>8 DEF InterruptRemembered
<1> QED
  BY <1>1, <1>2, <1>3, <1>4, <1>5, <1>6, <1>7, <1>8, ControlFrame

\* A monitor that was interrupted has the command to terminate still before it.
THEOREM InterruptIsRemembered == Spec => []InterruptRemembered
<1>1. Init => InterruptRemembered
  BY DEF Init, InterruptRemembered
<1>2. TypeOK /\ InterruptRemembered /\ [Next]_vars => InterruptRemembered'
  BY InterruptStep
<1> QED
  BY <1>1, <1>2, TypeCorrect, PTL DEF Spec

-----------------------------------------------------------------------------
(* The status file *)

\* The status file is changed by write_status only.
LEMMA StatusFrame ==
    ASSUME [Next]_vars
    PROVE  \/ setup_monitor \/ start_child_fork
           \/ \E p \in Pids : Reap(p)
           \/ UNCHANGED <<pid, status, stale>>
  BY DEF Next, Thread, World, Finished, vars, file_vars, start_children,
         create_procattr_log, create_procattr_run, start_child_timer,
         start_child_count, start_child_fail, parse_command_signal,
         parse_command_terminate, terminate_child_signal, terminate_child_wait,
         terminate_child_check, terminate_child_reset, handle_alarm,
         handle_chld, AlarmDue, poll_nothing, handle_hup, handle_term,
         ChildExit, SendCommand, Edit

\* Every step that changes a child writes the file, or notes that it could not.
LEMMA StatusStep == TypeOK /\ StatusTruthful /\ [Next]_vars => StatusTruthful'
<1> SUFFICES ASSUME TypeOK, StatusTruthful, [Next]_vars PROVE StatusTruthful'
  OBVIOUS
<1>1. CASE setup_monitor
  BY <1>1 DEF setup_monitor, StatusTruthful, file_vars
<1>2. ASSUME NEW newforward, write_status(pid', newforward)
      PROVE  StatusTruthful'
  BY <1>2 DEF write_status, StatusTruthful, Child
<1>3. CASE start_child_fork
  BY <1>2, <1>3 DEF start_child_fork
<1>4. ASSUME NEW p \in Pids, Reap(p) PROVE StatusTruthful'
  <2>1. CASE \E c \in Child : pid[c] = p
    BY <1>2, <1>4, <2>1 DEF Reap
  <2>2. CASE ~\E c \in Child : pid[c] = p
    <3>1. \A c \in Child : pid'[c] = pid[c]
      BY <1>4, <2>2 DEF Reap
    <3> QED
      BY <1>4, <2>2, <3>1 DEF Reap, StatusTruthful, file_vars
  <2> QED
    BY <2>1, <2>2
<1>5. CASE UNCHANGED <<pid, status, stale>>
  BY <1>5 DEF StatusTruthful
<1> QED
  BY <1>1, <1>3, <1>4, <1>5, StatusFrame

\* The status file names the children that run, unless its last write failed.
THEOREM StatusIsTruthful == Spec => []StatusTruthful
<1>1. Init => StatusTruthful
  BY DEF Init, StatusTruthful, Child
<1>2. TypeOK /\ StatusTruthful /\ [Next]_vars => StatusTruthful'
  BY StatusStep
<1> QED
  BY <1>1, <1>2, TypeCorrect, PTL DEF Spec
=============================================================================
