# ngim's service supervision in TLA+

ngim keeps services running.  A service is a directory with a program `run`, an
optional program `log`, and a few control files.  `srvctl` links the directory
into `DIR_ACTIVE`; the *scanner* starts a *monitor* for each link; the monitor
starts `run` and `log`, connects them by a pipe, restarts them when they die and
obeys one-byte commands from a FIFO; `log` is usually *tainlog*, which stamps
lines, writes them to a file and rotates it.  This directory models those
processes as TLA+ state machines, model-checks them with TLC and proves
properties of them with TLAPS.

Line numbers below are of `src/srvctl/src/` unless another directory is named.

## 1. Inventory

| Component | State | Operations | Talks to |
|---|---|---|---|
| monitor (`monitor.c`) | two `child_proc` records, five flags, pipe to `log`, FIFO, status file, timer | `setup_monitor`, `check_children`, `start_children`, `wait_for_command`, `parse_command`, `terminate_child`, handlers of SIGALRM, SIGCHLD, SIGHUP, SIGTERM/INT/QUIT | forks `run` and `log`; reads FIFO and `up`; writes `status`; holds the directory's lock |
| scanner (`scanner.c`) | table inode -> (pid, active), `flag_stop` | `monitor_done`, `scan`, `start`, `clear_services`, handler | reads `DIR_ACTIVE`; forks monitors by *link name* |
| tainlog (`tainlog.c`) | line buffer, open file with its size and lock, EOF flag | `open_tainlog`, `lock_tainlog`, `readline`, `append_tainlog`, `close_tainlog`, `flush_archive` | the log directory; other loggers through the lock of `current` |
| srvctl (`srvctl.c`) | none of its own: the files and links of services | `--add`, `--remove`, `--start`, `--stop`, `--restart`, `--term`, `--signal`, `--priority`, `--list`, `--status`, `--kill-all` | links (scanner), FIFO, `up` and `status` (monitor), signals (scanner, monitor) |
| taiconv (`taiconv.c`) | two buffers and an offset | label-to-date filter over a stream or a mapped file | reads what tainlog wrote |
| limiter (`limiter.c`) | variables of its command line; what the kernel keeps of its process | set priority, limits, root directory, identity, exec | used in `run` scripts |
| libbase time (`src/libbase/lib/tai.c`, `iso8601.c`) | none | label and date conversions | tainlog, taiconv |
| libbase command line (`cmdline.c`) | none | parse argv against a table | every program |
| libbase wrappers (`create.c`, `symlink.c`, `init.c`, `error.c`, `priv.c`) | none | one APR call each, logging, dropping of privileges | every program |

What is hard, and what makes each part right:

- **monitor.**  One thread and four signal handlers share flags and counters; a
  SIGCHLD may be dropped on purpose (`flag_ignchld`); the timer is shared by two
  children; `run` and `log` die and are restarted in any order but must end up on
  the same pipe; a termination may take many seconds during which anything else
  happens.  Right means: no child is lost or run twice, no suspension lasts for
  ever, `run` never feeds a pipe nobody reads, a stop is obeyed and leaves nothing
  behind, `status` tells the truth.
- **scanner.**  Links, monitors and the scanner itself come and go independently.
  Right means: the table agrees with the processes, capacity holds, and every
  linked service gets a monitor in the end.
- **tainlog.**  It is killed, restarted, doubled, and every call on the directory
  can fail.  Right means: a line written stays until its archive's turn comes, the
  archives are ordered, rotation goes by the true size, and not too much is removed.
- **srvctl.**  Each command is a sequence of steps that races with a scan, with a
  monitor that starts or exits, and with another srvctl.
- **taiconv.**  The same filter is written four times: mapped or read, lines or
  everything.  Right means: all four agree, on labels cut short by the end or by each
  other too.
- **limiter.**  Each step may take away what a later one needs.  Right means: the
  program runs with everything that was asked for, or not at all.

`PROJECT.json` lists every hazard at the line where it bites, with the properties
that watch over it, or why none does yet.

## 2. Modules

| Module | Role |
|---|---|
| `Monitor` | the monitor, its kernel timer, FIFO and children; ends with the mapping to `Supervisor` |
| `Supervisor` | abstract specification: what a monitor promises |
| `MCMonitor` | TLC instance: two processes, symmetry; `LiveSpec` for liveness |
| `MonitorProofs` | theorems about `Monitor` |
| `MonitorRefinement` | theorem: `Monitor` implements `Supervisor` |
| `Scanner` | the scanner; monitors and srvctl's links as its environment |
| `MCScanner` | TLC instances: link tables `OwnNames`, `ThreeDirs`, `SharedNames` |
| `ScannerProofs` | theorems about `Scanner` |
| `Tainlog` | loggers that share a log directory |
| `MCTainlog` | TLC instance: two loggers |
| `TainlogProofs` | theorems about `Tainlog` |
| `Srvctl` | srvctl's commands as processes, composed with `Scanner` (`S == INSTANCE Scanner`) and monitors reduced to lock, FIFO, `up` and `run` |
| `MCSrvctl` | TLC instances: one service, two clients, one process (the scanner reaps a monitor before it starts the next) |
| `SrvctlProofs` | theorems about `Srvctl`, and about the scanner in it (`SP == INSTANCE ScannerProofs`) |
| `Limiter` | the limiter, with `cmdline.c` and `priv.c` |
| `LimiterProofs` | theorems about `Limiter` |
| `Tai` | labels: to and from the clock, to and from text (operators) |
| `Taiconv` | the filter, its four loops, on labels of `Tai`; the reference for its output |
| `TaiconvProofs` | theorems about `Taiconv` and the labels of `Tai` |
| `Iso8601` | dates as text |
| `Iso8601Proofs` | theorems about `Iso8601` |
| `MCTools` | TLC instance of `Limiter`, `Taiconv` and `Iso8601`: programs that run once and have nothing to do with each other (`tool` says which one runs) |

Definitions keep the names of the C functions they stand for, and variables those
of the C variables.  Definitions marked *mutant* next to the ones they vary are
plausible bugs (a dropped test, an off-by-one, a missing call); each property is
known to fail under one of them.

### Monitor

`pc` says where the thread is.  A label stands for a stretch of code in which at
most one statement depends on, or is seen by, a signal handler; inside such a
stretch the moment a handler runs makes no difference, so handlers run between
steps.  Where it does make a difference the stretch is cut: `start_child` is three
labels (`timer`: the test of `flag_timer` and `alarm()`; `count`: `++starts` and
the tests up to the one of `flag_intr`; `fork`), and `terminate_child` is a loop of
four (`term`, `termwait`, `termcheck`, `reset`).

| Code | Action |
|---|---|
| `setup_monitor`, `create_namedpipe`, `create_lockfile` | `setup_monitor` |
| `check_children`, one `wait4` each | `Reap`; the loop ends in `start_children` or `terminate_child_check` under `NoZombie` |
| `check_fileup`, `start_children` | `start_children`, `create_procattr_log`, `create_procattr_run` |
| `start_child` | `start_child_timer`, `start_child_count`, `start_child_fork`, `start_child_fail` |
| `wait_for_command`, `parse_command` | `poll_nothing`, `parse_command_signal`, `parse_command_terminate` |
| `terminate_child` | `terminate_child_signal`, `_wait`, `_check`, `_reset` |
| `handle_alarm`, `check_suspension` | `handle_alarm` |
| `handler` | `handle_chld`, `handle_hup`, `handle_term` |
| `write_command` | operator of that name, in the handlers: a byte in the FIFO, or the end of the monitor |
| `write_status` | operator of that name, with its failure, in every action whose code calls it |
| kernel, children, srvctl | `AlarmDue`, `ChildExit`, `SendCommand`, `Edit` |

Abstractions.  SIGCHLD is blocked outside `poll` and the wait of `terminate_child`
and delivered when it is unblocked, so both start with none pending.  SIGALRM, SIGHUP
and the stopping signals are delivered anywhere.  The alarm *becomes* due only in a
blocking call, because `TIMER_CHILD` seconds do not pass in between, but may be
delivered later, at any point.  Wake-ups behind an unread wake-up are dropped, since
they only add a turn of the loop; the FIFO is never full (a hazard recorded without
property).  `starts` saturates just above `CHILD_MAXSTARTS`, beyond which the code
does not tell values apart.  `Attempts` is the length of the list of signals that
`terminate_child` tries (five in the code, SIGKILL last).  The pause after a failed
start is one with the next poll.  `end` remembers which pipe each child inherited;
`gaveup` which children outlived SIGKILL; `stale` that the last write of the status
file failed.  A child that gets a signal may exit or not: `ChildExit` is always
possible and never fair.  Names, permissions, privileges and messages are left out.

A handler whose write to the FIFO fails ends the monitor where it stands (747-749), also
before the FIFO exists (745): `write_command` goes to `died` from any label, with children
running or half-way through their start or termination.  `MayFail` lets it, once, where
calls may fail; nothing comes after it.

### Supervisor, and how Monitor implements it

`Supervisor` says what the service may rely on and nothing of how: each program has at
most one *instance* (`inst`), which is started only when it is down and not waiting out
a suspension (`Choose`), and never when the interrupt came before the start was decided
(`Decide`); waiting lasts a fixed number of periods unless the program is terminated
(`Period`, `Terminated`); the monitor closes only when it was asked to, with everything
down except the *survivors* it gave up on; a request is never forgotten (`asked` has no
step back).  It may die undone in two ways that differ: of a call that fails, at any
moment and with its programs left running (`Fail`; without failing calls only before it
starts anything), or because what it takes for granted is wrong, which happens only after it
gave up on a program (`Break`).

The mapping is at the end of `Monitor` (`S == INSTANCE Supervisor WITH ...`): `inst` is
read off the records and the processes, `chosen` and `decided` off the three labels
of `start_child`, `wait` is what is left of a suspension, `asked` is `flag_stop` or a
command to stop that is still in the FIFO.  A signal handler, a wake-up, the status file, a
pipe and each label of a loop are stutters; `died` is `failed` and `aborted` is `broken`.  `Supervises == S!Spec` is checked by TLC
in `MonitorSafety` and proved in `MonitorRefinement`.

### Scanner

`scan` is cut into the reaping of each monitor, the reading of the directory, the
start of each name read, `clear_services` and the pause.  The table is keyed by the
directory (the inode in the code) and a monitor is created with the *name* of a link:
`MonitorStarts`, an action of the monitor, resolves the name later, takes the lock of
whatever directory it finds, or dies.  `ChangeLink` is srvctl, or anyone else.  `main`
starts a new scanner after one that exited *or was killed at any point*; `orphans` are
the monitors that the old one left, which init reaps.  The reading of the directory
is atomic and so is `start`, except for the monitor's use of the name.  `Capacity`
is the `MAX_SERVICES - 1` of the reading loop and `Fits` the `MAX_SERVICES` of
`create_entry`.  Display names are left out.

### Tainlog

A line is its index; `input` holds the stamps in reading order.  Two lines may have
the same stamp.  The clock may be set back (`stepped`): then a new archive sorts before older
ones, and the properties about order promise nothing, as the code does not.  A file is a number with a size in
bytes and the whole lines in it; `archive` maps stamps to files.  Each label ends at
the next call that sees or changes the directory: `stat`, then `create` or `open`,
then `lock`; `append_tainlog`, `close_tainlog` (`rename`), `flush_archive` (`scan` and
`remove`), `append_tainlog_write`.  Failures may hit every call; a write may stop
half-way.  A reading of the directory that fails half-way looks like one that is complete
(386-387): `Listed` gives any part of the archives as the list, for a failure or beside
another logger, which may rename or remove what is being read; `cut` records that an
archive was chosen for removal from such a part.  A write below the end of the file damages what is there and appends
nothing.  `overlap` records that two loggers ever ran together: the properties that
the code promises only to a lone logger say so in their premise, and `OldestFlushed` that no
list was cut short.  `written`, `flushed`
and `replaced` are history.  `arg_filesize` and `arg_keepnum` are what `validate_cmdline`
makes of `--logsize` and `--keep`.  Files are numbered as they are created, one for each line
and one more at most (`created`).  The format of a line and the mark of one that was
wrapped are left out.

### Srvctl

A client is the sequence of calls it has still to make (`calls`): what
`command_action` does for each command is data (`AfterActive`, `AfterInactive`), and
each call is an action: `readdir` and `resolve` (`service_active`, one entry after the
other: a link that vanishes in between ends the command), `service_linkname`,
`service_add`, `service_remove`, `service_priority` (two calls: the file is emptied
when it is opened), `service_up`, `monitor_command_open`, `monitor_command_write`,
`killall_next`.  A client may be killed, or die of a failing call, before any call
(`Kill`).  A blocking open of a FIFO that exists and has no reader is simply not
enabled.  `Scan` is the scan of `Scanner`, unchanged, on the links that the clients
make and remove.  A monitor takes the lock (`MonitorStarts`), opens the FIFO
(`create_namedpipe`), looks at `up` (`check_fileup`), starts `run`, and reads commands;
its look and its start are two steps, so a stop may fall between them.  Suspension,
`log`, and terminations that take long are in `Monitor` only.  The bytes of a FIFO are
lost when the last process that has it open is gone.  `last` and `disturbed` are
history: the last command on a service that was done while no other was busy with it.
Names are shared: `OwnName` and `Priorities` may give two services the same name for
their links, and a name may belong to another service when it is looked up.
`--list` and `--status` only read and are left out, and so is the command line.

What the model says about the order of calls: a stop removes `up`, then the link, then
tells the monitor *if it listens already*.  A monitor that does not listen yet will look
at `up` only after it does, so `run` stays down (`StopHolds`), but the monitor stays,
idle, unlinked.  The next `--start` reaches that monitor only by its wake-up, which the code
calls "unnecessary" (1058): without it `StartRuns` fails.

### Limiter

One action per step of `main`, in its order; `parse_params` takes the parameters one by
one as `cmdline.c` does: marked as present first, then refused if the argument is not
one, and dropped with a warning if the variable it goes to is set already, which
happens where two options share a resource (`Slot`).  A step dies of a bad argument, of
the kernel's refusal (`refused`), or of a call that fails (`faults`).  The kernel is
what it lets a process do: with effective user 0 everything; without it no hard limit is
raised, no nice value lowered, and only an identity that the process has is taken on.
Names of users are looked up in the files of the root directory the process is in by then
(`IdOf`).  Capabilities, which only a process that stays root keeps, are left out.
The nice value starts at 0.  Arguments are parsed or not; their text is left out.

### Tai, Taiconv, Iso8601

`Tai` has the widths as parameters: TLC checks labels of one digit for the seconds and
two for the nanoseconds, whose ranges are scaled with them so that every carry and every
value out of range occurs.  `apr_time_make` keeps its width: it wraps.  `RangeAssumption`
says what the widths of the code have in common with the scaled ones: the digits can
write every nanosecond of a second (eight of sixteen values, for 10^9), and labels every
time from APR's epoch on that APR can count (2^62 + 10 and 2^63 microseconds are below 2^63).

`Taiconv` has one action for each turn of each of the four loops: `convert_mmap_all`,
`convert_mmap_nrm`, `convert_read_all`, `convert_read_nrm`, and the two ends.  A text is
a sequence of digits, `@`, newlines and others; the output a sequence of characters and dates.
`Reference` defines the output from the whole text, and all four must give it.  After a
failure to read, the output is that of what was read.  After a failure to write it is the
beginning of the output of the whole text; where reading failed first, and writing what
was left in the buffer failed then, it is the beginning of the output of what was
read, and this may be no beginning of the other: a long label cut short by the failure can be
a short one.  `OutputIsPrefix` says so.

`Iso8601` starts from a broken-down instant, which the C library makes.  The code adds
`'0'` to what it computes without looking, so a character is its distance from `'0'`.

## 3. Runs

| Run | Instance | Question |
|---|---|---|
| `MonitorSafety` | 2 pids, `CHILD_MAXSTARTS` 1, `CHILD_SUSPENSION` 1, 2 attempts, failing calls, 2 events; 2.9 M states | are the children, pipe, timer, status file and stop right in every interleaving, and does the monitor do only what `Supervisor` lets it (`Supervises`)? |
| `MonitorLiveness` | as above, `CHILD_SUSPENSION` 2, no failing calls, 1 event, service wanted at first; 281 k states | is a stop obeyed, are `run` and `log` restarted? |
| `MonitorAbort` | as `MonitorSafety` | does an assertion fail? (yes) |
| `ScannerSafety` | 3 services, 4 names, table for 2, 3 pids, 2 events; 444 k states | do table and processes agree within capacity? |
| `ScannerLiveness` | 2 services, 3 names, table for 4, 3 pids, 2 events; 168 k states | does every linked service get a monitor? |
| `ScannerRelink` | 2 services that may share a name, 3 pids, 3 events | also if a name changes hands? (no) |
| `TainlogSafety` | 2 loggers, lines of length 1 or 3, full at 2, 1 archive kept; 4 lines and 2 events (a failing call, a kill or a clock set back) while one runs alone, 3 lines and 1 event once two overlap; 2.0 M states | are lines kept, ordered, counted, and removed in turn? |
| `TainlogShared` | 2 loggers, 3 lines of length 1 | does a logger archive only its own file? (no) |
| `SrvctlSafety` | 1 service, 2 clients, 3 commands of `--priority`, `--start`, `--stop`, 1 failure; 1.6 M states | does a stop hold, does the link keep its name? |
| `SrvctlLiveness` | 1 service, 2 clients, 2 commands of `--start`, `--stop`, `--restart`, `--kill-all`; 85 k states | does a started service run, do commands return? |
| `SrvctlBlocks` | the same with `--start` and `--stop` | does every command return? (no) |
| `ToolsSafety` | limiter: up to 4 of 12 parameters, 3 starters, 1 failing call; taiconv: all texts of up to 6 of 5 characters, all stamps of 11 readings of the clock, failing reads and writes; dates at the limits of each field; 1.8 M states | does what the limiter runs have what was asked for, do the loops of taiconv agree, are stamps and dates right? |

Bounds.  An *event* is something that happens to a component from outside or a call
that fails: a command, a signal, an edit, a failing call, a kill, a changed link, a
restarted scanner.  Deaths of children and monitors are not events and unbounded.
Two events are enough for every race of a command with a signal or with a failure.

- Monitor: one start in excess (`CHILD_MAXSTARTS` 1) puts suspended, lifted and
  unsuspended children beside each other.  A suspension of one period keeps
  `MonitorSafety` small; two periods, and with them the half-expired suspension, are in
  `MonitorLiveness`, and the theorems hold for any number.  A monitor never has more
  than two unreaped children, so two pids suffice; that is itself a theorem
  (`ChildrenAreTracked`).
- Scanner: the third service and the fourth name make both the array and the table too
  small, and three pids let an orphan, a current monitor and a starting one coexist.
- tainlog: three lines are two archives and a current file, one archive more than is
  kept, and length 3 is a line that never fits.  A lone logger has a fourth line and a
  second event: three archives, after a failure to remove one, of which a list that is cut
  short shows two, so that what it calls the oldest is not.  `LessShared` takes both from
  loggers that overlap, and with their one event come only lines that never fit and have
  a stamp of their own.  What is promised to loggers that overlap, `OneWriter` and
  `KeepsEnough`, is proved without these bounds.  The limits of the command line are near
  each other, so that a size between them, the one that is taken as it is although it is
  below the least (see below), is the one that runs.
- limiter: the longest chain of parameters that matter to each other is four
  (`--limit-mem` with two options of one resource, or a root directory with group and user,
  and one more).
- taiconv: a short label has two characters and a long one four, so that a label can be
  cut between the two.  Six characters are three short labels, a short and a long one,
  or a long one with characters around it, and every place a label can be cut.
- The link tables of `ScannerSafety` have no name that changes hands, which is the premise
  that `RecordedServes` has as `NamesFixed`; `ScannerRelink` has such a name, and shows what
  becomes of it.  Dates have microseconds from 0 to 999999, as APR makes them.
- srvctl: two clients and three commands are an overlap of two and one after it.  One
  service with a priority has two names for its link, and the scanner may catch it under
  either.  The commands left out of a run (`--up`, `--down`, `--kill`, `--signal`,
  `--sigterm`) are other combinations of the same calls.  `StopHolds` and
  `LinkMatchesPriority` are proved for any services, also those that share a priority.

Symmetry is used in safety runs only.  `MCMonitor!LiveSpec` gives each child always
the same pid instead, which changes nothing the code looks at.  It names the steps that may
happen; the fairness is unchanged.

Deadlock is checked in every run; a monitor or scanner that stopped stutters
explicitly (`Finished`), and a logger that has read the last line of the bounded input
can still see its end, exit and be started again.

### Fairness

`Monitor`: weak fairness of the thread and of the two handlers of the kernel's making
(the kernel schedules the process and delivers pending signals), strong fairness of
`AlarmDue` (the clock runs on; whenever the thread blocks again and again the alarm
will become due in one of those calls).  Nothing is assumed of the children, not even that they
exit on SIGKILL, nor of the one-hour timeout of `poll`: without it the restart of a child
must come from a wake-up.  `Scanner`: weak fairness of the scan and of the
start of each monitor; a monitor need not exit, and nobody needs to start a scanner.
`Srvctl`: weak fairness of the scan, of each client once it runs, and of each monitor; no
command has to be given, `run` need not die, and the hour of `poll` is not owed.

### Disagreements found

1. `MonitorAbort`: after `parse_command` closed the pipe and `log` survived SIGKILL,
   the next start of `run` fails `die_assert(pipe_runlog[1])` (372), though "the
   program should not die in vain" (724).  `AbortsOnlyOnSurvivor` shows that nothing
   else makes an assertion fail.
2. `ScannerRelink`: the monitor is told a name, the table is keyed by inode; a name that
   changes hands while the monitor starts leaves one service unserved for good.
   `RecordedServes` proves that without such a name the recorded monitor is the right one.
3. `TainlogShared`: a logger without the lock keeps the size of the other's file, finds
   it full and renames it away under the logger that writes it (303, 460).
4. `SrvctlBlocks`: `monitor_command` "tries to open ... dies if fails" (658), but waits for
   ever when the monitor it waits for never comes, because another srvctl removed the link
   that was to bring it.  `CommandReturns` shows that an undisturbed command returns.

Smaller observations, which the models keep as the code has them, and no run is spent on:

- `--kill-all` takes the name of a link for the name of a service (`srvctl.c` 1034),
  though the usage text (92) promises "all active services": one with a priority, whose
  link is called by its number, is skipped, or another that has the number for its name
  is told (`killall_next`).
- The array of names that `scan` fills holds `MAX_SERVICES` but takes one less (382;
  `Capacity`).
- `--logsize` is compared with `MIN_BUFSIZE`, then set to `MIN_FILESIZE` (`tainlog.c`
  153): a size between the two is below the least but used (`arg_filesize`).
- SIGALRM between 434 and 438 of `monitor.c` leaves a counted start outside every period;
  `SuspensionTimed` shows that a *suspension* is never left without timer, and
  `UntimedAttempts` that each child has at most one such start.
- A handler whose write to the FIFO fails ends the monitor with its children running
  (`monitor.c` 748), though "the program should not die in vain" (724).
- `flush_archive` "keeps removing the oldest" (`tainlog.c` 359-360), but takes a failing
  `apr_dir_read` for the end of the directory (386-387): it then removes the oldest of those it
  has seen.  It never removes too many for that (`KeepsEnough`).
- A date for an offset west of Greenwich is not one: five hours are printed as `-0+`
  (`iso8601.c` divides a negative number and adds `'0'`).  `DateSays` is about the others;
  `DateFits` shows that the buffer is large enough for all.
- taiconv shows a stamp one microsecond late, since `tain_from_apr` adds half of one and
  `tain_to_apr` rounds (`StampsTold`).

## 4. Proofs

All theorems hold for every value of the constants that satisfies the assumptions named
in the module of each component, which TLC evaluates in the runs: `PidAssumption`,
`LimitAssumption`, `BoundAssumption` in `Monitor`; `NamesAssumption`, `LinksAssumption`,
`ValuesAssumption`, `CapacityAssumption` in `Scanner`; `SizeAssumption`, `KeepAssumption`,
`LineAssumption`, `BoundAssumption` in `Tainlog`; `NamesAssumption`, `ValuesAssumption`,
`CapacityAssumption`, `BoundAssumption`, `OwnNameAssumption`, `PriorityAssumption` in `Srvctl`;
`OptionAssumption`, `ResourceAssumption`, `ArgumentAssumption`, `IdentityAssumption`,
`FaultAssumption` in `Limiter`; `WidthAssumption`, `RangeAssumption` in `Tai`,
`TextAssumption` in `Taiconv`; `ExpAssumption` in `Iso8601`.

`MonitorProofs`

- `TypeCorrect`; `SuspensionIsTimed`, which is inductive with the types: the handler
  is the only one to suspend, and restarts the timer whenever it leaves a child
  suspended (`SuspendedRestarts`); and `StatusIsTruthful`, likewise.
- `UntimedAttemptsAreFew` from `UntimedInv`: when the handler leaves the timer off it has taken
  every attempt off the count (`CheckedStarts`), so the only attempt without timer is the one
  whose test of `flag_timer` came before the handler, and there is one such at a time.
- `ChildrenAreTracked`, `AbortNeedsSurvivor` and `ExitIsClean` follow from `IInv`.  None is
  inductive alone.  A start could overwrite a pid that is in use unless `StartingInv`
  says that none is while a child is being started; an exit is clean only because
  `TerminatingInv` says that `run` is settled before `log` is terminated; the
  assertion on `stdin` holds because it is closed only with `flag_stop` set (`StopInv`),
  and that on the pipe because a `log` that was not given up has one (`PipeInv`).
- `ForwardingIsIntact` follows from `ForwardInv` relative to `IInv`: both children's ends
  and `flag_forward` through every order of deaths and starts, and the monitor's own end of
  the pipe, also where a handler ends the monitor between two steps.
- `InterruptIsRemembered`: lemmas on the FIFO (`WriteKeeps`, `WritePuts`, `ReadKeeps`) show
  that the byte survives every step until the one that sets `flag_stop`.

`MonitorRefinement`

- `MonitorSupervises`: each step of `Monitor` is a step of `Supervisor` or a stutter.  The
  steps that need more than their own guard lean on the invariants of `MonitorProofs`: a
  `fork` finds the chosen program down because no pid is in use while it starts
  (`StartingInv`); a child that exits is the instance of one program only (`IInv`); an
  exit is a close because `run` is settled before `log` is terminated.  A handler that cannot
  write is a `Fail` from wherever the thread is (`DeathStep`), a failed assertion a `Break`
  because only a survivor makes it fail (`BreakStep`, by `AbortsOnlyOnSurvivor`).  `SetupInv`
  adds that a monitor that is still setting up has no children, so that it may die there
  without a failing call, and `PeriodsInv` that periods are counted for suspended children
  only, so that what is left of a suspension goes down by one with each alarm.

`ScannerProofs`

- `TypeCorrect`: the table contains directories only.  `MonitorsAreTracked` from `IInv`,
  which adds what the table holds for a directory that is not in it (`TableInv`).
- `TableIsBounded` from `SizeInv`, the bound on the whole table, by facts on cardinality.
- `RecordedServes`: under `NamesFixed` (no name belongs to two directories) a recorded
  monitor serves the directory it is recorded for; `ServesInv` carries it through
  the time between creation and start.

`TainlogProofs`

- `TypeCorrect` and `OneWriterHolds` hold for any number of loggers, from `SharedInv`: what
  each logger's variables say at each label (`Local`), and that no two loggers hold the
  lock of the same file.
- `SizeKnownHolds` and `NothingLostHolds` are about a logger that has run alone so far, from
  `SoloInv`.  It says that no other logger runs, that a file has at most one name,
  that a line that was written is in one file, and, at each label, what `info.size`,
  `current_size` and the offset have to do with the file: the size is the sum of what was
  written because it is taken from `stat` and then counted, and nothing is damaged because
  the offset is never below the end.
- `KeepsEnoughHolds`, an action property of any number of loggers that flush the same
  directory at once: whichever archive a logger removes, `arg_keepnum` newer ones stay.  Each
  counted before it removes, and others have removed since; `PendingInv` says that the
  archive that a logger is about to remove still has `arg_keepnum` newer ones.  It is
  kept because what another one removes has as many itself: if it is the newer of the two,
  those are newer than both, and if not, it did not count.
- `ArchiveOrderHolds` and `OldestFlushedHolds` need the clock to run forward as well, from
  `OrderInv`: stamps do not decrease in the order of reading, a file's lines are older
  than those of a file with a later name, and what was flushed is older than what is there.
  The last needs complete lists besides (`~cut`): the archive that a logger is about to remove
  is then the oldest there is (`FlushScan`, `FlushOrder`).

`SrvctlProofs`

- A client is a list of calls.  What the lists of the code have in common (`Ordered`:
  which call may come before which, in which command) holds of the tail of a list if it
  holds of the list, so each call is left with what the next ones need.  `MonitorInv` is the
  same for monitors: one that is in its loop
  serves a directory and no other monitor does, and `run` is only alive under such a one.  With them `TypeCorrect`.
- `StopHoldsAlways`: `StopInv` says that once the first call of a `--stop` is done, `up` is
  gone while no other command is busy, and that after an undisturbed stop a monitor that runs
  `run`, or has looked and is about to, has the command to stop in its FIFO: one that was not
  told has still to look, and will find nothing.  `QuietInv` connects
  the history variables to the clients that are running.
- `LinkMatches`: a priority is written only while its service has no link, and links are made
  and removed under the name that was computed from the priority (`LinkInv`).  It holds at
  every moment, whatever fails or is killed half-way, for services that share names, and beside
  commands on other services.  Two commands that meet on one service are outside its premise
  (`disturbed`): nothing in the code keeps them apart.
- `ScannerTracks`, `ScannerBounded`, `ScannerServes`: what is proved of `Scanner` by itself
  holds with srvctl's commands and the monitors' commands in place of its environment.
  `Srvctl` is no refinement of `Scanner` (links change without limit, and `events` counts
  the failures of all), so the invariants are carried over and not the specification: every
  step is one of the scanner, or of a monitor that starts or exits, or leaves the table and
  the processes alone (`ScannerSteps`), and the step lemmas of `ScannerProofs` are used
  through an instance (`SP`), for the links that `OwnName` and `Priorities` allow.
  `ScannerServes` assumes `NamesApart`: no two services may bear the same name.  It needs
  `NameInv`: a link bears a name of the service it leads to, although the name was
  computed from the priority some calls before, and the priority may have changed since.

`LimiterProofs`

- `TypeCorrect`, `LimitsHold`, `IdentityHolds`, `PrivilegesSuffice`.  The properties speak of
  the end; the invariants (`SelectedInv`, `LimitsInv`, `IdentityInv`, `PrivilegeInv`)
  say how far each step of `main` has brought it: which limits are final already, that the root
  directory is changed before names are looked up, that the group is changed while
  the user still may.

`TaiconvProofs`

- `OutputAsReferenceHolds`, `OutputIsPrefixHolds` and `TaiconvTypesHold` follow from
  `TaiconvInv`: what was written and the output of what was not looked at yet (`Rest`, the
  function that `Reference` takes the first value of) are together the output of the
  whole.  In the mapped loops the rest begins where the pending characters do; in the
  loops that read it begins with the buffer, and the equation holds *for every place where the
  text may be found to end*, since a failure to read ends it at any.  What is in
  between is a *run*, an `@` and digits, or holds no label that is replaced.  The lemmas
  say what the loops rely on: a run depends on nothing behind it (`RunConverts`,
  `UnformatPart`), it is shown in one piece (`RunRest`, `ShownRest`), a character that
  begins no label is shown as it is (`PlainRest`), and the text that is cut is the same
  before the cut (`CutKeeps`, `CutShown`).
- `StampsToldHolds`: the number that digits are read as is the one they were written for
  (`DigitsSay`), digits sort like numbers (`DigitsSort`), the label of a reading of the
  clock is in range (`StampRange`), and the two conversions make a microsecond of
  the two halves that they add, also across the end of a second (`StampToApr`).

`Iso8601Proofs`

- `DateFitsHolds`: the longest date, of a year with five digits, microseconds and an offset,
  has 32 characters, whatever the numbers are.  `DateSaysHolds`: each field is where it is
  looked for, the place of the sign is the first of two, and each place of a number is a digit.

Recursion over data.  The induction theorems of the library take an operator and cannot
be used here, but well-founded induction in its set form can (`WFMin`): every
non-empty set of naturals has a least one (`LeastNat`), so a set with 0 and every successor of
its members is all of them (`EveryNat`).  What is recursive in the modules with theorems is
therefore a recursive *function* on an interval, and the proofs show first that a function
with its equation exists (`RestsExists`, `ValuesExists`, `LeftsExists`, `PowersExists`) and then
use the equation.

Only model-checked: all liveness (`StopObeyed`, `RunRestarted`, `LogRestarted`,
`ServiceMonitored`, `StartRuns`, `CommandReturns`), since neither fairness nor ENABLED is within
the prover's reach.  Every other property of the passing runs is a theorem.

## 5. Not modelled

- srvctl's `--list` and `--status`, which only read and print, with the comparison and
  difference of labels that only they use; its command line.
- `cmdline.c`: arguments that follow the parameters; usage texts.
- Capabilities of processes that stay root; the other system wrappers, which are one call
  that succeeds or fails, and are part of the action that makes it.
- The format of tainlog's lines, with the mark of a wrapped one.
- What a killed monitor leaves behind: its children live on, and its successor starts a
  second instance of each.  A FIFO that is full.  See the hazards.

## 6. Plan

What is left, in order of importance:

1. Monitors that are killed while their children live on, as the environment of `Scanner`
   and `Srvctl`: the code promises nothing then, so the question is what it owes.
2. A TLC instance of `Srvctl` with two services that share a priority: a `--priority` that
   finds the name taken leaves the service inactive, and `--kill-all` skips services.  The
   theorems cover these instances; liveness in them is not checked.
3. `Monitor` in place of the reduced monitor of `Srvctl`, through `Supervisor`.
4. The rest of `cmdline.c`.
