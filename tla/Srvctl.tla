------------------------------- MODULE Srvctl -------------------------------
(***************************************************************************)
(* srvctl/src/srvctl.c: the commands that act on services, each a process  *)
(* of its own that makes one call after the other on the files of the      *)
(* service, its link in DIR_ACTIVE and the FIFO of its monitor.  They race *)
(* with each other, with the scanner and with the monitors it starts.      *)
(*                                                                         *)
(* The scanner is the module Scanner.  A monitor is reduced to what can be *)
(* seen from here (monitor.c): it takes the lock, opens its FIFO, looks at *)
(* FILE_UP, starts run, and reads commands; Monitor has the details.       *)
(***************************************************************************)
EXTENDS Naturals, Sequences, FiniteSets

CONSTANTS
    Names, Dirs, NoDir, Junk, Pids, NoPid, MAX_SERVICES,
    OwnName,        \* the name of each service in DIR_ALL
    Priorities,     \* the priorities that each service may be given
    Clients,        \* processes that run srvctl
    Commands,       \* the commands they run
    MaxCommands,    \* bound: commands run in all
    MaxEvents       \* bound: failing calls and killed commands

VARIABLES
    pc, todo, services, pid, active, flag_stop, links, monitors, name, serves,
    orphans, events,
    calls,          \* what each client has still to call, itself first
    cmd,            \* its command
    arg_name,       \* the service it is about
    arg_priority,
    seen,           \* the links read from DIR_ACTIVE and not yet looked at
    link,           \* what service_linkname returned
    priority,       \* contents of FILE_PRIORITY, by service
    up,             \* FILE_UP exists
    fifo,           \* PIPE_CONTROL exists
    control,        \* unread bytes in it
    loop,           \* where the main loop of each monitor is
    run,            \* services whose run is alive
    last,           \* the last command on each service, once done undisturbed
    disturbed,      \* whether two commands were ever, or are, busy with each
    commands        \* how much of MaxCommands is used up

NoName == 0         \* no priority
Links  == UNION {{<<n, d>> : n \in {OwnName[d]} \cup Priorities[d]} : d \in Dirs}

ASSUME NamesAssumption == Names \subseteq Nat /\ IsFiniteSet(Names)
ASSUME ValuesAssumption == NoDir \notin Dirs /\ Junk \notin Dirs /\ NoPid \notin Pids
ASSUME CapacityAssumption == MAX_SERVICES \in Nat \ {0}
ASSUME BoundAssumption == MaxCommands \in Nat /\ MaxEvents \in Nat
ASSUME OwnNameAssumption  == OwnName \in [Dirs -> Names \ {NoName}]
ASSUME PriorityAssumption == Priorities \in [Dirs -> SUBSET (Names \ {NoName})]

S == INSTANCE Scanner

scanner_vars == <<pc, todo, services, pid, active, flag_stop>>
monitor_vars == <<monitors, name, serves, orphans, loop, run>>
client_vars  == <<calls, cmd, arg_name, arg_priority, seen, link>>
file_vars    == <<priority, up, fifo, control>>
ghost_vars   == <<last, disturbed>>
vars == <<scanner_vars, links, monitor_vars, client_vars, file_vars,
          ghost_vars, events, commands>>

Byte  == {"w", "k", "x", "signal"}
Calls == {"readdir", "resolve", "next", "linkname", "add", "remove", "truncate",
          "puts", "create_up", "remove_up", "open", "open_nonblock", "write"}

TypeOK ==
    /\ S!TypeOK
    /\ calls \in [Clients -> Seq(Calls)]
    /\ cmd \in [Clients -> Commands \cup {"none"}]
    /\ arg_name \in [Clients -> Dirs \cup {NoDir}]
    /\ arg_priority \in [Clients -> Names \cup {NoName}]
    /\ seen \in [Clients -> SUBSET Names]
    /\ link \in [Clients -> Names \cup {NoName}]
    /\ \A c \in Clients : calls[c] # <<>> /\ Head(calls[c]) \in {"add", "remove"}
                           => link[c] \in Names
    /\ priority \in [Dirs -> Names \cup {NoName}]
    /\ up \in [Dirs -> BOOLEAN] /\ fifo \in [Dirs -> BOOLEAN]
    /\ control \in [Dirs -> Seq(Byte)]
    /\ loop \in [Pids -> {"setup", "check", "start", "poll"}]
    /\ run \subseteq Dirs
    /\ last \in [Dirs -> {"none", "start", "stop"}]
    /\ disturbed \in [Dirs -> {"never", "before", "now"}]
    /\ commands \in 0..MaxCommands

\* service_linkname: what the link of a service is called at the moment.
LinkName_empty(d) == priority[d]   \* mutant: an empty file is not noticed
LinkName(d) == IF priority[d] = NoName THEN OwnName[d] ELSE priority[d]

\* No monitor runs yet; the files are what earlier commands left.
Init ==
    /\ pc = "reap" /\ todo = {} /\ services = {} /\ flag_stop = FALSE
    /\ pid = [d \in Dirs |-> NoPid] /\ active = [d \in Dirs |-> FALSE]
    /\ monitors = [p \in Pids |-> "free"] /\ name = [p \in Pids |-> 0]
    /\ serves = [p \in Pids |-> NoDir] /\ orphans = {}
    /\ loop = [p \in Pids |-> "setup"] /\ run = {}
    /\ priority \in {f \in [Dirs -> Names \cup {NoName}] :
                       \A d \in Dirs : f[d] \in Priorities[d] \cup {NoName}}
    /\ links \in [Names -> Dirs \cup {NoDir}]
    /\ \A n \in Names : links[n] \in Dirs => n = LinkName(links[n])
    /\ up \in [Dirs -> BOOLEAN] /\ fifo \in [Dirs -> BOOLEAN]
    /\ control = [d \in Dirs |-> <<>>]
    /\ calls = [c \in Clients |-> <<>>] /\ cmd = [c \in Clients |-> "none"]
    /\ arg_name = [c \in Clients |-> NoDir]
    /\ arg_priority = [c \in Clients |-> NoName]
    /\ seen = [c \in Clients |-> {}] /\ link = [c \in Clients |-> NoName]
    /\ last = [d \in Dirs |-> "none"] /\ disturbed = [d \in Dirs |-> "never"]
    /\ events = 0 /\ commands = 0

-----------------------------------------------------------------------------
(* Life of a client *)

Event == events < MaxEvents /\ events' = events + 1

Running(c) == calls[c] # <<>>
Busy(c, d) == Running(c) /\ cmd[c] # "killall" /\ arg_name[c] = d

\* command_action and command_killall, up to the first look at DIR_ACTIVE.
main(c) ==
    /\ ~Running(c) /\ commands < MaxCommands /\ commands' = commands + 1
    /\ \E k \in Commands :
         /\ cmd' = [cmd EXCEPT ![c] = k]
         /\ \/ /\ k = "killall"
               /\ calls' = [calls EXCEPT ![c] = <<"readdir", "next">>]
               /\ UNCHANGED <<arg_name, arg_priority, ghost_vars>>
            \/ /\ k # "killall"
               /\ calls' = [calls EXCEPT ![c] = <<"readdir", "resolve">>]
               /\ \E d \in Dirs :
                    /\ arg_name' = [arg_name EXCEPT ![c] = d]
                    /\ \E n \in Priorities[d] \cup {NoName} :
                         /\ k # "priority" => n = NoName
                         /\ arg_priority' = [arg_priority EXCEPT ![c] = n]
                    /\ last' = [last EXCEPT ![d] = "none"]
                    /\ disturbed' = [disturbed EXCEPT ![d] =
                                       IF \E b \in Clients : Busy(b, d) THEN "now"
                                       ELSE IF @ = "now" THEN "before" ELSE @]
    /\ UNCHANGED <<scanner_vars, links, monitor_vars, seen, link, file_vars, events>>

exit(c) ==
    /\ calls' = [calls EXCEPT ![c] = <<>>] /\ cmd' = [cmd EXCEPT ![c] = "none"]
    /\ arg_name' = [arg_name EXCEPT ![c] = NoDir]
    /\ arg_priority' = [arg_priority EXCEPT ![c] = NoName]
    /\ seen' = [seen EXCEPT ![c] = {}] /\ link' = [link EXCEPT ![c] = NoName]

\* Go on with the calls given; without any the command is done.
proceed(c, rest) ==
    LET d == arg_name[c]
    IN IF rest = <<>>
       THEN /\ exit(c)
            /\ last' = IF cmd[c] \in {"start", "stop"} /\ disturbed[d] # "now"
                       THEN [last EXCEPT ![d] = cmd[c]] ELSE last
       ELSE /\ calls' = [calls EXCEPT ![c] = rest]
            /\ link' = [link EXCEPT ![c] = NoName]
            /\ UNCHANGED <<cmd, arg_name, arg_priority, seen, last>>

\* The client is killed, or one of its calls fails and it dies.
Kill(c) ==
    /\ Running(c) /\ Event /\ exit(c)
    /\ UNCHANGED <<scanner_vars, links, monitor_vars, file_vars, ghost_vars, commands>>

-----------------------------------------------------------------------------
(* service_active, and what each command does then *)

\* A link is removed before the priority it is named after is written.
PriorityCalls_written_first ==   \* mutant
    <<"truncate", "puts", "linkname", "remove", "linkname", "add">>
PriorityCalls == <<"linkname", "remove", "truncate", "puts", "linkname", "add">>

\* Removing FILE_UP first and telling the monitor last is what makes a stop
\* hold, whenever the monitor looks.
StopCalls_told_first ==   \* mutant
    <<"linkname", "remove", "open_nonblock", "write", "remove_up">>
StopCalls == <<"remove_up", "linkname", "remove", "open_nonblock", "write">>

\* mutants: the "unnecessary" wake-up is left out, or sent before there is a link
StartCalls_silent == <<"create_up", "linkname", "add">>
StartCalls_early  == <<"create_up", "open", "write", "linkname", "add">>
StartCalls == <<"create_up", "linkname", "add", "open", "write">>

AfterActive(k) ==
    CASE k = "priority" -> PriorityCalls
      [] k = "stop"     -> StopCalls
      [] k = "up"       -> <<"create_up">>
      [] k = "down"     -> <<"remove_up">>
      [] k = "restart"  -> <<"create_up", "open", "write">>
      [] k = "kill"     -> <<"create_up", "open_nonblock", "write">>
      [] k = "signal"   -> <<"open", "write">>
      [] k = "sigterm"  -> <<"remove_up", "open", "write">>
      [] OTHER          -> <<>>     \* "is already active"

AfterInactive(k) ==
    CASE k = "priority" -> <<"truncate", "puts">>
      [] k = "start"    -> StartCalls
      [] OTHER          -> <<>>     \* "is not active"

at(c, call) == Running(c) /\ Head(calls[c]) = call

readdir(c) ==
    /\ at(c, "readdir")
    /\ calls' = [calls EXCEPT ![c] = Tail(@)]
    /\ seen' = [seen EXCEPT ![c] = {n \in Names : links[n] # NoDir}]
    /\ UNCHANGED <<scanner_vars, links, monitor_vars, cmd, arg_name,
                   arg_priority, link, file_vars, ghost_vars, events, commands>>

\* The calls that the state of the service asks for, or none and an error.
act(c, rest) ==
    IF rest = <<>> THEN exit(c)
    ELSE /\ calls' = [calls EXCEPT ![c] = rest]
         /\ seen' = [seen EXCEPT ![c] = {}]
         /\ UNCHANGED <<cmd, arg_name, arg_priority, link>>

\* service_active compares one entry after the other with arg_name; a link
\* that is gone by then cannot be resolved, and srvctl dies.
resolve(c) ==
    /\ at(c, "resolve")
    /\ \/ \E n \in seen[c] : links[n] = arg_name[c] /\ act(c, AfterActive(cmd[c]))
       \/ \E n \in seen[c] : links[n] = NoDir /\ exit(c)
       \/ \E n \in seen[c] :
            /\ links[n] \notin {arg_name[c], NoDir}
            /\ seen' = [seen EXCEPT ![c] = @ \ {n}]
            /\ UNCHANGED <<calls, cmd, arg_name, arg_priority, link>>
       \/ seen[c] = {} /\ act(c, AfterInactive(cmd[c]))
    /\ UNCHANGED <<scanner_vars, links, monitor_vars, file_vars, ghost_vars,
                   events, commands>>

\* The loop of command_killall, for the next entry.  The FIFO it opens then is
\* the one of the service that has the name of the link.
killall_next(c) ==
    /\ at(c, "next")
    /\ \/ seen[c] = {} /\ exit(c)
       \/ \E n \in seen[c] :
            \/ links[n] \notin Dirs /\ exit(c)   \* stat fails
            \/ /\ links[n] = Junk                \* not a directory
               /\ seen' = [seen EXCEPT ![c] = @ \ {n}]
               /\ UNCHANGED <<calls, cmd, arg_name, arg_priority, link>>
            \/ /\ links[n] \in Dirs
               /\ seen' = [seen EXCEPT ![c] = @ \ {n}]
               /\ calls' = [calls EXCEPT ![c] = <<"open_nonblock", "write", "next">>]
               /\ arg_name' = [arg_name EXCEPT ![c] =
                    IF \E d \in Dirs : OwnName[d] = n
                    THEN CHOOSE d \in Dirs : OwnName[d] = n ELSE NoDir]
               /\ UNCHANGED <<cmd, arg_priority, link>>
    /\ UNCHANGED <<scanner_vars, links, monitor_vars, file_vars, ghost_vars,
                   events, commands>>

-----------------------------------------------------------------------------
(* Files and links *)

service_linkname(c) ==
    /\ at(c, "linkname")
    /\ calls' = [calls EXCEPT ![c] = Tail(@)]
    /\ link' = [link EXCEPT ![c] = LinkName(arg_name[c])]
    /\ UNCHANGED <<scanner_vars, links, monitor_vars, cmd, arg_name,
                   arg_priority, seen, file_vars, ghost_vars, events, commands>>

\* A name that is taken ends the command: "failed to activate service".
service_add(c) ==
    /\ at(c, "add")
    /\ \/ /\ links[link[c]] = NoDir
          /\ links' = [links EXCEPT ![link[c]] = arg_name[c]]
          /\ proceed(c, Tail(calls[c]))
       \/ links[link[c]] # NoDir /\ exit(c) /\ UNCHANGED <<links, last>>
    /\ UNCHANGED <<scanner_vars, monitor_vars, file_vars, disturbed, events, commands>>

\* The link of that name is removed, whatever it leads to.
service_remove(c) ==
    /\ at(c, "remove")
    /\ links' = [links EXCEPT ![link[c]] = NoDir]
    /\ proceed(c, Tail(calls[c]))
    /\ UNCHANGED <<scanner_vars, monitor_vars, file_vars, disturbed, events, commands>>

\* service_priority opens FILE_PRIORITY, which empties it, and writes to it.  If
\* either fails the link is made again before the command dies.
service_priority(c) ==
    LET d == arg_name[c]
    IN /\ \/ at(c, "truncate")
             /\ \/ /\ priority' = [priority EXCEPT ![d] = NoName]
                   /\ proceed(c, Tail(calls[c])) /\ UNCHANGED events
                \/ Event /\ proceed(c, Tail(Tail(calls[c]))) /\ UNCHANGED priority
          \/ at(c, "puts")
             /\ \/ /\ priority' = [priority EXCEPT ![d] = arg_priority[c]]
                   /\ proceed(c, Tail(calls[c])) /\ UNCHANGED events
                \/ Event /\ proceed(c, Tail(calls[c])) /\ UNCHANGED priority
       /\ UNCHANGED <<scanner_vars, links, monitor_vars, up, fifo, control,
                      disturbed, commands>>

service_up(c) ==
    /\ \/ at(c, "create_up") /\ up' = [up EXCEPT ![arg_name[c]] = TRUE]
       \/ at(c, "remove_up") /\ up' = [up EXCEPT ![arg_name[c]] = FALSE]
    /\ proceed(c, Tail(calls[c]))
    /\ UNCHANGED <<scanner_vars, links, monitor_vars, priority, fifo, control,
                   disturbed, events, commands>>

-----------------------------------------------------------------------------
(* monitor_command *)

CommandByte(k) ==
    CASE k \in {"stop", "kill", "killall"} -> "x"
      [] k = "restart" -> "k"
      [] k = "start"   -> "w"
      [] OTHER         -> "signal"

\* A monitor has the FIFO open for reading, and for writing.
Reader(d) == \E p \in Pids : serves[p] = d /\ loop[p] # "setup"
\* A client has it open.
Writer(c, d) == at(c, "write") /\ arg_name[c] = d

\* Without O_NONBLOCK the call waits for a reader; with it, it does not, and
\* without a reader nothing is written.
monitor_command_open(c) ==
    LET d == arg_name[c]
        written == Tail(calls[c])
        given_up == Tail(written)
    IN /\ at(c, "open") \/ at(c, "open_nonblock")
       /\ \/ d \in Dirs /\ Reader(d) /\ proceed(c, written)
          \/ /\ d = NoDir \/ ~Reader(d)
             /\ at(c, "open") => ~fifo[d]
             /\ proceed(c, given_up)
       /\ UNCHANGED <<scanner_vars, links, monitor_vars, file_vars, disturbed,
                      events, commands>>

\* The monitor may have gone since: then the write fails and the client dies.
monitor_command_write(c) ==
    LET d == arg_name[c]
    IN /\ at(c, "write")
       /\ \/ /\ Reader(d)
             /\ control' = [control EXCEPT ![d] = Append(@, CommandByte(cmd[c]))]
             /\ proceed(c, Tail(calls[c]))
          \/ ~Reader(d) /\ exit(c) /\ UNCHANGED <<control, last>>
       /\ UNCHANGED <<scanner_vars, links, monitor_vars, priority, up, fifo,
                      disturbed, events, commands>>

-----------------------------------------------------------------------------
(* The monitors *)

MonitorStarts(p) ==
    /\ S!MonitorStarts(p)
    /\ UNCHANGED <<loop, run, client_vars, file_vars, ghost_vars, commands>>

\* setup_monitor: PIPE_CONTROL is created and opened after the lock is taken.
create_namedpipe(p) ==
    /\ monitors[p] = "serving" /\ loop[p] = "setup"
    /\ fifo' = [fifo EXCEPT ![serves[p]] = TRUE]
    /\ loop' = [loop EXCEPT ![p] = "check"]
    /\ UNCHANGED <<scanner_vars, links, monitors, name, serves, orphans, run,
                   client_vars, priority, up, control, ghost_vars, events, commands>>

check_fileup(p) ==
    /\ loop[p] = "check"
    /\ loop' = [loop EXCEPT ![p] = IF up[serves[p]] /\ serves[p] \notin run
                                   THEN "start" ELSE "poll"]
    /\ UNCHANGED <<scanner_vars, links, monitors, name, serves, orphans, run,
                   client_vars, file_vars, ghost_vars, events, commands>>

start_child(p) ==
    /\ loop[p] = "start"
    /\ loop' = [loop EXCEPT ![p] = "poll"]
    /\ run' = run \cup {serves[p]}
    /\ UNCHANGED <<scanner_vars, links, monitors, name, serves, orphans,
                   client_vars, file_vars, ghost_vars, events, commands>>

\* wait_for_command and parse_command, with the terminations they lead to.
parse_command(p) ==
    LET d == serves[p]
    IN /\ loop[p] = "poll" /\ control[d] # <<>>
       /\ control' = [control EXCEPT ![d] = Tail(@)]
       /\ loop' = [loop EXCEPT ![p] = "check"]
       /\ \/ Head(control[d]) \in {"w", "signal"} /\ UNCHANGED run
          \/ Head(control[d]) \in {"k", "signal"} /\ run' = run \ {d}
       /\ UNCHANGED <<scanner_vars, links, monitors, name, serves, orphans,
                      client_vars, priority, up, fifo, ghost_vars, events, commands>>

\* The bytes left in a FIFO that nobody has open are lost.
parse_command_terminate(p) ==
    LET d == serves[p]
    IN /\ loop[p] = "poll" /\ control[d] # <<>> /\ Head(control[d]) = "x"
       /\ control' = [control EXCEPT ![d] =
                        IF \E c \in Clients : Writer(c, d) THEN Tail(@) ELSE <<>>]
       /\ loop' = [loop EXCEPT ![p] = "setup"]
       /\ run' = run \ {d}
       /\ S!MonitorExits(p)
       /\ UNCHANGED <<client_vars, priority, up, fifo, ghost_vars, commands>>

\* run dies; the wake-up its death causes is read after what is in the FIFO.
RunExits(p) ==
    LET d == serves[p]
    IN /\ loop[p] # "setup" /\ d \in run
       /\ run' = run \ {d}
       /\ loop' = [loop EXCEPT ![p] = IF @ = "poll" /\ control[d] = <<>> THEN "check" ELSE @]
       /\ UNCHANGED <<scanner_vars, links, monitors, name, serves, orphans,
                      client_vars, file_vars, ghost_vars, events, commands>>

\* The hour of poll is over.
poll_timeout(p) ==
    /\ loop[p] = "poll" /\ control[serves[p]] = <<>>
    /\ loop' = [loop EXCEPT ![p] = "check"]
    /\ UNCHANGED <<scanner_vars, links, monitors, name, serves, orphans, run,
                   client_vars, file_vars, ghost_vars, events, commands>>

-----------------------------------------------------------------------------
Scan == S!Scan /\ UNCHANGED <<loop, run, client_vars, file_vars, ghost_vars, commands>>

Client(c) ==
    \/ readdir(c)
    \/ resolve(c)
    \/ killall_next(c)
    \/ service_linkname(c)
    \/ service_add(c)
    \/ service_remove(c)
    \/ service_priority(c)
    \/ service_up(c)
    \/ monitor_command_open(c)
    \/ monitor_command_write(c)

Monitor(p) ==
    \/ MonitorStarts(p)
    \/ create_namedpipe(p)
    \/ check_fileup(p)
    \/ start_child(p)
    \/ parse_command(p)
    \/ parse_command_terminate(p)

Next ==
    \/ Scan
    \/ \E c \in Clients : main(c) \/ Client(c) \/ Kill(c)
    \/ \E p \in Pids : Monitor(p) \/ RunExits(p) \/ poll_timeout(p)

Spec == Init /\ [][Next]_vars

\* Everything that can run is run; commands, deaths and the hour are not owed.
Fairness == /\ WF_vars(Scan)
            /\ \A c \in Clients : WF_vars(Client(c))
            /\ \A p \in Pids : WF_vars(Monitor(p))

FairSpec == Spec /\ Fairness

-----------------------------------------------------------------------------
(* Safety *)

\* After a stop that no other command on the service disturbed, run is not
\* running, or the command to terminate it is unread: also if the monitor was
\* just starting and was not told (command_action, monitor_command).
StopHolds ==
    \A d \in Dirs : last[d] = "stop" /\ d \in run =>
        \E i \in 1..Len(control[d]) : control[d][i] = "x"

\* The link of a service bears the name that service_remove will look for, at every
\* moment of a change of the priority, and if that failed or was killed half-way
\* (service_priority), unless two commands met on the service.
LinkMatchesPriority ==
    \A d \in Dirs, n \in Names :
        disturbed[d] = "never" /\ links[n] = d => n = LinkName(d)

(* Liveness *)

\* A service that was started runs in the end, also if an earlier monitor was
\* left idle by a stop that did not reach it (command_action).
StartRuns ==
    \A d \in Dirs : last[d] = "start" ~> d \in run \/ last[d] # "start"

\* A command that no other disturbs returns: no open waits for ever
\* (monitor_command).
CommandReturns ==
    \A c \in Clients : Running(c) ~>
        ~Running(c) \/ \E d \in Dirs : Busy(c, d) /\ disturbed[d] = "now"

\* "Tries to open monitor/control": every command returns.  The code breaks it:
\* the monitor that --start waits for never comes if --stop removes the link.
EveryCommandReturns ==
    \A c \in Clients : Running(c) ~> ~Running(c)
=============================================================================
