------------------------------ MODULE Scanner ------------------------------
(***************************************************************************)
(* srvctl/src/scanner.c: the process that keeps one monitor running for    *)
(* every directory linked from DIR_ACTIVE.  It scans the links over and    *)
(* over: reap dead monitors, read the directory, start in the order of the *)
(* link names what is missing, forget what is gone.                        *)
(*                                                                         *)
(* The table of services is keyed by the directory's inode, the links are  *)
(* names, and the monitor is told the name: between the scanner's stat and *)
(* the monitor's chdir srvctl may change what the name refers to.          *)
(*                                                                         *)
(* The monitors are external here: one starts serving a directory if it    *)
(* finds it and no other monitor holds its lock, and may die at any time.  *)
(***************************************************************************)
EXTENDS Naturals, FiniteSets

CONSTANTS
    Names,          \* possible link names, ordered
    Dirs,           \* directories of services: the keys of the table
    Links,          \* pairs of a name and a directory that srvctl may link
    NoDir,          \* no such link
    Junk,           \* a link to something that is not a directory
    Pids, NoPid,
    MAX_SERVICES,
    MaxEvents       \* bound: changes of links, failing calls, signals, restarts

ASSUME NamesAssumption == Names \subseteq Nat /\ IsFiniteSet(Names)
ASSUME LinksAssumption == Links \subseteq Names \X Dirs
ASSUME ValuesAssumption == NoDir \notin Dirs /\ Junk \notin Dirs /\ NoPid \notin Pids
ASSUME CapacityAssumption == MAX_SERVICES \in Nat \ {0} /\ MaxEvents \in Nat

VARIABLES
    pc,         \* where the scan is
    todo,       \* names read and not yet handled by start
    services,   \* keys of the table
    pid,        \* service_value.pid, by key
    active,     \* service_value.active, by key
    flag_stop,
    links,      \* what each name in DIR_ACTIVE refers to
    monitors,   \* the kernel's view of each process
    name,       \* the name a monitor was started with
    serves,     \* the directory whose lock a monitor holds
    orphans,    \* monitors left behind by an earlier scanner
    events

table == <<services, pid, active>>
processes == <<monitors, name, serves>>
vars == <<pc, todo, table, flag_stop, links, processes, orphans, events>>

TypeOK ==
    /\ pc \in {"reap", "start", "sleep", "exited"}
    /\ todo \subseteq Names
    /\ services \subseteq Dirs
    /\ pid \in [Dirs -> Pids \cup {NoPid}]
    /\ active \in [Dirs -> BOOLEAN]
    /\ flag_stop \in BOOLEAN
    /\ links \in [Names -> Dirs \cup {NoDir, Junk}]
    /\ monitors \in [Pids -> {"free", "starting", "serving", "zombie"}]
    /\ name \in [Pids -> Names \cup {0}]
    /\ serves \in [Pids -> Dirs \cup {NoDir}]
    /\ orphans \subseteq Pids
    /\ events \in 0..MaxEvents

Init ==
    /\ pc = "reap" /\ todo = {}
    /\ services = {}
    /\ pid = [d \in Dirs |-> NoPid] /\ active = [d \in Dirs |-> FALSE]
    /\ flag_stop = FALSE
    /\ links \in [Names -> Dirs \cup {NoDir, Junk}]
    /\ \A n \in Names : links[n] \in Dirs => <<n, links[n]>> \in Links
    /\ monitors = [p \in Pids |-> "free"]
    /\ name = [p \in Pids |-> 0]
    /\ serves = [p \in Pids |-> NoDir]
    /\ orphans = {}
    /\ events = 0

Event == events < MaxEvents /\ events' = events + 1

-----------------------------------------------------------------------------
(* scan *)

Done_kept(p) == UNCHANGED pid   \* mutant: the table is not told of the death
Done(p) == pid' = [d \in Dirs |-> IF d \in services /\ pid[d] = p
                                  THEN NoPid ELSE pid[d]]

\* monitor_done: mark the service whose monitor died as not running.
monitor_done(p) ==
    /\ pc = "reap" /\ monitors[p] = "zombie" /\ p \notin orphans
    /\ monitors' = [monitors EXCEPT ![p] = "free"]
    /\ Done(p)
    /\ UNCHANGED <<pc, todo, services, active, flag_stop, links, name, serves,
                   orphans, events>>

Reaped == \A p \in Pids \ orphans : monitors[p] # "zombie"

\* The entries that are not hidden, in the order the directory returns them, but
\* no more than fit below the last element of the array.
Capacity_none == Cardinality(Names)   \* mutant: no limit on what is read
Capacity == MAX_SERVICES - 1
Visible == {n \in Names : links[n] # NoDir}
ReadNames(read) ==
    /\ read \subseteq Visible
    /\ IF Cardinality(Visible) <= Capacity THEN read = Visible
       ELSE Cardinality(read) = Capacity

read_directory ==
    /\ pc = "reap" /\ Reaped
    /\ \/ pc' = "start" /\ (\E read \in SUBSET Names : ReadNames(read) /\ todo' = read)
          /\ UNCHANGED events
       \/ Event /\ pc' = "sleep" /\ UNCHANGED todo   \* apr_dir_open fails
    /\ UNCHANGED <<table, flag_stop, links, processes, orphans>>

\* mutant: the child is told the name of the entry that sorts last
create_process_last(d, n, p) ==
    /\ monitors[p] = "free"
    /\ monitors' = [monitors EXCEPT ![p] = "starting"]
    /\ name' = [name EXCEPT ![p] = CHOOSE m \in Names : \A k \in Names : k <= m]
    /\ pid' = [pid EXCEPT ![d] = p]
    /\ UNCHANGED <<serves, events>>

\* apr_proc_create: the child is told the name of the link, not the directory.
create_process(d, n, p) ==
    /\ monitors[p] = "free"
    /\ monitors' = [monitors EXCEPT ![p] = "starting"]
    /\ name' = [name EXCEPT ![p] = n]
    /\ pid' = [pid EXCEPT ![d] = p]
    /\ UNCHANGED <<serves, events>>

Directory_any(d) == d # NoDir   \* mutant: the type is not tested
Directory(d) == d \in Dirs

\* start: an entry of the table for the directory, then a monitor if none runs.
\* Calls that fail leave the table without the entry, or it without a monitor.
NeedsMonitor_always(d) == TRUE   \* mutant: a monitor that runs is not noticed
NeedsMonitor(d) == d \notin services \/ pid[d] = NoPid
Fits_always(d) == TRUE   \* mutant: the table grows without limit
Fits(d) == d \in services \/ Cardinality(services) < MAX_SERVICES

start(n) ==
    LET d == links[n]
    IN /\ pc = "start" /\ ~flag_stop
       /\ n \in todo /\ \A m \in todo : n <= m
       /\ todo' = todo \ {n}
       /\ \/ /\ ~Directory(d) \/ ~Fits(d)
             /\ UNCHANGED <<table, processes, events>>
          \/ Directory(d) /\ Event /\ UNCHANGED <<table, processes>>
          \/ /\ Directory(d) /\ Fits(d)
             /\ services' = services \cup {d}
             /\ active' = [active EXCEPT ![d] = TRUE]
             /\ \/ ~NeedsMonitor(d) /\ UNCHANGED <<pid, processes, events>>
                \/ NeedsMonitor(d) /\ (\E p \in Pids : create_process(d, n, p))
                \/ NeedsMonitor(d) /\ Event /\ UNCHANGED <<pid, processes>>
                \/ /\ NeedsMonitor(d) /\ \A p \in Pids : monitors[p] # "free"
                   /\ UNCHANGED <<pid, processes, events>>
       /\ UNCHANGED <<pc, flag_stop, links, orphans>>

\* clear_services: forget a service that was not seen and whose monitor is dead.
Gone_unseen == {d \in services : ~active[d]}   \* mutant: pid is not tested
Gone == {d \in services : ~active[d] /\ pid[d] = NoPid}

clear_services ==
    /\ pc = "start" /\ (todo = {} \/ flag_stop)
    /\ services' = services \ Gone
    /\ active' = [d \in Dirs |-> FALSE]
    /\ pid' = [d \in Dirs |-> IF d \in Gone THEN NoPid ELSE pid[d]]
    /\ todo' = {}
    /\ pc' = "sleep"
    /\ UNCHANGED <<flag_stop, links, processes, orphans, events>>

\* The end of the loop: PAUSE_SCANNER seconds, or the exit.
scan_again ==
    /\ pc = "sleep"
    /\ pc' = IF flag_stop THEN "exited" ELSE "reap"
    /\ UNCHANGED <<todo, table, flag_stop, links, processes, orphans, events>>

\* SIGINT, SIGQUIT or SIGTERM
handler ==
    /\ pc # "exited" /\ ~flag_stop /\ Event
    /\ flag_stop' = TRUE
    /\ UNCHANGED <<pc, todo, table, links, processes, orphans>>

\* A scanner started after one that exited, or was killed at any point, knows
\* nothing of the monitors that are still running.
main ==
    /\ Event
    /\ pc' = "reap" /\ todo' = {} /\ flag_stop' = FALSE
    /\ services' = {}
    /\ pid' = [d \in Dirs |-> NoPid] /\ active' = [d \in Dirs |-> FALSE]
    /\ orphans' = {p \in Pids : monitors[p] \in {"starting", "serving"}}
    /\ monitors' = [p \in Pids |-> IF monitors[p] = "zombie" THEN "free" ELSE monitors[p]]
    /\ UNCHANGED <<links, name, serves>>

-----------------------------------------------------------------------------
(* The monitors, and srvctl *)

\* monitor: chdir to the name it was given, then the lock of that directory.
MonitorStarts(p) ==
    LET d == links[name[p]]
    IN /\ monitors[p] = "starting"
       /\ IF d \in Dirs /\ \A q \in Pids : serves[q] # d
          THEN /\ monitors' = [monitors EXCEPT ![p] = "serving"]
               /\ serves' = [serves EXCEPT ![p] = d]
               /\ UNCHANGED orphans
          ELSE /\ monitors' = [monitors EXCEPT ![p] =
                                 IF p \in orphans THEN "free" ELSE "zombie"]
               /\ UNCHANGED serves /\ orphans' = orphans \ {p}
       /\ name' = [name EXCEPT ![p] = 0]
       /\ UNCHANGED <<pc, todo, table, flag_stop, links, events>>

\* A monitor exits; init reaps the ones an earlier scanner left behind.
MonitorExits(p) ==
    /\ monitors[p] = "serving"
    /\ monitors' = [monitors EXCEPT ![p] = IF p \in orphans THEN "free" ELSE "zombie"]
    /\ serves' = [serves EXCEPT ![p] = NoDir]
    /\ orphans' = orphans \ {p}
    /\ UNCHANGED <<pc, todo, table, flag_stop, links, name, events>>

\* service_add and service_remove make and remove links; anyone may leave junk.
ChangeLink(n) ==
    /\ Event
    /\ \/ links[n] = NoDir /\ \E d \in Dirs : <<n, d>> \in Links
                              /\ links' = [links EXCEPT ![n] = d]
       \/ links[n] = NoDir /\ links' = [links EXCEPT ![n] = Junk]
       \/ links[n] # NoDir /\ links' = [links EXCEPT ![n] = NoDir]
    /\ UNCHANGED <<pc, todo, table, flag_stop, processes, orphans>>

-----------------------------------------------------------------------------
Scan == \/ \E p \in Pids : monitor_done(p)
        \/ read_directory
        \/ \E n \in Names : start(n)
        \/ clear_services
        \/ scan_again

\* Nothing runs after the exit unless a scanner is started again.
Finished == pc = "exited" /\ UNCHANGED vars

Next == \/ Scan
        \/ Finished
        \/ handler
        \/ main
        \/ \E p \in Pids : MonitorStarts(p) \/ MonitorExits(p)
        \/ \E n \in Names : ChangeLink(n)

Spec == Init /\ [][Next]_vars

\* The scanner and a monitor that was created get to run.  A monitor need not
\* exit, and nobody needs to start a scanner that has exited.
Fairness == WF_vars(Scan) /\ \A p \in Pids : WF_vars(MonitorStarts(p))

FairSpec == Spec /\ Fairness

-----------------------------------------------------------------------------
(* Safety *)

\* Every monitor the scanner started and has not reaped is recorded for exactly
\* one service that is still in the table: none is forgotten while it runs, none
\* is started twice, and monitor_done always finds whose it was.
Unreaped == {p \in Pids \ orphans : monitors[p] # "free"}
MonitorsTracked ==
    /\ \A p \in Pids : p \in Unreaped <=> \E d \in services : pid[d] = p
    /\ \A d, e \in services : pid[d] = pid[e] /\ d # e => pid[d] = NoPid

\* "Maximum number of monitors started": no more are recorded, although links,
\* directories and monitors come and go independently (create_entry).
WithinCapacity == Cardinality({d \in services : pid[d] # NoPid}) <= MAX_SERVICES

\* A monitor recorded as running for a directory runs in that directory: the
\* name it was given still meant what it meant when the scanner looked.
RecordedMonitorServes ==
    \A d \in services :
        pid[d] # NoPid /\ monitors[pid[d]] = "serving" => serves[pid[d]] = d

(* Liveness *)

Linked(d) == \E n \in Names : links[n] = d
Served(d) == \E p \in Pids : serves[p] = d

\* A service that is linked gets a monitor, whatever died, whichever scanner
\* left its monitors behind, and however its links were renamed meanwhile.
ServiceMonitored ==
    \A d \in Dirs : Linked(d) ~> Served(d) \/ ~Linked(d) \/ flag_stop
=============================================================================
