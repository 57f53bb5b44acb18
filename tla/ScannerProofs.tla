--------------------------- MODULE ScannerProofs ---------------------------
(***************************************************************************)
(* Theorems about Scanner, for every value of its constants: its table     *)
(* never loses or doubles a monitor and never outgrows MAX_SERVICES; and   *)
(* what has to be true of the links for a monitor to serve the directory   *)
(* it is recorded for.                                                     *)
(***************************************************************************)
EXTENDS Scanner, FiniteSetTheorems, TLAPS

\* What MonitorsTracked leans on: nothing is remembered of a directory that is
\* not in the table, and the monitors an earlier scanner left are running.
TableInv ==
    /\ \A d \in Dirs \ services : pid[d] = NoPid
    /\ \A p \in orphans : monitors[p] \in {"starting", "serving"}

IInv == MonitorsTracked /\ TableInv

SizeInv == IsFiniteSet(services) /\ Cardinality(services) <= MAX_SERVICES

\* srvctl gives no name to a second directory.
NamesFixed ==
    \A n \in Names : \A d, e \in Dirs :
        <<n, d>> \in Links /\ <<n, e>> \in Links => d = e

\* What a monitor was started for is what its name leads to, and what it serves
\* is what it was started for, while each name leads to one directory.
ServesInv ==
    /\ \A n \in Names : links[n] \in Dirs => <<n, links[n]>> \in Links
    /\ \A d \in services : pid[d] # NoPid =>
         /\ monitors[pid[d]] = "starting" =>
              name[pid[d]] \in Names /\ <<name[pid[d]], d>> \in Links
         /\ monitors[pid[d]] = "serving" => serves[pid[d]] = d

-----------------------------------------------------------------------------
(* Type correctness *)

\* The initial state of the scanner has the types of TypeOK.
LEMMA TypeInit == Init => TypeOK
<1> SUFFICES ASSUME Init PROVE TypeOK
  OBVIOUS
<1>1. pid \in [Dirs -> Pids \cup {NoPid}] /\ active \in [Dirs -> BOOLEAN]
  BY DEF Init
<1>2. /\ monitors \in [Pids -> {"free", "starting", "serving", "zombie"}]
      /\ name \in [Pids -> Names \cup {0}]
      /\ serves \in [Pids -> Dirs \cup {NoDir}]
  BY DEF Init
<1>3. /\ pc \in {"reap", "start", "sleep", "exited"} /\ flag_stop \in BOOLEAN
      /\ links \in [Names -> Dirs \cup {NoDir, Junk}]
  BY DEF Init
<1>4. todo \subseteq Names /\ services \subseteq Dirs /\ orphans \subseteq Pids
  BY DEF Init
<1>5. events \in 0..MaxEvents
  BY CapacityAssumption DEF Init
<1> QED
  BY <1>1, <1>2, <1>3, <1>4, <1>5 DEF TypeOK

\* Every step of the scanner, a monitor or srvctl keeps the types.
LEMMA TypeStep == TypeOK /\ [Next]_vars => TypeOK'
<1> SUFFICES ASSUME TypeOK, [Next]_vars PROVE TypeOK'
  OBVIOUS
<1> USE CapacityAssumption DEF TypeOK, table, processes, Event
<1>1. ASSUME NEW p \in Pids, monitor_done(p) PROVE TypeOK'
  BY <1>1 DEF monitor_done, Done
<1>2. CASE read_directory
  BY <1>2 DEF read_directory
<1>3. ASSUME NEW n \in Names, start(n) PROVE TypeOK'
  <2>1. pc' \in {"reap", "start", "sleep", "exited"} /\ todo' \subseteq Names
    BY <1>3 DEF start
  <2>2. services' \subseteq Dirs /\ active' \in [Dirs -> BOOLEAN]
    BY <1>3 DEF start, Directory
  <2>3. /\ pid' \in [Dirs -> Pids \cup {NoPid}]
        /\ monitors' \in [Pids -> {"free", "starting", "serving", "zombie"}]
        /\ name' \in [Pids -> Names \cup {0}]
        /\ serves' \in [Pids -> Dirs \cup {NoDir}]
    BY <1>3 DEF start, create_process
  <2>4. events' \in 0..MaxEvents
    BY <1>3 DEF start, create_process
  <2>5. UNCHANGED <<flag_stop, links, orphans>>
    BY <1>3 DEF start
  <2> QED
    BY <2>1, <2>2, <2>3, <2>4, <2>5
<1>4. CASE clear_services
  BY <1>4 DEF clear_services
<1>5. CASE scan_again
  BY <1>5 DEF scan_again
<1>6. CASE handler
  BY <1>6 DEF handler
<1>7. CASE main
  <2>1. pid' \in [Dirs -> Pids \cup {NoPid}] /\ active' \in [Dirs -> BOOLEAN]
    BY <1>7 DEF main
  <2>2. monitors' \in [Pids -> {"free", "starting", "serving", "zombie"}]
    BY <1>7 DEF main
  <2>3. /\ todo' \subseteq Names /\ services' \subseteq Dirs
        /\ orphans' \subseteq Pids
    BY <1>7 DEF main
  <2>4. pc' \in {"reap", "start", "sleep", "exited"} /\ flag_stop' \in BOOLEAN
    BY <1>7 DEF main
  <2>5. Event /\ UNCHANGED <<links, name, serves>>
    BY <1>7, Zenon DEF main
  <2>6. events' \in 0..MaxEvents
    BY <2>5
  <2> QED
    BY <2>1, <2>2, <2>3, <2>4, <2>5, <2>6
<1>8. ASSUME NEW p \in Pids, MonitorStarts(p) PROVE TypeOK'
  BY <1>8 DEF MonitorStarts
<1>9. ASSUME NEW p \in Pids, MonitorExits(p) PROVE TypeOK'
  BY <1>9 DEF MonitorExits
<1>10. ASSUME NEW n \in Names, ChangeLink(n) PROVE TypeOK'
  <2>1. links' \in [Names -> Dirs \cup {NoDir, Junk}]
    BY <1>10 DEF ChangeLink
  <2> QED
    BY <1>10, <2>1 DEF ChangeLink
<1>11. CASE Finished \/ UNCHANGED vars
  BY <1>11 DEF Finished, vars
<1> QED
  BY <1>1, <1>2, <1>3, <1>4, <1>5, <1>6, <1>7, <1>8, <1>9, <1>10, <1>11
  DEF Next, Scan

\* The scanner's state always has the types of TypeOK: in particular only
\* directories enter its table (start), and todo holds names that exist.
THEOREM TypeCorrect == Spec => []TypeOK
  BY TypeInit, TypeStep, PTL DEF Spec

-----------------------------------------------------------------------------
(* The table and the processes *)

\* A scanner starts with an empty table and no monitors.
LEMMA TrackInit == Init => IInv
  BY DEF Init, IInv, MonitorsTracked, Unreaped, TableInv

\* What start does when it creates a process.
LEMMA CreateTracks ==
    ASSUME TypeOK, IInv, NEW d \in Dirs, NEW n \in Names, NEW p \in Pids,
           NeedsMonitor(d), create_process(d, n, p),
           services' = services \cup {d}, orphans' = orphans
    PROVE  IInv'
<1> USE ValuesAssumption DEF TypeOK
<1>1. pid[d] = NoPid
  BY DEF NeedsMonitor, IInv, TableInv
<1>2. p \notin Unreaped /\ p \notin orphans
  BY DEF create_process, Unreaped, IInv, TableInv
<1>3. Unreaped' = Unreaped \cup {p}
  BY <1>2 DEF Unreaped, create_process
<1>4. pid' = [pid EXCEPT ![d] = p]
  BY DEF create_process
<1>5. \A e \in services : pid[e] # p
  BY <1>2 DEF IInv, MonitorsTracked
<1>6. \A q \in Pids : q \in Unreaped' <=> \E e \in services' : pid'[e] = q
  BY <1>1, <1>2, <1>3, <1>4, <1>5 DEF IInv, MonitorsTracked
<1>7. \A e, f \in services' : pid'[e] = pid'[f] /\ e # f => pid'[e] = NoPid
  BY <1>1, <1>4, <1>5 DEF IInv, MonitorsTracked
<1>8. TableInv'
  BY <1>2, <1>4 DEF TableInv, IInv, create_process
<1> QED
  BY <1>6, <1>7, <1>8 DEF IInv, MonitorsTracked

\* Every step keeps the table and the processes in agreement.
LEMMA TrackStep == TypeOK /\ IInv /\ [Next]_vars => IInv'
<1> SUFFICES ASSUME TypeOK, IInv, [Next]_vars PROVE IInv'
  OBVIOUS
<1> USE ValuesAssumption DEF TypeOK, table, processes
<1>0. ASSUME UNCHANGED <<services, pid, monitors, orphans>> PROVE IInv'
  BY <1>0 DEF IInv, MonitorsTracked, Unreaped, TableInv
<1>1. ASSUME NEW p \in Pids, monitor_done(p) PROVE IInv'
  <2>1. /\ Unreaped' = Unreaped \ {p}
        /\ \A d \in Dirs : pid'[d] = IF d \in services /\ pid[d] = p
                                     THEN NoPid ELSE pid[d]
        /\ UNCHANGED <<services, orphans>>
    BY <1>1 DEF monitor_done, Done, Unreaped
  <2>2. MonitorsTracked'
    BY <2>1 DEF IInv, MonitorsTracked
  <2>3. TableInv'
    BY <1>1, <2>1 DEF IInv, TableInv, monitor_done
  <2> QED
    BY <2>2, <2>3 DEF IInv
<1>2. CASE read_directory
  BY <1>0, <1>2 DEF read_directory
<1>3. ASSUME NEW n \in Names, start(n) PROVE IInv'
  <2>1. CASE UNCHANGED <<table, processes>>
    BY <1>0, <1>3, <2>1 DEF start
  <2>2. ASSUME links[n] \in Dirs, services' = services \cup {links[n]},
               UNCHANGED <<pid, processes, orphans>>
        PROVE  IInv'
    BY <2>2 DEF IInv, MonitorsTracked, TableInv, Unreaped
  <2>3. ASSUME links[n] \in Dirs, services' = services \cup {links[n]},
               NeedsMonitor(links[n]), NEW p \in Pids,
               create_process(links[n], n, p), orphans' = orphans
        PROVE  IInv'
    BY <2>3, CreateTracks
  <2> QED
    BY <1>3, <2>1, <2>2, <2>3 DEF start, Directory
<1>4. CASE clear_services
  <2>1. /\ services' = services \ Gone /\ Gone \subseteq services
        /\ \A d \in Gone : pid[d] = NoPid
        /\ \A d \in Dirs : pid'[d] = pid[d]
        /\ UNCHANGED <<monitors, orphans>>
    BY <1>4 DEF clear_services, Gone
  <2> QED
    BY <2>1 DEF IInv, MonitorsTracked, TableInv, Unreaped
<1>5. CASE scan_again
  BY <1>0, <1>5 DEF scan_again
<1>6. CASE handler
  BY <1>0, <1>6 DEF handler
<1>7. CASE main
  <2>1. Unreaped' = {} /\ services' = {}
    BY <1>7 DEF main, Unreaped
  <2>2. TableInv'
    BY <1>7 DEF main, TableInv
  <2> QED
    BY <2>1, <2>2 DEF IInv, MonitorsTracked
<1>8. ASSUME NEW p \in Pids, MonitorStarts(p) PROVE IInv'
  <2>1. Unreaped' = Unreaped /\ UNCHANGED <<services, pid>>
    BY <1>8 DEF MonitorStarts, Unreaped
  <2>2. TableInv'
    BY <1>8 DEF MonitorStarts, TableInv, IInv
  <2> QED
    BY <2>1, <2>2 DEF IInv, MonitorsTracked
<1>9. ASSUME NEW p \in Pids, MonitorExits(p) PROVE IInv'
  <2>1. Unreaped' = Unreaped /\ UNCHANGED <<services, pid>>
    BY <1>9 DEF MonitorExits, Unreaped
  <2>2. TableInv'
    BY <1>9 DEF MonitorExits, TableInv, IInv
  <2> QED
    BY <2>1, <2>2 DEF IInv, MonitorsTracked
<1>10. ASSUME NEW n \in Names, ChangeLink(n) PROVE IInv'
  BY <1>0, <1>10 DEF ChangeLink
<1>11. CASE Finished \/ UNCHANGED vars
  BY <1>0, <1>11 DEF Finished, vars
<1> QED
  BY <1>1, <1>2, <1>3, <1>4, <1>5, <1>6, <1>7, <1>8, <1>9, <1>10, <1>11
  DEF Next, Scan

\* Every monitor the scanner started and has not reaped is recorded for exactly
\* one service in the table (start, clear_services, monitor_done), whatever
\* becomes of links, directories, monitors and earlier scanners.
THEOREM MonitorsAreTracked == Spec => []MonitorsTracked
<1>1. IInv => MonitorsTracked
  BY DEF IInv
<1> QED
  BY <1>1, TypeInit, TypeStep, TrackInit, TrackStep, PTL DEF Spec

-----------------------------------------------------------------------------
(* The size of the table *)

\* Only start adds to the table, and only one entry where one fits.
LEMMA SizeStep == TypeOK /\ SizeInv /\ [Next]_vars => SizeInv'
<1> SUFFICES ASSUME TypeOK, SizeInv, [Next]_vars PROVE SizeInv'
  OBVIOUS
<1> USE CapacityAssumption DEF TypeOK, table, SizeInv
<1>1. ASSUME services' \subseteq services PROVE SizeInv'
  <2>1. IsFiniteSet(services') /\ Cardinality(services') <= Cardinality(services)
    BY <1>1, FS_Subset
  <2>2. Cardinality(services) \in Nat /\ Cardinality(services') \in Nat
    BY <2>1, FS_CardinalityType
  <2> QED
    BY <2>1, <2>2
<1>2. ASSUME NEW n \in Names, start(n) PROVE SizeInv'
  <2>1. CASE services' = services
    BY <1>1, <2>1
  <2>2. ASSUME NEW d \in Dirs, Fits(d), services' = services \cup {d} PROVE SizeInv'
    <3>1. CASE d \in services
      BY <1>1, <2>2, <3>1
    <3>2. CASE d \notin services
      <4>1. Cardinality(services) \in Nat /\ Cardinality(services) < MAX_SERVICES
        BY <2>2, <3>2, FS_CardinalityType DEF Fits
      <4>2. IsFiniteSet(services') /\ Cardinality(services') = Cardinality(services) + 1
        BY <2>2, <3>2, FS_AddElement
      <4> QED
        BY <4>1, <4>2
    <3> QED
      BY <3>1, <3>2
  <2> QED
    BY <1>2, <2>1, <2>2 DEF start, Directory
<1>3. CASE main
  BY <1>1, <1>3 DEF main
<1>4. CASE clear_services
  BY <1>1, <1>4 DEF clear_services
<1>5. CASE services' = services
  BY <1>1, <1>5
<1> QED
  BY <1>2, <1>3, <1>4, <1>5
  DEF Next, Scan, Finished, vars, monitor_done, read_directory, scan_again,
      handler, MonitorStarts, MonitorExits, ChangeLink

\* An empty table is within every limit.
LEMMA SizeEmpty == services = {} => SizeInv
  BY CapacityAssumption, FS_EmptySet DEF SizeInv

\* The services that have a monitor are among those in the table.
LEMMA SizeLimits == SizeInv => WithinCapacity
<1> SUFFICES ASSUME SizeInv PROVE WithinCapacity
  OBVIOUS
<1> DEFINE running == {d \in services : pid[d] # NoPid}
<1>1. IsFiniteSet(running) /\ Cardinality(running) <= Cardinality(services)
  BY FS_Subset DEF SizeInv
<1>2. Cardinality(running) \in Nat /\ Cardinality(services) \in Nat
  BY <1>1, FS_CardinalityType DEF SizeInv
<1> QED
  BY <1>1, <1>2, CapacityAssumption DEF SizeInv, WithinCapacity

\* The scanner never has more monitors than MAX_SERVICES recorded, because its
\* table never has more entries (create_entry), running or not.
THEOREM TableIsBounded == Spec => []WithinCapacity
<1>1. Init => SizeInv
  BY SizeEmpty DEF Init
<1> QED
  BY <1>1, SizeLimits, TypeInit, TypeStep, SizeStep, PTL DEF Spec

-----------------------------------------------------------------------------
(* What a monitor serves *)

\* Every step keeps the monitors at what they were started for.
LEMMA ServesStep ==
    NamesFixed /\ TypeOK /\ IInv /\ ServesInv /\ [Next]_vars => ServesInv'
<1> SUFFICES ASSUME NamesFixed, TypeOK, IInv, ServesInv, [Next]_vars
             PROVE  ServesInv'
  OBVIOUS
<1> USE ValuesAssumption DEF TypeOK, table, processes
<1>0. ASSUME services' \subseteq services,
             \A d \in services' : pid'[d] \in {pid[d], NoPid},
             UNCHANGED <<links, processes>>
      PROVE  ServesInv'
  BY <1>0 DEF ServesInv
<1>1. ASSUME NEW p \in Pids, monitor_done(p) PROVE ServesInv'
  BY <1>1 DEF monitor_done, Done, ServesInv
<1>2. CASE read_directory
  BY <1>0, <1>2 DEF read_directory
<1>3. ASSUME NEW n \in Names, start(n) PROVE ServesInv'
  <2>1. CASE UNCHANGED <<table, processes>>
    BY <1>0, <1>3, <2>1 DEF start
  <2>2. ASSUME links[n] \in Dirs, services' = services \cup {links[n]},
               UNCHANGED <<pid, processes, links>>
        PROVE  ServesInv'
    <3>1. \A d \in Dirs \ services : pid[d] = NoPid
      BY DEF IInv, TableInv
    <3> QED
      BY <2>2, <3>1 DEF ServesInv
  <2>3. ASSUME links[n] \in Dirs, services' = services \cup {links[n]},
               NEW p \in Pids, create_process(links[n], n, p), links' = links
        PROVE  ServesInv'
    <3>1. \A d \in services : pid[d] # p
      BY <2>3 DEF create_process, IInv, TableInv, MonitorsTracked, Unreaped
    <3>2. <<n, links[n]>> \in Links
      BY <2>3 DEF ServesInv
    <3>3. \A d \in services \ {links[n]} :
             /\ pid'[d] = pid[d] /\ pid[d] # p
             /\ pid[d] # NoPid => /\ monitors'[pid[d]] = monitors[pid[d]]
                                  /\ name'[pid[d]] = name[pid[d]]
                                  /\ serves'[pid[d]] = serves[pid[d]]
      BY <2>3, <3>1 DEF create_process
    <3>4. /\ pid'[links[n]] = p /\ monitors'[p] = "starting"
          /\ name'[p] = n
      BY <2>3 DEF create_process
    <3> QED
      BY <2>3, <3>2, <3>3, <3>4 DEF ServesInv
  <2> QED
    BY <1>3, <2>1, <2>2, <2>3 DEF start, Directory
<1>4. CASE clear_services
  BY <1>0, <1>4 DEF clear_services
<1>5. CASE scan_again
  BY <1>0, <1>5 DEF scan_again
<1>6. CASE handler
  BY <1>0, <1>6 DEF handler
<1>7. CASE main
  BY <1>7 DEF main, ServesInv
<1>8. ASSUME NEW p \in Pids, MonitorStarts(p) PROVE ServesInv'
  <2>1. ASSUME NEW d \in services, pid[d] = p, monitors'[p] = "serving"
        PROVE  serves'[p] = d
    <3>1. /\ name[p] \in Names /\ <<name[p], d>> \in Links
          /\ links[name[p]] \in Dirs /\ serves'[p] = links[name[p]]
      BY <1>8, <2>1 DEF MonitorStarts, ServesInv
    <3>2. <<name[p], links[name[p]]>> \in Links
      BY <3>1 DEF ServesInv
    <3> QED
      BY <3>1, <3>2 DEF NamesFixed
  <2>2. \A q \in Pids \ {p} : /\ monitors'[q] = monitors[q]
                               /\ name'[q] = name[q] /\ serves'[q] = serves[q]
    BY <1>8 DEF MonitorStarts
  <2>3. monitors'[p] # "starting" /\ UNCHANGED <<services, pid, links>>
    BY <1>8 DEF MonitorStarts
  <2> QED
    BY <2>1, <2>2, <2>3 DEF ServesInv
<1>9. ASSUME NEW p \in Pids, MonitorExits(p) PROVE ServesInv'
  BY <1>9 DEF MonitorExits, ServesInv
<1>10. ASSUME NEW n \in Names, ChangeLink(n) PROVE ServesInv'
  <2>1. \A m \in Names : links'[m] \in Dirs => <<m, links'[m]>> \in Links
    BY <1>10 DEF ChangeLink, ServesInv
  <2>2. UNCHANGED <<services, pid, monitors, name, serves>>
    BY <1>10 DEF ChangeLink
  <2> QED
    BY <2>1, <2>2 DEF ServesInv
<1>11. CASE Finished \/ UNCHANGED vars
  BY <1>0, <1>11 DEF Finished, vars
<1> QED
  BY <1>1, <1>2, <1>3, <1>4, <1>5, <1>6, <1>7, <1>8, <1>9, <1>10, <1>11
  DEF Next, Scan

\* A monitor recorded as running for a directory runs in that directory,
\* provided that no link name is ever given to a second directory: exactly what
\* the change of a priority may break, see ServiceMonitored (start, monitor).
THEOREM RecordedServes ==
    ASSUME NamesFixed
    PROVE  Spec => []RecordedMonitorServes
<1>1. Init => ServesInv
  BY DEF Init, ServesInv
<1>2. TypeOK /\ ServesInv => RecordedMonitorServes
  BY DEF ServesInv, RecordedMonitorServes
<1>3. TypeOK /\ IInv /\ ServesInv /\ [Next]_vars => ServesInv'
  BY ServesStep
<1> QED
  BY <1>1, <1>2, <1>3, TypeInit, TypeStep, TrackInit, TrackStep, PTL DEF Spec
=============================================================================
