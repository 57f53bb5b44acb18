---------------------------- MODULE SrvctlProofs ----------------------------
(***************************************************************************)
(* Theorems about Srvctl, for any services, names, clients, monitors and   *)
(* commands: its types; that a stop holds; that a link has the name that   *)
(* the priority of its service gives it; and that the scanner keeps what   *)
(* it promises by itself while commands change the links under it.         *)
(*                                                                         *)
(* A client is a list of calls, so everything that is said of clients      *)
(* comes down to what the lists have in common (Ordered): it holds for the *)
(* lists that the code makes, and for the tail of a list for which it      *)
(* holds.                                                                  *)
(***************************************************************************)
EXTENDS Srvctl, TLAPS

\* What the lists of calls have in common, for the i-th call of a command k.
Legal(k, s, i) ==
    /\ s[i] \in {"open", "open_nonblock"} => i < Len(s) /\ s[i + 1] = "write"
    /\ s[i] = "truncate" => i < Len(s) /\ s[i + 1] = "puts"
    /\ s[i] \in {"add", "remove"} /\ i > 1 => s[i - 1] = "linkname"
    /\ s[i] = "truncate" /\ i > 1 => s[i - 1] = "remove"
    /\ s[i] = "puts" /\ i > 1 => s[i - 1] = "truncate"
    /\ s[i] = "readdir" => i = 1 /\ i < Len(s)
    /\ s[i] = "resolve" => i = Len(s) /\ (i > 1 => s[i - 1] = "readdir")
    /\ k = "killall" => s[i] \in {"readdir", "next", "open_nonblock", "write"}
    /\ k # "killall" => s[i] # "next" /\ (s[i] = "readdir" => s[i + 1] = "resolve")
    /\ k = "stop" =>
         /\ s[i] \in {"readdir", "resolve", "remove_up", "linkname", "remove",
                      "open_nonblock", "write"}
         /\ s[i] = "remove_up" => i = 1
         /\ i = Len(s) => s[i] \in {"resolve", "write"}

Ordered(k, s) == \A i \in 1..Len(s) : Legal(k, s, i)

\* A running client has calls as the code makes them, and a service unless its
\* command is --kill-all.
PlanInv ==
    \A c \in Clients : Running(c) =>
        /\ cmd[c] \in Commands
        /\ Ordered(cmd[c], calls[c])
        /\ cmd[c] # "killall" => arg_name[c] \in Dirs

\* The tail of a list of calls.
LEMMA TailFacts ==
    ASSUME NEW s \in Seq(Calls), s # <<>>
    PROVE  /\ Tail(s) \in Seq(Calls) /\ Len(Tail(s)) = Len(s) - 1 /\ Len(s) \in Nat \ {0}
           /\ \A i \in 1..Len(s) - 1 : Tail(s)[i] = s[i + 1]
           /\ Head(s) = s[1] /\ s[1] \in Calls
  OBVIOUS

\* What holds for a list of calls holds when its first call is done.
LEMMA TailOrdered ==
    ASSUME NEW k, NEW s \in Seq(Calls), s # <<>>, Ordered(k, s)
    PROVE  Ordered(k, Tail(s))
<1> DEFINE t == Tail(s)
<1>1. /\ Len(t) = Len(s) - 1 /\ Len(s) \in Nat
      /\ \A i \in 1..Len(t) : t[i] = s[i + 1]
  BY TailFacts
<1> HIDE DEF t
<1>2. SUFFICES ASSUME NEW i \in 1..Len(t)
               PROVE  Legal(k, t, i)
  BY DEF Ordered, t
<1>3. /\ i + 1 \in 1..Len(s) /\ t[i] = s[i + 1]
      /\ i > 1 => t[i - 1] = s[(i + 1) - 1] /\ i - 1 \in 1..Len(t)
      /\ i < Len(t) => t[i + 1] = s[(i + 1) + 1]
  BY <1>1
<1>4. Legal(k, s, i + 1)
  BY <1>3 DEF Ordered
<1>5. t[i] # "readdir"
  BY <1>3, <1>4 DEF Legal
<1>6. /\ t[i] \in {"open", "open_nonblock"} => i < Len(t) /\ t[i + 1] = "write"
      /\ t[i] = "truncate" => i < Len(t) /\ t[i + 1] = "puts"
  BY <1>1, <1>3, <1>4 DEF Legal
<1>7. /\ t[i] \in {"add", "remove"} /\ i > 1 => t[i - 1] = "linkname"
      /\ t[i] = "truncate" /\ i > 1 => t[i - 1] = "remove"
      /\ t[i] = "puts" /\ i > 1 => t[i - 1] = "truncate"
  BY <1>3, <1>4 DEF Legal
<1>8. t[i] = "resolve" => i = Len(t) /\ (i > 1 => t[i - 1] = "readdir")
  BY <1>1, <1>3, <1>4 DEF Legal
<1>9. /\ k = "killall" => t[i] \in {"readdir", "next", "open_nonblock", "write"}
      /\ k # "killall" => t[i] # "next"
  BY <1>3, <1>4 DEF Legal
<1>10. k = "stop" =>
         /\ t[i] \in {"readdir", "resolve", "remove_up", "linkname", "remove",
                      "open_nonblock", "write"}
         /\ t[i] # "remove_up"
         /\ i = Len(t) => t[i] \in {"resolve", "write"}
  BY <1>1, <1>3, <1>4 DEF Legal
<1>11. QED
  BY <1>5, <1>6, <1>7, <1>8, <1>9, <1>10 DEF Legal

\* The lists of calls that the code makes.
LEMMA PlansTyped ==
    /\ PriorityCalls \in Seq(Calls) /\ StopCalls \in Seq(Calls) /\ StartCalls \in Seq(Calls)
    /\ <<"readdir", "next">> \in Seq(Calls) /\ <<"readdir", "resolve">> \in Seq(Calls)
    /\ <<"open_nonblock", "write", "next">> \in Seq(Calls)
    /\ <<"create_up">> \in Seq(Calls) /\ <<"remove_up">> \in Seq(Calls)
    /\ <<"create_up", "open", "write">> \in Seq(Calls)
    /\ <<"create_up", "open_nonblock", "write">> \in Seq(Calls)
    /\ <<"open", "write">> \in Seq(Calls) /\ <<"remove_up", "open", "write">> \in Seq(Calls)
    /\ <<"truncate", "puts">> \in Seq(Calls) /\ <<>> \in Seq(Calls)
<1>1. PriorityCalls \in Seq(Calls) /\ StopCalls \in Seq(Calls) /\ StartCalls \in Seq(Calls)
  BY DEF PriorityCalls, StopCalls, StartCalls, Calls
<1>2. QED
  BY <1>1 DEF Calls

\* What Ordered says holds for the lists that the code makes.
LEMMA PlansOrdered ==
    /\ Ordered("priority", PriorityCalls) /\ Ordered("stop", StopCalls)
    /\ Ordered("start", StartCalls)
    /\ Ordered("killall", <<"readdir", "next">>)
    /\ Ordered("killall", <<"open_nonblock", "write", "next">>)
    /\ Ordered("up", <<"create_up">>) /\ Ordered("down", <<"remove_up">>)
    /\ Ordered("restart", <<"create_up", "open", "write">>)
    /\ Ordered("kill", <<"create_up", "open_nonblock", "write">>)
    /\ Ordered("signal", <<"open", "write">>)
    /\ Ordered("sigterm", <<"remove_up", "open", "write">>)
    /\ Ordered("priority", <<"truncate", "puts">>)
    /\ \A k : Ordered(k, <<>>)
    /\ \A k : k # "killall" => Ordered(k, <<"readdir", "resolve">>)
<1>1. Ordered("priority", PriorityCalls)
  BY DEF Ordered, Legal, PriorityCalls
<1>2. Ordered("stop", StopCalls)
  BY DEF Ordered, Legal, StopCalls
<1>3. Ordered("start", StartCalls)
  BY DEF Ordered, Legal, StartCalls
<1>4. /\ Ordered("killall", <<"readdir", "next">>)
      /\ Ordered("killall", <<"open_nonblock", "write", "next">>)
  BY DEF Ordered, Legal
<1>5. /\ Ordered("up", <<"create_up">>) /\ Ordered("down", <<"remove_up">>)
      /\ Ordered("restart", <<"create_up", "open", "write">>)
      /\ Ordered("kill", <<"create_up", "open_nonblock", "write">>)
  BY DEF Ordered, Legal
<1>6. /\ Ordered("signal", <<"open", "write">>)
      /\ Ordered("sigterm", <<"remove_up", "open", "write">>)
      /\ Ordered("priority", <<"truncate", "puts">>)
  BY DEF Ordered, Legal
<1>7. \A k : Ordered(k, <<>>)
  BY DEF Ordered
<1>8. \A k : k # "killall" => Ordered(k, <<"readdir", "resolve">>)
  BY DEF Ordered, Legal
<1>9. QED
  BY <1>1, <1>2, <1>3, <1>4, <1>5, <1>6, <1>7, <1>8

\* The lists that service_active leads to, for every command that names a service.
LEMMA AfterCases ==
    ASSUME NEW k, k # "killall"
    PROVE  /\ AfterActive(k) \in Seq(Calls) /\ Ordered(k, AfterActive(k))
           /\ AfterInactive(k) \in Seq(Calls) /\ Ordered(k, AfterInactive(k))
<1> USE PlansTyped, PlansOrdered
<1>1. CASE k = "priority"
  <2>1. AfterActive(k) = PriorityCalls /\ AfterInactive(k) = <<"truncate", "puts">>
    BY <1>1 DEF AfterActive, AfterInactive
  <2>2. QED
    BY <1>1, <2>1
<1>2. CASE k = "stop"
  <2>1. AfterActive(k) = StopCalls /\ AfterInactive(k) = <<>>
    BY <1>2 DEF AfterActive, AfterInactive
  <2>2. QED
    BY <1>2, <2>1
<1>3. CASE k = "start"
  <2>1. AfterActive(k) = <<>> /\ AfterInactive(k) = StartCalls
    BY <1>3 DEF AfterActive, AfterInactive
  <2>2. QED
    BY <1>3, <2>1
<1>4. CASE k \in {"up", "down", "restart", "kill", "signal", "sigterm"}
  <2>1. AfterInactive(k) = <<>>
    BY <1>4 DEF AfterInactive
  <2>2. /\ k = "up" => AfterActive(k) = <<"create_up">>
        /\ k = "down" => AfterActive(k) = <<"remove_up">>
        /\ k = "restart" => AfterActive(k) = <<"create_up", "open", "write">>
        /\ k = "kill" => AfterActive(k) = <<"create_up", "open_nonblock", "write">>
        /\ k = "signal" => AfterActive(k) = <<"open", "write">>
        /\ k = "sigterm" => AfterActive(k) = <<"remove_up", "open", "write">>
    BY DEF AfterActive
  <2>3. AfterActive(k) \in Seq(Calls) /\ Ordered(k, AfterActive(k))
    BY <1>4, <2>2
  <2>4. QED
    BY <2>1, <2>3
<1>5. CASE k \notin {"priority", "stop", "start", "up", "down", "restart", "kill", "signal", "sigterm"}
  <2>1. AfterActive(k) = <<>> /\ AfterInactive(k) = <<>>
    BY <1>5 DEF AfterActive, AfterInactive
  <2>2. QED
    BY <2>1
<1>6. QED
  BY <1>1, <1>2, <1>3, <1>4, <1>5

\* The first call of a list that act begins.
LEMMA ActiveHead ==
    ASSUME NEW k, AfterActive(k) # <<>>
    PROVE  /\ Head(AfterActive(k)) \in {"linkname", "remove_up", "create_up", "open"}
           /\ k = "stop" => Head(AfterActive(k)) = "remove_up"
<1> DEFINE s == AfterActive(k)
<1>1. k \in {"priority", "stop", "up", "down", "restart", "kill", "signal", "sigterm"}
  BY DEF AfterActive
<1>2. /\ k = "priority" => s = PriorityCalls
      /\ k = "stop" => s = StopCalls
      /\ k = "up" => s = <<"create_up">>
      /\ k = "down" => s = <<"remove_up">>
      /\ k = "restart" => s = <<"create_up", "open", "write">>
      /\ k = "kill" => s = <<"create_up", "open_nonblock", "write">>
      /\ k = "signal" => s = <<"open", "write">>
      /\ k = "sigterm" => s = <<"remove_up", "open", "write">>
  BY DEF AfterActive
<1>3. Head(PriorityCalls) = "linkname" /\ Head(StopCalls) = "remove_up"
  BY DEF PriorityCalls, StopCalls
<1> HIDE DEF s
<1>4. /\ Head(s) \in {"linkname", "remove_up", "create_up", "open"}
      /\ k = "stop" => Head(s) = "remove_up"
  BY <1>1, <1>2, <1>3
<1>5. QED
  BY <1>4 DEF s

\* The same when the service was found inactive.
LEMMA InactiveHead ==
    ASSUME NEW k, AfterInactive(k) # <<>>
    PROVE  /\ Head(AfterInactive(k)) \in {"truncate", "create_up"}
           /\ k # "stop"
<1>1. k \in {"priority", "start"}
  BY DEF AfterInactive
<1>2. /\ k = "priority" => AfterInactive(k) = <<"truncate", "puts">>
      /\ k = "start" => AfterInactive(k) = StartCalls
  BY DEF AfterInactive
<1>3. Head(StartCalls) = "create_up"
  BY DEF StartCalls
<1>4. QED
  BY <1>1, <1>2, <1>3

-----------------------------------------------------------------------------
(* Types *)

\* A monitor that is in its loop serves a directory, alone, and run is only alive
\* under one that is.
MonitorInv ==
    /\ \A p \in Pids : monitors[p] = "serving" => serves[p] \in Dirs
    /\ \A p \in Pids : loop[p] # "setup" => serves[p] \in Dirs /\ monitors[p] = "serving"
    /\ \A p, q \in Pids : serves[p] \in Dirs /\ serves[p] = serves[q] => p = q
    /\ \A d \in run : \E p \in Pids : serves[p] = d /\ loop[p] # "setup"

TypeInv == TypeOK /\ PlanInv /\ MonitorInv

ScanTypes ==
    /\ pc \in {"reap", "start", "sleep", "exited"}
    /\ todo \subseteq Names
    /\ services \subseteq Dirs
    /\ pid \in [Dirs -> Pids \cup {NoPid}]
    /\ active \in [Dirs -> BOOLEAN]
    /\ flag_stop \in BOOLEAN
    /\ monitors \in [Pids -> {"free", "starting", "serving", "zombie"}]
    /\ name \in [Pids -> Names \cup {0}]
    /\ serves \in [Pids -> Dirs \cup {NoDir}]
    /\ orphans \subseteq Pids
LinkTypes == links \in [Names -> Dirs \cup {NoDir, Junk}]
CountTypes == events \in 0..MaxEvents /\ commands \in 0..MaxCommands
ClientTypes ==
    /\ calls \in [Clients -> Seq(Calls)]
    /\ cmd \in [Clients -> Commands \cup {"none"}]
    /\ arg_name \in [Clients -> Dirs \cup {NoDir}]
    /\ arg_priority \in [Clients -> Names \cup {NoName}]
    /\ seen \in [Clients -> SUBSET Names]
    /\ link \in [Clients -> Names \cup {NoName}]
LinkRead == \A c \in Clients : Running(c) /\ Head(calls[c]) \in {"add", "remove"}
                               => link[c] \in Names
FileTypes ==
    /\ priority \in [Dirs -> Names \cup {NoName}]
    /\ up \in [Dirs -> BOOLEAN] /\ fifo \in [Dirs -> BOOLEAN]
    /\ control \in [Dirs -> Seq(Byte)]
LoopTypes == loop \in [Pids -> {"setup", "check", "start", "poll"}] /\ run \subseteq Dirs
GhostTypes ==
    /\ last \in [Dirs -> {"none", "start", "stop"}]
    /\ disturbed \in [Dirs -> {"never", "before", "now"}]

\* The type invariant by groups of variables.
LEMMA TypeParts ==
    TypeOK <=> /\ ScanTypes /\ LinkTypes /\ CountTypes /\ ClientTypes /\ LinkRead
               /\ FileTypes /\ LoopTypes /\ GhostTypes
<1>1. S!TypeOK <=> ScanTypes /\ LinkTypes /\ events \in 0..MaxEvents
  BY DEF S!TypeOK, ScanTypes, LinkTypes
<1>2. LinkRead <=> \A c \in Clients : calls[c] # <<>> /\ Head(calls[c]) \in {"add", "remove"}
                           => link[c] \in Names
  BY DEF LinkRead, Running
<1>3. QED
  BY <1>1, <1>2 DEF TypeOK, CountTypes, ClientTypes, FileTypes, LoopTypes, GhostTypes

\* The types hold at first.
LEMMA InitTypes == Init => TypeInv
<1> SUFFICES ASSUME Init PROVE TypeInv
  OBVIOUS
<1>1. ScanTypes
  <2>1. /\ pc \in {"reap", "start", "sleep", "exited"} /\ flag_stop \in BOOLEAN
        /\ todo \subseteq Names /\ services \subseteq Dirs /\ orphans \subseteq Pids
    BY DEF Init
  <2>2. /\ pid \in [Dirs -> Pids \cup {NoPid}] /\ active \in [Dirs -> BOOLEAN]
    BY DEF Init
  <2>3. /\ monitors \in [Pids -> {"free", "starting", "serving", "zombie"}]
        /\ name \in [Pids -> Names \cup {0}]
        /\ serves \in [Pids -> Dirs \cup {NoDir}]
    BY DEF Init
  <2>4. QED
    BY <2>1, <2>2, <2>3 DEF ScanTypes
<1>2. LinkTypes
  BY DEF Init, LinkTypes
<1>3. CountTypes
  BY BoundAssumption DEF Init, CountTypes
<1>4. ClientTypes
  <2>1. calls \in [Clients -> Seq(Calls)]
    BY DEF Init
  <2>2. /\ cmd \in [Clients -> Commands \cup {"none"}]
        /\ arg_name \in [Clients -> Dirs \cup {NoDir}]
    BY DEF Init
  <2>3. /\ arg_priority \in [Clients -> Names \cup {NoName}]
        /\ seen \in [Clients -> SUBSET Names]
        /\ link \in [Clients -> Names \cup {NoName}]
    BY DEF Init
  <2>4. QED
    BY <2>1, <2>2, <2>3 DEF ClientTypes
<1>5. LinkRead
  BY DEF Init, LinkRead, Running
<1>6. FileTypes
  <2>1. control \in [Dirs -> Seq(Byte)]
    BY DEF Init
  <2>2. QED
    BY <2>1 DEF Init, FileTypes
<1>7. LoopTypes
  BY DEF Init, LoopTypes
<1>8. GhostTypes
  BY DEF Init, GhostTypes
<1>9. PlanInv
  BY DEF Init, PlanInv, Running
<1>10. MonitorInv
  BY ValuesAssumption DEF Init, MonitorInv
<1>11. QED
  BY <1>1, <1>2, <1>3, <1>4, <1>5, <1>6, <1>7, <1>8, <1>9, <1>10, TypeParts DEF TypeInv

\* What a client can have next after the call it is at.
LEMMA NextCall ==
    ASSUME ClientTypes, PlanInv, NEW c \in Clients, Running(c),
           NEW s, s = calls[c]
    PROVE  /\ s \in Seq(Calls) /\ Tail(s) \in Seq(Calls) /\ Ordered(cmd[c], Tail(s))
           /\ Head(s) \in Calls
           /\ Head(s) \in {"readdir"} => Tail(s) # <<>>
           /\ Tail(s) # <<>> =>
                /\ Head(Tail(s)) \in {"add", "remove"} => Head(s) = "linkname"
                /\ Head(Tail(s)) = "truncate" => Head(s) = "remove"
                /\ Head(Tail(s)) = "puts" => Head(s) = "truncate"
                /\ Head(Tail(s)) = "resolve" => Head(s) = "readdir"
                /\ Head(Tail(s)) # "readdir"
           /\ Head(s) \in {"open", "open_nonblock"} => Tail(s) # <<>> /\ Head(Tail(s)) = "write"
           /\ Head(s) = "truncate" => Tail(s) # <<>> /\ Head(Tail(s)) = "puts"
           /\ Head(s) \notin {"readdir", "next", "open_nonblock", "write"} => cmd[c] # "killall"
           /\ Head(s) = "next" => cmd[c] = "killall"
           /\ cmd[c] = "killall" => Tail(s) = <<>> \/ Head(Tail(s)) # "resolve"
           /\ cmd[c] = "stop" =>
                /\ Head(s) \in {"readdir", "resolve", "remove_up", "linkname", "remove",
                                "open_nonblock", "write"}
                /\ Head(s) = "readdir" => Head(Tail(s)) = "resolve"
                /\ Tail(s) # <<>> => Head(Tail(s)) # "remove_up"
                /\ Tail(s) = <<>> => Head(s) \in {"resolve", "write"}
<1>1. s \in Seq(Calls) /\ s # <<>> /\ Ordered(cmd[c], s)
  BY DEF ClientTypes, PlanInv, Running
<1>2. /\ Tail(s) \in Seq(Calls) /\ Len(Tail(s)) = Len(s) - 1 /\ Len(s) \in Nat \ {0}
      /\ Head(s) = s[1] /\ s[1] \in Calls
  BY <1>1, TailFacts
<1>3. Tail(s) # <<>> <=> Len(s) > 1
  BY <1>1, <1>2
<1>4. Tail(s) # <<>> => Head(Tail(s)) = s[2]
  BY <1>1, <1>2, TailFacts
<1>5. Ordered(cmd[c], Tail(s))
  BY <1>1, TailOrdered
<1>6. Legal(cmd[c], s, 1)
  BY <1>1, <1>2 DEF Ordered
<1>7. Len(s) > 1 => Legal(cmd[c], s, 2)
  BY <1>1, <1>2 DEF Ordered
<1>8. s[1] = "readdir" => Len(s) > 1
  BY <1>2, <1>6 DEF Legal
<1>9. Len(s) > 1 =>
        /\ s[2] \in {"add", "remove"} => s[1] = "linkname"
        /\ s[2] = "truncate" => s[1] = "remove"
        /\ s[2] = "puts" => s[1] = "truncate"
        /\ s[2] = "resolve" => s[1] = "readdir"
        /\ s[2] # "readdir"
  BY <1>7 DEF Legal
<1>10. /\ s[1] \in {"open", "open_nonblock"} => Len(s) > 1 /\ s[2] = "write"
       /\ s[1] = "truncate" => Len(s) > 1 /\ s[2] = "puts"
  BY <1>6 DEF Legal
<1>11. /\ s[1] \notin {"readdir", "next", "open_nonblock", "write"} => cmd[c] # "killall"
       /\ s[1] = "next" => cmd[c] = "killall"
       /\ cmd[c] = "killall" /\ Len(s) > 1 => s[2] # "resolve"
  BY <1>6, <1>7 DEF Legal
<1>12. cmd[c] = "stop" =>
         /\ s[1] \in {"readdir", "resolve", "remove_up", "linkname", "remove",
                      "open_nonblock", "write"}
         /\ s[1] = "readdir" => s[2] = "resolve"
         /\ Len(s) > 1 => s[2] # "remove_up"
         /\ Len(s) = 1 => s[1] \in {"resolve", "write"}
  BY <1>6, <1>7 DEF Legal
<1>13. Tail(s) = <<>> => Len(s) = 1
  <2>1. Tail(s) = <<>> => ~(Len(s) > 1)
    BY <1>3
  <2>2. Len(s) \in Nat /\ Len(s) # 0
    BY <1>2
  <2>3. \A m \in Nat : m # 0 /\ ~(m > 1) => m = 1
    OBVIOUS
  <2>4. QED
    BY <2>1, <2>2, <2>3
<1>14. s \in Seq(Calls) /\ Tail(s) \in Seq(Calls) /\ Head(s) = s[1] /\ s[1] \in Calls
  BY <1>1, <1>2
<1>15. cmd[c] = "stop" =>
         /\ Head(s) \in {"readdir", "resolve", "remove_up", "linkname", "remove",
                         "open_nonblock", "write"}
         /\ Head(s) = "readdir" => Head(Tail(s)) = "resolve"
         /\ Tail(s) # <<>> => Head(Tail(s)) # "remove_up"
         /\ Tail(s) = <<>> => Head(s) \in {"resolve", "write"}
  BY <1>3, <1>4, <1>8, <1>12, <1>13, <1>14
<1>16. /\ Head(s) \in {"readdir"} => Tail(s) # <<>>
       /\ Tail(s) # <<>> =>
            /\ Head(Tail(s)) \in {"add", "remove"} => Head(s) = "linkname"
            /\ Head(Tail(s)) = "truncate" => Head(s) = "remove"
            /\ Head(Tail(s)) = "puts" => Head(s) = "truncate"
            /\ Head(Tail(s)) = "resolve" => Head(s) = "readdir"
            /\ Head(Tail(s)) # "readdir"
  BY <1>3, <1>4, <1>8, <1>9, <1>14
<1>17. /\ Head(s) \in {"open", "open_nonblock"} => Tail(s) # <<>> /\ Head(Tail(s)) = "write"
       /\ Head(s) = "truncate" => Tail(s) # <<>> /\ Head(Tail(s)) = "puts"
       /\ Head(s) \notin {"readdir", "next", "open_nonblock", "write"} => cmd[c] # "killall"
       /\ Head(s) = "next" => cmd[c] = "killall"
       /\ cmd[c] = "killall" => Tail(s) = <<>> \/ Head(Tail(s)) # "resolve"
  BY <1>3, <1>4, <1>10, <1>11, <1>14
<1>18. QED
  BY <1>5, <1>14, <1>15, <1>16, <1>17

\* The same for a list that begins with a known call.
LEMMA TailNext ==
    ASSUME NEW k, NEW s \in Seq(Calls), s # <<>>, Ordered(k, s), Head(s) \in {"puts", "write"}
    PROVE  /\ Tail(s) \in Seq(Calls) /\ Ordered(k, Tail(s))
           /\ Tail(s) # <<>> => Head(Tail(s)) \notin
                {"add", "remove", "truncate", "puts", "resolve", "readdir"}
           /\ k = "stop" =>
                Head(s) = "write" /\ (Tail(s) # <<>> => Head(Tail(s)) # "remove_up")
<1>1. /\ Tail(s) \in Seq(Calls) /\ Len(Tail(s)) = Len(s) - 1 /\ Len(s) \in Nat /\ Len(s) # 0
      /\ Head(s) = s[1]
  BY TailFacts
<1>2. Legal(k, s, 1)
  BY <1>1 DEF Ordered
<1>3. Tail(s) # <<>> => Len(s) > 1 /\ Head(Tail(s)) = s[2]
  BY <1>1, TailFacts
<1>4. Len(s) > 1 => Legal(k, s, 2)
  BY <1>1 DEF Ordered
<1>5. Len(s) > 1 => s[2] \notin
        {"add", "remove", "truncate", "puts", "resolve", "readdir"}
  BY <1>1, <1>4 DEF Legal
<1>6. k = "stop" /\ Len(s) > 1 => s[2] # "remove_up"
  BY <1>1, <1>2, <1>4 DEF Legal
<1>7. k = "stop" => Head(s) = "write"
  BY <1>1, <1>2 DEF Legal
<1>8. QED
  BY <1>1, <1>3, <1>5, <1>6, <1>7, TailOrdered

ClientParts == ClientTypes /\ LinkRead /\ PlanInv

\* Steps of others leave the clients their types.
LEMMA ClientKept ==
    ASSUME ClientParts, UNCHANGED client_vars
    PROVE  ClientParts'
<1> USE DEF ClientParts, client_vars
<1>1. ClientTypes'
  BY DEF ClientTypes
<1>2. LinkRead'
  BY DEF LinkRead, Running
<1>3. PlanInv'
  BY DEF PlanInv, Running
<1>4. QED
  BY <1>1, <1>2, <1>3

\* A client gets a new list of calls, the others stay as they are.
LEMMA PlanKept ==
    ASSUME ClientParts, NEW c \in Clients, NEW s \in Seq(Calls),
           calls' = [calls EXCEPT ![c] = s],
           \A b \in Clients \ {c} :
               cmd'[b] = cmd[b] /\ arg_name'[b] = arg_name[b] /\ link'[b] = link[b],
           s # <<>> => /\ cmd'[c] \in Commands /\ Ordered(cmd'[c], s)
                       /\ cmd'[c] # "killall" => arg_name'[c] \in Dirs
                       /\ Head(s) \in {"add", "remove"} => link'[c] \in Names
    PROVE  PlanInv' /\ LinkRead' /\ calls' \in [Clients -> Seq(Calls)]
<1>1. calls' \in [Clients -> Seq(Calls)] /\ calls'[c] = s
      /\ \A b \in Clients \ {c} : calls'[b] = calls[b]
  BY DEF ClientParts, ClientTypes
<1>2. PlanInv'
  <2>1. SUFFICES ASSUME NEW b \in Clients, calls'[b] # <<>>
                 PROVE  /\ cmd'[b] \in Commands
                        /\ Ordered(cmd'[b], calls'[b])
                        /\ cmd'[b] # "killall" => arg_name'[b] \in Dirs
    BY DEF PlanInv, Running, Ordered, Legal
  <2>2. CASE b = c
    BY <1>1, <2>1, <2>2
  <2>3. CASE b # c
    BY <1>1, <2>1, <2>3 DEF ClientParts, PlanInv, Running
  <2>4. QED
    BY <2>2, <2>3
<1>3. LinkRead'
  <2>1. SUFFICES ASSUME NEW b \in Clients, calls'[b] # <<>>, Head(calls'[b]) \in {"add", "remove"}
                 PROVE  link'[b] \in Names
    BY DEF LinkRead, Running
  <2>2. CASE b = c
    BY <1>1, <2>1, <2>2
  <2>3. CASE b # c
    BY <1>1, <2>1, <2>3 DEF ClientParts, LinkRead, Running
  <2>4. QED
    BY <2>2, <2>3
<1>4. QED
  BY <1>1, <1>2, <1>3

\* A client that exits has nothing left to call.
LEMMA ExitTypes ==
    ASSUME ClientParts, NEW c \in Clients, exit(c)
    PROVE  ClientParts'
<1>1. /\ calls' = [calls EXCEPT ![c] = <<>>]
      /\ \A b \in Clients \ {c} :
            cmd'[b] = cmd[b] /\ arg_name'[b] = arg_name[b] /\ link'[b] = link[b]
  BY DEF exit, ClientParts, ClientTypes
<1>2. PlanInv' /\ LinkRead' /\ calls' \in [Clients -> Seq(Calls)]
  BY <1>1, PlanKept, PlansTyped
<1>3. /\ cmd' \in [Clients -> Commands \cup {"none"}]
      /\ arg_name' \in [Clients -> Dirs \cup {NoDir}]
      /\ arg_priority' \in [Clients -> Names \cup {NoName}]
  BY DEF exit, ClientParts, ClientTypes
<1>4. /\ seen' \in [Clients -> SUBSET Names]
      /\ link' \in [Clients -> Names \cup {NoName}]
  BY DEF exit, ClientParts, ClientTypes
<1>5. QED
  BY <1>2, <1>3, <1>4 DEF ClientParts, ClientTypes

\* A client that goes on with a tail of its calls keeps its types.
LEMMA ProceedTypes ==
    ASSUME ClientParts, GhostTypes, NEW c \in Clients, Running(c), NEW rest \in Seq(Calls),
           proceed(c, rest), Ordered(cmd[c], rest),
           rest # <<>> => Head(rest) \notin {"add", "remove"}
    PROVE  ClientParts' /\ last' \in [Dirs -> {"none", "start", "stop"}]
<1>1. CASE rest = <<>>
  <2>1. exit(c) /\ last' \in [Dirs -> {"none", "start", "stop"}]
    BY <1>1 DEF proceed, GhostTypes
  <2>2. QED
    BY <2>1, ExitTypes
<1>2. CASE rest # <<>>
  <2>1. /\ calls' = [calls EXCEPT ![c] = rest]
        /\ link' = [link EXCEPT ![c] = NoName]
        /\ UNCHANGED <<cmd, arg_name, arg_priority, seen, last>>
    BY <1>2 DEF proceed
  <2>2. cmd[c] \in Commands /\ (cmd[c] # "killall" => arg_name[c] \in Dirs)
    BY DEF ClientParts, PlanInv
  <2>3. link' \in [Clients -> Names \cup {NoName}]
        /\ \A b \in Clients \ {c} : link'[b] = link[b]
    BY <2>1 DEF ClientParts, ClientTypes
  <2>4. PlanInv' /\ LinkRead' /\ calls' \in [Clients -> Seq(Calls)]
    BY <1>2, <2>1, <2>2, <2>3, PlanKept
  <2>5. QED
    BY <2>1, <2>3, <2>4 DEF ClientParts, ClientTypes, GhostTypes
<1>3. QED
  BY <1>1, <1>2

\* A client that has found out whether the service is active keeps its types.
LEMMA ActTypes ==
    ASSUME ClientParts, NEW c \in Clients, Running(c), cmd[c] # "killall",
           NEW rest \in {AfterActive(cmd[c]), AfterInactive(cmd[c])}, act(c, rest)
    PROVE  ClientParts'
<1>1. CASE rest = <<>>
  BY <1>1, ExitTypes DEF act
<1>2. CASE rest # <<>>
  <2>1. /\ calls' = [calls EXCEPT ![c] = rest]
        /\ seen' = [seen EXCEPT ![c] = {}]
        /\ UNCHANGED <<cmd, arg_name, arg_priority, link>>
    BY <1>2 DEF act
  <2>2. cmd[c] \in Commands /\ arg_name[c] \in Dirs
    BY DEF ClientParts, PlanInv
  <2>3. rest \in Seq(Calls) /\ Ordered(cmd[c], rest)
    BY AfterCases
  <2>4. Head(rest) \notin {"add", "remove"}
    <3>1. CASE rest = AfterActive(cmd[c])
      BY <1>2, <3>1, ActiveHead
    <3>2. CASE rest = AfterInactive(cmd[c])
      BY <1>2, <3>2, InactiveHead
    <3>3. QED
      BY <3>1, <3>2
  <2>5. PlanInv' /\ LinkRead' /\ calls' \in [Clients -> Seq(Calls)]
    BY <2>1, <2>2, <2>3, <2>4, PlanKept
  <2>6. seen' \in [Clients -> SUBSET Names]
    BY <2>1 DEF ClientParts, ClientTypes
  <2>7. QED
    BY <2>1, <2>5, <2>6 DEF ClientParts, ClientTypes
<1>3. QED
  BY <1>1, <1>2

-----------------------------------------------------------------------------
(* Types, step by step *)

ScannerTypes == ScanTypes /\ LoopTypes /\ MonitorInv

\* Steps of clients leave the scanner and the monitors their types.
LEMMA MonitorKept ==
    ASSUME ScannerTypes, UNCHANGED <<scanner_vars, monitor_vars>>
    PROVE  ScannerTypes'
<1> USE DEF ScannerTypes, scanner_vars, monitor_vars
<1>1. ScanTypes'
  BY DEF ScanTypes
<1>2. LoopTypes'
  BY DEF LoopTypes
<1>3. MonitorInv'
  BY DEF MonitorInv
<1>4. QED
  BY <1>1, <1>2, <1>3

\* TypeInv by who changes what.
LEMMA TypeGroups ==
    TypeInv <=> /\ ScannerTypes /\ LinkTypes /\ CountTypes /\ ClientParts
                /\ FileTypes /\ GhostTypes
  BY TypeParts DEF TypeInv, ScannerTypes, ClientParts

\* The same for the next state.
LEMMA TypeGroupsNext ==
    ScannerTypes' /\ LinkTypes' /\ CountTypes' /\ ClientParts' /\ FileTypes' /\ GhostTypes'
    => TypeInv'
<1>1. SUFFICES ASSUME ScannerTypes', LinkTypes', CountTypes', ClientParts', FileTypes',
                      GhostTypes'
               PROVE  TypeInv'
  OBVIOUS
<1>2. S!TypeOK'
  BY <1>1 DEF S!TypeOK, ScannerTypes, ScanTypes, LinkTypes, CountTypes
<1>3. \A c \in Clients : calls'[c] # <<>> /\ Head(calls'[c]) \in {"add", "remove"}
                           => link'[c] \in Names
  BY <1>1 DEF ClientParts, LinkRead, Running
<1>4. TypeOK'
  BY <1>1, <1>2, <1>3 DEF TypeOK, ScannerTypes, LoopTypes, CountTypes, ClientParts,
     ClientTypes, FileTypes, GhostTypes
<1>5. QED
  BY <1>1, <1>4 DEF TypeInv, ScannerTypes, ClientParts

\* A step of the scan keeps the types.
LEMMA ScanStep ==
    ASSUME TypeInv, Scan
    PROVE  TypeInv'
<1>1. /\ S!Scan /\ UNCHANGED <<loop, run, client_vars, file_vars, ghost_vars, commands>>
      /\ ScanTypes /\ LinkTypes /\ CountTypes
  BY TypeGroups DEF Scan, ScannerTypes
<1>2. ScanTypes' /\ UNCHANGED <<links, serves>> /\ events' \in 0..MaxEvents
  <2> USE DEF S!table, S!processes, S!Event
  <2>1. ASSUME NEW p \in Pids, S!monitor_done(p) PROVE ScanTypes' /\ UNCHANGED <<links, serves>> /\ events' \in 0..MaxEvents
    <3>1. /\ monitors' = [monitors EXCEPT ![p] = "free"] /\ S!Done(p)
          /\ UNCHANGED <<pc, todo, services, active, flag_stop, links, name, serves, orphans, events>>
      BY <2>1 DEF S!monitor_done
    <3>2. pid' \in [Dirs -> Pids \cup {NoPid}]
      BY <1>1, <3>1 DEF S!Done, ScanTypes
    <3>3. QED
      BY <1>1, <3>1, <3>2 DEF ScanTypes, CountTypes
  <2>2. CASE S!read_directory
    <3>1. /\ pc' \in {"start", "sleep"} /\ todo' \subseteq Names
          /\ events' \in 0..MaxEvents
      BY <1>1, <2>2, BoundAssumption DEF S!read_directory, ScanTypes, CountTypes
    <3>2. UNCHANGED <<services, pid, active, flag_stop, links, monitors, name, serves, orphans>>
      BY <2>2 DEF S!read_directory
    <3>3. QED
      BY <1>1, <3>1, <3>2 DEF ScanTypes
  <2>3. ASSUME NEW n \in Names, S!start(n) PROVE ScanTypes' /\ UNCHANGED <<links, serves>> /\ events' \in 0..MaxEvents
    <3>1. todo' \subseteq Names /\ UNCHANGED <<pc, flag_stop, links, orphans>>
      BY <1>1, <2>3 DEF S!start, ScanTypes
    <3>2. services' \subseteq Dirs /\ active' \in [Dirs -> BOOLEAN]
      BY <1>1, <2>3 DEF S!start, S!Directory, ScanTypes
    <3>3. /\ pid' \in [Dirs -> Pids \cup {NoPid}]
          /\ monitors' \in [Pids -> {"free", "starting", "serving", "zombie"}]
          /\ name' \in [Pids -> Names \cup {0}]
      BY <1>1, <2>3 DEF S!start, S!create_process, ScanTypes
    <3>4. UNCHANGED serves /\ events' \in 0..MaxEvents
      BY <1>1, <2>3, BoundAssumption DEF S!start, S!create_process, CountTypes
    <3>5. QED
      BY <1>1, <3>1, <3>2, <3>3, <3>4 DEF ScanTypes
  <2>4. CASE S!clear_services
    <3>1. /\ services' \subseteq Dirs /\ active' \in [Dirs -> BOOLEAN]
          /\ pid' \in [Dirs -> Pids \cup {NoPid}]
      BY <1>1, <2>4 DEF S!clear_services, ScanTypes
    <3>2. /\ todo' = {} /\ pc' = "sleep"
          /\ UNCHANGED <<flag_stop, links, monitors, name, serves, orphans, events>>
      BY <2>4 DEF S!clear_services
    <3>3. QED
      BY <1>1, <3>1, <3>2 DEF ScanTypes, CountTypes
  <2>5. CASE S!scan_again
    BY <1>1, <2>5 DEF S!scan_again, ScanTypes, CountTypes
  <2>6. QED
    BY <1>1, <2>1, <2>2, <2>3, <2>4, <2>5 DEF S!Scan
<1>3. \A p \in Pids : monitors[p] = "serving" <=> monitors'[p] = "serving"
  <2> USE DEF S!table, S!processes, ScanTypes
  <2>1. ASSUME NEW p \in Pids, S!monitor_done(p) PROVE \A q \in Pids : monitors[q] = "serving" <=> monitors'[q] = "serving"
    BY <1>1, <2>1 DEF S!monitor_done
  <2>2. CASE S!read_directory \/ S!clear_services \/ S!scan_again
    BY <2>2 DEF S!read_directory, S!clear_services, S!scan_again
  <2>3. ASSUME NEW n \in Names, S!start(n) PROVE \A q \in Pids : monitors[q] = "serving" <=> monitors'[q] = "serving"
    BY <1>1, <2>3 DEF S!start, S!create_process
  <2>4. QED
    BY <1>1, <2>1, <2>2, <2>3 DEF S!Scan
<1>4. MonitorInv'
  BY <1>1, <1>2, <1>3, TypeGroups DEF MonitorInv, ScannerTypes
<1>5. ScannerTypes'
  BY <1>1, <1>2, <1>4, TypeGroups DEF ScannerTypes, LoopTypes
<1>6. ClientParts'
  BY <1>1, ClientKept, TypeGroups
<1>7. LinkTypes' /\ CountTypes'
  BY <1>1, <1>2 DEF LinkTypes, CountTypes
<1>8. FileTypes' /\ GhostTypes'
  BY <1>1, TypeGroups DEF FileTypes, GhostTypes, file_vars, ghost_vars
<1>9. QED
  BY <1>5, <1>6, <1>7, <1>8, TypeGroupsNext

\* A scan serves nobody and changes no link.
LEMMA ScanServes ==
    ASSUME Scan
    PROVE  UNCHANGED <<links, serves>>
  BY DEF Scan, S!Scan, S!monitor_done, S!read_directory, S!start, S!create_process,
     S!clear_services, S!scan_again, S!processes, S!Event

\* A client that only looks keeps the types.
LEMMA ReadStep ==
    ASSUME TypeInv, NEW c \in Clients, readdir(c) \/ resolve(c) \/ killall_next(c)
                                       \/ service_linkname(c)
    PROVE  TypeInv'
<1> DEFINE s == calls[c]
<1>1. ClientParts /\ ClientTypes /\ PlanInv
  BY TypeGroups DEF ClientParts
<1>2. ClientParts' /\ UNCHANGED <<scanner_vars, links, monitor_vars, file_vars, ghost_vars,
                                  events, commands>>
  <2>1. CASE readdir(c)
    <3>1. /\ Running(c) /\ Head(s) = "readdir" /\ calls' = [calls EXCEPT ![c] = Tail(s)]
          /\ seen' = [seen EXCEPT ![c] = {n \in Names : links[n] # NoDir}]
          /\ UNCHANGED <<cmd, arg_name, arg_priority, link>>
          /\ UNCHANGED <<scanner_vars, links, monitor_vars, file_vars, ghost_vars,
                         events, commands>>
      BY <1>1, <2>1 DEF readdir, at, ClientTypes
    <3>2. /\ Tail(s) \in Seq(Calls) /\ Ordered(cmd[c], Tail(s))
          /\ Tail(s) # <<>> /\ Head(Tail(s)) \notin {"add", "remove"}
      BY <1>1, <3>1, NextCall
    <3>3. cmd[c] \in Commands /\ (cmd[c] # "killall" => arg_name[c] \in Dirs)
      BY <1>1, <3>1 DEF PlanInv
    <3>4. PlanInv' /\ LinkRead' /\ calls' \in [Clients -> Seq(Calls)]
      BY <1>1, <3>1, <3>2, <3>3, PlanKept
    <3>5. ClientTypes'
      BY <1>1, <3>1, <3>4 DEF ClientTypes
    <3>6. QED
      BY <3>1, <3>4, <3>5 DEF ClientParts
  <2>2. CASE resolve(c)
    <3>1. /\ Running(c) /\ Head(s) = "resolve"
          /\ UNCHANGED <<scanner_vars, links, monitor_vars, file_vars, ghost_vars,
                         events, commands>>
      BY <2>2 DEF resolve, at
    <3>2. cmd[c] # "killall"
      BY <1>1, <3>1, NextCall
    <3>3. \/ act(c, AfterActive(cmd[c])) \/ act(c, AfterInactive(cmd[c])) \/ exit(c)
          \/ /\ \E n \in seen[c] : seen' = [seen EXCEPT ![c] = @ \ {n}]
             /\ UNCHANGED <<calls, cmd, arg_name, arg_priority, link>>
      BY <2>2 DEF resolve
    <3>4. CASE act(c, AfterActive(cmd[c])) \/ act(c, AfterInactive(cmd[c]))
      BY <1>1, <3>1, <3>2, <3>4, ActTypes
    <3>5. CASE exit(c)
      BY <1>1, <3>1, <3>5, ExitTypes
    <3>6. CASE /\ \E n \in seen[c] : seen' = [seen EXCEPT ![c] = @ \ {n}]
               /\ UNCHANGED <<calls, cmd, arg_name, arg_priority, link>>
      BY <1>1, <3>1, <3>6 DEF ClientParts, ClientTypes, LinkRead, PlanInv, Running
    <3>7. QED
      BY <3>1, <3>3, <3>4, <3>5, <3>6
  <2>3. CASE killall_next(c)
    <3>1. /\ Running(c) /\ Head(s) = "next"
          /\ UNCHANGED <<scanner_vars, links, monitor_vars, file_vars, ghost_vars,
                         events, commands>>
      BY <2>3 DEF killall_next, at
    <3>2. cmd[c] = "killall"
      BY <1>1, <3>1, NextCall
    <3>3. CASE exit(c)
      BY <1>1, <3>1, <3>3, ExitTypes
    <3>4. CASE /\ \E n \in seen[c] : seen' = [seen EXCEPT ![c] = @ \ {n}]
               /\ UNCHANGED <<calls, cmd, arg_name, arg_priority, link>>
      BY <1>1, <3>1, <3>4 DEF ClientParts, ClientTypes, LinkRead, PlanInv, Running
    <3>5. CASE \E n \in seen[c] :
                 /\ seen' = [seen EXCEPT ![c] = @ \ {n}]
                 /\ calls' = [calls EXCEPT ![c] = <<"open_nonblock", "write", "next">>]
                 /\ arg_name' = [arg_name EXCEPT ![c] =
                      IF \E d \in Dirs : OwnName[d] = n
                      THEN CHOOSE d \in Dirs : OwnName[d] = n ELSE NoDir]
                 /\ UNCHANGED <<cmd, arg_priority, link>>
      <4>1. PICK n \in seen[c] :
                 /\ seen' = [seen EXCEPT ![c] = @ \ {n}]
                 /\ calls' = [calls EXCEPT ![c] = <<"open_nonblock", "write", "next">>]
                 /\ arg_name' = [arg_name EXCEPT ![c] =
                      IF \E d \in Dirs : OwnName[d] = n
                      THEN CHOOSE d \in Dirs : OwnName[d] = n ELSE NoDir]
                 /\ UNCHANGED <<cmd, arg_priority, link>>
        BY <3>5
      <4>2. arg_name' \in [Clients -> Dirs \cup {NoDir}]
            /\ \A b \in Clients \ {c} : arg_name'[b] = arg_name[b]
        BY <1>1, <4>1 DEF ClientTypes
      <4>3. seen' \in [Clients -> SUBSET Names]
        BY <1>1, <4>1 DEF ClientTypes
      <4>4. cmd'[c] \in Commands /\ cmd'[c] = "killall"
        BY <1>1, <3>1, <3>2, <4>1 DEF PlanInv
      <4>5. Head(<<"open_nonblock", "write", "next">>) = "open_nonblock"
        OBVIOUS
      <4>6. PlanInv' /\ LinkRead' /\ calls' \in [Clients -> Seq(Calls)]
        BY <1>1, <4>1, <4>2, <4>4, <4>5, PlanKept, PlansTyped, PlansOrdered
      <4>7. ClientTypes'
        BY <1>1, <4>1, <4>2, <4>3, <4>6 DEF ClientTypes
      <4>8. QED
        BY <3>1, <4>6, <4>7 DEF ClientParts
    <3>6. QED
      BY <2>3, <3>3, <3>4, <3>5 DEF killall_next
  <2>4. CASE service_linkname(c)
    <3>1. /\ Running(c) /\ Head(s) = "linkname" /\ calls' = [calls EXCEPT ![c] = Tail(s)]
          /\ link' = [link EXCEPT ![c] = LinkName(arg_name[c])]
          /\ UNCHANGED <<cmd, arg_name, arg_priority, seen>>
          /\ UNCHANGED <<scanner_vars, links, monitor_vars, file_vars, ghost_vars,
                         events, commands>>
      BY <1>1, <2>4 DEF service_linkname, at, ClientTypes
    <3>2. /\ Tail(s) \in Seq(Calls) /\ Ordered(cmd[c], Tail(s)) /\ cmd[c] # "killall"
      BY <1>1, <3>1, NextCall
    <3>3. cmd[c] \in Commands /\ arg_name[c] \in Dirs
      BY <1>1, <3>1, <3>2 DEF PlanInv
    <3>4. LinkName(arg_name[c]) \in Names
      BY <3>3, OwnNameAssumption, TypeGroups DEF LinkName, FileTypes
    <3>5. link' \in [Clients -> Names \cup {NoName}] /\ link'[c] \in Names
          /\ \A b \in Clients \ {c} : link'[b] = link[b]
      BY <1>1, <3>1, <3>4 DEF ClientTypes
    <3>6. PlanInv' /\ LinkRead' /\ calls' \in [Clients -> Seq(Calls)]
      BY <1>1, <3>1, <3>2, <3>3, <3>5, PlanKept
    <3>7. ClientTypes'
      BY <1>1, <3>1, <3>5, <3>6 DEF ClientTypes
    <3>8. QED
      BY <3>1, <3>6, <3>7 DEF ClientParts
  <2>5. QED
    BY <2>1, <2>2, <2>3, <2>4
<1>3. ScannerTypes'
  BY <1>2, MonitorKept, TypeGroups
<1>4. LinkTypes' /\ CountTypes' /\ FileTypes' /\ GhostTypes'
  BY <1>2, TypeGroups DEF LinkTypes, CountTypes, FileTypes, GhostTypes, file_vars, ghost_vars
<1>5. QED
  BY <1>2, <1>3, <1>4, TypeGroupsNext

\* A client that adds or removes a link keeps the types.
LEMMA LinkStep ==
    ASSUME TypeInv, NEW c \in Clients, service_add(c) \/ service_remove(c)
    PROVE  TypeInv'
<1> DEFINE s == calls[c]
<1>1. ClientParts /\ ClientTypes /\ PlanInv /\ LinkRead /\ GhostTypes /\ LinkTypes
  BY TypeGroups DEF ClientParts
<1>2. /\ Running(c) /\ Head(s) \in {"add", "remove"}
      /\ UNCHANGED <<scanner_vars, monitor_vars, file_vars, disturbed, events, commands>>
  BY DEF service_add, service_remove, at
<1>3. link[c] \in Names /\ arg_name[c] \in Dirs
  BY <1>1, <1>2, NextCall DEF LinkRead, PlanInv
<1>4. LinkTypes'
  BY <1>1, <1>3 DEF service_add, service_remove, LinkTypes
<1>5. proceed(c, Tail(s)) \/ (exit(c) /\ UNCHANGED last)
  BY DEF service_add, service_remove
<1>6. /\ Tail(s) \in Seq(Calls) /\ Ordered(cmd[c], Tail(s))
      /\ Tail(s) # <<>> => Head(Tail(s)) \notin {"add", "remove"}
  BY <1>1, <1>2, NextCall
<1>7. ClientParts' /\ last' \in [Dirs -> {"none", "start", "stop"}]
  <2>1. CASE proceed(c, Tail(s))
    BY <1>1, <1>2, <1>6, <2>1, ProceedTypes
  <2>2. CASE exit(c) /\ UNCHANGED last
    BY <1>1, <2>2, ExitTypes DEF GhostTypes
  <2>3. QED
    BY <1>5, <2>1, <2>2
<1>8. ScannerTypes'
  BY <1>2, MonitorKept, TypeGroups
<1>9. CountTypes' /\ FileTypes' /\ GhostTypes'
  BY <1>2, <1>7, TypeGroups DEF CountTypes, FileTypes, GhostTypes, file_vars
<1>10. QED
  BY <1>4, <1>7, <1>8, <1>9, TypeGroupsNext

\* A client that changes FILE_PRIORITY or FILE_UP keeps the types.
LEMMA FileStep ==
    ASSUME TypeInv, NEW c \in Clients, service_priority(c) \/ service_up(c)
    PROVE  TypeInv'
<1> DEFINE s == calls[c]
<1>1. ClientParts /\ ClientTypes /\ PlanInv /\ GhostTypes /\ FileTypes /\ CountTypes
  BY TypeGroups DEF ClientParts
<1>2. /\ Running(c) /\ Head(s) \in {"truncate", "puts", "create_up", "remove_up"}
      /\ UNCHANGED <<scanner_vars, links, monitor_vars, fifo, control, disturbed, commands>>
  BY DEF service_priority, service_up, at
<1>3. arg_name[c] \in Dirs
  BY <1>1, <1>2, NextCall DEF PlanInv
<1>4. \/ proceed(c, Tail(s))
      \/ Head(s) = "truncate" /\ proceed(c, Tail(Tail(s)))
  BY DEF service_priority, service_up, at
<1>5. /\ Tail(s) \in Seq(Calls) /\ Ordered(cmd[c], Tail(s))
      /\ Tail(s) # <<>> => Head(Tail(s)) \notin {"add", "remove"}
  BY <1>1, <1>2, NextCall
<1>6. Head(s) = "truncate" =>
        /\ Tail(Tail(s)) \in Seq(Calls) /\ Ordered(cmd[c], Tail(Tail(s)))
        /\ Tail(Tail(s)) # <<>> => Head(Tail(Tail(s))) \notin {"add", "remove"}
  <2>1. SUFFICES ASSUME Head(s) = "truncate"
                 PROVE  /\ Tail(Tail(s)) \in Seq(Calls) /\ Ordered(cmd[c], Tail(Tail(s)))
                        /\ Tail(Tail(s)) # <<>> => Head(Tail(Tail(s))) \notin {"add", "remove"}
    OBVIOUS
  <2>2. Tail(s) # <<>> /\ Head(Tail(s)) = "puts"
    BY <1>1, <1>2, <2>1, NextCall
  <2>3. QED
    BY <1>5, <2>2, TailNext
<1>7. ClientParts' /\ last' \in [Dirs -> {"none", "start", "stop"}]
  <2>1. CASE proceed(c, Tail(s))
    BY <1>1, <1>2, <1>5, <2>1, ProceedTypes
  <2>2. CASE Head(s) = "truncate" /\ proceed(c, Tail(Tail(s)))
    BY <1>1, <1>2, <1>6, <2>2, ProceedTypes
  <2>3. QED
    BY <1>4, <2>1, <2>2
<1>8. events' \in 0..MaxEvents
  BY <1>1, BoundAssumption DEF service_priority, service_up, Event, CountTypes
<1>9. up' \in [Dirs -> BOOLEAN]
  BY <1>1 DEF service_priority, service_up, FileTypes
<1>10. priority' \in [Dirs -> Names \cup {NoName}]
  BY <1>1 DEF service_priority, service_up, FileTypes, ClientTypes
<1>11. FileTypes' /\ CountTypes' /\ GhostTypes' /\ LinkTypes'
  BY <1>1, <1>2, <1>7, <1>8, <1>9, <1>10, TypeGroups
  DEF FileTypes, CountTypes, GhostTypes, LinkTypes
<1>12. ScannerTypes'
  BY <1>2, MonitorKept, TypeGroups
<1>13. QED
  BY <1>7, <1>11, <1>12, TypeGroupsNext

\* Every command is a byte that the monitor knows.
LEMMA BytesTyped == \A k : CommandByte(k) \in Byte
  BY DEF CommandByte, Byte

\* A client that talks to a monitor keeps the types.
LEMMA CommandStep ==
    ASSUME TypeInv, NEW c \in Clients, monitor_command_open(c) \/ monitor_command_write(c)
    PROVE  TypeInv'
<1> DEFINE s == calls[c]
<1>1. ClientParts /\ ClientTypes /\ PlanInv /\ GhostTypes /\ FileTypes /\ MonitorInv
  BY TypeGroups DEF ClientParts, ScannerTypes
<1>2. /\ Running(c) /\ Head(s) \in {"open", "open_nonblock", "write"}
      /\ UNCHANGED <<scanner_vars, links, monitor_vars, priority, up, fifo, disturbed,
                     events, commands>>
  BY DEF monitor_command_open, monitor_command_write, at, file_vars
<1>3. /\ Tail(s) \in Seq(Calls) /\ Ordered(cmd[c], Tail(s))
      /\ Tail(s) # <<>> => Head(Tail(s)) \notin {"add", "remove"}
  BY <1>1, <1>2, NextCall
<1>4. Head(s) # "write" =>
        /\ Tail(Tail(s)) \in Seq(Calls) /\ Ordered(cmd[c], Tail(Tail(s)))
        /\ Tail(Tail(s)) # <<>> => Head(Tail(Tail(s))) \notin {"add", "remove"}
  <2>1. SUFFICES ASSUME Head(s) # "write"
                 PROVE  /\ Tail(Tail(s)) \in Seq(Calls) /\ Ordered(cmd[c], Tail(Tail(s)))
                        /\ Tail(Tail(s)) # <<>> => Head(Tail(Tail(s))) \notin {"add", "remove"}
    OBVIOUS
  <2>2. Tail(s) # <<>> /\ Head(Tail(s)) = "write"
    BY <1>1, <1>2, <2>1, NextCall
  <2>3. QED
    BY <1>3, <2>2, TailNext
<1>5. \/ proceed(c, Tail(s))
      \/ Head(s) # "write" /\ proceed(c, Tail(Tail(s)))
      \/ exit(c) /\ UNCHANGED last
  BY DEF monitor_command_open, monitor_command_write, at
<1>6. ClientParts' /\ last' \in [Dirs -> {"none", "start", "stop"}]
  <2>1. CASE proceed(c, Tail(s))
    BY <1>1, <1>2, <1>3, <2>1, ProceedTypes
  <2>2. CASE Head(s) # "write" /\ proceed(c, Tail(Tail(s)))
    BY <1>1, <1>2, <1>4, <2>2, ProceedTypes
  <2>3. CASE exit(c) /\ UNCHANGED last
    BY <1>1, <2>3, ExitTypes DEF GhostTypes
  <2>4. QED
    BY <1>5, <2>1, <2>2, <2>3
<1>7. control' \in [Dirs -> Seq(Byte)]
  <2>1. CASE UNCHANGED control
    BY <1>1, <2>1 DEF FileTypes
  <2>2. CASE /\ Reader(arg_name[c])
             /\ control' = [control EXCEPT ![arg_name[c]] = Append(@, CommandByte(cmd[c]))]
    <3>1. arg_name[c] \in Dirs
      BY <1>1, <2>2 DEF Reader, MonitorInv
    <3>2. control[arg_name[c]] \in Seq(Byte)
      BY <1>1, <3>1 DEF FileTypes
    <3>3. Append(control[arg_name[c]], CommandByte(cmd[c])) \in Seq(Byte)
      BY <3>2, BytesTyped
    <3>4. QED
      BY <1>1, <2>2, <3>3 DEF FileTypes
  <2>3. QED
    BY <2>1, <2>2 DEF monitor_command_open, monitor_command_write, file_vars
<1>8. FileTypes' /\ GhostTypes' /\ CountTypes' /\ LinkTypes'
  BY <1>1, <1>2, <1>6, <1>7, TypeGroups DEF FileTypes, GhostTypes, CountTypes, LinkTypes
<1>9. ScannerTypes'
  BY <1>2, MonitorKept, TypeGroups
<1>10. QED
  BY <1>6, <1>8, <1>9, TypeGroupsNext

\* The first step of a command keeps the types.
LEMMA MainStep ==
    ASSUME TypeInv, NEW c \in Clients, main(c)
    PROVE  TypeInv'
<1>1. ClientParts /\ ClientTypes /\ PlanInv /\ GhostTypes /\ CountTypes
  BY TypeGroups DEF ClientParts
<1>2. /\ UNCHANGED <<scanner_vars, links, monitor_vars, seen, link, file_vars, events>>
      /\ commands < MaxCommands /\ commands' = commands + 1
  BY DEF main
<1>3. PICK k \in Commands :
         /\ cmd' = [cmd EXCEPT ![c] = k]
         /\ \/ /\ k = "killall"
               /\ calls' = [calls EXCEPT ![c] = <<"readdir", "next">>]
               /\ UNCHANGED <<arg_name, arg_priority, ghost_vars>>
            \/ /\ k # "killall"
               /\ calls' = [calls EXCEPT ![c] = <<"readdir", "resolve">>]
               /\ \E d \in Dirs :
                    /\ arg_name' = [arg_name EXCEPT ![c] = d]
                    /\ \E n \in Priorities[d] \cup {NoName} :
                         /\ k # "priority" => n = NoName
                         /\ arg_priority' = [arg_priority EXCEPT ![c] = n]
                    /\ last' = [last EXCEPT ![d] = "none"]
                    /\ disturbed' = [disturbed EXCEPT ![d] =
                                       IF \E b \in Clients : Busy(b, d) THEN "now"
                                       ELSE IF @ = "now" THEN "before" ELSE @]
  BY DEF main
<1>4. /\ cmd' \in [Clients -> Commands \cup {"none"}] /\ cmd'[c] = k
      /\ \A b \in Clients \ {c} : cmd'[b] = cmd[b] /\ link'[b] = link[b]
  BY <1>1, <1>2, <1>3 DEF ClientTypes
<1>5. CASE k = "killall"
  <2>1. calls' = [calls EXCEPT ![c] = <<"readdir", "next">>]
        /\ UNCHANGED <<arg_name, arg_priority, ghost_vars>>
    BY <1>3, <1>5
  <2>2. Head(<<"readdir", "next">>) = "readdir"
    OBVIOUS
  <2>3. PlanInv' /\ LinkRead' /\ calls' \in [Clients -> Seq(Calls)]
    BY <1>1, <1>4, <1>5, <2>1, <2>2, PlanKept, PlansTyped, PlansOrdered
  <2>4. ClientParts'
    BY <1>1, <1>2, <1>4, <2>1, <2>3 DEF ClientParts, ClientTypes
  <2>5. CountTypes' /\ LinkTypes'
    BY <1>1, <1>2, BoundAssumption, TypeGroups DEF CountTypes, LinkTypes
  <2>6. FileTypes' /\ GhostTypes'
    BY <1>1, <1>2, <2>1, TypeGroups DEF FileTypes, GhostTypes, file_vars, ghost_vars
  <2>7. ScannerTypes'
    BY <1>2, MonitorKept, TypeGroups
  <2>8. QED
    BY <2>4, <2>5, <2>6, <2>7, TypeGroupsNext
<1>6. CASE k # "killall"
  <2>1. calls' = [calls EXCEPT ![c] = <<"readdir", "resolve">>]
    BY <1>3, <1>6
  <2>2. PICK d \in Dirs :
          /\ arg_name' = [arg_name EXCEPT ![c] = d]
          /\ \E n \in Priorities[d] \cup {NoName} :
               /\ k # "priority" => n = NoName
               /\ arg_priority' = [arg_priority EXCEPT ![c] = n]
          /\ last' = [last EXCEPT ![d] = "none"]
          /\ disturbed' = [disturbed EXCEPT ![d] =
                             IF \E b \in Clients : Busy(b, d) THEN "now"
                             ELSE IF @ = "now" THEN "before" ELSE @]
    BY <1>3, <1>6
  <2>3. /\ arg_name' \in [Clients -> Dirs \cup {NoDir}] /\ arg_name'[c] = d
        /\ \A b \in Clients \ {c} : arg_name'[b] = arg_name[b]
    BY <1>1, <2>2 DEF ClientTypes
  <2>4. arg_priority' \in [Clients -> Names \cup {NoName}]
    BY <1>1, <2>2, PriorityAssumption DEF ClientTypes
  <2>5. Head(<<"readdir", "resolve">>) = "readdir"
    OBVIOUS
  <2>6. PlanInv' /\ LinkRead' /\ calls' \in [Clients -> Seq(Calls)]
    BY <1>1, <1>4, <1>6, <2>1, <2>3, <2>5, PlanKept, PlansTyped, PlansOrdered
  <2>7. ClientParts'
    BY <1>1, <1>2, <1>4, <2>3, <2>4, <2>6 DEF ClientParts, ClientTypes
  <2>8. GhostTypes'
    <3>1. last' \in [Dirs -> {"none", "start", "stop"}]
      BY <1>1, <2>2 DEF GhostTypes
    <3>2. disturbed[d] \in {"never", "before", "now"}
      BY <1>1 DEF GhostTypes
    <3>3. disturbed' \in [Dirs -> {"never", "before", "now"}]
      BY <1>1, <2>2, <3>2 DEF GhostTypes
    <3>4. QED
      BY <3>1, <3>3 DEF GhostTypes
  <2>9. CountTypes' /\ LinkTypes' /\ FileTypes'
    BY <1>1, <1>2, BoundAssumption, TypeGroups DEF CountTypes, LinkTypes, FileTypes, file_vars
  <2>10. ScannerTypes'
    BY <1>2, MonitorKept, TypeGroups
  <2>11. QED
    BY <2>7, <2>8, <2>9, <2>10, TypeGroupsNext
<1>7. QED
  BY <1>5, <1>6

\* A client that dies keeps the types.
LEMMA KillStep ==
    ASSUME TypeInv, NEW c \in Clients, Kill(c)
    PROVE  TypeInv'
<1>1. /\ exit(c) /\ events < MaxEvents /\ events' = events + 1
      /\ UNCHANGED <<scanner_vars, links, monitor_vars, file_vars, ghost_vars, commands>>
  BY DEF Kill, Event
<1>2. ClientParts'
  BY <1>1, ExitTypes, TypeGroups
<1>3. CountTypes' /\ LinkTypes'
  BY <1>1, BoundAssumption, TypeGroups DEF CountTypes, LinkTypes
<1>4. FileTypes' /\ GhostTypes'
  BY <1>1, TypeGroups DEF FileTypes, GhostTypes, file_vars, ghost_vars
<1>5. ScannerTypes'
  BY <1>1, MonitorKept, TypeGroups
<1>6. QED
  BY <1>2, <1>3, <1>4, <1>5, TypeGroupsNext

MonitorTypes ==
    /\ monitors \in [Pids -> {"free", "starting", "serving", "zombie"}]
    /\ name \in [Pids -> Names \cup {0}]
    /\ serves \in [Pids -> Dirs \cup {NoDir}]
    /\ orphans \subseteq Pids
    /\ loop \in [Pids -> {"setup", "check", "start", "poll"}]
    /\ run \subseteq Dirs

\* What the steps of the monitors leave alone.
LEMMA MonitorFrame ==
    ASSUME NEW p \in Pids, Monitor(p) \/ RunExits(p) \/ poll_timeout(p)
    PROVE  UNCHANGED <<scanner_vars, links, client_vars, priority, up, ghost_vars,
                       events, commands>>
  BY DEF Monitor, MonitorStarts, create_namedpipe, check_fileup, start_child, parse_command,
     parse_command_terminate, RunExits, poll_timeout, S!MonitorStarts, S!MonitorExits,
     S!table, scanner_vars, file_vars

\* What a step of a monitor has to show to keep the types.
LEMMA MonitorFramed ==
    ASSUME TypeInv, UNCHANGED <<scanner_vars, links, client_vars, priority, up, ghost_vars,
                                events, commands>>,
           MonitorTypes', MonitorInv', fifo' \in [Dirs -> BOOLEAN],
           control' \in [Dirs -> Seq(Byte)]
    PROVE  TypeInv'
<1>1. ClientParts'
  BY ClientKept, TypeGroups
<1>2. ScanTypes'
  BY TypeGroups DEF ScannerTypes, ScanTypes, MonitorTypes, scanner_vars
<1>3. ScannerTypes'
  BY <1>2 DEF ScannerTypes, LoopTypes, MonitorTypes
<1>4. FileTypes' /\ GhostTypes'
  BY TypeGroups DEF FileTypes, GhostTypes, ghost_vars
<1>5. CountTypes' /\ LinkTypes'
  BY TypeGroups DEF CountTypes, LinkTypes
<1>6. QED
  BY <1>1, <1>3, <1>4, <1>5, TypeGroupsNext

\* A monitor that serves a directory is the only one, and goes on in its loop.
LEMMA LoopStep ==
    ASSUME TypeInv, NEW p \in Pids, NEW l \in {"check", "start", "poll"},
           monitors[p] = "serving", serves[p] \in Dirs,
           UNCHANGED <<monitors, name, serves, orphans>>,
           loop' = [loop EXCEPT ![p] = l],
           run' \subseteq run \cup {serves[p]}
    PROVE  MonitorTypes' /\ MonitorInv'
<1>1. ScanTypes /\ LoopTypes /\ MonitorInv
  BY TypeGroups DEF ScannerTypes
<1>2. MonitorTypes'
  BY <1>1 DEF MonitorTypes, ScanTypes, LoopTypes
<1>3. /\ loop'[p] = l /\ \A q \in Pids \ {p} : loop'[q] = loop[q]
  BY <1>1 DEF LoopTypes
<1>4. \A q \in Pids : loop'[q] # "setup" => serves[q] \in Dirs /\ monitors[q] = "serving"
  BY <1>1, <1>3 DEF MonitorInv
<1>5. \A d \in run' : \E q \in Pids : serves[q] = d /\ loop'[q] # "setup"
  BY <1>1, <1>3 DEF MonitorInv
<1>6. QED
  BY <1>1, <1>2, <1>4, <1>5 DEF MonitorInv

\* A step of a monitor keeps the types.
LEMMA MonitorStep ==
    ASSUME TypeInv, NEW p \in Pids, Monitor(p) \/ RunExits(p) \/ poll_timeout(p)
    PROVE  TypeInv'
<1>1. UNCHANGED <<scanner_vars, links, client_vars, priority, up, ghost_vars, events, commands>>
  BY MonitorFrame
<1>2. ScanTypes /\ LoopTypes /\ MonitorInv /\ FileTypes /\ LinkTypes
  BY TypeGroups DEF ScannerTypes
<1>3. loop[p] # "setup" => serves[p] \in Dirs /\ monitors[p] = "serving"
  BY <1>2 DEF MonitorInv
<1>4. CASE MonitorStarts(p)
  <2>1. /\ S!MonitorStarts(p) /\ UNCHANGED <<loop, run, client_vars, file_vars, ghost_vars, commands>>
    BY <1>4 DEF MonitorStarts
  <2>2. monitors[p] = "starting" /\ name' = [name EXCEPT ![p] = 0]
    BY <2>1 DEF S!MonitorStarts
  <2>3. loop[p] = "setup"
    BY <1>2, <2>2 DEF MonitorInv, LoopTypes
  <2>4. /\ monitors' \in [Pids -> {"free", "starting", "serving", "zombie"}]
        /\ \A q \in Pids \ {p} : monitors'[q] = monitors[q]
    BY <1>2, <2>1 DEF S!MonitorStarts, ScanTypes
  <2>5. \/ UNCHANGED serves
        \/ \E d \in Dirs : /\ \A q \in Pids : serves[q] # d
                           /\ serves' = [serves EXCEPT ![p] = d]
    BY <2>1 DEF S!MonitorStarts
  <2>6. orphans' \subseteq Pids
    BY <1>2, <2>1 DEF S!MonitorStarts, ScanTypes
  <2>7. MonitorTypes'
    <3>1. name' \in [Pids -> Names \cup {0}] /\ serves' \in [Pids -> Dirs \cup {NoDir}]
      BY <1>2, <2>2, <2>5 DEF ScanTypes
    <3>2. loop' \in [Pids -> {"setup", "check", "start", "poll"}] /\ run' \subseteq Dirs
      BY <1>2, <2>1 DEF LoopTypes
    <3>3. QED
      BY <2>4, <2>6, <3>1, <3>2 DEF MonitorTypes
  <2>8. \A q \in Pids : loop[q] # "setup" => serves'[q] = serves[q] /\ monitors'[q] = monitors[q]
    BY <1>2, <2>3, <2>4, <2>5 DEF ScanTypes
  <2>9. \A q, r \in Pids : serves'[q] \in Dirs /\ serves'[q] = serves'[r] => q = r
    BY <1>2, <2>5 DEF ScanTypes, MonitorInv
  <2>10. /\ \A q \in Pids : loop[q] # "setup" => serves'[q] \in Dirs /\ monitors'[q] = "serving"
         /\ \A d \in run : \E q \in Pids : serves'[q] = d /\ loop[q] # "setup"
    BY <1>2, <2>8 DEF MonitorInv
  <2>11. \A q \in Pids : monitors'[q] = "serving" => serves'[q] \in Dirs
    BY <1>2, <2>1 DEF S!MonitorStarts, ScanTypes, MonitorInv
  <2>12. MonitorInv'
    BY <2>1, <2>9, <2>10, <2>11 DEF MonitorInv
  <2>13. QED
    BY <1>1, <1>2, <2>1, <2>7, <2>12, MonitorFramed DEF FileTypes, file_vars
<1>5. CASE create_namedpipe(p)
  <2>1. /\ monitors[p] = "serving" /\ loop[p] = "setup"
        /\ fifo' = [fifo EXCEPT ![serves[p]] = TRUE]
        /\ loop' = [loop EXCEPT ![p] = "check"]
        /\ UNCHANGED <<monitors, name, serves, orphans, run, control>>
    BY <1>5 DEF create_namedpipe
  <2>2. serves[p] \in Dirs
    BY <1>2, <2>1 DEF MonitorInv
  <2>3. MonitorTypes' /\ MonitorInv'
    BY <2>1, <2>2, LoopStep
  <2>4. fifo' \in [Dirs -> BOOLEAN]
    BY <1>2, <2>1 DEF FileTypes
  <2>5. QED
    BY <1>1, <1>2, <2>1, <2>3, <2>4, MonitorFramed DEF FileTypes
<1>6. CASE check_fileup(p) \/ start_child(p) \/ poll_timeout(p)
  <2>1. /\ loop[p] # "setup" /\ run' \subseteq run \cup {serves[p]}
        /\ \E l \in {"check", "start", "poll"} : loop' = [loop EXCEPT ![p] = l]
        /\ UNCHANGED <<monitors, name, serves, orphans, fifo, control>>
    BY <1>6 DEF check_fileup, start_child, poll_timeout, file_vars
  <2>2. MonitorTypes' /\ MonitorInv'
    BY <1>3, <2>1, LoopStep
  <2>3. QED
    BY <1>1, <1>2, <2>1, <2>2, MonitorFramed DEF FileTypes
<1>7. CASE RunExits(p)
  <2>1. /\ loop[p] # "setup" /\ run' \subseteq run
        /\ loop' = [loop EXCEPT ![p] = IF @ = "poll" /\ control[serves[p]] = <<>>
                                       THEN "check" ELSE @]
        /\ UNCHANGED <<monitors, name, serves, orphans, fifo, control>>
    BY <1>7 DEF RunExits, file_vars
  <2>2. \E l \in {"check", "start", "poll"} : loop' = [loop EXCEPT ![p] = l]
    BY <1>2, <2>1 DEF LoopTypes
  <2>3. MonitorTypes' /\ MonitorInv'
    BY <1>3, <2>1, <2>2, LoopStep
  <2>4. QED
    BY <1>1, <1>2, <2>1, <2>3, MonitorFramed DEF FileTypes
<1>8. CASE parse_command(p)
  <2>1. /\ loop[p] = "poll" /\ control[serves[p]] # <<>> /\ run' \subseteq run
        /\ loop' = [loop EXCEPT ![p] = "check"]
        /\ control' = [control EXCEPT ![serves[p]] = Tail(@)]
        /\ UNCHANGED <<monitors, name, serves, orphans, fifo>>
    BY <1>8 DEF parse_command
  <2>2. MonitorTypes' /\ MonitorInv'
    BY <1>3, <2>1, LoopStep
  <2>3. control[serves[p]] \in Seq(Byte)
    BY <1>2, <1>3, <2>1 DEF FileTypes
  <2>4. Tail(control[serves[p]]) \in Seq(Byte)
    BY <2>1, <2>3
  <2>5. control' \in [Dirs -> Seq(Byte)]
    BY <1>2, <2>1, <2>4 DEF FileTypes
  <2>6. QED
    BY <1>1, <1>2, <2>1, <2>2, <2>5, MonitorFramed DEF FileTypes
<1>9. CASE parse_command_terminate(p)
  <2>1. /\ loop[p] = "poll" /\ control[serves[p]] # <<>> /\ run' = run \ {serves[p]}
        /\ loop' = [loop EXCEPT ![p] = "setup"]
        /\ control' = [control EXCEPT ![serves[p]] =
                         IF \E c \in Clients : Writer(c, serves[p]) THEN Tail(@) ELSE <<>>]
        /\ S!MonitorExits(p) /\ UNCHANGED fifo
    BY <1>9 DEF parse_command_terminate
  <2>2. control[serves[p]] \in Seq(Byte)
    BY <1>2, <1>3, <2>1 DEF FileTypes
  <2>3. Tail(control[serves[p]]) \in Seq(Byte) /\ <<>> \in Seq(Byte)
    BY <2>1, <2>2
  <2>4. control' \in [Dirs -> Seq(Byte)]
    BY <1>2, <2>1, <2>3 DEF FileTypes
  <2>5. /\ serves' = [serves EXCEPT ![p] = NoDir] /\ UNCHANGED name /\ orphans' \subseteq Pids
    BY <1>2, <2>1 DEF S!MonitorExits, ScanTypes
  <2>6. /\ monitors' \in [Pids -> {"free", "starting", "serving", "zombie"}]
        /\ \A q \in Pids \ {p} : monitors'[q] = monitors[q]
    BY <1>2, <2>1 DEF S!MonitorExits, ScanTypes
  <2>7. MonitorTypes'
    BY <1>2, <2>1, <2>5, <2>6 DEF MonitorTypes, ScanTypes, LoopTypes
  <2>8. /\ loop'[p] = "setup" /\ serves'[p] = NoDir
        /\ \A q \in Pids \ {p} : loop'[q] = loop[q] /\ serves'[q] = serves[q]
    BY <1>2, <2>1, <2>5 DEF ScanTypes, LoopTypes
  <2>9. \A q \in Pids : loop'[q] # "setup" => serves'[q] \in Dirs /\ monitors'[q] = "serving"
    BY <1>2, <2>6, <2>8 DEF MonitorInv
  <2>10. \A q, r \in Pids : serves'[q] \in Dirs /\ serves'[q] = serves'[r] => q = r
    BY <1>2, <2>8, ValuesAssumption DEF MonitorInv
  <2>11. \A d \in run' : \E q \in Pids : serves'[q] = d /\ loop'[q] # "setup"
    BY <1>2, <2>1, <2>8 DEF MonitorInv
  <2>12. \A q \in Pids : monitors'[q] = "serving" => serves'[q] \in Dirs
    BY <1>2, <2>1, <2>5 DEF S!MonitorExits, ScanTypes, MonitorInv
  <2>13. MonitorInv'
    BY <2>9, <2>10, <2>11, <2>12 DEF MonitorInv
  <2>14. QED
    BY <1>1, <1>2, <2>1, <2>4, <2>7, <2>13, MonitorFramed DEF FileTypes
<1>10. QED
  BY <1>4, <1>5, <1>6, <1>7, <1>8, <1>9 DEF Monitor

\* A step of nobody keeps the types.
LEMMA StutterStep == TypeInv /\ UNCHANGED vars => TypeInv'
<1>1. SUFFICES ASSUME TypeInv, UNCHANGED vars PROVE TypeInv'
  OBVIOUS
<1>2. ClientParts'
  BY <1>1, ClientKept, TypeGroups DEF vars
<1>3. ScannerTypes'
  BY <1>1, MonitorKept, TypeGroups DEF vars
<1>4. LinkTypes' /\ CountTypes'
  BY <1>1, TypeGroups DEF vars, LinkTypes, CountTypes
<1>5. FileTypes' /\ GhostTypes'
  BY <1>1, TypeGroups DEF vars, FileTypes, GhostTypes, file_vars, ghost_vars
<1>6. QED
  BY <1>2, <1>3, <1>4, <1>5, TypeGroupsNext

\* Every step keeps the types, the order of the calls and who serves what.
LEMMA TypeStep == TypeInv /\ [Next]_vars => TypeInv'
<1>1. SUFFICES ASSUME TypeInv, [Next]_vars PROVE TypeInv'
  OBVIOUS
<1>2. CASE Scan
  BY <1>1, <1>2, ScanStep
<1>3. ASSUME NEW c \in Clients, main(c) \/ Client(c) \/ Kill(c) PROVE TypeInv'
  BY <1>1, <1>3, MainStep, KillStep, ReadStep, LinkStep, FileStep, CommandStep DEF Client
<1>4. ASSUME NEW p \in Pids, Monitor(p) \/ RunExits(p) \/ poll_timeout(p) PROVE TypeInv'
  BY <1>1, <1>4, MonitorStep
<1>5. CASE UNCHANGED vars
  BY <1>1, <1>5, StutterStep
<1>6. QED
  BY <1>1, <1>2, <1>3, <1>4, <1>5 DEF Next

\* The types hold with the order of the calls and the monitors in step with what
\* they serve.
THEOREM TypeHolds == Spec => []TypeInv
<1>1. Init => TypeInv
  BY InitTypes
<1>2. TypeInv /\ [Next]_vars => TypeInv'
  BY TypeStep
<1>3. QED
  BY <1>1, <1>2, PTL DEF Spec

\* Every variable has its type (all of srvctl.c, with the monitors and the scanner).
THEOREM TypeCorrect == Spec => []TypeOK
<1>1. TypeInv => TypeOK
  BY DEF TypeInv
<1>2. QED
  BY <1>1, TypeHolds, PTL

-----------------------------------------------------------------------------
(* What a client does *)

\* The call that a client is at decides its step.
LEMMA StepOfCall ==
    ASSUME NEW c \in Clients, Client(c)
    PROVE  /\ Running(c)
           /\ Head(calls[c]) = "readdir" => readdir(c)
           /\ Head(calls[c]) = "resolve" => resolve(c)
           /\ Head(calls[c]) = "next" => killall_next(c)
           /\ Head(calls[c]) = "linkname" => service_linkname(c)
           /\ Head(calls[c]) = "add" => service_add(c)
           /\ Head(calls[c]) = "remove" => service_remove(c)
           /\ Head(calls[c]) \in {"truncate", "puts"} => service_priority(c)
           /\ Head(calls[c]) \in {"create_up", "remove_up"} => service_up(c)
           /\ Head(calls[c]) \in {"open", "open_nonblock"} => monitor_command_open(c)
           /\ Head(calls[c]) = "write" => monitor_command_write(c)
           /\ Head(calls[c]) \in Calls
<1> DEFINE h == Head(calls[c])
<1>1. /\ readdir(c) => h = "readdir" /\ Running(c)
      /\ resolve(c) => h = "resolve" /\ Running(c)
      /\ killall_next(c) => h = "next" /\ Running(c)
      /\ service_linkname(c) => h = "linkname" /\ Running(c)
      /\ service_add(c) => h = "add" /\ Running(c)
  BY DEF readdir, resolve, killall_next, service_linkname, service_add, at
<1>2. /\ service_remove(c) => h = "remove" /\ Running(c)
      /\ service_priority(c) => h \in {"truncate", "puts"} /\ Running(c)
      /\ service_up(c) => h \in {"create_up", "remove_up"} /\ Running(c)
      /\ monitor_command_open(c) => h \in {"open", "open_nonblock"} /\ Running(c)
      /\ monitor_command_write(c) => h = "write" /\ Running(c)
  BY DEF service_remove, service_priority, service_up, monitor_command_open,
     monitor_command_write, at
<1> HIDE DEF h
<1>3. /\ Running(c) /\ h \in Calls
      /\ h = "readdir" => readdir(c)
      /\ h = "resolve" => resolve(c)
      /\ h = "next" => killall_next(c)
      /\ h = "linkname" => service_linkname(c)
      /\ h = "add" => service_add(c)
      /\ h = "remove" => service_remove(c)
      /\ h \in {"truncate", "puts"} => service_priority(c)
      /\ h \in {"create_up", "remove_up"} => service_up(c)
      /\ h \in {"open", "open_nonblock"} => monitor_command_open(c)
      /\ h = "write" => monitor_command_write(c)
  BY <1>1, <1>2 DEF Client, Calls
<1>4. QED
  BY <1>3 DEF h

\* The calls of a stop once FILE_UP is removed.
Lowered == {"linkname", "remove", "open_nonblock", "write"}

\* How the list of a client that acts on one service becomes a new one.
LEMMA CallsMove ==
    ASSUME ClientParts, NEW c \in Clients, Client(c), calls'[c] # <<>>, cmd[c] # "killall",
           NEW s, s = calls[c]
    PROVE  /\ cmd'[c] = cmd[c] /\ arg_name'[c] = arg_name[c]
           /\ \/ Head(s) # "resolve" /\ calls'[c] = Tail(s)
              \/ Head(s) \in {"open", "open_nonblock", "truncate"} /\ calls'[c] = Tail(Tail(s))
              \/ /\ Head(s) = "resolve"
                 /\ \/ calls'[c] = AfterActive(cmd[c])
                    \/ calls'[c] = AfterInactive(cmd[c]) /\ seen[c] = {}
                    \/ /\ calls'[c] = s
                       /\ \E m \in seen[c] : /\ links[m] \notin {arg_name[c], NoDir}
                                             /\ seen'[c] = seen[c] \ {m}
<1>1. ClientTypes /\ PlanInv /\ Running(c) /\ Head(s) \in Calls
  BY StepOfCall DEF ClientParts
<1>2. ~exit(c)
  BY <1>1 DEF exit, ClientTypes
<1>3. ASSUME NEW rest, proceed(c, rest)
      PROVE  cmd'[c] = cmd[c] /\ arg_name'[c] = arg_name[c] /\ calls'[c] = rest
  BY <1>1, <1>2, <1>3 DEF proceed, ClientTypes
<1>4. ASSUME NEW rest, act(c, rest)
      PROVE  cmd'[c] = cmd[c] /\ arg_name'[c] = arg_name[c] /\ calls'[c] = rest
  BY <1>1, <1>2, <1>4 DEF act, ClientTypes
<1>5. Head(s) # "next"
  BY <1>1, NextCall
<1>6. CASE Head(s) = "readdir"
  BY <1>1, <1>6, StepOfCall DEF readdir, ClientTypes
<1>7. CASE Head(s) = "linkname"
  BY <1>1, <1>7, StepOfCall DEF service_linkname, ClientTypes
<1>8. CASE Head(s) = "resolve"
  <2>1. resolve(c)
    BY <1>8, StepOfCall
  <2>2. \/ \E n \in seen[c] : act(c, AfterActive(cmd[c]))
        \/ \E n \in seen[c] :
            /\ links[n] \notin {arg_name[c], NoDir}
            /\ seen' = [seen EXCEPT ![c] = @ \ {n}]
            /\ UNCHANGED <<calls, cmd, arg_name, arg_priority, link>>
        \/ seen[c] = {} /\ act(c, AfterInactive(cmd[c]))
    BY <1>2, <2>1 DEF resolve
  <2>3. CASE act(c, AfterActive(cmd[c]))
    BY <1>4, <1>8, <2>3
  <2>4. CASE seen[c] = {} /\ act(c, AfterInactive(cmd[c]))
    BY <1>4, <1>8, <2>4
  <2>5. CASE \E n \in seen[c] :
            /\ links[n] \notin {arg_name[c], NoDir}
            /\ seen' = [seen EXCEPT ![c] = @ \ {n}]
            /\ UNCHANGED <<calls, cmd, arg_name, arg_priority, link>>
    BY <1>1, <1>8, <2>5 DEF ClientTypes
  <2>6. QED
    BY <2>2, <2>3, <2>4, <2>5
<1>9. CASE Head(s) \in {"add", "remove", "create_up", "remove_up", "write"}
  <2>1. proceed(c, Tail(s))
    BY <1>2, <1>9, StepOfCall DEF service_add, service_remove, service_up, monitor_command_write
  <2>2. QED
    BY <1>3, <1>9, <2>1
<1>10. CASE Head(s) \in {"truncate", "puts"}
  <2>1. proceed(c, Tail(s)) \/ (Head(s) = "truncate" /\ proceed(c, Tail(Tail(s))))
    BY <1>10, StepOfCall DEF service_priority, at
  <2>2. QED
    BY <1>3, <1>10, <2>1
<1>11. CASE Head(s) \in {"open", "open_nonblock"}
  <2>1. proceed(c, Tail(s)) \/ proceed(c, Tail(Tail(s)))
    BY <1>11, StepOfCall DEF monitor_command_open
  <2>2. QED
    BY <1>3, <1>11, <2>1
<1>12. QED
  BY <1>1, <1>5, <1>6, <1>7, <1>8, <1>9, <1>10, <1>11 DEF Calls

\* Where a client that acts on one service can come from.
LEMMA CallsBefore ==
    ASSUME ClientParts, NEW c \in Clients, Client(c), calls'[c] # <<>>, cmd[c] # "killall",
           NEW h, h = Head(calls[c]), NEW g, g = Head(calls'[c])
    PROVE  /\ g \in {"add", "remove"} => h = "linkname"
           /\ g = "truncate" => h = "remove" \/ (h = "resolve" /\ seen[c] = {})
           /\ g = "puts" => h = "truncate"
           /\ g = "resolve" => \/ h = "readdir"
                               \/ h = "resolve" /\ \E m \in seen[c] :
                                    /\ links[m] \notin {arg_name[c], NoDir}
                                    /\ seen'[c] = seen[c] \ {m}
           /\ cmd[c] = "stop" /\ g \in Lowered => h = "remove_up" \/ h \in Lowered
<1> DEFINE s == calls[c]
<1>1. ClientTypes /\ PlanInv /\ Running(c)
  BY StepOfCall DEF ClientParts
<1>2. CASE h # "resolve" /\ calls'[c] = Tail(s)
  <2>1. Tail(s) # <<>> /\ g = Head(Tail(s))
    BY <1>2
  <2>2. /\ g \in {"add", "remove"} => h = "linkname"
        /\ g = "truncate" => h = "remove"
        /\ g = "puts" => h = "truncate"
        /\ g = "resolve" => h = "readdir"
        /\ cmd[c] = "stop" =>
             /\ h \in {"readdir", "resolve", "remove_up", "linkname", "remove",
                       "open_nonblock", "write"}
             /\ h = "readdir" => g = "resolve"
    BY <1>1, <2>1, NextCall
  <2>3. QED
    BY <1>2, <2>2 DEF Lowered
<1>3. CASE h \in {"open", "open_nonblock", "truncate"} /\ calls'[c] = Tail(Tail(s))
  <2>1. /\ Tail(s) \in Seq(Calls) /\ Ordered(cmd[c], Tail(s))
        /\ Tail(s) # <<>> /\ Head(Tail(s)) \in {"puts", "write"}
        /\ cmd[c] = "stop" => h = "open_nonblock"
    BY <1>1, <1>3, NextCall
  <2>2. g \notin {"add", "remove", "truncate", "puts", "resolve"}
    BY <1>3, <2>1, TailNext
  <2>3. QED
    BY <1>3, <2>1, <2>2 DEF Lowered
<1>4. CASE h = "resolve" /\ calls'[c] = AfterActive(cmd[c])
  <2>1. /\ g \in {"linkname", "remove_up", "create_up", "open"}
        /\ cmd[c] = "stop" => g = "remove_up"
    BY <1>4, ActiveHead
  <2>2. QED
    BY <2>1 DEF Lowered
<1>5. CASE h = "resolve" /\ calls'[c] = AfterInactive(cmd[c]) /\ seen[c] = {}
  <2>1. g \in {"truncate", "create_up"} /\ cmd[c] # "stop"
    BY <1>5, InactiveHead
  <2>2. QED
    BY <1>5, <2>1
<1>6. CASE /\ h = "resolve" /\ calls'[c] = s
           /\ \E m \in seen[c] : /\ links[m] \notin {arg_name[c], NoDir}
                                 /\ seen'[c] = seen[c] \ {m}
  BY <1>6 DEF Lowered
<1>7. QED
  BY <1>2, <1>3, <1>4, <1>5, <1>6, CallsMove

\* What no step of a client changes, and what it leaves to the others.
LEMMA ClientFrame ==
    ASSUME ClientParts, NEW c \in Clients, Client(c) \/ Kill(c)
    PROVE  /\ UNCHANGED <<scanner_vars, monitor_vars, fifo, disturbed, commands>>
           /\ \A b \in Clients \ {c} :
                /\ calls'[b] = calls[b] /\ cmd'[b] = cmd[b] /\ arg_name'[b] = arg_name[b]
                /\ seen'[b] = seen[b] /\ link'[b] = link[b]
<1>1. ClientTypes
  BY DEF ClientParts
<1>2. UNCHANGED <<scanner_vars, monitor_vars, fifo, disturbed, commands>>
  <2>1. CASE readdir(c) \/ resolve(c) \/ killall_next(c) \/ service_linkname(c)
    BY <2>1 DEF readdir, resolve, killall_next, service_linkname, file_vars, ghost_vars
  <2>2. CASE service_add(c) \/ service_remove(c) \/ service_priority(c) \/ service_up(c)
    BY <2>2 DEF service_add, service_remove, service_priority, service_up, file_vars
  <2>3. CASE monitor_command_open(c) \/ monitor_command_write(c) \/ Kill(c)
    BY <2>3 DEF monitor_command_open, monitor_command_write, Kill, file_vars, ghost_vars
  <2>4. QED
    BY <2>1, <2>2, <2>3 DEF Client
<1> DEFINE Apart == \A b \in Clients \ {c} :
                      /\ calls'[b] = calls[b] /\ cmd'[b] = cmd[b] /\ arg_name'[b] = arg_name[b]
                      /\ seen'[b] = seen[b] /\ link'[b] = link[b]
<1>3. exit(c) => Apart
  BY <1>1 DEF exit, ClientTypes
<1>4. ASSUME NEW rest, proceed(c, rest) PROVE Apart
  BY <1>1, <1>3, <1>4 DEF proceed, ClientTypes
<1>5. ASSUME NEW rest, act(c, rest) PROVE Apart
  BY <1>1, <1>3, <1>5 DEF act, ClientTypes
<1>6. Apart
  <2>1. CASE readdir(c) \/ service_linkname(c)
    BY <1>1, <2>1 DEF readdir, service_linkname, ClientTypes
  <2>2. CASE resolve(c)
    <3>1. \/ act(c, AfterActive(cmd[c])) \/ act(c, AfterInactive(cmd[c])) \/ exit(c)
          \/ /\ \E n \in seen[c] : seen' = [seen EXCEPT ![c] = @ \ {n}]
             /\ UNCHANGED <<calls, cmd, arg_name, arg_priority, link>>
      BY <2>2 DEF resolve
    <3>2. CASE /\ \E n \in seen[c] : seen' = [seen EXCEPT ![c] = @ \ {n}]
               /\ UNCHANGED <<calls, cmd, arg_name, arg_priority, link>>
      BY <1>1, <3>2 DEF ClientTypes
    <3>3. QED
      BY <1>3, <1>5, <3>1, <3>2
  <2>3. CASE killall_next(c)
    BY <1>1, <1>3, <2>3 DEF killall_next, ClientTypes
  <2>4. CASE service_add(c) \/ service_remove(c) \/ service_priority(c) \/ service_up(c)
    <3>1. exit(c) \/ proceed(c, Tail(calls[c])) \/ proceed(c, Tail(Tail(calls[c])))
      BY <2>4 DEF service_add, service_remove, service_priority, service_up
    <3>2. QED
      BY <1>3, <1>4, <3>1
  <2>5. CASE monitor_command_open(c) \/ monitor_command_write(c) \/ Kill(c)
    <3>1. exit(c) \/ proceed(c, Tail(calls[c])) \/ proceed(c, Tail(Tail(calls[c])))
      BY <2>5 DEF monitor_command_open, monitor_command_write, Kill
    <3>2. QED
      BY <1>3, <1>4, <3>1
  <2>6. QED
    BY <2>1, <2>2, <2>3, <2>4, <2>5 DEF Client
<1>7. QED
  BY <1>2, <1>6

\* A client is busy with nothing that it was not busy with before.
LEMMA BusyKept ==
    ASSUME ClientParts, NEW c \in Clients, Client(c) \/ Kill(c)
    PROVE  /\ \A b \in Clients, d \in Dirs : calls'[b] # <<>> /\ cmd'[b] # "killall" /\ arg_name'[b] = d
                => Busy(b, d) /\ cmd'[b] = cmd[b]
<1>1. ClientTypes /\ PlanInv
  BY DEF ClientParts
<1>2. SUFFICES ASSUME NEW b \in Clients, NEW d \in Dirs,
                      calls'[b] # <<>>, cmd'[b] # "killall", arg_name'[b] = d
               PROVE  Busy(b, d) /\ cmd'[b] = cmd[b]
  OBVIOUS
<1>3. CASE b # c
  BY <1>2, <1>3, ClientFrame DEF Busy, Running
<1>4. CASE b = c
  <2>1. ~Kill(c)
    BY <1>1, <1>2, <1>4 DEF Kill, exit, ClientTypes
  <2>2. cmd[c] # "killall"
    <3>1. SUFFICES ASSUME cmd[c] = "killall" PROVE FALSE
      OBVIOUS
    <3>2. Head(calls[c]) \in {"readdir", "next", "open_nonblock", "write"}
      BY <1>1, <2>1, <3>1, NextCall, StepOfCall
    <3>3. cmd'[c] = cmd[c] \/ calls'[c] = <<>>
      <4>1. ASSUME NEW rest, proceed(c, rest) PROVE cmd'[c] = cmd[c] \/ calls'[c] = <<>>
        BY <1>1, <4>1 DEF proceed, exit, ClientTypes
      <4>2. exit(c) => calls'[c] = <<>>
        BY <1>1 DEF exit, ClientTypes
      <4>3. QED
        BY <2>1, <3>2, <4>1, <4>2, StepOfCall
        DEF readdir, killall_next, monitor_command_open, monitor_command_write
    <3>4. QED
      BY <1>2, <1>4, <3>1, <3>3
  <2>3. Client(c)
    BY <2>1
  <2>4. cmd'[c] = cmd[c] /\ arg_name'[c] = arg_name[c]
    BY <1>2, <1>4, <2>2, <2>3, CallsMove
  <2>5. QED
    BY <1>2, <1>4, <2>2, <2>3, <2>4, StepOfCall DEF Busy
<1>5. QED
  BY <1>3, <1>4

\* What a client changes, and at which call.
LEMMA ClientEffects ==
    ASSUME ClientParts, NEW c \in Clients, Client(c) \/ Kill(c),
           NEW h, h = Head(calls[c]), NEW d, d = arg_name[c]
    PROVE  /\ \/ UNCHANGED up
              \/ h = "create_up" /\ up' = [up EXCEPT ![d] = TRUE]
              \/ h = "remove_up" /\ up' = [up EXCEPT ![d] = FALSE]
           /\ Client(c) /\ h = "remove_up" => up' = [up EXCEPT ![d] = FALSE]
           /\ \/ UNCHANGED control
              \/ /\ h = "write" /\ Reader(d)
                 /\ control' = [control EXCEPT ![d] = Append(@, CommandByte(cmd[c]))]
           /\ \/ UNCHANGED links
              \/ h = "add" /\ links[link[c]] = NoDir /\ links' = [links EXCEPT ![link[c]] = d]
              \/ h = "remove" /\ links' = [links EXCEPT ![link[c]] = NoDir]
           /\ Client(c) /\ h = "remove" => links' = [links EXCEPT ![link[c]] = NoDir]
           /\ \/ UNCHANGED priority
              \/ /\ h \in {"truncate", "puts"} /\ UNCHANGED links
                 /\ \E v : priority' = [priority EXCEPT ![d] = v]
<1>1. CASE Kill(c)
  BY <1>1 DEF Kill, file_vars, Client, readdir, resolve, killall_next, service_linkname,
     service_add, service_remove, service_priority, service_up, monitor_command_open,
     monitor_command_write, at, exit, Running, ClientParts, ClientTypes
<1>2. CASE readdir(c) \/ resolve(c) \/ killall_next(c) \/ service_linkname(c)
           \/ monitor_command_open(c)
  <2>1. UNCHANGED <<links, file_vars>>
    BY <1>2 DEF readdir, resolve, killall_next, service_linkname, monitor_command_open
  <2>2. h \notin {"remove_up", "remove"}
    BY <1>2 DEF readdir, resolve, killall_next, service_linkname, monitor_command_open, at
  <2>3. QED
    BY <2>1, <2>2 DEF file_vars
<1>3. CASE service_add(c)
  BY <1>3 DEF service_add, at, file_vars
<1>4. CASE service_remove(c)
  BY <1>4 DEF service_remove, at, file_vars
<1>5. CASE service_priority(c)
  <2>1. h \in {"truncate", "puts"} /\ UNCHANGED <<links, up, control>>
    BY <1>5 DEF service_priority, at
  <2>2. UNCHANGED priority \/ \E v : priority' = [priority EXCEPT ![d] = v]
    BY <1>5 DEF service_priority
  <2>3. QED
    BY <2>1, <2>2
<1>6. CASE service_up(c)
  BY <1>6 DEF service_up, at
<1>7. CASE monitor_command_write(c)
  BY <1>7 DEF monitor_command_write, at
<1>8. QED
  BY <1>1, <1>2, <1>3, <1>4, <1>5, <1>6, <1>7 DEF Client

\* When a command is recorded as the last one on its service.
LEMMA LastEffects ==
    ASSUME ClientParts, NEW c \in Clients, Client(c) \/ Kill(c),
           NEW h, h = Head(calls[c]), NEW d, d = arg_name[c]
    PROVE  \/ UNCHANGED last
           \/ /\ Client(c) /\ cmd[c] \in {"start", "stop"} /\ disturbed[d] # "now"
              /\ calls'[c] = <<>>
              /\ last' = [last EXCEPT ![d] = cmd[c]]
              /\ cmd[c] = "stop" =>
                   /\ h \in Lowered
                   /\ ~Reader(d) \/ control' = [control EXCEPT ![d] = Append(@, "x")]
<1>1. ClientTypes /\ PlanInv
  BY DEF ClientParts
<1>2. SUFFICES ASSUME ~UNCHANGED last, Client(c)
               PROVE  /\ cmd[c] \in {"start", "stop"} /\ disturbed[d] # "now"
                      /\ calls'[c] = <<>>
                      /\ last' = [last EXCEPT ![d] = cmd[c]]
                      /\ cmd[c] = "stop" =>
                           /\ h \in Lowered
                           /\ ~Reader(d) \/ control' = [control EXCEPT ![d] = Append(@, "x")]
  BY DEF Kill, ghost_vars
<1>3. ASSUME NEW rest, proceed(c, rest)
      PROVE  /\ rest = <<>> /\ cmd[c] \in {"start", "stop"} /\ disturbed[d] # "now"
             /\ calls'[c] = <<>>
             /\ last' = [last EXCEPT ![d] = cmd[c]]
  BY <1>1, <1>2, <1>3 DEF proceed, exit, ClientTypes
<1>4. Running(c) /\ h \in Calls
  BY <1>2, StepOfCall
<1>5. h \notin {"readdir", "resolve", "next", "linkname"}
  BY <1>2, StepOfCall DEF readdir, resolve, killall_next, service_linkname, ghost_vars
<1>6. PICK rest \in {Tail(calls[c]), Tail(Tail(calls[c]))} :
         proceed(c, rest) /\ (h = "write" => rest = Tail(calls[c]))
                          /\ (rest = Tail(Tail(calls[c])) /\ rest # Tail(calls[c]) =>
                                h \in {"truncate", "open", "open_nonblock"})
  <2>1. CASE h \in {"add", "remove", "create_up", "remove_up"}
    BY <1>2, <2>1, StepOfCall DEF service_add, service_remove, service_up
  <2>2. CASE h \in {"truncate", "puts"}
    BY <1>2, <2>2, StepOfCall DEF service_priority, at
  <2>3. CASE h \in {"open", "open_nonblock"}
    BY <1>2, <2>3, StepOfCall DEF monitor_command_open
  <2>4. CASE h = "write"
    BY <1>2, <2>4, StepOfCall DEF monitor_command_write
  <2>5. QED
    BY <1>4, <1>5, <2>1, <2>2, <2>3, <2>4 DEF Calls
<1>7. ASSUME cmd[c] = "stop"
      PROVE  /\ h \in Lowered
             /\ ~Reader(d) \/ control' = [control EXCEPT ![d] = Append(@, "x")]
  <2>1. /\ h \in {"remove_up", "linkname", "remove", "open_nonblock", "write"}
        /\ Tail(calls[c]) = <<>> => h = "write"
    BY <1>1, <1>4, <1>5, <1>7, NextCall
  <2>2. h \in {"open_nonblock", "write"}
    BY <1>3, <1>6, <2>1
  <2>3. CASE h = "write"
    <3>1. CommandByte(cmd[c]) = "x"
      BY <1>7 DEF CommandByte
    <3>2. QED
      BY <1>2, <2>3, <3>1, StepOfCall DEF monitor_command_write, Lowered
  <2>4. CASE h = "open_nonblock"
    <3>1. Tail(calls[c]) # <<>>
      BY <2>1, <2>4
    <3>2. ~proceed(c, Tail(calls[c]))
      BY <1>3, <3>1
    <3>3. ~Reader(d)
      <4>1. monitor_command_open(c)
        BY <1>2, <2>4, StepOfCall
      <4>2. d = NoDir \/ ~Reader(d)
        BY <3>2, <4>1 DEF monitor_command_open
      <4>3. QED
        BY <1>1, <1>4, <1>7, <4>2, ValuesAssumption DEF PlanInv
    <3>4. QED
      BY <2>4, <3>3 DEF Lowered
  <2>5. QED
    BY <2>2, <2>3, <2>4
<1>8. QED
  BY <1>3, <1>6, <1>7

-----------------------------------------------------------------------------
(* A stop holds *)

\* A command that no other disturbed was alone with its service, and is done.
QuietInv ==
    /\ \A d \in Dirs : disturbed[d] # "now" =>
         \A b, c \in Clients : Busy(b, d) /\ Busy(c, d) => b = c
    /\ \A d \in Dirs : last[d] # "none" => \A c \in Clients : ~Busy(c, d)

\* A monitor has started run, or has looked at FILE_UP and is about to.
Committed(d) == d \in run \/ \E p \in Pids : serves[p] = d /\ loop[p] = "start"
Told(d) == \E i \in 1..Len(control[d]) : control[d][i] = "x"

\* What StopHolds leans on: FILE_UP is gone from the first call of a stop to the
\* next command, so that a monitor that is not told has not started run and will not.
StopInv ==
    /\ \A c \in Clients, d \in Dirs :
         Busy(c, d) /\ disturbed[d] # "now" /\ cmd[c] = "stop" /\ Head(calls[c]) \in Lowered
         => ~up[d]
    /\ \A d \in Dirs : last[d] = "stop" => ~up[d]
    /\ \A d \in Dirs : last[d] = "stop" /\ Committed(d) => Told(d)

\* Nothing was stopped at first.
LEMMA StopInit == Init => QuietInv /\ StopInv
  BY DEF Init, QuietInv, StopInv, Busy, Running

\* A client leaves QuietInv as it is: it is busy with its service until it exits.
LEMMA QuietClient ==
    ASSUME TypeInv, QuietInv, NEW c \in Clients, Client(c) \/ Kill(c)
    PROVE  QuietInv'
<1>1. ClientParts /\ ClientTypes /\ GhostTypes /\ PlanInv
  BY TypeGroups DEF ClientParts
<1>2. \A b \in Clients, d \in Dirs : Busy(b, d)' => Busy(b, d)
  BY <1>1, BusyKept DEF Busy, Running
<1>3. UNCHANGED disturbed
  BY <1>1, ClientFrame
<1>4. \A d \in Dirs : last'[d] # "none" => \A b \in Clients : ~Busy(b, d)'
  <2>1. SUFFICES ASSUME NEW d \in Dirs, last'[d] # "none", NEW b \in Clients, Busy(b, d)'
                 PROVE  FALSE
    OBVIOUS
  <2>2. Busy(b, d)
    BY <1>2, <2>1
  <2>3. last[d] = "none"
    BY <2>2 DEF QuietInv
  <2>4. /\ Client(c) /\ cmd[c] \in {"start", "stop"} /\ disturbed[arg_name[c]] # "now"
        /\ calls'[c] = <<>>
        /\ last' = [last EXCEPT ![arg_name[c]] = cmd[c]]
    BY <1>1, <2>1, <2>3, LastEffects
  <2>5. arg_name[c] = d
    BY <1>1, <2>1, <2>3, <2>4 DEF GhostTypes
  <2>6. Busy(c, d)
    BY <2>4, <2>5, StepOfCall DEF Busy
  <2>7. b = c
    BY <2>2, <2>4, <2>5, <2>6 DEF QuietInv
  <2>8. QED
    BY <2>1, <2>4, <2>7 DEF Busy, Running
<1>5. \A d \in Dirs : disturbed'[d] # "now" =>
         \A a, b \in Clients : Busy(a, d)' /\ Busy(b, d)' => a = b
  BY <1>2, <1>3 DEF QuietInv
<1>6. QED
  BY <1>4, <1>5 DEF QuietInv, Busy, Running

\* A client that changes the files of a service is busy with it.
LEMMA ChangerBusy ==
    ASSUME ClientParts, NEW c \in Clients, Client(c),
           Head(calls[c]) \notin {"readdir", "next", "open_nonblock", "write"}
    PROVE  arg_name[c] \in Dirs /\ Busy(c, arg_name[c])
<1>1. ClientTypes /\ PlanInv /\ Running(c)
  BY StepOfCall DEF ClientParts
<1>2. cmd[c] # "killall"
  BY <1>1, NextCall
<1>3. QED
  BY <1>1, <1>2 DEF Busy, PlanInv

\* A client keeps StopInv, whichever call it makes and wherever it dies.
LEMMA StopClient ==
    ASSUME TypeInv, QuietInv, StopInv, NEW c \in Clients, Client(c) \/ Kill(c)
    PROVE  StopInv'
<1>1. /\ ClientParts /\ ClientTypes /\ GhostTypes /\ PlanInv /\ FileTypes /\ MonitorInv
      /\ LoopTypes
  BY TypeGroups DEF ClientParts, ScannerTypes
<1>2. /\ UNCHANGED <<disturbed, run, serves, loop>>
      /\ \A b \in Clients \ {c} : calls'[b] = calls[b] /\ cmd'[b] = cmd[b]
  BY <1>1, ClientFrame DEF monitor_vars
<1>3. ASSUME NEW d \in Dirs, \A b \in Clients : Busy(b, d) => b # c
      PROVE  up'[d] = up[d]
  <2>1. SUFFICES ASSUME up'[d] # up[d] PROVE FALSE
    OBVIOUS
  <2>2. Head(calls[c]) \in {"create_up", "remove_up"} /\ arg_name[c] = d
    BY <1>1, <2>1, ClientEffects DEF FileTypes
  <2>3. Client(c)
    BY <2>1 DEF Kill, file_vars
  <2>4. QED
    BY <1>1, <1>3, <2>2, <2>3, ChangerBusy
<1>4. ASSUME NEW b \in Clients, NEW d \in Dirs,
             Busy(b, d)', disturbed'[d] # "now", cmd'[b] = "stop", Head(calls'[b]) \in Lowered
      PROVE  ~up'[d]
  <2>1. Busy(b, d) /\ cmd[b] = "stop" /\ disturbed[d] # "now"
    BY <1>1, <1>2, <1>4, BusyKept DEF Busy, Running
  <2>2. CASE b # c
    <3>1. ~up[d]
      BY <1>2, <1>4, <2>1, <2>2 DEF StopInv
    <3>2. \A a \in Clients : Busy(a, d) => a # c
      BY <2>1, <2>2 DEF QuietInv
    <3>3. QED
      BY <1>3, <3>1, <3>2
  <2>3. CASE b = c
    <3>1. calls'[c] # <<>> /\ Client(c)
      BY <1>1, <1>4, <2>3 DEF Busy, Running, Kill, exit, ClientTypes
    <3>2. Head(calls[c]) = "remove_up" \/ Head(calls[c]) \in Lowered
      BY <1>1, <1>4, <2>1, <2>3, <3>1, CallsBefore
    <3>3. CASE Head(calls[c]) = "remove_up"
      BY <1>1, <2>1, <2>3, <3>1, <3>3, ClientEffects DEF Busy, FileTypes
    <3>4. CASE Head(calls[c]) \in Lowered
      <4>1. ~up[d]
        BY <2>1, <2>3, <3>4 DEF StopInv
      <4>2. UNCHANGED up
        BY <1>1, <3>4, ClientEffects DEF Lowered
      <4>3. QED
        BY <4>1, <4>2
    <3>5. QED
      BY <3>2, <3>3, <3>4
  <2>4. QED
    BY <2>2, <2>3
<1>5. ASSUME NEW d \in Dirs, last'[d] = "stop"
      PROVE  ~up'[d] /\ (Committed(d)' => Told(d)')
  <2>1. Committed(d)' => Committed(d)
    BY <1>2 DEF Committed
  <2>2. CASE last[d] = "stop"
    <3>1. ~up[d] /\ (Committed(d) => Told(d))
      BY <2>2 DEF StopInv
    <3>2. \A a \in Clients : Busy(a, d) => a # c
      BY <2>2 DEF QuietInv
    <3>3. Told(d) => Told(d)'
      <4>1. CASE UNCHANGED control
        BY <4>1 DEF Told
      <4>2. CASE \E e : \E k : control' = [control EXCEPT ![e] = Append(@, CommandByte(k))]
        <5>1. PICK e : \E k : control' = [control EXCEPT ![e] = Append(@, CommandByte(k))]
          BY <4>2
        <5>2. control[d] \in Seq(Byte)
          BY <1>1 DEF FileTypes
        <5>3. PICK k : control' = [control EXCEPT ![e] = Append(@, CommandByte(k))]
          BY <5>1
        <5>4. control'[d] = control[d] \/ control'[d] = Append(control[d], CommandByte(k))
          BY <1>1, <5>3 DEF FileTypes
        <5>5. CommandByte(k) \in Byte
          BY BytesTyped
        <5>6. QED
          BY <5>2, <5>4, <5>5 DEF Told
      <4>3. QED
        BY <1>1, <4>1, <4>2, ClientEffects
    <3>4. QED
      BY <1>3, <2>1, <3>1, <3>2, <3>3
  <2>3. CASE last[d] # "stop"
    <3>1. /\ Client(c) /\ cmd[c] \in {"start", "stop"} /\ disturbed[arg_name[c]] # "now"
          /\ calls'[c] = <<>>
          /\ last' = [last EXCEPT ![arg_name[c]] = cmd[c]]
          /\ cmd[c] = "stop" =>
               /\ Head(calls[c]) \in Lowered
               /\ ~Reader(arg_name[c])
                  \/ control' = [control EXCEPT ![arg_name[c]] = Append(@, "x")]
      BY <1>1, <1>5, <2>3, LastEffects
    <3>2. arg_name[c] = d /\ cmd[c] = "stop"
      BY <1>1, <1>5, <2>3, <3>1 DEF GhostTypes
    <3>3. Busy(c, d)
      BY <3>1, <3>2, StepOfCall DEF Busy
    <3>4. ~up[d]
      BY <3>1, <3>2, <3>3 DEF StopInv
    <3>5. UNCHANGED up
      BY <1>1, <3>1, <3>2, ClientEffects DEF Lowered
    <3>6. Committed(d) => Reader(d)
      BY <1>1 DEF Committed, Reader, MonitorInv
    <3>7. CASE Reader(d)
      <4>1. control[d] \in Seq(Byte) /\ control'[d] = Append(control[d], "x")
        BY <1>1, <3>1, <3>2, <3>7 DEF FileTypes
      <4>2. Len(control'[d]) = Len(control[d]) + 1 /\ Len(control[d]) \in Nat
            /\ control'[d][Len(control[d]) + 1] = "x"
        BY <4>1 DEF Byte
      <4>3. Told(d)'
        BY <4>2 DEF Told
      <4>4. QED
        BY <3>4, <3>5, <4>3
    <3>8. QED
      BY <2>1, <3>4, <3>5, <3>6, <3>7
  <2>4. QED
    BY <2>2, <2>3
<1>6. QED
  BY <1>4, <1>5 DEF StopInv, Busy, Running, Committed, Told

\* The first step of a command: who was busy with the service is disturbed.
LEMMA MainEffects ==
    ASSUME ClientParts, GhostTypes, NEW c \in Clients, main(c)
    PROVE  /\ ~Running(c) /\ Head(calls'[c]) = "readdir"
           /\ UNCHANGED <<monitor_vars, links, file_vars>>
           /\ \A b \in Clients \ {c} :
                /\ calls'[b] = calls[b] /\ cmd'[b] = cmd[b] /\ arg_name'[b] = arg_name[b]
                /\ seen'[b] = seen[b] /\ link'[b] = link[b]
           /\ \/ cmd'[c] = "killall" /\ UNCHANGED <<last, disturbed>>
              \/ \E d \in Dirs :
                   /\ arg_name'[c] = d
                   /\ last' = [last EXCEPT ![d] = "none"]
                   /\ \A e \in Dirs \ {d} : disturbed'[e] = disturbed[e]
                   /\ disturbed'[d] # "now" => \A b \in Clients : ~Busy(b, d)
                   /\ disturbed'[d] = "never" => disturbed[d] = "never"
<1>1. ClientTypes
  BY DEF ClientParts
<1>2. ~Running(c) /\ UNCHANGED <<monitor_vars, links, seen, link, file_vars>>
  BY DEF main
<1>3. PICK k \in Commands :
         /\ cmd' = [cmd EXCEPT ![c] = k]
         /\ \/ /\ k = "killall"
               /\ calls' = [calls EXCEPT ![c] = <<"readdir", "next">>]
               /\ UNCHANGED <<arg_name, arg_priority, ghost_vars>>
            \/ /\ calls' = [calls EXCEPT ![c] = <<"readdir", "resolve">>]
               /\ \E d \in Dirs :
                    /\ arg_name' = [arg_name EXCEPT ![c] = d]
                    /\ last' = [last EXCEPT ![d] = "none"]
                    /\ disturbed' = [disturbed EXCEPT ![d] =
                                       IF \E b \in Clients : Busy(b, d) THEN "now"
                                       ELSE IF @ = "now" THEN "before" ELSE @]
  BY DEF main
<1>4. /\ Head(<<"readdir", "next">>) = "readdir" /\ Head(<<"readdir", "resolve">>) = "readdir"
  OBVIOUS
<1>5. /\ Head(calls'[c]) = "readdir"
      /\ \A b \in Clients \ {c} :
           /\ calls'[b] = calls[b] /\ cmd'[b] = cmd[b] /\ arg_name'[b] = arg_name[b]
           /\ seen'[b] = seen[b] /\ link'[b] = link[b]
  BY <1>1, <1>2, <1>3, <1>4 DEF ClientTypes
<1>6. \/ cmd'[c] = "killall" /\ UNCHANGED <<last, disturbed>>
      \/ \E d \in Dirs :
           /\ arg_name'[c] = d
           /\ last' = [last EXCEPT ![d] = "none"]
           /\ \A e \in Dirs \ {d} : disturbed'[e] = disturbed[e]
           /\ disturbed'[d] # "now" => \A b \in Clients : ~Busy(b, d)
           /\ disturbed'[d] = "never" => disturbed[d] = "never"
  <2>1. CASE k = "killall" /\ UNCHANGED <<arg_name, arg_priority, ghost_vars>>
    BY <1>1, <1>3, <2>1 DEF ClientTypes, ghost_vars
  <2>2. CASE \E d \in Dirs :
               /\ arg_name' = [arg_name EXCEPT ![c] = d]
               /\ last' = [last EXCEPT ![d] = "none"]
               /\ disturbed' = [disturbed EXCEPT ![d] =
                                  IF \E b \in Clients : Busy(b, d) THEN "now"
                                  ELSE IF @ = "now" THEN "before" ELSE @]
    <3>1. PICK d \in Dirs :
               /\ arg_name' = [arg_name EXCEPT ![c] = d]
               /\ last' = [last EXCEPT ![d] = "none"]
               /\ disturbed' = [disturbed EXCEPT ![d] =
                                  IF \E b \in Clients : Busy(b, d) THEN "now"
                                  ELSE IF @ = "now" THEN "before" ELSE @]
      BY <2>2
    <3>2. arg_name'[c] = d
      BY <1>1, <3>1 DEF ClientTypes
    <3>3. /\ \A e \in Dirs \ {d} : disturbed'[e] = disturbed[e]
          /\ disturbed'[d] = IF \E b \in Clients : Busy(b, d) THEN "now"
                             ELSE IF disturbed[d] = "now" THEN "before" ELSE disturbed[d]
      BY <3>1 DEF GhostTypes
    <3>4. disturbed'[d] # "now" => \A b \in Clients : ~Busy(b, d)
      BY <3>3
    <3>5. disturbed'[d] = "never" => disturbed[d] = "never"
      BY <3>3
    <3>6. last' = [last EXCEPT ![d] = "none"]
      BY <3>1
    <3>7. QED
      BY <3>2, <3>3, <3>4, <3>5, <3>6
  <2>3. QED
    BY <1>3, <2>1, <2>2
<1>7. QED
  BY <1>2, <1>5, <1>6

\* A new command disturbs the others or ends the undisturbed time of its service.
LEMMA StopMain ==
    ASSUME TypeInv, QuietInv, StopInv, NEW c \in Clients, main(c)
    PROVE  QuietInv' /\ StopInv'
<1>1. ClientParts /\ GhostTypes /\ LoopTypes
  BY TypeGroups DEF ScannerTypes
<1>2. /\ ~Running(c) /\ Head(calls'[c]) = "readdir"
      /\ UNCHANGED <<monitor_vars, file_vars>>
      /\ \A b \in Clients \ {c} :
           calls'[b] = calls[b] /\ cmd'[b] = cmd[b] /\ arg_name'[b] = arg_name[b]
  BY <1>1, MainEffects
<1>3. CASE cmd'[c] = "killall" /\ UNCHANGED <<last, disturbed>>
  <2>1. \A b \in Clients, d \in Dirs : Busy(b, d)' => Busy(b, d) /\ b # c
    BY <1>2, <1>3 DEF Busy, Running
  <2>2. QuietInv'
    BY <1>3, <2>1 DEF QuietInv, Busy, Running
  <2>3. \A b \in Clients, d \in Dirs :
          Busy(b, d)' /\ disturbed'[d] # "now" /\ cmd'[b] = "stop" /\ Head(calls'[b]) \in Lowered
          => ~up'[d]
    BY <1>2, <1>3, <2>1 DEF StopInv, file_vars
  <2>4. \A d \in Dirs : last'[d] = "stop" => ~up'[d] /\ (Committed(d)' => Told(d)')
    BY <1>2, <1>3 DEF StopInv, file_vars, monitor_vars, Committed, Told
  <2>5. QED
    BY <2>2, <2>3, <2>4 DEF StopInv, Busy, Running, Committed, Told
<1>4. ASSUME NEW d \in Dirs,
             arg_name'[c] = d,
             last' = [last EXCEPT ![d] = "none"],
             \A e \in Dirs \ {d} : disturbed'[e] = disturbed[e],
             disturbed'[d] # "now" => \A b \in Clients : ~Busy(b, d)
      PROVE  QuietInv' /\ StopInv'
  <2>1. last'[d] = "none" /\ \A e \in Dirs \ {d} : last'[e] = last[e]
    BY <1>1, <1>4 DEF GhostTypes
  <2>2. \A b \in Clients, e \in Dirs : Busy(b, e)' => (Busy(b, e) /\ b # c) \/ (b = c /\ e = d)
    BY <1>2, <1>4 DEF Busy, Running
  <2>3. \A e \in Dirs : disturbed'[e] # "now" =>
          \A a, b \in Clients : Busy(a, e)' /\ Busy(b, e)' => a = b
    BY <1>4, <2>2 DEF QuietInv
  <2>4. \A e \in Dirs : last'[e] # "none" => \A b \in Clients : ~Busy(b, e)'
    BY <2>1, <2>2 DEF QuietInv
  <2>5. QuietInv'
    BY <2>3, <2>4 DEF QuietInv, Busy, Running
  <2>6. ASSUME NEW b \in Clients, NEW e \in Dirs,
               Busy(b, e)', disturbed'[e] # "now", cmd'[b] = "stop", Head(calls'[b]) \in Lowered
        PROVE  ~up'[e]
    <3>1. b # c
      BY <1>2, <2>6 DEF Lowered
    <3>2. Busy(b, e) /\ e # d
      BY <1>4, <2>2, <2>6, <3>1
    <3>3. QED
      BY <1>2, <1>4, <2>6, <3>1, <3>2 DEF StopInv, file_vars
  <2>7. \A e \in Dirs : last'[e] = "stop" => ~up'[e] /\ (Committed(e)' => Told(e)')
    BY <1>2, <2>1 DEF StopInv, file_vars, monitor_vars, Committed, Told
  <2>8. QED
    BY <2>5, <2>6, <2>7 DEF StopInv, Busy, Running, Committed, Told
<1>5. QED
  BY <1>1, <1>3, <1>4, MainEffects

\* Scans and idle steps.
LEMMA StopUnchanged ==
    ASSUME QuietInv, StopInv,
           UNCHANGED <<client_vars, file_vars, ghost_vars, loop, run, serves>>
    PROVE  QuietInv' /\ StopInv'
  BY DEF QuietInv, StopInv, Busy, Running, Committed, Told, client_vars, file_vars, ghost_vars

\* A monitor keeps StopInv: it starts run only if it finds FILE_UP, and reads every
\* byte that it was told.
LEMMA StopMonitor ==
    ASSUME TypeInv, QuietInv, StopInv, NEW p \in Pids,
           Monitor(p) \/ RunExits(p) \/ poll_timeout(p)
    PROVE  QuietInv' /\ StopInv'
<1>1. ScanTypes /\ LoopTypes /\ MonitorInv /\ FileTypes
  BY TypeGroups DEF ScannerTypes
<1>2. UNCHANGED <<client_vars, up, ghost_vars>>
  BY MonitorFrame
<1>3. QuietInv'
  BY <1>2 DEF QuietInv, Busy, Running, client_vars, ghost_vars
<1>4. loop[p] # "setup" => serves[p] \in Dirs
  BY <1>1 DEF MonitorInv
<1>5. ASSUME NEW d \in Dirs, last[d] = "stop", Committed(d)'
      PROVE  Told(d)'
  <2>1. ~up[d] /\ (Committed(d) => Told(d))
    BY <1>5 DEF StopInv
  <2>2. CASE MonitorStarts(p)
    <3>1. monitors[p] = "starting" /\ UNCHANGED <<loop, run, control>>
      BY <2>2 DEF MonitorStarts, S!MonitorStarts, file_vars
    <3>2. loop[p] = "setup" /\ \A q \in Pids \ {p} : serves'[q] = serves[q]
      BY <1>1, <2>2, <3>1 DEF MonitorStarts, S!MonitorStarts, MonitorInv, ScanTypes
    <3>3. Committed(d)
      BY <1>5, <3>1, <3>2 DEF Committed
    <3>4. QED
      BY <2>1, <3>1, <3>3 DEF Told
  <2>3. CASE create_namedpipe(p)
    <3>1. loop' = [loop EXCEPT ![p] = "check"] /\ UNCHANGED <<serves, run, control>>
      BY <2>3 DEF create_namedpipe
    <3>2. Committed(d)
      BY <1>1, <1>5, <3>1 DEF Committed, LoopTypes
    <3>3. QED
      BY <2>1, <3>1, <3>2 DEF Told
  <2>4. CASE check_fileup(p)
    <3>1. /\ loop' = [loop EXCEPT ![p] = IF up[serves[p]] /\ serves[p] \notin run
                                         THEN "start" ELSE "poll"]
          /\ UNCHANGED <<serves, run, control>>
      BY <2>4 DEF check_fileup, file_vars
    <3>2. Committed(d)
      BY <1>1, <1>5, <2>1, <3>1 DEF Committed, LoopTypes
    <3>3. QED
      BY <2>1, <3>1, <3>2 DEF Told
  <2>5. CASE start_child(p)
    <3>1. /\ loop[p] = "start" /\ loop' = [loop EXCEPT ![p] = "poll"]
          /\ run' = run \cup {serves[p]} /\ UNCHANGED <<serves, control>>
      BY <2>5 DEF start_child, file_vars
    <3>2. Committed(d)
      BY <1>1, <1>5, <3>1 DEF Committed, LoopTypes
    <3>3. QED
      BY <2>1, <3>1, <3>2 DEF Told
  <2>6. CASE RunExits(p) \/ poll_timeout(p)
    <3>1. /\ \E l \in {"check", loop[p]} : loop' = [loop EXCEPT ![p] = l]
          /\ run' \subseteq run /\ UNCHANGED <<serves, control>>
      BY <1>1, <2>6 DEF RunExits, poll_timeout, file_vars, LoopTypes
    <3>2. Committed(d)
      BY <1>1, <1>5, <3>1 DEF Committed, LoopTypes
    <3>3. QED
      BY <2>1, <3>1, <3>2 DEF Told
  <2>7. CASE parse_command(p)
    <3>1. /\ loop[p] = "poll" /\ control[serves[p]] # <<>> /\ run' \subseteq run
          /\ Head(control[serves[p]]) # "x"
          /\ loop' = [loop EXCEPT ![p] = "check"]
          /\ control' = [control EXCEPT ![serves[p]] = Tail(@)] /\ UNCHANGED serves
      BY <2>7 DEF parse_command
    <3>2. Committed(d)
      BY <1>1, <1>5, <3>1 DEF Committed, LoopTypes
    <3>3. CASE d # serves[p]
      <4>1. control'[d] = control[d]
        BY <1>1, <3>1, <3>3 DEF FileTypes
      <4>2. QED
        BY <2>1, <3>2, <4>1 DEF Told
    <3>4. CASE d = serves[p]
      <4>1. /\ control[d] \in Seq(Byte) /\ control'[d] = Tail(control[d])
        BY <1>1, <3>1, <3>4 DEF FileTypes
      <4>2. PICK i \in 1..Len(control[d]) : control[d][i] = "x"
        BY <2>1, <3>2 DEF Told
      <4>3. i # 1
        BY <3>1, <3>4, <4>1, <4>2
      <4>4. i - 1 \in 1..Len(control'[d]) /\ control'[d][i - 1] = "x"
        BY <4>1, <4>2, <4>3
      <4>5. QED
        BY <4>4 DEF Told
    <3>5. QED
      BY <3>3, <3>4
  <2>8. CASE parse_command_terminate(p)
    <3>1. /\ loop[p] = "poll" /\ run' = run \ {serves[p]}
          /\ loop' = [loop EXCEPT ![p] = "setup"]
          /\ \A e \in Dirs \ {serves[p]} : control'[e] = control[e]
          /\ serves' = [serves EXCEPT ![p] = NoDir]
      BY <1>1, <2>8 DEF parse_command_terminate, S!MonitorExits, FileTypes
    <3>2. /\ loop'[p] = "setup" /\ \A q \in Pids \ {p} : loop'[q] = loop[q] /\ serves'[q] = serves[q]
      BY <1>1, <3>1 DEF LoopTypes, ScanTypes
    <3>3. Committed(d) /\ d # serves[p]
      BY <1>1, <1>4, <1>5, <3>1, <3>2 DEF Committed, MonitorInv
    <3>4. QED
      BY <2>1, <3>1, <3>3 DEF Told
  <2>9. QED
    BY <2>2, <2>3, <2>4, <2>5, <2>6, <2>7, <2>8 DEF Monitor
<1>6. StopInv'
  <2>1. \A c \in Clients, d \in Dirs :
          Busy(c, d)' /\ disturbed'[d] # "now" /\ cmd'[c] = "stop" /\ Head(calls'[c]) \in Lowered
          => ~up'[d]
    BY <1>2 DEF StopInv, Busy, Running, client_vars, ghost_vars
  <2>2. \A d \in Dirs : last'[d] = "stop" => ~up'[d] /\ (Committed(d)' => Told(d)')
    BY <1>2, <1>5 DEF StopInv, ghost_vars
  <2>3. QED
    BY <2>1, <2>2 DEF StopInv, Busy, Running, Committed, Told
<1>7. QED
  BY <1>3, <1>6

\* Every step keeps StopInv.
LEMMA StopStep == TypeInv /\ QuietInv /\ StopInv /\ [Next]_vars => QuietInv' /\ StopInv'
<1>1. SUFFICES ASSUME TypeInv, QuietInv, StopInv, [Next]_vars PROVE QuietInv' /\ StopInv'
  OBVIOUS
<1>2. CASE Scan
  <2>1. UNCHANGED serves
    BY <1>1, <1>2, ScanServes
  <2>2. QED
    BY <1>1, <1>2, <2>1, StopUnchanged DEF Scan
<1>3. ASSUME NEW c \in Clients, main(c) \/ Client(c) \/ Kill(c) PROVE QuietInv' /\ StopInv'
  BY <1>1, <1>3, StopMain, QuietClient, StopClient
<1>4. ASSUME NEW p \in Pids, Monitor(p) \/ RunExits(p) \/ poll_timeout(p)
      PROVE  QuietInv' /\ StopInv'
  BY <1>1, <1>4, StopMonitor
<1>5. CASE UNCHANGED vars
  BY <1>1, <1>5, StopUnchanged DEF vars, monitor_vars
<1>6. QED
  BY <1>1, <1>2, <1>3, <1>4, <1>5 DEF Next

\* After a stop that no other command disturbed, run is down for good, or the byte
\* that ends it is on its way (command_action, monitor_command, check_fileup).
THEOREM StopHoldsAlways == Spec => []StopHolds
<1>1. Init => QuietInv /\ StopInv
  BY StopInit
<1>2. TypeInv /\ QuietInv /\ StopInv /\ [Next]_vars => QuietInv' /\ StopInv'
  BY StopStep
<1>3. StopInv => StopHolds
  BY DEF StopInv, StopHolds, Committed, Told
<1>4. QED
  BY <1>1, <1>2, <1>3, TypeHolds, PTL DEF Spec

-----------------------------------------------------------------------------
(* The link keeps its name *)

\* What LinkMatchesPriority leans on, for services that no two commands met on: the
\* priority is written only while there is no link, and a link is made and removed
\* by the name that the priority gives it.
LinkInv ==
    /\ \A d \in Dirs, n \in Names :
         disturbed[d] = "never" /\ links[n] = d => n = LinkName(d)
    /\ \A c \in Clients, d \in Dirs : disturbed[d] = "never" /\ Busy(c, d) =>
         /\ Head(calls[c]) = "resolve" => \A n \in Names : links[n] = d => n \in seen[c]
         /\ Head(calls[c]) \in {"truncate", "puts"} => \A n \in Names : links[n] # d
         /\ Head(calls[c]) \in {"add", "remove"} => link[c] = LinkName(d)

\* The links that earlier commands left have the right names.
LEMMA LinkInit == Init => LinkInv
  BY DEF Init, LinkInv, LinkName, Busy, Running

\* A client keeps LinkInv, whichever call it makes and wherever it dies.
LEMMA LinkClient ==
    ASSUME TypeInv, QuietInv, LinkInv, NEW c \in Clients, Client(c) \/ Kill(c)
    PROVE  LinkInv'
<1>1. /\ ClientParts /\ ClientTypes /\ GhostTypes /\ PlanInv /\ FileTypes /\ LinkTypes
      /\ LinkRead
  BY TypeGroups DEF ClientParts
<1>2. /\ UNCHANGED disturbed
      /\ \A b \in Clients \ {c} : /\ calls'[b] = calls[b] /\ cmd'[b] = cmd[b]
                                  /\ seen'[b] = seen[b] /\ link'[b] = link[b]
  BY <1>1, ClientFrame
<1>3. Kill(c) => UNCHANGED <<links, priority>>
  BY DEF Kill, file_vars
<1> DEFINE Mine(d) == Client(c) /\ arg_name[c] = d /\ Busy(c, d)
<1>4. ASSUME NEW d \in Dirs, NEW n \in Names, links'[n] = d, links[n] # d
      PROVE  Mine(d) /\ Head(calls[c]) = "add" /\ n = link[c] /\ UNCHANGED priority
  <2>1. /\ Head(calls[c]) = "add" /\ links' = [links EXCEPT ![link[c]] = arg_name[c]]
        /\ UNCHANGED priority /\ Client(c)
    BY <1>1, <1>3, <1>4, ClientEffects, ValuesAssumption DEF LinkTypes
  <2>2. n = link[c] /\ d = arg_name[c]
    BY <1>1, <1>4, <2>1 DEF LinkTypes
  <2>3. QED
    BY <1>1, <2>1, <2>2, ChangerBusy
<1>5. ASSUME NEW d \in Dirs, LinkName(d)' # LinkName(d)
      PROVE  Mine(d) /\ Head(calls[c]) \in {"truncate", "puts"} /\ UNCHANGED links
  <2>1. priority'[d] # priority[d]
    BY <1>5 DEF LinkName
  <2>2. /\ Head(calls[c]) \in {"truncate", "puts"} /\ UNCHANGED links /\ Client(c)
        /\ \E v : priority' = [priority EXCEPT ![arg_name[c]] = v]
    BY <1>1, <1>3, <2>1, ClientEffects
  <2>3. arg_name[c] = d
    BY <1>1, <2>1, <2>2 DEF FileTypes
  <2>4. QED
    BY <1>1, <2>2, <2>3, ChangerBusy
<1>6. ASSUME NEW d \in Dirs, NEW n \in Names, disturbed[d] = "never", links'[n] = d
      PROVE  n = LinkName(d)'
  <2>1. CASE links[n] = d
    <3>1. n = LinkName(d)
      BY <1>6, <2>1 DEF LinkInv
    <3>2. LinkName(d)' = LinkName(d)
      BY <1>5, <1>6, <2>1 DEF LinkInv
    <3>3. QED
      BY <3>1, <3>2
  <2>2. CASE links[n] # d
    <3>1. Mine(d) /\ Head(calls[c]) = "add" /\ n = link[c] /\ UNCHANGED priority
      BY <1>4, <1>6, <2>2
    <3>2. n = LinkName(d)
      BY <1>6, <3>1 DEF LinkInv
    <3>3. QED
      BY <3>1, <3>2 DEF LinkName
  <2>3. QED
    BY <2>1, <2>2
<1>7. ASSUME NEW b \in Clients, NEW d \in Dirs, disturbed[d] = "never", Busy(b, d)'
      PROVE  /\ Head(calls'[b]) = "resolve" => \A n \in Names : links'[n] = d => n \in seen'[b]
             /\ Head(calls'[b]) \in {"truncate", "puts"} => \A n \in Names : links'[n] # d
             /\ Head(calls'[b]) \in {"add", "remove"} => link'[b] = LinkName(d)'
  <2>1. Busy(b, d) /\ cmd'[b] = cmd[b]
    BY <1>1, <1>7, BusyKept DEF Busy, Running
  <2>2. CASE b # c
    <3>1. ~Mine(d)
      BY <1>1, <1>7, <2>1, <2>2 DEF QuietInv
    <3>2. LinkName(d)' = LinkName(d) /\ \A n \in Names : links'[n] = d => links[n] = d
      BY <1>4, <1>5, <3>1
    <3>3. QED
      BY <1>2, <1>7, <2>1, <2>2, <3>2 DEF LinkInv
  <2>3. CASE b = c
    <3> DEFINE h == Head(calls[c])
    <3>1. /\ Client(c) /\ calls'[c] # <<>> /\ cmd[c] # "killall" /\ arg_name[c] = d
      BY <1>1, <1>7, <2>1, <2>3 DEF Busy, Running, Kill, exit, ClientTypes
    <3>2. ASSUME Head(calls'[c]) = "resolve", NEW n \in Names, links'[n] = d
          PROVE  n \in seen'[c]
      <4>1. \/ h = "readdir"
            \/ h = "resolve" /\ \E m \in seen[c] : /\ links[m] \notin {arg_name[c], NoDir}
                                                   /\ seen'[c] = seen[c] \ {m}
        BY <1>1, <3>1, <3>2, CallsBefore
      <4>2. links[n] = d
        BY <1>4, <3>2, <4>1
      <4>3. CASE h = "readdir"
        <5>1. seen' = [seen EXCEPT ![c] = {m \in Names : links[m] # NoDir}]
          BY <3>1, <4>3, StepOfCall DEF readdir
        <5>2. QED
          BY <1>1, <4>2, <5>1, ValuesAssumption DEF ClientTypes
      <4>4. CASE h = "resolve" /\ \E m \in seen[c] : /\ links[m] \notin {arg_name[c], NoDir}
                                                     /\ seen'[c] = seen[c] \ {m}
        <5>1. n \in seen[c]
          BY <1>7, <2>1, <2>3, <4>2, <4>4 DEF LinkInv
        <5>2. QED
          BY <3>1, <4>2, <4>4, <5>1
      <4>5. QED
        BY <4>1, <4>3, <4>4
    <3>3. ASSUME Head(calls'[c]) \in {"truncate", "puts"}, NEW n \in Names, links'[n] = d
          PROVE  FALSE
      <4>1. \/ h = "remove" \/ h = "truncate"
            \/ h = "resolve" /\ seen[c] = {}
        BY <1>1, <3>1, <3>3, CallsBefore
      <4>2. links[n] = d
        BY <1>4, <3>3, <4>1
      <4>3. CASE h = "remove"
        <5>1. links' = [links EXCEPT ![link[c]] = NoDir] /\ link[c] = LinkName(d)
          BY <1>1, <1>7, <2>1, <2>3, <3>1, <4>3, ClientEffects DEF LinkInv
        <5>2. n = LinkName(d)
          BY <1>7, <4>2 DEF LinkInv
        <5>3. links'[n] = NoDir
          BY <1>1, <5>1, <5>2 DEF LinkTypes
        <5>4. QED
          BY <3>3, <5>3, ValuesAssumption
      <4>4. CASE h = "truncate" \/ (h = "resolve" /\ seen[c] = {})
        BY <1>7, <2>1, <2>3, <4>2, <4>4 DEF LinkInv
      <4>5. QED
        BY <4>1, <4>3, <4>4
    <3>4. ASSUME Head(calls'[c]) \in {"add", "remove"}
          PROVE  link'[c] = LinkName(d)'
      <4>1. h = "linkname"
        BY <1>1, <3>1, <3>4, CallsBefore
      <4>2. link' = [link EXCEPT ![c] = LinkName(d)]
        BY <3>1, <4>1, StepOfCall DEF service_linkname
      <4>3. LinkName(d)' = LinkName(d)
        BY <1>5, <4>1
      <4>4. QED
        BY <1>1, <4>2, <4>3 DEF ClientTypes
    <3>5. QED
      BY <2>3, <3>2, <3>3, <3>4
  <2>4. QED
    BY <2>2, <2>3
<1>8. QED
  BY <1>2, <1>6, <1>7 DEF LinkInv, Busy, Running, LinkName

\* Steps of others do not touch links and priorities.
LEMMA LinkUnchanged ==
    ASSUME LinkInv, UNCHANGED <<client_vars, links, priority, disturbed>>
    PROVE  LinkInv'
  BY DEF LinkInv, Busy, Running, LinkName, client_vars

\* A new command touches no link.
LEMMA LinkMain ==
    ASSUME TypeInv, LinkInv, NEW c \in Clients, main(c)
    PROVE  LinkInv'
<1>1. ClientParts /\ GhostTypes
  BY TypeGroups
<1>2. /\ Head(calls'[c]) = "readdir" /\ UNCHANGED <<links, file_vars>>
      /\ \A b \in Clients \ {c} :
           /\ calls'[b] = calls[b] /\ cmd'[b] = cmd[b] /\ arg_name'[b] = arg_name[b]
           /\ seen'[b] = seen[b] /\ link'[b] = link[b]
      /\ \A d \in Dirs : disturbed'[d] = "never" => disturbed[d] = "never"
  BY <1>1, MainEffects
<1>3. \A d \in Dirs : LinkName(d)' = LinkName(d)
  BY <1>2 DEF LinkName, file_vars
<1>4. \A d \in Dirs, n \in Names :
        disturbed'[d] = "never" /\ links'[n] = d => n = LinkName(d)'
  BY <1>2, <1>3 DEF LinkInv
<1>5. ASSUME NEW b \in Clients, NEW d \in Dirs, disturbed'[d] = "never", Busy(b, d)'
      PROVE  /\ Head(calls'[b]) = "resolve" => \A n \in Names : links'[n] = d => n \in seen'[b]
             /\ Head(calls'[b]) \in {"truncate", "puts"} => \A n \in Names : links'[n] # d
             /\ Head(calls'[b]) \in {"add", "remove"} => link'[b] = LinkName(d)'
  <2>1. CASE b = c
    BY <1>2, <2>1
  <2>2. CASE b # c
    <3>1. Busy(b, d) /\ disturbed[d] = "never"
      BY <1>2, <1>5, <2>2 DEF Busy, Running
    <3>2. QED
      BY <1>2, <1>3, <2>2, <3>1 DEF LinkInv
  <2>3. QED
    BY <2>1, <2>2
<1>6. QED
  BY <1>4, <1>5 DEF LinkInv, Busy, Running, LinkName

\* Every step keeps LinkInv.
LEMMA LinkInvStep == TypeInv /\ QuietInv /\ LinkInv /\ [Next]_vars => LinkInv'
<1>1. SUFFICES ASSUME TypeInv, QuietInv, LinkInv, [Next]_vars PROVE LinkInv'
  OBVIOUS
<1>2. CASE Scan
  BY <1>1, <1>2, ScanServes, LinkUnchanged DEF Scan, file_vars, ghost_vars
<1>3. ASSUME NEW c \in Clients, main(c) \/ Client(c) \/ Kill(c) PROVE LinkInv'
  BY <1>1, <1>3, LinkMain, LinkClient
<1>4. ASSUME NEW p \in Pids, Monitor(p) \/ RunExits(p) \/ poll_timeout(p) PROVE LinkInv'
  BY <1>1, <1>4, MonitorFrame, LinkUnchanged DEF ghost_vars
<1>5. CASE UNCHANGED vars
  BY <1>1, <1>5, LinkUnchanged DEF vars, file_vars, ghost_vars
<1>6. QED
  BY <1>1, <1>2, <1>3, <1>4, <1>5 DEF Next

\* The link of a service that no two commands met on has the name that the next
\* removal will look for (service_priority, service_add, service_remove), whatever
\* other services share the name, and whichever call fails or is never made.
THEOREM LinkMatches == Spec => []LinkMatchesPriority
<1>1. Init => LinkInv
  BY LinkInit
<1>2. TypeInv /\ QuietInv /\ LinkInv /\ [Next]_vars => LinkInv'
  BY LinkInvStep
<1>3. LinkInv => LinkMatchesPriority
  BY DEF LinkInv, LinkMatchesPriority
<1>4. Init => QuietInv /\ StopInv
  BY StopInit
<1>5. TypeInv /\ QuietInv /\ StopInv /\ [Next]_vars => QuietInv' /\ StopInv'
  BY StopStep
<1>6. QED
  BY <1>1, <1>2, <1>3, <1>4, <1>5, TypeHolds, PTL DEF Spec

-----------------------------------------------------------------------------
(* The scanner, with srvctl for its environment *)

\* What is proved of the scanner by itself, for the names and links of Srvctl.
SP == INSTANCE ScannerProofs

\* The assumptions of Scanner hold for what Srvctl gives it.
LEMMA LinksTyped == Links \subseteq Names \X Dirs
  BY OwnNameAssumption, PriorityAssumption DEF Links

\* The scanner reads a finite directory.
LEMMA NamesFinite == SP!IsFiniteSet(Names)
  BY NamesAssumption DEF SP!IsFiniteSet, IsFiniteSet

\* Both instances of Scanner say the same.
LEMMA SameCardinality == \A T : SP!Cardinality(T) = S!Cardinality(T)
  BY DEF SP!Cardinality, S!Cardinality

\* The types of the one are those of the other.
LEMMA SameTypes == S!TypeOK <=> SP!TypeOK
  BY DEF S!TypeOK, SP!TypeOK

\* So is what is tracked.
LEMMA SameTracks == S!MonitorsTracked <=> SP!MonitorsTracked
  BY DEF S!MonitorsTracked, SP!MonitorsTracked, S!Unreaped, SP!Unreaped

\* So is the capacity.
LEMMA SameCapacity == S!WithinCapacity <=> SP!WithinCapacity
  BY SameCardinality DEF S!WithinCapacity, SP!WithinCapacity

\* So is what a recorded monitor serves.
LEMMA SameServes == S!RecordedMonitorServes <=> SP!RecordedMonitorServes
  BY DEF S!RecordedMonitorServes, SP!RecordedMonitorServes

\* What the scanner and the monitors do here is what they do in Scanner.
LEMMA SameScan == S!Scan => SP!Scan
<1> USE DEF S!table, SP!table, S!processes, SP!processes, S!Event, SP!Event
<1>1. ASSUME NEW p \in Pids, S!monitor_done(p) PROVE SP!monitor_done(p)
  BY <1>1 DEF S!monitor_done, SP!monitor_done, S!Done, SP!Done
<1>2. S!read_directory => SP!read_directory
  <2>1. S!Reaped => SP!Reaped
    BY DEF S!Reaped, SP!Reaped
  <2>2. ASSUME NEW read, S!ReadNames(read) PROVE SP!ReadNames(read)
    BY <2>2, SameCardinality
    DEF S!ReadNames, SP!ReadNames, S!Visible, SP!Visible, S!Capacity, SP!Capacity
  <2>3. QED
    BY <2>1, <2>2 DEF S!read_directory, SP!read_directory
<1>3. ASSUME NEW n \in Names, S!start(n) PROVE SP!start(n)
  <2>1. \A d : /\ S!Directory(d) <=> SP!Directory(d)
               /\ S!NeedsMonitor(d) <=> SP!NeedsMonitor(d)
               /\ S!Fits(d) <=> SP!Fits(d)
    BY SameCardinality
    DEF S!Directory, SP!Directory, S!NeedsMonitor, SP!NeedsMonitor, S!Fits, SP!Fits
  <2>2. ASSUME NEW d, NEW p, S!create_process(d, n, p) PROVE SP!create_process(d, n, p)
    BY <2>2 DEF S!create_process, SP!create_process
  <2>3. QED
    BY <1>3, <2>1, <2>2 DEF S!start, SP!start
<1>4. S!clear_services => SP!clear_services
  <2>1. S!Gone = SP!Gone
    BY DEF S!Gone, SP!Gone
  <2>2. QED
    BY <2>1 DEF S!clear_services, SP!clear_services
<1>5. S!scan_again => SP!scan_again
  BY DEF S!scan_again, SP!scan_again
<1>6. QED
  BY <1>1, <1>2, <1>3, <1>4, <1>5 DEF S!Scan, SP!Scan

\* A monitor starts and exits as in Scanner.
LEMMA SameMonitor ==
    ASSUME NEW p \in Pids
    PROVE  /\ S!MonitorStarts(p) => SP!MonitorStarts(p)
           /\ S!MonitorExits(p) => SP!MonitorExits(p)
  BY DEF S!MonitorStarts, SP!MonitorStarts, S!MonitorExits, SP!MonitorExits,
     S!table, SP!table

\* The scanner's part of the state.
table_and_processes == <<services, pid, active, monitors, name, serves, orphans>>

\* Every step of the composition is one of the scanner or one of a monitor that
\* starts or exits, or leaves the table and the processes alone.
LEMMA ScannerSteps ==
    ASSUME TypeInv, [Next]_vars
    PROVE  \/ SP!Next
           \/ UNCHANGED table_and_processes
<1> USE DEF table_and_processes, scanner_vars, monitor_vars
<1>1. CASE Scan
  BY <1>1, SameScan DEF Scan, SP!Next
<1>2. ASSUME NEW c \in Clients, main(c) \/ Client(c) \/ Kill(c)
      PROVE  UNCHANGED table_and_processes
  <2>1. CASE main(c)
    BY <2>1 DEF main
  <2>2. CASE Client(c) \/ Kill(c)
    BY <2>2, ClientFrame, TypeGroups
  <2>3. QED
    BY <1>2, <2>1, <2>2
<1>3. ASSUME NEW p \in Pids, Monitor(p) \/ RunExits(p) \/ poll_timeout(p)
      PROVE  SP!Next \/ UNCHANGED table_and_processes
  <2>1. CASE MonitorStarts(p)
    BY <2>1, SameMonitor DEF MonitorStarts, SP!Next
  <2>2. CASE parse_command_terminate(p)
    BY <2>2, SameMonitor DEF parse_command_terminate, SP!Next
  <2>3. CASE \/ create_namedpipe(p) \/ check_fileup(p) \/ start_child(p)
             \/ parse_command(p) \/ RunExits(p) \/ poll_timeout(p)
    BY <2>3 DEF create_namedpipe, check_fileup, start_child, parse_command, RunExits,
       poll_timeout
  <2>4. QED
    BY <1>3, <2>1, <2>2, <2>3 DEF Monitor
<1>4. CASE UNCHANGED vars
  BY <1>4 DEF vars
<1>5. QED
  BY <1>1, <1>2, <1>3, <1>4 DEF Next

\* The table and the processes agree after every step.
LEMMA TrackStep ==
    ASSUME TypeInv, SP!IInv, [Next]_vars
    PROVE  SP!IInv'
<1>1. SP!TypeOK
  BY SameTypes DEF TypeInv, TypeOK
<1>2. CASE SP!Next
  BY <1>1, <1>2, SP!TrackStep, LinksTyped, NamesFinite, NamesAssumption, ValuesAssumption,
     CapacityAssumption, BoundAssumption
<1>3. CASE UNCHANGED table_and_processes
  BY <1>3 DEF table_and_processes, SP!IInv, SP!MonitorsTracked, SP!Unreaped, SP!TableInv
<1>4. QED
  BY <1>2, <1>3, ScannerSteps

\* The table does not outgrow MAX_SERVICES in any step.
LEMMA SizeStep ==
    ASSUME TypeInv, SP!SizeInv, [Next]_vars
    PROVE  SP!SizeInv'
<1>1. SP!TypeOK
  BY SameTypes DEF TypeInv, TypeOK
<1>2. CASE SP!Next
  BY <1>1, <1>2, SP!SizeStep, LinksTyped, NamesFinite, NamesAssumption, ValuesAssumption,
     CapacityAssumption, BoundAssumption
<1>3. CASE UNCHANGED table_and_processes
  BY <1>3 DEF table_and_processes, SP!SizeInv
<1>4. QED
  BY <1>2, <1>3, ScannerSteps

\* Every monitor that the scanner started and has not reaped is recorded for
\* exactly one service in the table, whatever commands run, fail or are killed
\* meanwhile (start, clear_services, monitor_done; command_action).
THEOREM ScannerTracks == Spec => []S!MonitorsTracked
<1>1. Init => SP!IInv
  BY DEF Init, SP!IInv, SP!MonitorsTracked, SP!Unreaped, SP!TableInv
<1>2. TypeInv /\ SP!IInv /\ [Next]_vars => SP!IInv'
  BY TrackStep
<1>3. SP!IInv => S!MonitorsTracked
  BY SameTracks DEF SP!IInv
<1>4. QED
  BY <1>1, <1>2, <1>3, TypeHolds, PTL DEF Spec

\* No more than MAX_SERVICES monitors are recorded, however commands change the
\* links while the scanner reads them (create_entry).
THEOREM ScannerBounded == Spec => []S!WithinCapacity
<1>1. Init => SP!SizeInv
  BY SP!SizeEmpty, LinksTyped, NamesFinite, NamesAssumption, ValuesAssumption,
     CapacityAssumption, BoundAssumption DEF Init
<1>2. TypeInv /\ SP!SizeInv /\ [Next]_vars => SP!SizeInv'
  BY SizeStep
<1>3. SP!SizeInv => S!WithinCapacity
  BY SP!SizeLimits, SameCapacity, LinksTyped, NamesFinite, NamesAssumption,
     ValuesAssumption, CapacityAssumption, BoundAssumption
<1>4. QED
  BY <1>1, <1>2, <1>3, TypeHolds, PTL DEF Spec

-----------------------------------------------------------------------------
(* The names of the links *)

\* No two services have a name in common that a link to them may bear.
NamesApart == \A n \in Names, d, e \in Dirs : <<n, d>> \in Links /\ <<n, e>> \in Links => d = e

\* A link bears a name of the service it leads to; so will one that is being made.
NameInv ==
    /\ \A d \in Dirs : priority[d] \in Priorities[d] \cup {NoName}
    /\ \A n \in Names : links[n] \in Dirs => <<n, links[n]>> \in Links
    /\ \A c \in Clients, d \in Dirs : Busy(c, d) =>
         /\ arg_priority[c] \in Priorities[d] \cup {NoName}
         /\ Head(calls[c]) = "add" => <<link[c], d>> \in Links

\* The name that a link is to be made under is one of its service.
LEMMA NameIs ==
    ASSUME NEW d \in Dirs, priority[d] \in Priorities[d] \cup {NoName}
    PROVE  <<LinkName(d), d>> \in Links
  BY DEF LinkName, Links

\* The links that earlier commands left bear such names.
LEMMA NameInit == Init => NameInv
<1>1. SUFFICES ASSUME Init PROVE NameInv
  OBVIOUS
<1>2. \A d \in Dirs : priority[d] \in Priorities[d] \cup {NoName}
  BY <1>1 DEF Init
<1>3. \A n \in Names : links[n] \in Dirs => <<n, links[n]>> \in Links
  BY <1>1, <1>2, NameIs DEF Init
<1>4. QED
  BY <1>1, <1>2, <1>3 DEF Init, NameInv, Busy, Running

\* The priority that a command is to set is its own until it exits.
LEMMA ArgKept ==
    ASSUME ClientParts, NEW c \in Clients, Client(c) \/ Kill(c),
           NEW b \in Clients, calls'[b] # <<>>
    PROVE  arg_priority'[b] = arg_priority[b]
<1>1. ClientTypes
  BY DEF ClientParts
<1>2. exit(c) => arg_priority'[b] = arg_priority[b]
  BY <1>1 DEF exit, ClientTypes
<1>3. ASSUME NEW rest, proceed(c, rest) \/ act(c, rest) PROVE arg_priority'[b] = arg_priority[b]
  BY <1>2, <1>3 DEF proceed, act
<1>4. CASE readdir(c) \/ service_linkname(c)
  BY <1>4 DEF readdir, service_linkname
<1>5. CASE resolve(c)
  BY <1>2, <1>3, <1>5 DEF resolve
<1>6. CASE killall_next(c)
  BY <1>2, <1>6 DEF killall_next
<1>7. CASE service_add(c) \/ service_remove(c) \/ service_priority(c) \/ service_up(c)
  BY <1>2, <1>3, <1>7 DEF service_add, service_remove, service_priority, service_up
<1>8. CASE monitor_command_open(c) \/ monitor_command_write(c) \/ Kill(c)
  BY <1>2, <1>3, <1>8 DEF monitor_command_open, monitor_command_write, Kill
<1>9. QED
  BY <1>4, <1>5, <1>6, <1>7, <1>8 DEF Client

\* A client writes no priority but none and its own, and of its own service.
LEMMA PriorityWritten ==
    ASSUME ClientParts, NEW c \in Clients, Client(c) \/ Kill(c), ~UNCHANGED priority
    PROVE  /\ Client(c) /\ Head(calls[c]) \in {"truncate", "puts"}
           /\ \E v \in {NoName, arg_priority[c]} :
                priority' = [priority EXCEPT ![arg_name[c]] = v]
<1>1. Client(c) /\ Head(calls[c]) \in {"truncate", "puts"}
  BY ClientEffects DEF Kill, file_vars
<1>2. service_priority(c)
  BY <1>1, StepOfCall
<1>3. QED
  BY <1>1, <1>2 DEF service_priority

\* A client keeps the names.
LEMMA NameClient ==
    ASSUME TypeInv, NameInv, NEW c \in Clients, Client(c) \/ Kill(c)
    PROVE  NameInv'
<1>1. ClientParts /\ ClientTypes /\ FileTypes /\ LinkTypes /\ PlanInv
  BY TypeGroups DEF ClientParts
<1>2. ASSUME NEW d \in Dirs PROVE priority'[d] \in Priorities[d] \cup {NoName}
  <2>1. CASE UNCHANGED priority
    BY <2>1 DEF NameInv
  <2>2. CASE ~UNCHANGED priority
    <3>1. Client(c) /\ Head(calls[c]) \in {"truncate", "puts"}
      BY <1>1, <2>2, PriorityWritten
    <3>2. PICK v \in {NoName, arg_priority[c]} :
            priority' = [priority EXCEPT ![arg_name[c]] = v]
      BY <1>1, <2>2, PriorityWritten
    <3>3. CASE arg_name[c] = d
      <4>1. Busy(c, d)
        BY <1>1, <3>1, <3>3, ChangerBusy
      <4>2. QED
        BY <1>1, <3>2, <3>3, <4>1 DEF NameInv, FileTypes
    <3>4. CASE arg_name[c] # d
      BY <3>2, <3>4 DEF NameInv
    <3>5. QED
      BY <3>3, <3>4
  <2>3. QED
    BY <2>1, <2>2
<1>3. ASSUME NEW n \in Names, links'[n] \in Dirs PROVE <<n, links'[n]>> \in Links
  <2>1. CASE links'[n] = links[n]
    BY <1>3, <2>1 DEF NameInv
  <2>2. CASE links'[n] # links[n]
    <3>1. /\ Client(c) /\ Head(calls[c]) = "add"
          /\ links' = [links EXCEPT ![link[c]] = arg_name[c]]
      BY <1>1, <1>3, <2>2, ClientEffects, ValuesAssumption DEF LinkTypes, Kill
    <3>2. n = link[c] /\ links'[n] = arg_name[c]
      BY <1>1, <2>2, <3>1 DEF LinkTypes
    <3>3. Busy(c, arg_name[c])
      BY <1>1, <1>3, <3>1, <3>2, ChangerBusy
    <3>4. QED
      BY <1>3, <3>1, <3>2, <3>3 DEF NameInv
  <2>3. QED
    BY <2>1, <2>2
<1>4. ASSUME NEW b \in Clients, NEW d \in Dirs, Busy(b, d)'
      PROVE  /\ arg_priority'[b] \in Priorities[d] \cup {NoName}
             /\ Head(calls'[b]) = "add" => <<link'[b], d>> \in Links
  <2>1. Busy(b, d) /\ calls'[b] # <<>>
    BY <1>1, <1>4, BusyKept DEF Busy, Running
  <2>2. arg_priority'[b] = arg_priority[b]
    BY <1>1, <2>1, ArgKept
  <2>3. ASSUME Head(calls'[b]) = "add" PROVE <<link'[b], d>> \in Links
    <3>1. CASE b # c
      BY <1>1, <2>1, <2>3, <3>1, ClientFrame DEF NameInv
    <3>2. CASE b = c
      <4>1. Client(c) /\ cmd[c] # "killall" /\ arg_name[c] = d
        BY <1>1, <2>1, <3>2 DEF Busy, Kill, exit, ClientTypes
      <4>2. Head(calls[c]) = "linkname"
        BY <1>1, <2>1, <2>3, <3>2, <4>1, CallsBefore
      <4>3. link' = [link EXCEPT ![c] = LinkName(d)]
        BY <4>1, <4>2, StepOfCall DEF service_linkname
      <4>4. <<LinkName(d), d>> \in Links
        BY NameIs DEF NameInv
      <4>5. QED
        BY <1>1, <3>2, <4>3, <4>4 DEF ClientTypes
    <3>3. QED
      BY <3>1, <3>2
  <2>4. QED
    BY <2>1, <2>2, <2>3 DEF NameInv
<1>5. QED
  BY <1>2, <1>3, <1>4 DEF NameInv, Busy, Running

\* A command is given a priority that its service may have.
LEMMA NameMain ==
    ASSUME TypeInv, NameInv, NEW c \in Clients, main(c)
    PROVE  NameInv'
<1>1. ClientParts /\ ClientTypes /\ GhostTypes
  BY TypeGroups DEF ClientParts
<1>2. /\ Head(calls'[c]) = "readdir" /\ UNCHANGED <<links, file_vars>>
      /\ \A b \in Clients \ {c} :
           /\ calls'[b] = calls[b] /\ cmd'[b] = cmd[b] /\ arg_name'[b] = arg_name[b]
           /\ link'[b] = link[b]
  BY <1>1, MainEffects
<1>3. \A b \in Clients \ {c} : arg_priority'[b] = arg_priority[b]
  BY <1>1 DEF main, ClientTypes
<1>4. \A d \in Dirs : cmd'[c] # "killall" /\ arg_name'[c] = d =>
        arg_priority'[c] \in Priorities[d] \cup {NoName}
  BY <1>1 DEF main, ClientTypes
<1>5. ASSUME NEW b \in Clients, NEW d \in Dirs, Busy(b, d)'
      PROVE  /\ arg_priority'[b] \in Priorities[d] \cup {NoName}
             /\ Head(calls'[b]) = "add" => <<link'[b], d>> \in Links
  <2>1. CASE b = c
    BY <1>2, <1>4, <1>5, <2>1 DEF Busy
  <2>2. CASE b # c
    <3>1. Busy(b, d)
      BY <1>2, <1>5, <2>2 DEF Busy, Running
    <3>2. QED
      BY <1>2, <1>3, <2>2, <3>1 DEF NameInv
  <2>3. QED
    BY <2>1, <2>2
<1>6. QED
  BY <1>2, <1>5 DEF NameInv, Busy, Running, file_vars

\* Every step keeps the names.
LEMMA NameStep == TypeInv /\ NameInv /\ [Next]_vars => NameInv'
<1>1. SUFFICES ASSUME TypeInv, NameInv, [Next]_vars PROVE NameInv'
  OBVIOUS
<1>0. ASSUME UNCHANGED <<client_vars, links, priority>> PROVE NameInv'
  BY <1>0, <1>1 DEF NameInv, Busy, Running, client_vars
<1>2. CASE Scan
  BY <1>0, <1>2, ScanServes DEF Scan, file_vars
<1>3. ASSUME NEW c \in Clients, main(c) \/ Client(c) \/ Kill(c) PROVE NameInv'
  BY <1>1, <1>3, NameMain, NameClient
<1>4. ASSUME NEW p \in Pids, Monitor(p) \/ RunExits(p) \/ poll_timeout(p) PROVE NameInv'
  BY <1>0, <1>4, MonitorFrame
<1>5. CASE UNCHANGED vars
  BY <1>0, <1>5 DEF vars, file_vars
<1>6. QED
  BY <1>1, <1>2, <1>3, <1>4, <1>5 DEF Next

\* What a monitor was started for is what it serves.
LEMMA ServesStep ==
    ASSUME NamesApart, TypeInv, SP!IInv, NameInv, NameInv', SP!ServesInv, [Next]_vars
    PROVE  SP!ServesInv'
<1>1. SP!TypeOK /\ SP!NamesFixed
  BY SameTypes DEF TypeInv, TypeOK, NamesApart, SP!NamesFixed
<1>2. CASE SP!Next
  BY <1>1, <1>2, SP!ServesStep, LinksTyped, NamesFinite, NamesAssumption, ValuesAssumption,
     CapacityAssumption, BoundAssumption
<1>3. CASE UNCHANGED table_and_processes
  BY <1>3 DEF table_and_processes, SP!ServesInv, NameInv
<1>4. QED
  BY <1>2, <1>3, ScannerSteps

\* A monitor recorded as running for a service runs in its directory, provided that
\* no two services may bear the same name: then no race of a command that changes
\* a priority or starts or stops a service with the scanner and the monitor
\* misleads the scanner (start, monitor, service_priority).
THEOREM ScannerServes ==
    ASSUME NamesApart
    PROVE  Spec => []S!RecordedMonitorServes
<1>1. Init => SP!ServesInv
  <2>1. Init => NameInv
    BY NameInit
  <2>2. QED
    BY <2>1 DEF Init, SP!ServesInv, NameInv
<1>2. TypeInv /\ SP!IInv /\ NameInv /\ NameInv' /\ SP!ServesInv /\ [Next]_vars => SP!ServesInv'
  BY ServesStep
<1>3. Init => SP!IInv
  BY DEF Init, SP!IInv, SP!MonitorsTracked, SP!Unreaped, SP!TableInv
<1>4. TypeInv /\ SP!IInv /\ [Next]_vars => SP!IInv'
  BY TrackStep
<1>5. TypeInv /\ NameInv /\ [Next]_vars => NameInv'
  BY NameStep
<1>6. SP!ServesInv => S!RecordedMonitorServes
  BY SameServes DEF SP!ServesInv, SP!RecordedMonitorServes
<1>7. QED
  BY <1>1, <1>2, <1>3, <1>4, <1>5, <1>6, NameInit, TypeHolds, PTL DEF Spec
=============================================================================
