----------------------------- MODULE Supervisor -----------------------------
(***************************************************************************)
(* What the monitor of a service promises, apart from how it keeps it: no  *)
(* pipes, signals, timers, files or process identifiers, only the service's *)
(* programs and what may happen to them.  Monitor implements it under the  *)
(* mapping given there.                                                    *)
(***************************************************************************)
EXTENDS Naturals

CONSTANTS
    Child,              \* the programs of the service
    CHILD_SUSPENSION,   \* periods a suspension lasts
    CallsFail           \* whether system calls may fail

VARIABLES
    life,       \* open; closed, when it was asked to stop; failed or broken
    inst,       \* the one instance of each program: down, up, or dead
    chosen,     \* the program being started
    decided,    \* and whether nothing can keep it from being started
    wait,       \* periods each program is to stay suspended
    stop,       \* the monitor was interrupted
    asked,      \* it was told to stop, by an interrupt or by a command
    survivors   \* programs it could not terminate

vars == <<life, inst, chosen, decided, wait, stop, asked, survivors>>

Init ==
    /\ life = "open"
    /\ inst = [c \in Child |-> "down"]
    /\ chosen = {} /\ decided = {}
    /\ wait = [c \in Child |-> 0]
    /\ stop = FALSE /\ asked = FALSE
    /\ survivors = {}

Open == life = "open"
Settled == \A c \in Child : inst[c] = "down" \/ c \in survivors

\* One program at a time is chosen, when it has no instance and no suspension.
Choose(c) ==
    /\ Open /\ chosen = {}
    /\ inst[c] = "down" /\ wait[c] = 0
    /\ chosen' = {c}
    /\ UNCHANGED <<life, inst, decided, wait, stop, asked, survivors>>

\* An interrupt prevents the start until this step, and no longer.
Decide(c) ==
    /\ Open /\ c \in chosen /\ ~stop
    /\ decided' = {c}
    /\ UNCHANGED <<life, inst, chosen, wait, stop, asked, survivors>>

Start(c) ==
    /\ Open /\ c \in decided /\ inst[c] = "down"
    /\ inst' = [inst EXCEPT ![c] = "up"]
    /\ chosen' = {} /\ decided' = {}
    /\ UNCHANGED <<life, wait, stop, asked, survivors>>

Forgo ==
    /\ Open /\ chosen' = {} /\ decided' = {}
    /\ UNCHANGED <<life, inst, wait, stop, asked, survivors>>

Die(c) ==
    /\ Open /\ inst[c] = "up"
    /\ inst' = [inst EXCEPT ![c] = "dead"]
    /\ UNCHANGED <<life, chosen, decided, wait, stop, asked, survivors>>

Reap(c) ==
    /\ Open /\ inst[c] = "dead"
    /\ inst' = [inst EXCEPT ![c] = "down"]
    /\ survivors' = survivors \ {c}
    /\ UNCHANGED <<life, chosen, decided, wait, stop, asked>>

\* The end of a period: suspended programs wait one less, others may be
\* suspended for the whole time.
Period ==
    /\ Open
    /\ wait' \in [Child -> 0..CHILD_SUSPENSION]
    /\ \A c \in Child : IF wait[c] > 0 THEN wait'[c] = wait[c] - 1
                        ELSE wait'[c] \in {0, CHILD_SUSPENSION}
    /\ UNCHANGED <<life, inst, chosen, decided, stop, asked, survivors>>

Interrupt ==
    /\ Open /\ stop' = TRUE /\ asked' = TRUE
    /\ UNCHANGED <<life, inst, chosen, decided, wait, survivors>>

Ask ==
    /\ Open /\ asked' = TRUE
    /\ UNCHANGED <<life, inst, chosen, decided, wait, stop, survivors>>

GiveUp(c) ==
    /\ Open /\ chosen = {} /\ inst[c] # "down"
    /\ survivors' = survivors \cup {c}
    /\ UNCHANGED <<life, inst, chosen, decided, wait, stop, asked>>

\* A program was terminated, which ends its suspension.  The monitor stops only
\* when asked to, and leaves nothing behind that it could terminate.
Terminated(c) ==
    /\ Open /\ chosen = {}
    /\ inst[c] = "down" \/ c \in survivors
    /\ wait' = [wait EXCEPT ![c] = 0]
    /\ \/ UNCHANGED life
       \/ asked /\ Settled /\ life' = "closed"
    /\ UNCHANGED <<inst, chosen, decided, stop, asked, survivors>>

\* It dies with whatever it was doing undone: when a call fails, also with
\* programs left running, or before it starts anything.
Fail ==
    /\ Open
    /\ CallsFail \/ (chosen = {} /\ \A c \in Child : inst[c] = "down")
    /\ life' = "failed" /\ chosen' = {} /\ decided' = {}
    /\ wait' \in [Child -> 0..CHILD_SUSPENSION] /\ stop' \in {stop, TRUE}
    /\ UNCHANGED <<inst, asked, survivors>>

\* What it takes for granted turns out wrong only after giving up on a program.
Break ==
    /\ Open /\ chosen = {} /\ survivors # {}
    /\ life' = "broken"
    /\ UNCHANGED <<inst, chosen, decided, wait, stop, asked, survivors>>

Next ==
    \/ \E c \in Child : \/ Choose(c) \/ Decide(c) \/ Start(c) \/ Die(c)
                        \/ Reap(c) \/ GiveUp(c) \/ Terminated(c)
    \/ Forgo \/ Period \/ Interrupt \/ Ask \/ Fail \/ Break

Spec == Init /\ [][Next]_vars
=============================================================================
