------------------------------ MODULE Limiter ------------------------------
(***************************************************************************)
(* srvctl/src/limiter.c: sets the limits, the priority, the root directory *)
(* and the identity its command line asks for, then becomes the program    *)
(* named there.  The command line is parsed by libbase/lib/cmdline.c and   *)
(* privileges are dropped by libbase/lib/priv.c.                           *)
(*                                                                         *)
(* The limiter must never run the program with less than it was asked for, *)
(* and the order of its steps must not take away a privilege that a later  *)
(* step needs.  The kernel's rules are modelled by what a process may do   *)
(* with the effective user 0 and without.                                  *)
(***************************************************************************)
EXTENDS Integers, FiniteSets

CONSTANTS
    Options,            \* parameters this build knows, by their cmd_ bits
    ResourceOf,         \* the resource of each --rlimit option
    MemoryResources,    \* what --limit-mem limits
    LimitArgs,          \* arguments for limits: [ok, hard, num]
    PriorityArgs,       \* arguments for --priority: [ok, num]
    Names,              \* names of users and groups
    IdOf,               \* the number of a name in the files of each root
                        \* directory, negative if there is none
    FirstLimits,        \* the limits at the start
    Starters,           \* [ruid, euid, suid] of processes that start it
    PRIO_MIN, PRIO_MAX,
    NoArg,              \* a NULL argument
    MaxOptions,         \* bound: parameters on the command line
    MaxFaults           \* bound: calls that fail for no reason given here

Resources == DOMAIN FirstLimits
Limit     == [cur: Nat, max: Nat]
Ids       == [ruid: Nat, euid: Nat, suid: Nat]
Roots     == {"host", "chroot", "jail"}

\* Parameters other than the --rlimit ones.
Named == {"help", "chroot", "jail", "jail_host", "jail_ip", "limit_mem", "priority",
          "group", "user"}

ASSUME OptionAssumption ==
    /\ Options \subseteq Named \cup DOMAIN ResourceOf
    /\ (DOMAIN ResourceOf \cup DOMAIN FirstLimits) \cap Named = {}
ASSUME ResourceAssumption ==
    /\ MemoryResources \subseteq Resources
    /\ ResourceOf \in [DOMAIN ResourceOf -> Resources]
    /\ FirstLimits \in [Resources -> Limit]
    /\ \A r \in Resources : FirstLimits[r].cur <= FirstLimits[r].max
ASSUME ArgumentAssumption ==
    /\ LimitArgs \subseteq [ok: BOOLEAN, hard: BOOLEAN, num: Int]
    /\ PriorityArgs \subseteq [ok: BOOLEAN, num: Int]
    /\ NoArg \notin LimitArgs /\ NoArg \notin PriorityArgs
    /\ NoArg \notin Names /\ NoArg \notin {"given", "invalid"}
    /\ {PRIO_MIN, PRIO_MAX} \subseteq Int /\ PRIO_MIN <= 0 /\ 0 <= PRIO_MAX
ASSUME IdentityAssumption ==
    /\ IdOf \in [Roots -> [Names -> Int]]
    /\ Starters \subseteq Ids
ASSUME FaultAssumption == MaxOptions \in Nat /\ MaxFaults \in Nat

VARIABLES
    doing,      \* the step of main that comes next
    selected,   \* parameters present
    args,       \* the variables the arguments are stored in
    nice, limits, root, cwd_inside, ids, gid, groups,   \* what the kernel knows
    started,    \* the identity at the start
    refused,    \* the kernel refused a call for want of privileges
    faults

line_vars   == <<selected, args>>
kernel_vars == <<nice, limits, root, cwd_inside>>
id_vars     == <<ids, gid, groups>>
limiter_vars == <<doing, line_vars, kernel_vars, id_vars, started, refused, faults>>

-----------------------------------------------------------------------------
(* The command line: libbase/lib/cmdline.c *)

\* Where the argument of an option is stored.  Options of the same resource
\* share a variable: --rlimit-ofile and --rlimit-nofile on many systems.
Slot(o) == IF o \in DOMAIN ResourceOf THEN ResourceOf[o] ELSE o
Slots == {Slot(o) : o \in Options \ {"help"}}

ArgsOf(o) ==
    CASE o \in DOMAIN ResourceOf \cup {"limit_mem"} -> LimitArgs
      [] o = "priority"           -> PriorityArgs
      [] o \in {"user", "group"}  -> Names
      [] o = "jail_ip"            -> {"given", "invalid"}
      [] OTHER                    -> {"given"}

Steps == {"parse", "usage", "priority", "memory", "resources", "root", "group",
          "user", "exec", "running", "dead"}

LimiterTypeOK ==
    /\ doing \in Steps
    /\ selected \subseteq Options
    /\ args = [s \in Slots |-> args[s]]
    /\ \A o \in Options \ {"help"} : args[Slot(o)] \in ArgsOf(o) \cup {NoArg}
    /\ nice \in PRIO_MIN..PRIO_MAX
    /\ limits \in [Resources -> Limit]
    /\ root \in Roots /\ cwd_inside \in BOOLEAN
    /\ ids \in Ids /\ gid \in Nat /\ groups \subseteq Nat
    /\ started \in Starters
    /\ refused \in BOOLEAN
    /\ faults \in 0..MaxFaults

LimiterInit ==
    /\ doing = "parse"
    /\ selected = {} /\ args = [s \in Slots |-> NoArg]
    /\ nice = 0 /\ limits = FirstLimits
    /\ root = "host" /\ cwd_inside = FALSE
    /\ started \in Starters /\ ids = started /\ gid = 0 /\ groups = {0}
    /\ refused = FALSE /\ faults = 0

Usage == doing' = "usage" /\ UNCHANGED args

\* One parameter.  It is marked as present before its argument is looked at; an
\* argument that looks like a parameter is refused, and one for a variable that
\* is already set is dropped with a warning.
parse_params(o) ==
    /\ doing = "parse" /\ Cardinality(selected) < MaxOptions
    /\ selected' = selected \cup {o}
    /\ \/ o \in selected /\ Usage
       \/ o \notin selected /\ o # "help" /\ Usage   \* missing or invalid argument
       \/ o \notin selected /\ o = "help" /\ UNCHANGED <<doing, args>>
       \/ /\ o \notin selected /\ o # "help"
          /\ args[Slot(o)] # NoArg
          /\ UNCHANGED <<doing, args>>
       \/ /\ o \notin selected /\ o # "help"
          /\ args[Slot(o)] = NoArg
          /\ \E a \in ArgsOf(o) : args' = [args EXCEPT ![Slot(o)] = a]
          /\ UNCHANGED doing
    /\ UNCHANGED <<kernel_vars, id_vars, started, refused, faults>>

JailOptions == {"jail", "jail_host", "jail_ip"}

validate_cmdline_lax == "help" \notin selected   \* mutant: combinations are not looked at
validate_cmdline ==
    /\ "help" \notin selected
    /\ ~({"chroot", "jail"} \subseteq selected)
    /\ selected \cap JailOptions \in {{}, JailOptions}

\* The end of the parameters: a program follows, or does not, or is preceded by
\* something that is no parameter.
parse_end ==
    /\ doing = "parse"
    /\ \/ validate_cmdline /\ doing' = "priority"
       \/ doing' = "usage"
    /\ UNCHANGED <<line_vars, kernel_vars, id_vars, started, refused, faults>>

-----------------------------------------------------------------------------
(* main, after the command line is validated *)

\* mutant: the user is changed before the group
After_user_first ==
    [priority |-> "memory", memory |-> "resources", resources |-> "root",
     root |-> "user", user |-> "group", group |-> "exec"]
After ==
    [priority |-> "memory", memory |-> "resources", resources |-> "root",
     root |-> "group", group |-> "user", user |-> "exec"]

Fault == faults < MaxFaults /\ faults' = faults + 1
Privileged == ids.euid = 0

\* A step is done, or the program dies: of a bad argument, because the kernel
\* refuses, or of a call that fails.
done_step   == doing' = After[doing] /\ UNCHANGED <<refused, faults>>
die_invalid == doing' = "dead" /\ UNCHANGED <<refused, faults>>
die_refused == doing' = "dead" /\ refused' = TRUE /\ UNCHANGED faults
die_fault   == doing' = "dead" /\ Fault /\ UNCHANGED refused

Clamped_never(n) == n   \* mutant: the value is used as it is
Clamped(n) == IF n < PRIO_MIN THEN PRIO_MIN ELSE IF n > PRIO_MAX THEN PRIO_MAX ELSE n

limit_priority ==
    /\ doing = "priority"
    /\ \/ "priority" \notin selected /\ done_step /\ UNCHANGED nice
       \/ /\ "priority" \in selected
          /\ LET arg == args["priority"]
                 allowed == Privileged \/ Clamped(arg.num) >= nice
             IN \/ arg.ok /\ allowed /\ nice' = Clamped(arg.num) /\ done_step
                \/ ~arg.ok /\ die_invalid /\ UNCHANGED nice
                \/ arg.ok /\ ~allowed /\ die_refused /\ UNCHANGED nice
                \/ arg.ok /\ die_fault /\ UNCHANGED nice
    /\ UNCHANGED <<line_vars, limits, root, cwd_inside, id_vars, started>>

\* mutant: "=" sets the hard limit only
do_limit_hard_only(limit, arg) ==
    IF arg.hard THEN [limit EXCEPT !.max = arg.num]
    ELSE [limit EXCEPT !.cur = IF arg.num > limit.max THEN limit.max ELSE arg.num]

\* An argument that starts with "=" sets both limits, any other the soft one,
\* which is cut at the hard one.
do_limit(limit, arg) ==
    IF arg.hard THEN [cur |-> arg.num, max |-> arg.num]
    ELSE [limit EXCEPT !.cur = IF arg.num > limit.max THEN limit.max ELSE arg.num]

\* do_limit for every resource in want; nothing runs in between.
Valid(arg) == arg.ok /\ arg.num >= 0
set_limits(want) ==
    LET new == [r \in Resources |-> IF r \in DOMAIN want
                                    THEN do_limit(limits[r], want[r]) ELSE limits[r]]
        valid   == \A r \in DOMAIN want : Valid(want[r])
        allowed == Privileged \/ \A r \in DOMAIN want : new[r].max <= limits[r].max
    IN \/ valid /\ allowed /\ limits' = new /\ done_step
       \/ ~valid /\ die_invalid /\ UNCHANGED limits
       \/ valid /\ ~allowed /\ die_refused /\ UNCHANGED limits
       \/ DOMAIN want # {} /\ die_fault /\ UNCHANGED limits

limit_memory ==
    /\ doing = "memory"
    /\ set_limits([r \in {m \in MemoryResources : "limit_mem" \in selected}
                     |-> args["limit_mem"]])
    /\ UNCHANGED <<line_vars, nice, root, cwd_inside, id_vars, started>>

\* Whatever is limited by name comes after, and wins over, --limit-mem.
limit_resources ==
    /\ doing = "resources"
    /\ set_limits([r \in {s \in Slots \cap Resources : args[s] # NoArg} |-> args[r]])
    /\ UNCHANGED <<line_vars, nice, root, cwd_inside, id_vars, started>>

\* limit_jail or limit_chroot.
limit_root ==
    /\ doing = "root"
    /\ LET new == IF "jail" \in selected THEN "jail"
                  ELSE IF "chroot" \in selected THEN "chroot" ELSE "host"
           invalid == new = "jail" /\ args["jail_ip"] = "invalid"
       IN \/ new = "host" /\ done_step /\ UNCHANGED <<root, cwd_inside>>
          \/ /\ new # "host" /\ ~invalid /\ Privileged
             /\ root' = new /\ cwd_inside' = TRUE /\ done_step
          \/ new # "host" /\ ~invalid /\ ~Privileged /\ die_refused /\ UNCHANGED <<root, cwd_inside>>
          \/ invalid /\ die_invalid /\ UNCHANGED <<root, cwd_inside>>
          \/ new # "host" /\ die_fault /\ UNCHANGED <<root, cwd_inside>>
    /\ UNCHANGED <<line_vars, nice, limits, id_vars, started>>

-----------------------------------------------------------------------------
(* limit_priv: libbase/lib/priv.c *)

\* The files that names are looked up in are those of the root directory by then.
IdOfName(name) == IdOf[root][name]

priv_setgid ==
    /\ doing = "group"
    /\ \/ "group" \notin selected /\ done_step /\ UNCHANGED <<gid, groups>>
       \/ /\ "group" \in selected
          /\ LET new == IdOfName(args["group"])
             IN \/ /\ new >= 0 /\ Privileged
                   /\ gid' = new /\ groups' = {new} /\ done_step
                \/ new < 0 /\ die_invalid /\ UNCHANGED <<gid, groups>>
                \/ new >= 0 /\ ~Privileged /\ die_refused /\ UNCHANGED <<gid, groups>>
                \/ die_fault /\ UNCHANGED <<gid, groups>>
    /\ UNCHANGED <<line_vars, kernel_vars, ids, started>>

\* setuid: the superuser gives up all three identities, another only takes on one
\* it has.
setuid(uid) == IF Privileged THEN [ruid |-> uid, euid |-> uid, suid |-> uid]
               ELSE [ids EXCEPT !.euid = uid]
MaySetuid(uid) == Privileged \/ uid \in {ids.ruid, ids.suid}

Regains_never(uid) == FALSE   \* mutant: the second setuid is left out

\* setuid(0) succeeds after setuid(uid).
Regains(uid) == uid > 0 /\ 0 \in {setuid(uid).ruid, setuid(uid).suid}

priv_setuid ==
    /\ doing = "user"
    /\ \/ "user" \notin selected /\ done_step /\ UNCHANGED ids
       \/ /\ "user" \in selected
          /\ LET uid == IdOfName(args["user"])
             IN \/ /\ uid >= 0 /\ MaySetuid(uid) /\ ~Regains(uid)
                   /\ ids' = setuid(uid) /\ done_step
                \/ uid < 0 /\ die_invalid /\ UNCHANGED ids
                \/ uid >= 0 /\ MaySetuid(uid) /\ Regains(uid) /\ die_invalid /\ UNCHANGED ids
                \/ uid >= 0 /\ ~MaySetuid(uid) /\ die_refused /\ UNCHANGED ids
                \/ die_fault /\ UNCHANGED ids
    /\ UNCHANGED <<line_vars, kernel_vars, gid, groups, started>>

\* The program may be missing, also because of where the root is by now.
exec ==
    /\ doing = "exec"
    /\ doing' \in {"running", "dead"}
    /\ UNCHANGED <<line_vars, kernel_vars, id_vars, started, refused, faults>>

Finished == doing \in {"usage", "running", "dead"} /\ UNCHANGED limiter_vars

LimiterNext ==
    \/ \E o \in Options : parse_params(o)
    \/ parse_end
    \/ limit_priority
    \/ limit_memory
    \/ limit_resources
    \/ limit_root
    \/ priv_setgid
    \/ priv_setuid
    \/ exec
    \/ Finished

LimiterSpec == LimiterInit /\ [][LimiterNext]_limiter_vars

-----------------------------------------------------------------------------
(* Safety *)

\* The argument that decides about a resource: its own, or that of --limit-mem.
Decides(r) == IF r \in Slots /\ args[r] # NoArg THEN args[r]
              ELSE IF r \in MemoryResources /\ "limit_mem" \in selected
                   THEN args["limit_mem"] ELSE NoArg

\* The hard limit that a soft one is cut at: --limit-mem may have set it.
HardLimit(r) == IF r \in MemoryResources /\ "limit_mem" \in selected /\ args["limit_mem"].hard
                THEN args["limit_mem"].num ELSE FirstLimits[r].max

\* What runs has exactly the limits that were asked for, whatever the order of the
\* options: each resource those of its own option, or else of --limit-mem; a soft
\* one is cut at the hard one and leaves that as it is (do_limit and its callers).
LimitsAsAsked ==
    doing = "running" =>
      /\ \A o \in selected \cap DOMAIN ResourceOf : args[ResourceOf[o]] # NoArg
      /\ \A r \in Resources :
           LET arg == Decides(r) IN
           IF arg = NoArg THEN limits[r] = FirstLimits[r]
           ELSE IF arg.hard THEN limits[r] = [cur |-> arg.num, max |-> arg.num]
           ELSE /\ limits[r].max = HardLimit(r)
                /\ limits[r].cur = IF arg.num > HardLimit(r) THEN HardLimit(r) ELSE arg.num

\* What runs has the identity and the root directory that were asked for, by the
\* names' meaning in that root, and cannot become the superuser again unless it
\* was to be (ngim_priv_drop, limit_chroot, limit_jail, validate_cmdline).
IdentityAsAsked ==
    doing = "running" =>
      /\ "chroot" \in selected => root = "chroot" /\ cwd_inside
      /\ "jail" \in selected => root = "jail" /\ cwd_inside
      /\ "group" \in selected => gid = IdOf[root][args["group"]] /\ groups = {gid}
      /\ "user" \in selected =>
           LET uid == IdOf[root][args["user"]]
           IN ids.euid = uid /\ (uid > 0 => 0 \notin {ids.ruid, ids.euid, ids.suid})

\* Started by the superuser, no step is refused what an earlier one gave up: the
\* order of main and of ngim_priv_drop.
PrivilegeLasts == started.euid = 0 => ~refused
=============================================================================
