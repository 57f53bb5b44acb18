--------------------------- MODULE LimiterProofs ---------------------------
(***************************************************************************)
(* Theorems about Limiter, for every value of its constants: any options,  *)
(* limits, names and starting identity.  Each property speaks of the end   *)
(* only; what is inductive says how far each step has brought it.          *)
(***************************************************************************)
EXTENDS Limiter, TLAPS

\* The steps of main from one on.
FromRoot  == {"root", "group", "user", "exec", "running"}
FromGroup == {"group", "user", "exec", "running"}
FromUser  == {"user", "exec", "running"}
FromExec  == {"exec", "running"}
Early     == {"parse", "priority", "memory"}

-----------------------------------------------------------------------------
(* Types *)

\* What a parameter's variable gets is an argument of each option that shares it.
LEMMA SharedSlot ==
    ASSUME NEW o \in Options \ {"help"}, NEW p \in Options \ {"help"}, Slot(o) = Slot(p)
    PROVE  ArgsOf(o) = ArgsOf(p)
  BY OptionAssumption, ResourceAssumption DEF Slot, ArgsOf, Named, Resources

\* do_limit makes a limit of a limit.
LEMMA LimitType ==
    ASSUME NEW limit \in Limit, NEW arg \in LimitArgs, Valid(arg)
    PROVE  do_limit(limit, arg) \in Limit
  BY ArgumentAssumption DEF do_limit, Limit, Valid

\* set_limits leaves limits, if the arguments are arguments for limits.
LEMMA SetLimitsType ==
    ASSUME NEW want, \A r \in DOMAIN want : want[r] \in LimitArgs,
           limits \in [Resources -> Limit], set_limits(want)
    PROVE  limits' \in [Resources -> Limit]
  BY LimitType DEF set_limits

\* The step after a step of main.
LEMMA NextStep ==
    /\ done_step \/ die_invalid \/ die_refused \/ die_fault
    /\ doing \in {"priority", "memory", "resources", "root", "group", "user"}
    => doing' \in Steps
  BY DEF done_step, die_invalid, die_refused, die_fault, After, Steps

\* The failures counted stay within their bound.
LEMMA NextFaults ==
    /\ done_step \/ die_invalid \/ die_refused \/ die_fault
    /\ faults \in 0..MaxFaults /\ refused \in BOOLEAN
    => faults' \in 0..MaxFaults /\ refused' \in BOOLEAN
<1>1. ASSUME done_step \/ die_invalid \/ die_refused \/ die_fault, faults \in 0..MaxFaults
      PROVE  faults' \in 0..MaxFaults
  BY <1>1, FaultAssumption DEF done_step, die_invalid, die_refused, die_fault, Fault
<1>2. ASSUME done_step \/ die_invalid \/ die_refused \/ die_fault, refused \in BOOLEAN
      PROVE  refused' \in BOOLEAN
  BY <1>2 DEF done_step, die_invalid, die_refused, die_fault
<1>3. QED
  BY <1>1, <1>2

\* A parameter keeps the types.
LEMMA ParseType ==
    ASSUME LimiterTypeOK, NEW o \in Options, parse_params(o)
    PROVE  LimiterTypeOK'
<1>1. doing' \in Steps /\ selected' \subseteq Options
  BY DEF LimiterTypeOK, parse_params, Usage, Steps
<1>2. args' = [s \in Slots |-> args'[s]]
     /\ \A p \in Options \ {"help"} : args'[Slot(p)] \in ArgsOf(p) \cup {NoArg}
  <2>1. CASE args' = args
    BY <2>1 DEF LimiterTypeOK
  <2>2. CASE o # "help" /\ \E a \in ArgsOf(o) : args' = [args EXCEPT ![Slot(o)] = a]
    <3>1. PICK a \in ArgsOf(o) : args' = [args EXCEPT ![Slot(o)] = a]
      BY <2>2
    <3>2. args' = [s \in Slots |-> args'[s]]
      BY <3>1 DEF LimiterTypeOK
    <3>3. ASSUME NEW p \in Options \ {"help"}
          PROVE  args'[Slot(p)] \in ArgsOf(p) \cup {NoArg}
      <4>1. Slot(p) \in Slots
        BY DEF Slots
      <4>2. CASE Slot(p) = Slot(o)
        BY <2>2, <3>1, <4>1, <4>2, SharedSlot DEF LimiterTypeOK
      <4>3. CASE Slot(p) # Slot(o)
        BY <3>1, <4>1, <4>3 DEF LimiterTypeOK
      <4>4. QED
        BY <4>2, <4>3
    <3>4. QED
      BY <3>2, <3>3
  <2>3. QED
    BY <2>1, <2>2 DEF parse_params, Usage
<1>3. QED
  BY <1>1, <1>2 DEF LimiterTypeOK, parse_params, kernel_vars, id_vars

\* Where the variables of options are, by the option.
LEMMA NamedSlot ==
    ASSUME LimiterTypeOK, NEW o \in Options \ {"help"}, o \in Named
    PROVE  Slot(o) = o /\ o \in Slots /\ args[o] \in ArgsOf(o) \cup {NoArg}
  BY OptionAssumption DEF LimiterTypeOK, Slot, Slots, Named

\* The limits asked for by name are arguments for limits.
LEMMA ResourceArgs ==
    ASSUME LimiterTypeOK, NEW r \in Slots \cap Resources, args[r] # NoArg
    PROVE  args[r] \in LimitArgs
<1>1. PICK o \in Options \ {"help"} : r = Slot(o)
  BY DEF Slots
<1>2. o \in DOMAIN ResourceOf
  BY <1>1, OptionAssumption DEF Slot, Named, Resources
<1>3. ArgsOf(o) = LimitArgs
  BY <1>2, OptionAssumption DEF ArgsOf, Named
<1>4. QED
  BY <1>1, <1>3 DEF LimiterTypeOK

\* An option that is present has its argument, and what was validated is valid.
SelectedInv ==
    /\ doing # "usage" => \A o \in selected \ {"help"} : args[Slot(o)] # NoArg
    /\ doing \notin {"parse", "usage"} => validate_cmdline

\* An option of main that is present has an argument that suits it.
LEMMA NamedArg ==
    ASSUME LimiterTypeOK, SelectedInv, doing # "usage",
           NEW o \in Named \ {"help"}, o \in selected
    PROVE  args[o] \in ArgsOf(o)
  BY NamedSlot DEF LimiterTypeOK, SelectedInv

\* What the options' arguments are.
LEMMA NamedArgs ==
    /\ ArgsOf("limit_mem") = LimitArgs /\ ArgsOf("priority") = PriorityArgs
    /\ ArgsOf("user") = Names /\ ArgsOf("group") = Names
<1>1. {"limit_mem", "priority", "user", "group"} \cap DOMAIN ResourceOf = {}
  BY OptionAssumption DEF Named
<1>2. QED
  BY <1>1 DEF ArgsOf

\* A priority is one the system knows.
LEMMA ClampedBetween == \A n \in Int : Clamped(n) \in PRIO_MIN..PRIO_MAX
  BY ArgumentAssumption DEF Clamped

\* The identity after setuid.
LEMMA SetuidType ==
    ASSUME ids \in Ids, NEW uid \in Nat
    PROVE  setuid(uid) \in Ids
  BY DEF Ids, setuid

\* A number looked up for a name is one of the files of the root directory.
LEMMA NameType ==
    ASSUME LimiterTypeOK, NEW name \in Names
    PROVE  IdOfName(name) \in Int
  BY IdentityAssumption DEF IdOfName, LimiterTypeOK

MainStep == \/ limit_priority \/ limit_memory \/ limit_resources \/ limit_root
            \/ priv_setgid \/ priv_setuid

\* What each step of main has in common.
LEMMA MainFrame ==
    MainStep =>
      /\ done_step \/ die_invalid \/ die_refused \/ die_fault
      /\ doing \in {"priority", "memory", "resources", "root", "group", "user"}
      /\ UNCHANGED <<line_vars, started>>
  BY DEF MainStep, limit_priority, limit_memory, limit_resources, limit_root,
         priv_setgid, priv_setuid, set_limits

\* A step of main keeps the types.
LEMMA MainType ==
    ASSUME LimiterTypeOK, SelectedInv, MainStep
    PROVE  LimiterTypeOK'
<1>1. /\ done_step \/ die_invalid \/ die_refused \/ die_fault
      /\ doing \in {"priority", "memory", "resources", "root", "group", "user"}
      /\ UNCHANGED <<line_vars, started>>
  BY MainFrame
<1>2. doing' \in Steps
  BY <1>1, NextStep
<1>3. faults' \in 0..MaxFaults /\ refused' \in BOOLEAN
  BY <1>1, NextFaults DEF LimiterTypeOK
<1>4. nice' \in PRIO_MIN..PRIO_MAX
  <2>1. CASE limit_priority /\ "priority" \in selected
    <3>1. args["priority"].num \in Int
      BY <1>1, <2>1, NamedArg, NamedArgs, ArgumentAssumption DEF Named
    <3>2. nice' = nice \/ nice' = Clamped(args["priority"].num)
      BY <2>1 DEF limit_priority
    <3>3. QED
      BY <3>1, <3>2, ClampedBetween DEF LimiterTypeOK
  <2>2. CASE nice' = nice
    BY <2>2 DEF LimiterTypeOK
  <2>3. QED
    BY <2>1, <2>2 DEF MainStep, limit_priority, limit_memory, limit_resources,
                      limit_root, priv_setgid, priv_setuid, kernel_vars
<1>5. limits' \in [Resources -> Limit]
  <2>1. CASE limit_memory
    <3>1. "limit_mem" \in selected => args["limit_mem"] \in LimitArgs
      BY <1>1, NamedArg, NamedArgs DEF Named
    <3>2. QED
      BY <2>1, <3>1, SetLimitsType DEF limit_memory, LimiterTypeOK
  <2>2. CASE limit_resources
    BY <2>2, ResourceArgs, SetLimitsType DEF limit_resources, LimiterTypeOK
  <2>3. CASE limits' = limits
    BY <2>3 DEF LimiterTypeOK
  <2>4. QED
    BY <2>1, <2>2, <2>3 DEF MainStep, limit_priority, limit_root, priv_setgid,
                            priv_setuid, kernel_vars
<1>6. root' \in Roots /\ cwd_inside' \in BOOLEAN
  <2>1. CASE limit_root
    BY <2>1 DEF limit_root, LimiterTypeOK, Roots
  <2>2. CASE UNCHANGED <<root, cwd_inside>>
    BY <2>2 DEF LimiterTypeOK
  <2>3. QED
    BY <2>1, <2>2 DEF MainStep, limit_priority, limit_memory, limit_resources,
                      priv_setgid, priv_setuid, kernel_vars
<1>7. gid' \in Nat /\ groups' \subseteq Nat
  <2>1. CASE priv_setgid /\ "group" \in selected
    <3>1. IdOfName(args["group"]) \in Int
      BY <1>1, <2>1, NamedArg, NamedArgs, NameType DEF Named
    <3>2. QED
      BY <2>1, <3>1 DEF priv_setgid, LimiterTypeOK
  <2>2. CASE UNCHANGED <<gid, groups>>
    BY <2>2 DEF LimiterTypeOK
  <2>3. QED
    BY <2>1, <2>2 DEF MainStep, limit_priority, limit_memory, limit_resources,
                      limit_root, priv_setgid, priv_setuid, id_vars
<1>8. ids' \in Ids
  <2>1. CASE priv_setuid /\ "user" \in selected
    <3>1. IdOfName(args["user"]) \in Int
      BY <1>1, <2>1, NamedArg, NamedArgs, NameType DEF Named
    <3>2. QED
      BY <2>1, <3>1, SetuidType DEF priv_setuid, LimiterTypeOK
  <2>2. CASE ids' = ids
    BY <2>2 DEF LimiterTypeOK
  <2>3. QED
    BY <2>1, <2>2 DEF MainStep, limit_priority, limit_memory, limit_resources,
                      limit_root, priv_setgid, priv_setuid, id_vars
<1>9. QED
  BY <1>1, <1>2, <1>3, <1>4, <1>5, <1>6, <1>7, <1>8 DEF LimiterTypeOK, line_vars

\* Every step keeps the types,
LEMMA TypeStep ==
    LimiterTypeOK /\ SelectedInv /\ [LimiterNext]_limiter_vars => LimiterTypeOK'
<1> SUFFICES ASSUME LimiterTypeOK, SelectedInv, [LimiterNext]_limiter_vars
             PROVE  LimiterTypeOK'
  OBVIOUS
<1>1. CASE \E o \in Options : parse_params(o)
  BY <1>1, ParseType
<1>2. CASE parse_end
  BY <1>2 DEF parse_end, LimiterTypeOK, Steps, line_vars, kernel_vars, id_vars
<1>3. CASE MainStep
  BY <1>3, MainType
<1>4. CASE exec
  BY <1>4 DEF exec, LimiterTypeOK, Steps, line_vars, kernel_vars, id_vars
<1>5. CASE UNCHANGED limiter_vars
  BY <1>5 DEF LimiterTypeOK, limiter_vars, line_vars, kernel_vars, id_vars
<1>6. QED
  BY <1>1, <1>2, <1>3, <1>4, <1>5 DEF LimiterNext, MainStep, Finished

\* ... and that each option present has its argument.
LEMMA SelectedStep ==
    LimiterTypeOK /\ SelectedInv /\ [LimiterNext]_limiter_vars => SelectedInv'
<1> SUFFICES ASSUME LimiterTypeOK, SelectedInv, [LimiterNext]_limiter_vars
             PROVE  SelectedInv'
  OBVIOUS
<1>1. ASSUME NEW o \in Options, parse_params(o)
      PROVE  SelectedInv'
  <2>1. doing' \in {"parse", "usage"} /\ selected' = selected \cup {o}
    BY <1>1 DEF parse_params, Usage
  <2>2. ASSUME doing' # "usage", NEW p \in selected' \ {"help"}
        PROVE  args'[Slot(p)] # NoArg
    <3>1. /\ p \in Options \ {"help"} /\ Slot(p) \in Slots
          /\ p # o => args[Slot(p)] # NoArg
      BY <1>1, <2>1, <2>2 DEF LimiterTypeOK, SelectedInv, Slots, parse_params
    <3>2. CASE \E a \in ArgsOf(o) : args' = [args EXCEPT ![Slot(o)] = a] /\ o # "help"
      <4>1. \A a \in ArgsOf(o) : a # NoArg
        BY <3>2, ArgumentAssumption DEF ArgsOf
      <4>2. QED
        BY <3>1, <3>2, <4>1 DEF LimiterTypeOK
    <3>3. CASE args' = args /\ (o = "help" \/ args[Slot(o)] # NoArg)
      BY <3>1, <3>3, <2>2
    <3>4. QED
      BY <1>1, <2>2, <3>2, <3>3 DEF parse_params, Usage
  <2>3. QED
    BY <2>1, <2>2 DEF SelectedInv
<1>2. CASE parse_end
  BY <1>2 DEF parse_end, SelectedInv, line_vars, validate_cmdline
<1>3. CASE MainStep
  BY <1>3, MainFrame DEF SelectedInv, line_vars, validate_cmdline
<1>4. CASE exec
  BY <1>4 DEF exec, SelectedInv, line_vars, validate_cmdline
<1>5. CASE UNCHANGED limiter_vars
  BY <1>5 DEF SelectedInv, limiter_vars, line_vars, validate_cmdline
<1>6. QED
  BY <1>1, <1>2, <1>3, <1>4, <1>5 DEF LimiterNext, MainStep, Finished

\* What is true before the command line is read.
LEMMA InitType == LimiterInit => LimiterTypeOK /\ SelectedInv
<1> SUFFICES ASSUME LimiterInit
             PROVE  LimiterTypeOK /\ SelectedInv
  OBVIOUS
<1>1. args = [s \in Slots |-> args[s]]
      /\ \A o \in Options \ {"help"} : args[Slot(o)] \in ArgsOf(o) \cup {NoArg}
  BY DEF LimiterInit, Slots
<1>2. nice \in PRIO_MIN..PRIO_MAX /\ faults \in 0..MaxFaults
  BY ArgumentAssumption, FaultAssumption DEF LimiterInit
<1>3. limits \in [Resources -> Limit] /\ ids \in Ids /\ started \in Starters
  BY ResourceAssumption, IdentityAssumption DEF LimiterInit
<1>4. gid \in Nat /\ groups \subseteq Nat
  BY DEF LimiterInit
<1>5. doing \in Steps /\ root \in Roots /\ cwd_inside \in BOOLEAN /\ refused \in BOOLEAN
  BY DEF LimiterInit, Steps, Roots
<1>6. selected \subseteq Options
  BY DEF LimiterInit
<1>7. LimiterTypeOK
  BY <1>1, <1>2, <1>3, <1>4, <1>5, <1>6 DEF LimiterTypeOK
<1>8. QED
  BY <1>7 DEF LimiterInit, SelectedInv

\* The limiter's variables keep their types, and the priority its range.
THEOREM TypeCorrect == LimiterSpec => []LimiterTypeOK
<1>1. LimiterTypeOK /\ SelectedInv /\ [LimiterNext]_limiter_vars
      => (LimiterTypeOK /\ SelectedInv)'
  BY TypeStep, SelectedStep
<1>2. QED
  BY <1>1, InitType, PTL DEF LimiterSpec

-----------------------------------------------------------------------------
(* How far each step has brought what was asked for *)

\* What a limit is when arg was applied to limit first.
Applied(limit, first, arg) ==
    IF arg.hard THEN limit = [cur |-> arg.num, max |-> arg.num]
    ELSE /\ limit.max = first.max
         /\ limit.cur = IF arg.num > first.max THEN first.max ELSE arg.num

LimitsInv ==
    /\ doing \in Early => limits = FirstLimits
    /\ doing = "resources" =>
         \A r \in Resources :
           IF r \in MemoryResources /\ "limit_mem" \in selected
           THEN Applied(limits[r], FirstLimits[r], args["limit_mem"])
           ELSE limits[r] = FirstLimits[r]
    /\ doing \in FromRoot =>
         \A r \in Resources :
           LET arg == Decides(r) IN
           IF arg = NoArg THEN limits[r] = FirstLimits[r]
           ELSE IF arg.hard THEN limits[r] = [cur |-> arg.num, max |-> arg.num]
           ELSE /\ limits[r].max = HardLimit(r)
                /\ limits[r].cur = IF arg.num > HardLimit(r) THEN HardLimit(r) ELSE arg.num

IdentityInv ==
    /\ doing \in FromGroup =>
         /\ "chroot" \in selected => root = "chroot" /\ cwd_inside
         /\ "jail" \in selected => root = "jail" /\ cwd_inside
    /\ doing \in FromUser /\ "group" \in selected =>
         gid = IdOf[root][args["group"]] /\ groups = {gid}
    /\ doing \in FromExec /\ "user" \in selected =>
         LET uid == IdOf[root][args["user"]]
         IN ids.euid = uid /\ (uid > 0 => 0 \notin {ids.ruid, ids.euid, ids.suid})

\* The identity is kept until the last step that needs it.
PrivilegeInv ==
    /\ doing \notin FromExec \cup {"dead"} => ids = started
    /\ PrivilegeLasts

-----------------------------------------------------------------------------
(* Limits *)

\* What do_limit makes of a limit.
LEMMA AppliedLimit ==
    ASSUME NEW limit \in Limit, NEW arg \in LimitArgs, Valid(arg)
    PROVE  Applied(do_limit(limit, arg), limit, arg)
  BY ArgumentAssumption DEF do_limit, Limit, Valid, Applied

\* Limits that nothing touches, however the program goes on.
LEMMA LimitsFrame ==
    ASSUME LimitsInv, UNCHANGED <<selected, args, limits>>,
           \/ doing' \in Early /\ doing \in Early
           \/ doing' \in FromRoot /\ doing \in FromRoot
           \/ doing' \notin Early \cup FromRoot \cup {"resources"}
    PROVE  LimitsInv'
  BY DEF LimitsInv, Early, FromRoot, Decides, Applied, HardLimit

\* limit_memory limits the memory, if it is to.
LEMMA MemoryStep ==
    ASSUME LimiterTypeOK, SelectedInv, LimitsInv, limit_memory
    PROVE  LimitsInv'
<1>1. UNCHANGED <<selected, args>> /\ doing = "memory"
  BY DEF limit_memory, line_vars
<1>2. CASE done_step
  <2>1. doing' = "resources"
    BY <1>1, <1>2 DEF done_step, After
  <2>2. "limit_mem" \in selected => args["limit_mem"] \in LimitArgs
    BY <1>1, NamedArg, NamedArgs DEF Named
  <2>3. ASSUME NEW r \in Resources
        PROVE  IF r \in MemoryResources /\ "limit_mem" \in selected
               THEN Applied(limits'[r], FirstLimits[r], args["limit_mem"])
               ELSE limits'[r] = FirstLimits[r]
    <3>1. limits[r] = FirstLimits[r] /\ limits[r] \in Limit
      BY <1>1 DEF LimitsInv, Early, LimiterTypeOK
    <3>2. CASE r \in MemoryResources /\ "limit_mem" \in selected
      <4>1. Valid(args["limit_mem"]) /\ limits'[r] = do_limit(limits[r], args["limit_mem"])
        BY <1>2, <3>2 DEF limit_memory, set_limits, done_step, die_invalid, die_refused,
                          die_fault, After
      <4>2. QED
        BY <2>2, <3>1, <3>2, <4>1, AppliedLimit
    <3>3. CASE ~(r \in MemoryResources /\ "limit_mem" \in selected)
      BY <3>1, <3>3 DEF limit_memory, set_limits
    <3>4. QED
      BY <3>2, <3>3
  <2>4. QED
    BY <1>1, <2>1, <2>3 DEF LimitsInv, Early, FromRoot
<1>3. CASE doing' = "dead"
  BY <1>3 DEF LimitsInv, Early, FromRoot
<1>4. QED
  BY <1>2, <1>3 DEF limit_memory, set_limits, die_invalid, die_refused, die_fault

\* limit_resources limits what has an option of its own, and leaves the rest.
LEMMA ResourcesStep ==
    ASSUME LimiterTypeOK, SelectedInv, LimitsInv, limit_resources
    PROVE  LimitsInv'
<1>1. UNCHANGED <<selected, args>> /\ doing = "resources"
  BY DEF limit_resources, line_vars
<1>2. CASE done_step
  <2>1. doing' = "root"
    BY <1>1, <1>2 DEF done_step, After
  <2>2. ASSUME NEW r \in Resources, Decides(r) # NoArg
        PROVE  /\ Decides(r).hard => limits'[r] = [cur |-> Decides(r).num, max |-> Decides(r).num]
               /\ ~Decides(r).hard =>
                    /\ limits'[r].max = HardLimit(r)
                    /\ limits'[r].cur = IF Decides(r).num > HardLimit(r) THEN HardLimit(r)
                                        ELSE Decides(r).num
    <3>1. /\ limits[r] \in Limit /\ FirstLimits[r] \in Limit
          /\ IF r \in MemoryResources /\ "limit_mem" \in selected
             THEN Applied(limits[r], FirstLimits[r], args["limit_mem"])
             ELSE limits[r] = FirstLimits[r]
      BY <1>1, ResourceAssumption DEF LimitsInv, LimiterTypeOK
    <3>2. CASE r \in Slots /\ args[r] # NoArg
      <4>1. args[r] \in LimitArgs /\ Decides(r) = args[r]
        BY <3>2, ResourceArgs DEF Decides
      <4>2. Valid(args[r]) /\ limits'[r] = do_limit(limits[r], args[r])
        BY <1>2, <3>2 DEF limit_resources, set_limits, done_step, die_invalid, die_refused,
                          die_fault, After
      <4>3. Applied(limits'[r], limits[r], args[r])
        BY <3>1, <4>1, <4>2, AppliedLimit
      <4>4. limits[r].max = HardLimit(r)
        BY <3>1 DEF Applied, HardLimit
      <4>5. QED
        BY <4>1, <4>3, <4>4 DEF Applied
    <3>3. CASE ~(r \in Slots /\ args[r] # NoArg)
      <4>1. /\ r \in MemoryResources /\ "limit_mem" \in selected
            /\ Decides(r) = args["limit_mem"]
        BY <2>2, <3>3 DEF Decides
      <4>2. limits'[r] = limits[r]
        BY <3>3 DEF limit_resources, set_limits
      <4>3. QED
        BY <3>1, <4>1, <4>2 DEF Applied, HardLimit
    <3>4. QED
      BY <3>2, <3>3
  <2>3. ASSUME NEW r \in Resources, Decides(r) = NoArg
        PROVE  limits'[r] = FirstLimits[r]
    <3>1. "limit_mem" \in selected => args["limit_mem"] # NoArg
      BY <1>1, NamedSlot, OptionAssumption DEF SelectedInv, Named, LimiterTypeOK
    <3>2. QED
      BY <1>1, <2>3, <3>1 DEF Decides, limit_resources, set_limits, LimitsInv
  <2>4. \A r \in Resources : Decides(r)' = Decides(r) /\ HardLimit(r)' = HardLimit(r)
    BY <1>1 DEF Decides, HardLimit
  <2>5. QED
    BY <1>1, <2>1, <2>2, <2>3, <2>4 DEF LimitsInv, Early, FromRoot
<1>3. CASE doing' = "dead"
  BY <1>3 DEF LimitsInv, Early, FromRoot
<1>4. QED
  BY <1>2, <1>3 DEF limit_resources, set_limits, die_invalid, die_refused, die_fault

\* Every step keeps the limits as they are to be at its place.
LEMMA LimitsStep ==
    LimiterTypeOK /\ SelectedInv /\ LimitsInv /\ [LimiterNext]_limiter_vars => LimitsInv'
<1> SUFFICES ASSUME LimiterTypeOK, SelectedInv, LimitsInv, [LimiterNext]_limiter_vars
             PROVE  LimitsInv'
  OBVIOUS
<1>1. CASE (\E o \in Options : parse_params(o)) \/ parse_end
  <2>1. /\ doing \in Early /\ doing' \in Early \cup {"usage"} /\ limits' = limits
        BY <1>1 DEF parse_params, parse_end, Usage, Early, kernel_vars
  <2>2. QED
    BY <2>1 DEF LimitsInv, Early, FromRoot
<1>2. CASE limit_memory \/ limit_resources
  BY <1>2, MemoryStep, ResourcesStep
<1>3. CASE limit_priority
  <2>1. doing' \in {"memory", "dead"} /\ doing = "priority" /\ UNCHANGED <<line_vars, limits>>
    BY <1>3 DEF limit_priority, done_step, die_invalid, die_refused, die_fault, After
  <2>2. QED
    BY <2>1, LimitsFrame DEF Early, FromRoot, line_vars
<1>4. CASE limit_root \/ priv_setgid \/ priv_setuid \/ exec
  <2>1. /\ doing \in FromRoot /\ doing' \in FromRoot \cup {"dead"}
        /\ UNCHANGED <<line_vars, limits>>
    BY <1>4 DEF limit_root, priv_setgid, priv_setuid, exec, done_step, die_invalid,
                die_refused, die_fault, After, FromRoot, kernel_vars
  <2>2. QED
    BY <2>1, LimitsFrame DEF Early, FromRoot, line_vars
<1>5. CASE UNCHANGED limiter_vars
  BY <1>5 DEF LimitsInv, limiter_vars, line_vars, kernel_vars, Decides, HardLimit
<1>6. QED
  BY <1>1, <1>2, <1>3, <1>4, <1>5 DEF LimiterNext, Finished

\* The program runs with the limits it was to have, for all options, arguments
\* and limits.
THEOREM LimitsHold == LimiterSpec => []LimitsAsAsked
<1> DEFINE Inv == LimiterTypeOK /\ SelectedInv /\ LimitsInv
<1>1. LimiterInit => Inv
  BY InitType DEF LimiterInit, LimitsInv, Early, FromRoot
<1>2. Inv /\ [LimiterNext]_limiter_vars => Inv'
  BY TypeStep, SelectedStep, LimitsStep
<1>3. Inv => LimitsAsAsked
  <2> SUFFICES ASSUME Inv, doing = "running"
               PROVE  LimitsAsAsked
    BY DEF LimitsAsAsked
  <2>1. ASSUME NEW o \in selected \cap DOMAIN ResourceOf
        PROVE  args[ResourceOf[o]] # NoArg
    BY <2>1, OptionAssumption DEF SelectedInv, Slot, Named
  <2>2. QED
    BY <2>1 DEF LimitsAsAsked, LimitsInv, FromRoot
<1>4. QED
  BY <1>1, <1>2, <1>3, PTL DEF LimiterSpec

-----------------------------------------------------------------------------
(* Identity *)

\* The identity that is asked for, kept by every step that touches none of it.
LEMMA IdentityFrame ==
    ASSUME IdentityInv,
           UNCHANGED <<selected, args, root, cwd_inside, ids, gid, groups>>,
           \/ doing' = doing
           \/ doing' \notin FromGroup
           \/ doing' = "running" /\ doing = "exec"
    PROVE  IdentityInv'
  BY DEF IdentityInv, FromGroup, FromUser, FromExec

\* limit_root enters the root directory that was asked for, and only one can be.
LEMMA RootStep ==
    ASSUME SelectedInv, IdentityInv, limit_root
    PROVE  IdentityInv'
<1>1. UNCHANGED <<selected, args>> /\ doing = "root"
  BY DEF limit_root, line_vars
<1>2. CASE done_step
  <2>1. doing' = "group"
    BY <1>1, <1>2 DEF done_step, After
  <2>2. ~({"chroot", "jail"} \subseteq selected)
    BY <1>1 DEF SelectedInv, validate_cmdline
  <2>3. /\ "chroot" \in selected => root' = "chroot" /\ cwd_inside'
        /\ "jail" \in selected => root' = "jail" /\ cwd_inside'
    BY <2>1, <2>2 DEF limit_root, die_invalid, die_refused, die_fault
  <2>4. QED
    BY <1>1, <2>1, <2>3 DEF IdentityInv, FromGroup, FromUser, FromExec
<1>3. CASE doing' = "dead"
  BY <1>3 DEF IdentityInv, FromGroup, FromUser, FromExec
<1>4. QED
  BY <1>2, <1>3 DEF limit_root, die_invalid, die_refused, die_fault

\* priv_setgid takes on the group, and no other.
LEMMA GroupStep ==
    ASSUME IdentityInv, priv_setgid
    PROVE  IdentityInv'
<1>1. UNCHANGED <<selected, args, root, cwd_inside>> /\ doing = "group"
  BY DEF priv_setgid, line_vars, kernel_vars
<1>2. CASE done_step
  <2>1. doing' = "user"
    BY <1>1, <1>2 DEF done_step, After
  <2>2. "group" \in selected => gid' = IdOf[root][args["group"]] /\ groups' = {gid'}
    BY <2>1 DEF priv_setgid, die_invalid, die_refused, die_fault, IdOfName
  <2>3. QED
    BY <1>1, <2>1, <2>2 DEF IdentityInv, FromGroup, FromUser, FromExec
<1>3. CASE doing' = "dead"
  BY <1>3 DEF IdentityInv, FromGroup, FromUser, FromExec
<1>4. QED
  BY <1>2, <1>3 DEF priv_setgid, die_invalid, die_refused, die_fault

\* A user other than the superuser, once taken on without a way back, is all there is.
LEMMA NoWayBack ==
    ASSUME ids \in Ids, NEW uid \in Int, uid >= 0, MaySetuid(uid), ~Regains(uid)
    PROVE  /\ setuid(uid).euid = uid
           /\ uid > 0 => 0 \notin {setuid(uid).ruid, setuid(uid).euid, setuid(uid).suid}
  BY DEF Ids, setuid, Regains, MaySetuid, Privileged

\* priv_setuid takes on the user, for good.
LEMMA UserStep ==
    ASSUME LimiterTypeOK, SelectedInv, IdentityInv, priv_setuid
    PROVE  IdentityInv'
<1>1. UNCHANGED <<selected, args, root, cwd_inside, gid, groups>> /\ doing = "user"
  BY DEF priv_setuid, line_vars, kernel_vars
<1>2. CASE done_step
  <2>1. doing' = "exec"
    BY <1>1, <1>2 DEF done_step, After
  <2>2. ASSUME "user" \in selected
        PROVE  LET uid == IdOf[root][args["user"]]
               IN /\ ids'.euid = uid
                  /\ uid > 0 => 0 \notin {ids'.ruid, ids'.euid, ids'.suid}
    <3> DEFINE uid == IdOf[root][args["user"]]
    <3>1. uid \in Int
      BY <1>1, <2>2, NamedArg, NamedArgs, NameType DEF Named, IdOfName
    <3>2. uid >= 0 /\ MaySetuid(uid) /\ ~Regains(uid) /\ ids' = setuid(uid)
      BY <2>1, <2>2 DEF priv_setuid, die_invalid, die_refused, die_fault, IdOfName
    <3>3. QED
      BY <3>1, <3>2, NoWayBack DEF LimiterTypeOK
  <2>3. QED
    BY <1>1, <2>1, <2>2 DEF IdentityInv, FromGroup, FromUser, FromExec
<1>3. CASE doing' = "dead"
  BY <1>3 DEF IdentityInv, FromGroup, FromUser, FromExec
<1>4. QED
  BY <1>2, <1>3 DEF priv_setuid, die_invalid, die_refused, die_fault

\* Every step keeps the identity as it is to be at its place.
LEMMA IdentityStep ==
    LimiterTypeOK /\ SelectedInv /\ IdentityInv /\ [LimiterNext]_limiter_vars
    => IdentityInv'
<1> SUFFICES ASSUME LimiterTypeOK, SelectedInv, IdentityInv, [LimiterNext]_limiter_vars
             PROVE  IdentityInv'
  OBVIOUS
<1>1. CASE (\E o \in Options : parse_params(o)) \/ parse_end
  <2>1. doing' \in {"parse", "usage", "priority"}
    BY <1>1 DEF parse_params, parse_end, Usage
  <2>2. QED
    BY <2>1 DEF IdentityInv, FromGroup, FromUser, FromExec
<1>2. CASE limit_priority \/ limit_memory \/ limit_resources
  <2>1. doing' \in {"memory", "resources", "root", "dead"}
    BY <1>2 DEF limit_priority, limit_memory, limit_resources, set_limits, done_step,
                die_invalid, die_refused, die_fault, After
  <2>2. QED
    BY <2>1 DEF IdentityInv, FromGroup, FromUser, FromExec
<1>3. CASE limit_root \/ priv_setgid \/ priv_setuid
  BY <1>3, RootStep, GroupStep, UserStep
<1>4. CASE exec
  BY <1>4, IdentityFrame DEF exec, line_vars, kernel_vars, id_vars, FromGroup
<1>5. CASE UNCHANGED limiter_vars
  BY <1>5, IdentityFrame DEF limiter_vars, line_vars, kernel_vars, id_vars
<1>6. QED
  BY <1>1, <1>2, <1>3, <1>4, <1>5 DEF LimiterNext, Finished

\* The program runs as the user, with the group and in the root directory it was
\* to have, whatever the files there say, and cannot be the superuser again.
THEOREM IdentityHolds == LimiterSpec => []IdentityAsAsked
<1> DEFINE Inv == LimiterTypeOK /\ SelectedInv /\ IdentityInv
<1>1. LimiterInit => Inv
  BY InitType DEF LimiterInit, IdentityInv, FromGroup, FromUser, FromExec
<1>2. Inv /\ [LimiterNext]_limiter_vars => Inv'
  BY TypeStep, SelectedStep, IdentityStep
<1>3. Inv => IdentityAsAsked
  BY DEF IdentityInv, IdentityAsAsked, FromGroup, FromUser, FromExec
<1>4. QED
  BY <1>1, <1>2, <1>3, PTL DEF LimiterSpec

-----------------------------------------------------------------------------
(* Privileges *)

\* Where the effective user is the superuser's, nothing is refused.
LEMMA NothingRefused ==
    ASSUME MainStep, Privileged
    PROVE  refused' = refused
  BY DEF MainStep, limit_priority, limit_memory, limit_resources, limit_root,
         priv_setgid, priv_setuid, set_limits, done_step, die_invalid, die_refused,
         die_fault, MaySetuid

\* The user is the last thing given up.
LEMMA UserLast ==
    ASSUME MainStep, doing # "user"
    PROVE  ids' = ids /\ doing' \notin FromExec
<1>1. CASE limit_priority \/ limit_memory \/ limit_resources \/ limit_root \/ priv_setgid
  BY <1>1 DEF limit_priority, limit_memory, limit_resources, limit_root, priv_setgid,
              set_limits, done_step, die_invalid, die_refused, die_fault, After,
              id_vars, FromExec
<1>2. CASE priv_setuid
  BY <1>2 DEF priv_setuid
<1>3. QED
  BY <1>1, <1>2 DEF MainStep

\* Every step leaves the next ones the identity they need.
LEMMA PrivilegeStep ==
    PrivilegeInv /\ [LimiterNext]_limiter_vars => PrivilegeInv'
<1> SUFFICES ASSUME PrivilegeInv, [LimiterNext]_limiter_vars
             PROVE  PrivilegeInv'
  OBVIOUS
<1>1. CASE MainStep
  <2>1. /\ doing \in {"priority", "memory", "resources", "root", "group", "user"}
        /\ started' = started /\ ids = started
    BY <1>1, MainFrame DEF PrivilegeInv, FromExec
  <2>2. started.euid = 0 => ~refused'
    BY <1>1, <2>1, NothingRefused DEF PrivilegeInv, PrivilegeLasts, Privileged
  <2>3. CASE doing = "user"
    <3>1. doing' \in {"exec", "dead"}
      BY <1>1, <2>3 DEF MainStep, limit_priority, limit_memory, limit_resources,
         limit_root, priv_setgid, priv_setuid, done_step, die_invalid, die_refused,
         die_fault, After
    <3>2. QED
      BY <2>1, <2>2, <3>1 DEF PrivilegeInv, PrivilegeLasts, FromExec
  <2>4. CASE doing # "user"
    BY <1>1, <2>1, <2>2, <2>4, UserLast DEF PrivilegeInv, PrivilegeLasts
  <2>5. QED
    BY <2>3, <2>4
<1>2. CASE (\E o \in Options : parse_params(o)) \/ parse_end
  BY <1>2 DEF parse_params, parse_end, Usage, PrivilegeInv, PrivilegeLasts, FromExec, id_vars
<1>3. CASE exec
  BY <1>3 DEF exec, PrivilegeInv, PrivilegeLasts, FromExec, id_vars
<1>4. CASE UNCHANGED limiter_vars
  BY <1>4 DEF limiter_vars, PrivilegeInv, PrivilegeLasts, id_vars
<1>5. QED
  BY <1>1, <1>2, <1>3, <1>4 DEF LimiterNext, MainStep, Finished

\* Started by the superuser, the limiter is never refused a step for want of a
\* privilege it has given up.
THEOREM PrivilegesSuffice == LimiterSpec => []PrivilegeLasts
<1>1. LimiterInit => PrivilegeInv
  BY DEF LimiterInit, PrivilegeInv, PrivilegeLasts
<1>2. PrivilegeInv => PrivilegeLasts
  BY DEF PrivilegeInv
<1>3. QED
  BY <1>1, <1>2, PrivilegeStep, PTL DEF LimiterSpec
=============================================================================
