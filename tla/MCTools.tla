------------------------------ MODULE MCTools ------------------------------
(* TLC instance of what runs once and ends: the limiter, taiconv, and the    *)
(* date that taiconv shows for a label.  They have nothing to do with each   *)
(* other: tool says which of them runs, and the others stay as they begin.   *)
EXTENDS Limiter, Taiconv, Iso8601

VARIABLE tool

(* The limiter: root, a user, and a user with a saved identity of root start *)
(* it; a resource with an option of its own, one with two and one without.   *)
AllOptions == {"help", "chroot", "jail", "jail_host", "jail_ip", "limit_mem",
               "priority", "group", "user", "as", "nofile", "ofile"}
TwoOfOne   == [as |-> "AS", nofile |-> "NOFILE", ofile |-> "NOFILE"]
Limits     == {[ok |-> TRUE, hard |-> h, num |-> n] : h \in BOOLEAN, n \in {1, 5}}
                \cup {[ok |-> TRUE, hard |-> FALSE, num |-> -1]}
Priorities == {[ok |-> TRUE, num |-> n] : n \in {-3, 1}} \cup {[ok |-> FALSE, num |-> 0]}
Lowest     == -2
Ids1(www)  == [root |-> 0, www |-> www, ghost |-> -1]
ByRoot     == [host |-> Ids1(1), chroot |-> Ids1(2), jail |-> Ids1(2)]
Starting   == {[ruid |-> 0, euid |-> 0, suid |-> 0], [ruid |-> 1, euid |-> 1, suid |-> 1],
               [ruid |-> 1, euid |-> 1, suid |-> 0]}
AtFirst    == [r \in {"AS", "DATA", "NOFILE"} |-> [cur |-> 2, max |-> 3]]

(* taiconv: labels of one digit for the seconds and two more for the         *)
(* nanoseconds, which 0 keeps in their ranges and 15 does not: a label can   *)
(* be cut to less than a long one that is still not tried as a short one.    *)
(* All texts of up to six characters, three times as long as a short label   *)
(* and two more than a long one.                                             *)
ShortTexts == UNION {[1..n -> {0, 15, At, Newline, Other}] : n \in 0..6}
Readings   == 0..10

(* Dates: each field at its limits and in between, years of one to six digits, *)
(* also before the year 0, and offsets on both sides, with and without minutes  *)
(* or seconds, of more hours than there are, and none.                          *)
Years   == {-1, 0, 7, 1970, 9999, 10000, 99999, 294247}
Offsets == {0, 3600, 1800, 20700, 50400, 1172, 3661, -18000, -12600, -1800, 360000}
AtLimits ==
    {[year |-> y, mon |-> m, mday |-> 31, hour |-> 23, min |-> 5, sec |-> s,
      usec |-> u, gmtoff |-> off] :
        y \in Years, m \in {1, 12}, s \in {0, 60}, u \in {0, 1, 90210, 999999}, off \in Offsets}
AnyDate == CHOOSE e \in AtLimits : TRUE

TaiconvWaits == text = <<>> /\ arg_all = FALSE /\ TaiconvInit
LimiterWaits == started = [ruid |-> 0, euid |-> 0, suid |-> 0] /\ LimiterInit
Iso8601Waits == exp = AnyDate /\ Iso8601Init

ToolsInit ==
    \/ tool = "limiter" /\ LimiterInit /\ TaiconvWaits /\ Iso8601Waits
    \/ tool = "taiconv" /\ TaiconvInit /\ LimiterWaits /\ Iso8601Waits
    \/ tool = "date" /\ Iso8601Init /\ LimiterWaits /\ TaiconvWaits

date_vars == <<exp, date>>

ToolsNext ==
    \/ tool = "limiter" /\ LimiterNext /\ UNCHANGED <<tool, taiconv_vars, date_vars>>
    \/ tool = "taiconv" /\ TaiconvNext /\ UNCHANGED <<tool, limiter_vars, date_vars>>
    \/ tool = "date" /\ Iso8601Next /\ UNCHANGED <<tool, limiter_vars, taiconv_vars>>

ToolsSpec == ToolsInit /\ [][ToolsNext]_<<tool, limiter_vars, taiconv_vars, date_vars>>
=============================================================================
