------------------------------ MODULE Tainlog ------------------------------
(***************************************************************************)
(* srvctl/src/tainlog.c: the logger.  Every line of its input is stamped   *)
(* when its first byte is read and written to FILE_CURRENT.  A file that   *)
(* is full is archived under the stamp of the line that did not fit, and   *)
(* the oldest archives beyond arg_keepnum are removed.                     *)
(*                                                                         *)
(* Loggers die and are restarted by their monitor; two may share the       *)
(* directory, and then only the lock of FILE_CURRENT separates them.       *)
(*                                                                         *)
(* A line is its index in input, the stamps of the lines in the order they *)
(* were read.  Each label of pc is the stretch up to the next call that    *)
(* looks at or changes the directory.                                      *)
(***************************************************************************)
EXTENDS Integers, Sequences, FiniteSets, FiniteSetsExt

CONSTANTS
    Loggers,
    arg_keep,       \* --keep: archives to keep, negative for all
    arg_file,       \* --logsize
    DEFAULT_KEEPNUM, MAX_KEEPNUM,
    DEFAULT_FILESIZE, MIN_FILESIZE, MAX_FILESIZE, MIN_BUFSIZE,
    NotGiven,       \* a parameter that is not there
    Lengths,        \* lengths of formatted lines
    MaxLines,       \* bound: lines read, by all loggers
    MaxEvents       \* bound: failing calls, killed loggers and clocks set back

ASSUME SizeAssumption ==
    /\ {DEFAULT_FILESIZE, MIN_FILESIZE, MAX_FILESIZE, MIN_BUFSIZE} \subseteq Nat \ {0}
    /\ arg_file \in Int \/ arg_file = NotGiven
ASSUME KeepAssumption ==
    /\ {DEFAULT_KEEPNUM, MAX_KEEPNUM} \subseteq Nat
    /\ arg_keep \in Int \/ arg_keep = NotGiven
ASSUME LineAssumption  == Lengths \subseteq Nat \ {0} /\ Lengths # {}
ASSUME BoundAssumption == MaxLines \in Nat /\ MaxEvents \in Nat

\* validate_cmdline: the size at which a file is full, and the archives to keep,
\* negative for all (also with --keep-all).  What is too small for a line's buffer,
\* rather than for a file, is replaced by the least size of a file.
arg_filesize ==
    IF arg_file = NotGiven THEN DEFAULT_FILESIZE
    ELSE IF arg_file > MAX_FILESIZE THEN MAX_FILESIZE
    ELSE IF arg_file < MIN_BUFSIZE THEN MIN_FILESIZE
    ELSE arg_file
arg_keepnum ==
    IF arg_keep = NotGiven THEN DEFAULT_KEEPNUM
    ELSE IF arg_keep > MAX_KEEPNUM THEN MAX_KEEPNUM
    ELSE IF arg_keep < 0 THEN -1
    ELSE arg_keep

Files == 1..MaxLines + 1   \* bound: files created, one at most for each line and one
Stamps == 1..MaxLines
Lines == 1..MaxLines
None == 0                  \* no file, no line
Appending == -1            \* the offset of a file opened with APR_FOPEN_APPEND

VARIABLES
    pc,             \* where each logger is; idle: not running
    line, len,      \* the line it handles, and its length
    flag_eof,
    current,        \* the file it has open
    current_size,
    offset,         \* where it writes next
    locked,         \* it holds the lock of the file
    info,           \* info.size, between stat and open
    oldest, files,  \* locals of flush_archive
    input,          \* stamps of all lines read so far
    file_current,   \* directory: what FILE_CURRENT names
    archive,        \* directory: what each stamp names
    size, content,  \* bytes and lines in each file
    created,        \* number of files created so far
    written,        \* lines written successfully
    flushed,        \* lines in archives removed by flush_archive
    replaced,       \* lines in archives that a rename replaced
    overlap,        \* two loggers ran at the same time
    stepped,        \* the clock was set back
    cut,            \* a removal was decided on a list of archives cut short
    events

thread_vars == <<pc, line, len, flag_eof>>
file_vars   == <<current, current_size, offset, locked, info>>
flush_vars  == <<oldest, files>>
dir_vars    == <<file_current, archive>>
data_vars   == <<size, content, created>>
ghost_vars  == <<written, flushed, replaced>>
past_vars   == <<overlap, stepped, cut>>
vars == <<thread_vars, file_vars, flush_vars, input, dir_vars, data_vars,
          ghost_vars, past_vars, events>>

Labels == {"idle", "stat", "create", "open", "lock", "read", "append",
           "rename", "scan", "remove", "write"}

TypeOK ==
    /\ pc \in [Loggers -> Labels]
    /\ line \in [Loggers -> Lines \cup {None}]
    /\ len \in [Loggers -> Lengths \cup {0}]
    /\ flag_eof \in [Loggers -> BOOLEAN]
    /\ current \in [Loggers -> Files \cup {None}]
    /\ current_size \in [Loggers -> Nat]
    /\ offset \in [Loggers -> Nat \cup {Appending}]
    /\ locked \in [Loggers -> BOOLEAN]
    /\ info \in [Loggers -> Nat]
    /\ oldest \in [Loggers -> Stamps \cup {None}]
    /\ files \in [Loggers -> Nat]
    /\ input \in Seq(Stamps)
    /\ file_current \in Files \cup {None}
    /\ archive \in [Stamps -> Files \cup {None}]
    /\ size \in [Files -> Nat]
    /\ content \in [Files -> Seq(Lines)]
    /\ created \in 0..MaxLines + 1
    /\ written \subseteq Lines /\ flushed \subseteq Lines /\ replaced \subseteq Lines
    /\ overlap \in BOOLEAN /\ stepped \in BOOLEAN /\ cut \in BOOLEAN
    /\ events \in 0..MaxEvents

Init ==
    /\ pc = [l \in Loggers |-> "idle"]
    /\ line = [l \in Loggers |-> None] /\ len = [l \in Loggers |-> 0]
    /\ flag_eof = [l \in Loggers |-> FALSE]
    /\ current = [l \in Loggers |-> None]
    /\ current_size = [l \in Loggers |-> 0]
    /\ offset = [l \in Loggers |-> 0]
    /\ locked = [l \in Loggers |-> FALSE]
    /\ info = [l \in Loggers |-> 0]
    /\ oldest = [l \in Loggers |-> None] /\ files = [l \in Loggers |-> 0]
    /\ input = <<>>
    /\ file_current = None /\ archive = [s \in Stamps |-> None]
    /\ size = [f \in Files |-> 0] /\ content = [f \in Files |-> <<>>]
    /\ created = 0
    /\ written = {} /\ flushed = {} /\ replaced = {}
    /\ overlap = FALSE /\ stepped = FALSE /\ cut = FALSE
    /\ events = 0

-----------------------------------------------------------------------------
goto(l, label) == pc' = [pc EXCEPT ![l] = label]

Fault == events < MaxEvents /\ events' = events + 1

LinesOf(f) == IF f = None THEN {} ELSE {content[f][i] : i \in 1..Len(content[f])}

-----------------------------------------------------------------------------
(* open_tainlog, at the start and before a line is written *)

\* The end of open_tainlog: write the line, or start to read.
opened(l) == goto(l, IF line[l] = None THEN "read" ELSE "write")

stat(l) ==
    /\ pc[l] = "stat"
    /\ current_size' = [current_size EXCEPT ![l] = 0]
    /\ \/ file_current = None /\ goto(l, "create") /\ UNCHANGED <<info, events>>
       \/ /\ file_current # None /\ goto(l, "open")
          /\ info' = [info EXCEPT ![l] = size[file_current]] /\ UNCHANGED events
       \/ Fault /\ opened(l) /\ UNCHANGED info
    /\ UNCHANGED <<line, len, flag_eof, current, offset, locked, flush_vars,
                   input, dir_vars, data_vars, ghost_vars, past_vars>>

\* APR_FOPEN_CREATE neither appends nor insists on a new file.
create(l) ==
    /\ pc[l] = "create"
    /\ \/ /\ file_current = None /\ created + 1 \in Files
          /\ created' = created + 1
          /\ file_current' = created + 1
          /\ goto(l, "lock")
          /\ current' = [current EXCEPT ![l] = created + 1]
          /\ offset' = [offset EXCEPT ![l] = 0]
          /\ UNCHANGED events
       \/ /\ file_current # None
          /\ goto(l, "lock")
          /\ current' = [current EXCEPT ![l] = file_current]
          /\ offset' = [offset EXCEPT ![l] = 0]
          /\ UNCHANGED <<created, file_current, events>>
       \/ Fault /\ opened(l) /\ UNCHANGED <<created, file_current, current, offset>>
    /\ UNCHANGED <<line, len, flag_eof, current_size, locked, info, flush_vars,
                   input, archive, size, content, ghost_vars, past_vars>>

KnownSize_unknown(l) == -1   \* mutant: the size was not asked for
KnownSize_never(l) == 0   \* mutant: the size of an existing file is not taken
KnownSize(l) == info[l]

OpenOffset_start == 0   \* mutant: an existing file is not opened for appending
OpenOffset == Appending

open(l) ==
    /\ pc[l] = "open"
    /\ \/ /\ file_current # None
          /\ goto(l, "lock")
          /\ current' = [current EXCEPT ![l] = file_current]
          /\ offset' = [offset EXCEPT ![l] = OpenOffset]
          /\ current_size' = [current_size EXCEPT ![l] = KnownSize(l)]
          /\ UNCHANGED events
       \/ /\ opened(l)
          /\ (file_current = None /\ UNCHANGED events) \/ Fault
          /\ UNCHANGED <<current, offset, current_size>>
    /\ UNCHANGED <<line, len, flag_eof, locked, info, flush_vars, input,
                   dir_vars, data_vars, ghost_vars, past_vars>>

LockedByOther(l, f) == \E m \in Loggers \ {l} : locked[m] /\ current[m] = f

\* mutant: a file whose lock is taken is kept open
lock_failed_kept(l) == UNCHANGED <<current, offset>>

\* The file is closed, but current_size stays what it was.
lock_failed(l) == /\ current' = [current EXCEPT ![l] = None]
                  /\ offset' = [offset EXCEPT ![l] = 0]

lock_tainlog(l) ==
    /\ pc[l] = "lock"
    /\ opened(l)
    /\ info' = [info EXCEPT ![l] = 0]
    /\ \/ /\ ~LockedByOther(l, current[l])
          /\ locked' = [locked EXCEPT ![l] = TRUE]
          /\ UNCHANGED <<current, offset, events>>
       \/ /\ (LockedByOther(l, current[l]) /\ UNCHANGED events) \/ Fault
          /\ lock_failed(l) /\ UNCHANGED locked
    /\ UNCHANGED <<line, len, flag_eof, current_size, flush_vars, input,
                   dir_vars, data_vars, ghost_vars, past_vars>>

-----------------------------------------------------------------------------
(* readline and append_tainlog *)

\* A line, or what there is of one when the buffer is full or the input ends.
\* Its stamp is the time of its first byte; two lines may share a stamp, and the
\* clock may be set back.
Last == IF input = <<>> THEN 1 ELSE input[Len(input)]
Now  == IF input = <<>> THEN {1} ELSE {Last, Last + 1}
Past == 1..Last - 1

readline(l) ==
    /\ pc[l] = "read" /\ Len(input) < MaxLines
    /\ \/ /\ \E t \in Now : input' = Append(input, t)
          /\ UNCHANGED <<stepped, events>>
       \/ /\ \E t \in Past : input' = Append(input, t)
          /\ stepped' = TRUE /\ Fault
    /\ line' = [line EXCEPT ![l] = Len(input) + 1]
    /\ \E n \in Lengths : len' = [len EXCEPT ![l] = n]
    /\ \E e \in BOOLEAN : flag_eof' = [flag_eof EXCEPT ![l] = e]
    /\ goto(l, "append")
    /\ UNCHANGED <<file_vars, flush_vars, dir_vars, data_vars, ghost_vars,
                   overlap, cut>>

Full(l) == current_size[l] + len[l] > arg_filesize

\* What append_tainlog does before it looks at the directory.  close_tainlog
\* starts with the release of the file, if it is open.
append_tainlog(l) ==
    /\ pc[l] = "append"
    /\ \/ /\ Full(l)
          /\ goto(l, "rename")
          /\ current' = [current EXCEPT ![l] = None]
          /\ offset' = [offset EXCEPT ![l] = 0]
          /\ locked' = [locked EXCEPT ![l] = FALSE]
       \/ /\ ~Full(l)
          /\ goto(l, IF current[l] = None THEN "stat" ELSE "write")
          /\ UNCHANGED <<current, offset, locked>>
    /\ UNCHANGED <<line, len, flag_eof, current_size, info, flush_vars, input,
                   dir_vars, data_vars, ghost_vars, past_vars, events>>

\* mutant: the archive gets the stamp of its own first line
ArchiveName_first(l) == IF content[file_current] = <<>> THEN input[line[l]]
                        ELSE input[content[file_current][1]]
ArchiveName(l) == input[line[l]]

\* The rest of close_tainlog: an archive of that name is replaced.
close_tainlog(l) ==
    /\ pc[l] = "rename"
    /\ goto(l, "scan")
    /\ \/ /\ file_current # None
          /\ archive' = [archive EXCEPT ![ArchiveName(l)] = file_current]
          /\ replaced' = replaced \cup LinesOf(archive[ArchiveName(l)])
          /\ file_current' = None
          /\ UNCHANGED events
       \/ /\ (file_current = None /\ UNCHANGED events) \/ Fault
          /\ UNCHANGED <<dir_vars, replaced>>
    /\ UNCHANGED <<line, len, flag_eof, file_vars, flush_vars, input,
                   data_vars, written, flushed, past_vars>>

Archives == {s \in Stamps : archive[s] # None}

TooMany_equal(n) == n >= arg_keepnum   \* mutant: >= for >
TooMany(n) == n > arg_keepnum

Oldest_last(names) == Max(names)   \* mutant: the comparison is reversed
Oldest(names) == Min(names)

Running(l) == pc[l] # "idle"

\* The archives one reading of the directory comes across.  It ends at the first
\* entry that cannot be read, which may be one that another logger has renamed or
\* removed meanwhile, and nothing tells that end from the end of the directory.
Listed(l, seen) ==
    \/ seen = Archives /\ UNCHANGED events
    \/ seen # Archives /\ (\E m \in Loggers \ {l} : Running(m)) /\ UNCHANGED events
    \/ seen # Archives /\ Fault

\* flush_archive: one look at the directory, then the removal it calls for.
flush_archive(l) ==
    /\ pc[l] = "scan"
    /\ \/ /\ arg_keepnum >= 0
          /\ \E seen \in SUBSET Archives :
               /\ Listed(l, seen)
               /\ seen # {} /\ TooMany(Cardinality(seen))
               /\ oldest' = [oldest EXCEPT ![l] = Oldest(seen)]
               /\ files' = [files EXCEPT ![l] = Cardinality(seen)]
               /\ cut' = (cut \/ seen # Archives)
          /\ goto(l, "remove")
       \/ /\ \/ arg_keepnum < 0 /\ UNCHANGED events
             \/ arg_keepnum >= 0 /\ \E seen \in SUBSET Archives :
                  Listed(l, seen) /\ ~TooMany(Cardinality(seen))
             \/ arg_keepnum >= 0 /\ Fault   \* apr_dir_open fails
          /\ goto(l, "stat") /\ UNCHANGED <<flush_vars, cut>>
    /\ UNCHANGED <<line, len, flag_eof, file_vars, input, dir_vars, data_vars,
                   ghost_vars, overlap, stepped>>

flush_archive_remove(l) ==
    /\ pc[l] = "remove"
    /\ oldest' = [oldest EXCEPT ![l] = None] /\ files' = [files EXCEPT ![l] = 0]
    /\ \/ /\ archive[oldest[l]] # None
          /\ archive' = [archive EXCEPT ![oldest[l]] = None]
          /\ flushed' = flushed \cup LinesOf(archive[oldest[l]])
          /\ goto(l, IF TooMany(files[l] - 1) THEN "scan" ELSE "stat")
          /\ UNCHANGED events
       \/ /\ (archive[oldest[l]] = None /\ UNCHANGED events) \/ Fault
          /\ goto(l, "stat") /\ UNCHANGED <<archive, flushed>>
    /\ UNCHANGED <<line, len, flag_eof, file_vars, input, file_current,
                   data_vars, written, replaced, past_vars>>

\* The line is dealt with; go on reading, or exit and lose the open file.
done(l) ==
    /\ line' = [line EXCEPT ![l] = None] /\ len' = [len EXCEPT ![l] = 0]
    /\ goto(l, IF flag_eof[l] THEN "idle" ELSE "read")
    /\ flag_eof' = [flag_eof EXCEPT ![l] = FALSE]
    /\ locked' = [locked EXCEPT ![l] = @ /\ ~flag_eof[l]]
    /\ current' = [current EXCEPT ![l] = IF flag_eof[l] THEN None ELSE @]

\* n bytes of the line reach the open file, which has grown if they are at its
\* end; they go over what is there otherwise.
WriteAt(l) == IF offset[l] = Appending THEN size[current[l]] ELSE offset[l]
write(l, n) ==
    /\ size' = [size EXCEPT ![current[l]] = IF WriteAt(l) + n > @ THEN WriteAt(l) + n
                                            ELSE @]
    /\ content' = [content EXCEPT ![current[l]] =
                     IF n = len[l] /\ WriteAt(l) = size[current[l]]
                     THEN Append(@, line[l]) ELSE @]
    /\ written' = IF n = len[l] THEN written \cup {line[l]} ELSE written
    /\ current_size' = [current_size EXCEPT ![l] = IF flag_eof[l] THEN 0 ELSE @ + n]
    /\ offset' = [offset EXCEPT ![l] = IF flag_eof[l] THEN 0
                                       ELSE IF @ = Appending THEN @ ELSE @ + n]

append_tainlog_write(l) ==
    /\ pc[l] = "write"
    /\ done(l)
    /\ \/ current[l] # None /\ write(l, len[l]) /\ UNCHANGED events
       \/ current[l] # None /\ Fault /\ \E n \in 0..len[l] - 1 : write(l, n)
       \/ /\ current[l] = None   \* "discarding buffer"
          /\ current_size' = [current_size EXCEPT ![l] = IF flag_eof[l] THEN 0 ELSE @]
          /\ UNCHANGED <<size, content, written, offset, events>>
    /\ UNCHANGED <<info, flush_vars, input, dir_vars, created, flushed,
                   replaced, past_vars>>

-----------------------------------------------------------------------------
(* Life of a logger *)

\* main, up to the first open_tainlog.
setup_tainlog(l) ==
    /\ pc[l] = "idle"
    /\ goto(l, "stat")
    /\ overlap' = (overlap \/ \E m \in Loggers : Running(m))
    /\ UNCHANGED <<line, len, flag_eof, file_vars, flush_vars, input, dir_vars,
                   data_vars, ghost_vars, stepped, cut, events>>

\* The process is gone: the end of the input with nothing read, or SIGKILL.
stop(l) ==
    /\ goto(l, "idle")
    /\ line' = [line EXCEPT ![l] = None] /\ len' = [len EXCEPT ![l] = 0]
    /\ flag_eof' = [flag_eof EXCEPT ![l] = FALSE]
    /\ current' = [current EXCEPT ![l] = None]
    /\ current_size' = [current_size EXCEPT ![l] = 0]
    /\ offset' = [offset EXCEPT ![l] = 0]
    /\ locked' = [locked EXCEPT ![l] = FALSE]
    /\ info' = [info EXCEPT ![l] = 0]
    /\ oldest' = [oldest EXCEPT ![l] = None] /\ files' = [files EXCEPT ![l] = 0]
    /\ UNCHANGED <<input, dir_vars, data_vars, ghost_vars, past_vars>>

Eof(l)  == pc[l] = "read" /\ stop(l) /\ UNCHANGED events
Kill(l) == Running(l) /\ Fault /\ stop(l)

-----------------------------------------------------------------------------
Step(l) ==
    \/ setup_tainlog(l)
    \/ stat(l)
    \/ create(l)
    \/ open(l)
    \/ lock_tainlog(l)
    \/ readline(l)
    \/ append_tainlog(l)
    \/ close_tainlog(l)
    \/ flush_archive(l)
    \/ flush_archive_remove(l)
    \/ append_tainlog_write(l)
    \/ Eof(l)
    \/ Kill(l)

Next == \E l \in Loggers : Step(l)

Spec == Init /\ [][Next]_vars

-----------------------------------------------------------------------------
(* Safety *)

Reachable == (({file_current} \cup {archive[s] : s \in Stamps})) \ {None}
Kept == UNION {LinesOf(f) : f \in Reachable}

\* A logger that runs alone knows the size of the file it appends to, also when
\* it found the file there, a write failed half-way or it could not archive it:
\* what decides when a file is full (open_tainlog, append_tainlog).
SizeKnown ==
    ~overlap => \A l \in Loggers :
        locked[l] => current_size[l] = size[current[l]]

\* A line written stays in the directory until its archive is removed to make
\* room or replaced by one of the same stamp, whatever was restarted, killed or
\* failed in between and whatever the clock says (open_tainlog, close_tainlog).
NothingLost ==
    ~overlap => Kept = written \ (flushed \cup replaced)

\* No line stamped after an archive's name is in it, and none stamped before the
\* name is in a file archived later or in FILE_CURRENT: what a reader relies on
\* who skips the archives older than the last line seen (close_tainlog).  A clock
\* that is set back breaks it, and OldestFlushed too.
ArchiveOrder ==
    ~overlap /\ ~stepped => \A s \in Archives :
        /\ \A i \in LinesOf(archive[s]) : input[i] <= s
        /\ \A t \in Archives : t > s => \A i \in LinesOf(archive[t]) : input[i] >= s
        /\ \A i \in LinesOf(file_current) : input[i] >= s

\* Only the oldest lines are removed to make room, unless a reading of the
\* directory was cut short: the oldest archive may not have been in that part
\* (flush_archive).
OldestFlushed ==
    ~overlap /\ ~stepped /\ ~cut => \A i \in flushed, j \in Kept : i < j

\* A removal leaves at least arg_keepnum archives that are newer by name, also
\* when loggers flush the same directory from what each has counted, when the
\* clock is set back meanwhile, and when only a part of the directory is read
\* (flush_archive).
Newer(s) == {t \in Archives : t > s}
KeepsEnough ==
    [][\A s \in Stamps : archive[s] # None /\ archive'[s] = None
         => Cardinality(Newer(s)') >= arg_keepnum]_vars

\* Two loggers never write to the same file (lock_tainlog).
OneWriter ==
    \A l, m \in Loggers :
        l # m /\ pc[l] = "write" /\ pc[m] = "write" /\ current[l] # None
        => current[l] # current[m]

\* "If current is full, archives it": a logger archives only a file that is its
\* own to write, not one that another logger has locked.  The code breaks it:
\* current_size keeps the size of a file whose lock was not obtained.
ArchivesOwnFile ==
    [][\A l \in Loggers :
         file_current # None /\ file_current' = None /\ pc[l] = "rename"
           /\ pc'[l] = "scan"
         => ~LockedByOther(l, file_current)]_vars
=============================================================================
