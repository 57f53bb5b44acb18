--------------------------- MODULE TainlogProofs ---------------------------
(***************************************************************************)
(* Theorems about Tainlog, for any number of loggers, sizes, limits and    *)
(* lines.  What any loggers keep comes first: types, and the lock of a     *)
(* file.  What a logger that runs alone keeps rests on it.                 *)
(***************************************************************************)
EXTENDS Tainlog, FiniteSetTheorems, TLAPS

\* Where a logger has no line, and where it has one.
Unlined == {"idle", "read"}
Lined   == {"append", "rename", "scan", "remove", "write"}
\* Where it has no file open.
Closed  == {"idle", "stat", "create", "open", "rename", "scan", "remove"}

\* What is true of each logger, whatever others do.
Local(l) ==
    /\ pc[l] \in Unlined => line[l] = None
    /\ pc[l] \in Lined => line[l] # None
    /\ line[l] # None => line[l] <= Len(input) /\ len[l] \in Lengths
    /\ pc[l] \in Closed => current[l] = None
    /\ pc[l] = "lock" => current[l] # None
    /\ pc[l] # "lock" => (locked[l] <=> current[l] # None)
    /\ pc[l] = "lock" => ~locked[l]
    /\ pc[l] = "remove" => oldest[l] # None

\* The clock's readings, and the lines that there are.
InputInv ==
    /\ Len(input) <= MaxLines
    /\ \A i \in 1..Len(input) : input[i] <= i

LocalInv == InputInv /\ \A l \in Loggers : Local(l)

LockInv ==
    \A l, m \in Loggers :
        locked[l] /\ locked[m] /\ current[l] = current[m] => l = m

-----------------------------------------------------------------------------
(* Types *)

\* The sizes that the command line leads to.
LEMMA SizeType == arg_filesize \in Nat \ {0} /\ arg_keepnum \in Int
<1>1. arg_filesize \in Nat \ {0}
  BY SizeAssumption DEF arg_filesize
<1>2. arg_keepnum \in Int
  BY KeepAssumption DEF arg_keepnum
<1>3. QED
  BY <1>1, <1>2

\* None is no file and no line.
LEMMA NoneType == /\ None = 0 /\ None \notin Files /\ None \notin Lines
                  /\ None \notin Stamps /\ Appending \notin Nat
  BY DEF None, Files, Lines, Stamps, Appending

\* A set of stamps that is not empty has a least one.
LEMMA MinInStamps ==
    ASSUME NEW T, T \subseteq Stamps, T # {}
    PROVE  Min(T) \in T /\ \A t \in T : Min(T) <= t
<1>1. T \subseteq Nat
  BY BoundAssumption DEF Stamps
<1>2. IsWellFoundedOn({ss \in Nat \X Nat : ss[1] < ss[2]}, Nat)
  BY NatLessThanWellFounded DEF OpToRel
<1>3. PICK m \in T : \A t \in T : <<t, m>> \notin {ss \in Nat \X Nat : ss[1] < ss[2]}
  BY <1>1, <1>2, WFMin
<1>4. \A t \in T : m <= t
  <2>1. TAKE t \in T
  <2>2. m \in Nat /\ t \in Nat
    BY <1>1
  <2>3. ~(t < m)
    BY <1>3, <2>2
  <2>4. QED
    BY <2>2, <2>3
<1>5. QED
  BY <1>4 DEF Min

ThreadTypes ==
    /\ pc \in [Loggers -> Labels]
    /\ line \in [Loggers -> Lines \cup {None}]
    /\ len \in [Loggers -> Lengths \cup {0}]
    /\ flag_eof \in [Loggers -> BOOLEAN]
FileTypes ==
    /\ current \in [Loggers -> Files \cup {None}]
    /\ current_size \in [Loggers -> Nat]
    /\ offset \in [Loggers -> Nat \cup {Appending}]
    /\ locked \in [Loggers -> BOOLEAN]
    /\ info \in [Loggers -> Nat]
FlushTypes ==
    /\ oldest \in [Loggers -> Stamps \cup {None}]
    /\ files \in [Loggers -> Nat]
DirTypes ==
    /\ file_current \in Files \cup {None}
    /\ archive \in [Stamps -> Files \cup {None}]
DataTypes ==
    /\ size \in [Files -> Nat]
    /\ content \in [Files -> Seq(Lines)]
    /\ created \in 0..MaxLines + 1
GhostTypes ==
    /\ written \subseteq Lines /\ flushed \subseteq Lines /\ replaced \subseteq Lines
    /\ overlap \in BOOLEAN /\ stepped \in BOOLEAN /\ cut \in BOOLEAN
    /\ events \in 0..MaxEvents

\* The type invariant by groups of variables.
LEMMA TypeParts ==
    TypeOK <=> /\ ThreadTypes /\ FileTypes /\ FlushTypes /\ DirTypes /\ DataTypes
               /\ GhostTypes /\ input \in Seq(Stamps)
  BY DEF TypeOK, ThreadTypes, FileTypes, FlushTypes, DirTypes, DataTypes, GhostTypes

\* A step of a logger keeps the types of its place in the code and its line.
LEMMA ThreadStep ==
    ASSUME ThreadTypes, LocalInv, input \in Seq(Stamps), NEW l \in Loggers, Step(l)
    PROVE  ThreadTypes'
<1> USE DEF ThreadTypes, goto, Labels
<1>1. CASE stat(l) \/ create(l) \/ open(l) \/ lock_tainlog(l)
  BY <1>1 DEF stat, create, open, lock_tainlog, opened
<1>2. CASE readline(l)
  <2>1. Len(input) + 1 \in Lines
    BY <1>2, BoundAssumption DEF readline, Lines
  <2>2. QED
    BY <1>2, <2>1 DEF readline
<1>3. CASE append_tainlog(l) \/ close_tainlog(l) \/ flush_archive(l) \/ flush_archive_remove(l)
  BY <1>3 DEF append_tainlog, close_tainlog, flush_archive, flush_archive_remove
<1>4. CASE append_tainlog_write(l) \/ setup_tainlog(l)
  BY <1>4 DEF append_tainlog_write, done, setup_tainlog, thread_vars
<1>5. CASE Eof(l) \/ Kill(l)
  BY <1>5 DEF Eof, Kill, stop
<1>6. QED
  BY <1>1, <1>2, <1>3, <1>4, <1>5 DEF Step

\* The length of a line is a number.
LEMMA LenType == ASSUME ThreadTypes, NEW l \in Loggers PROVE len[l] \in Nat
<1>1. \A n \in Lengths : n \in Nat
  BY LineAssumption
<1>2. len[l] \in Lengths \cup {0}
  BY DEF ThreadTypes
<1>3. QED
  BY <1>1, <1>2

\* The size of the current file, where there is one, is a number.
LEMMA SizeOfCurrent ==
    ASSUME DirTypes, DataTypes, file_current # None
    PROVE  size[file_current] \in Nat
  BY DEF DirTypes, DataTypes

\* ... of the file it has open, and of the size it takes it to have,
LEMMA FileStep ==
    ASSUME FileTypes, ThreadTypes, DirTypes, DataTypes, NEW l \in Loggers, Step(l)
    PROVE  FileTypes'
<1>1. CASE stat(l)
  <2>1. /\ UNCHANGED <<current, offset, locked>>
        /\ current_size' = [current_size EXCEPT ![l] = 0]
        /\ \/ info' = info
           \/ file_current # None /\ info' = [info EXCEPT ![l] = size[file_current]]
    BY <1>1 DEF stat
  <2>2. QED
    BY <2>1, SizeOfCurrent DEF FileTypes
<1>2. CASE lock_tainlog(l)
  <2>1. /\ UNCHANGED current_size
        /\ info' = [info EXCEPT ![l] = 0]
        /\ \/ UNCHANGED current
           \/ current' = [current EXCEPT ![l] = None]
        /\ \/ UNCHANGED offset
           \/ offset' = [offset EXCEPT ![l] = 0]
        /\ \/ UNCHANGED locked
           \/ locked' = [locked EXCEPT ![l] = TRUE]
    BY <1>2 DEF lock_tainlog, lock_failed
  <2>2. current' \in [Loggers -> Files \cup {None}]
    BY <2>1 DEF FileTypes
  <2>3. offset' \in [Loggers -> Nat \cup {Appending}]
    BY <2>1 DEF FileTypes
  <2>4. locked' \in [Loggers -> BOOLEAN]
    BY <2>1 DEF FileTypes
  <2>5. current_size' \in [Loggers -> Nat] /\ info' \in [Loggers -> Nat]
    BY <2>1 DEF FileTypes
  <2>6. QED
    BY <2>2, <2>3, <2>4, <2>5 DEF FileTypes
<1>3. CASE create(l)
  <2>1. /\ UNCHANGED <<current_size, locked, info>>
        /\ \/ UNCHANGED <<current, offset>>
           \/ /\ \E f \in Files : current' = [current EXCEPT ![l] = f]
              /\ offset' = [offset EXCEPT ![l] = 0]
    BY <1>3 DEF create, DirTypes
  <2>2. QED
    BY <2>1 DEF FileTypes
<1>4. CASE open(l)
  <2>1. /\ UNCHANGED <<locked, info>>
        /\ \/ UNCHANGED <<current, offset, current_size>>
           \/ /\ \E f \in Files : current' = [current EXCEPT ![l] = f]
              /\ offset' = [offset EXCEPT ![l] = Appending]
              /\ current_size' = [current_size EXCEPT ![l] = info[l]]
    BY <1>4 DEF open, OpenOffset, KnownSize, DirTypes
  <2>2. QED
    BY <2>1 DEF FileTypes
<1>5. CASE append_tainlog(l)
  <2>1. /\ UNCHANGED <<current_size, info>>
        /\ \/ UNCHANGED <<current, offset, locked>>
           \/ /\ current' = [current EXCEPT ![l] = None]
              /\ offset' = [offset EXCEPT ![l] = 0]
              /\ locked' = [locked EXCEPT ![l] = FALSE]
    BY <1>5 DEF append_tainlog
  <2>2. current' \in [Loggers -> Files \cup {None}]
    BY <2>1 DEF FileTypes
  <2>3. offset' \in [Loggers -> Nat \cup {Appending}]
    BY <2>1 DEF FileTypes
  <2>4. locked' \in [Loggers -> BOOLEAN]
    BY <2>1 DEF FileTypes
  <2>5. current_size' \in [Loggers -> Nat] /\ info' \in [Loggers -> Nat]
    BY <2>1 DEF FileTypes
  <2>6. QED
    BY <2>2, <2>3, <2>4, <2>5 DEF FileTypes
<1>6. CASE append_tainlog_write(l)
  <2>1. /\ locked' = [locked EXCEPT ![l] = locked[l] /\ ~flag_eof[l]]
        /\ \/ UNCHANGED current
           \/ current' = [current EXCEPT ![l] = None]
        /\ UNCHANGED info
    BY <1>6 DEF append_tainlog_write, done, FileTypes
  <2>2. /\ \E n \in Nat : current_size' = [current_size EXCEPT ![l] = n]
        /\ \/ UNCHANGED offset
           \/ \E n \in Nat \cup {Appending} : offset' = [offset EXCEPT ![l] = n]
    <3>1. CASE UNCHANGED offset /\ current_size' = [current_size EXCEPT ![l] =
                                    IF flag_eof[l] THEN 0 ELSE @]
      BY <3>1 DEF FileTypes
    <3>2. ASSUME NEW n \in Nat, write(l, n)
          PROVE  /\ \E k \in Nat : current_size' = [current_size EXCEPT ![l] = k]
                 /\ \E k \in Nat \cup {Appending} : offset' = [offset EXCEPT ![l] = k]
      <4>1. /\ current_size' = [current_size EXCEPT ![l] =
                                  IF flag_eof[l] THEN 0 ELSE current_size[l] + n]
            /\ offset' = [offset EXCEPT ![l] =
                            IF flag_eof[l] THEN 0
                            ELSE IF offset[l] = Appending THEN Appending ELSE offset[l] + n]
        BY <3>2 DEF write, FileTypes
      <4>2. (IF flag_eof[l] THEN 0 ELSE current_size[l] + n) \in Nat
        BY DEF FileTypes
      <4>3. (IF flag_eof[l] THEN 0
             ELSE IF offset[l] = Appending THEN Appending ELSE offset[l] + n)
              \in Nat \cup {Appending}
        BY DEF FileTypes
      <4>4. QED
        BY <4>1, <4>2, <4>3
    <3>3. \A n \in 0..len[l] - 1 : n \in Nat
      BY LenType
    <3>4. QED
      BY <1>6, <3>1, <3>2, <3>3, LenType DEF append_tainlog_write
  <2>3. QED
    BY <2>1, <2>2 DEF FileTypes
<1>7. CASE Eof(l) \/ Kill(l)
  <2>1. /\ current' = [current EXCEPT ![l] = None]
        /\ current_size' = [current_size EXCEPT ![l] = 0]
        /\ offset' = [offset EXCEPT ![l] = 0]
        /\ locked' = [locked EXCEPT ![l] = FALSE]
        /\ info' = [info EXCEPT ![l] = 0]
    BY <1>7 DEF Eof, Kill, stop
  <2>2. QED
    BY <2>1 DEF FileTypes
<1>8. CASE UNCHANGED file_vars
  BY <1>8 DEF file_vars, FileTypes
<1>9. QED
  BY <1>1, <1>2, <1>3, <1>4, <1>5, <1>6, <1>7, <1>8 DEF Step, readline, close_tainlog,
     flush_archive, flush_archive_remove, setup_tainlog

\* The archives are finitely many.
LEMMA ArchivesFinite ==
    /\ Archives \subseteq Stamps
    /\ IsFiniteSet(Archives)
    /\ Cardinality(Archives) \in Nat
<1>1. Archives \subseteq Stamps
  BY DEF Archives
<1>2. IsFiniteSet(Stamps)
  BY FS_Interval, BoundAssumption DEF Stamps
<1>3. IsFiniteSet(Archives)
  BY <1>1, <1>2, FS_Subset
<1>4. QED
  BY <1>1, <1>3, FS_CardinalityType

\* What a logger has seen of the archives has an oldest one.
LEMMA SeenArchives ==
    ASSUME NEW seen \in SUBSET Archives, seen # {}
    PROVE  /\ IsFiniteSet(seen) /\ Cardinality(seen) \in Nat
           /\ Oldest(seen) \in seen /\ Oldest(seen) \in Stamps
           /\ \A t \in seen : Oldest(seen) <= t
<1>1. seen \subseteq Stamps
  BY ArchivesFinite
<1>2. IsFiniteSet(seen)
  BY ArchivesFinite, FS_Subset
<1>3. QED
  BY <1>1, <1>2, FS_CardinalityType, MinInStamps DEF Oldest

\* flush_archive is done, or goes to remove the oldest archive of those it saw.
LEMMA FlushScan ==
    ASSUME NEW l \in Loggers, flush_archive(l)
    PROVE  \/ goto(l, "stat") /\ UNCHANGED <<flush_vars, cut>>
           \/ \E seen \in SUBSET Archives :
                /\ seen # {} /\ TooMany(Cardinality(seen))
                /\ goto(l, "remove")
                /\ oldest' = [oldest EXCEPT ![l] = Oldest(seen)]
                /\ files' = [files EXCEPT ![l] = Cardinality(seen)]
                /\ cut' = (cut \/ seen # Archives)
  BY DEF flush_archive

\* ... of the archives it removes,
LEMMA FlushStep ==
    ASSUME FlushTypes, NEW l \in Loggers, Step(l)
    PROVE  FlushTypes'
<1>1. CASE flush_archive(l)
  <2>1. CASE UNCHANGED flush_vars
    BY <2>1 DEF FlushTypes, flush_vars
  <2>2. ASSUME NEW seen \in SUBSET Archives, seen # {},
               oldest' = [oldest EXCEPT ![l] = Oldest(seen)],
               files' = [files EXCEPT ![l] = Cardinality(seen)]
        PROVE  FlushTypes'
    BY <2>2, SeenArchives DEF FlushTypes
  <2>3. QED
    BY <1>1, <2>1, <2>2, FlushScan
<1>2. CASE flush_archive_remove(l) \/ Eof(l) \/ Kill(l)
  BY <1>2 DEF flush_archive_remove, Eof, Kill, stop, FlushTypes
<1>3. CASE UNCHANGED flush_vars
  BY <1>3 DEF flush_vars, FlushTypes
<1>4. QED
  BY <1>1, <1>2, <1>3 DEF Step, stat, create, open, lock_tainlog, readline,
     append_tainlog, close_tainlog, append_tainlog_write, setup_tainlog

\* ... of what the directory names,
LEMMA DirStep ==
    ASSUME DirTypes, DataTypes, FlushTypes, LocalInv, ThreadTypes,
           input \in Seq(Stamps), NEW l \in Loggers, Step(l)
    PROVE  DirTypes'
<1>1. CASE create(l)
  BY <1>1 DEF create, DirTypes
<1>2. CASE close_tainlog(l)
  <2>1. /\ file_current' \in Files \cup {None}
        /\ \/ UNCHANGED archive
           \/ archive' = [archive EXCEPT ![ArchiveName(l)] = file_current]
    BY <1>2 DEF close_tainlog, dir_vars, DirTypes
  <2>2. QED
    BY <2>1 DEF DirTypes
<1>3. CASE flush_archive_remove(l)
  <2>1. /\ UNCHANGED file_current
        /\ \/ UNCHANGED archive
           \/ archive' = [archive EXCEPT ![oldest[l]] = None]
    BY <1>3 DEF flush_archive_remove
  <2>2. QED
    BY <2>1 DEF DirTypes
<1>4. CASE UNCHANGED dir_vars
  BY <1>4 DEF dir_vars, DirTypes
<1>5. QED
  BY <1>1, <1>2, <1>3, <1>4 DEF Step, stat, open, lock_tainlog, readline, append_tainlog,
     flush_archive, append_tainlog_write, setup_tainlog, Eof, Kill, stop

\* The archive is named by the stamp of the line that is handled.
LEMMA NameType ==
    ASSUME ThreadTypes, LocalInv, input \in Seq(Stamps), NEW l \in Loggers, pc[l] \in Lined
    PROVE  line[l] \in 1..Len(input) /\ ArchiveName(l) \in Stamps
<1>1. line[l] # None /\ line[l] <= Len(input)
  BY DEF LocalInv, Local
<1>2. line[l] \in 1..Len(input)
  BY <1>1, BoundAssumption DEF ThreadTypes, Lines
<1>3. QED
  BY <1>2 DEF ArchiveName

\* The lines of a file are lines.
LEMMA LinesOfType ==
    ASSUME DataTypes, NEW f \in Files \cup {None}
    PROVE  LinesOf(f) \subseteq Lines
<1>1. CASE f = None
  BY <1>1 DEF LinesOf
<1>2. CASE f # None
  <2>1. content[f] \in Seq(Lines)
    BY <1>2 DEF DataTypes
  <2>2. QED
    BY <1>2, <2>1 DEF LinesOf
<1>3. QED
  BY <1>1, <1>2

\* What a write does to the file and to the lines written.
LEMMA WriteData ==
    ASSUME DataTypes, FileTypes, ThreadTypes, written \subseteq Lines,
           NEW l \in Loggers, line[l] # None, current[l] # None, NEW n \in Nat, write(l, n)
    PROVE  /\ size' \in [Files -> Nat]
           /\ content' \in [Files -> Seq(Lines)]
           /\ written' \subseteq Lines
<1>1. current[l] \in Files /\ line[l] \in Lines
  BY DEF FileTypes, ThreadTypes
<1>2. size[current[l]] \in Nat /\ content[current[l]] \in Seq(Lines)
  BY <1>1 DEF DataTypes
<1>3. WriteAt(l) \in Nat
  BY <1>2 DEF WriteAt, FileTypes
<1>4. (IF WriteAt(l) + n > size[current[l]] THEN WriteAt(l) + n ELSE size[current[l]]) \in Nat
  BY <1>2, <1>3
<1>5. size' \in [Files -> Nat]
  BY <1>4 DEF write, DataTypes
<1>6. Append(content[current[l]], line[l]) \in Seq(Lines)
  BY <1>1, <1>2
<1>7. content' \in [Files -> Seq(Lines)]
  BY <1>2, <1>6 DEF write, DataTypes
<1>8. written' \subseteq Lines
  BY <1>1 DEF write
<1>9. QED
  BY <1>5, <1>7, <1>8

\* ... of what is in the files,
LEMMA DataStep ==
    ASSUME DataTypes, FileTypes, ThreadTypes, written \subseteq Lines, LocalInv,
           NEW l \in Loggers, Step(l)
    PROVE  DataTypes' /\ written' \subseteq Lines
<1>1. CASE create(l)
  <2>1. created' \in 0..MaxLines + 1
    BY <1>1, BoundAssumption DEF create, DataTypes, Files
  <2>2. QED
    BY <1>1, <2>1 DEF create, DataTypes, ghost_vars
<1>2. CASE append_tainlog_write(l)
  <2>1. line[l] # None
    BY <1>2 DEF append_tainlog_write, LocalInv, Local, Lined
  <2>2. \A n \in 0..len[l] - 1 : n \in Nat
    BY LenType
  <2>3. UNCHANGED created
    BY <1>2 DEF append_tainlog_write
  <2>4. \/ UNCHANGED <<size, content, written>>
        \/ current[l] # None /\ \E n \in Nat : write(l, n)
    BY <1>2, <2>2, LenType DEF append_tainlog_write
  <2>5. QED
    BY <2>1, <2>3, <2>4, WriteData DEF DataTypes
<1>3. CASE UNCHANGED <<data_vars, written>>
  BY <1>3 DEF data_vars, DataTypes
<1>4. QED
  BY <1>1, <1>2, <1>3 DEF Step, stat, open, lock_tainlog, readline, append_tainlog,
     close_tainlog, flush_archive, flush_archive_remove, setup_tainlog, Eof, Kill, stop,
     ghost_vars

\* ... of what is remembered of the past,
LEMMA GhostStep ==
    ASSUME GhostTypes, ThreadTypes, DirTypes, DataTypes, FlushTypes,
           written' \subseteq Lines, input \in Seq(Stamps), LocalInv,
           NEW l \in Loggers, Step(l)
    PROVE  GhostTypes'
<1>1. events' = events \/ (events < MaxEvents /\ events' = events + 1)
  BY DEF Step, setup_tainlog, stat, create, open, lock_tainlog, readline, append_tainlog,
     close_tainlog, flush_archive, Listed, flush_archive_remove, append_tainlog_write, Eof, Kill, Fault
<1>2. events' \in 0..MaxEvents
  BY <1>1, BoundAssumption DEF GhostTypes
<1>3. /\ overlap' \in BOOLEAN
      /\ stepped' \in BOOLEAN
      /\ cut' \in BOOLEAN
  BY DEF Step, setup_tainlog, stat, create, open, lock_tainlog, readline, append_tainlog,
     close_tainlog, flush_archive, flush_archive_remove, append_tainlog_write, Eof, Kill, stop,
     past_vars, GhostTypes
<1>4. flushed' \subseteq Lines /\ replaced' \subseteq Lines
  <2>1. CASE close_tainlog(l)
    <3>1. /\ UNCHANGED flushed
          /\ \/ UNCHANGED replaced
             \/ replaced' = replaced \cup LinesOf(archive[ArchiveName(l)])
      BY <2>1 DEF close_tainlog
    <3>2. ArchiveName(l) \in Stamps
      BY <2>1, NameType DEF close_tainlog, Lined
    <3>3. LinesOf(archive[ArchiveName(l)]) \subseteq Lines
      BY <3>2, LinesOfType DEF DirTypes
    <3>4. QED
      BY <3>1, <3>3 DEF GhostTypes
  <2>2. CASE flush_archive_remove(l)
    <3>1. oldest[l] \in Stamps
      BY <2>2 DEF flush_archive_remove, LocalInv, Local, FlushTypes
    <3>2. LinesOf(archive[oldest[l]]) \subseteq Lines
      BY <3>1, LinesOfType DEF DirTypes
    <3>3. QED
      BY <2>2, <3>2 DEF flush_archive_remove, GhostTypes
  <2>3. CASE UNCHANGED <<flushed, replaced>>
    BY <2>3 DEF GhostTypes
  <2>4. QED
    BY <2>1, <2>2, <2>3 DEF Step, setup_tainlog, stat, create, open, lock_tainlog, readline,
       append_tainlog, flush_archive, append_tainlog_write, Eof, Kill, stop, ghost_vars
<1>5. QED
  BY <1>2, <1>3, <1>4 DEF GhostTypes

\* ... of the input, and what its stamps can be.
LEMMA InputStep ==
    ASSUME input \in Seq(Stamps), InputInv, NEW l \in Loggers, Step(l)
    PROVE  /\ input' \in Seq(Stamps) /\ InputInv'
           /\ \/ UNCHANGED input
              \/ /\ readline(l)
                 /\ \E t \in Stamps : input' = Append(input, t)
<1>1. CASE readline(l)
  <2>1. Len(input) \in Nat /\ Len(input) + 1 <= MaxLines
    BY <1>1, BoundAssumption DEF readline
  <2>2. input # <<>> => Last \in Stamps /\ Last <= Len(input)
    BY <2>1 DEF Last, InputInv
  <2>3. \A t \in Now \cup Past : t \in Stamps /\ t <= Len(input) + 1
    <3>1. CASE input = <<>>
      BY <3>1, <2>1, BoundAssumption DEF Now, Past, Last, Stamps
    <3>2. CASE input # <<>>
      BY <3>2, <2>1, <2>2, BoundAssumption DEF Now, Past, Stamps
    <3>3. QED
      BY <3>1, <3>2
  <2>4. PICK t \in Now \cup Past : input' = Append(input, t)
    BY <1>1 DEF readline
  <2>5. input' \in Seq(Stamps) /\ Len(input') = Len(input) + 1
    BY <2>3, <2>4
  <2>6. \A i \in 1..Len(input') : input'[i] <= i
    <3>1. TAKE i \in 1..Len(input')
    <3>2. CASE i = Len(input) + 1
      BY <3>2, <2>1, <2>3, <2>4
    <3>3. CASE i # Len(input) + 1
      BY <3>3, <2>1, <2>4, <2>5 DEF InputInv
    <3>4. QED
      BY <3>2, <3>3
  <2>7. QED
    BY <1>1, <2>1, <2>3, <2>4, <2>5, <2>6 DEF InputInv
<1>2. CASE UNCHANGED input
  BY <1>2 DEF InputInv
<1>3. QED
  BY <1>1, <1>2 DEF Step, stat, create, open, lock_tainlog, append_tainlog, close_tainlog,
     flush_archive, flush_archive_remove, append_tainlog_write, setup_tainlog, Eof, Kill, stop

-----------------------------------------------------------------------------
(* The place of each logger in the code, and the lock *)

\* A logger's step changes nothing of another logger.
LEMMA Others ==
    ASSUME TypeOK, NEW l \in Loggers, Step(l), NEW m \in Loggers, m # l
    PROVE  /\ pc'[m] = pc[m] /\ line'[m] = line[m] /\ len'[m] = len[m]
           /\ current'[m] = current[m] /\ locked'[m] = locked[m]
           /\ oldest'[m] = oldest[m]
<1>1. ThreadTypes /\ FileTypes /\ FlushTypes
  BY TypeParts
<1> USE <1>1 DEF ThreadTypes, FileTypes, FlushTypes, goto
<1>2. CASE stat(l) \/ create(l) \/ open(l)
  BY <1>2 DEF stat, create, open, opened, flush_vars
<1>3. CASE lock_tainlog(l)
  BY <1>3 DEF lock_tainlog, opened, lock_failed, flush_vars
<1>4. CASE readline(l)
  BY <1>4 DEF readline, file_vars, flush_vars
<1>5. CASE append_tainlog(l) \/ close_tainlog(l)
  BY <1>5 DEF append_tainlog, close_tainlog, file_vars, flush_vars
<1>6. CASE flush_archive(l) \/ flush_archive_remove(l)
  BY <1>6 DEF flush_archive, flush_archive_remove, file_vars, flush_vars
<1>7. CASE append_tainlog_write(l)
  BY <1>7 DEF append_tainlog_write, done, flush_vars
<1>8. CASE setup_tainlog(l)
  BY <1>8 DEF setup_tainlog, thread_vars, file_vars, flush_vars
<1>9. CASE Eof(l) \/ Kill(l)
  BY <1>9 DEF Eof, Kill, stop
<1>10. QED
  BY <1>2, <1>3, <1>4, <1>5, <1>6, <1>7, <1>8, <1>9 DEF Step

\* What is true of a logger stays true of it when it takes a step.
LEMMA OwnStep ==
    ASSUME TypeOK, LocalInv, NEW l \in Loggers, Step(l)
    PROVE  Local(l)'
<1>1. ThreadTypes /\ FileTypes /\ FlushTypes /\ input \in Seq(Stamps) /\ DirTypes /\ Local(l)
  BY TypeParts DEF LocalInv
<1>2. l \in DOMAIN pc /\ l \in DOMAIN line /\ l \in DOMAIN len /\ l \in DOMAIN current
      /\ l \in DOMAIN locked /\ l \in DOMAIN oldest
  BY <1>1 DEF ThreadTypes, FileTypes, FlushTypes
<1> USE DEF goto, Unlined, Lined, Closed
<1>3. CASE stat(l) \/ create(l) \/ open(l)
  <2>1. CASE stat(l)
    BY <1>1, <1>2, <2>1 DEF stat, opened, Local, flush_vars
  <2>2. CASE create(l)
    <3>1. /\ line' = line /\ len' = len /\ input' = input /\ locked' = locked
      BY <2>2 DEF create
    <3>2. \/ UNCHANGED current /\ pc'[l] \in {"read", "write"}
             /\ (line[l] = None <=> pc'[l] = "read")
          \/ current'[l] \in Files /\ pc'[l] = "lock"
      BY <1>1, <1>2, <2>2 DEF create, opened, DirTypes
    <3>3. QED
      BY <1>1, <2>2, <3>1, <3>2, NoneType DEF create, Local
  <2>3. CASE open(l)
    <3>1. /\ line' = line /\ len' = len /\ input' = input /\ locked' = locked
      BY <2>3 DEF open
    <3>2. \/ UNCHANGED current /\ pc'[l] \in {"read", "write"}
             /\ (line[l] = None <=> pc'[l] = "read")
          \/ current'[l] # None /\ pc'[l] = "lock"
      BY <1>1, <1>2, <2>3 DEF open, opened
    <3>3. QED
      BY <1>1, <2>3, <3>1, <3>2 DEF open, Local
  <2>4. QED
    BY <1>3, <2>1, <2>2, <2>3
<1>4. CASE lock_tainlog(l)
  <2>1. /\ line' = line /\ len' = len /\ input' = input
        /\ pc'[l] = (IF line[l] = None THEN "read" ELSE "write")
        /\ locked'[l] <=> current'[l] # None
    BY <1>1, <1>2, <1>4 DEF lock_tainlog, lock_failed, opened, Local
  <2>2. QED
    BY <1>1, <2>1 DEF Local
<1>5. CASE readline(l)
  <2>1. /\ line'[l] = Len(input) + 1 /\ len'[l] \in Lengths /\ pc'[l] = "append"
        /\ Len(input') = Len(input) + 1
        /\ UNCHANGED <<current, locked>>
    BY <1>1, <1>2, <1>5 DEF readline, file_vars
  <2>2. Len(input) + 1 # None
    BY <1>1 DEF None
  <2>3. QED
    BY <1>1, <1>5, <2>1, <2>2 DEF Local, readline
<1>6. CASE append_tainlog(l)
  <2>1. /\ line' = line /\ len' = len /\ input' = input
        /\ \/ pc'[l] = "rename" /\ current'[l] = None /\ ~locked'[l]
           \/ UNCHANGED <<current, locked>> /\ current[l] = None /\ pc'[l] = "stat"
           \/ UNCHANGED <<current, locked>> /\ current[l] # None /\ pc'[l] = "write"
    BY <1>2, <1>6 DEF append_tainlog
  <2>2. QED
    BY <1>1, <1>6, <2>1 DEF Local, append_tainlog
<1>7. CASE close_tainlog(l)
  BY <1>1, <1>2, <1>7 DEF close_tainlog, Local, file_vars
<1>8. CASE flush_archive(l)
  <2>1. UNCHANGED <<line, len, flag_eof, file_vars>>
    BY <1>8 DEF flush_archive
  <2>2. CASE goto(l, "stat") /\ UNCHANGED <<flush_vars, cut>>
    BY <1>1, <1>2, <1>8, <2>1, <2>2 DEF flush_archive, Local, file_vars
  <2>3. ASSUME NEW seen \in SUBSET Archives, seen # {}, goto(l, "remove"),
               oldest' = [oldest EXCEPT ![l] = Oldest(seen)]
        PROVE  Local(l)'
    <3>1. Oldest(seen) # None
      BY <2>3, SeenArchives, NoneType
    <3>2. QED
      BY <1>1, <1>2, <1>8, <2>1, <2>3, <3>1 DEF flush_archive, Local, file_vars
  <2>4. QED
    BY <1>8, <2>2, <2>3, FlushScan
<1>9. CASE flush_archive_remove(l)
  BY <1>1, <1>2, <1>9 DEF flush_archive_remove, Local, file_vars
<1>10. CASE append_tainlog_write(l)
  <2>1. /\ line'[l] = None /\ pc'[l] = (IF flag_eof[l] THEN "idle" ELSE "read")
        /\ locked'[l] = (locked[l] /\ ~flag_eof[l])
        /\ current'[l] = (IF flag_eof[l] THEN None ELSE current[l])
    BY <1>1, <1>2, <1>10 DEF append_tainlog_write, done
  <2>2. QED
    BY <1>1, <1>10, <2>1 DEF Local, append_tainlog_write
<1>11. CASE setup_tainlog(l)
  BY <1>1, <1>2, <1>11 DEF setup_tainlog, Local, file_vars, thread_vars
<1>12. CASE Eof(l) \/ Kill(l)
  BY <1>1, <1>2, <1>12 DEF Eof, Kill, stop, Local
<1>13. QED
  BY <1>3, <1>4, <1>5, <1>6, <1>7, <1>8, <1>9, <1>10, <1>11, <1>12 DEF Step

\* The invariant that any number of loggers keep.
SharedInv == TypeOK /\ LocalInv /\ LockInv

\* It holds at the start.
LEMMA SharedInit == Init => SharedInv
<1> SUFFICES ASSUME Init PROVE SharedInv
  OBVIOUS
<1>1. TypeOK
  <2>1. ThreadTypes /\ FlushTypes
    BY DEF Init, ThreadTypes, FlushTypes, Labels
  <2>2. FileTypes
    BY DEF Init, FileTypes
  <2>3. DirTypes /\ DataTypes
    <3>1. <<>> \in Seq(Lines)
      OBVIOUS
    <3>2. QED
      BY <3>1, BoundAssumption DEF Init, DirTypes, DataTypes
  <2>4. GhostTypes
    <3>1. 0 \in 0..MaxEvents
      BY BoundAssumption
    <3>2. QED
      BY <3>1 DEF Init, GhostTypes
  <2>5. input \in Seq(Stamps)
    BY DEF Init
  <2>6. QED
    BY <2>1, <2>2, <2>3, <2>4, <2>5, TypeParts
<1>2. LocalInv
  BY BoundAssumption DEF Init, LocalInv, InputInv, Local, Unlined, Lined, Closed
<1>3. LockInv
  BY DEF Init, LockInv
<1>4. QED
  BY <1>1, <1>2, <1>3 DEF SharedInv

\* Every step of a logger keeps it.
LEMMA SharedStep ==
    ASSUME SharedInv, NEW l \in Loggers, Step(l)
    PROVE  SharedInv'
<1>1. /\ TypeOK /\ LocalInv /\ LockInv /\ InputInv /\ input \in Seq(Stamps)
      /\ ThreadTypes /\ FileTypes /\ FlushTypes /\ DirTypes /\ DataTypes /\ GhostTypes
  BY TypeParts DEF SharedInv, LocalInv
<1>2. TypeOK'
  <2>1. ThreadTypes'
    BY <1>1, ThreadStep
  <2>2. FileTypes'
    BY <1>1, FileStep
  <2>3. FlushTypes'
    BY <1>1, FlushStep
  <2>4. DirTypes'
    BY <1>1, DirStep
  <2>5. DataTypes' /\ written' \subseteq Lines
    BY <1>1, DataStep DEF GhostTypes
  <2>6. GhostTypes'
    BY <1>1, <2>5, GhostStep
  <2>7. input' \in Seq(Stamps)
    BY <1>1, InputStep
  <2>8. QED
    BY <2>1, <2>2, <2>3, <2>4, <2>5, <2>6, <2>7
       DEF TypeOK, ThreadTypes, FileTypes, FlushTypes, DirTypes, DataTypes, GhostTypes
<1>3. LocalInv'
  <2>1. InputInv' /\ Len(input') >= Len(input)
    <3>1. CASE UNCHANGED input
      BY <1>1, <3>1, InputStep
    <3>2. CASE \E t \in Stamps : input' = Append(input, t)
      BY <1>1, <3>2, InputStep
    <3>3. QED
      BY <1>1, <3>1, <3>2, InputStep
  <2>2. ASSUME NEW m \in Loggers PROVE Local(m)'
    <3>1. CASE m = l
      BY <1>1, <3>1, OwnStep
    <3>2. CASE m # l
      <4>1. Local(m) /\ line[m] \in Nat
        BY <1>1 DEF LocalInv, ThreadTypes, Lines, None
      <4>2. Len(input) \in Nat /\ Len(input') \in Nat
        <5>1. input \in Seq(Stamps) /\ input' \in Seq(Stamps)
          BY <1>1, InputStep
        <5>2. QED
          BY <5>1
      <4>3. QED
        BY <1>1, <2>1, <3>2, <4>1, <4>2, Others DEF Local
    <3>3. QED
      BY <3>1, <3>2
  <2>3. QED
    BY <2>1, <2>2 DEF LocalInv
<1>4. LockInv'
  <2>1. \/ locked'[l] => locked[l] /\ current'[l] = current[l]
        \/ current'[l] = current[l] /\ \A m \in Loggers \ {l} : ~(locked[m] /\ current[m] = current[l])
    <3>1. l \in DOMAIN locked /\ l \in DOMAIN current /\ Local(l)
      BY <1>1 DEF FileTypes, LocalInv
    <3>2. CASE stat(l) \/ create(l) \/ open(l)
      BY <3>1, <3>2 DEF stat, create, open, Local, Closed
    <3>3. CASE lock_tainlog(l)
      BY <3>1, <3>3 DEF lock_tainlog, lock_failed, LockedByOther, Local
    <3>4. CASE readline(l) \/ close_tainlog(l) \/ flush_archive(l) \/ flush_archive_remove(l)
               \/ setup_tainlog(l)
      BY <3>1, <3>4 DEF readline, close_tainlog, flush_archive, flush_archive_remove,
         setup_tainlog, file_vars
    <3>5. CASE append_tainlog(l)
      BY <3>1, <3>5 DEF append_tainlog
    <3>6. CASE append_tainlog_write(l)
      BY <3>1, <3>6 DEF append_tainlog_write, done
    <3>7. CASE Eof(l) \/ Kill(l)
      BY <3>1, <3>7 DEF Eof, Kill, stop
    <3>8. QED
      BY <3>2, <3>3, <3>4, <3>5, <3>6, <3>7 DEF Step
  <2>2. \A m \in Loggers \ {l} : locked'[m] = locked[m] /\ current'[m] = current[m]
    BY <1>1, Others
  <2>3. QED
    BY <1>1, <2>1, <2>2 DEF LockInv
<1>5. QED
  BY <1>2, <1>3, <1>4 DEF SharedInv

\* It is an invariant.
THEOREM SharedHolds == Spec => []SharedInv
<1>1. Init => SharedInv
  BY SharedInit
<1>2. SharedInv /\ [Next]_vars => SharedInv'
  <2> SUFFICES ASSUME SharedInv, [Next]_vars PROVE SharedInv'
    OBVIOUS
  <2>1. CASE Next
    BY <2>1, SharedStep DEF Next
  <2>2. CASE UNCHANGED vars
    BY <2>2 DEF vars, thread_vars, file_vars, flush_vars, dir_vars, data_vars, ghost_vars,
       past_vars, SharedInv, TypeOK, LocalInv, InputInv, Local, LockInv
  <2>3. QED
    BY <2>1, <2>2
<1>3. QED
  BY <1>1, <1>2, PTL DEF Spec

\* Every variable stays in its type, whatever fails, is killed or shares the
\* directory: lengths, offsets and the count of files among them.
THEOREM TypeCorrect == Spec => []TypeOK
<1>1. SharedInv => TypeOK
  BY DEF SharedInv
<1>2. QED
  BY <1>1, SharedHolds, PTL

\* Two loggers never write to the same file, for any number of loggers that start,
\* die and are restarted over one directory.
THEOREM OneWriterHolds == Spec => []OneWriter
<1>1. SharedInv => OneWriter
  BY DEF SharedInv, LocalInv, Local, LockInv, OneWriter
<1>2. QED
  BY <1>1, SharedHolds, PTL

-----------------------------------------------------------------------------
(* What a removal leaves *)

\* An archive that a logger is about to remove has as many newer ones as are to be
\* kept, whatever the others have removed since it looked: what another removes is
\* older than as many, so that it is not one of those that count.
PendingInv ==
    \A l \in Loggers : pc[l] = "remove" => Cardinality(Newer(oldest[l])) >= arg_keepnum

\* The names of archives are finitely many numbers.
LEMMA StampsFinite == Stamps \subseteq Nat /\ IsFiniteSet(Stamps)
<1>1. 1 \in Int /\ MaxLines \in Int
  BY BoundAssumption
<1>2. IsFiniteSet(Stamps)
  BY <1>1, FS_Interval DEF Stamps
<1>3. Stamps \subseteq Nat
  BY BoundAssumption DEF Stamps
<1>4. QED
  BY <1>2, <1>3

\* The archives newer than one are finitely many.
LEMMA NewerFinite ==
    ASSUME NEW s
    PROVE  /\ Newer(s) \subseteq Archives /\ IsFiniteSet(Newer(s))
           /\ Cardinality(Newer(s)) \in Nat
<1>1. Newer(s) \subseteq Archives
  BY DEF Newer
<1>2. IsFiniteSet(Newer(s))
  BY <1>1, ArchivesFinite, FS_Subset
<1>3. QED
  BY <1>1, <1>2, FS_CardinalityType

\* The oldest of too many archives has enough newer ones, also when there are more
\* than those that were seen.
LEMMA OldestHasNewer ==
    ASSUME NEW seen \in SUBSET Archives, seen # {}, TooMany(Cardinality(seen))
    PROVE  Cardinality(Newer(Oldest(seen))) >= arg_keepnum
<1> DEFINE m == Oldest(seen)
<1>1. /\ m \in seen /\ \A t \in seen : m <= t
      /\ IsFiniteSet(seen) /\ Cardinality(seen) \in Nat
  BY SeenArchives
<1> HIDE DEF m
<1>2. seen \ {m} \subseteq Newer(m)
  <2>1. Archives \subseteq Nat
    BY ArchivesFinite, StampsFinite
  <2>2. \A t \in seen \ {m} : t > m
    BY <1>1, <2>1
  <2>3. QED
    BY <2>2 DEF Newer
<1>3. Cardinality(seen \ {m}) = Cardinality(seen) - 1
  BY <1>1, FS_RemoveElement
<1>4. Cardinality(seen \ {m}) <= Cardinality(Newer(m)) /\ Cardinality(Newer(m)) \in Nat
  BY <1>2, NewerFinite, FS_Subset
<1>5. QED
  BY <1>1, <1>3, <1>4, SizeType DEF TooMany, m

\* A set of archives that lost what is not in it, or nothing, is as large.
LEMMA NewerKept ==
    ASSUME NEW s, NEW A, A \subseteq Stamps, Newer(s) \subseteq A
    PROVE  Cardinality(Newer(s)) <= Cardinality(A)
<1>1. IsFiniteSet(A)
  BY StampsFinite, FS_Subset
<1>2. QED
  BY <1>1, FS_Subset

\* What a step does to the archives: nothing, one more, or one less, which is the
\* one that the logger has found to be the oldest.
LEMMA ArchivesStep ==
    ASSUME SharedInv, NEW l \in Loggers, Step(l)
    PROVE  \/ Archives \subseteq Archives'
           \/ /\ pc[l] = "remove" /\ oldest[l] \in Stamps
              /\ Archives' = Archives \ {oldest[l]}
<1>1. ThreadTypes /\ FlushTypes /\ DirTypes /\ input \in Seq(Stamps)
  BY TypeParts DEF SharedInv
<1>2. CASE close_tainlog(l)
  <2>1. CASE UNCHANGED archive
    BY <2>1 DEF Archives
  <2>2. CASE file_current # None /\ archive' = [archive EXCEPT ![ArchiveName(l)] = file_current]
    BY <1>1, <2>2 DEF Archives, DirTypes
  <2>3. QED
    BY <1>2, <2>1, <2>2 DEF close_tainlog, dir_vars
<1>3. CASE flush_archive_remove(l)
  <2>1. CASE UNCHANGED archive
    BY <2>1 DEF Archives
  <2>2. CASE archive' = [archive EXCEPT ![oldest[l]] = None]
    <3>1. pc[l] = "remove" /\ oldest[l] \in Stamps
      BY <1>1, <1>3 DEF flush_archive_remove, SharedInv, LocalInv, Local, FlushTypes
    <3>2. Archives' = Archives \ {oldest[l]}
      BY <1>1, <2>2, <3>1 DEF Archives, DirTypes
    <3>3. QED
      BY <3>1, <3>2
  <2>3. QED
    BY <1>3, <2>1, <2>2 DEF flush_archive_remove
<1>4. CASE UNCHANGED archive
  BY <1>4 DEF Archives
<1>5. QED
  BY <1>2, <1>3, <1>4 DEF Step, stat, create, open, lock_tainlog, readline, append_tainlog,
     flush_archive, append_tainlog_write, setup_tainlog, Eof, Kill, stop, dir_vars

\* An archive keeps enough newer ones, whichever other is removed.
LEMMA NewerStep ==
    ASSUME SharedInv, PendingInv, NEW l \in Loggers, Step(l),
           NEW s \in Stamps, Cardinality(Newer(s)) >= arg_keepnum
    PROVE  Cardinality(Newer(s)') >= arg_keepnum
<1>0. Archives' \subseteq Stamps /\ Newer(s)' \subseteq Archives'
  BY DEF Archives, Newer
<1>1. /\ Newer(s)' \subseteq Stamps /\ IsFiniteSet(Newer(s)')
      /\ Cardinality(Newer(s)') \in Nat
  <2>1. Newer(s)' \subseteq Stamps
    BY <1>0
  <2>2. IsFiniteSet(Newer(s)')
    BY <2>1, StampsFinite, FS_Subset
  <2>3. QED
    BY <2>1, <2>2, FS_CardinalityType
<1>2. ASSUME NEW r \in Stamps, Newer(r) \subseteq Newer(s)', Cardinality(Newer(r)) >= arg_keepnum
      PROVE  Cardinality(Newer(s)') >= arg_keepnum
  BY <1>1, <1>2, NewerKept, NewerFinite, SizeType
<1>3. CASE Newer(s) \subseteq Newer(s)'
  BY <1>2, <1>3
<1>4. CASE /\ pc[l] = "remove" /\ oldest[l] \in Stamps
           /\ Archives' = Archives \ {oldest[l]}
  <2>1. CASE oldest[l] > s
    <3>1. Newer(oldest[l]) \subseteq Newer(s)'
      <4> SUFFICES ASSUME NEW t \in Archives, t > oldest[l] PROVE t \in Archives' /\ t > s
        BY DEF Newer
      <4>1. t \in Nat /\ s \in Nat /\ oldest[l] \in Nat
        BY <1>4, StampsFinite, ArchivesFinite
      <4>2. t # oldest[l] /\ t > s
        BY <2>1, <4>1
      <4>3. QED
        BY <1>4, <4>2
    <3>2. QED
      BY <1>2, <1>4, <3>1 DEF PendingInv
  <2>2. CASE ~(oldest[l] > s)
    BY <1>3, <1>4, <2>2 DEF Newer
  <2>3. QED
    BY <2>1, <2>2
<1>5. QED
  BY <1>3, <1>4, ArchivesStep DEF Newer

\* The invariant holds at first and is kept.
LEMMA PendingStep ==
    ASSUME SharedInv, PendingInv, NEW l \in Loggers, Step(l)
    PROVE  PendingInv'
<1> SUFFICES ASSUME NEW m \in Loggers, pc'[m] = "remove"
             PROVE  Cardinality(Newer(oldest[m])') >= arg_keepnum
  BY DEF PendingInv
<1>1. ThreadTypes /\ FlushTypes /\ FlushTypes'
  BY TypeParts, FlushStep DEF SharedInv
<1>2. CASE pc[m] = "remove" /\ oldest'[m] = oldest[m]
  <2>1. oldest[m] \in Stamps /\ Cardinality(Newer(oldest[m])) >= arg_keepnum
    BY <1>1, <1>2 DEF PendingInv, SharedInv, LocalInv, Local, FlushTypes
  <2>2. QED
    BY <1>2, <2>1, NewerStep DEF Newer
<1>3. CASE m = l /\ flush_archive(l)
  <2>1. PICK seen \in SUBSET Archives :
          /\ seen # {} /\ TooMany(Cardinality(seen))
          /\ oldest' = [oldest EXCEPT ![l] = Oldest(seen)]
    BY <1>1, <1>3, FlushScan DEF goto, ThreadTypes
  <2>2. oldest'[m] = Oldest(seen) /\ Archives' = Archives
    BY <1>1, <1>3, <2>1 DEF flush_archive, FlushTypes, Archives, dir_vars
  <2>3. Newer(oldest[m])' = Newer(Oldest(seen))
    BY <2>2 DEF Newer
  <2>4. QED
    BY <2>1, <2>3, OldestHasNewer
<1>4. CASE m = l /\ ~flush_archive(l)
  BY <1>1, <1>4 DEF Step, stat, create, open, lock_tainlog, readline, append_tainlog,
     close_tainlog, flush_archive_remove, append_tainlog_write, setup_tainlog, Eof, Kill,
     stop, done, opened, goto, ThreadTypes
<1>5. CASE m # l
  <2>1. pc'[m] = pc[m] /\ oldest'[m] = oldest[m]
    BY <1>5, Others DEF SharedInv
  <2>2. QED
    BY <1>2, <2>1
<1>6. QED
  BY <1>3, <1>4, <1>5

\* A removal leaves the arg_keepnum newest archives alone, for any number of loggers
\* that flush one directory, each from what it saw before the others did.
THEOREM KeepsEnoughHolds == Spec => KeepsEnough
<1>1. Init => PendingInv
  BY DEF Init, PendingInv
<1>2. SharedInv /\ PendingInv /\ [Next]_vars => PendingInv'
  <2> SUFFICES ASSUME SharedInv, PendingInv, [Next]_vars PROVE PendingInv'
    OBVIOUS
  <2>1. CASE Next
    BY <2>1, PendingStep DEF Next
  <2>2. CASE UNCHANGED vars
    BY <2>2 DEF vars, thread_vars, flush_vars, dir_vars, PendingInv, Newer, Archives
  <2>3. QED
    BY <2>1, <2>2
<1>3. SharedInv /\ PendingInv /\ [Next]_vars
        => [\A s \in Stamps : archive[s] # None /\ archive'[s] = None
              => Cardinality(Newer(s)') >= arg_keepnum]_vars
  <2> SUFFICES ASSUME SharedInv, PendingInv, NEW l \in Loggers, Step(l),
                      NEW s \in Stamps, archive[s] # None, archive'[s] = None
               PROVE  Cardinality(Newer(s)') >= arg_keepnum
    BY DEF Next
  <2>1. pc[l] = "remove" /\ s = oldest[l]
    BY ArchivesStep DEF Archives
  <2>2. QED
    BY <2>1, NewerStep DEF PendingInv
<1>4. QED
  BY <1>1, <1>2, <1>3, SharedHolds, PTL DEF Spec, KeepsEnough

-----------------------------------------------------------------------------
(* A logger that runs alone *)

Lone == \A l, m \in Loggers : Running(l) /\ Running(m) => l = m

\* What it knows of the directory, and of the line it handles.
Solo(l) ==
    /\ pc[l] = "open" => file_current # None /\ info[l] = size[file_current]
    /\ pc[l] = "create" => file_current = None /\ current_size[l] = 0
    /\ pc[l] = "remove" /\ ~cut => Archives # {} /\ oldest[l] = Oldest(Archives)
    /\ current[l] # None =>
         /\ current[l] = file_current
         /\ current_size[l] = size[current[l]]
         /\ offset[l] \in {Appending, size[current[l]]}
    /\ line[l] # None => line[l] = Len(input) /\ line[l] \notin written

\* The directory names each file once, and no file that was not created.
FilesInv ==
    /\ file_current <= created
    /\ \A f \in Files : f > created => size[f] = 0 /\ content[f] = <<>>
    /\ \A s \in Stamps : archive[s] <= created
    /\ \A s \in Stamps : archive[s] # None => archive[s] # file_current
    /\ \A s, t \in Stamps : archive[s] = archive[t] /\ archive[s] # None => s = t

\* Every line that was written is in one file.
LinesInv ==
    /\ written \subseteq 1..Len(input)
    /\ flushed \subseteq written /\ replaced \subseteq written
    /\ \A f \in Files : LinesOf(f) \subseteq written
    /\ \A f, g \in Files : f # g => LinesOf(f) \cap LinesOf(g) = {}
    /\ Kept = written \ (flushed \cup replaced)

SoloInv == ~overlap => Lone /\ FilesInv /\ LinesInv /\ \A l \in Loggers : Solo(l)

\* The others of a lone logger do not run, before and after its step.
LEMMA LoneStep ==
    ASSUME SharedInv, SoloInv, NEW l \in Loggers, Step(l), ~overlap'
    PROVE  /\ ~overlap
           /\ Lone'
           /\ \A m \in Loggers \ {l} :
                pc'[m] = "idle" /\ current'[m] = None /\ line'[m] = None
<1>1. ~overlap
  BY DEF Step, stat, create, open, lock_tainlog, readline, append_tainlog, close_tainlog,
     flush_archive, flush_archive_remove, append_tainlog_write, setup_tainlog, Eof, Kill, stop,
     past_vars
<1>2. \A m \in Loggers \ {l} : pc[m] = "idle"
  <2>1. CASE setup_tainlog(l)
    BY <2>1 DEF setup_tainlog, Running
  <2>2. CASE Running(l)
    BY <1>1, <2>2 DEF SoloInv, Lone, Running
  <2>3. QED
    BY <2>1, <2>2 DEF Running, Step, stat, create, open, lock_tainlog, readline,
       append_tainlog, close_tainlog, flush_archive, flush_archive_remove,
       append_tainlog_write, Eof, Kill
<1>3. \A m \in Loggers \ {l} :
        pc'[m] = "idle" /\ current'[m] = None /\ line'[m] = None
  BY <1>2, Others DEF SharedInv, LocalInv, Local, Closed, Unlined
<1>4. QED
  BY <1>1, <1>3 DEF Lone, Running

\* A line is kept if FILE_CURRENT or an archive has it.
LEMMA KeptIs ==
    \A i : i \in Kept <=> \/ i \in LinesOf(file_current)
                          \/ \E s \in Stamps : i \in LinesOf(archive[s])
<1>1. LinesOf(None) = {}
  BY DEF LinesOf
<1>2. QED
  BY <1>1 DEF Kept, Reachable

\* The lines of a file after one more was appended to it.
LEMMA LinesAppended ==
    ASSUME DataTypes, NEW f \in Files, NEW i \in Lines,
           content' = [content EXCEPT ![f] = Append(content[f], i)]
    PROVE  /\ LinesOf(f)' = LinesOf(f) \cup {i}
           /\ \A g \in Files \ {f} : LinesOf(g)' = LinesOf(g)
<1>1. content[f] \in Seq(Lines) /\ f # None
  BY NoneType DEF DataTypes
<1>2. content'[f] = Append(content[f], i)
  BY DEF DataTypes
<1>3. Len(content'[f]) = Len(content[f]) + 1 /\ Len(content[f]) \in Nat
  BY <1>1, <1>2
<1>4. LinesOf(f)' \subseteq LinesOf(f) \cup {i}
  <2>1. SUFFICES ASSUME NEW k \in 1..Len(content'[f])
                 PROVE  content'[f][k] \in LinesOf(f) \cup {i}
    BY <1>1 DEF LinesOf
  <2>2. CASE k = Len(content[f]) + 1
    BY <1>1, <1>2, <2>2
  <2>3. CASE k \in 1..Len(content[f])
    BY <1>1, <1>2, <2>3 DEF LinesOf
  <2>4. QED
    BY <1>3, <2>2, <2>3
<1>5. LinesOf(f) \subseteq LinesOf(f)'
  <2>1. SUFFICES ASSUME NEW k \in 1..Len(content[f])
                 PROVE  content[f][k] \in {content'[f][j] : j \in 1..Len(content'[f])}
    BY <1>1 DEF LinesOf
  <2>2. k \in 1..Len(content'[f]) /\ content'[f][k] = content[f][k]
    BY <1>1, <1>2, <1>3
  <2>3. QED
    BY <2>2
<1>6. i \in LinesOf(f)'
  <2>1. /\ Len(content[f]) + 1 \in 1..Len(content'[f])
        /\ content'[f][Len(content[f]) + 1] = i
    BY <1>1, <1>2, <1>3
  <2>2. QED
    BY <1>1, <2>1 DEF LinesOf
<1>7. \A g \in Files \ {f} : LinesOf(g)' = LinesOf(g)
  BY DEF LinesOf, DataTypes
<1>8. QED
  BY <1>4, <1>5, <1>6, <1>7

\* A lone logger writes at the end of its file.
LEMMA WriteAtEnd ==
    ASSUME SharedInv, NEW l \in Loggers, Solo(l), pc[l] = "write", current[l] # None,
           NEW n \in Nat, write(l, n)
    PROVE  /\ current[l] \in Files /\ line[l] \in Lines
           /\ size' = [size EXCEPT ![current[l]] = size[current[l]] + n]
           /\ \/ /\ n = len[l]
                 /\ content' = [content EXCEPT ![current[l]] = Append(content[current[l]], line[l])]
                 /\ written' = written \cup {line[l]}
              \/ UNCHANGED <<content, written>>
<1>1. FileTypes /\ DataTypes /\ ThreadTypes
  BY TypeParts DEF SharedInv
<1>2. current[l] \in Files
  BY <1>1 DEF FileTypes
<1>3. line[l] \in Lines
  BY <1>1 DEF SharedInv, LocalInv, Local, Lined, ThreadTypes
<1>4. size[current[l]] \in Nat
  BY <1>1, <1>2 DEF DataTypes
<1>5. WriteAt(l) = size[current[l]]
  BY DEF Solo, WriteAt
<1>6. size' = [size EXCEPT ![current[l]] = IF WriteAt(l) + n > size[current[l]]
                                           THEN WriteAt(l) + n ELSE size[current[l]]]
  BY <1>1, <1>2 DEF write, DataTypes
<1>7. (IF WriteAt(l) + n > size[current[l]] THEN WriteAt(l) + n ELSE size[current[l]])
        = size[current[l]] + n
  BY <1>4, <1>5
<1>8. size' = [size EXCEPT ![current[l]] = size[current[l]] + n]
  BY <1>6, <1>7
<1>9. CASE n = len[l]
  BY <1>2, <1>3, <1>5, <1>8, <1>9 DEF write
<1>10. CASE n # len[l]
  <2>1. content' = [content EXCEPT ![current[l]] = content[current[l]]]
    BY <1>10 DEF write
  <2>2. content' = content
    BY <1>1, <2>1 DEF DataTypes
  <2>3. QED
    BY <1>2, <1>3, <1>8, <1>10, <2>2 DEF write
<1>11. QED
  BY <1>9, <1>10

\* The last part of append_tainlog either discards the line or writes of it.
LEMMA WriteCases ==
    ASSUME ThreadTypes, NEW l \in Loggers, append_tainlog_write(l)
    PROVE  \/ current[l] = None /\ UNCHANGED data_vars /\ UNCHANGED written
           \/ current[l] # None /\ \E n \in Nat : write(l, n)
<1>1. \A n \in 0..len[l] - 1 : n \in Nat
  BY LenType
<1>2. QED
  BY <1>1, LenType DEF append_tainlog_write, data_vars

\* A step of a lone logger keeps the directory in order.
LEMMA FilesStep ==
    ASSUME SharedInv, FilesInv, NEW l \in Loggers, Solo(l), Step(l)
    PROVE  FilesInv'
<1>1. /\ DirTypes /\ DataTypes /\ ThreadTypes /\ FlushTypes /\ LocalInv /\ input \in Seq(Stamps)
      /\ created \in Nat
  BY TypeParts, BoundAssumption DEF SharedInv, DataTypes
<1>2. CASE create(l)
  <2>1. CASE UNCHANGED <<dir_vars, data_vars>>
    BY <2>1 DEF FilesInv, dir_vars, data_vars
  <2>2. CASE ~UNCHANGED <<dir_vars, data_vars>>
    <3>1. /\ file_current = None /\ file_current' = created + 1 /\ created' = created + 1
          /\ UNCHANGED <<archive, size, content>>
      BY <1>2, <2>2 DEF create, dir_vars, data_vars
    <3>2. \A s \in Stamps : archive[s] \in Nat /\ archive[s] < created + 1
      BY <1>1 DEF FilesInv, DirTypes, Files, None
    <3>3. \A f \in Files : f \in Nat
      BY BoundAssumption DEF Files
    <3>4. QED
      BY <1>1, <3>1, <3>2, <3>3 DEF FilesInv
  <2>3. QED
    BY <2>1, <2>2
<1>3. CASE close_tainlog(l)
  <2>1. UNCHANGED data_vars
    BY <1>3 DEF close_tainlog
  <2>2. CASE UNCHANGED dir_vars
    BY <2>1, <2>2 DEF FilesInv, dir_vars, data_vars
  <2>3. CASE ~UNCHANGED dir_vars
    <3>1. /\ archive' = [archive EXCEPT ![ArchiveName(l)] = file_current]
          /\ file_current' = None
      BY <1>3, <2>3 DEF close_tainlog
    <3>2. ArchiveName(l) \in Stamps
      BY <1>1, <1>3, NameType DEF close_tainlog, Lined
    <3>3. QED
      BY <1>1, <2>1, <3>1, <3>2 DEF FilesInv, data_vars, DirTypes, None
  <2>4. QED
    BY <2>2, <2>3
<1>4. CASE flush_archive_remove(l)
  <2>1. UNCHANGED <<data_vars, file_current>>
    BY <1>4 DEF flush_archive_remove
  <2>2. \/ UNCHANGED archive
        \/ archive' = [archive EXCEPT ![oldest[l]] = None]
    BY <1>4 DEF flush_archive_remove
  <2>3. QED
    BY <1>1, <2>1, <2>2 DEF FilesInv, data_vars, DirTypes, None
<1>5. CASE append_tainlog_write(l)
  <2>1. UNCHANGED <<dir_vars, created>>
    BY <1>5 DEF append_tainlog_write
  <2>2. CASE UNCHANGED data_vars
    BY <2>1, <2>2 DEF FilesInv, dir_vars, data_vars
  <2>3. ASSUME current[l] # None, NEW n \in Nat, write(l, n)
        PROVE  FilesInv'
    <3>1. pc[l] = "write"
      BY <1>5 DEF append_tainlog_write
    <3>2. /\ current[l] \in Files
          /\ \A f \in Files \ {current[l]} : size'[f] = size[f] /\ content'[f] = content[f]
      <4>1. /\ current[l] \in Files
            /\ size' = [size EXCEPT ![current[l]] = size[current[l]] + n]
            /\ \/ content' = [content EXCEPT ![current[l]] = Append(content[current[l]], line[l])]
               \/ content' = content
        BY <2>3, <3>1, WriteAtEnd
      <4>2. QED
        BY <1>1, <4>1 DEF DataTypes
    <3>3. ~(current[l] > created)
      BY <1>1, <2>3 DEF Solo, FilesInv, DirTypes, Files, None
    <3>4. QED
      BY <2>1, <3>2, <3>3 DEF FilesInv, dir_vars
  <2>4. QED
    BY <1>1, <1>5, <2>2, <2>3, WriteCases
<1>6. CASE UNCHANGED <<dir_vars, data_vars>>
  BY <1>6 DEF FilesInv, dir_vars, data_vars
<1>7. QED
  BY <1>2, <1>3, <1>4, <1>5, <1>6 DEF Step, stat, open, lock_tainlog, readline,
     append_tainlog, flush_archive, setup_tainlog, Eof, Kill, stop

\* ... and every line that was written in one file.
LEMMA LinesStep ==
    ASSUME SharedInv, FilesInv, LinesInv, NEW l \in Loggers, Solo(l), Step(l)
    PROVE  LinesInv'
<1>1. /\ DirTypes /\ DataTypes /\ ThreadTypes /\ FlushTypes /\ LocalInv /\ GhostTypes
      /\ input \in Seq(Stamps) /\ created \in Nat
  BY TypeParts, BoundAssumption DEF SharedInv, DataTypes
<1>2. CASE readline(l)
  <2>1. UNCHANGED <<dir_vars, data_vars, ghost_vars>> /\ Len(input') = Len(input) + 1
    BY <1>1, <1>2 DEF readline
  <2>2. \A f : LinesOf(f)' = LinesOf(f)
    BY <2>1 DEF LinesOf, data_vars
  <2>3. Kept' = Kept
    BY <2>1, <2>2 DEF Kept, Reachable, dir_vars
  <2>4. written' \subseteq 1..Len(input')
    BY <1>1, <2>1 DEF LinesInv, ghost_vars
  <2>5. QED
    BY <2>1, <2>2, <2>3, <2>4 DEF LinesInv, ghost_vars
<1>3. CASE create(l)
  <2>1. UNCHANGED <<input, archive, size, content, ghost_vars>>
    BY <1>3 DEF create
  <2>2. \A f : LinesOf(f)' = LinesOf(f)
    BY <2>1 DEF LinesOf
  <2>3. Kept' = Kept
    <3>1. CASE UNCHANGED file_current
      BY <2>1, <2>2, <3>1 DEF Kept, Reachable
    <3>2. CASE ~UNCHANGED file_current
      <4>1. file_current = None /\ file_current' = created + 1 /\ created + 1 \in Files
        BY <1>3, <3>2 DEF create
      <4>2. LinesOf(None) = {} /\ LinesOf(created + 1) = {}
        <5>1. content[created + 1] = <<>>
          BY <1>1, <4>1 DEF FilesInv
        <5>2. QED
          BY <5>1 DEF LinesOf
      <4>3. QED
        BY <2>1, <2>2, <4>1, <4>2, KeptIs DEF Kept, Reachable
    <3>3. QED
      BY <3>1, <3>2
  <2>4. QED
    BY <2>1, <2>2, <2>3 DEF LinesInv, ghost_vars
<1>4. CASE close_tainlog(l)
  <2>1. UNCHANGED <<input, data_vars, written, flushed>>
    BY <1>4 DEF close_tainlog
  <2>2. \A f : LinesOf(f)' = LinesOf(f)
    BY <2>1 DEF LinesOf, data_vars
  <2>3. CASE UNCHANGED <<dir_vars, replaced>>
    <3>1. Kept' = Kept
      BY <2>2, <2>3 DEF Kept, Reachable, dir_vars
    <3>2. QED
      BY <2>1, <2>2, <2>3, <3>1 DEF LinesInv
  <2>4. CASE ~UNCHANGED <<dir_vars, replaced>>
    <3> DEFINE name == ArchiveName(l)
    <3>1. /\ file_current # None /\ file_current' = None
          /\ archive' = [archive EXCEPT ![name] = file_current]
          /\ replaced' = replaced \cup LinesOf(archive[name])
      BY <1>4, <2>4 DEF close_tainlog
    <3>2. name \in Stamps
      BY <1>1, <1>4, NameType DEF close_tainlog, Lined
    <3> HIDE DEF name
    <3>3. LinesOf(None) = {}
      BY DEF LinesOf
    <3>4. \A i : i \in Kept' <=> \/ i \in LinesOf(file_current)
                                 \/ \E s \in Stamps \ {name} : i \in LinesOf(archive[s])
      BY <1>1, <2>2, <3>1, <3>2, <3>3 DEF Kept, Reachable, DirTypes
    <3>5. \A s \in Stamps : archive[s] # None /\ s # name
                              => LinesOf(archive[s]) \cap LinesOf(archive[name]) = {}
      BY <1>1, <3>2, <3>3 DEF FilesInv, LinesInv, DirTypes
    <3>6. LinesOf(file_current) \cap LinesOf(archive[name]) = {}
      BY <1>1, <3>1, <3>2, <3>3 DEF FilesInv, LinesInv, DirTypes
    <3>7. \A i : i \in Kept' <=> i \in Kept /\ i \notin LinesOf(archive[name])
      BY <3>2, <3>3, <3>4, <3>5, <3>6, KeptIs
    <3>8. LinesOf(archive[name]) \subseteq written
      BY <1>1, <3>2, <3>3 DEF LinesInv, DirTypes
    <3>9. Kept' = written' \ (flushed' \cup replaced')
      BY <2>1, <3>1, <3>7 DEF LinesInv
    <3>10. QED
      BY <2>1, <2>2, <3>1, <3>8, <3>9 DEF LinesInv
  <2>5. QED
    BY <2>3, <2>4
<1>5. CASE flush_archive_remove(l)
  <2>1. UNCHANGED <<input, data_vars, written, replaced, file_current>>
    BY <1>5 DEF flush_archive_remove
  <2>2. \A f : LinesOf(f)' = LinesOf(f)
    BY <2>1 DEF LinesOf, data_vars
  <2>3. CASE UNCHANGED <<archive, flushed>>
    <3>1. Kept' = Kept
      BY <2>1, <2>2, <2>3 DEF Kept, Reachable
    <3>2. QED
      BY <2>1, <2>2, <2>3, <3>1 DEF LinesInv
  <2>4. CASE ~UNCHANGED <<archive, flushed>>
    <3> DEFINE name == oldest[l]
    <3>1. /\ archive[name] # None
          /\ archive' = [archive EXCEPT ![name] = None]
          /\ flushed' = flushed \cup LinesOf(archive[name])
      BY <1>5, <2>4 DEF flush_archive_remove
    <3>2. name \in Stamps
      BY <1>1, <1>5 DEF flush_archive_remove, FlushTypes, LocalInv, Local
    <3> HIDE DEF name
    <3>3. LinesOf(None) = {}
      BY DEF LinesOf
    <3>4. \A i : i \in Kept' <=> \/ i \in LinesOf(file_current)
                                 \/ \E s \in Stamps \ {name} : i \in LinesOf(archive[s])
      BY <1>1, <2>1, <2>2, <3>1, <3>2, <3>3 DEF Kept, Reachable, DirTypes
    <3>5. \A s \in Stamps : archive[s] # None /\ s # name
                              => LinesOf(archive[s]) \cap LinesOf(archive[name]) = {}
      BY <1>1, <3>2, <3>3 DEF FilesInv, LinesInv, DirTypes
    <3>6. LinesOf(file_current) \cap LinesOf(archive[name]) = {}
      BY <1>1, <3>1, <3>2, <3>3 DEF FilesInv, LinesInv, DirTypes
    <3>7. \A i : i \in Kept' <=> i \in Kept /\ i \notin LinesOf(archive[name])
      BY <3>2, <3>3, <3>4, <3>5, <3>6, KeptIs
    <3>8. LinesOf(archive[name]) \subseteq written
      BY <1>1, <3>2, <3>3 DEF LinesInv, DirTypes
    <3>9. Kept' = written' \ (flushed' \cup replaced')
      BY <2>1, <3>1, <3>7 DEF LinesInv
    <3>10. QED
      BY <2>1, <2>2, <3>1, <3>8, <3>9 DEF LinesInv
  <2>5. QED
    BY <2>3, <2>4
<1>6. CASE append_tainlog_write(l)
  <2>1. UNCHANGED <<input, dir_vars, flushed, replaced>>
    BY <1>6 DEF append_tainlog_write
  <2>2. pc[l] = "write" /\ line[l] # None
    BY <1>6 DEF append_tainlog_write, LocalInv, Local, SharedInv, Lined
  <2>3. CASE UNCHANGED <<content, written>>
    <3>1. \A f : LinesOf(f)' = LinesOf(f)
      BY <2>3 DEF LinesOf
    <3>2. Kept' = Kept
      BY <2>1, <3>1 DEF Kept, Reachable, dir_vars
    <3>3. QED
      BY <2>1, <2>3, <3>1, <3>2 DEF LinesInv
  <2>4. CASE ~UNCHANGED <<content, written>>
    <3>1. PICK n \in Nat : current[l] # None /\ write(l, n)
      BY <1>1, <1>6, <2>4, WriteCases DEF data_vars
    <3>2. /\ current[l] \in Files /\ line[l] \in Lines
          /\ content' = [content EXCEPT ![current[l]] = Append(content[current[l]], line[l])]
          /\ written' = written \cup {line[l]}
      BY <2>2, <2>4, <3>1, WriteAtEnd
    <3>3. PICK f \in Files : f = current[l]
      BY <3>2
    <3>4. /\ LinesOf(f)' = LinesOf(f) \cup {line[l]}
          /\ \A g \in Files \ {f} : LinesOf(g)' = LinesOf(g)
      <4>1. PICK i \in Lines : i = line[l]
        BY <3>2
      <4>2. content' = [content EXCEPT ![f] = Append(content[f], i)]
        BY <3>2, <3>3, <4>1
      <4>3. QED
        BY <1>1, <4>1, <4>2, LinesAppended
    <3>5. line[l] \in 1..Len(input) /\ line[l] \notin written
      BY <1>1, <2>2, NameType DEF Solo, Lined
    <3>6. file_current = f /\ file_current' = f /\ archive' = archive
      BY <2>1, <3>1, <3>3 DEF Solo, dir_vars
    <3>7. LinesOf(None)' = {} /\ LinesOf(None) = {}
      BY DEF LinesOf
    <3>8. \A s \in Stamps : LinesOf(archive[s])' = LinesOf(archive[s])
      <4>1. TAKE s \in Stamps
      <4>2. PICK g \in Files \cup {None} : g = archive[s]
        BY <1>1 DEF DirTypes
      <4>3. g # f
        BY <3>3, <3>6, <4>2, NoneType DEF FilesInv
      <4>4. LinesOf(g)' = LinesOf(g)
        BY <3>4, <3>7, <4>3
      <4>5. QED
        BY <3>6, <4>2, <4>4
    <3>9. \A i : i \in Kept' <=> i \in Kept \/ i = line[l]
      <4>1. LinesOf(file_current)' = LinesOf(file_current) \cup {line[l]}
        BY <3>4, <3>6
      <4>2. \A i : i \in Kept' <=> \/ i \in LinesOf(file_current)'
                                   \/ \E s \in Stamps : i \in LinesOf(archive[s])'
        BY <3>7 DEF Kept, Reachable
      <4>3. QED
        BY <3>8, <4>1, <4>2, KeptIs
    <3>10. Kept' = written' \ (flushed' \cup replaced')
      BY <2>1, <3>2, <3>5, <3>9 DEF LinesInv
    <3>11. /\ \A g \in Files : LinesOf(g)' \subseteq written'
           /\ \A g, h \in Files : g # h => LinesOf(g)' \cap LinesOf(h)' = {}
      BY <3>2, <3>4, <3>5 DEF LinesInv
    <3>12. QED
      BY <2>1, <3>2, <3>5, <3>10, <3>11 DEF LinesInv
  <2>5. QED
    BY <2>3, <2>4
<1>7. CASE UNCHANGED <<input, dir_vars, data_vars, ghost_vars>>
  <2>1. \A f : LinesOf(f)' = LinesOf(f)
    BY <1>7 DEF LinesOf, data_vars
  <2>2. Kept' = Kept
    BY <1>7, <2>1 DEF Kept, Reachable, dir_vars
  <2>3. QED
    BY <1>7, <2>1, <2>2 DEF LinesInv, ghost_vars
<1>8. QED
  BY <1>2, <1>3, <1>4, <1>5, <1>6, <1>7 DEF Step, stat, open, lock_tainlog,
     append_tainlog, flush_archive, setup_tainlog, Eof, Kill, stop

\* ... and what the logger knows.
LEMMA KnowsStep ==
    ASSUME SharedInv, FilesInv, LinesInv, NEW l \in Loggers, Solo(l), Step(l)
    PROVE  Solo(l)'
<1>1. /\ DirTypes /\ DataTypes /\ ThreadTypes /\ FlushTypes /\ FileTypes
      /\ input \in Seq(Stamps) /\ created \in Nat /\ Local(l)
  BY TypeParts, BoundAssumption DEF SharedInv, DataTypes, LocalInv
<1>2. /\ l \in DOMAIN pc /\ l \in DOMAIN line /\ l \in DOMAIN current /\ l \in DOMAIN current_size
      /\ l \in DOMAIN offset /\ l \in DOMAIN info /\ l \in DOMAIN oldest
  BY <1>1 DEF ThreadTypes, FileTypes, FlushTypes
<1> USE <1>1, <1>2 DEF goto
<1>3. CASE stat(l)
  <2>1. /\ UNCHANGED <<line, input, written, current, file_current, size>> /\ current[l] = None
        /\ current_size'[l] = 0
        /\ \/ pc'[l] = "create" /\ file_current = None
           \/ pc'[l] = "open" /\ file_current # None /\ info'[l] = size[file_current]
           \/ pc'[l] \in {"read", "write"}
    BY <1>3 DEF stat, opened, Local, Closed, dir_vars, data_vars, ghost_vars
  <2>2. QED
    BY <2>1 DEF Solo
<1>4. CASE create(l)
  <2>1. /\ UNCHANGED <<line, input, written, current_size, size>> /\ current[l] = None
        /\ current_size[l] = 0
        /\ \/ pc'[l] \in {"read", "write"} /\ UNCHANGED current
           \/ /\ pc'[l] = "lock" /\ current'[l] = created + 1 /\ file_current' = created + 1
              /\ created + 1 \in Files /\ offset'[l] = 0
    BY <1>4 DEF create, opened, Local, Closed, Solo, ghost_vars
  <2>2. created + 1 \in Files => size[created + 1] = 0
    BY DEF FilesInv
  <2>3. QED
    BY <2>1, <2>2 DEF Solo
<1>5. CASE open(l)
  <2>1. /\ UNCHANGED <<line, input, written, file_current, size>> /\ current[l] = None
        /\ info[l] = size[file_current]
        /\ \/ pc'[l] \in {"read", "write"} /\ UNCHANGED current
           \/ /\ pc'[l] = "lock" /\ current'[l] = file_current /\ current_size'[l] = info[l]
              /\ offset'[l] = Appending
    BY <1>5 DEF open, opened, Local, Closed, Solo, ghost_vars, dir_vars, data_vars,
       OpenOffset, KnownSize
  <2>2. QED
    BY <2>1 DEF Solo
<1>6. CASE lock_tainlog(l)
  <2>1. /\ UNCHANGED <<line, input, written, file_current, size, current_size>>
        /\ pc'[l] \in {"read", "write"}
        /\ UNCHANGED <<current, offset>> \/ current'[l] = None
    BY <1>6 DEF lock_tainlog, lock_failed, opened, ghost_vars, dir_vars, data_vars
  <2>2. QED
    BY <2>1 DEF Solo
<1>7. CASE readline(l)
  <2>1. /\ UNCHANGED <<written, file_current, size, current_size, current, offset>>
        /\ pc'[l] = "append"
        /\ line'[l] = Len(input) + 1 /\ Len(input') = Len(input) + 1
    BY <1>7 DEF readline, ghost_vars, dir_vars, data_vars, file_vars
  <2>2. Len(input) + 1 \notin written
    BY DEF LinesInv
  <2>3. QED
    BY <2>1, <2>2 DEF Solo
<1>8. CASE append_tainlog(l)
  <2>1. /\ UNCHANGED <<line, input, written, file_current, size, current_size>>
        /\ pc'[l] \in {"rename", "stat", "write"}
        /\ UNCHANGED <<current, offset>> \/ current'[l] = None
    BY <1>8 DEF append_tainlog, ghost_vars, dir_vars, data_vars
  <2>2. QED
    BY <2>1 DEF Solo
<1>9. CASE close_tainlog(l)
  <2>1. /\ UNCHANGED <<line, input, written, current>> /\ pc'[l] = "scan" /\ current[l] = None
    BY <1>9 DEF close_tainlog, file_vars, Local, Closed
  <2>2. QED
    BY <2>1 DEF Solo
<1>10. CASE flush_archive(l)
  <2>1. /\ UNCHANGED <<line, input, written, current, archive>> /\ current[l] = None
        /\ \/ pc'[l] = "stat"
           \/ /\ pc'[l] = "remove"
              /\ ~cut' => Archives # {} /\ oldest'[l] = Oldest(Archives)
    <3>1. /\ UNCHANGED <<line, input, written, current, archive>>
          /\ current[l] = None
      BY <1>10 DEF flush_archive, file_vars, Local, Closed, ghost_vars, dir_vars
    <3>2. QED
      BY <1>10, <3>1, FlushScan DEF goto
  <2>2. Archives' = Archives /\ Oldest(Archives)' = Oldest(Archives)
    BY <2>1 DEF Archives, Oldest, Min
  <2>3. QED
    BY <2>1, <2>2 DEF Solo
<1>11. CASE flush_archive_remove(l)
  <2>1. /\ UNCHANGED <<line, input, written, current>> /\ pc'[l] \in {"scan", "stat"}
        /\ current[l] = None
    BY <1>11 DEF flush_archive_remove, file_vars, Local, Closed
  <2>2. QED
    BY <2>1 DEF Solo
<1>12. CASE append_tainlog_write(l)
  <2>1. /\ line'[l] = None /\ pc'[l] \in {"idle", "read"} /\ UNCHANGED file_current
        /\ current'[l] = (IF flag_eof[l] THEN None ELSE current[l])
    BY <1>12 DEF append_tainlog_write, done, dir_vars
  <2>2. CASE current'[l] = None
    BY <2>1, <2>2 DEF Solo
  <2>3. CASE current'[l] # None
    <3>1. ~flag_eof[l] /\ current[l] # None /\ current'[l] = current[l]
      BY <2>1, <2>3
    <3>2. PICK n \in Nat : write(l, n)
      BY <1>12, <3>1, WriteCases
    <3>3. /\ current[l] \in Files /\ pc[l] = "write"
          /\ size' = [size EXCEPT ![current[l]] = size[current[l]] + n]
      BY <1>12, <3>1, <3>2, WriteAtEnd DEF append_tainlog_write
    <3>4. size'[current[l]] = size[current[l]] + n /\ size[current[l]] \in Nat
      BY <3>3 DEF DataTypes
    <3>5. /\ current_size'[l] = current_size[l] + n
          /\ offset'[l] = (IF offset[l] = Appending THEN Appending ELSE offset[l] + n)
      BY <3>1, <3>2 DEF write
    <3>6. QED
      BY <2>1, <3>1, <3>4, <3>5 DEF Solo
  <2>4. QED
    BY <2>2, <2>3
<1>13. CASE setup_tainlog(l)
  <2>1. /\ UNCHANGED <<line, input, written, current>> /\ pc'[l] = "stat" /\ current[l] = None
        /\ line[l] = None
    BY <1>13 DEF setup_tainlog, file_vars, Local, Closed, Unlined, ghost_vars
  <2>2. QED
    BY <2>1 DEF Solo
<1>14. CASE Eof(l) \/ Kill(l)
  BY <1>14 DEF Eof, Kill, stop, Solo
<1>15. QED
  BY <1>3, <1>4, <1>5, <1>6, <1>7, <1>8, <1>9, <1>10, <1>11, <1>12, <1>13, <1>14 DEF Step

\* A lone logger keeps its invariant, and a second one ends it.
LEMMA SoloStep ==
    ASSUME SharedInv, SoloInv, NEW l \in Loggers, Step(l)
    PROVE  SoloInv'
<1> SUFFICES ASSUME ~overlap'
             PROVE  (Lone /\ FilesInv /\ LinesInv /\ \A m \in Loggers : Solo(m))'
  BY DEF SoloInv
<1>1. ~overlap
  BY LoneStep
<1>2. FilesInv /\ LinesInv /\ Solo(l)
  BY <1>1 DEF SoloInv
<1>3. \A m \in Loggers : Solo(m)'
  BY <1>2, KnowsStep, LoneStep DEF Solo
<1>4. QED
  BY <1>2, <1>3, FilesStep, LinesStep, LoneStep

\* It is an invariant.
THEOREM SoloHolds == Spec => [](SharedInv /\ SoloInv)
<1>1. Init => SharedInv /\ SoloInv
  <2> SUFFICES ASSUME Init PROVE SoloInv
    BY SharedInit
  <2>1. Lone /\ FilesInv
    BY DEF Init, Lone, Running, FilesInv, None
  <2>2. \A f \in Files \cup {None} : LinesOf(f) = {}
    BY DEF Init, LinesOf
  <2>3. Kept = {}
    BY <2>2 DEF Init, Kept, Reachable
  <2>4. LinesInv
    BY <2>2, <2>3 DEF Init, LinesInv
  <2>5. \A l \in Loggers : Solo(l)
    BY DEF Init, Solo
  <2>6. QED
    BY <2>1, <2>4, <2>5 DEF SoloInv
<1>2. SharedInv /\ SoloInv /\ [Next]_vars => (SharedInv /\ SoloInv)'
  <2> SUFFICES ASSUME SharedInv, SoloInv, [Next]_vars PROVE (SharedInv /\ SoloInv)'
    OBVIOUS
  <2>1. CASE Next
    BY <2>1, SharedStep, SoloStep DEF Next
  <2>2. CASE UNCHANGED vars
    <3>1. SharedInv'
      BY <2>2 DEF vars, thread_vars, file_vars, flush_vars, dir_vars, data_vars, ghost_vars,
         past_vars, SharedInv, TypeOK, LocalInv, InputInv, Local, LockInv
    <3>2. SoloInv'
      <4>1. \A f : LinesOf(f)' = LinesOf(f)
        BY <2>2 DEF vars, data_vars, LinesOf
      <4>2. Kept' = Kept /\ Archives' = Archives /\ Oldest(Archives)' = Oldest(Archives)
        BY <2>2, <4>1 DEF vars, dir_vars, Kept, Reachable, Archives, Oldest, Min
      <4>3. QED
        BY <2>2, <4>1, <4>2 DEF vars, thread_vars, file_vars, flush_vars, dir_vars,
           data_vars, ghost_vars, past_vars, SoloInv, Lone, Running, FilesInv, LinesInv, Solo
    <3>3. QED
      BY <3>1, <3>2
  <2>3. QED
    BY <2>1, <2>2
<1>3. QED
  BY <1>1, <1>2, PTL DEF Spec

\* A logger that runs alone knows the size of its file, after any failed write,
\* failed rename or restart.
THEOREM SizeKnownHolds == Spec => []SizeKnown
<1>1. SharedInv /\ SoloInv => SizeKnown
  <2> SUFFICES ASSUME SharedInv, SoloInv, ~overlap, NEW l \in Loggers, locked[l]
               PROVE  current_size[l] = size[current[l]]
    BY DEF SizeKnown
  <2>1. current[l] # None
    BY DEF SharedInv, LocalInv, Local
  <2>2. QED
    BY <2>1 DEF SoloInv, Solo
<1>2. QED
  BY <1>1, SoloHolds, PTL

\* A line that was written leaves the directory only with an archive that was
\* removed to make room or replaced by one of the same stamp.
THEOREM NothingLostHolds == Spec => []NothingLost
<1>1. SharedInv /\ SoloInv => NothingLost
  BY DEF SoloInv, LinesInv, NothingLost
<1>2. QED
  BY <1>1, SoloHolds, PTL

-----------------------------------------------------------------------------
(* A logger that runs alone while the clock goes forward *)

\* Later lines have later stamps, and no archive has a name from the future.
StampInv ==
    /\ \A i, j \in 1..Len(input) : i <= j => input[i] <= input[j]
    /\ \A s \in Archives : input # <<>> /\ s <= input[Len(input)]

\* The lines of an archive come before its name, and before the lines of the
\* archives of later names and of FILE_CURRENT.
FileOrder ==
    /\ \A s \in Archives : \A i \in LinesOf(archive[s]) : input[i] <= s
    /\ \A s, t \in Archives : s < t =>
         \A j \in LinesOf(archive[t]) :
           input[j] >= s /\ \A i \in LinesOf(archive[s]) : i < j
    /\ \A s \in Archives : \A j \in LinesOf(file_current) :
         input[j] >= s /\ \A i \in LinesOf(archive[s]) : i < j

FlushOrder == ~cut => \A i \in flushed, j \in Kept : i < j

OrderInv == ~overlap /\ ~stepped => StampInv /\ FileOrder /\ FlushOrder

\* What a step that changes no file and no name leaves as it was.
LEMMA QuietFiles ==
    ASSUME UNCHANGED <<dir_vars, data_vars>>
    PROVE  /\ Archives' = Archives /\ Kept' = Kept
           /\ LinesOf(file_current)' = LinesOf(file_current)
           /\ \A s \in Stamps : LinesOf(archive[s])' = LinesOf(archive[s])
<1>1. \A f : LinesOf(f)' = LinesOf(f)
  BY DEF LinesOf, data_vars
<1>2. QED
  BY <1>1 DEF Archives, Kept, Reachable, dir_vars

\* Every line in a file, kept or flushed, was read.
LEMMA LinesRead ==
    ASSUME DirTypes, LinesInv
    PROVE  /\ LinesOf(file_current) \subseteq 1..Len(input)
           /\ \A s \in Stamps : LinesOf(archive[s]) \subseteq 1..Len(input)
           /\ Kept \subseteq 1..Len(input)
           /\ flushed \subseteq 1..Len(input)
<1>1. LinesOf(None) = {}
  BY DEF LinesOf
<1>2. LinesOf(file_current) \subseteq 1..Len(input)
  BY <1>1 DEF LinesInv, DirTypes
<1>3. \A s \in Stamps : LinesOf(archive[s]) \subseteq 1..Len(input)
  BY <1>1 DEF LinesInv, DirTypes
<1>4. QED
  BY <1>2, <1>3 DEF LinesInv

\* The stamp of a line is a number, and so are the names of archives.
LEMMA StampNat ==
    ASSUME input \in Seq(Stamps)
    PROVE  /\ Len(input) \in Nat
           /\ \A i \in 1..Len(input) : input[i] \in Nat /\ input[i] \in Stamps
           /\ \A s \in Stamps : s \in Nat
           /\ input # <<>> => Len(input) \in 1..Len(input)
  BY BoundAssumption DEF Stamps

\* A line that is read comes after all others.
LEMMA ReadOrder ==
    ASSUME SharedInv, LinesInv, StampInv, FileOrder, FlushOrder,
           NEW l \in Loggers, readline(l), ~stepped'
    PROVE  (StampInv /\ FileOrder /\ FlushOrder)'
<1>1. input \in Seq(Stamps) /\ DirTypes
  BY TypeParts DEF SharedInv
<1>2. PICK t \in Now : input' = Append(input, t)
  BY DEF readline
<1>3. /\ t \in Nat /\ Len(input') = Len(input) + 1 /\ input'[Len(input) + 1] = t
      /\ \A i \in 1..Len(input) : input'[i] = input[i]
      /\ input # <<>> => input[Len(input)] <= t
  <2>1. t \in Nat /\ (input # <<>> => input[Len(input)] <= t)
    BY <1>1, StampNat DEF Now, Last
  <2>2. QED
    BY <1>1, <1>2, <2>1
<1>4. UNCHANGED <<dir_vars, data_vars, ghost_vars>>
  BY DEF readline
<1>5. /\ Archives' = Archives /\ Kept' = Kept
      /\ LinesOf(file_current)' = LinesOf(file_current)
      /\ \A s \in Stamps : LinesOf(archive[s])' = LinesOf(archive[s])
  BY <1>4, QuietFiles
<1>6. \A i \in 1..Len(input) : input[i] <= t
  BY <1>1, <1>3, StampNat DEF StampInv
<1>7. StampInv'
  <2>1. \A i, j \in 1..Len(input') : i <= j => input'[i] <= input'[j]
    <3>1. SUFFICES ASSUME NEW i \in 1..Len(input'), NEW j \in 1..Len(input'), i <= j
                   PROVE  input'[i] <= input'[j]
      OBVIOUS
    <3>2. CASE j \in 1..Len(input)
      BY <1>1, <1>3, <3>1, <3>2, StampNat DEF StampInv
    <3>3. CASE j = Len(input) + 1
      BY <1>1, <1>3, <1>6, <3>1, <3>3, StampNat
    <3>4. QED
      BY <1>1, <1>3, <3>2, <3>3, StampNat
  <2>2. \A s \in Archives' : input' # <<>> /\ s <= input'[Len(input')]
    <3>1. TAKE s \in Archives'
    <3>2. s \in Archives /\ s \in Nat /\ input # <<>> /\ s <= input[Len(input)]
      BY <1>1, <1>5, StampNat DEF StampInv, Archives
    <3>3. QED
      BY <1>1, <1>2, <1>3, <3>2, StampNat
  <2>3. QED
    BY <2>1, <2>2 DEF StampInv
<1>8. FileOrder'
  <2>1. /\ \A i \in LinesOf(file_current) : input'[i] = input[i]
        /\ \A s \in Stamps : \A i \in LinesOf(archive[s]) : input'[i] = input[i]
    BY <1>1, <1>3, LinesRead
  <2>2. Archives \subseteq Stamps
    BY DEF Archives
  <2>3. QED
    BY <1>5, <2>1, <2>2 DEF FileOrder
<1>9. FlushOrder'
  BY <1>4, <1>5 DEF FlushOrder, ghost_vars, readline
<1>10. QED
  BY <1>7, <1>8, <1>9

\* A file that is archived gets the last name and had the last lines.
LEMMA CloseOrder ==
    ASSUME SharedInv, FilesInv, LinesInv, StampInv, FileOrder, FlushOrder,
           NEW l \in Loggers, Solo(l), close_tainlog(l)
    PROVE  (StampInv /\ FileOrder /\ FlushOrder)'
<1>1. input \in Seq(Stamps) /\ DirTypes /\ ThreadTypes /\ LocalInv
  BY TypeParts DEF SharedInv
<1>2. UNCHANGED <<input, data_vars, flushed, cut>>
  BY DEF close_tainlog, past_vars
<1>3. CASE UNCHANGED dir_vars
  BY <1>2, <1>3, QuietFiles DEF StampInv, FileOrder, FlushOrder, dir_vars, Archives
<1>4. CASE ~UNCHANGED dir_vars
  <2>1. PICK name \in Stamps :
          /\ name = input[Len(input)] /\ input # <<>>
          /\ file_current # None /\ file_current' = None
          /\ archive' = [archive EXCEPT ![name] = file_current]
    <3>1. line[l] = Len(input) /\ line[l] \in 1..Len(input) /\ ArchiveName(l) \in Stamps
      BY <1>1, NameType DEF close_tainlog, Lined, Solo, LocalInv, Local
    <3>2. QED
      BY <1>1, <1>4, <3>1 DEF close_tainlog, ArchiveName
  <2>2. \A f : LinesOf(f)' = LinesOf(f)
    BY <1>2 DEF LinesOf, data_vars
  <2>3. LinesOf(None) = {}
    BY DEF LinesOf
  <2>4. Archives' = Archives \cup {name}
    BY <1>1, <2>1 DEF Archives, DirTypes
  <2>5. /\ LinesOf(file_current)' = {}
        /\ LinesOf(archive[name])' = LinesOf(file_current)
        /\ \A s \in Stamps \ {name} : LinesOf(archive[s])' = LinesOf(archive[s])
    BY <1>1, <2>1, <2>2, <2>3 DEF DirTypes
  <2>6. \A s \in Archives : s \in Nat /\ s \in Stamps /\ s <= name
    BY <1>1, <2>1, StampNat DEF StampInv, Archives
  <2>7. StampInv'
    BY <1>1, <1>2, <2>1, <2>4, StampNat DEF StampInv
  <2>8. FileOrder'
    <3>1. \A s \in Archives' : \A i \in LinesOf(archive[s])' : input'[i] <= s
      <4>1. TAKE s \in Archives'
      <4>2. CASE s = name
        <5>1. \A i \in LinesOf(file_current) : i \in 1..Len(input) /\ input[i] <= name
          BY <1>1, <2>1, LinesRead, StampNat DEF StampInv
        <5>2. QED
          BY <1>2, <2>5, <4>2, <5>1
      <4>3. CASE s # name
        BY <1>2, <2>4, <2>5, <2>6, <4>3 DEF FileOrder
      <4>4. QED
        BY <4>2, <4>3
    <3>2. \A s, t \in Archives' : s < t =>
            \A j \in LinesOf(archive[t])' :
              input'[j] >= s /\ \A i \in LinesOf(archive[s])' : i < j
      <4>1. SUFFICES ASSUME NEW s \in Archives', NEW t \in Archives', s < t,
                            NEW j \in LinesOf(archive[t])'
                     PROVE  input'[j] >= s /\ \A i \in LinesOf(archive[s])' : i < j
        OBVIOUS
      <4>2. s # name /\ s \in Archives
        <5>1. name \in Nat
          BY <1>1, <2>1, StampNat
        <5>2. QED
          BY <2>4, <2>6, <4>1, <5>1
      <4>3. CASE t = name
        BY <1>2, <2>5, <2>6, <4>1, <4>2, <4>3 DEF FileOrder
      <4>4. CASE t # name
        BY <1>2, <2>4, <2>5, <2>6, <4>1, <4>2, <4>4 DEF FileOrder
      <4>5. QED
        BY <4>3, <4>4
    <3>3. QED
      BY <2>5, <3>1, <3>2 DEF FileOrder
  <2>9. FlushOrder'
    <3>1. Kept' \subseteq Kept
      <4>1. \A i \in Kept' : \E s \in Stamps : i \in LinesOf(archive[s])'
        BY <2>1, <2>2, <2>3 DEF Kept, Reachable
      <4>2. QED
        BY <2>1, <2>5, <4>1, KeptIs
    <3>2. QED
      BY <1>2, <3>1 DEF FlushOrder
  <2>10. QED
    BY <2>7, <2>8, <2>9
<1>5. QED
  BY <1>3, <1>4

\* The archive that is removed has the first lines of those that are kept.
LEMMA RemoveOrder ==
    ASSUME SharedInv, FilesInv, LinesInv, StampInv, FileOrder, FlushOrder,
           NEW l \in Loggers, Solo(l), flush_archive_remove(l)
    PROVE  (StampInv /\ FileOrder /\ FlushOrder)'
<1>1. input \in Seq(Stamps) /\ DirTypes
  BY TypeParts DEF SharedInv
<1>2. UNCHANGED <<input, data_vars, file_current, cut>>
  BY DEF flush_archive_remove, past_vars
<1>3. CASE UNCHANGED <<archive, flushed>>
  BY <1>2, <1>3, QuietFiles DEF StampInv, FileOrder, FlushOrder, dir_vars, Archives
<1>4. CASE ~UNCHANGED <<archive, flushed>>
  <2>1. PICK name \in Stamps :
          /\ name \in Archives /\ (~cut => \A s \in Archives : name <= s)
          /\ archive' = [archive EXCEPT ![name] = None]
          /\ flushed' = flushed \cup LinesOf(archive[name])
    <3>1. /\ archive[oldest[l]] # None
          /\ archive' = [archive EXCEPT ![oldest[l]] = None]
          /\ flushed' = flushed \cup LinesOf(archive[oldest[l]])
      BY <1>4 DEF flush_archive_remove
    <3>2. oldest[l] \in Stamps /\ oldest[l] \in Archives
      BY <3>1, TypeParts DEF flush_archive_remove, SharedInv, LocalInv, Local, FlushTypes,
         Archives
    <3>3. ~cut => \A s \in Archives : oldest[l] <= s
      BY SeenArchives DEF Solo, flush_archive_remove
    <3>4. QED
      BY <3>1, <3>2, <3>3
  <2>2. \A f : LinesOf(f)' = LinesOf(f)
    BY <1>2 DEF LinesOf, data_vars
  <2>3. Archives' = Archives \ {name}
    BY <1>1, <2>1 DEF Archives, DirTypes
  <2>4. /\ LinesOf(file_current)' = LinesOf(file_current)
        /\ \A s \in Stamps \ {name} : LinesOf(archive[s])' = LinesOf(archive[s])
    BY <1>1, <1>2, <2>1, <2>2 DEF DirTypes
  <2>5. Archives \subseteq Stamps
    BY DEF Archives
  <2>6. StampInv'
    BY <1>2, <2>3 DEF StampInv
  <2>7. FileOrder'
    BY <1>2, <2>3, <2>4, <2>5 DEF FileOrder
  <2>8. \A j \in Kept' : \/ j \in LinesOf(file_current)
                         \/ \E s \in Archives \ {name} : j \in LinesOf(archive[s])
    <3>1. LinesOf(None) = {}
      BY DEF LinesOf
    <3>2. TAKE j \in Kept'
    <3>3. \/ j \in LinesOf(file_current)
          \/ \E s \in Stamps : archive'[s] # None /\ j \in LinesOf(archive[s])
      BY <1>1, <1>2, <2>1, <2>2, <3>1 DEF Kept, Reachable, DirTypes
    <3>4. QED
      BY <1>1, <2>1, <3>3 DEF Archives, DirTypes
  <2>9. ~cut => \A i \in LinesOf(archive[name]), j \in Kept' : i < j
    <3>1. SUFFICES ASSUME ~cut, NEW i \in LinesOf(archive[name]), NEW j \in Kept'
                   PROVE  i < j
      OBVIOUS
    <3>2. CASE j \in LinesOf(file_current)
      BY <2>1, <3>2 DEF FileOrder
    <3>3. ASSUME NEW s \in Archives \ {name}, j \in LinesOf(archive[s]) PROVE i < j
      <4>1. name < s
        BY <1>1, <2>1, <2>5, <3>1, <3>3, StampNat
      <4>2. QED
        BY <2>1, <3>3, <4>1 DEF FileOrder
    <3>4. QED
      BY <2>8, <3>1, <3>2, <3>3
  <2>10. Kept' \subseteq Kept
    BY <2>5, <2>8, KeptIs
  <2>11. FlushOrder'
    BY <1>2, <2>1, <2>9, <2>10 DEF FlushOrder
  <2>12. QED
    BY <2>6, <2>7, <2>11
<1>5. QED
  BY <1>3, <1>4

\* A line that is written comes after all others.
LEMMA WriteOrder ==
    ASSUME SharedInv, FilesInv, LinesInv, StampInv, FileOrder, FlushOrder,
           NEW l \in Loggers, Solo(l), append_tainlog_write(l)
    PROVE  (StampInv /\ FileOrder /\ FlushOrder)'
<1>1. input \in Seq(Stamps) /\ DirTypes /\ DataTypes /\ ThreadTypes /\ LocalInv
  BY TypeParts DEF SharedInv
<1>2. UNCHANGED <<input, dir_vars, flushed, cut>>
  BY DEF append_tainlog_write, past_vars
<1>3. pc[l] = "write" /\ line[l] # None
  BY <1>1 DEF append_tainlog_write, LocalInv, Local, Lined
<1>4. StampInv' /\ Archives' = Archives
  BY <1>2 DEF StampInv, Archives, dir_vars
<1>5. CASE UNCHANGED content
  <2>1. \A f : LinesOf(f)' = LinesOf(f)
    BY <1>5 DEF LinesOf
  <2>2. Kept' = Kept
    BY <1>2, <2>1 DEF Kept, Reachable, dir_vars
  <2>3. QED
    BY <1>2, <1>4, <2>1, <2>2 DEF FileOrder, FlushOrder, dir_vars
<1>6. CASE ~UNCHANGED content
  <2>1. PICK n \in Nat : current[l] # None /\ write(l, n)
    BY <1>1, <1>6, WriteCases DEF data_vars
  <2>2. PICK f \in Files, i \in Lines :
          /\ f = current[l] /\ i = line[l]
          /\ content' = [content EXCEPT ![f] = Append(content[f], i)]
    BY <1>3, <1>6, <2>1, WriteAtEnd
  <2>3. /\ LinesOf(f)' = LinesOf(f) \cup {i}
        /\ \A g \in Files \ {f} : LinesOf(g)' = LinesOf(g)
    BY <1>1, <2>2, LinesAppended
  <2>4. i = Len(input) /\ i \in 1..Len(input) /\ i \notin written
    BY <1>1, <1>3, <2>2, NameType DEF Solo, Lined
  <2>5. file_current = f /\ file_current' = f /\ archive' = archive
    BY <1>2, <2>1, <2>2 DEF Solo, dir_vars
  <2>6. LinesOf(None)' = {} /\ LinesOf(None) = {}
    BY DEF LinesOf
  <2>7. \A s \in Stamps : LinesOf(archive[s])' = LinesOf(archive[s])
    <3>1. TAKE s \in Stamps
    <3>2. PICK g \in Files \cup {None} : g = archive[s]
      BY <1>1 DEF DirTypes
    <3>3. g # f
      BY <2>2, <2>5, <3>2, NoneType DEF FilesInv
    <3>4. LinesOf(g)' = LinesOf(g)
      BY <2>3, <2>6, <3>3
    <3>5. QED
      BY <2>5, <3>2, <3>4
  <2>8. LinesOf(file_current)' = LinesOf(file_current) \cup {i}
    BY <2>3, <2>5
  <2>9. \A s \in Archives : s \in Stamps /\ input[i] >= s
    BY <1>1, <2>4, StampNat DEF StampInv, Archives
  <2>10. /\ \A s \in Stamps : \A k \in LinesOf(archive[s]) : k < i
         /\ \A k \in flushed : k < i
    <3>1. \A k \in written : k < i
      BY <1>1, <2>4, StampNat DEF LinesInv
    <3>2. \A s \in Stamps : LinesOf(archive[s]) \subseteq written
      BY <1>1, <2>6 DEF LinesInv, DirTypes
    <3>3. QED
      BY <3>1, <3>2 DEF LinesInv
  <2>11. FileOrder'
    BY <1>2, <1>4, <2>7, <2>8, <2>9, <2>10 DEF FileOrder
  <2>12. \A j : j \in Kept' => j \in Kept \/ j = i
    <3>1. \A j : j \in Kept' <=> \/ j \in LinesOf(file_current)'
                                 \/ \E s \in Stamps : j \in LinesOf(archive[s])'
      BY <2>6 DEF Kept, Reachable
    <3>2. QED
      BY <2>7, <2>8, <3>1, KeptIs
  <2>13. FlushOrder'
    BY <1>2, <2>10, <2>12 DEF FlushOrder
  <2>14. QED
    BY <1>4, <2>11, <2>13
<1>7. QED
  BY <1>5, <1>6

\* A lone logger keeps the order of its files while the clock goes forward.
LEMMA OrderStep ==
    ASSUME SharedInv, SoloInv, OrderInv, NEW l \in Loggers, Step(l)
    PROVE  OrderInv'
<1> SUFFICES ASSUME ~overlap', ~stepped'
             PROVE  (StampInv /\ FileOrder /\ FlushOrder)'
  BY DEF OrderInv
<1>1. ~overlap
  BY LoneStep
<1>2. ~stepped
  BY DEF Step, stat, create, open, lock_tainlog, readline, append_tainlog, close_tainlog,
     flush_archive, flush_archive_remove, append_tainlog_write, setup_tainlog, Eof, Kill, stop,
     past_vars
<1>3. FilesInv /\ LinesInv /\ Solo(l) /\ StampInv /\ FileOrder /\ FlushOrder
  BY <1>1, <1>2 DEF SoloInv, OrderInv
<1>4. CASE create(l)
  <2>1. UNCHANGED <<input, archive, size, content, flushed, cut>>
    BY <1>4 DEF create, ghost_vars, past_vars
  <2>2. \A f : LinesOf(f)' = LinesOf(f)
    BY <2>1 DEF LinesOf
  <2>3. LinesOf(file_current)' \subseteq LinesOf(file_current)
    <3>1. CASE UNCHANGED file_current
      BY <2>2, <3>1
    <3>2. CASE ~UNCHANGED file_current
      <4>1. file_current' = created + 1 /\ created + 1 \in Files /\ created \in Nat
        BY <1>4, <3>2, TypeParts DEF create, SharedInv, DataTypes
      <4>2. content[created + 1] = <<>>
        BY <1>3, <4>1 DEF FilesInv
      <4>3. LinesOf(created + 1) = {}
        BY <4>2 DEF LinesOf
      <4>4. QED
        BY <2>2, <4>1, <4>3
    <3>3. QED
      BY <3>1, <3>2
  <2>4. Archives' = Archives /\ \A s \in Stamps : LinesOf(archive[s])' = LinesOf(archive[s])
    BY <2>1, <2>2 DEF Archives
  <2>5. Kept' \subseteq Kept
    <3>1. \A i \in Kept' : \/ i \in LinesOf(file_current)'
                           \/ \E s \in Stamps : i \in LinesOf(archive[s])'
      BY DEF Kept, Reachable
    <3>2. QED
      BY <2>3, <2>4, <3>1, KeptIs
  <2>6. QED
    BY <1>3, <2>1, <2>3, <2>4, <2>5 DEF StampInv, FileOrder, FlushOrder, Archives
<1>5. CASE UNCHANGED <<input, dir_vars, data_vars, ghost_vars>> /\ (cut => cut')
  BY <1>3, <1>5, QuietFiles DEF StampInv, FileOrder, FlushOrder, ghost_vars, Archives
<1>6. CASE flush_archive(l)
  <2>1. UNCHANGED <<input, dir_vars, data_vars, ghost_vars>>
    BY <1>6 DEF flush_archive
  <2>2. cut => cut'
    BY <1>6, FlushScan
  <2>3. QED
    BY <1>5, <2>1, <2>2
<1>7. CASE \/ stat(l) \/ open(l) \/ lock_tainlog(l) \/ append_tainlog(l)
           \/ setup_tainlog(l) \/ Eof(l) \/ Kill(l)
  <2>1. UNCHANGED <<input, dir_vars, data_vars, ghost_vars, cut>>
    BY <1>7 DEF stat, open, lock_tainlog, append_tainlog, setup_tainlog, Eof, Kill, stop,
       past_vars
  <2>2. QED
    BY <1>5, <2>1
<1>8. QED
  BY <1>3, <1>4, <1>6, <1>7, ReadOrder, CloseOrder, RemoveOrder, WriteOrder DEF Step

\* It is an invariant.
THEOREM OrderHolds == Spec => []OrderInv
<1>1. Init => OrderInv
  <2> SUFFICES ASSUME Init PROVE OrderInv
    OBVIOUS
  <2>1. Archives = {} /\ LinesOf(file_current) = {}
    BY DEF Init, Archives, LinesOf
  <2>2. StampInv /\ FileOrder /\ FlushOrder
    BY <2>1 DEF Init, StampInv, FileOrder, FlushOrder
  <2>3. QED
    BY <2>2 DEF OrderInv
<1>2. SharedInv /\ SoloInv /\ OrderInv /\ [Next]_vars => OrderInv'
  <2> SUFFICES ASSUME SharedInv, SoloInv, OrderInv, [Next]_vars PROVE OrderInv'
    OBVIOUS
  <2>1. CASE Next
    BY <2>1, OrderStep DEF Next
  <2>2. CASE UNCHANGED vars
    BY <2>2, QuietFiles DEF vars, ghost_vars, past_vars, OrderInv, StampInv, FileOrder,
       FlushOrder, Archives
  <2>3. QED
    BY <2>1, <2>2
<1>3. QED
  BY <1>1, <1>2, SoloHolds, PTL DEF Spec

\* What a reader relies on who skips the archives older than the last line seen:
\* names of archives part the lines by their stamps.
THEOREM ArchiveOrderHolds == Spec => []ArchiveOrder
<1>1. OrderInv => ArchiveOrder
  BY DEF OrderInv, FileOrder, ArchiveOrder
<1>2. QED
  BY <1>1, OrderHolds, PTL

\* The lines that are flushed are older than all that are kept, if every reading of
\* the directory that led to a removal came to its end.
THEOREM OldestFlushedHolds == Spec => []OldestFlushed
<1>1. OrderInv => OldestFlushed
  BY DEF OrderInv, FlushOrder, OldestFlushed
<1>2. QED
  BY <1>1, OrderHolds, PTL
=============================================================================
