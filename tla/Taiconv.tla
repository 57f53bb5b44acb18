------------------------------ MODULE Taiconv ------------------------------
(***************************************************************************)
(* srvctl/src/taiconv.c: a filter that replaces the labels in a text by    *)
(* dates, at the beginning of each line or everywhere.  A file is mapped   *)
(* into memory and scanned; what cannot be mapped is read one character at *)
(* a time into a buffer that holds one label and one character more.       *)
(*                                                                         *)
(* A character is a digit, an "@", a newline or another one.  Output is a  *)
(* sequence of characters and dates: the format of a date is left out.     *)
(***************************************************************************)
EXTENDS Tai, SequencesExt, FiniteSetsExt

CONSTANTS
    Texts,          \* inputs
    Clock,          \* readings of the clock when tainlog stamps a line
    OutputFails     \* whether writing may fail

Newline == -2
Other   == -3
None    == -4   \* no clock was read

Character == Digit \cup {At, Newline, Other}
Plain(s)  == [i \in 1..Len(s) |-> [char |-> s[i]]]
Date(a)   == <<[date |-> a]>>

ASSUME TextAssumption ==
    /\ Texts \subseteq Seq(Character)
    /\ Clock \subseteq 0..AprLimit - 2
    /\ OutputFails \in BOOLEAN

VARIABLES
    text,       \* the input
    stamped,    \* the clock's reading when the input was stamped, or None
    arg_all,
    at,         \* open; mmap or read; done; or dead: of reading or of writing
    index,      \* characters looked at, or read
    start,      \* mmap: the first character not written yet
    inside,     \* mmap: a label may be going on
    line_start, \* read: at the beginning of a line
    textual,    \* read: the buffer
    out

mmap_vars    == <<start, inside>>
read_vars    == <<line_start, textual>>
taiconv_vars == <<text, stamped, arg_all, at, index, mmap_vars, read_vars, out>>

is_hex_nibble(c) == c \in Digit

TaiconvTypeOK ==
    /\ text \in Seq(Character) /\ stamped \in Clock \cup {None}
    /\ arg_all \in BOOLEAN
    /\ at \in {"open", "mmap", "read", "done", "unread", "unwritten"}
    /\ index \in 0..Len(text) /\ start \in 0..index
    /\ inside \in BOOLEAN /\ line_start \in BOOLEAN
    /\ textual \in Seq(Character) /\ Len(textual) <= NGIM_TAIN_FORMAT
    /\ out \in Seq([char: Character] \cup [date: Int])

\* A text, or the label of a line that tainlog has stamped.
TaiconvInit ==
    /\ \/ text \in Texts /\ stamped = None
       \/ stamped \in Clock /\ text = ngim_tain_format(ngim_tain_from_apr(stamped))
    /\ arg_all \in BOOLEAN
    /\ at = "open" /\ index = 0
    /\ start = 0 /\ inside = FALSE
    /\ line_start = TRUE /\ textual = <<>>
    /\ out = <<>>

-----------------------------------------------------------------------------
\* mutant: a short label is tried when a long one is not valid
convert_buffer_again(s) ==
    LET label == ngim_tain_unformat(s)
        short == ngim_tai_unformat(s)
    IN IF Len(s) >= NGIM_TAIN_FORMAT /\ ngim_tain_valid(label)
       THEN [date |-> Date(ngim_tain_to_apr(label)), unused |-> Len(s) - NGIM_TAIN_FORMAT]
       ELSE IF Len(s) >= NGIM_TAI_FORMAT /\ ngim_tai_valid(short)
       THEN [date |-> Date(ngim_tai_to_apr(short)), unused |-> Len(s) - NGIM_TAI_FORMAT]
       ELSE [date |-> <<>>, unused |-> 0]

\* The date of the label that s begins with, if there is one, and how much of s
\* is left.  A text as long as a long label is not tried as a short one.
convert_buffer(s) ==
    LET label == ngim_tain_unformat(s)
        short == ngim_tai_unformat(s)
    IN IF Len(s) >= NGIM_TAIN_FORMAT /\ ngim_tain_valid(label)
       THEN [date |-> Date(ngim_tain_to_apr(label)), unused |-> Len(s) - NGIM_TAIN_FORMAT]
       ELSE IF Len(s) \in NGIM_TAI_FORMAT..NGIM_TAIN_FORMAT - 1 /\ ngim_tai_valid(short)
       THEN [date |-> Date(ngim_tai_to_apr(short)), unused |-> Len(s) - NGIM_TAI_FORMAT]
       ELSE [date |-> <<>>, unused |-> 0]

Converts(s) == convert_buffer(s).date # <<>>
Unused(s)   == SubSeq(s, Len(s) - convert_buffer(s).unused + 1, Len(s))

\* s with the label at its beginning, if there is one, replaced.
Shown(s) == IF Converts(s) THEN convert_buffer(s).date \o Plain(Unused(s)) ELSE Plain(s)

\* Items are written and the program goes on, or dies in the middle.
flush(items, next) ==
    \/ out' = out \o items /\ at' = next
    \/ /\ OutputFails /\ items # <<>>
       /\ \E n \in 0..Len(items) - 1 : out' = out \o SubSeq(items, 1, n)
       /\ at' = "unwritten"

keep == UNCHANGED <<out, at>>

-----------------------------------------------------------------------------
(* convert_read *)

Next1 == text[index + 1]
read_one ==
    /\ at = "read" /\ index < Len(text) /\ index' = index + 1
    /\ UNCHANGED <<text, stamped, arg_all, mmap_vars>>

Fits_one_more == Len(textual) <= NGIM_TAIN_FORMAT   \* mutant: < is <=
Fits == Len(textual) < NGIM_TAIN_FORMAT

\* Everywhere: the label ends at a character that is no digit, which may begin
\* another one, or when there is no room for one more.
convert_read_all ==
    /\ read_one /\ arg_all /\ UNCHANGED line_start
    /\ LET c == Next1 IN
       \/ textual = <<>> /\ c = At /\ textual' = <<c>> /\ keep
       \/ textual = <<>> /\ c # At /\ flush(Plain(<<c>>), at) /\ UNCHANGED textual
       \/ /\ textual # <<>> /\ is_hex_nibble(c) /\ Fits
          /\ textual' = Append(textual, c) /\ keep
       \/ /\ textual # <<>> /\ c = At
          /\ flush(Shown(textual), at) /\ textual' = <<c>>
       \/ /\ textual # <<>> /\ c # At /\ ~(is_hex_nibble(c) /\ Fits)
          /\ flush(Shown(textual) \o Plain(<<c>>), at) /\ textual' = <<>>

\* At the beginning of lines.
convert_read_nrm ==
    /\ read_one /\ ~arg_all
    /\ LET c == Next1 IN
       \/ /\ line_start /\ c = At
          /\ line_start' = FALSE /\ textual' = <<c>> /\ keep
       \/ /\ ~(line_start /\ c = At) /\ textual # <<>> /\ is_hex_nibble(c) /\ Fits
          /\ textual' = Append(textual, c) /\ keep /\ UNCHANGED line_start
       \/ /\ ~(line_start /\ c = At) /\ textual # <<>> /\ ~(is_hex_nibble(c) /\ Fits)
          /\ flush(Shown(textual) \o Plain(<<c>>), at)
          /\ textual' = <<>> /\ line_start' = (c = Newline)
       \/ /\ ~(line_start /\ c = At) /\ textual = <<>>
          /\ flush(Plain(<<c>>), at)
          /\ line_start' = (c = Newline) /\ UNCHANGED textual

\* The end of the input, or a failure to read it: the buffer is written first.
convert_read_end ==
    /\ at = "read" /\ textual' = <<>>
    /\ \/ index = Len(text) /\ flush(Shown(textual), "done")
       \/ flush(Shown(textual), "unread")
    /\ UNCHANGED <<text, stamped, arg_all, index, mmap_vars, line_start>>

-----------------------------------------------------------------------------
(* convert_mmap *)

Pending == SubSeq(text, start + 1, index)

map_one ==
    /\ at = "mmap" /\ index < Len(text)
    /\ UNCHANGED <<text, stamped, arg_all, read_vars>>

\* mutant: the label that was converted is kept for output as it is, too
LabelEnd_start == start

\* Where the text goes on after the label at start.
LabelEnd == index - convert_buffer(Pending).unused

\* Everywhere: one turn of the loop; the character that ends a label is looked at
\* again.
convert_mmap_all ==
    /\ map_one /\ arg_all
    /\ LET c == Next1
           ends == ~is_hex_nibble(c) \/ index - start = NGIM_TAIN_FORMAT
       IN
       \/ /\ inside /\ ends
          /\ IF Converts(Pending)
             THEN flush(convert_buffer(Pending).date, at) /\ start' = LabelEnd
             ELSE keep /\ UNCHANGED start
          /\ inside' = FALSE /\ UNCHANGED index
       \/ inside /\ ~ends /\ index' = index + 1 /\ keep /\ UNCHANGED mmap_vars
       \/ /\ ~inside /\ c = At
          /\ flush(Plain(Pending), at)
          /\ start' = index /\ inside' = TRUE /\ index' = index + 1
       \/ ~inside /\ c # At /\ index' = index + 1 /\ keep /\ UNCHANGED mmap_vars

\* The inner loops of convert_mmap_nrm: to the end of a label that starts at i,
\* and behind the next newline.
StampEnd(i) ==
    Min({e \in i + 1..Len(text) :
           \/ e = Len(text) \/ ~is_hex_nibble(text[e + 1])
           \/ e - i > NGIM_TAIN_FORMAT})
NextLine(i) ==
    Min({Len(text)} \cup {e \in i + 1..Len(text) : text[e] = Newline})

\* At the beginning of lines: one turn of the loop, which is one line.  index is
\* at the beginning of a line.
convert_mmap_nrm ==
    /\ map_one /\ ~arg_all /\ UNCHANGED inside
    /\ \/ Next1 # At /\ index' = NextLine(index) /\ keep /\ UNCHANGED start
       \/ /\ Next1 = At
          /\ LET end   == StampEnd(index)
                 label == SubSeq(text, index + 1, end)
             IN /\ flush(Plain(Pending) \o convert_buffer(label).date, at)
                /\ start' = IF Converts(label) THEN end - convert_buffer(label).unused
                            ELSE index
                /\ index' = NextLine(end)

\* What is left when the whole text was looked at.
convert_mmap_end ==
    /\ at = "mmap" /\ index = Len(text)
    /\ flush(IF inside THEN Shown(Pending) ELSE Plain(Pending), "done")
    /\ start' = index
    /\ UNCHANGED <<text, stamped, arg_all, index, inside, read_vars>>

\* An empty file cannot be mapped, nor can a pipe.
convert_mmap ==
    /\ at = "open"
    /\ at' \in IF text = <<>> THEN {"read"} ELSE {"mmap", "read"}
    /\ UNCHANGED <<text, stamped, arg_all, index, mmap_vars, read_vars, out>>

Converted == at \in {"done", "unread", "unwritten"} /\ UNCHANGED taiconv_vars

TaiconvNext ==
    \/ convert_mmap
    \/ convert_mmap_all
    \/ convert_mmap_nrm
    \/ convert_mmap_end
    \/ convert_read_all
    \/ convert_read_nrm
    \/ convert_read_end
    \/ Converted

TaiconvSpec == TaiconvInit /\ [][TaiconvNext]_taiconv_vars

-----------------------------------------------------------------------------
(* Safety *)

\* The length of the label at i, 0 if there is none: an "@" and as many digits
\* as follow it, up to those of a long label, long enough and in range.
DigitsAt(s, i) ==
    Max({n \in 0..Len(s) - i : \A k \in i + 1..i + n : is_hex_nibble(s[k])})
LabelAt(s, i) ==
    LET rest == SubSeq(s, i, Len(s))
        n    == 1 + DigitsAt(s, i)
    IN IF s[i] # At THEN 0
       ELSE IF n >= NGIM_TAIN_FORMAT
       THEN IF ngim_tain_valid(ngim_tain_unformat(rest)) THEN NGIM_TAIN_FORMAT ELSE 0
       ELSE IF n >= NGIM_TAI_FORMAT /\ ngim_tai_valid(ngim_tai_unformat(rest))
       THEN NGIM_TAI_FORMAT ELSE 0
DateAt(s, i) ==
    LET rest == SubSeq(s, i, Len(s))
    IN Date(IF LabelAt(s, i) = NGIM_TAIN_FORMAT THEN ngim_tain_to_apr(ngim_tain_unformat(rest))
            ELSE ngim_tai_to_apr(ngim_tai_unformat(rest)))

\* What the output is to be, from the whole text.
Reference(s) ==
    LET from[i \in 1..Len(s) + 1] ==
          IF i > Len(s) THEN <<>>
          ELSE IF LabelAt(s, i) > 0 /\ (arg_all \/ i = 1 \/ s[i - 1] = Newline)
          THEN DateAt(s, i) \o from[i + LabelAt(s, i)]
          ELSE Plain(<<s[i]>>) \o from[i + 1]
    IN from[1]

\* Mapped or read, the same text gives the same output, with each label replaced
\* once and each other character there: labels next to each other, too long, cut
\* short by the end or out of range included.  A failure to read ends the text
\* where it happens (convert_read, convert_mmap).
OutputAsReference ==
    /\ at = "done" => out = Reference(text)
    /\ at = "unread" => out = Reference(SubSeq(text, 1, index))

\* Whatever fails, nothing is written that is not in the output of the whole text.
\* Only where both reading and writing fail may it be that of what was read, which
\* can end in the middle of a label, and so in another one.
OutputIsPrefix ==
    \/ at # "unread" /\ IsPrefix(out, Reference(text))
    \/ at \in {"unread", "unwritten"} /\ IsPrefix(out, Reference(SubSeq(text, 1, index)))

\* Stamps sort, as names of archives do, like the clock; and taiconv shows a
\* stamp as one microsecond after the clock's reading, since both conversions
\* round up (ngim_tain_from_apr, ngim_tain_to_apr): never before it, and across
\* the end of a second (tainlog.c, tai.c, taiconv.c together).
Text(a) == ngim_tain_format(ngim_tain_from_apr(a))
Sorts(s, t) == \E i \in 1..Len(s) : /\ s[i] < t[i]
                                    /\ \A k \in 1..i - 1 : s[k] = t[k]
StampsTold ==
    stamped # None =>
      /\ \A b \in Clock : b < stamped => Sorts(Text(b), text)
      /\ at = "done" => out = Date(stamped + 1)
=============================================================================
