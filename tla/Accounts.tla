------------------------------- MODULE Accounts -------------------------------
(***************************************************************************)
(* The account files (file.c, text.c, file.bpf.c).  The logger keeps the   *)
(* text that each of them last had, its baseline, and logs the difference  *)
(* when one is written or renamed into place.  Writes and renames of other *)
(* processes come through two rings: the record of a write has the text,   *)
(* for a rename the callback reads the file.                               *)
(*                                                                         *)
(* A file is read in two steps, open and size, then its text to the end,   *)
(* and other processes go on between them.  Where the code writes outside  *)
(* of its memory the logger may crash or find its memory as it was.        *)
(***************************************************************************)
EXTENDS Texts, Near

CONSTANTS
  Threads,     \* threads of other processes
  Paths,       \* the files that they write and rename to
  Chunks,      \* the texts that they write
  Replacements,\* the texts of files that they rename into place
  Beginnings,  \* what the files may be at first: functions on Paths
  NoText,      \* no file
  RingSize,    \* the capacity of each ring
  MaxFds,      \* the descriptors that the logger may open more
  MaxChanges   \* bound on the changes of a behaviour

ASSUME TextAssumption ==
  /\ {Newline, Nul, Eof, Stale} \subseteq Char
  /\ Chunks \cup Replacements \subseteq Seq(Char)
  /\ Beginnings \subseteq [Paths -> Seq(Char) \cup {NoText}]
  /\ NoText \notin Seq(Char)
  /\ Size \in Nat \ {0} /\ MaxFds \in Nat

VARIABLES
  file,      \* file[p]: the text of the file, or NoText
  doing,     \* doing[t]: the record that the call of thread t makes, if in one
  ring,      \* ring["write"] and ring["rename"]: the records, oldest first
  baseline,  \* baseline[k]: {the lines kept for an account file}, {} for NULL
  toRead,    \* the account files that users_groups_init has yet to read
  reading,   \* {the file that is being read}, or {}
  alive,     \* the logger has not crashed
  fdsLeft,   \* the descriptors that the logger may still open
  texts,     \* the number of texts allocated
  nchanges,  \* the number of changes
  past       \* what happened, for the properties

vars ==
  <<file, doing, ring, baseline, toRead, reading, alive, fdsLeft, texts, nchanges, past>>
logger == <<ring, baseline, toRead, alive, fdsLeft, texts>>

-----------------------------------------------------------------------------
(* Which files are account files: a path is a sequence of parts *)

\* The path of each account file with a baseline.
PathOf(k) ==
  CASE k = "passwd" -> <<"/etc/", "passwd">>
    [] k = "group" -> <<"/etc/", "group">>
    [] k = "doas" -> <<"/etc/", "doas.conf">>
    [] k = "sudoers" -> <<"/etc/", "sudoers">>

\* Those of them that are among the files of the model.
Kinds == {k \in {"passwd", "group", "doas", "sudoers"} : PathOf(k) \in Paths}

SudoersDir == <<"/etc/", "sudoers", ".d/">>

\* get_file_type, and is_file_with_buffer in the kernel.
FileType(path) ==
  IF \E k \in Kinds : path = PathOf(k) THEN CHOOSE k \in Kinds : path = PathOf(k)
  ELSE IF IsPrefix(SudoersDir, path) THEN "sudoers_dir" ELSE "other"

\* get_dentry_ranges_file_type: strcmp_dentry_ranges is content with a beginning.
RangesType(path) ==
  IF \E k \in Kinds : IsPrefix(PathOf(k), path)
  THEN CHOOSE k \in Kinds : IsPrefix(PathOf(k), path)
  ELSE IF IsPrefix(SudoersDir, path) THEN "sudoers_dir" ELSE "other"

\* The forms of the new name of a rename, as the callback finds them: "behind" is
\* an absolute name that it takes for a relative one (see AtCalls).
Forms == {"absolute", "relative", "behind"}

\* Variant of RenameType for the mutation checks: only absolute names are looked at.
RenameTypeAbsolute(path, form) ==
  IF form = "absolute" THEN FileType(path) ELSE "other"

\* What fprint_sys_rename takes a renamed file for.
RenameType(path, form) ==
  CASE form = "absolute" -> FileType(path)
    [] form = "relative" -> RangesType(path)
    [] form = "behind" -> "other"

-----------------------------------------------------------------------------
(* Texts that are read and compared *)

\* Two lines are compared up to their terminators; what unknown memory is equal to
\* is not known (diff_cmp).
SameLine(v, w) ==
  LET known == UpTo(v, 1, Nul) IN
  Stale \notin ToSet(known) /\ known = UpTo(w, 1, Nul)

\* The lines of two texts differ by so little that diff stays within its arrays, as
\* Diff shows (NearStaysInside); with more it may, or may not.
NearLines(old, new) ==
  Near(Len(old), Len(new),
       {p \in (1..Len(old)) \X (1..Len(new)) : SameLine(old[p[1]], new[p[2]])})

\* The account files that a file at path p may be taken for, if any.
MayBe(k, p) == IsPrefix(PathOf(k), p)

Init ==
  /\ file \in Beginnings
  /\ doing = [t \in Threads |-> {}]
  /\ ring = [r \in {"write", "rename"} |-> <<>>]
  /\ baseline = [k \in Kinds |-> {}]
  /\ toRead = Kinds /\ reading = {}
  /\ alive = TRUE
  /\ fdsLeft = MaxFds
  /\ texts = 0
  /\ nchanges = 0
  /\ past = [kept |-> [k \in Kinds |-> TRUE], missing |-> FALSE, unfit |-> FALSE,
             grown |-> FALSE, dropins |-> 0,
             versions |-> [k \in Kinds |->
               {FileLines[file[p]] : p \in {p \in Paths : MayBe(k, p) /\ file[p] # NoText}}]]

\* The file at path p is open, and its size is known.
Opened(type, p) ==
  [type |-> type, path |-> p, text |-> file[p], size |-> Len(file[p]), linked |-> TRUE]

\* text_file_read_lines reads to the end without a look at the size.
InSize(r) == Len(r.text) <= r.size

\* users_groups_init reads the files in this order.
Place(k) ==
  CASE k = "passwd" -> 1 [] k = "group" -> 2 [] k = "doas" -> 3 [] k = "sudoers" -> 4

\* text_filename_init for the next account file, after the programs are attached;
\* nothing looks at whether there is one.
OpenInitial ==
  \E k \in toRead :
    /\ alive /\ reading = {}
    /\ \A j \in toRead : Place(k) <= Place(j)
    /\ \/ /\ fdsLeft > 0 /\ file[PathOf(k)] # NoText
          /\ reading' = {Opened(k, PathOf(k))}
          /\ UNCHANGED <<toRead, past>>
       \/ /\ fdsLeft = 0 \/ file[PathOf(k)] = NoText
          /\ toRead' = toRead \ {k}
          /\ past' = [past EXCEPT !.missing = TRUE]
          /\ UNCHANGED reading
    /\ UNCHANGED <<file, doing, ring, baseline, alive, fdsLeft, texts, nchanges>>

ReadInitial ==
  \E r \in reading :
    /\ alive /\ r.type \in toRead
    /\ reading' = {} /\ toRead' = toRead \ {r.type}
    /\ baseline' = [baseline EXCEPT ![r.type] = {FileLines[r.text]}]
    /\ texts' = texts + 1
    /\ alive' \in IF InSize(r) THEN {TRUE} ELSE BOOLEAN
    /\ UNCHANGED <<file, doing, ring, fdsLeft, nchanges, past>>

-----------------------------------------------------------------------------
(* Other processes *)

\* The records of account file k that are on their way.
Outstanding(k) ==
  {r \in UNION ({doing[t] : t \in Threads} \cup {ToSet(ring[call]) : call \in DOMAIN ring}) :
     r.type = k}

\* Of these, the ones whose text is not that of the file.
Others(k) == {r \in Outstanding(k) : r.call = "write" \/ r.path # PathOf(k)}

\* The file at path p has a new text: "same" tells whether it is the same file, of
\* which a reader finds the text, or another one or none.  "kept" are the account
\* files whose baseline must follow them, which the properties are about.
Change(p, text, same, kept) ==
  LET open(r) == r.path = p /\ r.linked
      reread(r) == [r EXCEPT !.text = IF same THEN text ELSE @, !.linked = same]
  IN
  /\ nchanges < MaxChanges
  /\ nchanges' = nchanges + 1
  /\ file' = [file EXCEPT ![p] = text]
  /\ reading' = {IF open(r) THEN reread(r) ELSE r : r \in reading}
  /\ past' = [past EXCEPT !.kept = kept,
                          !.grown = @ \/ \E r \in reading' : ~InSize(r),
                          !.versions = [k \in Kinds |->
                            IF MayBe(k, p) /\ text # NoText
                            THEN @[k] \cup {FileLines[text]} ELSE @[k]]]

\* Open with O_TRUNC, or unlink: no record is made of the text.
Empty(p, text) ==
  /\ file[p] \notin {NoText, text}
  /\ Change(p, text, text # NoText, [k \in Kinds |-> past.kept[k] /\ PathOf(k) # p])
  /\ UNCHANGED <<doing, logger>>

\* A write that the log can follow: all of the file in one piece, without a
\* terminator and ended by a newline, with room for the terminator in the buffer
\* and while nothing else is on its way.
Followed(p, text, ret, unread) ==
  /\ file[p] = <<>> /\ ret = Len(text) /\ ~unread
  /\ text # <<>> /\ Last(text) = Newline /\ Len(text) <= Size - 2
  /\ Nul \notin ToSet(text)
  /\ Outstanding(FileType(p)) = {}

\* write, from on_sys_enter_write until its exit: "ret" bytes of the text are
\* written to the end of the file, or it fails.
Write(t, p, text, ret, unread) ==
  LET type == FileType(p) IN
  /\ doing[t] = {} /\ file[p] # NoText
  /\ Change(p, file[p] \o SubSeq(text, 1, ret), TRUE,
            [k \in Kinds |-> IF k = type /\ ret # -1 THEN Followed(p, text, ret, unread)
                             ELSE past.kept[k]])
  /\ doing' = [doing EXCEPT ![t] =
       {[call |-> "write", type |-> type, ret |-> ret,
         buffer |-> IF type = "other" THEN <<>> ELSE Entered(text, unread)]}]
  /\ UNCHANGED logger

\* rename, until its exit: a file with the text becomes the one at path p.
Rename(t, p, form, text) ==
  LET type == RenameType(p, form) IN
  /\ doing[t] = {}
  /\ Change(p, text, FALSE,
       [k \in Kinds |->
          IF PathOf(k) = p THEN form # "behind" /\ Others(k) = {}
          ELSE past.kept[k] /\ type # k])
  /\ doing' = [doing EXCEPT ![t] =
       {[call |-> "rename", type |-> type, path |-> p, form |-> form]}]
  /\ UNCHANGED logger

\* The callback only prints the records of other files and of renames that failed.
Noted(r) == r.type # "other"

\* A write whose text ends in the buffer of its record, and in the memory that
\* text_buffer_init takes for it.
Fits(r) == r.ret \in 1..Size /\ Nul \in ToSet(Over(r.buffer, r.ret))

\* The lines of the text of a record, whatever is found behind the memory.
RecordLines(r) == {BufferInit(r.buffer, r.ret, after) : after \in {Nul, Stale}}

\* on_sys_exit_write, on_sys_exit_rename: there may be no room for a record, which
\* those of other files take too.
Exit(t) ==
  \E r \in doing[t], room \in BOOLEAN :
    LET noted == IF r.call = "write" /\ Noted(r)
                 THEN [r EXCEPT !.buffer = Recorded(@, r.ret)] ELSE r
        text(k) == r.call = "write" /\ r.type = k /\ Fits(noted)
    IN
    /\ room => Len(ring[r.call]) < RingSize
    /\ doing' = [doing EXCEPT ![t] = {}]
    /\ ring' = [ring EXCEPT ![r.call] = IF room /\ Noted(r) THEN Append(@, noted) ELSE @]
    /\ past' = [past EXCEPT
         !.kept = [k \in Kinds |-> @[k] /\ (room \/ r.type # k)],
         !.unfit = @ \/ (r.call = "write" /\ Noted(r) /\ ~Fits(noted)),
         !.versions = [k \in Kinds |->
           IF text(k) THEN @[k] \cup RecordLines(noted) ELSE @[k]]]
    /\ UNCHANGED <<file, baseline, toRead, reading, alive, fdsLeft, texts, nchanges>>

-----------------------------------------------------------------------------
(* The callbacks *)

\* fprint_diff_files crashes without a baseline.  It may where the new text is not
\* "intact", because something was written outside of it, or diff leaves its arrays.
Compare(k, lines, intact) ==
  alive' \in IF k # "sudoers_dir" /\ baseline[k] = {} THEN {FALSE}
             ELSE IF intact /\ (k # "sudoers_dir" => \A old \in baseline[k] : NearLines(old, lines))
             THEN {TRUE} ELSE BOOLEAN

DropIn(k) == past' = [past EXCEPT !.dropins = @ + (IF k = "sudoers_dir" THEN 1 ELSE 0)]

\* Variant of Replace for the mutation checks: the old text is not deleted.
ReplaceKept(k, lines, intact) ==
  /\ Compare(k, lines, intact) /\ DropIn(k)
  /\ texts' = texts + 1
  /\ IF k = "sudoers_dir" THEN UNCHANGED baseline
     ELSE baseline' = [baseline EXCEPT ![k] = {lines}]

\* Another: the new text does not take the place of the old one.
ReplaceLost(k, lines, intact) ==
  /\ Compare(k, lines, intact) /\ DropIn(k)
  /\ IF k = "sudoers_dir" THEN UNCHANGED baseline
     ELSE baseline' = [baseline EXCEPT ![k] = {}]
  /\ texts' = texts + 1

\* fprint_diff_files with a text: it is compared with the baseline and takes its
\* place, the old text is deleted.  The text of a file in sudoers.d is forgotten.
Replace(k, lines, intact) ==
  /\ Compare(k, lines, intact) /\ DropIn(k)
  /\ IF k = "sudoers_dir"
     THEN texts' = texts + 1 /\ UNCHANGED baseline
     ELSE baseline' = [baseline EXCEPT ![k] = {lines}] /\ UNCHANGED texts

\* The callbacks run one after the other, once the rings are polled.
Running == toRead = {} /\ alive

Take(call) == ring' = [ring EXCEPT ![call] = Tail(@)]

\* fprint_sys_write.  A failed write makes the size of the text negative, an empty
\* one makes it write before its memory, and of one that is longer than the buffer
\* it reads what is behind the record.
ProcessWrite ==
  /\ Running /\ reading = {} /\ ring["write"] # <<>>
  /\ Take("write")
  /\ UNCHANGED <<file, doing, toRead, reading, fdsLeft, nchanges>>
  /\ LET r == Head(ring["write"]) IN
     \/ r.ret > 0 /\ \E lines \in RecordLines(r) : Replace(r.type, lines, Fits(r))
     \/ r.ret = 0 /\ Replace(r.type, << <<Stale>> >>, FALSE)
     \/ r.ret < 0 /\ alive' = FALSE /\ UNCHANGED <<baseline, texts, past>>

\* The descriptors left while the log file is open, which it is if it can be.
Spare == IF fdsLeft = 0 THEN 0 ELSE fdsLeft - 1

\* fprint_sys_rename and text_dir_filename_init: a relative name costs two
\* descriptors, of which that of the directory is never closed.  A file that cannot
\* be opened is passed over.
OpenRenamed ==
  /\ Running /\ reading = {} /\ ring["rename"] # <<>>
  /\ LET r == Head(ring["rename"])
         need == IF r.form = "relative" THEN 2 ELSE 1
         opens == Spare >= need /\ file[r.path] # NoText
     IN /\ fdsLeft' = IF r.form = "relative" /\ Spare > 0 THEN fdsLeft - 1 ELSE fdsLeft
        /\ \/ opens /\ reading' = {Opened(r.type, r.path)} /\ UNCHANGED ring
           \/ ~opens /\ Take("rename") /\ UNCHANGED reading
  /\ UNCHANGED <<file, doing, baseline, toRead, alive, texts, nchanges, past>>

\* The rest of them: the text is read and compared, and the record is done with.
ReadRenamed ==
  \E r \in reading :
    /\ Running
    /\ Take("rename") /\ reading' = {}
    /\ Replace(r.type, FileLines[r.text], InSize(r))
    /\ UNCHANGED <<file, doing, toRead, fdsLeft, nchanges>>

Next ==
  \/ OpenInitial \/ ReadInitial
  \/ \E p \in Paths, text \in {NoText, <<>>} : Empty(p, text)
  \/ \E t \in Threads, p \in Paths, text \in Chunks, unread \in BOOLEAN :
       \E ret \in {-1, Len(text) - 1, Len(text)} \cap (-1)..Len(text) :
         Write(t, p, text, ret, unread)
  \/ \E t \in Threads, p \in Paths, form \in Forms, text \in Replacements :
       Rename(t, p, form, text)
  \/ \E t \in Threads : Exit(t)
  \/ ProcessWrite \/ OpenRenamed \/ ReadRenamed

\* The logger polls its rings as long as it runs, and a call that has done its
\* work exits.
Fairness ==
  /\ WF_vars(OpenInitial \/ ReadInitial)
  /\ WF_vars(ProcessWrite \/ OpenRenamed \/ ReadRenamed)
  /\ \A t \in Threads : WF_vars(Exit(t))

Spec == Init /\ [][Next]_vars /\ Fairness

-----------------------------------------------------------------------------
(* Properties *)

\* The baseline of k is the text of its file.
Current(k) ==
  LET text == file[PathOf(k)] IN
  baseline[k] = IF text = NoText THEN {} ELSE {FileLines[text]}

\* Once its records are processed the baseline of a file is the text the file
\* has, if the last change was one that the log can follow: a rename, or a whole
\* text in one write, neither lost nor overtaken.  So one such change mends what
\* any changes before it did to the baseline.  A failed read of the file, for
\* want of descriptors, is excepted.
Follows ==
  \A k \in Kinds :
    /\ Running /\ fdsLeft >= 2
    /\ past.kept[k] /\ Outstanding(k) = {}
    => Current(k)

\* The logger crashes only where an account file could not be read at its start, a
\* write to one failed, wrote nothing or has a text that does not end in its record,
\* a file grew while the logger read it, or of the texts that an account file had,
\* or that were written to it, two differ so much that diff may leave its arrays.
CrashExplained ==
  ~alive => \/ past.missing \/ past.unfit \/ past.grown
            \/ \E k \in Kinds : \E v, w \in past.versions[k] : ~NearLines(v, w)

\* The texts allocated are the baselines and, never freed, one for each change
\* in sudoers.d.
NoOtherTexts ==
  alive => texts = Cardinality({k \in Kinds : baseline[k] # {}}) + past.dropins

\* The log catches up: when the changes have stopped, the baselines of the files
\* whose last change it can follow become their texts and stay so.
CatchesUp ==
  <>[](alive /\ fdsLeft >= 2 =>
         toRead = {} /\ \A k \in Kinds : past.kept[k] => Current(k))
=============================================================================
