-------------------------------- MODULE Texts --------------------------------
(***************************************************************************)
(* The lines of a text (text.c) and the way a written text takes to them   *)
(* (file.bpf.c).  A text is a sequence of characters.  Memory that the     *)
(* code reads without having written it is the character Stale.            *)
(***************************************************************************)
EXTENDS Integers, Sequences, SequencesExt, FiniteSets, FiniteSetsExt

CONSTANTS
  Char,   \* the characters, these among them:
  Newline, Nul,
  Eof,    \* EOF, stored as a character
  Stale,  \* unknown characters, any number of them
  Size    \* SYS_WRITE_BUFFER_SIZE, a power of two

\* Both readers begin a line with the first character and with each that follows
\* newlines; so only the first line can be empty.
Starts(text) ==
  {1} \cup {i \in 2..Len(text) : text[i] # Newline /\ text[i - 1] = Newline}

\* The text from position i up to the next character c.
UpTo(text, i, c) ==
  SubSeq(text, i, Min({j \in i..Len(text) : text[j] = c} \cup {Len(text) + 1}) - 1)

Lines[text \in Seq(Char)] ==
  LET starts == Starts(text) IN
  [n \in 1..Cardinality(starts) |->
     UpTo(text, CHOOSE i \in starts : Cardinality({j \in starts : j <= i}) = n, Newline)]

\* text_file_read_lines: where a line is ended by the end of the file, EOF is
\* stored where its terminator should be.
FileLines[text \in Seq(Char)] ==
  Lines[IF text # <<>> /\ Last(text) = Newline THEN text ELSE text \o <<Eof, Stale>>]

\* text_buffer_read_lines goes on until it meets a terminator, also behind the
\* memory of the text.
BufferLines[memory \in Seq(Char)] == Lines[UpTo(memory, 1, Nul)]

\* n characters of memory that begin with the text, or with what n of it are.
Over(text, n) == [i \in 1..n |-> IF i <= Len(text) THEN text[i] ELSE Stale]

\* text_buffer_init of a positive size: the terminator written at the end of the
\* memory is overwritten by the copy, and a size beyond the buffer of the record
\* is not noticed.  "after" is what is found behind the memory.
BufferInit(buffer, ret, after) ==
  BufferLines[Over(buffer, ret) \o <<after>>]

-----------------------------------------------------------------------------
(* From a write to its record *)

\* on_sys_enter_write reads a string of as many bytes as are written, masked by
\* the size of the buffer: its last byte becomes the terminator.
Entered(text, unread) ==
  LET n == Len(text) % Size IN
  Over(IF n = 0 THEN <<>>
       ELSE IF unread THEN [i \in 1..n |-> Nul]
       ELSE Append(SubSeq(text, 1, n - 1), Nul), Size)

\* Variant of Recorded for the mutation checks: the terminator is left behind.
RecordedShort(buffer, ret) ==
  Over(SubSeq(buffer, 1, IF ret > 1 THEN (ret - 1) % Size ELSE Size), Size)

\* on_sys_exit_write copies one byte more than were written, masked again, and
\* all of them when none were.
Recorded(buffer, ret) ==
  Over(SubSeq(buffer, 1, IF ret > 0 THEN (ret + 1) % Size ELSE Size), Size)
=============================================================================
