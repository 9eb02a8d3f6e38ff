----------------------------- MODULE InputStream -----------------------------
(***************************************************************************)
(* The memory input stream of input.c over the copy of a text that         *)
(* parser_set_bytes makes, and how a scan of that copy ends.  A position   *)
(* is an offset from mis->start.                                           *)
(***************************************************************************)
EXTENDS Utf8

VARIABLES
  source,    \* the copy as it was made: its bytes and the NUL behind them
  count,     \* mis->count
  bytes,     \* the copy as it is: strings are rewritten in place
  read,      \* mis->read
  string,    \* mis->string: where the bytes of the string begin
  write,     \* mis->write: where its next byte is written to
  mark,      \* mis->mark: from where bytes have not been moved to write
  phase,     \* where the scanners are: "done" at the end or on an error
  results    \* the tokens returned so far, the last one perhaps an error

stream == <<source, count, bytes, read, string, write, mark>>
pointers == <<string, write, mark>>

Here == bytes[read]

Min2(a, b) == IF a < b THEN a ELSE b

(* The copy of a text without its byte order mark.                         *)
Copied(text) ==
  LET skip == utf8_bom_bytes(text)
  IN [i \in 0..(Len(text) - skip) |-> IF i = Len(text) - skip THEN 0 ELSE text[skip + i + 1]]

parser_set_bytes(text) ==
  /\ source = Copied(text)
  /\ count = Len(text) - utf8_bom_bytes(text)
  /\ bytes = source
  /\ read = 0 /\ string = 0 /\ write = 0 /\ mark = 0

Value(type, value) == [type |-> type, value |-> value]
Error(code, at) == [type |-> "error", value |-> <<code, at>>]

(* throw_parse_error: the position of an error is the read position.       *)
throw_parse_error(code, at) ==
  /\ read' = at
  /\ phase' = "done" /\ results' = Append(results, Error(code, at))

Return(type, value) == phase' = "space" /\ results' = Append(results, Value(type, value))

(* mis_find: strchr ends at the first NUL: a byte behind it is never found,*)
(* and the scan goes on at the end of the text instead.                    *)
Finds(c, at) ==
  /\ at \in read..count /\ bytes[at] = c
  /\ \A i \in read..(at - 1) : bytes[i] \notin {0, c}

TextEnd == count
FindsNone(c) == \A at \in read..count : ~Finds(c, at)

(* mis_string_start                                                        *)
StringStart(at) == string' = at /\ write' = at /\ mark' = at

(* Mutant: the bytes since the last escape are not moved down.             *)
NothingMoved == bytes

(* mis_string_update: what has been read since the last escape is moved    *)
(* down to where the string is written, unless nothing has shrunk so far.  *)
Moved == IF mark = write THEN bytes
         ELSE [i \in 0..count |-> IF i \in write..(write + (read - mark) - 1)
                                  THEN bytes[i - write + mark] ELSE bytes[i]]
MovedTo == IF mark = write THEN read ELSE write + (read - mark)

(* Mutant: the next bytes to be moved begin at an escape, not behind it.   *)
RestartEarly(at) == mark' = read

mis_string_restart(at) == mark' = at

(* Bytes s written from offset at on.                                      *)
Put(b, at, s) ==
  [i \in 0..count |-> IF i \in at..(at + Len(s) - 1) THEN s[i - at + 1] ELSE b[i]]
=============================================================================
