----------------------------- MODULE ZSTDReader -----------------------------
(***************************************************************************)
(* ZSTDReader (zstd_reader.h, zstd_reader.cc): lines out of a compressed   *)
(* file.  The file is a sequence of units, each the code of a character or *)
(* of nothing ("header"), or not zstd data ("bad").  The decompressor is   *)
(* external: a call turns some of the units it is given into characters,   *)
(* in order, as many as it likes and the buffer holds; a call that fails   *)
(* takes no unit and gives no character.                                   *)
(***************************************************************************)
EXTENDS SequencesExt, ListOps

CONSTANTS Char,             \* what a line is made of, besides CR and LF
          Files,            \* sequences of units
          InBufCapacity, OutBufCapacity,
          CR, LF

ASSUME ReaderAssumption ==
    /\ InBufCapacity \in Nat \ {0} /\ OutBufCapacity \in Nat \ {0}
    /\ CR # LF /\ {CR, LF} \cap Char = {}
    /\ Files \subseteq Seq(Char \cup {CR, LF, "header", "bad"})

VARIABLES file, file_pos,           \* file_, and fread's place in it
          in_buf, out_buf,          \* what is between pos_ and size_ in each
          input_exhausted, line_number,
          call,                     \* the call in progress
          line, consumed_any,       \* locals of get_next_line
          returned, result          \* the lines returned (a skipped line
                                    \* as Skipped), and what the last call returned

buffers == <<file_pos, in_buf, out_buf, input_exhausted>>
locals == <<line, consumed_any>>
returns == <<returned, result>>
readerVars == <<file, buffers, line_number, call, locals, returns>>

Text == Char \cup {CR, LF}
Prefix(s, n) == SubSeq(s, 1, n)
From(s, n) == SubSeq(s, n, Len(s))
Skipped == <<"skipped">>
DropCR(s) == IF s # <<>> /\ Last(s) = CR THEN Prefix(s, Len(s) - 1) ELSE s

Idle == [op |-> "idle"]
Exited == [op |-> "exit"]
GetNextLine == [op |-> "get"]
ReachedFileEnd == [op |-> "end"]
GotoLine(n) == [op |-> "goto", target |-> n]

Fresh ==
    /\ file_pos = 0 /\ in_buf = <<>> /\ out_buf = <<>>
    /\ input_exhausted = FALSE

ReaderInit ==
    /\ file \in Files
    /\ Fresh /\ line_number = 0
    /\ call = Idle /\ line = <<>> /\ consumed_any = FALSE
    /\ returned = <<>> /\ result = "none"

(***************************************************************************)
(* The calls begin.                                                        *)
(***************************************************************************)
StartGet ==
    /\ call = Idle
    /\ call' = GetNextLine
    /\ line' = <<>> /\ consumed_any' = FALSE
    /\ UNCHANGED <<file, buffers, line_number, returns>>

StartEnd ==
    /\ call = Idle
    /\ call' = ReachedFileEnd
    /\ UNCHANGED <<file, buffers, line_number, locals, returns>>

\* goto_line: rewinds first if the target is behind, then skips lines.
StartGoto(n) ==
    /\ call = Idle
    /\ call' = GotoLine(n)
    /\ IF n < line_number
       THEN /\ file_pos' = 0 /\ in_buf' = <<>> /\ out_buf' = <<>>
            /\ input_exhausted' = FALSE
            /\ line_number' = 0 /\ returned' = <<>>
       ELSE UNCHANGED <<buffers, line_number, returned>>
    /\ line' = <<>> /\ consumed_any' = FALSE
    /\ UNCHANGED <<file, result>>

(***************************************************************************)
(* The calls end.  A line is complete: get_next_line returns it, goto_line *)
(* goes on to the next.                                                    *)
(***************************************************************************)
Complete(l) ==
    /\ line_number' = line_number + 1
    /\ line' = <<>> /\ consumed_any' = FALSE
    /\ IF call.op = "get"
       THEN call' = Idle /\ result' = "line" /\ returned' = Append(returned, l)
       ELSE UNCHANGED <<call, result>> /\ returned' = Append(returned, Skipped)

Return(r) == call' = Idle /\ result' = r /\ UNCHANGED <<line_number, locals, returned>>

\* Fault: goto_line goes on for one line too many.
PastTarget == call.op = "goto" /\ line = <<>> /\ ~ consumed_any /\ line_number > call.target

\* goto_line's loop condition, tested between lines.
AtTarget == call.op = "goto" /\ line = <<>> /\ ~ consumed_any /\ line_number >= call.target
GotoDone ==
    /\ AtTarget
    /\ Return("line")
    /\ UNCHANGED <<file, buffers>>

Scanning == call.op \in {"get", "goto"} /\ ~ AtTarget

(***************************************************************************)
(* get_next_line looks for a newline in out_buf_.                          *)
(***************************************************************************)
NewlineAt(i) == out_buf[i] = LF /\ \A k \in 1 .. i - 1 : out_buf[k] # LF

\* Fault: a CR that came with an earlier chunk than its newline stays.
EndLineOfChunk ==
    /\ Scanning
    /\ \E i \in 1 .. Len(out_buf) :
          /\ NewlineAt(i)
          /\ Complete(line \o DropCR(Prefix(out_buf, i - 1)))
          /\ out_buf' = From(out_buf, i + 1)
    /\ UNCHANGED <<file, file_pos, in_buf, input_exhausted>>

\* The line ends here, its CR dropped: from the chunk, or if the newline comes
\* first in the chunk, from what the chunks before it gave.
EndLine ==
    /\ Scanning
    /\ \E i \in 1 .. Len(out_buf) :
          /\ NewlineAt(i)
          /\ Complete(IF i = 1 THEN DropCR(line) ELSE line \o DropCR(Prefix(out_buf, i - 1)))
          /\ out_buf' = From(out_buf, i + 1)
    /\ UNCHANGED <<file, file_pos, in_buf, input_exhausted>>

\* No newline: the chunk is part of the line.
TakeChunk ==
    /\ Scanning
    /\ out_buf # <<>>
    /\ \A i \in 1 .. Len(out_buf) : out_buf[i] # LF
    /\ line' = IF call.op = "get" THEN line \o out_buf ELSE line
    /\ consumed_any' = TRUE
    /\ out_buf' = <<>>
    /\ UNCHANGED <<file, file_pos, in_buf, input_exhausted, line_number, call, returns>>

\* reached_file_end with characters at hand, or once decode_more gave some.
NotAtEnd ==
    /\ call.op = "end" /\ out_buf # <<>>
    /\ Return("more")
    /\ UNCHANGED <<file, buffers>>

(***************************************************************************)
(* decode_more, which runs while out_buf_ is empty.                        *)
(***************************************************************************)
Decoding == out_buf = <<>> /\ (Scanning \/ call.op = "end")

\* It returns false: what was gathered is a last line without a newline.
DecodeFailed ==
    IF call.op # "end" /\ consumed_any THEN Complete(DropCR(line))
    ELSE Return("eof")

\* Fault: the end of the file is not noticed.
RefillForever ==
    /\ Decoding /\ in_buf = <<>>
    /\ in_buf' = SubSeq(file, file_pos + 1, IF file_pos + InBufCapacity < Len(file)
                                            THEN file_pos + InBufCapacity ELSE Len(file))
    /\ file_pos' = file_pos + Len(in_buf')
    /\ UNCHANGED <<file, out_buf, input_exhausted, line_number, call, locals, returns>>

Refill ==
    /\ Decoding /\ in_buf = <<>>
    /\ IF input_exhausted
       THEN DecodeFailed /\ UNCHANGED <<file_pos, in_buf, input_exhausted>>
       ELSE LET size == IF Len(file) - file_pos < InBufCapacity
                        THEN Len(file) - file_pos ELSE InBufCapacity IN
            /\ in_buf' = SubSeq(file, file_pos + 1, file_pos + size)
            /\ file_pos' = file_pos + size
            /\ IF size = 0 THEN input_exhausted' = TRUE /\ DecodeFailed
               ELSE UNCHANGED <<input_exhausted, line_number, call, locals, returns>>
    /\ UNCHANGED <<file, out_buf>>

Decoded(units) == Kept(units, {i \in 1 .. Len(units) : units[i] \in Text})

\* ZSTD_decompressStream: some of the units, or an error at a bad one.
Decompress ==
    /\ Decoding
    /\ \E n \in 1 .. Len(in_buf) :
          /\ "bad" \notin {in_buf[i] : i \in 1 .. n}
          /\ Len(Decoded(Prefix(in_buf, n))) <= OutBufCapacity
          /\ out_buf' = Decoded(Prefix(in_buf, n))
          /\ in_buf' = From(in_buf, n + 1)
    /\ UNCHANGED <<file, file_pos, input_exhausted, line_number, call, locals, returns>>

\* fread fails: "File read error", and the program exits.
ReadError ==
    /\ Decoding
    /\ in_buf = <<>> /\ ~ input_exhausted
    /\ call' = Exited
    /\ UNCHANGED <<file, buffers, line_number, locals, returns>>

DecompressError ==
    /\ Decoding
    /\ in_buf # <<>> /\ in_buf[1] = "bad"
    /\ input_exhausted' = TRUE
    /\ UNCHANGED <<file, file_pos, in_buf, out_buf, line_number, call, locals, returns>>

\* The steps of a call that has begun.
Continue == GotoDone \/ EndLine \/ TakeChunk \/ NotAtEnd \/ Refill \/ Decompress

ReaderNext ==
    \/ StartGet \/ StartEnd \/ \E n \in 0 .. Len(file) : StartGoto(n)
    \/ Continue

DamagedNext == ReaderNext \/ DecompressError \/ ReadError

ReaderSpec == ReaderInit /\ [][ReaderNext]_readerVars /\ WF_readerVars(Continue)
DamagedSpec == ReaderInit /\ [][DamagedNext]_readerVars /\ WF_readerVars(Continue \/ DecompressError)

(***************************************************************************)
(* The lines of the file, however it is cut into chunks.                   *)
(***************************************************************************)
Contents == Decoded(file)

\* A line ends at each newline, and at the end if characters are left.
LineEnds ==
    {i \in 1 .. Len(Contents) : Contents[i] = LF}
        \cup (IF Contents # <<>> /\ Last(Contents) # LF THEN {Len(Contents) + 1} ELSE {})
LineCount == Cardinality(LineEnds)

EndOf(n) == CHOOSE e \in LineEnds : Cardinality({d \in LineEnds : d <= e}) = n
StartOf(n) == IF n = 1 THEN 1 ELSE EndOf(n - 1) + 1
LineOf(n) == DropCR(SubSeq(Contents, StartOf(n), EndOf(n) - 1))

(***************************************************************************)
(* Properties.                                                             *)
(***************************************************************************)
\* Every line comes out as it is in the file, in its place, wherever chunks end:
\* inside a line, between CR and LF, before a last line without a newline.
LinesAreTheFiles ==
    /\ line_number = Len(returned) /\ line_number <= LineCount
    /\ \A n \in 1 .. line_number : returned[n] \in {LineOf(n), Skipped}

\* "Returns the actual line reached": the target, or the last line.
GotoReaches ==
    [][call.op = "goto" /\ call' = Idle =>
          line_number' = IF call.target < LineCount THEN call.target ELSE LineCount]_readerVars

\* decode_more keeps going "until there are bytes or the input runs out": so
\* every call returns, or ends the program.
CallsReturn == call # Idle ~> call \in {Idle, Exited}
=============================================================================
