---------------------------- MODULE RecordParser ----------------------------
(***************************************************************************)
(* RecordParser (record_parser.h, record_parser.cc): parse_next_record     *)
(* takes lines from its ZSTDReader until one parses, into a Record that    *)
(* the simulators use for the whole trace.  A line that is one character   *)
(* has the contents Contents gives for it; any other is no record.  The    *)
(* reader's operations may also be called between two records.             *)
(***************************************************************************)
EXTENDS ZSTDReader

\* What a line may hold.  Its first field, whether it has the fields and the
\* numbers it must have before the list of items, the length it declares for
\* that list, and the list; an item is a probe of a Get line or a block of an
\* Iterator line, with the blocks in it, and may lack fields.  Of a file event:
\* what happened, the entry count, and whether there are fields for the keys.
CONSTANT ContentsOf

Item == [whole : BOOLEAN, blocks : Seq({"index", "filter", "data", "other"})]
Line == [tag : {"G", "A", "F", "other"},
         enough : BOOLEAN, numbers : BOOLEAN, item_numbers : BOOLEAN,
         declared : Nat, items : Seq(Item),
         event : {"create", "delete", "move", "other"}, entry_count : Nat, keys : BOOLEAN]

ASSUME ParserAssumption == ContentsOf \in [Char -> Line]

VARIABLES record,       \* *out_record
          parser        \* where parse_next_record is, and the line it began at

parserVars == <<readerVars, record, parser>>

\* A new Record; of a parsed one, line stands for the numbers it took from it.
Blank == [type |-> "undefined", line |-> <<>>, touched_files |-> 0, probes |-> <<>>,
          touched_blocks |-> 0, blocks |-> <<>>, keys |-> FALSE, entry_count |-> 0]

Stage(where, from) == [at |-> where, from |-> from]

ParserInit == ReaderInit /\ record = Blank /\ parser = Stage("idle", 0)

(***************************************************************************)
(* parse_record: whether the line is a record, and what is in out_record   *)
(* then; a line that fails half way leaves what was parsed of it.          *)
(***************************************************************************)
\* Fault: the vectors are not cleared.
ResetNumbers(r) == [Blank EXCEPT !.entry_count = r.entry_count,
                                 !.probes = r.probes, !.blocks = r.blocks]
\* reset does not clear entry_count (nor file_size).
Reset(r) == [Blank EXCEPT !.entry_count = r.entry_count]

\* The items up to the first that lacks fields; blocks of it are taken, too.
TakenItems(items) ==
    LET cut == SelectInSeq(items, LAMBDA i : ~ i.whole) IN
    IF cut = 0 THEN items ELSE Prefix(items, cut)
BlocksIn(items) == FlattenSeq([i \in 1 .. Len(items) |-> items[i].blocks])
WholeOf(items) == SelectSeq(items, LAMBDA i : i.whole)
AllWhole(items) == \A i \in 1 .. Len(items) : items[i].whole

NoRecord(r) == [ok |-> FALSE, record |-> r]

\* The numbers before the list, and the list if it has the length declared.
ListParsed(r, c, head, listed) ==
    IF ~ c.enough THEN NoRecord(r)
    ELSE IF ~ c.numbers THEN NoRecord(head)
    ELSE IF c.declared = 0 THEN [ok |-> c.items = <<>>, record |-> head]
    ELSE IF Len(c.items) # c.declared THEN NoRecord(head)
    ELSE [ok |-> AllWhole(c.items) /\ c.item_numbers, record |-> listed]

parse_get(r, l, c) ==
    LET head == [r EXCEPT !.type = "get", !.line = l, !.touched_files = c.declared]
        taken == TakenItems(c.items)
    IN  ListParsed(r, c, head,
            [head EXCEPT !.probes = @ \o WholeOf(taken),
                         !.blocks = @ \o BlocksIn(taken),
                         !.touched_blocks = Len(BlocksIn(taken))])

parse_iterator(r, l, c) ==
    LET head == [r EXCEPT !.type = "iterator", !.line = l, !.touched_blocks = c.declared]
    IN  ListParsed(r, c, head, [head EXCEPT !.blocks = @ \o BlocksIn(TakenItems(c.items))])

parse_file_event(r, l, c) ==
    LET filled == [r EXCEPT !.line = l, !.entry_count = c.entry_count,
                            !.keys = c.event = "create" /\ c.keys]
    IN  IF ~ c.enough THEN NoRecord(r)
        ELSE IF ~ c.numbers \/ c.event = "other" THEN NoRecord(filled)
        ELSE [ok |-> TRUE, record |-> [filled EXCEPT !.type = c.event]]

IsShort(l) == Len(l) = 1 /\ l[1] \in Char

parse_record(before, l) ==
    LET r == Reset(before) IN
    IF ~ IsShort(l) THEN NoRecord(r)
    ELSE LET c == ContentsOf[l[1]] IN
         CASE c.tag = "G" -> parse_get(r, l, c)
           [] c.tag = "A" -> parse_iterator(r, l, c)
           [] c.tag = "F" -> parse_file_event(r, l, c)
           [] OTHER -> NoRecord(r)

(***************************************************************************)
(* parse_next_record.                                                      *)
(***************************************************************************)
Quiet == parser.at \in {"idle", "record", "none"}

StartParse ==
    /\ Quiet
    /\ StartEnd
    /\ parser' = Stage("reached_file_end", line_number)
    /\ UNCHANGED record

\* reached_file_end has returned.
TakeLine ==
    /\ parser.at = "reached_file_end" /\ result = "more"
    /\ StartGet
    /\ parser' = Stage("get_next_line", parser.from)
    /\ UNCHANGED record

NoneLeft ==
    /\ parser.at = "reached_file_end" /\ call = Idle /\ result # "more"
    /\ parser' = Stage("none", parser.from)
    /\ UNCHANGED <<readerVars, record>>

\* get_next_line has returned; what it returned is not looked at.
ParseLine ==
    /\ parser.at = "get_next_line" /\ call = Idle
    /\ LET parsed == parse_record(record, Last(returned)) IN
       /\ record' = parsed.record
       /\ IF parsed.ok
          THEN parser' = Stage("record", parser.from) /\ UNCHANGED readerVars
          ELSE StartEnd /\ parser' = Stage("reached_file_end", parser.from)

Direct ==
    /\ Quiet
    /\ StartGet \/ StartEnd \/ \E n \in 0 .. Len(file) : StartGoto(n)
    /\ parser' = Stage("idle", 0)
    /\ UNCHANGED record

ParserContinue ==
    \/ Continue /\ UNCHANGED <<record, parser>>
    \/ TakeLine \/ NoneLeft \/ ParseLine

ParserNext == StartParse \/ Direct \/ ParserContinue

ParserSpec == ParserInit /\ [][ParserNext]_parserVars /\ WF_parserVars(ParserContinue)

(***************************************************************************)
(* Properties.                                                             *)
(***************************************************************************)
IsRecord(n) == parse_record(Blank, LineOf(n)).ok

\* "Returns false if no more records exist": a record returned is that of the
\* line reached and has nothing of the lines before it, those that failed half
\* way included (but for the entry count, which only a file event sets); every
\* line passed over is no record, and false means that there is none to the end.
RecordsAreTheLines ==
    /\ parser.at \in {"record", "none"} /\ call = Idle =>
          \A n \in parser.from + 1 .. line_number :
              (parser.at = "record" /\ n = line_number) <=> IsRecord(n)
    /\ parser.at = "none" /\ call = Idle => line_number = LineCount
    /\ parser.at = "record" =>
          LET fresh == parse_record(Blank, LineOf(line_number)).record IN
          record = IF fresh.type \in {"create", "delete", "move"} THEN fresh
                   ELSE [fresh EXCEPT !.entry_count = record.entry_count]

\* Every call returns, parse_next_record too: a line that is no record is
\* passed over, and there are only so many.
ParserReturns == call # Idle ~> call = Idle /\ Quiet
=============================================================================
