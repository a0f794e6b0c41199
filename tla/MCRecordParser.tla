--------------------------- MODULE MCRecordParser ---------------------------
(* All files of up to four units whose lines are no records, and files of  *)
(* two or three lines that may be: a Get with a probe, one that fails at   *)
(* its second probe, one without probes, an iterator line, a create event, *)
(* and one whose number of entries is no number.                           *)
EXTENDS RecordParser

WholeLine == [tag |-> "G", enough |-> TRUE, numbers |-> TRUE, item_numbers |-> TRUE,
              declared |-> 0, items |-> <<>>, event |-> "other", entry_count |-> 0,
              keys |-> FALSE]
Data(whole) == [whole |-> whole, blocks |-> <<"data">>]

MCContentsOf ==
    [x |-> [WholeLine EXCEPT !.tag = "other"],
     get |-> [WholeLine EXCEPT !.declared = 1, !.items = <<Data(TRUE)>>],
     cut |-> [WholeLine EXCEPT !.declared = 2, !.items = <<Data(TRUE), Data(FALSE)>>],
     miss |-> WholeLine,
     scan |-> [WholeLine EXCEPT !.tag = "A", !.declared = 1, !.items = <<Data(TRUE)>>],
     create |-> [WholeLine EXCEPT !.tag = "F", !.event = "create", !.entry_count = 7,
                                  !.keys = TRUE],
     broken |-> [WholeLine EXCEPT !.tag = "F", !.event = "create", !.entry_count = 9,
                                  !.numbers = FALSE]]

Records == DOMAIN MCContentsOf \ {"x"}
MCFiles ==
    BoundedSeq({"x", CR, LF, "header"}, 4)
        \cup {<<a, LF, b>> : a \in Records, b \in Records}
        \cup {<<a, CR, LF, b, LF, c>> :
                a \in {"cut", "create"}, b \in {"broken", "miss"}, c \in {"get", "scan"}}
=============================================================================
