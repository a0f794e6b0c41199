------------------------------- MODULE Belady -------------------------------
(***************************************************************************)
(* OptimalCache next to any other demand paging policy.  While the cache   *)
(* is used offline, that is, with the whole trace in the window before the *)
(* first access (optimal_lookahead at least as long as the trace), blocks  *)
(* of one size, and nothing removed by a call, a rival cache of the same   *)
(* capacity serves the same accesses.  It admits every block it misses, as *)
(* the caches here do, and evicts whichever it likes.                      *)
(***************************************************************************)
EXTENDS OptimalCache

VARIABLES offline,        \* the cache has only been used in that way
          rival,          \* the blocks the rival holds
          opt_misses,     \* what simulate_optimal counts as miss_count
          rival_misses

contest == <<rival, opt_misses, rival_misses>>
bvars == <<optimalVars, offline, contest>>

BInit ==
    /\ OptimalInit
    /\ offline = TRUE
    /\ rival = {}
    /\ opt_misses = 0
    /\ rival_misses = 0

\* The contest is off, and its state forgotten.
CallOff ==
    /\ offline' = FALSE
    /\ rival' = {}
    /\ opt_misses' = 0
    /\ rival_misses' = 0

\* The trace is read into the window, before anything of it is consumed.
Read(b, s) ==
    /\ AddLookahead(b, s)
    /\ IF s = 1 /\ lookahead_counter_ = Len(lookahead_)
       THEN UNCHANGED <<offline, contest>>
       ELSE CallOff

\* The rival serves b: a hit, or a miss that replaces a block if it must.
RivalServes(b) ==
    \/ b \in rival /\ UNCHANGED <<rival, rival_misses>>
    \/ /\ b \notin rival
       /\ rival_misses' = rival_misses + 1
       /\ IF Cardinality(rival) < MaxSize
          THEN rival' = rival \cup {b}
          ELSE \E v \in rival : rival' = (rival \ {v}) \cup {b}

\* One access of the simulation: advance_lookahead returns a hit or a miss.
Access ==
    /\ \/ AdvanceHit /\ UNCHANGED opt_misses
       \/ AdvanceMiss /\ opt_misses' = IF offline THEN opt_misses + 1 ELSE 0
    /\ IF offline THEN RivalServes(Head(lookahead_).block)
                  ELSE UNCHANGED <<rival, rival_misses>>
    /\ UNCHANGED offline

\* Everything else a caller may do.
Intrude ==
    /\ \/ AdvanceTooBig
       \/ Remove
       \/ \E f \in File : PurgeBegin(f)
    /\ CallOff

Serve ==
    /\ EvictAhead \/ AdmitAhead \/ Purge
    /\ UNCHANGED <<offline, contest>>

BNext ==
    \/ \E b \in Block, s \in Size : Read(b, s)
    \/ Access
    \/ Intrude
    \/ Serve

BSpec == BInit /\ [][BNext]_bvars

(***************************************************************************)
(* The policy deserves its name: at no point of the trace has any rival    *)
(* missed less often.                                                      *)
(***************************************************************************)
Optimal == opt_misses <= rival_misses
=============================================================================
