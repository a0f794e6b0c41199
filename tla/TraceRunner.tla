----------------------------- MODULE TraceRunner -----------------------------
(***************************************************************************)
(* run_all_traces.sh: the shell that starts a background job per trace, at *)
(* most JOBS at a time, and counts the failures; the jobs (run_trace) with *)
(* a copy of the config in their log directories; the simulators they      *)
(* start (main.cc), which read it and write their results there; and an    *)
(* interrupt, which lists the process tree and kills it.                   *)
(***************************************************************************)
EXTENDS LsmSim, ListOps

CONSTANTS Traces,       \* TRACES: the traces, in order
          JOBS,
          LogDir,       \* [trace -> its log_dir]
          Percent,      \* [trace -> x of the suffix ep<x> of its name, or None]
          Configs,      \* what may be in CONFIG: sequences of lines
          None

Trace == {Traces[i] : i \in 1 .. Len(Traces)}

ASSUME RunnerAssumption ==
    /\ Traces \in Seq(Trace)
    /\ \A i, j \in 1 .. Len(Traces) : Traces[i] = Traces[j] => i = j
    /\ JOBS \in Nat \ {0}
    /\ DOMAIN LogDir = Trace /\ DOMAIN Percent = Trace
    \* The name of a trace is part of its directory's.
    /\ \A t, u \in Trace : LogDir[t] = LogDir[u] => Percent[t] = Percent[u]
    /\ \A t \in Trace : Percent[t] # None => Percent[t] \in Nat
    /\ None \notin Trace
    /\ Configs \subseteq Seq(ConfigLines)

VARIABLES started,      \* the jobs started so far: a prefix of Traces
          running, failures,
          main,         \* where the main shell is: loop, done, snapshot, exited
          doomed,       \* the processes an interrupt found
          job,          \* job[t]: where the subshell of t is
          simulator,    \* simulator[t]: where its process is
          written,      \* the results it has written
          config,       \* its config, in full when it runs
          CONFIG,       \* the lines of the config file of the whole
          copy,         \* copy[d]: the lines of the config in directory d
          results       \* results[d]: what its log files were written for

shell == <<started, running, failures, CONFIG>>
simulators == <<simulator, written, config, results>>
vars == <<shell, main, doomed, job, simulators, copy>>

Dirs == {LogDir[t] : t \in Trace}

\* A log file holds the results of a trace with a workload_empty_fraction.  The
\* directories may have log files of an earlier run.
Log(t, fraction) == [trace |-> t, fraction |-> fraction]
Before == Log(None, None)

\* The script stops at a config without sizes, or with other than one line for
\* the mode, or at another mode.
Accepted(lines) ==
    LET LinesOf(k) == {i \in DOMAIN lines : lines[i].key = k}
    IN  /\ LinesOf("filter_cache_size") # {} /\ LinesOf("data_cache_size") # {}
        /\ \E i \in LinesOf("mode") :
              /\ lines[i].kind # "real" /\ lines[i].value \in {0, 1}
              /\ LinesOf("mode") = {i}

Init ==
    /\ started = 0 /\ running = 0 /\ failures = 0
    /\ doomed = {}
    /\ job = [t \in Trace |-> "new"]
    /\ simulator = [t \in Trace |-> "none"]
    /\ written = [t \in Trace |-> 0]
    /\ config = [t \in Trace |-> None]
    /\ CONFIG \in Configs
    /\ main = IF Accepted(CONFIG) THEN "loop" ELSE "exited"
    /\ copy = [d \in Dirs |-> None]
    /\ results = [d \in Dirs |-> [n \in Names(Parsed(CONFIG)) |-> Before]]

(***************************************************************************)
(* The main shell.                                                         *)
(***************************************************************************)
\* Fault: one job too many.
PoolOverfull == running > JOBS
PoolFull == running >= JOBS

Launch ==
    /\ main = "loop"
    /\ started < Len(Traces) /\ ~ PoolFull
    /\ started' = started + 1
    /\ running' = running + 1
    /\ job' = [job EXCEPT ![Traces[started + 1]] = "config"]
    /\ UNCHANGED <<failures, CONFIG, main, doomed, simulators, copy>>

\* Fault: the failure is swallowed.
FailuresSwallowed(status) == failures
\* wait -n || failures=$((failures + 1))
Failures(status) == IF status = "failed" THEN failures + 1 ELSE failures

\* Fault: a job that failed is not taken off.
StillRunningIfFailed(status) == IF status = "failed" THEN running ELSE running - 1
StillRunning(status) == running - 1

\* wait -n: any job that has ended and was not yet waited for.
Reap(t) ==
    /\ main = "loop"
    /\ IF started < Len(Traces) THEN PoolFull ELSE running > 0
    /\ job[t] \in {"ok", "failed"}
    /\ failures' = Failures(job[t])
    /\ running' = StillRunning(job[t])
    /\ job' = [job EXCEPT ![t] = IF @ = "ok" THEN "reaped_ok" ELSE "reaped_failed"]
    /\ UNCHANGED <<started, CONFIG, main, doomed, simulators, copy>>

Finish ==
    /\ main = "loop"
    /\ started = Len(Traces) /\ running = 0
    /\ main' = "done"
    /\ UNCHANGED <<shell, doomed, job, simulators, copy>>

\* on_signal: the descendants are listed, then killed, and the shell exits.
Subshells == {t \in Trace : job[t] \in {"config", "copy", "start", "wait"}}
Simulators == {t \in Trace : simulator[t] \in {"starting", "running"}}

Interrupt ==
    /\ main = "loop"
    /\ main' = "snapshot"
    /\ doomed' = ({"subshell"} \X Subshells) \cup ({"simulator"} \X Simulators)
    /\ UNCHANGED <<shell, job, simulators, copy>>

KillAll ==
    /\ main = "snapshot"
    /\ main' = "exited"
    /\ job' = [t \in Trace |->
                 IF t \in Subshells /\ <<"subshell", t>> \in doomed THEN "killed" ELSE job[t]]
    /\ simulator' = [t \in Trace |->
                        IF t \in Simulators /\ <<"simulator", t>> \in doomed
                        THEN "killed" ELSE simulator[t]]
    /\ UNCHANGED <<shell, doomed, written, config, results, copy>>

Main == Launch \/ (\E t \in Trace : Reap(t)) \/ Finish \/ KillAll

(***************************************************************************)
(* A job, and its simulator.                                               *)
(***************************************************************************)
\* frac, written with a decimal point.
WithFraction(lines, percent) ==
    Append(Kept(lines, {i \in 1 .. Len(lines) : lines[i].key # "workload_empty_fraction"}),
           ConfigLine("workload_empty_fraction", "real", percent))

ConfigFor(t) == IF Percent[t] = None THEN CONFIG ELSE WithFraction(CONFIG, Percent[t])

\* The shell opens the copy, empty; then awk or cp fills it.
OpenConfig(t) ==
    /\ job[t] = "config"
    /\ \/ /\ copy' = [copy EXCEPT ![LogDir[t]] = <<>>]
          /\ job' = [job EXCEPT ![t] = "copy"]
       \/ /\ job' = [job EXCEPT ![t] = "failed"]      \* mkdir fails
          /\ UNCHANGED copy
    /\ UNCHANGED <<shell, main, doomed, simulators>>

WriteConfig(t) ==
    /\ job[t] = "copy"
    /\ \/ /\ copy' = [copy EXCEPT ![LogDir[t]] = ConfigFor(t)]
          /\ job' = [job EXCEPT ![t] = "start"]
       \/ /\ job' = [job EXCEPT ![t] = "failed"]
          /\ UNCHANGED copy
    /\ UNCHANGED <<shell, main, doomed, simulators>>

StartSimulator(t) ==
    /\ job[t] = "start"
    /\ job' = [job EXCEPT ![t] = "wait"]
    /\ simulator' = [simulator EXCEPT ![t] = "starting"]
    /\ UNCHANGED <<shell, main, doomed, written, config, results, copy>>

\* Without a config the simulator exits, by some it crashes.
ReadConfig(t) ==
    /\ simulator[t] = "starting"
    /\ LET lines == copy[LogDir[t]] IN
       IF lines # None /\ Readable(Parsed(lines))
       THEN /\ config' = [config EXCEPT ![t] = Parsed(lines)]
            /\ simulator' = [simulator EXCEPT ![t] = "running"]
       ELSE simulator' = [simulator EXCEPT ![t] = "failed"] /\ UNCHANGED config
    /\ UNCHANGED <<shell, main, doomed, job, written, results, copy>>

\* A simulation and its log file, which may fail.
Simulate(t) ==
    /\ simulator[t] = "running" /\ written[t] < Len(Calls)
    /\ \/ LET name == ResultName(Calls[written[t] + 1], config[t])
              log == Log(t, config[t].workload_empty_fraction)
          IN  /\ written' = [written EXCEPT ![t] = @ + 1]
              /\ results' = [results EXCEPT ![LogDir[t]] =
                                [n \in DOMAIN @ \cup {name} |-> IF n = name THEN log ELSE @[n]]]
              /\ UNCHANGED simulator
       \/ /\ simulator' = [simulator EXCEPT ![t] = "failed"]
          /\ UNCHANGED <<written, results>>
    /\ UNCHANGED <<shell, main, doomed, job, config, copy>>

EndSimulator(t) ==
    /\ simulator[t] = "running" /\ written[t] = Len(Calls)
    /\ simulator' = [simulator EXCEPT ![t] = "ok"]
    /\ UNCHANGED <<shell, main, doomed, job, written, config, results, copy>>

EndJob(t) ==
    /\ job[t] = "wait"
    /\ simulator[t] \in {"ok", "failed"}
    /\ copy' = [copy EXCEPT ![LogDir[t]] = None]
    /\ job' = [job EXCEPT ![t] = simulator[t]]
    /\ UNCHANGED <<shell, main, doomed, simulators>>

Job(t) ==
    \/ OpenConfig(t) \/ WriteConfig(t) \/ StartSimulator(t)
    \/ ReadConfig(t) \/ Simulate(t) \/ EndSimulator(t) \/ EndJob(t)

Next == Main \/ Interrupt \/ \E t \in Trace : Job(t)

\* The processes are scheduled, and a simulator ends; no interrupt need come.
Spec == Init /\ [][Next]_vars /\ WF_vars(Main) /\ \A t \in Trace : WF_vars(Job(t))

(***************************************************************************)
(* Properties.                                                             *)
(***************************************************************************)
\* running counts the jobs that were started and not waited for, so no more
\* than JOBS simulators run at a time.
PoolBound ==
    /\ main \in {"loop", "done"} =>
          running = Cardinality({t \in Trace :
                                   job[t] \in {"config", "copy", "start", "wait", "ok", "failed"}})
    /\ Cardinality(Simulators) <= JOBS

\* "every simulator failure is counted here rather than being swallowed": at
\* the end each trace ran to its end, and failures says how many failed.
FailuresExact ==
    main = "done" =>
        /\ \A t \in Trace : job[t] \in {"reaped_ok", "reaped_failed"}
        /\ failures = Cardinality({t \in Trace : simulator[t] # "ok"})

\* "Ctrl-C alone would leave the simulators running": after the handler has
\* killed the process tree, none runs.
InterruptStopsAll == main = "exited" => Simulators = {}

\* "each trace is run from inside its own log directory with a copy of the
\* config next to it": if a trace ended well and no other has its directory,
\* every log file of its simulations there is by it, none by an earlier run or
\* another of its simulations, and for the fraction its name asks for.
OwnResults ==
    \A t \in Trace :
        /\ job[t] \in {"ok", "reaped_ok"}
        /\ \A u \in Trace : LogDir[u] = LogDir[t] => u = t
        => LET asked == Parsed(CONFIG)
               fraction == IF Percent[t] = None THEN asked.workload_empty_fraction
                           ELSE Percent[t]
               own == {n \in DOMAIN results[LogDir[t]] :
                          results[LogDir[t]][n] = Log(t, fraction)}
           IN  Names(asked) \subseteq own /\ Cardinality(own) = Len(Calls)

\* The script ends.
ScriptEnds == <>(main \in {"done", "exited"})
=============================================================================
