-------------------------- MODULE TraceToolsProofs --------------------------
(***************************************************************************)
(* How every program reads a trace, and the programs around the simulator. *)
(* ZSTDReader and RecordParser, for every file, every cut into chunks and  *)
(* every order of calls: the lines and the records are those of the file.  *)
(* run_all_traces.sh, for every list of traces, every JOBS and every       *)
(* config: the pool is bounded, running and failures count what they say,  *)
(* and a job's results are its own.  analyze_trace, for every trace: its   *)
(* access table is exact.  The script, the table and the reader share no   *)
(* state.                                                                  *)
(***************************************************************************)
EXTENDS TraceRunner, AnalyzeTrace, RecordParser, ContainerTheorems

(***************************************************************************)
(* run_all_traces.sh: the inductive invariant.                             *)
(***************************************************************************)
JobState == {"new", "config", "copy", "start", "wait", "ok", "failed", "killed",
             "reaped_ok", "reaped_failed"}
SimulatorState == {"none", "starting", "running", "ok", "failed", "killed"}

\* The jobs that were started and not waited for.
InPool == {t \in Trace : job[t] \in {"config", "copy", "start", "wait", "ok", "failed",
                                     "killed"}}
ReapedFailed == {t \in Trace : job[t] = "reaped_failed"}

StateTypeOK ==
    /\ started \in 0 .. Len(Traces)
    /\ main \in {"loop", "done", "snapshot", "exited"}
    /\ job \in [Trace -> JobState]
    /\ simulator \in [Trace -> SimulatorState]

\* The jobs are started in the order of Traces.
StartedInOrder ==
    \A i \in 1 .. Len(Traces) : job[Traces[i]] = "new" <=> i > started

PoolCounted == running = Cardinality(InPool) /\ running <= JOBS
FailuresCounted == failures = Cardinality(ReapedFailed)

\* What a job knows of its simulator.
JobFollowsSimulator ==
    \A t \in Trace :
        /\ simulator[t] \in {"starting", "running"} => job[t] \in {"wait", "killed"}
        /\ job[t] \in {"ok", "reaped_ok"} => simulator[t] = "ok"
        /\ job[t] \in {"failed", "reaped_failed"} => simulator[t] # "ok"
        /\ job[t] \in {"new", "config", "copy", "start"} => simulator[t] = "none"

KilledAtExit ==
    \A t \in Trace : job[t] = "killed" \/ simulator[t] = "killed" => main = "exited"

AllWaitedFor == main = "done" => started = Len(Traces) /\ running = 0

IInv ==
    /\ StateTypeOK
    /\ StartedInOrder
    /\ PoolCounted
    /\ FailuresCounted
    /\ JobFollowsSimulator
    /\ KilledAtExit
    /\ AllWaitedFor

(***************************************************************************)
(* How the sets that are counted change.                                   *)
(***************************************************************************)
LEMMA FiniteTraces == IsFiniteSet(Trace) /\ Len(Traces) \in Nat
<1>1. Len(Traces) \in Nat /\ Traces \in [1 .. Len(Traces) -> Trace]
  BY RunnerAssumption, LenProperties
<1>2. Traces \in Surjection(1 .. Len(Traces), Trace)
  BY <1>1 DEF Surjection, Trace
<1>3. IsFiniteSet(1 .. Len(Traces))
  BY <1>1, FS_Interval
<1> QED BY <1>1, <1>2, <1>3, FS_Surjection

\* A set of traces that gains or loses one.
LEMMA CountWith ==
    ASSUME NEW S \in SUBSET Trace, NEW t \in Trace
    PROVE  /\ Cardinality(S) \in Nat
           /\ t \notin S => Cardinality(S \cup {t}) = Cardinality(S) + 1
           /\ t \in S => Cardinality(S \ {t}) = Cardinality(S) - 1
<1>1. IsFiniteSet(S)
  BY FiniteTraces, FS_Subset
<1> QED BY <1>1, FS_CardinalityType, FS_AddElement, FS_RemoveElement

\* Moving one job on changes the pool and the failures by that job alone.
LEMMA CountsAfter ==
    ASSUME StateTypeOK, NEW t \in Trace, NEW s \in JobState,
           job' = [job EXCEPT ![t] = s]
    PROVE  /\ InPool' = IF s \in {"config", "copy", "start", "wait", "ok", "failed", "killed"}
                        THEN InPool \cup {t} ELSE InPool \ {t}
           /\ ReapedFailed' = IF s = "reaped_failed"
                              THEN ReapedFailed \cup {t} ELSE ReapedFailed \ {t}
BY DEF StateTypeOK, InPool, ReapedFailed

(***************************************************************************)
(* The initial states and the steps.                                       *)
(***************************************************************************)
LEMMA InitInv == Init => IInv
<1> SUFFICES ASSUME Init PROVE IInv
  OBVIOUS
<1>1. InPool = {} /\ ReapedFailed = {}
  BY DEF Init, InPool, ReapedFailed
<1>2. PoolCounted /\ FailuresCounted
  BY <1>1, FS_EmptySet, RunnerAssumption DEF Init, PoolCounted, FailuresCounted
<1>3. StateTypeOK
  BY FiniteTraces DEF Init, StateTypeOK, JobState, SimulatorState
<1>4. \A i \in 1 .. Len(Traces) : Traces[i] \in Trace
  BY DEF Trace
<1>5. StartedInOrder
  BY <1>4, FiniteTraces DEF Init, StartedInOrder
<1> QED BY <1>2, <1>3, <1>5 DEF Init, IInv, JobFollowsSimulator, KilledAtExit, AllWaitedFor

LEMMA LaunchInv == IInv /\ Launch => IInv'
<1> SUFFICES ASSUME IInv, Launch PROVE IInv'
  OBVIOUS
<1> DEFINE t == Traces[started + 1]
<1> USE DEF IInv
<1>1. started + 1 \in 1 .. Len(Traces) /\ t \in Trace /\ job[t] = "new"
  BY FiniteTraces DEF StateTypeOK, StartedInOrder, Launch, Trace
<1>2. job' = [job EXCEPT ![t] = "config"] /\ "config" \in JobState
  BY DEF Launch, JobState
<1>3. InPool' = InPool \cup {t} /\ ReapedFailed' = ReapedFailed \ {t}
  BY <1>1, <1>2, CountsAfter
<1>4. t \notin InPool /\ t \notin ReapedFailed
  BY <1>1 DEF InPool, ReapedFailed
<1>5. InPool \in SUBSET Trace /\ ReapedFailed \ {t} = ReapedFailed
  BY <1>4 DEF InPool
<1> HIDE DEF t
<1>6. PoolCounted' /\ FailuresCounted'
  <2>1. Cardinality(InPool) \in Nat /\ Cardinality(InPool \cup {t}) = Cardinality(InPool) + 1
    BY <1>1, <1>4, <1>5, CountWith
  <2>2. running' = running + 1 /\ running < JOBS /\ failures' = failures
    BY <2>1, RunnerAssumption DEF Launch, PoolFull, PoolCounted
  <2>3. running' <= JOBS
    BY <2>1, <2>2, RunnerAssumption DEF PoolCounted
  <2>4. running' = Cardinality(InPool')
    BY <1>3, <2>1, <2>2 DEF PoolCounted
  <2>5. failures' = Cardinality(ReapedFailed')
    BY <1>3, <1>5, <2>2 DEF FailuresCounted
  <2> QED BY <2>3, <2>4, <2>5 DEF PoolCounted, FailuresCounted
<1>7. StateTypeOK'
  BY <1>1, <1>2 DEF StateTypeOK, Launch, simulators
<1>8. StartedInOrder'
  <2> SUFFICES ASSUME NEW i \in 1 .. Len(Traces)
               PROVE  job'[Traces[i]] = "new" <=> i > started + 1
    BY DEF StartedInOrder, Launch
  <2>1. Traces[i] \in Trace /\ (Traces[i] = t <=> i = started + 1)
    BY <1>1, RunnerAssumption DEF Trace, t
  <2>2. job'[Traces[i]] = IF Traces[i] = t THEN "config" ELSE job[Traces[i]]
    BY <1>2, <2>1 DEF StateTypeOK
  <2> QED BY <1>1, <2>1, <2>2, FiniteTraces DEF StartedInOrder, StateTypeOK
<1>9. JobFollowsSimulator'
  <2>1. simulator' = simulator
    BY DEF Launch, simulators
  <2>2. simulator[t] = "none"
    BY <1>1 DEF JobFollowsSimulator, StateTypeOK, SimulatorState
  <2> QED BY <1>1, <1>2, <2>1, <2>2 DEF JobFollowsSimulator, StateTypeOK
<1>10. KilledAtExit' /\ AllWaitedFor'
  BY <1>1, <1>2 DEF KilledAtExit, AllWaitedFor, Launch, simulators, StateTypeOK
<1> QED BY <1>6, <1>7, <1>8, <1>9, <1>10

\* A job that goes on within the pool, or none that moves, is not counted anew.
LEMMA WithinPool ==
    ASSUME IInv, UNCHANGED <<started, running, failures>>,
           \/ job' = job
           \/ \E t \in Trace : \E s \in {"copy", "start", "wait", "ok", "failed"} :
                 /\ job[t] \in {"config", "copy", "start", "wait"}
                 /\ job' = [job EXCEPT ![t] = s]
    PROVE  /\ job' \in [Trace -> JobState]
           /\ StartedInOrder' /\ PoolCounted' /\ FailuresCounted'
<1>1. CASE job' = job
  BY <1>1 DEF IInv, StateTypeOK, StartedInOrder, PoolCounted, FailuresCounted, InPool,
              ReapedFailed
<1>2. ASSUME NEW t \in Trace, NEW s \in {"copy", "start", "wait", "ok", "failed"},
             job[t] \in {"config", "copy", "start", "wait"}, job' = [job EXCEPT ![t] = s]
      PROVE  /\ job' \in [Trace -> JobState]
             /\ StartedInOrder' /\ PoolCounted' /\ FailuresCounted'
  <2>1. job' \in [Trace -> JobState]
    BY <1>2 DEF IInv, StateTypeOK, JobState
  <2>2. InPool' = InPool /\ ReapedFailed' = ReapedFailed
    BY <1>2 DEF IInv, StateTypeOK, InPool, ReapedFailed
  <2>3. StartedInOrder'
    <3>1. \A i \in 1 .. Len(Traces) : Traces[i] \in Trace
      BY DEF Trace
    <3> QED BY <3>1, <1>2 DEF IInv, StateTypeOK, StartedInOrder
  <2> QED BY <2>1, <2>2, <2>3 DEF IInv, PoolCounted, FailuresCounted
<1> QED BY <1>1, <1>2

LEMMA ReapInv == ASSUME NEW t \in Trace PROVE IInv /\ Reap(t) => IInv'
<1> SUFFICES ASSUME IInv, Reap(t) PROVE IInv'
  OBVIOUS
<1> USE DEF IInv
<1>1. PICK s \in {"reaped_ok", "reaped_failed"} :
         /\ job' = [job EXCEPT ![t] = s]
         /\ s = "reaped_ok" <=> job[t] = "ok"
         /\ s = "reaped_failed" <=> job[t] = "failed"
  BY DEF Reap, StateTypeOK
<1>2. s \in JobState /\ job[t] \in {"ok", "failed"}
  BY DEF Reap, JobState
<1>3. /\ InPool' = InPool \ {t}
      /\ ReapedFailed' = IF s = "reaped_failed" THEN ReapedFailed \cup {t}
                         ELSE ReapedFailed \ {t}
  BY <1>1, <1>2, CountsAfter
<1>4. /\ t \in InPool /\ InPool \in SUBSET Trace
      /\ t \notin ReapedFailed /\ ReapedFailed \in SUBSET Trace
  BY <1>2 DEF InPool, ReapedFailed
<1>5. PoolCounted'
  <2>1. Cardinality(InPool) \in Nat /\ Cardinality(InPool \ {t}) = Cardinality(InPool) - 1
    BY <1>4, CountWith
  <2>2. running' = running - 1
    BY DEF Reap, StillRunning
  <2>3. running \in Nat /\ JOBS \in Nat /\ running <= JOBS
    BY <2>1, RunnerAssumption DEF PoolCounted
  <2>4. running - 1 <= JOBS
    BY <2>3
  <2> QED BY <1>3, <2>1, <2>2, <2>3, <2>4 DEF PoolCounted
<1>6. FailuresCounted'
  <2>1. Cardinality(ReapedFailed \cup {t}) = Cardinality(ReapedFailed) + 1
    BY <1>4, CountWith
  <2>2. ReapedFailed \ {t} = ReapedFailed
    BY <1>4
  <2>3. failures' = IF s = "reaped_failed" THEN failures + 1 ELSE failures
    BY <1>1 DEF Reap, Failures
  <2> QED BY <1>3, <2>1, <2>2, <2>3 DEF FailuresCounted
<1>7. StateTypeOK'
  BY <1>1, <1>2 DEF StateTypeOK, Reap, simulators
<1>8. StartedInOrder'
  <2>1. \A i \in 1 .. Len(Traces) : Traces[i] \in Trace
    BY DEF Trace
  <2> QED BY <2>1, <1>1, <1>2 DEF StartedInOrder, StateTypeOK, Reap
<1>9. JobFollowsSimulator' /\ KilledAtExit'
  <2>1. simulator' = simulator /\ main' = main
    BY DEF Reap, simulators
  <2> QED BY <2>1, <1>1, <1>2 DEF JobFollowsSimulator, KilledAtExit, StateTypeOK
<1>10. AllWaitedFor'
  BY DEF Reap, AllWaitedFor
<1> QED BY <1>5, <1>6, <1>7, <1>8, <1>9, <1>10

LEMMA FinishInv == IInv /\ Finish => IInv'
<1> SUFFICES ASSUME IInv, Finish PROVE IInv'
  OBVIOUS
<1>1. UNCHANGED <<started, running, failures, job, simulator>> /\ main' = "done"
  BY DEF Finish, shell, simulators
<1>2. StartedInOrder' /\ PoolCounted' /\ FailuresCounted'
  BY <1>1, WithinPool
<1>3. StateTypeOK' /\ JobFollowsSimulator'
  BY <1>1 DEF IInv, StateTypeOK, JobFollowsSimulator
<1>4. KilledAtExit' /\ AllWaitedFor'
  BY <1>1 DEF IInv, KilledAtExit, AllWaitedFor, Finish
<1> QED BY <1>2, <1>3, <1>4 DEF IInv

LEMMA InterruptInv == IInv /\ Interrupt => IInv'
<1> SUFFICES ASSUME IInv, Interrupt PROVE IInv'
  OBVIOUS
<1>1. /\ UNCHANGED <<started, running, failures, job, simulator>>
      /\ main = "loop" /\ main' = "snapshot"
  BY DEF Interrupt, shell, simulators
<1>2. StartedInOrder' /\ PoolCounted' /\ FailuresCounted'
  BY <1>1, WithinPool
<1>3. StateTypeOK' /\ JobFollowsSimulator'
  BY <1>1 DEF IInv, StateTypeOK, JobFollowsSimulator
<1>4. KilledAtExit' /\ AllWaitedFor'
  BY <1>1 DEF IInv, KilledAtExit, AllWaitedFor
<1> QED BY <1>2, <1>3, <1>4 DEF IInv

LEMMA KillAllInv == IInv /\ KillAll => IInv'
<1> SUFFICES ASSUME IInv, KillAll PROVE IInv'
  OBVIOUS
<1> USE DEF IInv
<1>1. main' = "exited" /\ UNCHANGED <<started, running, failures>>
  BY DEF KillAll, shell
<1>2. /\ job' \in [Trace -> JobState]
      /\ \A t \in Trace : \/ job'[t] = job[t]
                          \/ /\ job[t] \in {"config", "copy", "start", "wait"}
                             /\ job'[t] = "killed"
  BY DEF KillAll, StateTypeOK, Subshells, JobState
<1>3. /\ simulator' \in [Trace -> SimulatorState]
      /\ \A t \in Trace : \/ simulator'[t] = simulator[t]
                          \/ /\ simulator[t] \in {"starting", "running"}
                             /\ simulator'[t] = "killed"
  BY DEF KillAll, StateTypeOK, Simulators, SimulatorState
<1>4. InPool' = InPool /\ ReapedFailed' = ReapedFailed
  BY <1>2 DEF InPool, ReapedFailed
<1>5. PoolCounted' /\ FailuresCounted'
  BY <1>1, <1>4 DEF PoolCounted, FailuresCounted
<1>6. StartedInOrder'
  <2>1. \A i \in 1 .. Len(Traces) : Traces[i] \in Trace
    BY DEF Trace
  <2> QED BY <2>1, <1>1, <1>2 DEF StartedInOrder
<1>7. StateTypeOK' /\ KilledAtExit' /\ AllWaitedFor'
  BY <1>1, <1>2, <1>3 DEF StateTypeOK, KilledAtExit, AllWaitedFor
<1>8. JobFollowsSimulator'
  BY <1>2, <1>3 DEF JobFollowsSimulator
<1> QED BY <1>5, <1>6, <1>7, <1>8

LEMMA JobInv == ASSUME NEW t \in Trace PROVE IInv /\ Job(t) => IInv'
<1> SUFFICES ASSUME IInv, Job(t) PROVE IInv'
  OBVIOUS
<1> DEFINE rest == StateTypeOK' /\ JobFollowsSimulator' /\ KilledAtExit' /\ AllWaitedFor'
           within == \/ job' = job
                     \/ \E u \in Trace : \E s \in {"copy", "start", "wait", "ok", "failed"} :
                           /\ job[u] \in {"config", "copy", "start", "wait"}
                           /\ job' = [job EXCEPT ![u] = s]
<1>1. UNCHANGED <<started, running, failures, main>>
  BY DEF Job, OpenConfig, WriteConfig, StartSimulator, ReadConfig, Simulate, EndSimulator,
         EndJob, shell
<1> SUFFICES within /\ JobFollowsSimulator' /\ KilledAtExit'
             /\ simulator' \in [Trace -> SimulatorState]
  BY <1>1, WithinPool DEF IInv, StateTypeOK, AllWaitedFor
<1> USE DEF IInv, StateTypeOK, JobFollowsSimulator, KilledAtExit, SimulatorState
<1>2. CASE OpenConfig(t) \/ WriteConfig(t)
  <2>1. PICK s \in {"copy", "start", "failed"} : job' = [job EXCEPT ![t] = s]
    BY <1>2 DEF OpenConfig, WriteConfig
  <2>2. simulator' = simulator /\ job[t] \in {"config", "copy"}
    BY <1>2 DEF OpenConfig, WriteConfig, simulators
  <2> QED BY <2>1, <2>2, <1>1
<1>3. CASE StartSimulator(t)
  BY <1>1, <1>3 DEF StartSimulator
<1>4. CASE ReadConfig(t) \/ Simulate(t) \/ EndSimulator(t)
  <2>1. job' = job /\ simulator[t] \in {"starting", "running"}
    BY <1>4 DEF ReadConfig, Simulate, EndSimulator
  <2>2. \E s \in {"running", "ok", "failed"} : simulator' = [simulator EXCEPT ![t] = s]
    BY <1>4 DEF ReadConfig, Simulate, EndSimulator
  <2> QED BY <2>1, <2>2, <1>1
<1>5. CASE EndJob(t)
  <2>1. /\ job[t] = "wait" /\ simulator[t] \in {"ok", "failed"} /\ simulator' = simulator
        /\ job' = [job EXCEPT ![t] = simulator[t]]
    BY <1>5 DEF EndJob, simulators
  <2> QED BY <2>1, <1>1
<1> QED BY <1>2, <1>3, <1>4, <1>5 DEF Job

LEMMA StepInv == IInv /\ [Next]_vars => IInv'
<1> SUFFICES ASSUME IInv, [Next]_vars PROVE IInv'
  OBVIOUS
<1>1. CASE Main
  BY <1>1, LaunchInv, ReapInv, FinishInv, KillAllInv DEF Main
<1>2. CASE Interrupt
  BY <1>2, InterruptInv
<1>3. CASE \E t \in Trace : Job(t)
  BY <1>3, JobInv
<1>4. CASE UNCHANGED vars
  <2>1. UNCHANGED <<started, running, failures, main, job, simulator>>
    BY <1>4 DEF vars, shell, simulators
  <2>2. StartedInOrder' /\ PoolCounted' /\ FailuresCounted'
    BY <2>1, WithinPool
  <2> QED BY <2>1, <2>2
          DEF IInv, StateTypeOK, JobFollowsSimulator, KilledAtExit, AllWaitedFor
<1> QED BY <1>1, <1>2, <1>3, <1>4 DEF Next

LEMMA Invariance == Spec => []IInv
BY InitInv, StepInv, PTL DEF Spec

(***************************************************************************)
(* The theorems.                                                           *)
(***************************************************************************)
\* run_all_traces.sh: however its jobs end, running counts those that were
\* started and not waited for, and at most JOBS simulators run at a time.
THEOREM PoolIsBounded == Spec => []PoolBound
<1>1. IInv => PoolBound
  <2> SUFFICES ASSUME IInv PROVE PoolBound
    OBVIOUS
  <2>1. Simulators \subseteq InPool /\ IsFiniteSet(InPool)
    <3>1. InPool \subseteq Trace
      BY DEF InPool
    <3> QED BY <3>1, FiniteTraces, FS_Subset DEF IInv, JobFollowsSimulator, Simulators, InPool
  <2>2. Cardinality(Simulators) <= Cardinality(InPool) /\ Cardinality(Simulators) \in Nat
        /\ Cardinality(InPool) \in Nat
    BY <2>1, FS_Subset, FS_CardinalityType
  <2>3. main # "exited" =>
          InPool = {t \in Trace :
                      job[t] \in {"config", "copy", "start", "wait", "ok", "failed"}}
    BY DEF IInv, KilledAtExit, InPool
  <2>4. JOBS \in Nat /\ running = Cardinality(InPool) /\ running <= JOBS
    BY RunnerAssumption DEF IInv, PoolCounted
  <2>5. Cardinality(Simulators) <= JOBS
    BY <2>2, <2>4
  <2> QED BY <2>3, <2>4, <2>5 DEF PoolBound
<1> QED BY <1>1, Invariance, PTL

\* reap: at the end every trace has been waited for, and failures is the number
\* of simulators that did not end well.
THEOREM FailuresAreCounted == Spec => []FailuresExact
<1>1. IInv => FailuresExact
  <2> SUFFICES ASSUME IInv, main = "done"
               PROVE  /\ \A t \in Trace : job[t] \in {"reaped_ok", "reaped_failed"}
                      /\ failures = Cardinality({t \in Trace : simulator[t] # "ok"})
    BY DEF FailuresExact
  <2>1. started = Len(Traces) /\ running = 0
    BY DEF IInv, AllWaitedFor
  <2>2. \A t \in Trace : job[t] # "new"
    BY <2>1, FiniteTraces DEF IInv, StartedInOrder, Trace
  <2>3. InPool = {}
    <3>1. IsFiniteSet(InPool)
      BY FiniteTraces, FS_Subset DEF InPool
    <3> QED BY <2>1, <3>1, FS_EmptySet DEF IInv, PoolCounted
  <2>4. \A t \in Trace : job[t] \in {"reaped_ok", "reaped_failed"}
    BY <2>2, <2>3 DEF IInv, StateTypeOK, JobState, InPool
  <2>5. ReapedFailed = {t \in Trace : simulator[t] # "ok"}
    BY <2>4 DEF IInv, JobFollowsSimulator, ReapedFailed
  <2> QED BY <2>4, <2>5 DEF IInv, FailuresCounted
<1> QED BY <1>1, Invariance, PTL

(***************************************************************************)
(* What a config file says.                                                *)
(***************************************************************************)
Values == [DOMAIN Defaults -> Int]

\* f[n] is what the config holds after n lines.
Reads(lines, f) ==
    /\ f \in [0 .. Len(lines) -> Values]
    /\ f[0] = Defaults
    /\ \A n \in 1 .. Len(lines) : f[n] = Assign(f[n - 1], lines[n])

LEMMA DefaultsTyped ==
    /\ Defaults \in Values
    /\ "workload_empty_fraction" \in DOMAIN Defaults
    /\ NameFields \subseteq DOMAIN Defaults \ {"workload_empty_fraction"}
BY DEF Defaults, Values, NameFields

\* A line sets the keys it names, and leaves the others.
LEMMA AssignSets ==
    ASSUME NEW c \in Values, NEW l \in ConfigLines
    PROVE  /\ Assign(c, l) \in Values
           /\ \A d \in Values : \A k \in DOMAIN Defaults :
                c[k] = d[k] => Assign(c, l)[k] = Assign(d, l)[k]
           /\ \A k \in DOMAIN Defaults :
                l.key = "workload_empty_fraction" /\ k # l.key => Assign(c, l)[k] = c[k]
<1>1. PICK K : K = DOMAIN Defaults /\ {"filter_cache_size", "data_cache_size", "mode"} \subseteq K
  BY DEF Defaults
<1>2. PICK k, n, m : k = l.key /\ n = l.value /\ m = n % Byte
  OBVIOUS
<1>3. n \in Int /\ m \in Int
  BY <1>2, WidthAssumption DEF ConfigLines
<1> HIDE DEF Defaults
\* Whatever the config, the line does one of these to it.
<1>4. \/ \A d : Assign(d, l) = d
      \/ \E v \in Int : \A d : Assign(d, l) = [d EXCEPT ![k] = v]
      \/ /\ k = "cache_size"
         /\ \A d : Assign(d, l) = [d EXCEPT !.filter_cache_size = n, !.data_cache_size = n]
      \/ k = "mode" /\ \A d : Assign(d, l) = [d EXCEPT !.mode = m]
  <2>1. \A d : Assign(d, l) =
          CASE l.kind = "real" /\ k \in RealKeys -> [d EXCEPT ![k] = n]
            [] l.kind = "int" /\ k \in {"filter_cache_size", "data_cache_size",
                                       "default_block_size"} -> [d EXCEPT ![k] = n]
            [] l.kind = "int" /\ k \in DOMAIN Width /\ n < Width[k] -> [d EXCEPT ![k] = n]
            [] l.kind = "int" /\ k = "cache_size" ->
                  [d EXCEPT !.filter_cache_size = n, !.data_cache_size = n]
            [] l.kind = "int" /\ k = "mode" -> [d EXCEPT !.mode = m]
            [] l.kind = "int" /\ k = "module_limit_optimized" ->
                  [d EXCEPT ![k] = IF n \in 1 .. 4 THEN n ELSE 0]
            [] OTHER -> d
    BY <1>2 DEF Assign
  <2>2. PICK lim : lim = IF n \in 1 .. 4 THEN n ELSE 0
    OBVIOUS
  <2>3. lim \in Int
    BY <1>3, <2>2
  <2>4. DOMAIN Width = {"shard_count", "bits_per_key", "optimal_lookahead",
                        "modular_lookahead", "series_per_record"}
    BY DEF Width
  <2> QED BY <1>3, <2>1, <2>2, <2>3, <2>4 DEF RealKeys
<1>5. CASE \A d : Assign(d, l) = d
  BY <1>5
<1>6. ASSUME NEW v \in Int, \A d : Assign(d, l) = [d EXCEPT ![k] = v]
      PROVE  /\ Assign(c, l) \in Values
             /\ \A d \in Values : \A x \in DOMAIN Defaults :
                  c[x] = d[x] => Assign(c, l)[x] = Assign(d, l)[x]
             /\ \A x \in DOMAIN Defaults :
                  l.key = "workload_empty_fraction" /\ x # l.key => Assign(c, l)[x] = c[x]
  BY <1>1, <1>2, <1>6 DEF Values
<1>7. CASE /\ k = "cache_size"
           /\ \A d : Assign(d, l) = [d EXCEPT !.filter_cache_size = n, !.data_cache_size = n]
  <2>1. ASSUME NEW d \in [K -> Int]
        PROVE  /\ Assign(d, l) \in [K -> Int]
               /\ \A x \in K : Assign(d, l)[x] =
                                IF x \in {"filter_cache_size", "data_cache_size"} THEN n ELSE d[x]
    <3>1. PICK e : e = [d EXCEPT !["filter_cache_size"] = n]
      OBVIOUS
    <3>2. e \in [K -> Int] /\ \A x \in K : e[x] = IF x = "filter_cache_size" THEN n ELSE d[x]
      BY <1>1, <1>3, <3>1
    <3>3. Assign(d, l) = [e EXCEPT !["data_cache_size"] = n]
      BY <1>7, <3>1
    <3> QED BY <1>1, <1>3, <3>2, <3>3
  <2> QED BY <1>1, <1>2, <1>7, <2>1 DEF Values
<1>8. CASE k = "mode" /\ \A d : Assign(d, l) = [d EXCEPT !.mode = m]
  BY <1>1, <1>2, <1>3, <1>8 DEF Values
<1> QED BY <1>4, <1>5, <1>6, <1>7, <1>8

LEMMA ReadsExist ==
    ASSUME NEW lines \in Seq(ConfigLines)
    PROVE  \E f : Reads(lines, f) /\ Parsed(lines) = f[Len(lines)]
<1>1. PICK N \in Nat : N = Len(lines) /\ \A n \in 1 .. N : lines[n] \in ConfigLines
  BY LenProperties, ElementOfSeq
<1> DEFINE Upto(n, f) == /\ f \in [0 .. n -> Values] /\ f[0] = Defaults
                         /\ \A k \in 1 .. n : f[k] = Assign(f[k - 1], lines[k])
           T == {n \in Nat : \E f : Upto(n, f)}
<1>2. 0 \in T
  <2>1. Upto(0, [n \in 0 .. 0 |-> Defaults])
    BY DefaultsTyped
  <2> QED BY <2>1
<1>3. ASSUME NEW n \in 0 .. N - 1, n \in T PROVE n + 1 \in T
  <2>1. PICK f : Upto(n, f)
    BY <1>3
  <2>2. n + 1 \in 1 .. N /\ n \in 0 .. n /\ n + 1 \in Nat
    BY <1>1
  <2>3. PICK c : c = Assign(f[n], lines[n + 1])
    OBVIOUS
  <2>4. c \in Values
    BY <1>1, <2>1, <2>2, <2>3, AssignSets
  <2>5. PICK e : e = [k \in 0 .. n + 1 |-> IF k = n + 1 THEN c ELSE f[k]]
    OBVIOUS
  <2>6. e \in [0 .. n + 1 -> Values]
    BY <2>1, <2>4, <2>5
  <2>7. ASSUME NEW k \in 1 .. n + 1 PROVE e[k] = Assign(e[k - 1], lines[k])
    <3>1. CASE k = n + 1
      <4>1. e[n + 1] = c /\ e[n] = f[n] /\ n + 1 - 1 = n
        BY <2>2, <2>5
      <4> QED BY <3>1, <4>1, <2>3
    <3>2. CASE k # n + 1
      <4>1. k \in 1 .. n /\ k - 1 \in 0 .. n /\ k - 1 # n + 1
        BY <3>2
      <4>2. e[k] = f[k] /\ e[k - 1] = f[k - 1]
        BY <3>2, <4>1, <2>5
      <4> QED BY <4>1, <4>2, <2>1
    <3> QED BY <3>1, <3>2
  <2>8. e[0] = Defaults
    BY <2>1, <2>2, <2>5
  <2>9. Upto(n + 1, e)
    BY <2>6, <2>7, <2>8
  <2> HIDE DEF Upto
  <2> QED BY <2>2, <2>9
<1>4. N \in T
  <2> HIDE DEF T
  <2>1. 0 .. N \subseteq T
    BY <1>1, <1>2, <1>3, Upwards
  <2> QED BY <2>1
<1>5. PICK f : Upto(N, f)
  BY <1>4
<1>6. f = [n \in 0 .. N |-> IF n = 0 THEN Defaults ELSE Assign(f[n - 1], lines[n])]
  BY <1>1, <1>5
<1>7. PICK g : g = CHOOSE h : h = [n \in 0 .. N |-> IF n = 0 THEN Defaults
                                                   ELSE Assign(h[n - 1], lines[n])]
  OBVIOUS
<1>8. g = [n \in 0 .. N |-> IF n = 0 THEN Defaults ELSE Assign(g[n - 1], lines[n])]
  BY <1>6, <1>7
<1>9. Parsed(lines) = g[N]
  BY <1>1, <1>7 DEF Parsed
<1>10. \A n \in 0 .. N : g[n] = f[n]
  <2> DEFINE U == {n \in 0 .. N : g[n] = f[n]}
  <2>0. \A n \in 0 .. N : n # 0 => g[n] = Assign(g[n - 1], lines[n])
    BY <1>8
  <2>1. 0 \in U
    BY <1>1, <1>5, <1>8
  <2>2. ASSUME NEW n \in 0 .. N - 1, n \in U PROVE n + 1 \in U
    <3>1. n + 1 \in 1 .. N /\ n + 1 \in 0 .. N /\ n + 1 # 0 /\ n + 1 - 1 = n
      BY <1>1
    <3>2. g[n + 1] = Assign(g[n], lines[n + 1])
      BY <2>0, <3>1
    <3>3. f[n + 1] = Assign(f[n], lines[n + 1])
      BY <3>1, <1>5
    <3> QED BY <3>1, <3>2, <3>3, <2>2
  <2> HIDE DEF U
  <2>3. 0 .. N \subseteq U
    BY <1>1, <2>1, <2>2, Upwards
  <2> QED BY <2>3 DEF U
<1>11. g[N] = f[N]
  BY <1>1, <1>10
<1> QED BY <1>1, <1>5, <1>9, <1>11 DEF Reads

LEMMA ParsedTyped ==
    ASSUME NEW lines \in Seq(ConfigLines) PROVE Parsed(lines) \in Values
BY ReadsExist, LenProperties DEF Reads

\* One line more.
LEMMA ParsedAppend ==
    ASSUME NEW lines \in Seq(ConfigLines), NEW l \in ConfigLines
    PROVE  Parsed(Append(lines, l)) = Assign(Parsed(lines), l)
<1>1. PICK N \in Nat : N = Len(lines)
  BY LenProperties
<1>2. PICK more : more = Append(lines, l)
  OBVIOUS
<1>3. more \in Seq(ConfigLines) /\ Len(more) = N + 1 /\ more[N + 1] = l
      /\ \A n \in 1 .. N : more[n] = lines[n]
  BY <1>1, <1>2, AppendProperties
<1>4. PICK f : Reads(lines, f) /\ Parsed(lines) = f[N]
  BY <1>1, ReadsExist
<1>5. PICK g : Reads(more, g) /\ Parsed(more) = g[N + 1]
  BY <1>3, ReadsExist
<1> DEFINE T == {n \in 0 .. N : g[n] = f[n]}
<1>6. 0 \in T
  BY <1>1, <1>4, <1>5 DEF Reads
<1>7. ASSUME NEW n \in 0 .. N - 1, n \in T PROVE n + 1 \in T
  <2>1. n + 1 \in 1 .. N /\ n + 1 \in 1 .. N + 1 /\ n + 1 \in 0 .. N /\ n + 1 - 1 = n
    BY <1>1
  <2>2. f[n + 1] = Assign(f[n], lines[n + 1])
    BY <2>1, <1>1, <1>4 DEF Reads
  <2>3. g[n + 1] = Assign(g[n], more[n + 1])
    BY <2>1, <1>3, <1>5 DEF Reads
  <2> QED BY <2>1, <2>2, <2>3, <1>3, <1>7
<1>8. g[N] = f[N]
  <2> HIDE DEF T
  <2>1. 0 .. N \subseteq T
    BY <1>1, <1>6, <1>7, Upwards
  <2> QED BY <2>1 DEF T
<1>9. N + 1 \in 1 .. N + 1 /\ N + 1 - 1 = N
  OBVIOUS
<1>10. g[N + 1] = Assign(g[N], l)
  BY <1>3, <1>5, <1>9 DEF Reads
<1> QED BY <1>2, <1>4, <1>5, <1>8, <1>10

\* What a config without the lines of workload_empty_fraction says otherwise.
LEMMA ParsedKept ==
    ASSUME NEW lines \in Seq(ConfigLines),
           NEW P, P = {i \in 1 .. Len(lines) : lines[i].key # "workload_empty_fraction"}
    PROVE  /\ Kept(lines, P) \in Seq(ConfigLines)
           /\ \A k \in DOMAIN Defaults \ {"workload_empty_fraction"} :
                Parsed(Kept(lines, P))[k] = Parsed(lines)[k]
<1>1. PICK N, kept, K : /\ N = Len(lines) /\ N \in Nat /\ kept = Kept(lines, P)
                        /\ K = DOMAIN Defaults
  BY LenProperties
<1>2. kept \in Seq(ConfigLines) /\ Len(kept) = Cardinality(P) /\ P \in SUBSET (1 .. N)
  BY <1>1, KeptElements
<1>3. \A n \in 1 .. N : lines[n] \in ConfigLines
  BY <1>1, ElementOfSeq
<1>4. PICK f : Reads(lines, f) /\ Parsed(lines) = f[N]
  BY <1>1, ReadsExist
<1>5. PICK g : Reads(kept, g) /\ Parsed(kept) = g[Len(kept)]
  BY <1>2, ReadsExist
<1> DEFINE c(n) == Cardinality(P \cap (1 .. n))
           T == {n \in 0 .. N : /\ c(n) \in 0 .. Len(kept)
                                /\ \A k \in K \ {"workload_empty_fraction"} : g[c(n)][k] = f[n][k]}
<1>6. \A n \in 0 .. N : f[n] \in Values
  BY <1>1, <1>4 DEF Reads
<1>7. \A m \in 0 .. Len(kept) : g[m] \in Values
  BY <1>5 DEF Reads
<1>8. 0 \in T
  <2>1. P \cap (1 .. 0) = {}
    OBVIOUS
  <2>2. c(0) = 0
    BY <2>1, FS_EmptySet
  <2>3. g[0] = Defaults /\ f[0] = Defaults
    BY <1>4, <1>5 DEF Reads
  <2>4. 0 \in 0 .. Len(kept)
    BY <1>2, LenProperties
  <2> HIDE DEF c
  <2> QED BY <1>1, <2>2, <2>3, <2>4
<1>9. ASSUME NEW n \in 0 .. N - 1, n \in T PROVE n + 1 \in T
  <2>1. n + 1 \in 1 .. N /\ n + 1 \in 0 .. N /\ n \in 0 .. N /\ n + 1 - 1 = n
    BY <1>1
  <2>2. PICK l : l = lines[n + 1]
    OBVIOUS
  <2>3. l \in ConfigLines /\ f[n + 1] = Assign(f[n], l)
    BY <1>1, <1>3, <1>4, <2>1, <2>2 DEF Reads
  <2>4. c(n) \in 0 .. Len(kept) /\ f[n] \in Values /\ g[c(n)] \in Values
    BY <1>6, <1>7, <1>9, <2>1
  <2>5. IsFiniteSet(P \cap (1 .. n))
    BY <1>1, <1>2, PlacesUpTo
  <2>6. CASE n + 1 \in P
    <3>1. P \cap (1 .. n + 1) = (P \cap (1 .. n)) \cup {n + 1} /\ n + 1 \notin P \cap (1 .. n)
      BY <2>1, <2>6
    <3>2. c(n + 1) = c(n) + 1
      BY <2>5, <3>1, FS_AddElement
    <3>3. c(n + 1) \in 1 .. Len(kept) /\ kept[c(n + 1)] = l
      BY <1>1, <1>2, <2>2, <2>6, KeptAt
    <3> HIDE DEF c
    <3>4. c(n + 1) - 1 = c(n) /\ c(n + 1) \in 0 .. Len(kept)
      BY <2>4, <3>2, <3>3
    <3>5. g[c(n + 1)] = Assign(g[c(n)], l)
      BY <1>5, <3>3, <3>4 DEF Reads
    <3>6. PICK x, y : x = g[c(n)] /\ y = f[n]
      OBVIOUS
    <3>7. \A k \in K : x[k] = y[k] => Assign(x, l)[k] = Assign(y, l)[k]
      BY <1>1, <2>3, <2>4, <3>6, AssignSets
    <3>8. \A k \in K : g[c(n)][k] = f[n][k] => g[c(n + 1)][k] = f[n + 1][k]
      BY <2>3, <3>5, <3>6, <3>7
    <3> QED BY <1>9, <2>1, <3>4, <3>8
  <2>7. CASE n + 1 \notin P
    <3>1. P \cap (1 .. n + 1) = P \cap (1 .. n)
      BY <1>2, <2>1, <2>7
    <3>2. c(n + 1) = c(n)
      BY <3>1
    <3>3. l.key = "workload_empty_fraction"
      BY <1>1, <2>1, <2>2, <2>7
    <3> HIDE DEF c
    <3>4. PICK y : y = f[n]
      OBVIOUS
    <3>5. \A k \in K \ {"workload_empty_fraction"} : Assign(y, l)[k] = y[k]
      BY <1>1, <2>3, <2>4, <3>3, <3>4, AssignSets
    <3>6. \A k \in K \ {"workload_empty_fraction"} : f[n + 1][k] = f[n][k]
      BY <2>3, <3>4, <3>5
    <3> QED BY <1>9, <2>1, <2>4, <3>2, <3>6
  <2> QED BY <2>6, <2>7
<1>10. c(N) = Len(kept)
  <2>1. P \cap (1 .. N) = P
    BY <1>2
  <2> QED BY <1>2, <2>1
<1>11. N \in T
  <2> HIDE DEF T
  <2>1. 0 .. N \subseteq T
    BY <1>1, <1>8, <1>9, Upwards
  <2> QED BY <1>1, <2>1
<1> HIDE DEF c
<1> QED BY <1>1, <1>2, <1>4, <1>5, <1>10, <1>11

AskedFraction(t) ==
    IF Percent[t] = None THEN Parsed(CONFIG).workload_empty_fraction ELSE Percent[t]

\* The config of a job is that of the whole, but for the fraction asked for.
LEMMA ConfigOfJob ==
    ASSUME NEW t \in Trace, CONFIG \in Configs
    PROVE  /\ Parsed(CONFIG) \in Values /\ Parsed(ConfigFor(t)) \in Values
           /\ \A k \in NameFields : Parsed(ConfigFor(t))[k] = Parsed(CONFIG)[k]
           /\ Parsed(ConfigFor(t)).workload_empty_fraction = AskedFraction(t)
<1>1. CONFIG \in Seq(ConfigLines)
  BY RunnerAssumption
<1>2. Parsed(CONFIG) \in Values
  BY <1>1, ParsedTyped
<1>3. CASE Percent[t] = None
  BY <1>2, <1>3 DEF ConfigFor, AskedFraction
<1>4. CASE Percent[t] # None
  <2>1. PICK P, kept, l : /\ P = {i \in 1 .. Len(CONFIG) :
                                    CONFIG[i].key # "workload_empty_fraction"}
                          /\ kept = Kept(CONFIG, P)
                          /\ l = ConfigLine("workload_empty_fraction", "real", Percent[t])
    OBVIOUS
  <2>2. ConfigFor(t) = Append(kept, l)
    BY <1>4, <2>1 DEF ConfigFor, WithFraction
  <2>3. /\ l \in ConfigLines /\ l.key = "workload_empty_fraction"
        /\ l.kind = "real" /\ l.value = Percent[t]
    <3>1. Percent[t] \in Nat
      BY <1>4, RunnerAssumption
    <3>2. l = [key |-> "workload_empty_fraction", kind |-> "real", value |-> Percent[t]]
      BY <2>1 DEF ConfigLine
    <3> QED BY <3>1, <3>2, DefaultsTyped DEF ConfigLines
  <2>4. kept \in Seq(ConfigLines)
    BY <1>1, <2>1, ParsedKept
  <2>5. PICK c, e : c = Parsed(kept) /\ e = Parsed(ConfigFor(t))
    OBVIOUS
  <2>6. c \in Values /\ e = Assign(c, l)
    BY <2>2, <2>3, <2>4, <2>5, ParsedTyped, ParsedAppend
  <2>7. e \in Values
    BY <2>3, <2>6, AssignSets
  <2>8. \A k \in DOMAIN Defaults \ {"workload_empty_fraction"} : e[k] = Parsed(CONFIG)[k]
    <3>1. \A k \in DOMAIN Defaults \ {"workload_empty_fraction"} : c[k] = Parsed(CONFIG)[k]
      BY <1>1, <2>1, <2>5, ParsedKept
    <3>2. \A k \in DOMAIN Defaults \ {"workload_empty_fraction"} : e[k] = c[k]
      BY <2>3, <2>6, AssignSets
    <3> QED BY <3>1, <3>2
  <2>9. e.workload_empty_fraction = Percent[t]
    <3>1. Assign(c, l) = [c EXCEPT !["workload_empty_fraction"] = Percent[t]]
      BY <2>3 DEF Assign, RealKeys
    <3>2. "workload_empty_fraction" \in DOMAIN c
      BY <2>6, DefaultsTyped DEF Values
    <3> QED BY <2>6, <3>1, <3>2
  <2> QED BY <1>2, <1>4, <2>5, <2>7, <2>8, <2>9, DefaultsTyped DEF AskedFraction
<1> QED BY <1>3, <1>4

(***************************************************************************)
(* The names of the results.                                               *)
(***************************************************************************)
LEMMA Quotient ==
    ASSUME NEW n \in Nat, NEW c \in Nat, NEW p \in Nat, n < p * c
    PROVE  \E q \in 0 .. p - 1, r \in 0 .. c - 1 :
              q = n \div c /\ r = n % c /\ n = c * q + r
<1>1. c # 0
  OBVIOUS
<1>2. PICK q, r : q = n \div c /\ r = n % c
  OBVIOUS
<1>3. q \in Int /\ r \in 0 .. c - 1 /\ n = c * q + r
  BY <1>1, <1>2
<1>4. ASSUME q < 0 PROVE FALSE
  <2>1. c * q = c * (q + 1) - c /\ c * (q + 1) <= 0
    BY <1>1, <1>3, <1>4
  <2> QED BY <1>3, <2>1
<1>5. ASSUME p <= q PROVE FALSE
  <2>1. c * q = c * p + c * (q - p) /\ c * (q - p) >= 0 /\ c * p = p * c
    BY <1>3, <1>5
  <2> QED BY <1>3, <2>1
<1>6. q \in 0 .. p - 1
  BY <1>3, <1>4, <1>5
<1> QED BY <1>2, <1>3, <1>6

\* Two simulations differ in the policy or in the caches.
LEMMA CallsDiffer ==
    /\ Len(Calls) \in Nat
    /\ \A i, j \in 1 .. Len(Calls) :
          Calls[i].policy = Calls[j].policy /\ Calls[i].cache = Calls[j].cache => i = j
<1>1. PICK p, c : p = Len(PolicyOrder) /\ c = Len(CacheOrder)
  OBVIOUS
<1>2. p \in Nat /\ c \in Nat
  BY <1>1, CallsAssumption, LenProperties
<1>3. p * c \in Nat
  BY <1>2
<1>4. Calls = [i \in 1 .. p * c |-> [policy |-> PolicyOrder[((i - 1) \div c) + 1],
                                    cache |-> CacheOrder[((i - 1) % c) + 1]]]
  BY <1>1 DEF Calls
<1>5. Len(Calls) = p * c
  BY <1>3, <1>4
<1>6. ASSUME NEW i \in 1 .. p * c
      PROVE  \E q \in 0 .. p - 1, r \in 0 .. c - 1 :
                q = (i - 1) \div c /\ r = (i - 1) % c /\ i - 1 = c * q + r
  <2>1. PICK n \in Nat : n = i - 1 /\ n < p * c
    BY <1>3
  <2> QED BY <1>2, <2>1, Quotient
<1>7. ASSUME NEW i \in 1 .. p * c, NEW j \in 1 .. p * c,
             Calls[i].policy = Calls[j].policy, Calls[i].cache = Calls[j].cache
      PROVE  i = j
  <2>1. PICK q \in 0 .. p - 1, r \in 0 .. c - 1 :
                q = (i - 1) \div c /\ r = (i - 1) % c /\ i - 1 = c * q + r
    BY <1>6
  <2>2. PICK s \in 0 .. p - 1, u \in 0 .. c - 1 :
                s = (j - 1) \div c /\ u = (j - 1) % c /\ j - 1 = c * s + u
    BY <1>6
  <2>3. PolicyOrder[q + 1] = PolicyOrder[s + 1] /\ CacheOrder[r + 1] = CacheOrder[u + 1]
    BY <1>4, <1>7, <2>1, <2>2
  <2>4. q + 1 \in DOMAIN PolicyOrder /\ s + 1 \in DOMAIN PolicyOrder
        /\ r + 1 \in DOMAIN CacheOrder /\ u + 1 \in DOMAIN CacheOrder
    BY <1>1, <1>2, CallsAssumption, LenProperties
  <2>5. q = s /\ r = u
    <3>1. q + 1 = s + 1 /\ r + 1 = u + 1
      BY <2>3, <2>4, CallsAssumption DEF IsInjective
    <3> QED BY <3>1
  <2>6. i - 1 = j - 1
    BY <2>1, <2>2, <2>5
  <2> QED BY <1>3, <2>6
<1> QED BY <1>3, <1>5, <1>7

LEMMA NamesDiffer ==
    ASSUME NEW c
    PROVE  /\ \A i, j \in 1 .. Len(Calls) :
                ResultName(Calls[i], c) = ResultName(Calls[j], c) => i = j
           /\ IsFiniteSet(Names(c)) /\ Cardinality(Names(c)) = Len(Calls)
<1>1. \A i, j \in 1 .. Len(Calls) : ResultName(Calls[i], c) = ResultName(Calls[j], c) => i = j
  BY CallsDiffer DEF ResultName
<1>2. PICK f : f = [i \in 1 .. Len(Calls) |-> ResultName(Calls[i], c)]
  OBVIOUS
<1>3. f \in Surjection(1 .. Len(Calls), Names(c)) /\ f \in Injection(1 .. Len(Calls), Names(c))
  BY <1>1, <1>2 DEF Surjection, Injection, IsInjective, Names
<1>4. IsFiniteSet(1 .. Len(Calls)) /\ Cardinality(1 .. Len(Calls)) = Len(Calls)
  BY CallsDiffer, FirstNumbers
<1> QED BY <1>1, <1>3, <1>4, FS_Surjection

\* The fraction is not in the name.
LEMMA SameName ==
    ASSUME NEW t \in Trace, CONFIG \in Configs, NEW i \in 1 .. Len(Calls)
    PROVE  ResultName(Calls[i], Parsed(ConfigFor(t))) = ResultName(Calls[i], Parsed(CONFIG))
BY ConfigOfJob DEF ResultName

(***************************************************************************)
(* run_all_traces.sh and main.cc: whose results are in a log directory.    *)
(* The invariant says, of a trace with a directory of its own, how far it  *)
(* has come: what its copy of the config says, what it has read of it, and *)
(* which of its logs it has replaced.                                      *)
(***************************************************************************)
\* No other job has the log directory of t.
Alone(t) == \A u \in Trace : LogDir[u] = LogDir[t] => u = t

\* What t has read and written so far.
SoFar(t) ==
    /\ job[t] = "start" \/ simulator[t] = "starting" => copy[LogDir[t]] = ConfigFor(t)
    /\ simulator[t] \in {"running", "ok"} => config[t] = Parsed(ConfigFor(t))
    /\ written[t] \in 0 .. Len(Calls)
    /\ simulator[t] \in {"none", "starting"} => written[t] = 0
    /\ simulator[t] = "ok" => written[t] = Len(Calls)
    /\ DOMAIN results[LogDir[t]] = Names(Parsed(CONFIG))
    /\ \A i \in 1 .. Len(Calls) :
          results[LogDir[t]][ResultName(Calls[i], Parsed(CONFIG))] =
              IF i <= written[t] THEN Log(t, AskedFraction(t)) ELSE Before

OwnInv ==
    /\ CONFIG \in Configs
    /\ DOMAIN copy = Dirs /\ DOMAIN results = Dirs
    /\ DOMAIN config = Trace /\ DOMAIN written = Trace
    /\ \A t \in Trace : Alone(t) => SoFar(t)

\* What a job wrote and read stays, whatever others do.
LEMMA SoFarStays ==
    ASSUME NEW t \in Trace, SoFar(t), UNCHANGED CONFIG,
           \/ copy'[LogDir[t]] = copy[LogDir[t]]
           \/ job'[t] # "start" /\ simulator'[t] # "starting",
           results'[LogDir[t]] = results[LogDir[t]],
           config'[t] = config[t], written'[t] = written[t],
           job'[t] = job[t] \/ job'[t] # "start",
           simulator'[t] \in {simulator[t], "killed"}
    PROVE  SoFar(t)'
<1>1. /\ Parsed(CONFIG)' = Parsed(CONFIG) /\ ConfigFor(t)' = ConfigFor(t)
      /\ Parsed(ConfigFor(t))' = Parsed(ConfigFor(t))
      /\ AskedFraction(t)' = AskedFraction(t)
  BY DEF ConfigFor, AskedFraction
<1> QED BY <1>1 DEF SoFar

\* Reading the copy gives the config of the job.
LEMMA ReadOwn ==
    ASSUME IInv, OwnInv, NEW t \in Trace, SoFar(t), ReadConfig(t)
    PROVE  SoFar(t)'
<1>1. UNCHANGED <<CONFIG, job, written, results, copy>>
  BY DEF ReadConfig, shell
<1>2. /\ Parsed(CONFIG)' = Parsed(CONFIG) /\ ConfigFor(t)' = ConfigFor(t)
      /\ Parsed(ConfigFor(t))' = Parsed(ConfigFor(t))
      /\ AskedFraction(t)' = AskedFraction(t)
  BY <1>1 DEF ConfigFor, AskedFraction
<1>3. simulator[t] = "starting" /\ written[t] = 0 /\ copy[LogDir[t]] = ConfigFor(t)
  BY DEF ReadConfig, SoFar
<1>4. job[t] # "start"
  BY <1>3 DEF IInv, JobFollowsSimulator
<1>5. \/ simulator'[t] = "running" /\ config'[t] = Parsed(ConfigFor(t))
      \/ simulator'[t] = "failed"
  BY <1>3 DEF ReadConfig, OwnInv, IInv, StateTypeOK
<1> QED BY <1>1, <1>2, <1>3, <1>4, <1>5 DEF SoFar

\* Each simulation adds its log to those before it.
LEMMA SimulateOwn ==
    ASSUME IInv, OwnInv, NEW t \in Trace, SoFar(t), Simulate(t)
    PROVE  SoFar(t)'
<1>1. UNCHANGED <<CONFIG, job, config, copy>>
  BY DEF Simulate, shell
<1>2. /\ Parsed(CONFIG)' = Parsed(CONFIG) /\ ConfigFor(t)' = ConfigFor(t)
      /\ Parsed(ConfigFor(t))' = Parsed(ConfigFor(t))
      /\ AskedFraction(t)' = AskedFraction(t)
  BY <1>1 DEF ConfigFor, AskedFraction
<1>3. simulator[t] = "running" /\ written[t] < Len(Calls) /\ config[t] = Parsed(ConfigFor(t))
  BY DEF Simulate, SoFar
<1>4. job[t] # "start" /\ simulator \in [Trace -> SimulatorState]
  BY <1>3 DEF IInv, StateTypeOK, JobFollowsSimulator
<1>5. CASE UNCHANGED <<written, results>> /\ simulator' = [simulator EXCEPT ![t] = "failed"]
  <2>1. simulator'[t] = "failed"
    BY <1>4, <1>5
  <2> QED BY <1>1, <1>2, <1>3, <1>4, <1>5, <2>1 DEF SoFar
<1>6. CASE ~ (UNCHANGED <<written, results>> /\ simulator' = [simulator EXCEPT ![t] = "failed"])
  <2>1. PICK w, d, asked : w = written[t] + 1 /\ d = LogDir[t] /\ asked = Parsed(CONFIG)
    OBVIOUS
  <2>2. w \in 1 .. Len(Calls) /\ w = written[t] + 1 /\ Len(Calls) \in Nat /\ written[t] \in Nat
    BY <1>3, <2>1, CallsDiffer DEF SoFar
  <2>3. PICK name, log : name = ResultName(Calls[w], asked) /\ log = Log(t, AskedFraction(t))
    OBVIOUS
  <2>4. /\ name = ResultName(Calls[written[t] + 1], config[t])
        /\ log = Log(t, config[t].workload_empty_fraction)
    BY <1>3, <2>1, <2>2, <2>3, SameName, ConfigOfJob DEF OwnInv
  <2>5. /\ written' = [written EXCEPT ![t] = w]
        /\ results' = [results EXCEPT ![d] =
                         [n \in DOMAIN @ \cup {name} |-> IF n = name THEN log ELSE @[n]]]
        /\ UNCHANGED simulator
    BY <1>6, <2>1, <2>4 DEF Simulate
  <2>6. written'[t] = w /\ d \in Dirs
    BY <2>1, <2>5 DEF OwnInv, Dirs
  <2>7. results'[d] = [n \in DOMAIN results[d] \cup {name} |->
                          IF n = name THEN log ELSE results[d][n]]
    BY <2>5, <2>6 DEF OwnInv
  <2>8. DOMAIN results[d] = Names(asked) /\ name \in Names(asked)
    BY <2>1, <2>2, <2>3 DEF SoFar, Names
  <2>9. DOMAIN results'[d] = Names(asked)
    BY <2>7, <2>8
  <2>10. ASSUME NEW i \in 1 .. Len(Calls)
         PROVE  results'[d][ResultName(Calls[i], asked)] = IF i <= w THEN log ELSE Before
    <3>1. PICK n : n = ResultName(Calls[i], asked) /\ n \in Names(asked)
      BY DEF Names
    <3>2. n = name <=> i = w
      BY <2>2, <2>3, <3>1, NamesDiffer
    <3>3. results[d][n] = IF i <= written[t] THEN log ELSE Before
      BY <2>1, <2>3, <3>1 DEF SoFar
    <3>4. results'[d][n] = IF n = name THEN log ELSE results[d][n]
      BY <2>7, <2>8, <3>1
    <3> QED BY <2>2, <3>1, <3>2, <3>3, <3>4
  <2>11. /\ (job[t] = "start" \/ simulator[t] = "starting" => copy[LogDir[t]] = ConfigFor(t))'
         /\ (simulator[t] \in {"running", "ok"} => config[t] = Parsed(ConfigFor(t)))'
         /\ (simulator[t] \in {"none", "starting"} => written[t] = 0)'
         /\ (simulator[t] = "ok" => written[t] = Len(Calls))'
    BY <1>1, <1>2, <1>3, <1>4, <2>5
  <2>12. (written[t] \in 0 .. Len(Calls))'
    BY <2>2, <2>6
  <2>13. (DOMAIN results[LogDir[t]] = Names(Parsed(CONFIG)))'
    BY <1>2, <2>1, <2>9 DEF Names
  <2>14. (\A i \in 1 .. Len(Calls) :
             results[LogDir[t]][ResultName(Calls[i], Parsed(CONFIG))] =
                 IF i <= written[t] THEN Log(t, AskedFraction(t)) ELSE Before)'
    BY <1>2, <2>1, <2>3, <2>6, <2>10
  <2> QED BY <2>11, <2>12, <2>13, <2>14 DEF SoFar
<1> QED BY <1>5, <1>6

\* The other steps of the job.
LEMMA JobOwn ==
    ASSUME IInv, OwnInv, NEW t \in Trace, SoFar(t), Job(t)
    PROVE  SoFar(t)'
<1>1. LogDir[t] \in Dirs /\ job \in [Trace -> JobState] /\ simulator \in [Trace -> SimulatorState]
  BY DEF Dirs, IInv, StateTypeOK
<1>2. CASE OpenConfig(t)
  <2>1. simulator[t] = "none" /\ UNCHANGED <<CONFIG, simulator, written, config, results>>
    BY <1>2 DEF OpenConfig, shell, simulators, IInv, JobFollowsSimulator
  <2>2. job'[t] \in {"copy", "failed"}
    BY <1>1, <1>2 DEF OpenConfig
  <2> QED BY <2>1, <2>2, SoFarStays
<1>3. CASE WriteConfig(t)
  <2>1. simulator[t] = "none" /\ UNCHANGED <<CONFIG, simulator, written, config, results>>
    BY <1>3 DEF WriteConfig, shell, simulators, IInv, JobFollowsSimulator
  <2>2. CASE job'[t] # "start"
    BY <2>1, <2>2, SoFarStays
  <2>3. CASE job'[t] = "start"
    <3>1. copy' = [copy EXCEPT ![LogDir[t]] = ConfigFor(t)]
      BY <1>1, <1>3, <2>3 DEF WriteConfig
    <3>2. copy'[LogDir[t]] = ConfigFor(t)
      BY <1>1, <3>1 DEF OwnInv
    <3>3. /\ Parsed(CONFIG)' = Parsed(CONFIG) /\ ConfigFor(t)' = ConfigFor(t)
          /\ AskedFraction(t)' = AskedFraction(t)
      BY <2>1 DEF ConfigFor, AskedFraction
    <3> QED BY <2>1, <3>2, <3>3 DEF SoFar
  <2> QED BY <2>2, <2>3
<1>4. CASE StartSimulator(t)
  <2>1. UNCHANGED <<CONFIG, written, config, results, copy>>
    BY <1>4 DEF StartSimulator, shell
  <2>2. job[t] = "start" /\ simulator[t] = "none" /\ job'[t] = "wait" /\ simulator'[t] = "starting"
    BY <1>1, <1>4 DEF StartSimulator, IInv, JobFollowsSimulator
  <2>3. /\ Parsed(CONFIG)' = Parsed(CONFIG) /\ ConfigFor(t)' = ConfigFor(t)
        /\ AskedFraction(t)' = AskedFraction(t)
    BY <2>1 DEF ConfigFor, AskedFraction
  <2> QED BY <2>1, <2>2, <2>3 DEF SoFar
<1>5. CASE EndSimulator(t)
  <2>1. UNCHANGED <<CONFIG, job, written, config, results, copy>>
    BY <1>5 DEF EndSimulator, shell
  <2>2. simulator[t] = "running" /\ simulator'[t] = "ok" /\ written[t] = Len(Calls)
    BY <1>1, <1>5 DEF EndSimulator
  <2>3. job[t] # "start"
    BY <2>2 DEF IInv, JobFollowsSimulator
  <2>4. /\ Parsed(CONFIG)' = Parsed(CONFIG) /\ ConfigFor(t)' = ConfigFor(t)
        /\ Parsed(ConfigFor(t))' = Parsed(ConfigFor(t))
        /\ AskedFraction(t)' = AskedFraction(t)
    BY <2>1 DEF ConfigFor, AskedFraction
  <2> QED BY <2>1, <2>2, <2>3, <2>4 DEF SoFar
<1>6. CASE EndJob(t)
  <2>1. UNCHANGED <<CONFIG, simulator, written, config, results>>
    BY <1>6 DEF EndJob, shell, simulators
  <2>2. simulator[t] \in {"ok", "failed"} /\ job'[t] = simulator[t]
    BY <1>1, <1>6 DEF EndJob
  <2> QED BY <2>1, <2>2, SoFarStays
<1> QED BY <1>2, <1>3, <1>4, <1>5, <1>6, ReadOwn, SimulateOwn DEF Job

\* Another job works in another directory.
LEMMA OtherJobs ==
    ASSUME IInv, OwnInv, NEW t \in Trace, Alone(t), NEW u \in Trace, u # t, Job(u)
    PROVE  SoFar(t)'
<1>1. LogDir[u] # LogDir[t] /\ LogDir[u] \in Dirs /\ LogDir[t] \in Dirs
  BY DEF Alone, Dirs
<1>2. SoFar(t) /\ UNCHANGED CONFIG
  BY DEF OwnInv, Job, OpenConfig, WriteConfig, StartSimulator, ReadConfig, Simulate, EndSimulator,
         EndJob, shell
<1>3. job'[t] = job[t] /\ simulator'[t] = simulator[t]
  BY DEF IInv, StateTypeOK, Job, OpenConfig, WriteConfig, StartSimulator, ReadConfig, Simulate,
         EndSimulator, EndJob, simulators
<1>4. copy'[LogDir[t]] = copy[LogDir[t]] /\ config'[t] = config[t] /\ written'[t] = written[t]
  BY <1>1 DEF OwnInv, Job, OpenConfig, WriteConfig, StartSimulator, ReadConfig, Simulate,
              EndSimulator, EndJob, simulators
<1>5. results'[LogDir[t]] = results[LogDir[t]]
  <2>1. CASE Simulate(u)
    BY <1>1, <2>1 DEF OwnInv, Simulate
  <2>2. CASE ~ Simulate(u)
    BY <2>2 DEF Job, OpenConfig, WriteConfig, StartSimulator, ReadConfig, EndSimulator, EndJob,
                simulators
  <2> QED BY <2>1, <2>2
<1> QED BY <1>2, <1>3, <1>4, <1>5, SoFarStays

LEMMA OwnStep == IInv /\ OwnInv /\ [Next]_vars => OwnInv'
<1> SUFFICES ASSUME IInv, OwnInv, [Next]_vars PROVE OwnInv'
  OBVIOUS
<1>1. \/ UNCHANGED <<CONFIG, copy, results, config, written>>
      \/ \E u \in Trace : Job(u)
  BY DEF Next, Main, Launch, Reap, Finish, KillAll, Interrupt, vars, shell, simulators
<1>2. /\ UNCHANGED CONFIG
      /\ DOMAIN copy' = Dirs /\ DOMAIN results' = Dirs
      /\ DOMAIN config' = Trace /\ DOMAIN written' = Trace
  BY <1>1 DEF OwnInv, Job, OpenConfig, WriteConfig, StartSimulator, ReadConfig, Simulate,
              EndSimulator, EndJob, shell, simulators
<1>3. ASSUME NEW t \in Trace, Alone(t) PROVE SoFar(t)'
  <2>1. SoFar(t)
    BY <1>3 DEF OwnInv
  <2>2. CASE \E u \in Trace : Job(u)
    BY <1>3, <2>1, <2>2, JobOwn, OtherJobs
  <2>3. CASE ~ \E u \in Trace : Job(u)
    <3>1. job \in [Trace -> JobState] /\ simulator \in [Trace -> SimulatorState]
      BY DEF IInv, StateTypeOK
    <3>2. /\ job'[t] = job[t] \/ job'[t] # "start"
          /\ simulator'[t] \in {simulator[t], "killed"}
      <4>1. CASE Launch
        <5>1. job' = [job EXCEPT ![Traces[started + 1]] = "config"] /\ simulator' = simulator
          BY <4>1 DEF Launch, simulators
        <5> QED BY <3>1, <5>1
      <4>2. ASSUME NEW u \in Trace, Reap(u)
            PROVE  /\ job'[t] = job[t] \/ job'[t] # "start"
                   /\ simulator'[t] \in {simulator[t], "killed"}
        <5>1. PICK s \in {"reaped_ok", "reaped_failed"} : job' = [job EXCEPT ![u] = s]
          BY <3>1, <4>2 DEF Reap
        <5>2. simulator' = simulator
          BY <4>2 DEF Reap, simulators
        <5> QED BY <3>1, <5>1, <5>2
      <4>3. CASE KillAll
        <5>1. job'[t] \in {job[t], "killed"} /\ simulator'[t] \in {simulator[t], "killed"}
          BY <4>3 DEF KillAll
        <5> QED BY <5>1
      <4>4. CASE Finish \/ Interrupt \/ UNCHANGED vars
        BY <4>4 DEF Finish, Interrupt, vars, simulators
      <4> QED BY <2>3, <4>1, <4>2, <4>3, <4>4 DEF Next, Main
    <3> QED BY <1>1, <2>1, <2>3, <3>2, SoFarStays
  <2> QED BY <2>2, <2>3
<1> QED BY <1>2, <1>3 DEF OwnInv, Alone

LEMMA OwnInitially == Init => OwnInv
<1> SUFFICES ASSUME Init PROVE OwnInv
  OBVIOUS
<1>1. ASSUME NEW t \in Trace PROVE SoFar(t)
  <2>1. PICK d, asked : d = LogDir[t] /\ asked = Parsed(CONFIG)
    OBVIOUS
  <2>2. d \in Dirs /\ results[d] = [n \in Names(asked) |-> Before]
    BY <2>1 DEF Init, Dirs
  <2>3. \A i \in 1 .. Len(Calls) : results[d][ResultName(Calls[i], asked)] = Before
    BY <2>2 DEF Names
  <2>4. job[t] = "new" /\ simulator[t] = "none" /\ written[t] = 0 /\ Len(Calls) \in Nat
    BY CallsDiffer DEF Init
  <2> QED BY <2>1, <2>2, <2>3, <2>4 DEF SoFar
<1> QED BY <1>1 DEF Init, OwnInv

\* run_all_traces.sh: if a trace ended well and no other has its log directory,
\* every log of its simulations there is its own, none is of an earlier run or of
\* another of its simulations, and each is for the fraction its name asks for.
THEOREM ResultsAreOwn == Spec => []OwnResults
<1>1. IInv /\ OwnInv => OwnResults
  <2> SUFFICES ASSUME IInv, OwnInv, NEW t \in Trace, job[t] \in {"ok", "reaped_ok"}, Alone(t),
                      NEW asked, asked = Parsed(CONFIG),
                      NEW own, own = {n \in DOMAIN results[LogDir[t]] :
                                         results[LogDir[t]][n] = Log(t, AskedFraction(t))}
               PROVE  Names(asked) \subseteq own /\ Cardinality(own) = Len(Calls)
    BY DEF OwnResults, Alone, AskedFraction
  <2>1. SoFar(t) /\ simulator[t] = "ok"
    BY DEF OwnInv, IInv, JobFollowsSimulator
  <2>2. written[t] = Len(Calls) /\ Len(Calls) \in Nat
    BY <2>1, CallsDiffer DEF SoFar
  <2>3. \A i \in 1 .. Len(Calls) :
           results[LogDir[t]][ResultName(Calls[i], asked)] = Log(t, AskedFraction(t))
    BY <2>1, <2>2 DEF SoFar
  <2>4. DOMAIN results[LogDir[t]] = Names(asked)
    BY <2>1 DEF SoFar
  <2>5. own = Names(asked)
    BY <2>3, <2>4 DEF Names
  <2> QED BY <2>5, NamesDiffer
<1>2. IInv /\ OwnInv /\ [Next]_vars => (IInv /\ OwnInv)'
  BY StepInv, OwnStep
<1>3. Init => IInv /\ OwnInv
  BY InitInv, OwnInitially
<1> QED BY <1>1, <1>2, <1>3, PTL DEF Spec

(***************************************************************************)
(* analyze_trace.  The rows alone are not inductive.  What makes right to  *)
(* look only at the files placed since the last Get is that a live file    *)
(* was placed since then, or was in place at an earlier one.               *)
(***************************************************************************)
Key == Level \X File
ProbesAt(k) == {p \in probes : p[3] = k[1] /\ p[4] = k[2]}
EmptyAt(k) == {p \in ProbesAt(k) : p[5]}

TableOK ==
    /\ gets \in Nat
    /\ DOMAIN live_levels \subseteq File
    /\ IsFiniteSet(probes)
    /\ \A p \in probes : p = <<p[1], p[2], p[3], p[4], p[5]>> /\ p[1] \in Nat /\ p[1] < gets

\* A live file has a row, or is looked at by the next Get.
NoneForgotten ==
    \A f \in DOMAIN live_levels : f \in placed \/ <<live_levels[f], f>> \in in_place

TableInv == TableOK /\ NoneForgotten /\ RowsExact

LEMMA TableInitInv == AnalyzeInit => TableInv
<1> SUFFICES ASSUME AnalyzeInit PROVE TableInv
  OBVIOUS
<1>1. /\ DOMAIN live_levels = {} /\ DOMAIN access_map = {} /\ probes = {} /\ in_place = {}
      /\ gets = 0
  BY DEF AnalyzeInit
<1> QED BY <1>1, FS_EmptySet DEF TableInv, TableOK, NoneForgotten, RowsExact

LEMMA PlaceInv ==
    ASSUME TableInv, NEW f \in File, NEW l \in Level, PlaceFile(f, l)
    PROVE  TableInv'
<1>1. /\ live_levels' = Add(live_levels, f, l) /\ placed' = placed \cup {f}
      /\ UNCHANGED <<access_map, gets, in_place, probes>>
  BY DEF PlaceFile
<1>2. /\ DOMAIN live_levels' = DOMAIN live_levels \cup {f}
      /\ \A g \in DOMAIN live_levels \ {f} : live_levels'[g] = live_levels[g]
  BY <1>1 DEF Add
<1> QED BY <1>1, <1>2 DEF TableInv, TableOK, NoneForgotten, RowsExact

LEMMA DeleteInv ==
    ASSUME TableInv, NEW f \in File, DeleteFile(f)
    PROVE  TableInv'
<1>1. /\ live_levels' = Drop(live_levels, f)
      /\ UNCHANGED <<placed, access_map, gets, in_place, probes>>
  BY DEF DeleteFile
<1>2. /\ DOMAIN live_levels' = DOMAIN live_levels \ {f}
      /\ \A g \in DOMAIN live_levels' : live_levels'[g] = live_levels[g]
  BY <1>1 DEF Drop
<1> QED BY <1>1, <1>2 DEF TableInv, TableOK, NoneForgotten, RowsExact

\* Of the probes of the nth Get, those with the numbers `made', as the history
\* keeps them.
History(n, get, made) ==
    {<<n, i, get[i].level, get[i].file, get[i].not_found>> : i \in made}

\* They are as many as were made: what a row is to count grows by those it is given.
LEMMA AsManyMade ==
    ASSUME NEW old, IsFiniteSet(old), NEW n, \A x \in old : x[1] # n,
           NEW get, NEW made, IsFiniteSet(made)
    PROVE  /\ IsFiniteSet(old \cup History(n, get, made))
           /\ Cardinality(old) \in Nat /\ Cardinality(made) \in Nat
           /\ Cardinality(old \cup History(n, get, made))
                 = Cardinality(old) + Cardinality(made)
<1>0. PICK new : new = History(n, get, made)
  OBVIOUS
<1> DEFINE tuple == [i \in made |-> <<n, i, get[i].level, get[i].file, get[i].not_found>>]
<1>1. tuple \in Bijection(made, new)
  <2>1. tuple \in [made -> new] /\ \A x \in new : \E i \in made : tuple[i] = x
    BY <1>0 DEF History
  <2>2. ASSUME NEW i \in made, NEW j \in made, tuple[i] = tuple[j]
        PROVE  i = j
    BY <2>2
  <2> HIDE DEF tuple
  <2> QED BY <2>1, <2>2 DEF Bijection, Injection, Surjection, IsInjective
<1>2. ExistsBijection(made, new)
  BY <1>1 DEF ExistsBijection
<1>3. IsFiniteSet(new) /\ Cardinality(new) = Cardinality(made)
  BY <1>2, FS_Bijection
<1>4. old \cap new = {}
  <2>1. \A x \in new : x[1] = n
    BY <1>0 DEF History
  <2> QED BY <2>1
<1>5. /\ IsFiniteSet(old \cup new)
      /\ Cardinality(old \cup new)
            = Cardinality(old) + Cardinality(new) - Cardinality(old \cap new)
  BY <1>3, FS_Union
<1>6. Cardinality(old) \in Nat /\ Cardinality(made) \in Nat /\ Cardinality(old \cap new) = 0
  BY <1>4, FS_CardinalityType, FS_EmptySet
<1>7. Cardinality(old \cup new) = Cardinality(old) + Cardinality(made) - 0
  BY <1>3, <1>5, <1>6
<1> QED BY <1>0, <1>5, <1>6, <1>7

\* A Get of any number of probes.
LEMMA GetInv ==
    ASSUME TableInv, NEW get \in Seq(Probe), Get(get)
    PROVE  TableInv'
<1> DEFINE keys == {<<get[i].level, get[i].file>> : i \in 1 .. Len(get)}
           rows == WithRows(access_map, PlacedRows \cup keys)
           Made(k) == {i \in 1 .. Len(get) : get[i].level = k[1] /\ get[i].file = k[2]}
           MadeEmpty(k) == {i \in Made(k) : get[i].not_found}
           new == History(gets, get, 1 .. Len(get))
<1>0. IsFiniteSet(1 .. Len(get))
  BY FS_Interval, LenProperties
<1>1. /\ access_map' = [k \in DOMAIN rows |->
                           [total |-> rows[k].total + Cardinality(Made(k)),
                            empty |-> rows[k].empty + Cardinality(MadeEmpty(k))]]
      /\ gets' = gets + 1
      /\ in_place' = in_place \cup {<<live_levels[f], f>> : f \in DOMAIN live_levels}
      /\ probes' = probes \cup new
      /\ live_levels' = live_levels
  BY DEF Get, History
<1>2. /\ gets \in Nat /\ IsFiniteSet(probes) /\ DOMAIN live_levels \subseteq File
      /\ \A p \in probes : p = <<p[1], p[2], p[3], p[4], p[5]>> /\ p[1] \in Nat /\ p[1] < gets
      /\ DOMAIN access_map = in_place \cup {<<p[3], p[4]>> : p \in probes}
      /\ \A k \in DOMAIN access_map : /\ access_map[k].total = Cardinality(ProbesAt(k))
                                      /\ access_map[k].empty = Cardinality(EmptyAt(k))
  BY DEF TableInv, TableOK, RowsExact, ProbesAt, EmptyAt
<1>3. \A p \in probes : p[1] # gets
  BY <1>2
<1>4. TableOK'
  <2>1. IsFiniteSet(probes \cup new)
    BY <1>0, <1>2, <1>3, AsManyMade
  <2>2. ASSUME NEW p \in probes \cup new
        PROVE  p = <<p[1], p[2], p[3], p[4], p[5]>> /\ p[1] \in Nat /\ p[1] < gets + 1
    <3>1. CASE p \in probes
      BY <1>2, <3>1
    <3>2. CASE p \in new
      BY <1>2, <3>2 DEF History
    <3> QED BY <3>1, <3>2
  <2> QED BY <1>1, <1>2, <2>1, <2>2 DEF TableOK
<1>5. NoneForgotten'
  BY <1>1 DEF NoneForgotten
<1>6. DOMAIN rows = DOMAIN access_map \cup PlacedRows \cup keys
  BY DEF WithRows
<1>7. DOMAIN access_map' = in_place' \cup {<<p[3], p[4]>> : p \in probes'}
  <2>1. DOMAIN access_map' = DOMAIN access_map \cup PlacedRows \cup keys
    BY <1>1, <1>6
  <2>2. in_place \cup PlacedRows = in_place'
    BY <1>1 DEF TableInv, NoneForgotten, PlacedRows
  <2>3. /\ \A p \in new : <<p[3], p[4]>> \in keys
        /\ \A x \in keys : \E p \in new : x = <<p[3], p[4]>>
    <3>1. ASSUME NEW p \in new PROVE <<p[3], p[4]>> \in keys
      <4>1. PICK i \in 1 .. Len(get) :
                p = <<gets, i, get[i].level, get[i].file, get[i].not_found>>
        BY DEF History
      <4> QED BY <4>1
    <3>2. ASSUME NEW x \in keys PROVE \E p \in new : x = <<p[3], p[4]>>
      <4>1. PICK i \in 1 .. Len(get) : x = <<get[i].level, get[i].file>>
        OBVIOUS
      <4>2. <<gets, i, get[i].level, get[i].file, get[i].not_found>> \in new
        BY DEF History
      <4> QED BY <4>1, <4>2
    <3> QED BY <3>1, <3>2
  <2>4. {<<p[3], p[4]>> : p \in probes'} = {<<p[3], p[4]>> : p \in probes} \cup keys
    <3> HIDE DEF new, keys
    <3> QED BY <1>1, <2>3
  <2> QED BY <1>2, <2>1, <2>2, <2>4
<1>8. ASSUME NEW k \in DOMAIN access_map'
      PROVE  /\ access_map'[k].total = Cardinality(ProbesAt(k)')
             /\ access_map'[k].empty = Cardinality(EmptyAt(k)')
  <2>1. k \in DOMAIN rows
    BY <1>1
  <2>2. rows[k].total = Cardinality(ProbesAt(k)) /\ rows[k].empty = Cardinality(EmptyAt(k))
    <3>1. CASE k \in DOMAIN access_map
      BY <1>2, <2>1, <3>1 DEF WithRows
    <3>2. CASE k \notin DOMAIN access_map
      <4>1. rows[k] = NewRow
        BY <2>1, <3>2 DEF WithRows
      <4>2. k = <<k[1], k[2]>>
        BY <1>6, <2>1, <3>2 DEF PlacedRows
      <4>3. ProbesAt(k) = {} /\ EmptyAt(k) = {}
        BY <1>2, <3>2, <4>2 DEF ProbesAt, EmptyAt
      <4> QED BY <4>1, <4>3, FS_EmptySet DEF NewRow
    <3> QED BY <3>1, <3>2
  <2>3. /\ IsFiniteSet(ProbesAt(k)) /\ IsFiniteSet(EmptyAt(k))
        /\ IsFiniteSet(Made(k)) /\ IsFiniteSet(MadeEmpty(k))
    <3>1. ProbesAt(k) \subseteq probes /\ EmptyAt(k) \subseteq probes
          /\ Made(k) \subseteq 1 .. Len(get) /\ MadeEmpty(k) \subseteq 1 .. Len(get)
      BY DEF ProbesAt, EmptyAt
    <3> QED BY <1>0, <1>2, <3>1, FS_Subset
  <2>4. ProbesAt(k)' = ProbesAt(k) \cup History(gets, get, Made(k))
    BY <1>1 DEF ProbesAt, History
  <2>5. EmptyAt(k)' = EmptyAt(k) \cup History(gets, get, MadeEmpty(k))
    BY <2>4 DEF EmptyAt, History
  <2>6. /\ \A x \in ProbesAt(k) : x[1] # gets
        /\ \A x \in EmptyAt(k) : x[1] # gets
    BY <1>3 DEF ProbesAt, EmptyAt
  <2>7. Cardinality(ProbesAt(k)') = Cardinality(ProbesAt(k)) + Cardinality(Made(k))
    <3>1. PICK old, made : old = ProbesAt(k) /\ made = Made(k)
      OBVIOUS
    <3> HIDE DEF Made
    <3>2. /\ IsFiniteSet(old) /\ IsFiniteSet(made) /\ \A x \in old : x[1] # gets
      BY <2>3, <2>6, <3>1
    <3>3. Cardinality(old \cup History(gets, get, made)) = Cardinality(old) + Cardinality(made)
      BY <3>2, AsManyMade
    <3> QED BY <2>4, <3>1, <3>3
  <2>8. Cardinality(EmptyAt(k)') = Cardinality(EmptyAt(k)) + Cardinality(MadeEmpty(k))
    <3>1. PICK old, made : old = EmptyAt(k) /\ made = MadeEmpty(k)
      OBVIOUS
    <3> HIDE DEF Made, MadeEmpty
    <3>2. /\ IsFiniteSet(old) /\ IsFiniteSet(made) /\ \A x \in old : x[1] # gets
      BY <2>3, <2>6, <3>1
    <3>3. Cardinality(old \cup History(gets, get, made)) = Cardinality(old) + Cardinality(made)
      BY <3>2, AsManyMade
    <3> QED BY <2>5, <3>1, <3>3
  <2>9. access_map'[k] = [total |-> rows[k].total + Cardinality(Made(k)),
                          empty |-> rows[k].empty + Cardinality(MadeEmpty(k))]
    BY <1>1, <2>1
  <2> QED BY <2>2, <2>7, <2>8, <2>9
<1>9. RowsExact'
  BY <1>7, <1>8 DEF RowsExact, ProbesAt, EmptyAt
<1> QED BY <1>4, <1>5, <1>9 DEF TableInv

LEMMA TableNextInv == TableInv /\ [AnalyzeNext]_analyzeVars => TableInv'
<1> SUFFICES ASSUME TableInv, [AnalyzeNext]_analyzeVars PROVE TableInv'
  OBVIOUS
<1>1. ASSUME NEW f \in File, NEW l \in Level, PlaceFile(f, l) PROVE TableInv'
  BY <1>1, PlaceInv
<1>2. ASSUME NEW f \in File, DeleteFile(f) PROVE TableInv'
  BY <1>2, DeleteInv
<1>3. ASSUME NEW get \in Gets, Get(get) PROVE TableInv'
  BY <1>3, GetInv, AnalyzeAssumption
<1>4. CASE UNCHANGED analyzeVars
  BY <1>4 DEF analyzeVars, TableInv, TableOK, NoneForgotten, RowsExact
<1> QED BY <1>1, <1>2, <1>3, <1>4 DEF AnalyzeNext

\* The table has a row for each file and level that was in place at a Get or was
\* probed and no other, with the numbers of its probes and of its empty ones,
\* however files are moved and deleted between two Gets and however many probes a
\* Get makes.
THEOREM RowsAreExact == AnalyzeSpec => []RowsExact
<1>1. TableInv => RowsExact
  BY DEF TableInv
<1> QED BY <1>1, TableInitInv, TableNextInv, PTL DEF AnalyzeSpec


(***************************************************************************)
(* ZSTDReader: what units of a file decode to.                             *)
(***************************************************************************)
\* The places of the units that are characters, and how many the first u are.
CharPlaces(s) == {i \in 1 .. Len(s) : s[i] \in Text}
Chars(s, u) == Cardinality(CharPlaces(s) \cap (1 .. u))

LEMMA CharsOfSlice ==
    ASSUME NEW S, NEW s \in Seq(S), NEW u \in 0 .. Len(s), NEW v \in u .. Len(s),
           NEW j \in 0 .. v - u
    PROVE  Chars(s, u + j) = Chars(s, u) + Chars(SubSeq(s, u + 1, v), j)
<1>0. Len(s) \in Nat /\ u \in Nat /\ v \in Nat /\ j \in Nat /\ u <= v /\ v <= Len(s) /\ j <= v - u
  BY LenProperties
<1>1. PICK t : t = SubSeq(s, u + 1, v)
  OBVIOUS
<1>2. t \in Seq(S) /\ Len(t) = v - u /\ \A i \in 1 .. v - u : t[i] = s[u + i]
  BY <1>1, SliceAt
<1> DEFINE A == CharPlaces(s) \cap (1 .. u)
           B == CharPlaces(t) \cap (1 .. j)
           C == {u + i : i \in B}
           f == [i \in B |-> u + i]
<1>3. CharPlaces(s) \cap (1 .. u + j) = A \cup C
  <2>1. ASSUME NEW k \in CharPlaces(s) \cap (1 .. u + j) PROVE k \in A \cup C
    <3>1. k \in 1 .. Len(s) /\ k \in 1 .. u + j /\ s[k] \in Text
      BY DEF CharPlaces
    <3>2. CASE k <= u
      <4>1. k \in 1 .. u
        BY <3>1, <3>2, <1>0
      <4> QED BY <4>1
    <3>3. CASE ~ (k <= u)
      <4>1. k - u \in 1 .. v - u /\ k - u \in 1 .. j /\ u + (k - u) = k
        BY <3>1, <3>3, <1>0
      <4>2. k - u \in B
        BY <3>1, <4>1, <1>2 DEF CharPlaces
      <4> QED BY <4>1, <4>2
    <3> QED BY <3>2, <3>3
  <2>2. ASSUME NEW i \in B PROVE u + i \in CharPlaces(s) \cap (1 .. u + j)
    <3>1. i \in 1 .. v - u /\ i \in 1 .. j /\ t[i] \in Text
      BY <1>2 DEF CharPlaces
    <3>2. u + i \in 1 .. Len(s) /\ u + i \in 1 .. u + j
      BY <3>1, <1>0
    <3> QED BY <3>1, <3>2, <1>2 DEF CharPlaces
  <2>3. A \subseteq CharPlaces(s) \cap (1 .. u + j)
    BY <1>0
  <2> QED BY <2>1, <2>2, <2>3
<1>4. A \cap C = {}
  <2> SUFFICES ASSUME NEW i \in B, u + i \in 1 .. u PROVE FALSE
    OBVIOUS
  <2>1. i \in 1 .. j
    OBVIOUS
  <2> QED BY <2>1, <1>0
<1>5. CharPlaces(s) \in SUBSET (1 .. Len(s)) /\ CharPlaces(t) \in SUBSET (1 .. Len(t))
  BY DEF CharPlaces
<1>6. Len(t) \in Nat
  BY <1>0, <1>2
<1>7. IsFiniteSet(A) /\ Cardinality(A) \in Nat /\ IsFiniteSet(B) /\ Cardinality(B) \in Nat
  BY <1>0, <1>5, <1>6, PlacesUpTo
<1>8. IsFiniteSet(C) /\ Cardinality(C) = Cardinality(B)
  <2>1. B \subseteq Nat
    BY <1>0
  <2> HIDE DEF A, B
  <2>2. f \in [B -> C] /\ \A k \in C : \E i \in B : f[i] = k
    OBVIOUS
  <2>3. \A i, k \in B : f[i] = f[k] => i = k
    BY <2>1, <1>0
  <2>4. f \in Bijection(B, C)
    BY <2>2, <2>3 DEF Bijection, Injection, Surjection, IsInjective
  <2> QED BY <2>4, <1>7, FS_Bijection DEF ExistsBijection
<1> HIDE DEF A, B, C, f
<1>9. Cardinality(A \cup C) = Cardinality(A) + Cardinality(C) - Cardinality(A \cap C)
  BY <1>7, <1>8, FS_Union
<1>10. Cardinality(A \cap C) = 0
  BY <1>4, FS_EmptySet
<1>11. Cardinality(A \cup C) = Cardinality(A) + Cardinality(B)
  BY <1>7, <1>8, <1>9, <1>10
<1> QED BY <1>1, <1>3, <1>11 DEF Chars, A, B

\* The units of a slice decode to a slice of what the whole decodes to.
LEMMA DecodedSlice ==
    ASSUME NEW S, NEW s \in Seq(S), NEW u \in 0 .. Len(s), NEW v \in u .. Len(s)
    PROVE  /\ Chars(s, u) \in Nat /\ Chars(s, v) \in Chars(s, u) .. Len(Decoded(s))
           /\ Decoded(SubSeq(s, u + 1, v)) = SubSeq(Decoded(s), Chars(s, u) + 1, Chars(s, v))
<1>0. Len(s) \in Nat /\ u \in Nat /\ v \in Nat /\ u <= v /\ v <= Len(s)
  BY LenProperties
<1>1. PICK t : t = SubSeq(s, u + 1, v)
  OBVIOUS
<1>2. t \in Seq(S) /\ Len(t) = v - u /\ Len(t) \in Nat /\ \A i \in 1 .. v - u : t[i] = s[u + i]
  BY <1>0, <1>1, SliceAt
<1>3. PICK P, Q : P = CharPlaces(s) /\ Q = CharPlaces(t)
  OBVIOUS
<1>4. P \in SUBSET (1 .. Len(s)) /\ Q \in SUBSET (1 .. Len(t))
  BY <1>3 DEF CharPlaces
<1>5. Decoded(s) = Kept(s, P) /\ Decoded(t) = Kept(t, Q)
  BY <1>3 DEF Decoded, CharPlaces
<1>6. /\ Kept(s, P) \in Seq(S) /\ Len(Kept(s, P)) = Cardinality(P) /\ Cardinality(P) \in Nat
      /\ Kept(t, Q) \in Seq(S) /\ Len(Kept(t, Q)) = Cardinality(Q) /\ Cardinality(Q) \in Nat
  BY <1>0, <1>2, <1>4, KeptElements
<1>7. \A j \in 0 .. v - u : Chars(s, u + j) = Chars(s, u) + Chars(t, j)
  BY <1>1, CharsOfSlice
<1>8. Chars(t, v - u) = Cardinality(Q)
  <2>1. Q \cap (1 .. v - u) = Q
    BY <1>2, <1>4
  <2> QED BY <1>3, <2>1 DEF Chars
<1>9. Chars(s, u) \in Nat
  BY <1>0, <1>3, <1>4, PlacesUpTo DEF Chars
<1>10. Chars(s, v) = Chars(s, u) + Cardinality(Q)
  <2>1. v - u \in 0 .. v - u /\ u + (v - u) = v
    BY <1>0
  <2>2. Chars(s, u + (v - u)) = Chars(s, u) + Chars(t, v - u)
    BY <1>7, <2>1
  <2> QED BY <1>8, <2>1, <2>2
<1>11. Chars(s, v) <= Cardinality(P)
  <2>1. IsFiniteSet(P) /\ P \cap (1 .. v) \subseteq P
    BY <1>0, <1>4, PlacesUpTo
  <2>2. Cardinality(P \cap (1 .. v)) <= Cardinality(P)
    BY <2>1, FS_Subset
  <2> QED BY <1>3, <2>2 DEF Chars
<1>12. PICK a, b : a = Chars(s, u) /\ b = Chars(s, v)
  OBVIOUS
<1>13. a \in Nat /\ b \in Nat /\ a <= b /\ b <= Cardinality(P) /\ b - a = Cardinality(Q)
  BY <1>6, <1>9, <1>10, <1>11, <1>12
<1>14. PICK w : w = SubSeq(Kept(s, P), a + 1, b)
  OBVIOUS
<1>15. /\ w \in Seq(S) /\ Len(w) = b - a
       /\ \A k \in 1 .. b - a : w[k] = Kept(s, P)[a + k]
  <2>1. a \in 0 .. Len(Kept(s, P)) /\ b \in a .. Len(Kept(s, P))
    BY <1>6, <1>13
  <2> QED BY <1>6, <1>14, <2>1, SliceAt
<1>16. ASSUME NEW k \in 1 .. Cardinality(Q) PROVE Kept(t, Q)[k] = w[k]
  <2>1. PICK i \in Q : Cardinality(Q \cap (1 .. i)) = k
    BY <1>2, <1>4, KthPlace
  <2>2. i \in 0 .. v - u /\ i \in 1 .. v - u
    BY <1>2, <1>4
  <2>3. Kept(t, Q)[k] = t[i]
    BY <1>2, <1>4, <2>1, KeptAt
  <2>4. u + i \in P
    <3>1. u + i \in 1 .. Len(s) /\ s[u + i] = t[i]
      BY <1>0, <1>2, <2>2
    <3>2. t[i] \in Text
      BY <1>3 DEF CharPlaces
    <3> QED BY <1>3, <3>1, <3>2 DEF CharPlaces
  <2>5. Cardinality(P \cap (1 .. u + i)) = a + k
    <3>1. Chars(s, u + i) = Chars(s, u) + Chars(t, i)
      BY <1>7, <2>2
    <3> QED BY <1>3, <1>12, <2>1, <3>1 DEF Chars
  <2>6. Kept(s, P)[a + k] = s[u + i]
    BY <1>4, <2>4, <2>5, KeptAt
  <2> QED BY <1>2, <1>13, <1>15, <2>2, <2>3, <2>6
<1>17. Kept(t, Q) = w
  BY <1>6, <1>13, <1>15, <1>16, SeqEqual
<1>18. Decoded(t) = SubSeq(Decoded(s), a + 1, b)
  BY <1>5, <1>14, <1>17
<1>19. b \in a .. Len(Decoded(s))
  BY <1>5, <1>6, <1>13
<1> QED BY <1>1, <1>12, <1>13, <1>18, <1>19

\* All units have been given: so have all characters.
LEMMA DecodedWhole ==
    ASSUME NEW S, NEW s \in Seq(S)
    PROVE  /\ Decoded(s) \in Seq(Text) /\ Len(Decoded(s)) \in Nat
           /\ Chars(s, 0) = 0 /\ Chars(s, Len(s)) = Len(Decoded(s))
<1>0. Len(s) \in Nat
  BY LenProperties
<1>1. PICK P : P = CharPlaces(s)
  OBVIOUS
<1>2. P \in SUBSET (1 .. Len(s)) /\ \A i \in P : s[i] \in Text
  BY <1>1 DEF CharPlaces
<1>3. PICK w : w = Kept(s, P)
  OBVIOUS
<1>4. Decoded(s) = w
  BY <1>1, <1>3 DEF Decoded, CharPlaces
<1>5. w \in Seq(S) /\ Len(w) = Cardinality(P)
  BY <1>2, <1>3, KeptElements
<1>6. Len(w) \in Nat
  BY <1>5, LenProperties
<1>7. \A k \in 1 .. Len(w) : w[k] \in Text
  BY <1>2, <1>3, KeptFrom
<1>8. w \in [1 .. Len(w) -> Text]
  BY <1>5, <1>7, LenProperties
<1>9. w \in Seq(Text)
  BY <1>6, <1>8, IsASeq
<1>10. Chars(s, 0) = 0
  <2>1. P \cap (1 .. 0) = {}
    OBVIOUS
  <2> QED BY <1>1, <2>1, FS_EmptySet DEF Chars
<1>11. Chars(s, Len(s)) = Len(w)
  <2>1. P \cap (1 .. Len(s)) = P
    BY <1>2
  <2> QED BY <1>1, <1>5, <2>1 DEF Chars
<1> QED BY <1>4, <1>6, <1>9, <1>10, <1>11

(***************************************************************************)
(* ZSTDReader: the inductive invariant.  First, where the buffers are.     *)
(***************************************************************************)
Unit == Char \cup {CR, LF, "header", "bad"}

\* The units decompressed, the characters they gave, and those seen of them.
Fed == file_pos - Len(in_buf)
Given == Chars(file, Fed)
Seen == Given - Len(out_buf)

BuffersOK ==
    /\ file \in Seq(Unit)
    /\ file_pos \in 0 .. Len(file) /\ Fed \in 0 .. file_pos
    /\ in_buf = SubSeq(file, Fed + 1, file_pos)
    /\ Seen \in 0 .. Given
    /\ out_buf = SubSeq(Contents, Seen + 1, Given)
    /\ input_exhausted =>
          \/ in_buf = <<>> /\ file_pos = Len(file)
          \/ in_buf # <<>> /\ in_buf[1] = "bad"

\* What the buffers hold, place by place.
LEMMA BufferFacts ==
    ASSUME BuffersOK
    PROVE  /\ Len(file) \in Nat /\ Contents \in Seq(Text) /\ Len(Contents) \in Nat
           /\ Given \in 0 .. Len(Contents) /\ Seen \in 0 .. Len(Contents)
           /\ in_buf \in Seq(Unit) /\ Len(in_buf) = file_pos - Fed /\ Len(in_buf) \in Nat
           /\ out_buf \in Seq(Text) /\ Len(out_buf) = Given - Seen /\ Len(out_buf) \in Nat
           /\ \A i \in 1 .. Len(out_buf) : out_buf[i] = Contents[Seen + i]
<1>1. file \in Seq(Unit) /\ Fed \in 0 .. file_pos /\ file_pos \in 0 .. Len(file)
  BY DEF BuffersOK
<1>2. /\ Contents \in Seq(Text) /\ Len(Contents) \in Nat
      /\ Chars(file, 0) = 0 /\ Chars(file, Len(file)) = Len(Contents)
  BY <1>1, DecodedWhole DEF Contents
<1>3. Len(file) \in Nat
  BY <1>1, LenProperties
<1>4. Fed \in 0 .. Len(file) /\ file_pos \in Fed .. Len(file) /\ Len(file) \in Fed .. Len(file)
  BY <1>1, <1>3
<1>5. Given \in Nat /\ Chars(file, Len(file)) \in Given .. Len(Contents)
  BY <1>1, <1>4, DecodedSlice DEF Given, Contents
<1>6. Given \in 0 .. Len(Contents)
  BY <1>2, <1>5
<1>7. Seen \in 0 .. Given /\ out_buf = SubSeq(Contents, Seen + 1, Given)
  BY DEF BuffersOK
<1>8. Seen \in 0 .. Len(Contents) /\ Given \in Seen .. Len(Contents)
  BY <1>2, <1>6, <1>7
<1>9. /\ out_buf \in Seq(Text) /\ Len(out_buf) = Given - Seen
      /\ \A i \in 1 .. Given - Seen : out_buf[i] = Contents[Seen + i]
  BY <1>2, <1>7, <1>8, SliceAt
<1>10. in_buf \in Seq(Unit) /\ Len(in_buf) = file_pos - Fed
  BY <1>1, <1>4, SliceAt DEF BuffersOK
<1>11. Len(in_buf) \in Nat /\ Len(out_buf) \in Nat
  BY <1>9, <1>10, LenProperties
<1> QED BY <1>2, <1>3, <1>6, <1>8, <1>9, <1>10, <1>11

\* A fresh reader, and one that was rewound.
LEMMA FreshBuffers == file \in Seq(Unit) /\ Fresh => BuffersOK /\ Seen = 0
<1> SUFFICES ASSUME file \in Seq(Unit), Fresh PROVE BuffersOK /\ Seen = 0
  OBVIOUS
<1>1. file_pos = 0 /\ in_buf = <<>> /\ out_buf = <<>> /\ input_exhausted = FALSE
  BY DEF Fresh
<1>2. Len(in_buf) = 0 /\ Len(out_buf) = 0
  BY <1>1
<1>3. Fed = 0
  <2>1. Fed = file_pos - Len(in_buf)
    BY DEF Fed
  <2> QED BY <1>1, <1>2, <2>1
<1>4. Len(file) \in Nat
  BY LenProperties
<1>5. Given = 0
  BY <1>3, DecodedWhole DEF Given
<1>6. Seen = 0
  BY <1>2, <1>5 DEF Seen
<1>7. in_buf = SubSeq(file, Fed + 1, file_pos)
  BY <1>1, <1>3, SubSeqEmpty
<1>8. out_buf = SubSeq(Contents, Seen + 1, Given)
  BY <1>1, <1>5, <1>6, SubSeqEmpty
<1> QED BY <1>1, <1>3, <1>4, <1>5, <1>6, <1>7, <1>8 DEF BuffersOK

\* A reader that is rewound.
LEMMA Rewound == (file \in Seq(Unit) /\ Fresh)' => (BuffersOK /\ Seen = 0)'
BY FreshBuffers, PTL

\* A step that takes the first n characters from out_buf_.
LEMMA TakeCharacters ==
    ASSUME BuffersOK, NEW n \in 0 .. Len(out_buf), out_buf' = From(out_buf, n + 1),
           UNCHANGED <<file, file_pos, in_buf, input_exhausted>>
    PROVE  BuffersOK' /\ Seen' = Seen + n
<1>1. /\ Contents \in Seq(Text) /\ Len(Contents) \in Nat
      /\ Given \in 0 .. Len(Contents) /\ Seen \in 0 .. Len(Contents)
      /\ Len(out_buf) = Given - Seen
  BY BufferFacts
<1>2. Fed' = Fed /\ Given' = Given /\ Contents' = Contents
  BY DEF Fed, Given, Chars, CharPlaces, Contents, Decoded
<1>3. out_buf = SubSeq(Contents, Seen + 1, Given) /\ Seen \in 0 .. Given
  BY DEF BuffersOK
<1>4. out_buf' = SubSeq(out_buf, n + 1, Given - Seen)
  BY <1>1 DEF From
<1>5. /\ Given \in Seen .. Len(Contents) /\ n \in 0 .. Given - Seen
      /\ Given - Seen \in n .. Given - Seen /\ Seen + (Given - Seen) = Given
  BY <1>1, <1>3
<1>6. out_buf' = SubSeq(Contents, Seen + n + 1, Given)
  <2>1. SubSeq(SubSeq(Contents, Seen + 1, Given), n + 1, Given - Seen)
          = SubSeq(Contents, Seen + n + 1, Seen + (Given - Seen))
    BY <1>1, <1>5, SliceOfSlice
  <2> QED BY <1>3, <1>4, <1>5, <2>1
<1>7. Seen + n \in 0 .. Len(Contents) /\ Given \in Seen + n .. Len(Contents)
  BY <1>1, <1>3, <1>5
<1>8. Len(out_buf') = Given - (Seen + n)
  BY <1>1, <1>6, <1>7, SliceAt
<1>9. Seen' = Seen + n
  BY <1>1, <1>2, <1>5, <1>8 DEF Seen
<1>10. Seen + n \in 0 .. Given
  BY <1>5, <1>7
<1> QED BY <1>2, <1>6, <1>9, <1>10 DEF BuffersOK

\* fread.
LEMMA RefillBuffers ==
    ASSUME BuffersOK, Refill
    PROVE  BuffersOK' /\ Seen' = Seen /\ out_buf = <<>>
<1>1. /\ in_buf = <<>> /\ out_buf = <<>> /\ file' = file /\ out_buf' = out_buf
  BY DEF Refill, Decoding
<1>2. file_pos = Fed /\ file_pos \in 0 .. Len(file) /\ Len(file) \in Nat /\ file \in Seq(Unit)
  BY <1>1, BufferFacts DEF BuffersOK, Fed
<1>3. CASE input_exhausted
  <2>1. UNCHANGED <<file_pos, in_buf, input_exhausted>>
    BY <1>3 DEF Refill
  <2>2. Fed' = Fed /\ Given' = Given /\ Contents' = Contents /\ Seen' = Seen
    BY <1>1, <2>1 DEF Fed, Given, Chars, CharPlaces, Contents, Decoded, Seen
  <2> QED BY <1>1, <2>1, <2>2 DEF BuffersOK
<1>4. CASE ~ input_exhausted
  <2>1. PICK size : size = IF Len(file) - file_pos < InBufCapacity
                           THEN Len(file) - file_pos ELSE InBufCapacity
    OBVIOUS
  <2>2. /\ in_buf' = SubSeq(file, file_pos + 1, file_pos + size)
        /\ file_pos' = file_pos + size
        /\ IF size = 0 THEN input_exhausted' = TRUE ELSE UNCHANGED input_exhausted
    BY <1>4, <2>1 DEF Refill
  <2>3. /\ size \in Nat /\ file_pos + size \in file_pos .. Len(file)
        /\ size = 0 => file_pos = Len(file)
    BY <1>2, <2>1, ReaderAssumption
  <2>4. Len(in_buf') = size
    BY <1>2, <2>2, <2>3, SliceAt
  <2>5. Fed' = Fed
    BY <1>2, <2>2, <2>3, <2>4 DEF Fed
  <2>6. Given' = Given /\ Contents' = Contents
    BY <1>1, <2>5 DEF Given, Chars, CharPlaces, Contents, Decoded
  <2>7. Seen' = Seen
    BY <1>1, <2>6 DEF Seen
  <2>8. file_pos' \in 0 .. Len(file) /\ Fed \in 0 .. file_pos'
    BY <1>2, <2>2, <2>3
  <2>9. input_exhausted' => in_buf' = <<>> /\ file_pos' = Len(file)
    <3> SUFFICES ASSUME input_exhausted' PROVE in_buf' = <<>> /\ file_pos' = Len(file)
      OBVIOUS
    <3>1. size = 0
      BY <1>4, <2>2
    <3> QED BY <1>2, <2>2, <2>3, <3>1, SubSeqEmpty
  <2> QED BY <1>1, <1>2, <2>2, <2>5, <2>6, <2>7, <2>8, <2>9 DEF BuffersOK
<1> QED BY <1>1, <1>3, <1>4

\* ZSTD_decompressStream.
LEMMA DecompressBuffers ==
    ASSUME BuffersOK, Decompress
    PROVE  BuffersOK' /\ Seen' = Seen
<1>1. out_buf = <<>> /\ UNCHANGED <<file, file_pos, input_exhausted>>
  BY DEF Decompress, Decoding
<1>2. PICK n \in 1 .. Len(in_buf) : /\ "bad" \notin {in_buf[i] : i \in 1 .. n}
                                    /\ out_buf' = Decoded(Prefix(in_buf, n))
                                    /\ in_buf' = From(in_buf, n + 1)
  BY DEF Decompress
<1>3. /\ file \in Seq(Unit) /\ Len(file) \in Nat /\ file_pos \in 0 .. Len(file)
      /\ Fed \in 0 .. file_pos /\ in_buf = SubSeq(file, Fed + 1, file_pos)
      /\ Len(in_buf) = file_pos - Fed
  BY BufferFacts DEF BuffersOK
<1>4. /\ Fed \in 0 .. Len(file) /\ file_pos \in Fed .. Len(file) /\ n \in Nat
      /\ n \in 0 .. file_pos - Fed /\ 0 \in 0 .. file_pos - Fed /\ Fed + 0 = Fed
      /\ file_pos - Fed \in n .. file_pos - Fed /\ Fed + (file_pos - Fed) = file_pos
      /\ Fed + n \in Fed .. Len(file) /\ Fed + n \in 0 .. file_pos
  BY <1>2, <1>3
<1>5. Prefix(in_buf, n) = SubSeq(file, Fed + 1, Fed + n)
  <2>1. SubSeq(SubSeq(file, Fed + 1, file_pos), 0 + 1, n) = SubSeq(file, Fed + 0 + 1, Fed + n)
    BY <1>3, <1>4, SliceOfSlice
  <2>2. 0 + 1 = 1
    OBVIOUS
  <2> QED BY <1>3, <1>4, <2>1, <2>2 DEF Prefix
<1>6. in_buf' = SubSeq(file, Fed + n + 1, file_pos)
  <2>1. in_buf' = SubSeq(SubSeq(file, Fed + 1, file_pos), n + 1, file_pos - Fed)
    BY <1>2, <1>3 DEF From
  <2>2. SubSeq(SubSeq(file, Fed + 1, file_pos), n + 1, file_pos - Fed)
          = SubSeq(file, Fed + n + 1, Fed + (file_pos - Fed))
    BY <1>3, <1>4, SliceOfSlice
  <2> QED BY <1>4, <2>1, <2>2
<1>7. Fed' = Fed + n
  <2>1. Fed + n \in 0 .. Len(file) /\ file_pos \in Fed + n .. Len(file)
    BY <1>3, <1>4
  <2>2. Len(in_buf') = file_pos - (Fed + n)
    BY <1>3, <1>6, <2>1, SliceAt
  <2> QED BY <1>1, <1>3, <1>4, <2>2 DEF Fed
<1>8. /\ Given \in Nat /\ Chars(file, Fed + n) \in Given .. Len(Contents)
      /\ out_buf' = SubSeq(Contents, Given + 1, Chars(file, Fed + n))
  BY <1>2, <1>3, <1>4, <1>5, DecodedSlice DEF Given, Contents
<1>9. Given' = Chars(file, Fed + n) /\ Contents' = Contents
  BY <1>1, <1>7 DEF Given, Chars, CharPlaces, Contents, Decoded
<1>10. Contents \in Seq(Text) /\ Len(Contents) \in Nat /\ Given \in 0 .. Len(Contents)
  BY BufferFacts
<1>11. Len(out_buf') = Given' - Given /\ Given' \in Given .. Len(Contents)
  BY <1>8, <1>9, <1>10, SliceAt
<1>12. Seen' = Given
  <2>1. Seen' = Given' - Len(out_buf')
    BY DEF Seen
  <2>2. Given' \in Nat
    BY <1>10, <1>11
  <2>3. PICK g, h, k : g = Given /\ h = Given' /\ k = Len(out_buf')
    OBVIOUS
  <2>4. g \in Nat /\ h \in Nat /\ k = h - g
    BY <1>10, <1>11, <2>2, <2>3
  <2>5. Seen' = h - k
    BY <2>1, <2>3
  <2>6. h - k = g
    BY <2>4
  <2> QED BY <2>3, <2>5, <2>6
<1>13. Seen = Given
  <2>1. Len(out_buf) = 0
    BY <1>1
  <2> QED BY <1>10, <2>1 DEF Seen
<1>14. Seen' \in 0 .. Given'
  BY <1>10, <1>11, <1>12
<1>15. ~ input_exhausted
  <2> SUFFICES ASSUME input_exhausted PROVE FALSE
    OBVIOUS
  <2>1. Len(in_buf) # 0 /\ Len(in_buf) \in Nat
    BY <1>2, BufferFacts
  <2>2. in_buf # <<>>
    BY <2>1
  <2>3. in_buf[1] = "bad"
    BY <2>2 DEF BuffersOK
  <2>4. 1 \in 1 .. n
    BY <1>2, <2>1
  <2> QED BY <1>2, <2>3, <2>4
<1>16. out_buf' = SubSeq(Contents', Seen' + 1, Given')
  BY <1>8, <1>9, <1>12
<1>17. in_buf' = SubSeq(file', Fed' + 1, file_pos')
  BY <1>1, <1>6, <1>7
<1> QED BY <1>1, <1>3, <1>4, <1>7, <1>12, <1>13, <1>14, <1>15, <1>16, <1>17 DEF BuffersOK

(***************************************************************************)
(* Second, which line the reader is in.                                    *)
(***************************************************************************)
\* Where the last complete line ends.
Begin == IF line_number = 0 THEN 0 ELSE EndOf(line_number)

LinesOK ==
    /\ line_number \in 0 .. LineCount
    /\ Begin <= Seen \/ (Seen = Len(Contents) /\ Begin = Seen + 1)
    /\ \A i \in Begin + 1 .. Seen : Contents[i] # LF
    /\ consumed_any \in BOOLEAN /\ (consumed_any <=> Begin < Seen)
    /\ line = IF call.op = "get" THEN SubSeq(Contents, Begin + 1, Seen) ELSE <<>>

\* The call in progress.
CallOK ==
    /\ call \in {Idle, GetNextLine, ReachedFileEnd} \cup {GotoLine(n) : n \in Nat}
    /\ call.op \notin {"get", "goto"} => ~ consumed_any
    /\ call.op = "goto" => /\ line_number <= call.target
                           /\ consumed_any => line_number < call.target

ReturnedOK ==
    /\ returned \in Seq(Seq(Text) \cup {Skipped}) /\ Len(returned) = line_number
    /\ \A n \in 1 .. line_number : returned[n] \in {LineOf(n), Skipped}

ReaderInv == BuffersOK /\ LinesOK /\ CallOK /\ ReturnedOK

\* How far on among the ends of lines a place is.
EndsUpTo(i) == Cardinality(LineEnds \cap (1 .. i))

LEMMA EndFacts ==
    ASSUME Len(Contents) \in Nat
    PROVE  /\ LineEnds \in SUBSET (1 .. Len(Contents) + 1) /\ LineCount \in Nat
           /\ \A n \in 1 .. LineCount : EndOf(n) \in LineEnds /\ EndsUpTo(EndOf(n)) = n
           /\ \A e \in LineEnds : EndOf(EndsUpTo(e)) = e /\ EndsUpTo(e) \in 1 .. LineCount
           /\ EndsUpTo(0) = 0
<1>1. PICK ends, N : ends = LineEnds /\ N = Len(Contents) + 1
  OBVIOUS
<1>2. N \in Nat /\ N \in 1 .. N /\ \A i \in 1 .. Len(Contents) : i \in 1 .. N
  BY <1>1
<1>3. ends \in SUBSET (1 .. N)
  BY <1>1, <1>2 DEF LineEnds
<1>4. LineCount = Cardinality(ends) /\ LineCount \in Nat
  BY <1>1, <1>2, <1>3, PlacesUpTo DEF LineCount
<1>5. \A d \in ends : d \in Nat /\ d >= 1
  BY <1>2, <1>3
<1>6. ASSUME NEW e \in ends PROVE {d \in ends : d <= e} = ends \cap (1 .. e)
  <2>1. e \in Nat
    BY <1>5
  <2>2. \A d \in ends : d \in 1 .. e <=> d <= e
    BY <1>5, <2>1
  <2> QED BY <2>2
<1>7. \A n : EndOf(n) = CHOOSE e \in ends : Cardinality({d \in ends : d <= e}) = n
  BY <1>1 DEF EndOf
<1>8. ASSUME NEW n \in 1 .. LineCount
      PROVE  EndOf(n) \in ends /\ Cardinality(ends \cap (1 .. EndOf(n))) = n
  <2>1. PICK e \in ends : Cardinality(ends \cap (1 .. e)) = n
    BY <1>2, <1>3, <1>4, KthPlace
  <2>2. Cardinality({d \in ends : d <= e}) = n
    BY <1>6, <2>1
  <2>3. PICK x : x = EndOf(n)
    OBVIOUS
  <2>4. x \in ends /\ Cardinality({d \in ends : d <= x}) = n
    BY <1>7, <2>2, <2>3
  <2> QED BY <1>6, <2>3, <2>4
<1>9. ASSUME NEW e \in ends
      PROVE  /\ Cardinality(ends \cap (1 .. e)) \in 1 .. LineCount
             /\ EndOf(Cardinality(ends \cap (1 .. e))) = e
  <2>1. PICK n : n = Cardinality(ends \cap (1 .. e))
    OBVIOUS
  <2>2. n \in 1 .. LineCount
    BY <1>2, <1>3, <1>4, <2>1, PlacesUpTo
  <2>3. PICK x : x = EndOf(n)
    OBVIOUS
  <2>4. x \in ends /\ Cardinality(ends \cap (1 .. x)) = n
    BY <1>8, <2>2, <2>3
  <2>5. x = e
    BY <1>2, <1>3, <2>1, <2>4, PlaceIsKth
  <2> QED BY <2>1, <2>2, <2>3, <2>5
<1>10. Cardinality(ends \cap (1 .. 0)) = 0
  <2>1. ends \cap (1 .. 0) = {}
    OBVIOUS
  <2> QED BY <2>1, FS_EmptySet
<1> QED BY <1>1, <1>3, <1>4, <1>8, <1>9, <1>10 DEF EndsUpTo

\* A line ends at a newline, or behind the last character if that is none.
LEMMA EndIs ==
    ASSUME Contents \in Seq(Text), Len(Contents) \in Nat, NEW d
    PROVE  d \in LineEnds <=>
              \/ d \in 1 .. Len(Contents) /\ Contents[d] = LF
              \/ d = Len(Contents) + 1 /\ Len(Contents) # 0 /\ Contents[Len(Contents)] # LF
<1>1. Contents # <<>> <=> Len(Contents) # 0
  BY EmptySeq
<1> QED BY <1>1 DEF LineEnds, Last

\* Begin is an end of a line, as many ends on as there are complete lines.
LEMMA BeginFacts ==
    ASSUME Len(Contents) \in Nat, line_number \in 0 .. LineCount
    PROVE  /\ Begin \in 0 .. Len(Contents) + 1 /\ EndsUpTo(Begin) = line_number
           /\ Begin # 0 => Begin \in LineEnds
<1>1. /\ LineEnds \in SUBSET (1 .. Len(Contents) + 1) /\ LineCount \in Nat
      /\ \A n \in 1 .. LineCount : EndOf(n) \in LineEnds /\ EndsUpTo(EndOf(n)) = n
      /\ EndsUpTo(0) = 0
  BY EndFacts
<1>2. CASE line_number = 0
  BY <1>1, <1>2 DEF Begin
<1>3. CASE line_number # 0
  <2>1. line_number \in 1 .. LineCount /\ Begin = EndOf(line_number)
    BY <1>1, <1>3 DEF Begin
  <2>2. Begin \in LineEnds /\ EndsUpTo(Begin) = line_number
    BY <1>1, <2>1
  <2> QED BY <1>1, <2>2
<1> QED BY <1>2, <1>3

\* The next end is that of the next line.
LEMMA NextEnd ==
    ASSUME Len(Contents) \in Nat, line_number \in 0 .. LineCount,
           NEW e \in LineEnds, Begin < e, \A d \in LineEnds : d > Begin => d >= e
    PROVE  /\ line_number + 1 \in 1 .. LineCount /\ EndOf(line_number + 1) = e
           /\ StartOf(line_number + 1) = Begin + 1
           /\ LineOf(line_number + 1) = DropCR(SubSeq(Contents, Begin + 1, e - 1))
<1>0. /\ LineEnds \in SUBSET (1 .. Len(Contents) + 1) /\ LineCount \in Nat
      /\ \A n \in 1 .. LineCount : EndOf(n) \in LineEnds /\ EndsUpTo(EndOf(n)) = n
      /\ EndOf(EndsUpTo(e)) = e /\ EndsUpTo(e) \in 1 .. LineCount
      /\ EndsUpTo(0) = 0
  BY EndFacts
<1>1. PICK b, n : b = Begin /\ n = line_number
  OBVIOUS
<1>2. n \in Nat /\ b \in Nat /\ EndsUpTo(b) = n
  BY <1>0, <1>1, BeginFacts
<1>3. e \in Nat /\ b < e
  BY <1>0, <1>1
<1>4. /\ LineEnds \cap (1 .. e) = (LineEnds \cap (1 .. b)) \cup {e}
      /\ e \notin LineEnds \cap (1 .. b)
  <2>1. \A d \in LineEnds : d \in Nat /\ d >= 1
    BY <1>0
  <2>2. \A d \in LineEnds : d > b => d >= e
    BY <1>1
  <2>3. ASSUME NEW d \in LineEnds, d \in 1 .. e, d # e PROVE d \in 1 .. b
    <3>1. d \in Nat /\ d >= 1 /\ d <= e /\ ~ (d >= e)
      BY <1>3, <2>1, <2>3
    <3>2. ~ (d > b)
      BY <2>2, <3>1
    <3> QED BY <1>2, <3>1, <3>2
  <2>4. e \in 1 .. e /\ e \notin 1 .. b /\ \A d \in 1 .. b : d \in 1 .. e
    BY <1>2, <1>3, <2>1
  <2> QED BY <2>3, <2>4
<1>5. EndsUpTo(e) = n + 1
  <2>1. IsFiniteSet(LineEnds \cap (1 .. b))
    <3>1. Len(Contents) + 1 \in Nat
      OBVIOUS
    <3> QED BY <1>0, <3>1, PlacesUpTo
  <2>2. Cardinality((LineEnds \cap (1 .. b)) \cup {e}) = Cardinality(LineEnds \cap (1 .. b)) + 1
    BY <1>4, <2>1, FS_AddElement
  <2> QED BY <1>2, <1>4, <2>2 DEF EndsUpTo
<1>6. n + 1 \in 1 .. LineCount /\ EndOf(n + 1) = e
  BY <1>0, <1>5
<1>7. StartOf(n + 1) = b + 1
  <2>1. CASE n = 0
    <3>1. b = 0 /\ n + 1 = 1
      BY <1>1, <2>1 DEF Begin
    <3> QED BY <3>1 DEF StartOf
  <2>2. CASE n # 0
    <3>1. PICK m : m = n + 1
      OBVIOUS
    <3>2. m # 1 /\ m - 1 = n
      BY <1>2, <2>2, <3>1
    <3>3. b = EndOf(n)
      BY <1>1, <2>2 DEF Begin
    <3>4. StartOf(m) = EndOf(m - 1) + 1
      BY <3>2 DEF StartOf
    <3> QED BY <3>1, <3>2, <3>3, <3>4
  <2> QED BY <2>1, <2>2
<1>8. LineOf(n + 1) = DropCR(SubSeq(Contents, b + 1, e - 1))
  BY <1>6, <1>7 DEF LineOf
<1> QED BY <1>1, <1>6, <1>7, <1>8

\* A line that came in two pieces loses its CR from the second, unless that is empty.
LEMMA DropCRFrom ==
    ASSUME NEW s \in Seq(Text), NEW t \in Seq(Text), t # <<>>
    PROVE  DropCR(s \o t) = s \o DropCR(t)
<1>1. PICK w : w = s \o t
  OBVIOUS
<1>2. Len(s) \in Nat /\ Len(t) \in Nat /\ Len(t) # 0
  BY LenProperties, EmptySeq
<1>3. /\ w \in Seq(Text) /\ Len(w) = Len(s) + Len(t)
      /\ \A i \in 1 .. Len(s) + Len(t) : w[i] = IF i <= Len(s) THEN s[i] ELSE t[i - Len(s)]
  BY <1>1, ConcatProperties
<1>4. w # <<>> /\ w[Len(w)] = t[Len(t)]
  <2>1. Len(w) # 0 /\ Len(w) \in 1 .. Len(s) + Len(t) /\ ~ (Len(w) <= Len(s))
        /\ Len(w) - Len(s) = Len(t)
    BY <1>2, <1>3
  <2> QED BY <1>3, <2>1
<1>5. Last(w) = Last(t)
  BY <1>4 DEF Last
<1>6. CASE Last(t) # CR
  BY <1>1, <1>4, <1>5, <1>6 DEF DropCR
<1>7. CASE Last(t) = CR
  <2>1. DropCR(w) = SubSeq(w, 1, Len(w) - 1) /\ DropCR(t) = SubSeq(t, 1, Len(t) - 1)
    BY <1>4, <1>5, <1>7 DEF DropCR, Prefix
  <2>2. PICK p, q : p = SubSeq(w, 1, Len(w) - 1) /\ q = SubSeq(t, 1, Len(t) - 1)
    OBVIOUS
  <2>3. 0 + 1 = 1 /\ Len(w) - 1 \in 0 .. Len(w) /\ Len(t) - 1 \in 0 .. Len(t)
        /\ 0 \in 0 .. Len(w) /\ 0 \in 0 .. Len(t)
    BY <1>2, <1>3
  <2>4. /\ p \in Seq(Text) /\ Len(p) = Len(w) - 1
        /\ \A i \in 1 .. Len(w) - 1 : p[i] = w[i]
    <3>1. /\ SubSeq(w, 0 + 1, Len(w) - 1) \in Seq(Text)
          /\ Len(SubSeq(w, 0 + 1, Len(w) - 1)) = Len(w) - 1 - 0
          /\ \A i \in 1 .. Len(w) - 1 - 0 : SubSeq(w, 0 + 1, Len(w) - 1)[i] = w[0 + i]
      BY <1>3, <2>3, SliceAt
    <3>2. Len(w) - 1 - 0 = Len(w) - 1
      BY <1>2, <1>3
    <3> QED BY <2>2, <2>3, <3>1, <3>2
  <2>5. /\ q \in Seq(Text) /\ Len(q) = Len(t) - 1
        /\ \A i \in 1 .. Len(t) - 1 : q[i] = t[i]
    <3>1. /\ SubSeq(t, 0 + 1, Len(t) - 1) \in Seq(Text)
          /\ Len(SubSeq(t, 0 + 1, Len(t) - 1)) = Len(t) - 1 - 0
          /\ \A i \in 1 .. Len(t) - 1 - 0 : SubSeq(t, 0 + 1, Len(t) - 1)[i] = t[0 + i]
      BY <2>3, SliceAt
    <3>2. Len(t) - 1 - 0 = Len(t) - 1
      BY <1>2
    <3> QED BY <2>2, <2>3, <3>1, <3>2
  <2>6. /\ s \o q \in Seq(Text) /\ Len(s \o q) = Len(s) + Len(q)
        /\ \A i \in 1 .. Len(s) + Len(q) : (s \o q)[i] = IF i <= Len(s) THEN s[i] ELSE q[i - Len(s)]
    BY <2>5, ConcatProperties
  <2>7. PICK r : r = s \o q
    OBVIOUS
  <2>8. Len(p) = Len(r)
    BY <1>2, <1>3, <2>4, <2>5, <2>6, <2>7
  <2>9. ASSUME NEW i \in 1 .. Len(p) PROVE p[i] = r[i]
    <3>1. i \in 1 .. Len(w) - 1 /\ i \in 1 .. Len(s) + Len(t) /\ i \in 1 .. Len(s) + Len(q)
      BY <1>2, <1>3, <2>4, <2>5
    <3>2. CASE i <= Len(s)
      BY <1>3, <2>4, <2>6, <2>7, <3>1, <3>2
    <3>3. CASE ~ (i <= Len(s))
      <4>1. i - Len(s) \in 1 .. Len(t) - 1
        BY <1>2, <1>3, <3>1, <3>3
      <4> QED BY <1>3, <2>4, <2>5, <2>6, <2>7, <3>1, <3>3, <4>1
    <3> QED BY <3>2, <3>3
  <2>10. p = r
    BY <2>4, <2>6, <2>7, <2>8, <2>9, SeqEqual
  <2> QED BY <1>1, <2>1, <2>2, <2>7, <2>10
<1> QED BY <1>6, <1>7

LEMMA DropCRTyped ==
    ASSUME NEW s \in Seq(Text)
    PROVE  DropCR(s) \in Seq(Text)
<1>1. CASE s # <<>> /\ Last(s) = CR
  <2>1. Len(s) \in Nat /\ Len(s) # 0
    BY <1>1, LenProperties, EmptySeq
  <2>2. 0 \in 0 .. Len(s) /\ Len(s) - 1 \in 0 .. Len(s) /\ 0 + 1 = 1
    BY <2>1
  <2>3. SubSeq(s, 0 + 1, Len(s) - 1) \in Seq(Text)
    BY <2>2, SliceAt
  <2> QED BY <1>1, <2>2, <2>3 DEF DropCR, Prefix
<1>2. CASE ~ (s # <<>> /\ Last(s) = CR)
  BY <1>2 DEF DropCR
<1> QED BY <1>1, <1>2

LEMMA SameFile ==
    ASSUME file' = file
    PROVE  /\ Contents' = Contents /\ LineEnds' = LineEnds /\ LineCount' = LineCount
           /\ \A n : EndOf(n)' = EndOf(n) /\ LineOf(n)' = LineOf(n)
<1>1. Contents' = Contents
  BY DEF Contents, Decoded
<1>2. LineEnds' = LineEnds
  BY <1>1 DEF LineEnds
<1>3. LineCount' = LineCount
  BY <1>2 DEF LineCount
<1>4. ASSUME NEW n PROVE EndOf(n)' = EndOf(n) /\ LineOf(n)' = LineOf(n)
  <2>1. \A m : EndOf(m)' = EndOf(m)
    BY <1>2 DEF EndOf
  <2>2. StartOf(n)' = StartOf(n)
    BY <2>1 DEF StartOf
  <2> QED BY <1>1, <2>1, <2>2 DEF LineOf
<1> QED BY <1>1, <1>2, <1>3, <1>4

\* A step that neither takes characters nor ends a line.
LEMMA LinesStay ==
    ASSUME LinesOK, UNCHANGED <<file, line_number, consumed_any>>, Seen' = Seen,
           line' = IF call'.op = "get" THEN SubSeq(Contents, Begin + 1, Seen) ELSE <<>>
    PROVE  LinesOK' /\ Begin' = Begin
<1>1. /\ Contents' = Contents /\ LineCount' = LineCount
      /\ \A n : EndOf(n)' = EndOf(n)
  BY SameFile
<1>2. Begin' = Begin
  BY <1>1 DEF Begin
<1> QED BY <1>1, <1>2 DEF LinesOK

LEMMA ReturnedStay ==
    ASSUME ReturnedOK, UNCHANGED <<file, line_number, returned>>
    PROVE  ReturnedOK'
<1>1. \A n : LineOf(n)' = LineOf(n)
  BY SameFile
<1> QED BY <1>1 DEF ReturnedOK

\* What is known of the line the reader is in.
LEMMA InLine ==
    ASSUME BuffersOK, LinesOK
    PROVE  /\ Contents \in Seq(Text) /\ Len(Contents) \in Nat /\ LineCount \in Nat
           /\ Seen \in 0 .. Len(Contents) /\ Begin \in 0 .. Len(Contents) + 1
           /\ line_number \in 0 .. LineCount
           /\ consumed_any \in BOOLEAN
           /\ ~ consumed_any => SubSeq(Contents, Begin + 1, Seen) = <<>>
           /\ Seen < Len(Contents) \/ consumed_any => Begin <= Seen
<1>1. /\ Contents \in Seq(Text) /\ Len(Contents) \in Nat
      /\ Seen \in 0 .. Len(Contents)
  BY BufferFacts
<1>2. line_number \in 0 .. LineCount /\ LineCount \in Nat
  BY <1>1, EndFacts DEF LinesOK
<1>3. Begin \in 0 .. Len(Contents) + 1
  BY <1>1, <1>2, BeginFacts
<1>4. consumed_any <=> Begin < Seen
  BY DEF LinesOK
<1>5. ~ consumed_any => SubSeq(Contents, Begin + 1, Seen) = <<>>
  <2> SUFFICES ASSUME ~ consumed_any PROVE SubSeq(Contents, Begin + 1, Seen) = <<>>
    OBVIOUS
  <2>1. ~ (Begin < Seen)
    BY <1>4
  <2>2. Begin + 1 \in Int /\ Seen \in Int /\ Seen < Begin + 1
    BY <1>1, <1>3, <2>1
  <2> QED BY <2>2, SubSeqEmpty
<1>6. Begin <= Seen \/ (Seen = Len(Contents) /\ Begin = Seen + 1)
  BY DEF LinesOK
<1>7. Seen < Len(Contents) => Begin <= Seen
  BY <1>1, <1>6
<1>8. consumed_any => Begin <= Seen
  <2> SUFFICES ASSUME consumed_any PROVE Begin <= Seen
    OBVIOUS
  <2>1. Begin < Seen
    BY <1>4
  <2> QED BY <1>1, <1>3, <2>1
<1>9. consumed_any \in BOOLEAN
  BY DEF LinesOK
<1> QED BY <1>1, <1>2, <1>3, <1>5, <1>7, <1>8, <1>9

\* A line is complete.
LEMMA CompleteLine ==
    ASSUME ReaderInv, Scanning, file' = file, BuffersOK',
           NEW e \in LineEnds, Begin < e, \A d \in LineEnds : d > Begin => d >= e,
           Seen' = e \/ (Seen' = Len(Contents) /\ e = Seen' + 1),
           NEW l, call.op = "get" => l = DropCR(SubSeq(Contents, Begin + 1, e - 1)),
           Complete(l)
    PROVE  /\ LinesOK' /\ CallOK' /\ ReturnedOK'
           /\ line_number' = line_number + 1
           /\ call' = IF call.op = "get" THEN Idle ELSE call
           /\ returned' = Append(returned, IF call.op = "get" THEN LineOf(line_number + 1)
                                                              ELSE Skipped)
<1>1. /\ Contents \in Seq(Text) /\ Len(Contents) \in Nat /\ LineCount \in Nat
      /\ Begin \in 0 .. Len(Contents) + 1 /\ line_number \in 0 .. LineCount
  BY InLine DEF ReaderInv
<1>2. /\ line_number + 1 \in 1 .. LineCount /\ EndOf(line_number + 1) = e
      /\ LineOf(line_number + 1) = DropCR(SubSeq(Contents, Begin + 1, e - 1))
  BY <1>1, NextEnd
<1>3. /\ line_number' = line_number + 1 /\ line' = <<>> /\ consumed_any' = FALSE
      /\ call' = IF call.op = "get" THEN Idle ELSE call
      /\ returned' = Append(returned, IF call.op = "get" THEN l ELSE Skipped)
  BY DEF Complete
<1>4. call.op \in {"get", "goto"} /\ ~ AtTarget
  BY DEF Scanning
<1>5. /\ Contents' = Contents /\ LineCount' = LineCount
      /\ \A n : EndOf(n)' = EndOf(n) /\ LineOf(n)' = LineOf(n)
  BY SameFile
<1>6. Begin' = e
  <2>1. line_number' # 0
    BY <1>1, <1>3
  <2>2. PICK n : n = line_number'
    OBVIOUS
  <2>3. LineEnds' = LineEnds
    BY SameFile
  <2>4. Begin' = EndOf(n)
    BY <2>1, <2>2, <2>3 DEF Begin, EndOf
  <2> QED BY <1>2, <1>3, <2>2, <2>4
<1>7. e \in Nat /\ Seen' \in Nat
  <2>1. e \in 1 .. Len(Contents) + 1
    BY <1>1, EndFacts
  <2> QED BY <1>1, <2>1
<1>8. call'.op # "get"
  BY <1>3, <1>4 DEF Idle
<1>9. LinesOK'
  <2>1. line_number' \in 0 .. LineCount'
    BY <1>1, <1>2, <1>3, <1>5
  <2>2. PICK k : k = Seen'
    OBVIOUS
  <2>3. k \in Nat /\ (k = e \/ (k = Len(Contents) /\ e = k + 1))
    BY <1>7, <2>2
  <2>4. ~ (e < k) /\ (e <= k \/ (k = Len(Contents) /\ e = k + 1)) /\ e + 1 .. k = {}
    BY <1>7, <2>3
  <2>5. Begin' <= Seen' \/ (Seen' = Len(Contents)' /\ Begin' = Seen' + 1)
    BY <1>5, <1>6, <2>2, <2>4
  <2>6. \A i \in Begin' + 1 .. Seen' : FALSE
    BY <1>6, <2>2, <2>4
  <2>7. consumed_any' = FALSE /\ ~ (Begin' < Seen')
    BY <1>3, <1>6, <2>2, <2>4
  <2> QED BY <1>3, <1>8, <2>1, <2>5, <2>6, <2>7 DEF LinesOK
<1>10. CallOK'
  <2>1. CASE call.op = "get"
    BY <1>3, <2>1 DEF CallOK, Idle
  <2>2. CASE call.op # "get"
    <3>1. /\ call' = call /\ call.op = "goto" /\ CallOK /\ LinesOK
      BY <1>3, <1>4, <2>2 DEF ReaderInv
    <3>2. line = <<>>
      BY <3>1 DEF LinesOK
    <3>3. PICK n \in Nat : call = GotoLine(n)
      BY <3>1 DEF CallOK, Idle, GetNextLine, ReachedFileEnd
    <3>4. call.target = n
      BY <3>3 DEF GotoLine
    <3>5. line_number < n
      <4>1. consumed_any => line_number < n
        BY <3>1, <3>4 DEF CallOK
      <4>2. ~ consumed_any => ~ (line_number >= n)
        BY <1>4, <3>1, <3>2, <3>4 DEF AtTarget
      <4>3. line_number \in Nat
        BY <1>1
      <4> QED BY <4>1, <4>2, <4>3
    <3>6. line_number' <= call'.target /\ ~ consumed_any'
      BY <1>1, <1>3, <3>1, <3>4, <3>5
    <3> QED BY <3>1, <3>6 DEF CallOK
  <2> QED BY <2>1, <2>2
<1>11. /\ ReturnedOK'
       /\ returned' = Append(returned, IF call.op = "get" THEN LineOf(line_number + 1)
                                                          ELSE Skipped)
  <2>1. PICK x : x = IF call.op = "get" THEN LineOf(line_number + 1) ELSE Skipped
    OBVIOUS
  <2>2. returned' = Append(returned, x)
    BY <1>2, <1>3, <2>1
  <2>3. LineOf(line_number + 1) \in Seq(Text)
    <3>1. e - 1 \in Int /\ Begin + 1 \in Int /\ \A i \in Begin + 1 .. e - 1 : Contents[i] \in Text
      <4>1. e \in 1 .. Len(Contents) + 1
        BY <1>1, EndFacts
      <4>2. \A i \in Begin + 1 .. e - 1 : i \in 1 .. Len(Contents)
        BY <1>1, <4>1
      <4> QED BY <1>1, <1>7, <4>2, ElementOfSeq
    <3>2. SubSeq(Contents, Begin + 1, e - 1) \in Seq(Text)
      BY <3>1, SubSeqProperties
    <3> QED BY <1>2, <3>2, DropCRTyped
  <2>4. PICK R : R = Seq(Text) \cup {Skipped}
    OBVIOUS
  <2>5. x \in R
    BY <2>1, <2>3, <2>4
  <2>6. returned \in Seq(R) /\ Len(returned) = line_number
        /\ \A n \in 1 .. line_number : returned[n] \in {LineOf(n), Skipped}
    BY <2>4 DEF ReaderInv, ReturnedOK
  <2>7. /\ returned' \in Seq(R) /\ Len(returned') = line_number + 1
        /\ \A n \in 1 .. line_number : returned'[n] = returned[n]
        /\ returned'[line_number + 1] = x
    BY <2>2, <2>5, <2>6, AppendProperties
  <2>8. ASSUME NEW n \in 1 .. line_number + 1 PROVE returned'[n] \in {LineOf(n), Skipped}
    <3>1. CASE n = line_number + 1
      BY <2>1, <2>7, <3>1
    <3>2. CASE n # line_number + 1
      <4>1. n \in 1 .. line_number
        BY <1>1, <3>2
      <4> QED BY <2>6, <2>7, <4>1
    <3> QED BY <3>1, <3>2
  <2>9. Text' = Text /\ Skipped' = Skipped
    BY DEF Text, Skipped
  <2>10. ReturnedOK'
    BY <1>3, <1>5, <2>4, <2>7, <2>8, <2>9 DEF ReturnedOK
  <2> QED BY <2>1, <2>2, <2>10
<1> QED BY <1>3, <1>9, <1>10, <1>11

\* Which calls there are, by their op.
LEMMA CallIs ==
    ASSUME CallOK
    PROVE  /\ call.op = "get" => call = GetNextLine
           /\ call.op = "end" => call = ReachedFileEnd
           /\ call.op = "idle" => call = Idle
           /\ call.op \in {"idle", "get", "end", "goto"}
           /\ call.op = "goto" => call.target \in Nat
BY DEF CallOK, Idle, GetNextLine, ReachedFileEnd, GotoLine

\* The newline that ends a line is the next end of a line.
LEMMA EndLineKeeps ==
    ASSUME ReaderInv, EndLine
    PROVE  /\ ReaderInv' /\ line_number' = line_number + 1
           /\ call' = IF call.op = "get" THEN Idle ELSE call
           /\ returned' = Append(returned, IF call.op = "get" THEN LineOf(line_number + 1)
                                                              ELSE Skipped)
<1>1. Scanning /\ UNCHANGED <<file, file_pos, in_buf, input_exhausted>>
  BY DEF EndLine
<1>2. PICK i \in 1 .. Len(out_buf) :
         /\ NewlineAt(i)
         /\ Complete(IF i = 1 THEN DropCR(line) ELSE line \o DropCR(Prefix(out_buf, i - 1)))
         /\ out_buf' = From(out_buf, i + 1)
  BY DEF EndLine
<1>3. BuffersOK /\ LinesOK /\ CallOK
  BY DEF ReaderInv
<1>4. /\ Contents \in Seq(Text) /\ Len(Contents) \in Nat
      /\ Given \in 0 .. Len(Contents) /\ Seen \in 0 .. Len(Contents)
      /\ out_buf \in Seq(Text) /\ Len(out_buf) = Given - Seen /\ Len(out_buf) \in Nat
      /\ \A k \in 1 .. Len(out_buf) : out_buf[k] = Contents[Seen + k]
  BY <1>3, BufferFacts
<1>5. BuffersOK' /\ Seen' = Seen + i
  <2>1. i \in 0 .. Len(out_buf)
    BY <1>4
  <2> QED BY <1>1, <1>2, <1>3, <2>1, TakeCharacters
<1>6. PICK e : e = Seen + i
  OBVIOUS
<1>7. e \in 1 .. Len(Contents) /\ Seen < Len(Contents)
  BY <1>2, <1>4, <1>6
<1>8. Contents[e] = LF
  BY <1>2, <1>4, <1>6 DEF NewlineAt
<1>9. e \in LineEnds
  BY <1>4, <1>7, <1>8, EndIs
<1>10. Begin \in 0 .. Len(Contents) + 1 /\ Begin <= Seen
  BY <1>3, <1>7, InLine
<1>11. Begin < e
  BY <1>2, <1>4, <1>6, <1>10
<1>12. ASSUME NEW d \in LineEnds, d > Begin PROVE d >= e
  <2> SUFFICES ASSUME ~ (d >= e) PROVE FALSE
    OBVIOUS
  <2>1. d \in 1 .. Len(Contents) + 1
    BY <1>4, EndFacts
  <2>2. d < e /\ d \in Nat
    BY <1>7, <2>1
  <2>3. Contents[d] = LF
    BY <1>4, <1>7, <2>2, EndIs
  <2>4. CASE d <= Seen
    <3>1. d \in Begin + 1 .. Seen
      BY <1>4, <1>10, <1>12, <2>2, <2>4
    <3> QED BY <1>3, <2>3, <3>1 DEF LinesOK
  <2>5. CASE ~ (d <= Seen)
    <3>1. d - Seen \in 1 .. i - 1 /\ d - Seen \in 1 .. Len(out_buf) /\ Seen + (d - Seen) = d
      BY <1>2, <1>4, <1>6, <2>2, <2>5
    <3>2. out_buf[d - Seen] = LF
      BY <1>4, <2>3, <3>1
    <3> QED BY <1>2, <3>1, <3>2 DEF NewlineAt
  <2> QED BY <2>4, <2>5
<1>13. PICK l : l = IF i = 1 THEN DropCR(line) ELSE line \o DropCR(Prefix(out_buf, i - 1))
  OBVIOUS
<1>14. ASSUME call.op = "get" PROVE l = DropCR(SubSeq(Contents, Begin + 1, e - 1))
  <2>1. line = SubSeq(Contents, Begin + 1, Seen)
    BY <1>3, <1>14 DEF LinesOK
  <2>2. CASE i = 1
    <3>1. e - 1 = Seen
      BY <1>4, <1>6, <2>2
    <3> QED BY <1>13, <2>1, <2>2, <3>1
  <2>3. CASE i # 1
    <3>1. PICK t : t = Prefix(out_buf, i - 1)
      OBVIOUS
    <3>2. /\ 0 \in 0 .. Given - Seen /\ i - 1 \in 0 .. Given - Seen /\ 0 + 1 = 1
          /\ Seen + 0 = Seen /\ Seen + (i - 1) = e - 1 /\ i - 1 # 0
          /\ Given \in Seen .. Len(Contents)
          /\ Begin \in 0 .. Len(Contents) /\ Seen \in Begin .. Len(Contents)
          /\ e - 1 \in Seen .. Len(Contents)
      <4>1. PICK b, g, s, n : b = Begin /\ g = Given /\ s = Seen /\ n = Len(Contents)
        OBVIOUS
      <4>2. /\ n \in Nat /\ g \in 0 .. n /\ s \in 0 .. n /\ b \in 0 .. n + 1 /\ b <= s
            /\ i \in 1 .. g - s /\ i # 1 /\ e = s + i /\ e \in 1 .. n
        BY <1>2, <1>4, <1>6, <1>7, <1>10, <2>3, <4>1
      <4>3. /\ 0 \in 0 .. g - s /\ i - 1 \in 0 .. g - s /\ 0 + 1 = 1
            /\ s + 0 = s /\ s + (i - 1) = e - 1 /\ i - 1 # 0
            /\ g \in s .. n /\ b \in 0 .. n /\ s \in b .. n /\ e - 1 \in s .. n
        BY <4>2
      <4> QED BY <4>1, <4>3
    <3>3. t = SubSeq(Contents, Seen + 1, e - 1)
      <4>1. out_buf = SubSeq(Contents, Seen + 1, Given)
        BY <1>3 DEF BuffersOK
      <4>2. PICK j, z : j = i - 1 /\ z = 0
        OBVIOUS
      <4>3. /\ Contents \in Seq(Text) /\ Seen \in 0 .. Len(Contents)
            /\ Given \in Seen .. Len(Contents)
            /\ z \in 0 .. Given - Seen /\ j \in z .. Given - Seen
        BY <1>4, <3>2, <4>2
      <4>4. SubSeq(SubSeq(Contents, Seen + 1, Given), z + 1, j)
              = SubSeq(Contents, Seen + z + 1, Seen + j)
        BY <4>3, SliceOfSlice
      <4>5. z + 1 = 1 /\ Seen + z = Seen /\ Seen + j = e - 1
        BY <3>2, <4>2
      <4> QED BY <3>1, <4>1, <4>2, <4>4, <4>5 DEF Prefix
    <3>4. t \in Seq(Text) /\ Len(t) = e - 1 - Seen
      BY <1>4, <3>2, <3>3, SliceAt
    <3>5. t # <<>>
      <4>1. Len(t) # 0
        BY <1>4, <3>2, <3>4
      <4> QED BY <4>1
    <3>6. line \in Seq(Text)
      BY <1>4, <2>1, <3>2, SliceAt
    <3>7. DropCR(line \o t) = line \o DropCR(t)
      BY <3>4, <3>5, <3>6, DropCRFrom
    <3>8. line \o t = SubSeq(Contents, Begin + 1, e - 1)
      BY <1>4, <2>1, <3>2, <3>3, SlicesJoined
    <3> QED BY <1>13, <2>3, <3>1, <3>7, <3>8
  <2> QED BY <2>2, <2>3
<1>15. Complete(l)
  BY <1>2, <1>13
<1>16. Seen' = e
  BY <1>5, <1>6
<1>17. /\ LinesOK' /\ CallOK' /\ ReturnedOK'
       /\ line_number' = line_number + 1
       /\ call' = IF call.op = "get" THEN Idle ELSE call
       /\ returned' = Append(returned, IF call.op = "get" THEN LineOf(line_number + 1)
                                                          ELSE Skipped)
  BY <1>1, <1>5, <1>9, <1>11, <1>12, <1>14, <1>15, <1>16, CompleteLine
<1> QED BY <1>5, <1>17 DEF ReaderInv

\* goto_line has not come to its target while it is inside a line.
LEMMA BeforeTarget ==
    ASSUME ReaderInv, Scanning, call.op = "goto"
    PROVE  line_number < call.target
<1>1. LinesOK /\ CallOK /\ BuffersOK /\ ~ AtTarget
  BY DEF ReaderInv, Scanning
<1>2. call.target \in Nat /\ line_number \in Nat
  BY <1>1, CallIs, InLine
<1>3. line = <<>>
  BY <1>1 DEF LinesOK
<1>4. CASE consumed_any
  BY <1>1, <1>4 DEF CallOK
<1>5. CASE ~ consumed_any
  <2>1. ~ (line_number >= call.target)
    BY <1>1, <1>3, <1>5 DEF AtTarget
  <2> QED BY <1>2, <2>1
<1> QED BY <1>4, <1>5

LEMMA TakeChunkKeeps ==
    ASSUME ReaderInv, TakeChunk
    PROVE  ReaderInv' /\ UNCHANGED <<file, line_number, call, returns>> /\ consumed_any'
<1>1. /\ Scanning /\ out_buf # <<>> /\ \A i \in 1 .. Len(out_buf) : out_buf[i] # LF
      /\ line' = IF call.op = "get" THEN line \o out_buf ELSE line
      /\ consumed_any' = TRUE /\ out_buf' = <<>>
      /\ UNCHANGED <<file, file_pos, in_buf, input_exhausted, line_number, call, returns>>
  BY DEF TakeChunk
<1>2. BuffersOK /\ LinesOK /\ CallOK /\ ReturnedOK
  BY DEF ReaderInv
<1>3. /\ Contents \in Seq(Text) /\ Len(Contents) \in Nat
      /\ Given \in 0 .. Len(Contents) /\ Seen \in 0 .. Len(Contents)
      /\ out_buf \in Seq(Text) /\ Len(out_buf) = Given - Seen /\ Len(out_buf) \in Nat
      /\ \A k \in 1 .. Len(out_buf) : out_buf[k] = Contents[Seen + k]
  BY <1>2, BufferFacts
<1>4. PICK n : n = Len(out_buf)
  OBVIOUS
<1>5. n \in Nat /\ n # 0 /\ Seen + n = Given /\ Seen < Len(Contents)
  <2>1. n # 0
    BY <1>1, <1>3, <1>4, EmptySeq
  <2> QED BY <1>3, <1>4, <2>1
<1>6. out_buf' = From(out_buf, n + 1)
  <2>1. n + 1 \in Int /\ Len(out_buf) \in Int /\ Len(out_buf) < n + 1
    BY <1>3, <1>4
  <2> QED BY <1>1, <2>1, SubSeqEmpty DEF From
<1>7. BuffersOK' /\ Seen' = Seen + n
  <2>1. n \in 0 .. Len(out_buf)
    BY <1>3, <1>4
  <2> QED BY <1>1, <1>2, <1>6, <2>1, TakeCharacters
<1>8. /\ Contents' = Contents /\ LineCount' = LineCount
      /\ \A k : EndOf(k)' = EndOf(k)
  BY <1>1, SameFile
<1>9. Begin' = Begin
  BY <1>1, <1>8 DEF Begin
<1>10. Begin \in 0 .. Len(Contents) + 1 /\ Begin <= Seen
  BY <1>2, <1>5, InLine
<1>11. Seen' = Given /\ Begin < Given /\ Seen < Given
  BY <1>3, <1>5, <1>7, <1>10
<1>12. LinesOK'
  <2>1. line_number' \in 0 .. LineCount'
    BY <1>1, <1>2, <1>8 DEF LinesOK
  <2>2. Begin <= Given
    BY <1>3, <1>10, <1>11
  <2>3. ASSUME NEW i \in Begin + 1 .. Given PROVE Contents[i] # LF
    <3>1. CASE i <= Seen
      <4>1. i \in Begin + 1 .. Seen
        BY <1>3, <1>10, <3>1
      <4> QED BY <1>2, <4>1 DEF LinesOK
    <3>2. CASE ~ (i <= Seen)
      <4>1. i - Seen \in 1 .. Len(out_buf) /\ Seen + (i - Seen) = i
        BY <1>3, <1>10, <3>2
      <4> QED BY <1>1, <1>3, <4>1
    <3> QED BY <3>1, <3>2
  <2>4. line' = IF call'.op = "get" THEN SubSeq(Contents, Begin + 1, Given) ELSE <<>>
    <3>1. CASE call.op = "get"
      <4>1. /\ Begin \in 0 .. Len(Contents) /\ Seen \in Begin .. Len(Contents)
            /\ Given \in Seen .. Len(Contents)
        BY <1>3, <1>10, <1>11
      <4>2. SubSeq(Contents, Begin + 1, Seen) \o SubSeq(Contents, Seen + 1, Given)
              = SubSeq(Contents, Begin + 1, Given)
        BY <1>3, <4>1, SlicesJoined
      <4>3. line = SubSeq(Contents, Begin + 1, Seen) /\ out_buf = SubSeq(Contents, Seen + 1, Given)
        BY <1>2, <3>1 DEF LinesOK, BuffersOK
      <4> QED BY <1>1, <3>1, <4>2, <4>3
    <3>2. CASE call.op # "get"
      BY <1>1, <1>2, <3>2 DEF LinesOK
    <3> QED BY <3>1, <3>2
  <2> QED BY <1>1, <1>8, <1>9, <1>11, <2>1, <2>2, <2>3, <2>4 DEF LinesOK
<1>13. CallOK'
  <2>1. call.op \in {"get", "goto"}
    BY <1>1 DEF Scanning
  <2>2. call.op = "goto" => line_number < call.target
    BY <1>1, BeforeTarget
  <2> QED BY <1>1, <1>2, <2>1, <2>2 DEF CallOK
<1>14. ReturnedOK'
  <2>1. UNCHANGED <<file, line_number, returned>>
    BY <1>1 DEF returns
  <2> QED BY <1>2, <2>1, ReturnedStay
<1> QED BY <1>1, <1>7, <1>12, <1>13, <1>14 DEF ReaderInv

\* With no characters left there are no lines left.
LEMMA AtEnd ==
    ASSUME BuffersOK, in_buf = <<>>, out_buf = <<>>, file_pos = Len(file)
    PROVE  Seen = Len(Contents)
<1>1. file \in Seq(Unit) /\ Len(file) \in Nat /\ Len(Contents) \in Nat
  BY BufferFacts DEF BuffersOK
<1>2. Len(in_buf) = 0 /\ Len(out_buf) = 0
  OBVIOUS
<1>3. Fed = Len(file)
  <2>1. Fed = file_pos - Len(in_buf)
    BY DEF Fed
  <2> QED BY <1>1, <1>2, <2>1
<1>4. Given = Len(Contents)
  BY <1>1, <1>3, DecodedWhole DEF Given, Contents
<1>5. Seen = Given - Len(out_buf)
  BY DEF Seen
<1> QED BY <1>1, <1>2, <1>4, <1>5

LEMMA AllLinesRead ==
    ASSUME BuffersOK, LinesOK, Seen = Len(Contents), ~ consumed_any
    PROVE  line_number = LineCount
<1>1. /\ Contents \in Seq(Text) /\ Len(Contents) \in Nat
      /\ Begin \in 0 .. Len(Contents) + 1 /\ line_number \in 0 .. LineCount
  BY InLine
<1>2. EndsUpTo(Begin) = line_number /\ (Begin # 0 => Begin \in LineEnds)
  BY <1>1, BeginFacts
<1>3. Begin = Len(Contents) \/ Begin = Len(Contents) + 1
  <2>1. ~ (Begin < Seen)
    BY DEF LinesOK
  <2> QED BY <1>1, <2>1
<1>4. ASSUME NEW d \in LineEnds PROVE d \in 1 .. Begin
  <2>1. d \in 1 .. Len(Contents) + 1
    BY <1>1, EndFacts
  <2>2. CASE Begin = Len(Contents) + 1
    BY <2>1, <2>2
  <2>3. CASE Begin = Len(Contents)
    <3>1. d # Len(Contents) + 1
      <4> SUFFICES ASSUME d = Len(Contents) + 1 PROVE FALSE
        OBVIOUS
      <4>1. d \notin 1 .. Len(Contents) /\ Len(Contents) # Len(Contents) + 1
        BY <1>1
      <4>2. Len(Contents) # 0 /\ Contents[Len(Contents)] # LF
        BY <1>1, <4>1, EndIs
      <4>3. Len(Contents) \in LineEnds
        BY <1>2, <2>3, <4>2
      <4> QED BY <1>1, <4>1, <4>2, <4>3, EndIs
    <3> QED BY <1>1, <2>1, <2>3, <3>1
  <2> QED BY <1>3, <2>2, <2>3
<1>5. LineEnds \cap (1 .. Begin) = LineEnds
  BY <1>4
<1> QED BY <1>2, <1>5 DEF EndsUpTo, LineCount

(***************************************************************************)
(* Third, the steps: each is inside a call, or completes a line, or ends   *)
(* the call without one.                                                   *)
(***************************************************************************)
Within ==
    /\ UNCHANGED <<line_number, call, returns>>
    /\ consumed_any \/ out_buf # <<>> => consumed_any' \/ out_buf' # <<>>

LineDone ==
    /\ call.op \in {"get", "goto"}
    /\ line_number' = line_number + 1
    /\ call' = IF call.op = "get" THEN Idle ELSE call
    /\ returned' = Append(returned, IF call.op = "get" THEN LineOf(line_number + 1) ELSE Skipped)

CallDone ==
    /\ call' = Idle /\ UNCHANGED <<line_number, returned>>
    /\ call.op \in {"get", "end", "goto"}
    /\ call.op = "get" => ~ consumed_any /\ out_buf = <<>>
    /\ call.op = "end" => \/ result' = "more" /\ out_buf' # <<>>
                          \/ result' = "eof" /\ line_number = LineCount
    /\ call.op = "goto" => \/ line_number = call.target
                           \/ line_number = LineCount /\ line_number < call.target

\* The input runs out: what was gathered is the last line, or none is left.
LEMMA FailKeeps ==
    ASSUME ReaderInv, Decoding, DecodeFailed, in_buf = <<>>, file_pos = Len(file),
           file' = file, BuffersOK', Seen' = Seen
    PROVE  ReaderInv' /\ (LineDone \/ CallDone)
<1>1. /\ BuffersOK /\ LinesOK /\ CallOK /\ ReturnedOK
      /\ out_buf = <<>> /\ (Scanning \/ call.op = "end")
  BY DEF ReaderInv, Decoding
<1>2. /\ Contents \in Seq(Text) /\ Len(Contents) \in Nat /\ LineCount \in Nat
      /\ Begin \in 0 .. Len(Contents) + 1 /\ line_number \in 0 .. LineCount
      /\ consumed_any \in BOOLEAN
  BY <1>1, InLine
<1>3. Seen = Len(Contents)
  BY <1>1, AtEnd
<1>4. call.op \in {"get", "goto", "end"}
  BY <1>1 DEF Scanning
<1>5. CASE call.op # "end" /\ consumed_any
  <2>1. Scanning /\ Complete(DropCR(line))
    BY <1>1, <1>5 DEF DecodeFailed
  <2>2. PICK e : e = Len(Contents) + 1
    OBVIOUS
  <2>3. Begin < Len(Contents) /\ Begin \in Nat
    BY <1>1, <1>2, <1>3, <1>5 DEF LinesOK
  <2>4. e \in LineEnds
    <3>1. Len(Contents) \in Begin + 1 .. Seen
      BY <1>2, <1>3, <2>3
    <3>2. Contents[Len(Contents)] # LF
      BY <1>1, <3>1 DEF LinesOK
    <3>3. Len(Contents) # 0
      BY <2>3
    <3> QED BY <1>2, <2>2, <3>2, <3>3, EndIs
  <2>5. Begin < e
    BY <1>2, <2>2, <2>3
  <2>6. ASSUME NEW d \in LineEnds, d > Begin PROVE d >= e
    <3>1. d \in 1 .. Len(Contents) + 1
      BY <1>2, EndFacts
    <3>2. CASE d = Len(Contents) + 1
      BY <1>2, <2>2, <3>2
    <3>3. CASE d # Len(Contents) + 1
      <4>1. Contents[d] = LF
        BY <1>2, <3>3, EndIs
      <4>2. d \in Begin + 1 .. Seen
        BY <1>2, <1>3, <2>3, <2>6, <3>1, <3>3
      <4> QED BY <1>1, <4>1, <4>2 DEF LinesOK
    <3> QED BY <3>2, <3>3
  <2>7. Seen' = Len(Contents) /\ e = Seen' + 1
    BY <1>3, <2>2
  <2>8. ASSUME call.op = "get" PROVE DropCR(line) = DropCR(SubSeq(Contents, Begin + 1, e - 1))
    <3>1. e - 1 = Seen
      BY <1>2, <1>3, <2>2
    <3> QED BY <1>1, <2>8, <3>1 DEF LinesOK
  <2>9. /\ LinesOK' /\ CallOK' /\ ReturnedOK'
        /\ line_number' = line_number + 1
        /\ call' = IF call.op = "get" THEN Idle ELSE call
        /\ returned' = Append(returned, IF call.op = "get" THEN LineOf(line_number + 1)
                                                           ELSE Skipped)
    BY <2>1, <2>4, <2>5, <2>6, <2>7, <2>8, CompleteLine
  <2> QED BY <1>4, <1>5, <2>9 DEF ReaderInv, LineDone
<1>6. CASE ~ (call.op # "end" /\ consumed_any)
  <2>1. /\ call' = Idle /\ result' = "eof" /\ UNCHANGED <<line_number, locals, returned>>
    BY <1>6 DEF DecodeFailed, Return
  <2>2. ~ consumed_any
    BY <1>1, <1>6 DEF CallOK
  <2>3. line_number = LineCount
    BY <1>1, <1>3, <2>2, AllLinesRead
  <2>4. line = <<>> /\ consumed_any' = consumed_any /\ line' = line
    <3>1. ~ consumed_any => SubSeq(Contents, Begin + 1, Seen) = <<>>
      BY <1>1, InLine
    <3> QED BY <1>1, <2>1, <2>2, <3>1 DEF LinesOK, locals
  <2>5. call'.op = "idle"
    BY <2>1 DEF Idle
  <2>6. LinesOK'
    BY <1>1, <2>1, <2>4, <2>5, LinesStay
  <2>7. CallOK'
    BY <2>1, <2>2, <2>4, <2>5 DEF CallOK
  <2>8. ReturnedOK'
    BY <1>1, <2>1, ReturnedStay
  <2>9. call.op = "goto" => line_number < call.target
    BY <1>1, BeforeTarget
  <2> QED BY <1>1, <1>4, <2>1, <2>2, <2>3, <2>6, <2>7, <2>8, <2>9 DEF ReaderInv, CallDone
<1> QED BY <1>5, <1>6

LEMMA RefillKeeps ==
    ASSUME ReaderInv, Refill
    PROVE  ReaderInv' /\ (Within \/ LineDone \/ CallDone)
<1>1. BuffersOK /\ LinesOK /\ CallOK /\ ReturnedOK
  BY DEF ReaderInv
<1>2. BuffersOK' /\ Seen' = Seen /\ out_buf = <<>>
  BY <1>1, RefillBuffers
<1>3. Decoding /\ in_buf = <<>> /\ file' = file /\ out_buf' = out_buf
  BY DEF Refill
<1>4. CASE input_exhausted
  <2>1. DecodeFailed
    BY <1>4 DEF Refill
  <2>2. file_pos = Len(file)
    BY <1>1, <1>3, <1>4 DEF BuffersOK
  <2> QED BY <1>2, <1>3, <2>1, <2>2, FailKeeps
<1>5. CASE ~ input_exhausted
  <2>1. PICK size : size = IF Len(file) - file_pos < InBufCapacity
                           THEN Len(file) - file_pos ELSE InBufCapacity
    OBVIOUS
  <2>2. IF size = 0 THEN DecodeFailed
        ELSE UNCHANGED <<line_number, call, locals, returns>>
    BY <1>5, <2>1 DEF Refill
  <2>3. CASE size = 0
    <3>1. file_pos = Len(file)
      <4>1. file_pos \in Nat /\ Len(file) \in Nat
        BY <1>1, BufferFacts DEF BuffersOK
      <4> QED BY <2>1, <2>3, <4>1, ReaderAssumption
    <3> QED BY <1>2, <1>3, <2>2, <2>3, <3>1, FailKeeps
  <2>4. CASE size # 0
    <3>1. UNCHANGED <<line_number, call, line, consumed_any, returned, result>>
      BY <2>2, <2>4 DEF locals, returns
    <3>2. line' = IF call'.op = "get" THEN SubSeq(Contents, Begin + 1, Seen) ELSE <<>>
      BY <1>1, <3>1 DEF LinesOK
    <3>3. LinesOK'
      BY <1>1, <1>2, <1>3, <3>1, <3>2, LinesStay
    <3>4. CallOK'
      BY <1>1, <3>1 DEF CallOK
    <3>5. ReturnedOK'
      BY <1>1, <1>3, <3>1, ReturnedStay
    <3> QED BY <1>2, <1>3, <3>1, <3>3, <3>4, <3>5 DEF ReaderInv, Within, returns
  <2> QED BY <2>3, <2>4
<1> QED BY <1>4, <1>5

\* A step that changes nothing of the lines, the call and what was returned.
LEMMA InputKeeps ==
    ASSUME ReaderInv, BuffersOK', Seen' = Seen,
           UNCHANGED <<file, line_number, call, locals, returns>>
    PROVE  ReaderInv'
<1>1. LinesOK /\ CallOK /\ ReturnedOK
  BY DEF ReaderInv
<1>2. UNCHANGED <<file, line_number, call, line, consumed_any, returned>>
  BY DEF locals, returns
<1>3. line' = IF call'.op = "get" THEN SubSeq(Contents, Begin + 1, Seen) ELSE <<>>
  BY <1>1, <1>2 DEF LinesOK
<1>4. LinesOK'
  BY <1>1, <1>2, <1>3, LinesStay
<1>5. CallOK'
  BY <1>1, <1>2 DEF CallOK
<1>6. ReturnedOK'
  BY <1>1, <1>2, ReturnedStay
<1> QED BY <1>4, <1>5, <1>6 DEF ReaderInv

LEMMA DecompressKeeps ==
    ASSUME ReaderInv, Decompress
    PROVE  ReaderInv' /\ Within
<1>1. BuffersOK' /\ Seen' = Seen
  BY DecompressBuffers DEF ReaderInv
<1>2. out_buf = <<>> /\ UNCHANGED <<file, line_number, call, locals, returns>>
  BY DEF Decompress, Decoding
<1>3. ReaderInv'
  BY <1>1, <1>2, InputKeeps
<1> QED BY <1>2, <1>3 DEF Within, locals

LEMMA ErrorKeeps ==
    ASSUME ReaderInv, DecompressError
    PROVE  ReaderInv' /\ Within
<1>1. /\ UNCHANGED <<file, line_number, call, locals, returns>>
      /\ UNCHANGED <<file_pos, in_buf, out_buf>> /\ in_buf # <<>> /\ in_buf[1] = "bad"
  BY DEF DecompressError
<1>2. BuffersOK
  BY DEF ReaderInv
<1>3. Fed' = Fed /\ Given' = Given /\ Contents' = Contents /\ Seen' = Seen
  BY <1>1 DEF Fed, Given, Chars, CharPlaces, Contents, Decoded, Seen
<1>4. BuffersOK'
  BY <1>1, <1>2, <1>3 DEF BuffersOK
<1>5. ReaderInv'
  BY <1>1, <1>3, <1>4, InputKeeps
<1> QED BY <1>1, <1>5 DEF Within, locals

\* A call that ends between lines, or begins.
LEMMA CallsKeep ==
    ASSUME ReaderInv, UNCHANGED <<file, buffers, line_number, returned>>,
           ~ consumed_any, line' = <<>>, consumed_any' = FALSE,
           call' \in {Idle, GetNextLine, ReachedFileEnd} \cup {GotoLine(n) : n \in Nat},
           call'.op = "goto" => line_number <= call'.target
    PROVE  ReaderInv'
<1>1. BuffersOK /\ LinesOK /\ CallOK /\ ReturnedOK
  BY DEF ReaderInv
<1>2. UNCHANGED <<file, file_pos, in_buf, out_buf, input_exhausted, line_number, returned>>
  BY DEF buffers
<1>3. Fed' = Fed /\ Given' = Given /\ Contents' = Contents /\ Seen' = Seen
  BY <1>2 DEF Fed, Given, Chars, CharPlaces, Contents, Decoded, Seen
<1>4. BuffersOK'
  BY <1>1, <1>2, <1>3 DEF BuffersOK
<1>5. SubSeq(Contents, Begin + 1, Seen) = <<>> /\ consumed_any = FALSE
  BY <1>1, InLine
<1>6. line' = IF call'.op = "get" THEN SubSeq(Contents, Begin + 1, Seen) ELSE <<>>
  BY <1>5
<1>7. LinesOK'
  BY <1>1, <1>2, <1>3, <1>5, <1>6, LinesStay
<1>8. CallOK'
  BY <1>2 DEF CallOK
<1>9. ReturnedOK'
  BY <1>1, <1>2, ReturnedStay
<1> QED BY <1>4, <1>7, <1>8, <1>9 DEF ReaderInv

LEMMA EndKeeps ==
    ASSUME ReaderInv, GotoDone \/ NotAtEnd
    PROVE  ReaderInv' /\ CallDone
<1>1. LinesOK /\ CallOK /\ BuffersOK
  BY DEF ReaderInv
<1>2. call' = Idle /\ UNCHANGED <<file, buffers, line_number, locals, returned>>
  BY DEF GotoDone, NotAtEnd, Return
<1>3. ~ consumed_any
  <2>1. CASE GotoDone
    BY <2>1 DEF GotoDone, AtTarget
  <2>2. CASE NotAtEnd
    BY <1>1, <2>2 DEF NotAtEnd, CallOK
  <2> QED BY <2>1, <2>2
<1>4. line = <<>>
  <2>1. ~ consumed_any => SubSeq(Contents, Begin + 1, Seen) = <<>>
    BY <1>1, InLine
  <2> QED BY <1>1, <1>3, <2>1 DEF LinesOK
<1>5. consumed_any \in BOOLEAN
  BY <1>1, InLine
<1>6. line' = <<>> /\ consumed_any' = FALSE
  BY <1>2, <1>3, <1>4, <1>5 DEF locals
<1>7. call'.op # "goto"
  BY <1>2 DEF Idle
<1>8. ReaderInv'
  BY <1>2, <1>3, <1>6, <1>7, CallsKeep
<1>9. CASE GotoDone
  <2>1. call.op = "goto" /\ line_number >= call.target
    BY <1>9 DEF GotoDone, AtTarget
  <2>2. line_number <= call.target /\ call.target \in Nat /\ line_number \in Nat
    BY <1>1, <2>1, CallIs, InLine DEF CallOK
  <2>3. line_number = call.target
    BY <2>1, <2>2
  <2> QED BY <1>2, <1>8, <2>1, <2>3 DEF CallDone
<1>10. CASE NotAtEnd
  <2>1. call.op = "end" /\ out_buf # <<>> /\ result' = "more" /\ out_buf' = out_buf
    BY <1>10 DEF NotAtEnd, Return, buffers
  <2> QED BY <1>2, <1>8, <2>1 DEF CallDone
<1> QED BY <1>9, <1>10

LEMMA ContinueKeeps ==
    ASSUME ReaderInv, Continue
    PROVE  ReaderInv' /\ file' = file /\ (Within \/ LineDone \/ CallDone)
<1>1. file' = file
  BY DEF Continue, GotoDone, EndLine, TakeChunk, NotAtEnd, Refill, Decompress
<1>2. CASE GotoDone \/ NotAtEnd
  BY <1>1, <1>2, EndKeeps
<1>3. CASE EndLine
  <2>1. Scanning
    BY <1>3 DEF EndLine
  <2> QED BY <1>1, <1>3, <2>1, EndLineKeeps DEF LineDone, Scanning
<1>4. CASE TakeChunk
  <2>1. ReaderInv' /\ UNCHANGED <<line_number, call, returns>> /\ consumed_any'
    BY <1>4, TakeChunkKeeps
  <2> QED BY <1>1, <2>1 DEF Within
<1>5. CASE Refill
  BY <1>1, <1>5, RefillKeeps
<1>6. CASE Decompress
  BY <1>1, <1>6, DecompressKeeps
<1> QED BY <1>2, <1>3, <1>4, <1>5, <1>6 DEF Continue

LEMMA StartKeeps ==
    ASSUME ReaderInv, StartGet \/ StartEnd \/ \E n \in 0 .. Len(file) : StartGoto(n)
    PROVE  ReaderInv' /\ file' = file
<1>1. BuffersOK /\ LinesOK /\ CallOK /\ ReturnedOK
  BY DEF ReaderInv
<1>2. call = Idle /\ file' = file
  BY DEF StartGet, StartEnd, StartGoto
<1>3. ~ consumed_any
  BY <1>1, <1>2 DEF CallOK, Idle
<1>4. line = <<>> /\ consumed_any = FALSE /\ line_number \in Nat
  <2>1. ~ consumed_any => SubSeq(Contents, Begin + 1, Seen) = <<>>
    BY <1>1, InLine
  <2>2. consumed_any \in BOOLEAN /\ line_number \in 0 .. LineCount /\ LineCount \in Nat
    BY <1>1, InLine
  <2> QED BY <1>1, <1>3, <2>1, <2>2 DEF LinesOK
<1>5. CASE StartGet
  <2>1. call' = GetNextLine /\ line' = <<>> /\ consumed_any' = FALSE
        /\ UNCHANGED <<file, buffers, line_number, returned>>
    BY <1>5 DEF StartGet, returns
  <2>2. call'.op # "goto"
    BY <2>1 DEF GetNextLine
  <2> QED BY <1>2, <1>3, <2>1, <2>2, CallsKeep
<1>6. CASE StartEnd
  <2>1. call' = ReachedFileEnd /\ line' = line /\ consumed_any' = consumed_any
        /\ UNCHANGED <<file, buffers, line_number, returned>>
    BY <1>6 DEF StartEnd, returns, locals
  <2>2. call'.op # "goto"
    BY <2>1 DEF ReachedFileEnd
  <2> QED BY <1>2, <1>3, <1>4, <2>1, <2>2, CallsKeep
<1>7. ASSUME NEW n \in 0 .. Len(file), StartGoto(n) PROVE ReaderInv'
  <2>1. Len(file) \in Nat
    BY <1>1, BufferFacts
  <2>2. n \in Nat
    BY <2>1
  <2>3. call' = GotoLine(n) /\ line' = <<>> /\ consumed_any' = FALSE
    BY <1>7 DEF StartGoto
  <2>4. call'.op = "goto" /\ call'.target = n
    BY <2>3 DEF GotoLine
  <2>5. CASE ~ (n < line_number)
    <3>1. UNCHANGED <<buffers, line_number, returned>>
      BY <1>7, <2>5 DEF StartGoto
    <3>2. line_number <= n
      BY <1>4, <2>2, <2>5
    <3> QED BY <1>2, <1>3, <2>2, <2>3, <2>4, <3>1, <3>2, CallsKeep
  <2>6. CASE n < line_number
    <3>1. /\ file_pos' = 0 /\ in_buf' = <<>> /\ out_buf' = <<>> /\ input_exhausted' = FALSE
          /\ line_number' = 0 /\ returned' = <<>>
      BY <1>7, <2>6 DEF StartGoto
    <3>2. file \in Seq(Unit)
      BY <1>1 DEF BuffersOK
    <3>3. BuffersOK' /\ Seen' = 0
      <4>1. (file \in Seq(Unit))'
        BY <1>2, <3>2 DEF Unit
      <4>2. Fresh'
        BY <3>1 DEF Fresh
      <4> QED BY <4>1, <4>2, Rewound
    <3>4. LinesOK'
      <4>1. Begin' = 0
        BY <3>1 DEF Begin
      <4>2. 0 \in 0 .. LineCount'
        <5>1. LineCount' = LineCount /\ LineCount \in Nat
          BY <1>1, <1>2, SameFile, InLine
        <5> QED BY <5>1
      <4>3. call'.op # "get" /\ 0 <= 0 /\ ~ (0 < 0) /\ 0 + 1 .. 0 = {}
        BY <2>4
      <4> QED BY <2>3, <3>1, <3>3, <4>1, <4>2, <4>3 DEF LinesOK
    <3>5. CallOK'
      BY <2>2, <2>3, <2>4, <3>1 DEF CallOK
    <3>6. ReturnedOK'
      <4>1. Len(returned') = 0
        BY <3>1
      <4> QED BY <3>1, <4>1 DEF ReturnedOK
    <3> QED BY <3>3, <3>4, <3>5, <3>6 DEF ReaderInv
  <2> QED BY <2>5, <2>6
<1> QED BY <1>2, <1>5, <1>6, <1>7

LEMMA StartsReaderInv ==
    ASSUME ReaderInit
    PROVE  ReaderInv
<1>1. /\ file \in Files /\ Fresh /\ line_number = 0 /\ call = Idle /\ line = <<>>
      /\ consumed_any = FALSE /\ returned = <<>>
  BY DEF ReaderInit
<1>2. file \in Seq(Unit)
  BY <1>1, ReaderAssumption DEF Unit
<1>3. BuffersOK /\ Seen = 0
  BY <1>1, <1>2, FreshBuffers
<1>4. call.op = "idle"
  BY <1>1 DEF Idle
<1>5. LinesOK
  <2>1. Begin = 0
    BY <1>1 DEF Begin
  <2>2. LineCount \in Nat
    BY <1>3, BufferFacts, EndFacts
  <2>3. 0 \in 0 .. LineCount /\ 0 <= 0 /\ ~ (0 < 0) /\ 0 + 1 .. 0 = {}
    BY <2>2
  <2> QED BY <1>1, <1>3, <1>4, <2>1, <2>3 DEF LinesOK
<1>6. CallOK
  BY <1>1, <1>4 DEF CallOK
<1>7. ReturnedOK
  <2>1. Len(returned) = 0
    BY <1>1
  <2> QED BY <1>1, <2>1 DEF ReturnedOK
<1> QED BY <1>3, <1>5, <1>6, <1>7 DEF ReaderInv

LEMMA ReaderStays ==
    ASSUME ReaderInv, UNCHANGED readerVars
    PROVE  ReaderInv'
<1>1. UNCHANGED <<file, buffers, line_number, call, line, consumed_any, returned>>
  BY DEF readerVars, locals, returns
<1>2. UNCHANGED <<file_pos, in_buf, out_buf, input_exhausted>>
  BY <1>1 DEF buffers
<1>3. Fed' = Fed /\ Given' = Given /\ Contents' = Contents /\ Seen' = Seen
  BY <1>1, <1>2 DEF Fed, Given, Chars, CharPlaces, Contents, Decoded, Seen
<1>4. BuffersOK'
  BY <1>1, <1>2, <1>3 DEF ReaderInv, BuffersOK
<1>5. UNCHANGED <<file, line_number, call, locals, returns>>
  BY DEF readerVars
<1> QED BY <1>3, <1>4, <1>5, InputKeeps

LEMMA ReaderInvMeans ==
    ASSUME ReaderInv
    PROVE  LinesAreTheFiles
<1>1. line_number \in 0 .. LineCount /\ LineCount \in Nat
  BY InLine DEF ReaderInv
<1>2. line_number <= LineCount
  BY <1>1
<1> QED BY <1>2 DEF ReaderInv, ReturnedOK, LinesAreTheFiles

\* A failed read ends the program where it is: the lines returned stay what they are.
DamagedInv == ReaderInv \/ (call = Exited /\ LinesAreTheFiles)

LEMMA ReadErrorExits ==
    ASSUME ReaderInv, ReadError
    PROVE  call' = Exited /\ LinesAreTheFiles'
<1>1. call' = Exited /\ UNCHANGED <<file, line_number, returned>>
  BY DEF ReadError, returns
<1>2. LinesAreTheFiles
  BY ReaderInvMeans
<1>3. Contents' = Contents
  BY <1>1 DEF Contents, Decoded
<1>4. LineCount' = LineCount /\ \A n : LineOf(n)' = LineOf(n)
  BY <1>3 DEF LineCount, LineEnds, LineOf, StartOf, EndOf
<1> QED BY <1>1, <1>2, <1>4 DEF LinesAreTheFiles

LEMMA ExitedStays ==
    ASSUME call = Exited, LinesAreTheFiles, [DamagedNext]_readerVars
    PROVE  call' = Exited /\ LinesAreTheFiles'
<1>1. call.op = "exit" /\ call # Idle
  BY DEF Exited, Idle
<1>2. ~ (StartGet \/ StartEnd \/ \E n \in 0 .. Len(file) : StartGoto(n))
  BY <1>1 DEF StartGet, StartEnd, StartGoto
<1>3. ~ (Continue \/ DecompressError \/ ReadError)
  BY <1>1 DEF Continue, GotoDone, AtTarget, EndLine, TakeChunk, NotAtEnd, Refill,
              Decompress, DecompressError, ReadError, Decoding, Scanning
<1>4. UNCHANGED <<file, line_number, call, returned>>
  BY <1>2, <1>3 DEF DamagedNext, ReaderNext, readerVars, returns
<1>5. Contents' = Contents
  BY <1>4 DEF Contents, Decoded
<1>6. LineCount' = LineCount /\ \A n : LineOf(n)' = LineOf(n)
  BY <1>5 DEF LineCount, LineEnds, LineOf, StartOf, EndOf
<1> QED BY <1>4, <1>6 DEF LinesAreTheFiles

LEMMA KeepsDamagedInv ==
    ASSUME DamagedInv, [DamagedNext]_readerVars
    PROVE  DamagedInv'
<1>1. CASE ReaderInv /\ (StartGet \/ StartEnd \/ \E n \in 0 .. Len(file) : StartGoto(n))
  BY <1>1, StartKeeps DEF DamagedInv
<1>2. CASE ReaderInv /\ Continue
  BY <1>2, ContinueKeeps DEF DamagedInv
<1>3. CASE ReaderInv /\ DecompressError
  BY <1>3, ErrorKeeps DEF DamagedInv
<1>4. CASE ReaderInv /\ ReadError
  BY <1>4, ReadErrorExits DEF DamagedInv
<1>5. CASE ReaderInv /\ UNCHANGED readerVars
  BY <1>5, ReaderStays DEF DamagedInv
<1>6. CASE call = Exited /\ LinesAreTheFiles
  BY <1>6, ExitedStays DEF DamagedInv
<1> QED BY <1>1, <1>2, <1>3, <1>4, <1>5, <1>6 DEF DamagedNext, ReaderNext, DamagedInv

LEMMA CallIsOpen ==
    ASSUME Continue
    PROVE  call # Idle
<1>1. call.op \in {"get", "goto", "end"}
  BY DEF Continue, GotoDone, AtTarget, EndLine, TakeChunk, NotAtEnd, Refill, Decompress,
         Decoding, Scanning
<1> QED BY <1>1 DEF Idle

LEMMA GotoEnds ==
    ASSUME ReaderInv, [DamagedNext]_readerVars, call.op = "goto", call' = Idle
    PROVE  line_number' = IF call.target < LineCount THEN call.target ELSE LineCount
<1>1. LinesOK /\ CallOK /\ BuffersOK
  BY DEF ReaderInv
<1>2. /\ call.target \in Nat /\ LineCount \in Nat /\ line_number \in 0 .. LineCount
  BY <1>1, CallIs, InLine
<1>3. call' # call
  BY DEF Idle
<1>4. call # Idle
  BY DEF Idle
<1>5. ~ (StartGet \/ StartEnd \/ \E n \in 0 .. Len(file) : StartGoto(n))
  BY <1>4 DEF StartGet, StartEnd, StartGoto
<1>6. ~ DecompressError /\ ~ ReadError
  BY <1>3 DEF DecompressError, ReadError, Exited, Idle
<1>7. ~ UNCHANGED readerVars
  BY <1>3 DEF readerVars
<1>8. Continue
  BY <1>5, <1>6, <1>7 DEF DamagedNext, ReaderNext
<1>9. Within \/ LineDone \/ CallDone
  BY <1>8, ContinueKeeps
<1>10. CallDone
  BY <1>3, <1>9 DEF Within, LineDone
<1>11. CASE line_number = call.target
  BY <1>2, <1>10, <1>11 DEF CallDone
<1>12. CASE line_number = LineCount /\ line_number < call.target
  <2>1. ~ (call.target < LineCount)
    BY <1>2, <1>12
  <2> QED BY <1>10, <1>12, <2>1 DEF CallDone
<1> QED BY <1>10, <1>11, <1>12 DEF CallDone

\* get_next_line and goto_line: whatever the sizes of the buffers, however much
\* each read and each call of the decompressor gives, the n-th line returned is
\* the n-th of the file, between calls of any kind; in a damaged file, too, as
\* far as it is read.
THEOREM LinesFromAnyFile == DamagedSpec => []LinesAreTheFiles
<1>1. ReaderInit => DamagedInv
  BY StartsReaderInv DEF DamagedInv
<1>2. DamagedInv => LinesAreTheFiles
  BY ReaderInvMeans DEF DamagedInv
<1> QED BY <1>1, <1>2, KeepsDamagedInv, PTL DEF DamagedSpec

\* goto_line: it reaches the target, or the last line of a file that is shorter,
\* from before the target and from behind it.
THEOREM GotoInAnyFile == DamagedSpec => GotoReaches
<1>1. DamagedSpec => []DamagedInv
  <2>1. ReaderInit => DamagedInv
    BY StartsReaderInv DEF DamagedInv
  <2> QED BY <2>1, KeepsDamagedInv, PTL DEF DamagedSpec
<1>2. DamagedInv /\ [DamagedNext]_readerVars
        => [call.op = "goto" /\ call' = Idle =>
               line_number' = IF call.target < LineCount THEN call.target ELSE LineCount]_readerVars
  BY GotoEnds DEF DamagedInv, Exited
<1> QED BY <1>1, <1>2, PTL DEF DamagedSpec, GotoReaches

(***************************************************************************)
(* RecordParser: the inductive invariant.                                  *)
(***************************************************************************)
\* The lines from a to b hold no record.
NoneOf(a, b) == \A n \in a .. b : ~ IsRecord(n)

\* The record returned is that of the line, but for the entry count of a type
\* that has none.
IsRecordOf(n) ==
    LET fresh == parse_record(Blank, LineOf(n)).record IN
    record = IF fresh.type \in {"create", "delete", "move"} THEN fresh
             ELSE [fresh EXCEPT !.entry_count = record.entry_count]

AskingEnd ==
    /\ call \in {Idle, ReachedFileEnd}
    /\ parser.from <= line_number /\ NoneOf(parser.from + 1, line_number)
    /\ call = Idle => \/ result = "more" /\ out_buf # <<>>
                      \/ result = "eof" /\ line_number = LineCount

TakingLine ==
    \/ /\ call = GetNextLine /\ (consumed_any \/ out_buf # <<>>)
       /\ parser.from <= line_number /\ NoneOf(parser.from + 1, line_number)
    \/ /\ call = Idle /\ returned[line_number] = LineOf(line_number)
       /\ parser.from < line_number /\ NoneOf(parser.from + 1, line_number - 1)

HasRecord ==
    /\ call = Idle /\ IsRecord(line_number) /\ IsRecordOf(line_number)
    /\ parser.from < line_number /\ NoneOf(parser.from + 1, line_number - 1)

NoRecords ==
    /\ call = Idle /\ line_number = LineCount
    /\ parser.from <= line_number /\ NoneOf(parser.from + 1, line_number)

StageOK ==
    /\ parser.from \in Nat
    /\ parser.at = "reached_file_end" => AskingEnd
    /\ parser.at = "get_next_line" => TakingLine
    /\ parser.at = "record" => HasRecord
    /\ parser.at = "none" => NoRecords

\* The list of a line is parsed alike into two records that differ in the entry count.
LEMMA ListAlike ==
    ASSUME NEW c, NEW r, NEW q, NEW head, NEW listed, NEW h, NEW s,
           NEW P, NEW Q, P = ListParsed(r, c, h, s), Q = ListParsed(q, c, head, listed)
    PROVE  /\ P.ok = Q.ok
           /\ P.ok => \/ Q.record = head /\ P.record = h
                      \/ Q.record = listed /\ P.record = s
<1>3. CASE ~ c.enough
  <2>1. P = [ok |-> FALSE, record |-> r] /\ Q = [ok |-> FALSE, record |-> q]
    BY <1>3 DEF ListParsed, NoRecord
  <2>2. P.ok = FALSE /\ Q.ok = FALSE
    BY <2>1
  <2> QED BY <2>2
<1>4. CASE c.enough /\ (~ c.numbers \/ (c.declared # 0 /\ Len(c.items) # c.declared))
  <2>1. P = [ok |-> FALSE, record |-> h] /\ Q = [ok |-> FALSE, record |-> head]
    BY <1>4 DEF ListParsed, NoRecord
  <2>2. P.ok = FALSE /\ Q.ok = FALSE
    BY <2>1
  <2> QED BY <2>2
<1>5. CASE c.enough /\ c.numbers /\ c.declared = 0
  <2>1. P = [ok |-> c.items = <<>>, record |-> h] /\ Q = [ok |-> c.items = <<>>, record |-> head]
    BY <1>5 DEF ListParsed
  <2>2. P.ok = (c.items = <<>>) /\ Q.ok = (c.items = <<>>) /\ P.record = h /\ Q.record = head
    BY <2>1
  <2> QED BY <2>2
<1>6. CASE c.enough /\ c.numbers /\ c.declared # 0 /\ Len(c.items) = c.declared
  <2>1. P = [ok |-> AllWhole(c.items) /\ c.item_numbers, record |-> s]
        /\ Q = [ok |-> AllWhole(c.items) /\ c.item_numbers, record |-> listed]
    BY <1>6 DEF ListParsed
  <2>2. P.ok = (AllWhole(c.items) /\ c.item_numbers) /\ Q.ok = (AllWhole(c.items) /\ c.item_numbers)
        /\ P.record = s /\ Q.record = listed
    BY <2>1
  <2> QED BY <2>2
<1> QED BY <1>3, <1>4, <1>5, <1>6

\* reset clears all but the entry count: what a line gives is the same after any line.
LEMMA ParsedAlike ==
    ASSUME NEW r, NEW l
    PROVE  LET P == parse_record(r, l)
               Q == parse_record(Blank, l)
           IN  /\ P.ok = Q.ok
               /\ P.ok => P.record = IF Q.record.type \in {"create", "delete", "move"}
                                     THEN Q.record
                                     ELSE [Q.record EXCEPT !.entry_count = P.record.entry_count]
<1>1. PICK x : x = r.entry_count
  OBVIOUS
<1>2. /\ Reset(r) = [Blank EXCEPT !.entry_count = x]
      /\ Reset(Blank) = Blank
  BY <1>1 DEF Reset, Blank
<1>3. PICK P, Q : P = parse_record(r, l) /\ Q = parse_record(Blank, l)
  OBVIOUS
<1>4. CASE ~ IsShort(l)
  BY <1>4 DEF parse_record, NoRecord
<1>5. CASE IsShort(l)
  <2>1. PICK c : c = ContentsOf[l[1]]
    OBVIOUS
  <2>2. PICK ps, bs, n : /\ ps = WholeOf(TakenItems(c.items)) /\ bs = BlocksIn(TakenItems(c.items))
                         /\ n = Len(BlocksIn(TakenItems(c.items)))
    OBVIOUS
  <2>3. CASE c.tag = "G"
    <3> DEFINE head == [Blank EXCEPT !.type = "get", !.line = l, !.touched_files = c.declared]
               listed == [head EXCEPT !.probes = @ \o ps, !.blocks = @ \o bs, !.touched_blocks = n]
               R == [Blank EXCEPT !.entry_count = x]
    <3>1. Q = ListParsed(Blank, c, head, listed)
      BY <1>2, <1>3, <1>5, <2>1, <2>2, <2>3 DEF parse_record, parse_get
    <3>2. [head EXCEPT !.entry_count = x]
            = [R EXCEPT !.type = "get", !.line = l, !.touched_files = c.declared]
      BY DEF Blank
    <3>3. [listed EXCEPT !.entry_count = x]
            = [[R EXCEPT !.type = "get", !.line = l, !.touched_files = c.declared]
                 EXCEPT !.probes = @ \o ps, !.blocks = @ \o bs, !.touched_blocks = n]
      BY DEF Blank
    <3>4. P = ListParsed(R, c, [head EXCEPT !.entry_count = x], [listed EXCEPT !.entry_count = x])
      BY <1>2, <1>3, <1>5, <2>1, <2>2, <2>3, <3>2, <3>3 DEF parse_record, parse_get
    <3>5. head.type = "get" /\ listed.type = "get"
      BY DEF Blank
    <3>6. /\ [head EXCEPT !.entry_count = x].entry_count = x
          /\ [listed EXCEPT !.entry_count = x].entry_count = x
      BY DEF Blank
    <3> HIDE DEF head, listed, R
    <3>7. PICK h, s : h = [head EXCEPT !.entry_count = x] /\ s = [listed EXCEPT !.entry_count = x]
      OBVIOUS
    <3>8. P = ListParsed(R, c, h, s)
      BY <3>4, <3>7
    <3>9. /\ P.ok = Q.ok
          /\ P.ok => \/ Q.record = head /\ P.record = h
                     \/ Q.record = listed /\ P.record = s
      BY <3>1, <3>8, ListAlike
    <3>10. ASSUME P.ok
           PROVE  P.record = IF Q.record.type \in {"create", "delete", "move"} THEN Q.record
                             ELSE [Q.record EXCEPT !.entry_count = P.record.entry_count]
      <4>1. CASE Q.record = head /\ P.record = h
        BY <3>5, <3>6, <3>7, <4>1
      <4>2. CASE Q.record = listed /\ P.record = s
        BY <3>5, <3>6, <3>7, <4>2
      <4> QED BY <3>9, <3>10, <4>1, <4>2
    <3> QED BY <1>3, <3>9, <3>10
  <2>4. CASE c.tag = "A"
    <3> DEFINE head == [Blank EXCEPT !.type = "iterator", !.line = l, !.touched_blocks = c.declared]
               listed == [head EXCEPT !.blocks = @ \o bs]
               R == [Blank EXCEPT !.entry_count = x]
    <3>1. Q = ListParsed(Blank, c, head, listed)
      BY <1>2, <1>3, <1>5, <2>1, <2>2, <2>4 DEF parse_record, parse_iterator
    <3>2. [head EXCEPT !.entry_count = x]
            = [R EXCEPT !.type = "iterator", !.line = l, !.touched_blocks = c.declared]
      BY DEF Blank
    <3>3. [listed EXCEPT !.entry_count = x]
            = [[R EXCEPT !.type = "iterator", !.line = l, !.touched_blocks = c.declared]
                 EXCEPT !.blocks = @ \o bs]
      BY DEF Blank
    <3>4. P = ListParsed(R, c, [head EXCEPT !.entry_count = x], [listed EXCEPT !.entry_count = x])
      BY <1>2, <1>3, <1>5, <2>1, <2>2, <2>4, <3>2, <3>3 DEF parse_record, parse_iterator
    <3>5. head.type = "iterator" /\ listed.type = "iterator"
      BY DEF Blank
    <3>6. /\ [head EXCEPT !.entry_count = x].entry_count = x
          /\ [listed EXCEPT !.entry_count = x].entry_count = x
      BY DEF Blank
    <3> HIDE DEF head, listed, R
    <3>7. PICK h, s : h = [head EXCEPT !.entry_count = x] /\ s = [listed EXCEPT !.entry_count = x]
      OBVIOUS
    <3>8. P = ListParsed(R, c, h, s)
      BY <3>4, <3>7
    <3>9. /\ P.ok = Q.ok
          /\ P.ok => \/ Q.record = head /\ P.record = h
                     \/ Q.record = listed /\ P.record = s
      BY <3>1, <3>8, ListAlike
    <3>10. ASSUME P.ok
           PROVE  P.record = IF Q.record.type \in {"create", "delete", "move"} THEN Q.record
                             ELSE [Q.record EXCEPT !.entry_count = P.record.entry_count]
      <4>1. CASE Q.record = head /\ P.record = h
        BY <3>5, <3>6, <3>7, <4>1
      <4>2. CASE Q.record = listed /\ P.record = s
        BY <3>5, <3>6, <3>7, <4>2
      <4> QED BY <3>9, <3>10, <4>1, <4>2
    <3> QED BY <1>3, <3>9, <3>10
  <2>5. CASE c.tag = "F"
    <3> DEFINE R == [Blank EXCEPT !.entry_count = x]
               filled == [R EXCEPT !.line = l, !.entry_count = c.entry_count,
                                   !.keys = c.event = "create" /\ c.keys]
               from == [Blank EXCEPT !.line = l, !.entry_count = c.entry_count,
                                     !.keys = c.event = "create" /\ c.keys]
    <3>1. P = parse_file_event(R, l, c) /\ Q = parse_file_event(Blank, l, c)
      BY <1>2, <1>3, <1>5, <2>1, <2>5 DEF parse_record
    <3>2. filled = from
      BY DEF Blank
    <3>3. CASE ~ c.enough \/ ~ c.numbers \/ c.event = "other"
      <4>1. P.ok = FALSE /\ Q.ok = FALSE
        BY <3>1, <3>3 DEF parse_file_event, NoRecord
      <4> QED BY <1>3, <4>1
    <3>4. CASE ~ (~ c.enough \/ ~ c.numbers \/ c.event = "other")
      <4>1. P = [ok |-> TRUE, record |-> [filled EXCEPT !.type = c.event]]
        BY <3>1, <3>4 DEF parse_file_event
      <4>2. Q = [ok |-> TRUE, record |-> [from EXCEPT !.type = c.event]]
        BY <3>1, <3>4 DEF parse_file_event
      <4>3. P = Q
        BY <3>2, <4>1, <4>2
      <4>4. Q.record = [Q.record EXCEPT !.entry_count = Q.record.entry_count]
        BY <4>2 DEF Blank
      <4> QED BY <1>3, <4>3, <4>4
    <3> QED BY <3>3, <3>4
  <2>6. CASE c.tag \notin {"G", "A", "F"}
    BY <1>5, <2>1, <2>6 DEF parse_record, NoRecord
  <2> QED BY <2>3, <2>4, <2>5, <2>6
<1> QED BY <1>4, <1>5

LEMMA StartsStageOK ==
    ASSUME ParserInit
    PROVE  ReaderInv /\ StageOK
<1>1. ReaderInv
  BY StartsReaderInv DEF ParserInit
<1>2. parser.at = "idle" /\ parser.from = 0
  BY DEF ParserInit, Stage
<1> QED BY <1>1, <1>2 DEF StageOK

\* The file is read only: its lines, and which are records, stay.
LEMMA NoneStay ==
    ASSUME file' = file
    PROVE  /\ \A n : LineOf(n)' = LineOf(n) /\ (IsRecord(n)' <=> IsRecord(n))
           /\ \A a, b : NoneOf(a, b)' <=> NoneOf(a, b)
           /\ LineCount' = LineCount
<1>1. \A n : LineOf(n)' = LineOf(n)
  BY SameFile
<1>2. \A n : IsRecord(n)' <=> IsRecord(n)
  BY <1>1 DEF IsRecord
<1>3. \A a, b : NoneOf(a, b)' <=> NoneOf(a, b)
  BY <1>2 DEF NoneOf
<1>4. LineCount' = LineCount
  BY SameFile
<1> QED BY <1>1, <1>2, <1>3, <1>4

LEMMA AppendedLine ==
    ASSUME ReaderInv, returned' = Append(returned, LineOf(line_number + 1)),
           line_number' = line_number + 1, file' = file
    PROVE  (returned[line_number] = LineOf(line_number))'
<1>1. /\ returned \in Seq(Seq(Text) \cup {Skipped}) /\ Len(returned) = line_number
  BY DEF ReaderInv, ReturnedOK
<1>2. PICK S : S = Seq(Text) \cup {Skipped} \cup {LineOf(line_number + 1)}
  OBVIOUS
<1>3. returned \in Seq(S)
  <2>1. \A i \in 1 .. Len(returned) : returned[i] \in S
    BY <1>1, <1>2, ElementOfSeq
  <2>2. Len(returned) \in Nat /\ returned \in [1 .. Len(returned) -> S]
    BY <1>1, <2>1, LenProperties
  <2> QED BY <2>2, IsASeq
<1>4. LineOf(line_number + 1) \in S
  BY <1>2
<1>5. returned'[Len(returned) + 1] = LineOf(line_number + 1)
  BY <1>3, <1>4, AppendProperties
<1>6. PICK n : n = line_number'
  OBVIOUS
<1>7. LineEnds' = LineEnds /\ Contents' = Contents
  BY SameFile
<1>8. n = line_number + 1 /\ returned'[n] = LineOf(n)
  BY <1>1, <1>5, <1>6
<1>9. (LineOf(line_number))' = LineOf(n)
  BY <1>6, <1>7 DEF LineOf, StartOf, EndOf
<1> QED BY <1>6, <1>8, <1>9

LEMMA ContinueKeepsStage ==
    ASSUME ReaderInv, StageOK, Continue, UNCHANGED <<record, parser>>
    PROVE  ReaderInv' /\ StageOK'
<1>1. ReaderInv' /\ file' = file /\ (Within \/ LineDone \/ CallDone)
  BY ContinueKeeps
<1>2. call # Idle
  BY CallIsOpen
<1>3. CallOK /\ line_number \in Nat
  BY InLine DEF ReaderInv
<1>4. PICK f, m, k : f = parser.from /\ m = line_number /\ k = line_number'
  OBVIOUS
<1>5. f \in Nat /\ parser'.from = f /\ parser'.at = parser.at
  BY <1>4 DEF StageOK
<1>6. ASSUME parser.at = "reached_file_end" PROVE AskingEnd'
  <2>1. AskingEnd /\ call = ReachedFileEnd
    BY <1>2, <1>6 DEF StageOK, AskingEnd
  <2>2. call.op = "end"
    BY <2>1 DEF ReachedFileEnd
  <2>3. Within \/ CallDone
    BY <1>1, <2>2 DEF LineDone
  <2>4. line_number' = line_number
    BY <2>3 DEF Within, CallDone
  <2>5. f <= m /\ NoneOf(f + 1, m)
    BY <1>4, <2>1 DEF AskingEnd
  <2>6. (parser.from <= line_number /\ NoneOf(parser.from + 1, line_number))'
    BY <1>1, <1>4, <1>5, <2>4, <2>5, NoneStay DEF NoneOf
  <2>7. CASE Within
    <3>1. call' = ReachedFileEnd
      BY <2>1, <2>7 DEF Within
    <3>2. call' # Idle
      BY <3>1 DEF ReachedFileEnd, Idle
    <3>3. ReachedFileEnd' = ReachedFileEnd /\ Idle' = Idle
      BY DEF ReachedFileEnd, Idle
    <3> QED BY <2>6, <3>1, <3>2, <3>3 DEF AskingEnd
  <2>8. CASE CallDone
    <3>1. call' = Idle /\ \/ result' = "more" /\ out_buf' # <<>>
                          \/ result' = "eof" /\ line_number = LineCount
      BY <2>2, <2>8 DEF CallDone
    <3>2. LineCount' = LineCount
      BY <1>1, SameFile
    <3>3. Idle' = Idle
      BY DEF Idle
    <3> QED BY <2>4, <2>6, <3>1, <3>2, <3>3 DEF AskingEnd
  <2> QED BY <2>3, <2>7, <2>8
<1>7. ASSUME parser.at = "get_next_line" PROVE TakingLine'
  <2>1. /\ call = GetNextLine /\ (consumed_any \/ out_buf # <<>>)
        /\ f <= m /\ NoneOf(f + 1, m)
    BY <1>2, <1>4, <1>7 DEF StageOK, TakingLine
  <2>2. call.op = "get"
    BY <2>1 DEF GetNextLine
  <2>3. ~ CallDone
    BY <2>1, <2>2 DEF CallDone
  <2>4. GetNextLine' = GetNextLine /\ Idle' = Idle
    BY DEF GetNextLine, Idle
  <2>5. CASE Within
    <3>1. call' = GetNextLine /\ line_number' = line_number /\ (consumed_any' \/ out_buf' # <<>>)
      BY <2>1, <2>5 DEF Within
    <3>2. (parser.from <= line_number /\ NoneOf(parser.from + 1, line_number))'
      BY <1>1, <1>4, <1>5, <2>1, <3>1, NoneStay DEF NoneOf
    <3> QED BY <2>4, <3>1, <3>2 DEF TakingLine
  <2>6. CASE LineDone
    <3>1. call' = Idle /\ line_number' = line_number + 1
          /\ returned' = Append(returned, LineOf(line_number + 1))
      BY <2>2, <2>6 DEF LineDone
    <3>2. (returned[line_number] = LineOf(line_number))'
      BY <1>1, <3>1, AppendedLine
    <3>3. k = m + 1 /\ k - 1 = m /\ f < k
      BY <1>3, <1>4, <1>5, <2>1, <3>1
    <3>4. (parser.from < line_number /\ NoneOf(parser.from + 1, line_number - 1))'
      BY <1>1, <1>4, <1>5, <2>1, <3>3, NoneStay DEF NoneOf
    <3> QED BY <2>4, <3>1, <3>2, <3>4 DEF TakingLine
  <2> QED BY <1>1, <2>3, <2>5, <2>6
<1>8. parser.at \notin {"record", "none"}
  BY <1>2 DEF StageOK, HasRecord, NoRecords
<1> QED BY <1>1, <1>4, <1>5, <1>6, <1>7, <1>8 DEF StageOK

LEMMA ParseLineKeeps ==
    ASSUME ReaderInv, StageOK, ParseLine
    PROVE  ReaderInv' /\ StageOK'
<1>1. parser.at = "get_next_line" /\ call = Idle
  BY DEF ParseLine
<1>2. PICK f, m : f = parser.from /\ m = line_number
  OBVIOUS
<1>3. f \in Nat /\ m \in Nat
  BY <1>2, InLine DEF StageOK, ReaderInv
<1>4. returned[m] = LineOf(m) /\ f < m /\ NoneOf(f + 1, m - 1)
  <2>1. call # GetNextLine
    BY <1>1 DEF GetNextLine, Idle
  <2> QED BY <1>1, <1>2, <2>1 DEF StageOK, TakingLine
<1>5. Last(returned) = LineOf(m)
  BY <1>2, <1>4 DEF ReaderInv, ReturnedOK, Last
<1>6. PICK P : P = parse_record(record, Last(returned))
  OBVIOUS
<1>7. /\ record' = P.record
      /\ IF P.ok THEN parser' = Stage("record", parser.from) /\ UNCHANGED readerVars
         ELSE StartEnd /\ parser' = Stage("reached_file_end", parser.from)
  BY <1>6 DEF ParseLine
<1>8. PICK Q : Q = parse_record(Blank, LineOf(m))
  OBVIOUS
<1>9. /\ P.ok = Q.ok
      /\ P.ok => P.record = IF Q.record.type \in {"create", "delete", "move"} THEN Q.record
                            ELSE [Q.record EXCEPT !.entry_count = P.record.entry_count]
  BY <1>5, <1>6, <1>8, ParsedAlike
<1>10. IsRecord(m) <=> Q.ok
  BY <1>8 DEF IsRecord
<1>11. CASE P.ok
  <2>1. parser'.at = "record" /\ parser'.from = f /\ UNCHANGED readerVars
    BY <1>2, <1>7, <1>11 DEF Stage
  <2>2. UNCHANGED <<file, line_number, call>>
    BY <2>1 DEF readerVars
  <2>3. ReaderInv'
    BY <2>1, ReaderStays
  <2>4. LineEnds' = LineEnds /\ Contents' = Contents
    BY <2>2, SameFile
  <2>5. (LineOf(line_number))' = LineOf(m)
    BY <1>2, <2>2, <2>4 DEF LineOf, StartOf, EndOf
  <2>6. (IsRecord(line_number))'
    BY <1>8, <1>9, <1>11, <2>5 DEF IsRecord
  <2>7. (IsRecordOf(line_number))'
    BY <1>7, <1>8, <1>9, <1>11, <2>5 DEF IsRecordOf
  <2>8. (parser.from < line_number /\ NoneOf(parser.from + 1, line_number - 1))'
    BY <1>2, <1>4, <2>1, <2>2, NoneStay DEF NoneOf
  <2>9. call' = Idle /\ Idle' = Idle
    BY <1>1, <2>2 DEF Idle
  <2>10. HasRecord'
    BY <2>6, <2>7, <2>8, <2>9 DEF HasRecord
  <2> QED BY <1>3, <2>1, <2>3, <2>10 DEF StageOK
<1>12. CASE ~ P.ok
  <2>1. StartEnd /\ parser'.at = "reached_file_end" /\ parser'.from = f
    BY <1>2, <1>7, <1>12 DEF Stage
  <2>2. call' = ReachedFileEnd /\ UNCHANGED <<file, line_number>>
    BY <2>1 DEF StartEnd
  <2>3. ReaderInv'
    BY <2>1, StartKeeps
  <2>4. ASSUME NEW n \in f + 1 .. m PROVE ~ IsRecord(n)
    <3>1. CASE n = m
      BY <1>9, <1>10, <1>12, <3>1
    <3>2. CASE n # m
      <4>1. n \in f + 1 .. m - 1
        BY <1>3, <3>2
      <4> QED BY <1>4, <4>1 DEF NoneOf
    <3> QED BY <3>1, <3>2
  <2>5. f <= m /\ NoneOf(f + 1, m)
    BY <1>3, <1>4, <2>4 DEF NoneOf
  <2>6. (parser.from <= line_number /\ NoneOf(parser.from + 1, line_number))'
    BY <1>2, <2>1, <2>2, <2>5, NoneStay DEF NoneOf
  <2>7. call' # Idle /\ ReachedFileEnd' = ReachedFileEnd /\ Idle' = Idle
    BY <2>2 DEF ReachedFileEnd, Idle
  <2>8. AskingEnd'
    BY <2>2, <2>6, <2>7 DEF AskingEnd
  <2> QED BY <1>3, <2>1, <2>3, <2>8 DEF StageOK
<1> QED BY <1>11, <1>12

\* The steps that begin and end a call of parse_next_record, and direct calls of the reader.
LEMMA CallsKeepStage ==
    ASSUME ReaderInv, StageOK, StartParse \/ TakeLine \/ NoneLeft \/ Direct
    PROVE  ReaderInv' /\ StageOK'
<1>1. PICK f, m : f = parser.from /\ m = line_number
  OBVIOUS
<1>2. f \in Nat /\ m \in Nat
  BY <1>1, InLine DEF StageOK, ReaderInv
<1>3. CASE StartParse
  <2>1. StartEnd /\ parser'.at = "reached_file_end" /\ parser'.from = m
    BY <1>1, <1>3 DEF StartParse, Stage
  <2>2. call' = ReachedFileEnd /\ UNCHANGED <<file, line_number>>
    BY <2>1 DEF StartEnd
  <2>3. ReaderInv'
    BY <2>1, StartKeeps
  <2>4. m <= m /\ m + 1 .. m = {}
    BY <1>2
  <2>5. (parser.from <= line_number /\ NoneOf(parser.from + 1, line_number))'
    BY <1>1, <2>1, <2>2, <2>4 DEF NoneOf
  <2>6. call' # Idle /\ ReachedFileEnd' = ReachedFileEnd /\ Idle' = Idle
    BY <2>2 DEF ReachedFileEnd, Idle
  <2>7. AskingEnd'
    BY <2>2, <2>5, <2>6 DEF AskingEnd
  <2> QED BY <1>2, <2>1, <2>3, <2>7 DEF StageOK
<1>4. CASE TakeLine
  <2>1. /\ StartGet /\ parser'.at = "get_next_line" /\ parser'.from = f
        /\ parser.at = "reached_file_end" /\ result = "more"
    BY <1>1, <1>4 DEF TakeLine, Stage
  <2>2. call = Idle /\ call' = GetNextLine /\ UNCHANGED <<file, line_number, out_buf>>
    BY <2>1 DEF StartGet, buffers
  <2>3. ReaderInv'
    BY <2>1, StartKeeps
  <2>4. out_buf # <<>> /\ f <= m /\ NoneOf(f + 1, m)
    BY <1>1, <2>1, <2>2 DEF StageOK, AskingEnd
  <2>5. (parser.from <= line_number /\ NoneOf(parser.from + 1, line_number))'
    BY <1>1, <2>1, <2>2, <2>4, NoneStay DEF NoneOf
  <2>6. TakingLine'
    <3>1. GetNextLine' = GetNextLine
      BY DEF GetNextLine
    <3> QED BY <2>2, <2>4, <2>5, <3>1 DEF TakingLine
  <2> QED BY <1>2, <2>1, <2>3, <2>6 DEF StageOK
<1>5. CASE NoneLeft
  <2>1. /\ parser.at = "reached_file_end" /\ call = Idle /\ result # "more"
        /\ parser'.at = "none" /\ parser'.from = f /\ UNCHANGED readerVars
    BY <1>1, <1>5 DEF NoneLeft, Stage
  <2>2. UNCHANGED <<file, line_number, call>>
    BY <2>1 DEF readerVars
  <2>3. ReaderInv'
    BY <2>1, ReaderStays
  <2>4. m = LineCount /\ f <= m /\ NoneOf(f + 1, m)
    BY <1>1, <2>1 DEF StageOK, AskingEnd
  <2>5. (parser.from <= line_number /\ NoneOf(parser.from + 1, line_number))'
    BY <1>1, <2>1, <2>2, <2>4, NoneStay DEF NoneOf
  <2>6. LineCount' = LineCount
    BY <2>2, SameFile
  <2>7. Idle' = Idle
    BY DEF Idle
  <2>8. NoRecords'
    BY <1>1, <2>1, <2>2, <2>4, <2>5, <2>6, <2>7 DEF NoRecords
  <2> QED BY <1>2, <2>1, <2>3, <2>8 DEF StageOK
<1>6. CASE Direct
  <2>1. /\ StartGet \/ StartEnd \/ \E n \in 0 .. Len(file) : StartGoto(n)
        /\ parser'.at = "idle" /\ parser'.from = 0
    BY <1>6 DEF Direct, Stage
  <2>2. ReaderInv'
    BY <2>1, StartKeeps
  <2> QED BY <2>1, <2>2 DEF StageOK
<1> QED BY <1>3, <1>4, <1>5, <1>6

LEMMA StageStays ==
    ASSUME ReaderInv, StageOK, UNCHANGED parserVars
    PROVE  ReaderInv' /\ StageOK'
<1>1. UNCHANGED <<readerVars, record, parser>>
  BY DEF parserVars
<1>2. ReaderInv'
  BY <1>1, ReaderStays
<1>3. /\ UNCHANGED <<file, line_number, call, consumed_any, returned, result, record, parser>>
      /\ UNCHANGED out_buf
  BY <1>1 DEF readerVars, buffers, locals, returns
<1>4. Contents' = Contents /\ LineEnds' = LineEnds /\ LineCount' = LineCount
  BY <1>3, SameFile
<1>5. (LineOf(line_number))' = LineOf(line_number)
  BY <1>3, <1>4 DEF LineOf, StartOf, EndOf
<1>6. (IsRecord(line_number))' <=> IsRecord(line_number)
  BY <1>5 DEF IsRecord
<1>7. (IsRecordOf(line_number))' <=> IsRecordOf(line_number)
  BY <1>3, <1>5 DEF IsRecordOf
<1>8. (NoneOf(parser.from + 1, line_number))' <=> NoneOf(parser.from + 1, line_number)
  BY <1>3, NoneStay DEF NoneOf
<1>9. (NoneOf(parser.from + 1, line_number - 1))' <=> NoneOf(parser.from + 1, line_number - 1)
  BY <1>3, NoneStay DEF NoneOf
<1>10. Idle' = Idle /\ GetNextLine' = GetNextLine /\ ReachedFileEnd' = ReachedFileEnd
  BY DEF Idle, GetNextLine, ReachedFileEnd
<1>11. AskingEnd => AskingEnd'
  BY <1>3, <1>4, <1>8, <1>10 DEF AskingEnd
<1>12. TakingLine => TakingLine'
  BY <1>3, <1>5, <1>8, <1>9, <1>10 DEF TakingLine
<1>13. HasRecord => HasRecord'
  BY <1>3, <1>6, <1>7, <1>9, <1>10 DEF HasRecord
<1>14. NoRecords => NoRecords'
  BY <1>3, <1>4, <1>8, <1>10 DEF NoRecords
<1>15. StageOK'
  BY <1>3, <1>11, <1>12, <1>13, <1>14 DEF StageOK
<1> QED BY <1>2, <1>15

LEMMA KeepsStageOK ==
    ASSUME ReaderInv, StageOK, [ParserNext]_parserVars
    PROVE  ReaderInv' /\ StageOK'
<1>1. CASE StartParse \/ TakeLine \/ NoneLeft \/ Direct
  BY <1>1, CallsKeepStage
<1>2. CASE ParseLine
  BY <1>2, ParseLineKeeps
<1>3. CASE Continue /\ UNCHANGED <<record, parser>>
  BY <1>3, ContinueKeepsStage
<1>4. CASE UNCHANGED parserVars
  BY <1>4, StageStays
<1> QED BY <1>1, <1>2, <1>3, <1>4 DEF ParserNext, ParserContinue

LEMMA StageOKMeans ==
    ASSUME ReaderInv, StageOK
    PROVE  RecordsAreTheLines
<1>1. parser.from \in Nat /\ line_number \in Nat
  BY InLine DEF StageOK, ReaderInv
<1>2. CASE parser.at = "record"
  <2>1. HasRecord
    BY <1>2 DEF StageOK
  <2>2. ASSUME NEW n \in parser.from + 1 .. line_number
        PROVE  n = line_number <=> IsRecord(n)
    <3>1. CASE n = line_number
      BY <2>1, <3>1 DEF HasRecord
    <3>2. CASE n # line_number
      <4>1. n \in parser.from + 1 .. line_number - 1
        BY <1>1, <3>2
      <4> QED BY <2>1, <3>2, <4>1 DEF HasRecord, NoneOf
    <3> QED BY <3>1, <3>2
  <2>3. IsRecordOf(line_number)
    BY <2>1 DEF HasRecord
  <2> QED BY <1>2, <2>2, <2>3 DEF RecordsAreTheLines, IsRecordOf
<1>3. CASE parser.at = "none"
  BY <1>3 DEF StageOK, NoRecords, NoneOf, RecordsAreTheLines
<1>4. CASE parser.at \notin {"record", "none"}
  BY <1>4 DEF RecordsAreTheLines
<1> QED BY <1>2, <1>3, <1>4

LEMMA ParserSteps == [ParserNext]_parserVars => [DamagedNext]_readerVars
<1>1. ParserNext => ReaderNext \/ UNCHANGED readerVars
  BY DEF ParserNext, StartParse, Direct, ParserContinue, TakeLine, NoneLeft, ParseLine, ReaderNext
<1> QED BY <1>1 DEF DamagedNext, parserVars

\* parse_next_record: whatever lines fail to parse and however far they get, the
\* record returned is that of the line reached, the lines passed over hold none,
\* and false means that none is left.
THEOREM RecordsComeOut == ParserSpec => []RecordsAreTheLines
<1>1. ParserSpec => [](ReaderInv /\ StageOK)
  BY StartsStageOK, KeepsStageOK, PTL DEF ParserSpec
<1> QED BY <1>1, StageOKMeans, PTL

\* The reader's lines are right under the parser, and when its operations are
\* called between two records.
THEOREM LinesUnderParser == ParserSpec => []LinesAreTheFiles
<1>1. ParserSpec => [](ReaderInv /\ StageOK)
  BY StartsStageOK, KeepsStageOK, PTL DEF ParserSpec
<1> QED BY <1>1, ReaderInvMeans, PTL

\* So is where goto_line ends.
THEOREM GotoUnderParser == ParserSpec => GotoReaches
<1>1. ParserSpec => [](ReaderInv /\ StageOK)
  BY StartsStageOK, KeepsStageOK, PTL DEF ParserSpec
<1>2. ReaderInv /\ [DamagedNext]_readerVars
        => [call.op = "goto" /\ call' = Idle =>
               line_number' = IF call.target < LineCount THEN call.target ELSE LineCount]_readerVars
  BY GotoEnds
<1> QED BY <1>1, <1>2, ParserSteps, PTL DEF ParserSpec, GotoReaches
=============================================================================
