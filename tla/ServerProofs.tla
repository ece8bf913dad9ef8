--------------------------- MODULE ServerProofs ---------------------------
(***************************************************************************)
(* The operations of Job keep a job well formed, with counters that are    *)
(* the numbers of its tasks in each state, and the server keeps its types  *)
(* and its counters whatever the order of requests, responses and reports, *)
(* for any number of clients, workers, jobs and messages.                  *)
(***************************************************************************)
EXTENDS Server, FiniteSetTheorems, SequenceTheorems, WellFoundedInduction, TLAPS

\* A set of naturals that is not empty has a least element.
LEMMA LeastNatural ==
    ASSUME NEW T, T \subseteq Nat, T # {}
    PROVE  \E x \in T : \A y \in T : x <= y
<1>. DEFINE R == {ss \in Nat \X Nat : ss[1] < ss[2]}
<1>1. IsWellFoundedOn(R, Nat)
  BY Zenon, NatLessThanWellFounded DEF OpToRel
<1>2. \A x, y \in Nat : x < y => <<x, y>> \in R
  BY Zenon
<1>. HIDE DEF R
<1>3. PICK x \in T : \A y \in T : ~ (<<y, x>> \in R)
  BY Zenon, <1>1, WFMin
<1>4. \A y \in T : ~ (y < x)
  BY Zenon, <1>2, <1>3
<1>. QED  BY <1>4

JobInv(job) == JobTypeOK(job) /\ CountersOK(job)

\* The tasks in a set of states form a finite set.
LEMMA InStateFinite ==
    ASSUME NEW job, JobTypeOK(job), NEW S
    PROVE  /\ InState(job, S) \subseteq DOMAIN job.tasks
           /\ IsFiniteSet(InState(job, S))
           /\ Cardinality(InState(job, S)) \in Nat
<1>1. InState(job, S) \in SUBSET DOMAIN job.tasks
  BY Zenon DEF InState
<1>2. IsFiniteSet(InState(job, S))
  BY Zenon, <1>1, FS_Subset DEF JobTypeOK
<1>. QED  BY Zenon, <1>1, <1>2, FS_CardinalityType

\* moved is job with the tasks ids moved to the state `to'.
IsMove(job, moved, ids, to) ==
    /\ ids \subseteq DOMAIN job.tasks
    /\ \A t \in ids : job.tasks[t] # to
    /\ DOMAIN moved.tasks = DOMAIN job.tasks
    /\ \A t \in DOMAIN job.tasks :
           moved.tasks[t] = IF t \in ids THEN to ELSE job.tasks[t]

\* The tasks of ids that are in state s.
Among(job, ids, s) == InState(job, {s}) \cap ids

Count(job, s) == Cardinality(InState(job, {s}))

\* The value a counter of state s must have after the move.
CountAfter(count, job, ids, to, s) ==
    IF s = to THEN count + Cardinality(ids)
              ELSE count - Cardinality(Among(job, ids, s))

\* Such a move adds the number of the tasks to those in `to' and takes from
\* every other state the number of them that were in it.
LEMMA MoveCounts ==
    ASSUME NEW job, NEW moved, NEW ids, NEW to,
           JobTypeOK(job), IsMove(job, moved, ids, to)
    PROVE  \A s : Count(moved, s) = CountAfter(Count(job, s), job, ids, to, s)
<1>1. IsFiniteSet(ids)
  BY Zenon, FS_Subset DEF JobTypeOK, IsMove
<1>2. Cardinality(ids) \in Nat
  BY Zenon, <1>1, FS_CardinalityType
<1>3. InState(moved, {to}) = InState(job, {to}) \cup ids
  BY Zenon DEF InState, IsMove
<1>4. InState(job, {to}) \cap ids = {}
  BY Zenon DEF InState, IsMove
<1>5. IsFiniteSet(InState(job, {to})) /\ Cardinality(InState(job, {to})) \in Nat
  BY Zenon, InStateFinite
<1>6. Cardinality(InState(job, {to}) \cup ids)
          = Cardinality(InState(job, {to})) + Cardinality(ids)
  <2>1. Cardinality({}) = 0
    BY Zenon, FS_EmptySet
  <2>2. Cardinality(InState(job, {to}) \cup ids)
          = Cardinality(InState(job, {to})) + Cardinality(ids)
              - Cardinality(InState(job, {to}) \cap ids)
    BY Zenon, <1>1, <1>5, FS_Union
  <2>3. Cardinality(InState(job, {to}) \cap ids) = 0
    BY Zenon, <1>4, <2>1
  <2>. QED  BY <2>2, <2>3, <1>2, <1>5
<1>8. ASSUME NEW s, s # to
      PROVE  Cardinality(InState(moved, {s})) =
                 Cardinality(InState(job, {s})) - Cardinality(Among(job, ids, s))
  <2>1. InState(moved, {s}) = InState(job, {s}) \ ids
    BY Zenon, <1>8 DEF InState, IsMove
  <2>2. IsFiniteSet(InState(job, {s}))
    BY Zenon, InStateFinite
  <2>. QED  BY Zenon, <2>1, <2>2, FS_Difference DEF Among
<1>. QED  BY Zenon, <1>3, <1>6, <1>8 DEF CountAfter, Count

\* A new job is well formed and its counters are right.
LEMMA NewJobInv ==
    ASSUME NEW base \in Nat, NEW spec, spec.n \in Nat, spec.max_fails \subseteq Nat,
           spec.log \in BOOLEAN
    PROVE  JobInv(new(base, spec))
<1>. DEFINE job == new(base, spec)
            ids == base .. (base + spec.n - 1)
<1>1. DOMAIN job.tasks = ids /\ ids \subseteq Nat
  BY DEF new
<1>2. IsFiniteSet(ids)
  BY FS_Interval
<1>3. job \in JobRecord(ids)
  BY Zenon DEF new, JobRecord, JobTaskState, NonFinished, Terminal
<1>4. \A s \in JobTaskState \ {"Waiting"} : InState(job, {s}) = {}
  BY Zenon DEF new, InState
<1>5. CountersOK(job)
  <2>1. Cardinality({}) = 0
    BY Zenon, FS_EmptySet
  <2>2. /\ job.n_running_tasks = 0 /\ job.n_finished_tasks = 0
        /\ job.n_failed_tasks = 0 /\ job.n_canceled_tasks = 0
    BY Zenon DEF new
  <2>. QED  BY Zenon, <1>4, <2>1, <2>2 DEF CountersOK, JobTaskState, NonFinished, Terminal
<1>. QED  BY Zenon, <1>1, <1>2, <1>3, <1>5 DEF JobInv, JobTypeOK

\* The counters follow the move.
CountersMove(job, moved, ids, to) ==
    /\ moved.n_running_tasks  = CountAfter(job.n_running_tasks, job, ids, to, "Running")
    /\ moved.n_finished_tasks = CountAfter(job.n_finished_tasks, job, ids, to, "Finished")
    /\ moved.n_failed_tasks   = CountAfter(job.n_failed_tasks, job, ids, to, "Failed")
    /\ moved.n_canceled_tasks = CountAfter(job.n_canceled_tasks, job, ids, to, "Canceled")

\* Counters that follow a move stay right.
LEMMA MoveCountersOK ==
    ASSUME NEW job, NEW moved, NEW ids, NEW to, JobInv(job),
           IsMove(job, moved, ids, to), CountersMove(job, moved, ids, to)
    PROVE  CountersOK(moved)
<1>0. JobTypeOK(job)
  BY Zenon DEF JobInv
<1>1. \A s : Count(moved, s) = CountAfter(Count(job, s), job, ids, to, s)
  BY <1>0, MoveCounts
<1>. QED
  BY Zenon, <1>1 DEF CountersOK, JobInv, CountersMove, Count

AllIn(job, ids, s) == ids \subseteq InState(job, {s})

\* How many tasks of a state a set of tasks that are all in state s contains.
LEMMA CountOfOneState ==
    ASSUME NEW job, NEW ids, NEW s, AllIn(job, ids, s)
    PROVE  /\ Among(job, ids, s) = ids
           /\ \A other : other # s => Cardinality(Among(job, ids, other)) = 0
<1>1. ASSUME NEW other, other # s
      PROVE  Among(job, ids, other) = {}
  BY Zenon, <1>1 DEF InState, Among, AllIn
<1>. QED  BY Zenon, <1>1, FS_EmptySet DEF InState, Among, AllIn

\* What every operation on a job does: the job stays well formed, keeps its
\* base and the ids of its tasks, and leaves the tasks that have ended alone.
JobStep(job, moved) ==
    /\ JobInv(moved)
    /\ moved.base = job.base
    /\ DOMAIN moved.tasks = DOMAIN job.tasks
    /\ \A t \in InState(job, Terminal) : moved.tasks[t] = job.tasks[t]

\* A move of tasks that have not ended, with counters that follow it.
LEMMA MoveJobStep ==
    ASSUME NEW job, NEW moved, NEW ids, NEW to, JobInv(job),
           moved \in JobRecord(DOMAIN job.tasks), moved.base = job.base,
           IsMove(job, moved, ids, to), CountersMove(job, moved, ids, to),
           ids \subseteq InState(job, NonFinished)
    PROVE  JobStep(job, moved)
<1>1. DOMAIN moved.tasks = DOMAIN job.tasks
  BY Zenon DEF JobRecord
<1>2. JobTypeOK(moved)
  BY Zenon, <1>1 DEF JobInv, JobTypeOK
<1>3. CountersOK(moved)
  BY Zenon, MoveCountersOK
<1>4. \A t \in InState(job, Terminal) : moved.tasks[t] = job.tasks[t]
  BY Zenon DEF IsMove, InState, Terminal, NonFinished
<1>. QED  BY Zenon, <1>1, <1>2, <1>3, <1>4 DEF JobStep, JobInv

\* check_termination only sets the completion date.
LEMMA CheckTerminationStep ==
    ASSUME NEW job, NEW moved, JobStep(job, moved)
    PROVE  JobStep(job, check_termination(moved))
<1>. DEFINE done == check_termination(moved)
<1>1. moved \in JobRecord(DOMAIN moved.tasks)
  BY Zenon DEF JobStep, JobInv, JobTypeOK
<1>2. done \in JobRecord(DOMAIN moved.tasks)
  BY Zenon, <1>1 DEF check_termination, JobRecord
<1>3. /\ done.base = moved.base
      /\ done.tasks = moved.tasks
      /\ done.n_running_tasks = moved.n_running_tasks
      /\ done.n_finished_tasks = moved.n_finished_tasks
      /\ done.n_failed_tasks = moved.n_failed_tasks
      /\ done.n_canceled_tasks = moved.n_canceled_tasks
  BY Zenon, <1>1 DEF check_termination, JobRecord
<1>. HIDE DEF done
<1>4. JobTypeOK(done)
  BY Zenon, <1>2, <1>3 DEF JobStep, JobInv, JobTypeOK
<1>5. CountersOK(done)
  <2>1. \A S : InState(done, S) = InState(moved, S)
    BY Zenon, <1>3 DEF InState
  <2>2. CountersOK(moved)
    BY Zenon DEF JobStep, JobInv
  <2>. QED  BY Zenon, <1>3, <2>1, <2>2 DEF CountersOK
<1>6. JobStep(job, done)
  BY Zenon, <1>3, <1>4, <1>5 DEF JobStep, JobInv
<1>. QED  BY Zenon, <1>6 DEF done

\* set_running_state, whether the task waits or the report is ignored.
LEMMA RunningJobStep ==
    ASSUME NEW job, JobInv(job), NEW id \in DOMAIN job.tasks, NEW w \in Workers
    PROVE  JobStep(job, set_running_state(job, id, w))
<1>. DEFINE moved == set_running_state(job, id, w)
<1>0. job \in JobRecord(DOMAIN job.tasks)
  BY Zenon DEF JobInv, JobTypeOK
<1>1. CASE job.tasks[id] # "Waiting"
  BY Zenon, <1>1 DEF set_running_state, JobStep
<1>2. CASE job.tasks[id] = "Waiting"
  <2>1. moved \in JobRecord(DOMAIN job.tasks)
    <3>1. job.n_running_tasks + 1 \in Nat
      BY <1>0 DEF JobRecord
    <3>. QED  BY Zenon, <1>0, <1>2, <3>1 DEF set_running_state, JobRecord, JobTaskState, NonFinished
  <2>2. IsMove(job, moved, {id}, "Running")
    BY Zenon, <1>0, <1>2 DEF set_running_state, JobRecord, IsMove
  <2>3. /\ moved.base = job.base
        /\ moved.n_running_tasks = job.n_running_tasks + 1
        /\ moved.n_finished_tasks = job.n_finished_tasks
        /\ moved.n_failed_tasks = job.n_failed_tasks
        /\ moved.n_canceled_tasks = job.n_canceled_tasks
    BY Zenon, <1>0, <1>2 DEF set_running_state, JobRecord
  <2>4. Cardinality({id}) = 1
    BY Zenon, FS_Singleton
  <2>5. AllIn(job, {id}, "Waiting")
    BY Zenon, <1>2 DEF InState, AllIn
  <2>6. \A s : s # "Waiting" => Cardinality(Among(job, {id}, s)) = 0
    BY Zenon, <2>5, CountOfOneState
  <2>. HIDE DEF moved
  <2>7. CountersMove(job, moved, {id}, "Running")
    BY <1>0, <2>3, <2>4, <2>6 DEF CountersMove, CountAfter, JobRecord
  <2>8. {id} \subseteq InState(job, NonFinished)
    BY Zenon, <2>5 DEF InState, NonFinished, AllIn
  <2>9. JobStep(job, moved)
    BY Zenon, <2>1, <2>2, <2>3, <2>7, <2>8, MoveJobStep
  <2>. QED  BY Zenon, <2>9 DEF moved
<1>. QED  BY Zenon, <1>1, <1>2

\* While a task runs, the counter of running tasks is not zero.
LEMMA RunningPositive ==
    ASSUME NEW job, JobInv(job), NEW id, can_end(job, id)
    PROVE  job.n_running_tasks \in Nat \ {0}
<1>1. IsFiniteSet(InState(job, {"Running"})) /\ Cardinality(InState(job, {"Running"})) \in Nat
  BY Zenon, InStateFinite DEF JobInv
<1>2. id \in InState(job, {"Running"})
  BY Zenon DEF can_end, InState
<1>3. Cardinality(InState(job, {"Running"})) # 0
  BY Zenon, <1>1, <1>2, FS_EmptySet
<1>. QED  BY Zenon, <1>1, <1>3 DEF JobInv, CountersOK

\* set_finished_state of a task that runs.
LEMMA FinishedJobStep ==
    ASSUME NEW job, JobInv(job), NEW id, can_end(job, id)
    PROVE  JobStep(job, set_finished_state(job, id))
<1>. DEFINE moved == [job EXCEPT !.tasks[id] = "Finished",
                                 !.n_running_tasks = job.n_running_tasks - 1,
                                 !.n_finished_tasks = job.n_finished_tasks + 1]
<1>1. job \in JobRecord(DOMAIN job.tasks) /\ id \in DOMAIN job.tasks
  BY Zenon DEF JobInv, JobTypeOK, can_end
<1>2. AllIn(job, {id}, "Running") /\ {id} \subseteq InState(job, NonFinished)
  BY Zenon DEF InState, can_end, NonFinished, AllIn
<1>3. Cardinality({id}) = 1
  BY Zenon, FS_Singleton
<1>4. Cardinality(Among(job, {id}, "Running")) = 1
  <2>1. Among(job, {id}, "Running") = {id}
    BY Zenon, <1>2, CountOfOneState
  <2>. QED  BY Zenon, <1>3, <2>1
<1>5. \A s : s # "Running" => Cardinality(Among(job, {id}, s)) = 0
  BY Zenon, <1>2, CountOfOneState
<1>6. job.n_running_tasks - 1 \in Nat /\ job.n_finished_tasks + 1 \in Nat
  BY <1>1, RunningPositive DEF JobRecord
<1>7. moved \in JobRecord(DOMAIN job.tasks)
  BY Zenon, <1>1, <1>6 DEF JobRecord, JobTaskState, Terminal
<1>8. IsMove(job, moved, {id}, "Finished")
  BY Zenon, <1>1 DEF JobRecord, IsMove, can_end
<1>9. /\ moved.base = job.base
      /\ moved.n_running_tasks = job.n_running_tasks - 1
      /\ moved.n_finished_tasks = job.n_finished_tasks + 1
      /\ moved.n_failed_tasks = job.n_failed_tasks
      /\ moved.n_canceled_tasks = job.n_canceled_tasks
  BY Zenon, <1>1 DEF JobRecord
<1>. HIDE DEF moved
<1>10. CountersMove(job, moved, {id}, "Finished")
  <2>1. /\ Cardinality(Among(job, {id}, "Failed")) = 0
        /\ Cardinality(Among(job, {id}, "Canceled")) = 0
    BY Zenon, <1>5
  <2>2. /\ job.n_running_tasks \in Nat /\ job.n_finished_tasks \in Nat
        /\ job.n_failed_tasks \in Nat /\ job.n_canceled_tasks \in Nat
    BY Zenon, <1>1 DEF JobRecord
  <2>. QED  BY <1>3, <1>4, <1>9, <2>1, <2>2 DEF CountersMove, CountAfter
<1>11. JobStep(job, moved)
  BY Zenon, <1>2, <1>7, <1>8, <1>9, <1>10, MoveJobStep
<1>12. JobStep(job, check_termination(moved))
  BY Zenon, <1>11, CheckTerminationStep
<1>. QED  BY Zenon, <1>12 DEF set_finished_state, moved

\* set_failed_state of a task that runs.
LEMMA FailedJobStep ==
    ASSUME NEW job, JobInv(job), NEW id, can_end(job, id)
    PROVE  JobStep(job, set_failed_state(job, id))
<1>. DEFINE moved == [job EXCEPT !.tasks[id] = "Failed",
                                 !.n_running_tasks = job.n_running_tasks - 1,
                                 !.n_failed_tasks = job.n_failed_tasks + 1]
<1>1. job \in JobRecord(DOMAIN job.tasks) /\ id \in DOMAIN job.tasks
  BY Zenon DEF JobInv, JobTypeOK, can_end
<1>2. AllIn(job, {id}, "Running") /\ {id} \subseteq InState(job, NonFinished)
  BY Zenon DEF InState, can_end, NonFinished, AllIn
<1>3. Cardinality({id}) = 1
  BY Zenon, FS_Singleton
<1>4. Cardinality(Among(job, {id}, "Running")) = 1
  <2>1. Among(job, {id}, "Running") = {id}
    BY Zenon, <1>2, CountOfOneState
  <2>. QED  BY Zenon, <1>3, <2>1
<1>5. \A s : s # "Running" => Cardinality(Among(job, {id}, s)) = 0
  BY Zenon, <1>2, CountOfOneState
<1>6. job.n_running_tasks - 1 \in Nat /\ job.n_failed_tasks + 1 \in Nat
  BY <1>1, RunningPositive DEF JobRecord
<1>7. moved \in JobRecord(DOMAIN job.tasks)
  BY Zenon, <1>1, <1>6 DEF JobRecord, JobTaskState, Terminal
<1>8. IsMove(job, moved, {id}, "Failed")
  BY Zenon, <1>1 DEF JobRecord, IsMove, can_end
<1>9. /\ moved.base = job.base
      /\ moved.n_running_tasks = job.n_running_tasks - 1
      /\ moved.n_failed_tasks = job.n_failed_tasks + 1
      /\ moved.n_finished_tasks = job.n_finished_tasks
      /\ moved.n_canceled_tasks = job.n_canceled_tasks
  BY Zenon, <1>1 DEF JobRecord
<1>. HIDE DEF moved
<1>10. CountersMove(job, moved, {id}, "Failed")
  <2>1. /\ Cardinality(Among(job, {id}, "Finished")) = 0
        /\ Cardinality(Among(job, {id}, "Canceled")) = 0
    BY Zenon, <1>5
  <2>2. /\ job.n_running_tasks \in Nat /\ job.n_finished_tasks \in Nat
        /\ job.n_failed_tasks \in Nat /\ job.n_canceled_tasks \in Nat
    BY Zenon, <1>1 DEF JobRecord
  <2>. QED  BY <1>3, <1>4, <1>9, <2>1, <2>2 DEF CountersMove, CountAfter
<1>11. JobStep(job, moved)
  BY Zenon, <1>2, <1>7, <1>8, <1>9, <1>10, MoveJobStep
<1>12. JobStep(job, check_termination(moved))
  BY Zenon, <1>11, CheckTerminationStep
<1>. QED  BY Zenon, <1>12 DEF set_failed_state, moved

\* No more tasks run than the counter says.
LEMMA AtMostRunning ==
    ASSUME NEW job, JobInv(job), NEW ids, ids \subseteq InState(job, {"Running"})
    PROVE  Cardinality(ids) \in Nat /\ Cardinality(ids) <= job.n_running_tasks
<1>1. IsFiniteSet(InState(job, {"Running"}))
  BY Zenon, InStateFinite DEF JobInv
<1>2. IsFiniteSet(ids) /\ Cardinality(ids) <= Cardinality(InState(job, {"Running"}))
  BY Zenon, <1>1, FS_Subset
<1>3. Cardinality(ids) \in Nat
  BY Zenon, <1>2, FS_CardinalityType
<1>. QED  BY Zenon, <1>2, <1>3 DEF JobInv, CountersOK

\* set_waiting_state of tasks that run.
LEMMA WaitingJobStep ==
    ASSUME NEW job, JobInv(job), NEW ids, can_wait(job, ids)
    PROVE  JobStep(job, set_waiting_state(job, ids))
<1>. DEFINE moved == set_waiting_state(job, ids)
<1>1. /\ job \in JobRecord(DOMAIN job.tasks)
      /\ AllIn(job, ids, "Running")
      /\ ids \subseteq DOMAIN job.tasks
  BY Zenon DEF JobInv, JobTypeOK, can_wait, InState, AllIn
<1>2. ids \subseteq InState(job, NonFinished)
  BY Zenon, <1>1 DEF InState, NonFinished, AllIn
<1>3. /\ Cardinality(ids) \in Nat
      /\ Cardinality(ids) <= job.n_running_tasks
  BY Zenon, <1>1, AtMostRunning DEF AllIn
<1>4. Cardinality(Among(job, ids, "Running")) = Cardinality(ids)
  BY Zenon, <1>1, CountOfOneState
<1>5. \A s : s # "Running" => Cardinality(Among(job, ids, s)) = 0
  BY <1>1, CountOfOneState
<1>6. job.n_running_tasks - Cardinality(ids) \in Nat
  BY <1>1, <1>3 DEF JobRecord
<1>7. moved \in JobRecord(DOMAIN job.tasks)
  BY Zenon, <1>1, <1>6 DEF set_waiting_state, JobRecord, JobTaskState, NonFinished
<1>8. IsMove(job, moved, ids, "Waiting")
  BY Zenon, <1>1 DEF set_waiting_state, JobRecord, IsMove, InState, AllIn
<1>9. /\ moved.base = job.base
      /\ moved.n_running_tasks = job.n_running_tasks - Cardinality(ids)
      /\ moved.n_finished_tasks = job.n_finished_tasks
      /\ moved.n_failed_tasks = job.n_failed_tasks
      /\ moved.n_canceled_tasks = job.n_canceled_tasks
  BY Zenon, <1>1 DEF set_waiting_state, JobRecord
<1>. HIDE DEF moved
<1>10. CountersMove(job, moved, ids, "Waiting")
  <2>1. /\ Cardinality(Among(job, ids, "Finished")) = 0
        /\ Cardinality(Among(job, ids, "Failed")) = 0
        /\ Cardinality(Among(job, ids, "Canceled")) = 0
    BY Zenon, <1>5
  <2>2. /\ job.n_running_tasks \in Nat /\ job.n_finished_tasks \in Nat
        /\ job.n_failed_tasks \in Nat /\ job.n_canceled_tasks \in Nat
    BY Zenon, <1>1 DEF JobRecord
  <2>. QED  BY <1>4, <1>9, <2>1, <2>2 DEF CountersMove, CountAfter
<1>11. JobStep(job, moved)
  BY Zenon, <1>2, <1>7, <1>8, <1>9, <1>10, MoveJobStep
<1>. QED  BY Zenon, <1>11 DEF moved

\* set_cancel_state of tasks that wait or run.
LEMMA CancelJobStep ==
    ASSUME NEW job, JobInv(job), NEW ids, can_cancel(job, ids)
    PROVE  JobStep(job, set_cancel_state(job, ids))
<1>. DEFINE running == ids \cap InState(job, {"Running"})
            moved == [job EXCEPT
              !.tasks  = [id \in DOMAIN job.tasks |-> IF id \in ids THEN "Canceled" ELSE job.tasks[id]],
              !.worker = [id \in DOMAIN job.worker |-> IF id \in ids THEN NoWorker ELSE job.worker[id]],
              !.n_running_tasks = job.n_running_tasks - Cardinality(running),
              !.n_canceled_tasks = job.n_canceled_tasks + Cardinality(ids)]
<1>1. /\ job \in JobRecord(DOMAIN job.tasks)
      /\ ids \subseteq InState(job, NonFinished)
      /\ ids \subseteq DOMAIN job.tasks
      /\ IsFiniteSet(DOMAIN job.tasks)
  BY Zenon DEF JobInv, JobTypeOK, can_cancel, InState
<1>2. Cardinality(ids) \in Nat
  BY Zenon, <1>1, FS_Subset, FS_CardinalityType
<1>3. /\ Cardinality(running) \in Nat
      /\ Cardinality(running) <= job.n_running_tasks
  <2>1. running \subseteq InState(job, {"Running"})
    BY Zenon
  <2>. HIDE DEF running
  <2>. QED  BY Zenon, <2>1, AtMostRunning
<1>4. Among(job, ids, "Running") = running
  BY Zenon DEF Among
<1>5. Among(job, ids, "Finished") = {} /\ Among(job, ids, "Failed") = {}
  BY Zenon, <1>1 DEF Among, InState, NonFinished
<1>. HIDE DEF running
<1>6. /\ job.n_running_tasks - Cardinality(running) \in Nat
      /\ job.n_canceled_tasks + Cardinality(ids) \in Nat
  BY <1>1, <1>2, <1>3 DEF JobRecord
<1>7. moved \in JobRecord(DOMAIN job.tasks)
  BY Zenon, <1>1, <1>6 DEF JobRecord, JobTaskState, Terminal
<1>8. IsMove(job, moved, ids, "Canceled")
  BY Zenon, <1>1 DEF JobRecord, IsMove, InState, NonFinished
<1>9. /\ moved.base = job.base
      /\ moved.n_running_tasks = job.n_running_tasks - Cardinality(running)
      /\ moved.n_finished_tasks = job.n_finished_tasks
      /\ moved.n_failed_tasks = job.n_failed_tasks
      /\ moved.n_canceled_tasks = job.n_canceled_tasks + Cardinality(ids)
  BY Zenon, <1>1 DEF JobRecord
<1>. HIDE DEF moved
<1>10. CountersMove(job, moved, ids, "Canceled")
  <2>1. /\ Cardinality(Among(job, ids, "Finished")) = 0
        /\ Cardinality(Among(job, ids, "Failed")) = 0
        /\ Cardinality(Among(job, ids, "Running")) = Cardinality(running)
    BY Zenon, <1>4, <1>5, FS_EmptySet
  <2>2. /\ job.n_running_tasks \in Nat /\ job.n_finished_tasks \in Nat
        /\ job.n_failed_tasks \in Nat /\ job.n_canceled_tasks \in Nat
    BY Zenon, <1>1 DEF JobRecord
  <2>. QED  BY <1>9, <2>1, <2>2 DEF CountersMove, CountAfter
<1>11. JobStep(job, moved)
  BY Zenon, <1>1, <1>7, <1>8, <1>9, <1>10, MoveJobStep
<1>12. JobStep(job, check_termination(moved))
  BY Zenon, <1>11, CheckTerminationStep
<1>13. JobStep(job, job)
  BY Zenon DEF JobStep
<1>. QED  BY Zenon, <1>12, <1>13 DEF set_cancel_state, CancelWith, moved, running

\* Splitting off the tasks of one state from those of several.
LEMMA SplitState ==
    ASSUME NEW job, JobTypeOK(job), NEW s, NEW S, s \notin S
    PROVE  Cardinality(InState(job, S \cup {s})) =
               Cardinality(InState(job, S)) + Cardinality(InState(job, {s}))
<1>1. /\ IsFiniteSet(InState(job, S)) /\ Cardinality(InState(job, S)) \in Nat
      /\ IsFiniteSet(InState(job, {s})) /\ Cardinality(InState(job, {s})) \in Nat
  BY Zenon, InStateFinite
<1>2. InState(job, S \cup {s}) = InState(job, S) \cup InState(job, {s})
  BY Zenon DEF InState
<1>3. InState(job, S) \cap InState(job, {s}) = {}
  BY Zenon DEF InState
<1>4. Cardinality(InState(job, S) \cup InState(job, {s}))
          = Cardinality(InState(job, S)) + Cardinality(InState(job, {s}))
              - Cardinality(InState(job, S) \cap InState(job, {s}))
  BY Zenon, <1>1, FS_Union
<1>5. Cardinality(InState(job, S) \cap InState(job, {s})) = 0
  BY Zenon, <1>3, FS_EmptySet
<1>6. Cardinality(InState(job, S) \cup InState(job, {s}))
          = Cardinality(InState(job, S)) + Cardinality(InState(job, {s}))
  BY <1>1, <1>4, <1>5
<1>. QED  BY Zenon, <1>2, <1>6

\* n_waiting_tasks, which subtracts the counters from the number of tasks,
\* is the number of tasks that wait.
LEMMA WaitingCount ==
    ASSUME NEW job, JobInv(job)
    PROVE  n_waiting_tasks(job) = Cardinality(InState(job, {"Waiting"}))
<1>. DEFINE C(S) == Cardinality(InState(job, S))
<1>0. JobTypeOK(job) /\ job \in JobRecord(DOMAIN job.tasks)
  BY Zenon DEF JobInv, JobTypeOK
<1>1. /\ C({"Waiting"}) \in Nat /\ C({"Running"}) \in Nat /\ C({"Finished"}) \in Nat
      /\ C({"Failed"}) \in Nat /\ C({"Canceled"}) \in Nat
  BY Zenon, <1>0, InStateFinite
<1>2. C({"Waiting"} \cup {"Running"}) = C({"Waiting"}) + C({"Running"})
  BY Zenon, <1>0, SplitState
<1>3. C({"Waiting", "Running"} \cup {"Finished"}) = C({"Waiting", "Running"}) + C({"Finished"})
  BY Zenon, <1>0, SplitState
<1>4. C({"Waiting", "Running", "Finished"} \cup {"Failed"})
          = C({"Waiting", "Running", "Finished"}) + C({"Failed"})
  BY Zenon, <1>0, SplitState
<1>5. C({"Waiting", "Running", "Finished", "Failed"} \cup {"Canceled"})
          = C({"Waiting", "Running", "Finished", "Failed"}) + C({"Canceled"})
  BY Zenon, <1>0, SplitState
<1>6. /\ {"Waiting"} \cup {"Running"} = {"Waiting", "Running"}
      /\ {"Waiting", "Running"} \cup {"Finished"} = {"Waiting", "Running", "Finished"}
      /\ {"Waiting", "Running", "Finished"} \cup {"Failed"}
             = {"Waiting", "Running", "Finished", "Failed"}
      /\ {"Waiting", "Running", "Finished", "Failed"} \cup {"Canceled"} = JobTaskState
  BY Zenon DEF JobTaskState, NonFinished, Terminal
<1>7. InState(job, JobTaskState) = DOMAIN job.tasks
  BY Zenon, <1>0 DEF InState, JobRecord
<1>8. n_tasks(job) = C({"Waiting"}) + C({"Running"}) + C({"Finished"}) + C({"Failed"})
                         + C({"Canceled"})
  <2>. HIDE DEF C
  <2>1. C(JobTaskState) = C({"Waiting", "Running", "Finished", "Failed"}) + C({"Canceled"})
    BY Zenon, <1>5, <1>6
  <2>2. C({"Waiting", "Running", "Finished", "Failed"})
            = C({"Waiting", "Running", "Finished"}) + C({"Failed"})
    BY Zenon, <1>4, <1>6
  <2>3. C({"Waiting", "Running", "Finished"}) = C({"Waiting", "Running"}) + C({"Finished"})
    BY Zenon, <1>3, <1>6
  <2>4. C({"Waiting", "Running"}) = C({"Waiting"}) + C({"Running"})
    BY Zenon, <1>2, <1>6
  <2>5. n_tasks(job) = C(JobTaskState)
    BY Zenon, <1>7 DEF n_tasks, C
  <2>. QED  BY Zenon, <1>1, <2>1, <2>2, <2>3, <2>4, <2>5
<1>9. /\ job.n_running_tasks = C({"Running"}) /\ job.n_finished_tasks = C({"Finished"})
      /\ job.n_failed_tasks = C({"Failed"}) /\ job.n_canceled_tasks = C({"Canceled"})
  BY Zenon DEF JobInv, CountersOK
<1>10. n_waiting_tasks(job) = C({"Waiting"})
  <2>. HIDE DEF C
  <2>. QED  BY <1>1, <1>8, <1>9 DEF n_waiting_tasks
<1>. QED  BY Zenon, <1>10
----------------------------------------------------------------------------
(* The state of the server.                                                *)

\* The ids of the jobs, and the ranges of task ids they own: each begins at
\* the job's base, ends below the counter, and is entered in
\* base_task_id_to_job_id; no two overlap.
RangesOK ==
    /\ DOMAIN jobs = 1 .. (job_id_counter - 1)
    /\ job_id_counter >= 1
    /\ \A j \in DOMAIN jobs :
          /\ DOMAIN jobs[j].tasks = jobs[j].base .. (jobs[j].base + n_tasks(jobs[j]) - 1)
          /\ jobs[j].base + n_tasks(jobs[j]) <= task_id_counter
          /\ jobs[j].base \in DOMAIN base_task_id_to_job_id
          /\ base_task_id_to_job_id[jobs[j].base] = j
    /\ \A b \in DOMAIN base_task_id_to_job_id : jobs[base_task_id_to_job_id[b]].base = b
    /\ \A i, j \in DOMAIN jobs :
          jobs[i].base < jobs[j].base => jobs[i].base + n_tasks(jobs[i]) <= jobs[j].base

\* Everything that is known of the variables of State.
StateInv ==
    /\ StateTypeOK
    /\ \A j \in DOMAIN jobs : CountersOK(jobs[j])
    /\ RangesOK

\* A submit or cancel that is suspended is about a job that exists.
KnowsJob(request, ids) == request.pc \in {"register", "cancel"} => request.job \in ids

RequestsKnown == \A c \in Clients : KnowsJob(client[c], DOMAIN jobs)

ProcessTypeOK == broken \subseteq Clients /\ panicked \in BOOLEAN

\* The inductive invariant.
IInv ==
    /\ StateInv
    /\ HandlersTypeOK
    /\ RequestsKnown
    /\ RpcTypeOK
    /\ WorkersTypeOK
    /\ IsFiniteSet(DOMAIN workers)
    /\ TakoTypeOK
    /\ StreamTypeOK
    /\ ProcessTypeOK

\* The body of TerminalIsFinal.
EndedTasksStay ==
    \A j \in DOMAIN jobs : \A t \in InState(jobs[j], Terminal) :
        jobs'[j].tasks[t] = jobs[j].tasks[t]
----------------------------------------------------------------------------
(* Numbers.                                                                *)

\* Min of a set of naturals.
LEMMA MinNatural ==
    ASSUME NEW T, T \subseteq Nat, T # {}
    PROVE  Min(T) \in T /\ \A y \in T : Min(T) <= y
BY Zenon, LeastNatural DEF Min

\* Max of a set of naturals that is bounded.
LEMMA MaxNatural ==
    ASSUME NEW T, T \subseteq Nat, T # {}, NEW n \in Nat, \A x \in T : x <= n
    PROVE  Max(T) \in T /\ \A y \in T : Max(T) >= y
<1>. DEFINE D == {n - x : x \in T}
<1>1. D \subseteq Nat /\ D # {}
  <2>1. \A x \in T : n - x \in Nat /\ n - x \in D
    OBVIOUS
  <2>. QED  BY Zenon, <2>1
<1>2. PICK d \in D : \A e \in D : d <= e
  BY Zenon, <1>1, LeastNatural
<1>3. PICK x \in T : d = n - x
  BY Zenon, <1>2
<1>4. \A y \in T : x >= y
  <2>1. ASSUME NEW y \in T  PROVE  x >= y
    <3>1. n - y \in D
      BY Zenon
    <3>2. n - x <= n - y
      BY Zenon, <1>2, <1>3, <3>1
    <3>. QED  BY <3>2
  <2>. QED  BY Zenon, <2>1
<1>. QED  BY Zenon, <1>4 DEF Max
----------------------------------------------------------------------------
(* The search for the job of a task.                                       *)

\* The job that is found exists and owns the task.
LEMMA LookupSound ==
    ASSUME StateInv, NEW id \in Nat, get_job_by_tako_task_id(id) # NoJob
    PROVE  /\ get_job_by_tako_task_id(id) \in DOMAIN jobs
           /\ id \in DOMAIN jobs[get_job_by_tako_task_id(id)].tasks
<1>. DEFINE bases == {b \in DOMAIN base_task_id_to_job_id : b <= id}
            job_id == base_task_id_to_job_id[Max(bases)]
<1>1. bases \subseteq Nat /\ \A b \in bases : b <= id
  BY Zenon DEF StateInv, StateTypeOK
<1>2. bases # {}
  BY Zenon DEF get_job_by_tako_task_id
<1>3. /\ get_job_by_tako_task_id(id) = job_id
      /\ job_id \in DOMAIN jobs
      /\ id < jobs[job_id].base + n_tasks(jobs[job_id])
  BY Zenon DEF get_job_by_tako_task_id
<1>4. Max(bases) \in bases
  BY Zenon, <1>1, <1>2, MaxNatural
<1>5. jobs[job_id].base = Max(bases) /\ Max(bases) <= id /\ Max(bases) \in Nat
  BY <1>1, <1>4 DEF StateInv, RangesOK
<1>6. n_tasks(jobs[job_id]) \in Nat
  BY <1>3, FS_CardinalityType DEF StateInv, StateTypeOK, JobTypeOK, n_tasks
<1>7. DOMAIN jobs[job_id].tasks
          = jobs[job_id].base .. (jobs[job_id].base + n_tasks(jobs[job_id]) - 1)
  BY <1>3 DEF StateInv, RangesOK
<1>. HIDE DEF job_id, bases
<1>8. id \in DOMAIN jobs[job_id].tasks
  BY <1>3, <1>5, <1>6, <1>7
<1>. QED  BY Zenon, <1>3, <1>8

\* Every task of every job is found.
LEMMA LookupComplete ==
    ASSUME StateInv, NEW j \in DOMAIN jobs, NEW id \in DOMAIN jobs[j].tasks
    PROVE  get_job_by_tako_task_id(id) = j
<1>. DEFINE bases == {b \in DOMAIN base_task_id_to_job_id : b <= id}
            m == Max(bases)
            k == base_task_id_to_job_id[m]
<1>1. /\ DOMAIN jobs[j].tasks = jobs[j].base .. (jobs[j].base + n_tasks(jobs[j]) - 1)
      /\ jobs[j].base \in Nat
      /\ n_tasks(jobs[j]) \in Nat
  BY Zenon, FS_CardinalityType DEF StateInv, StateTypeOK, RangesOK, JobTypeOK, JobRecord, n_tasks
<1>2. id \in Nat /\ jobs[j].base <= id /\ id < jobs[j].base + n_tasks(jobs[j])
  BY <1>1
<1>3. jobs[j].base \in DOMAIN base_task_id_to_job_id /\ base_task_id_to_job_id[jobs[j].base] = j
  BY Zenon DEF StateInv, RangesOK
<1>4. bases \subseteq Nat /\ (\A b \in bases : b <= id) /\ jobs[j].base \in bases
  BY Zenon, <1>2, <1>3 DEF StateInv, StateTypeOK
<1>5. m \in bases /\ \A b \in bases : m >= b
  BY Zenon, <1>2, <1>4, MaxNatural
<1>6. k \in DOMAIN jobs /\ jobs[k].base = m /\ m \in Nat /\ m <= id
  BY Zenon, <1>4, <1>5 DEF StateInv, StateTypeOK, RangesOK
<1>. HIDE DEF m, k
<1>7. jobs[j].base = m
  <2>1. jobs[j].base <= m
    BY Zenon, <1>1, <1>4, <1>5, <1>6
  <2>2. ~ (jobs[j].base < m)
    <3>1. SUFFICES ASSUME jobs[j].base < m  PROVE FALSE
      BY Zenon
    <3>2. jobs[j].base + n_tasks(jobs[j]) <= jobs[k].base
      BY Zenon, <1>6, <3>1 DEF StateInv, RangesOK
    <3>. QED  BY <1>1, <1>2, <1>6, <3>2
  <2>. QED  BY <1>1, <1>6, <2>1, <2>2
<1>8. k = j
  BY Zenon, <1>3, <1>7 DEF k
<1>9. /\ bases # {}
      /\ base_task_id_to_job_id[Max(bases)] = j
  BY Zenon, <1>4, <1>8 DEF k, m
<1>. HIDE DEF bases
<1>. QED  BY Zenon, <1>2, <1>9 DEF get_job_by_tako_task_id, bases
----------------------------------------------------------------------------
(* Steps of the State.                                                     *)

IdsUnchanged == UNCHANGED <<base_task_id_to_job_id, job_id_counter, task_id_counter>>

\* jobs' has the same jobs, each changed by an operation of Job or left alone.
JobsStep ==
    /\ IdsUnchanged
    /\ jobs' = [j \in DOMAIN jobs |-> jobs'[j]]
    /\ \A j \in DOMAIN jobs : JobStep(jobs[j], jobs'[j])

\* Operations on jobs preserve what is known of State.
LEMMA JobsStepInv ==
    ASSUME StateInv, JobsStep, told_canceled' \subseteq DOMAIN jobs
    PROVE  StateInv' /\ DOMAIN jobs' = DOMAIN jobs
<1>1. DOMAIN jobs' = DOMAIN jobs
  BY Zenon DEF JobsStep
<1>2. \A j \in DOMAIN jobs : /\ JobInv(jobs'[j])
                             /\ jobs'[j].base = jobs[j].base
                             /\ DOMAIN jobs'[j].tasks = DOMAIN jobs[j].tasks
                             /\ n_tasks(jobs'[j]) = n_tasks(jobs[j])
  BY Zenon DEF JobsStep, JobStep, n_tasks
<1>3. /\ base_task_id_to_job_id' = base_task_id_to_job_id
      /\ job_id_counter' = job_id_counter
      /\ task_id_counter' = task_id_counter
  BY Zenon DEF JobsStep, IdsUnchanged
<1>4. StateTypeOK'
  BY Zenon, <1>1, <1>2, <1>3 DEF StateInv, StateTypeOK, JobInv, JobsStep
<1>5. \A j \in DOMAIN jobs' : CountersOK(jobs'[j])
  BY Zenon, <1>1, <1>2 DEF JobInv
<1>6. RangesOK'
  <2>1. DOMAIN jobs' = 1 .. (job_id_counter' - 1) /\ job_id_counter' >= 1
    BY Zenon, <1>1, <1>3 DEF StateInv, RangesOK
  <2>2. \A j \in DOMAIN jobs :
          /\ DOMAIN jobs[j].tasks = jobs[j].base .. (jobs[j].base + n_tasks(jobs[j]) - 1)
          /\ jobs[j].base + n_tasks(jobs[j]) <= task_id_counter
          /\ jobs[j].base \in DOMAIN base_task_id_to_job_id
          /\ base_task_id_to_job_id[jobs[j].base] = j
    BY Zenon DEF StateInv, RangesOK
  <2>3. \A j \in DOMAIN jobs' :
          /\ DOMAIN jobs'[j].tasks = jobs'[j].base .. (jobs'[j].base + n_tasks(jobs'[j]) - 1)
          /\ jobs'[j].base + n_tasks(jobs'[j]) <= task_id_counter'
          /\ jobs'[j].base \in DOMAIN base_task_id_to_job_id'
          /\ base_task_id_to_job_id'[jobs'[j].base] = j
    BY Zenon, <1>1, <1>2, <1>3, <2>2
  <2>4. \A b \in DOMAIN base_task_id_to_job_id' : jobs'[base_task_id_to_job_id'[b]].base = b
    BY Zenon, <1>2, <1>3 DEF StateInv, RangesOK, StateTypeOK
  <2>5. \A i, j \in DOMAIN jobs' :
          jobs'[i].base < jobs'[j].base => jobs'[i].base + n_tasks(jobs'[i]) <= jobs'[j].base
    BY Zenon, <1>1, <1>2 DEF StateInv, RangesOK
  <2>. QED  BY Zenon, <2>1, <2>3, <2>4, <2>5 DEF RangesOK
<1>. QED  BY Zenon, <1>1, <1>4, <1>5, <1>6 DEF StateInv

\* An operation on one job.
LEMMA OneJobStep ==
    ASSUME StateInv, NEW job_id, NEW job,
           job_id \in DOMAIN jobs => JobStep(jobs[job_id], job),
           jobs' = [jobs EXCEPT ![job_id] = job],
           IdsUnchanged
    PROVE  JobsStep
<1>1. jobs = [j \in DOMAIN jobs |-> jobs[j]]
  BY Zenon DEF StateInv, StateTypeOK
<1>2. \A j \in DOMAIN jobs : JobStep(jobs[j], jobs[j])
  BY Zenon DEF StateInv, StateTypeOK, JobStep, JobInv
<1>3. jobs' = [j \in DOMAIN jobs |-> jobs'[j]]
  BY Zenon
<1>4. \A j \in DOMAIN jobs : jobs'[j] = IF j = job_id THEN job ELSE jobs[j]
  BY Zenon
<1>. QED  BY Zenon, <1>2, <1>3, <1>4 DEF JobsStep

\* No operation on jobs.
LEMMA NoJobStep ==
    ASSUME StateInv, UNCHANGED stateVars
    PROVE  JobsStep
<1>1. jobs = [j \in DOMAIN jobs |-> jobs[j]]
  BY Zenon DEF StateInv, StateTypeOK
<1>2. \A j \in DOMAIN jobs : JobStep(jobs[j], jobs[j])
  BY Zenon DEF StateInv, StateTypeOK, JobStep, JobInv
<1>. QED  BY <1>1, <1>2 DEF JobsStep, IdsUnchanged, stateVars

IsSpec(spec) ==
    /\ spec.n \in Nat
    /\ spec.id_count \in Nat
    /\ spec.n <= spec.id_count
    /\ spec.max_fails \subseteq Nat
    /\ spec.log \in BOOLEAN

\* What handle_submit does to State when add_job does not panic.
AddJob(spec) ==
    LET job == new(task_id_counter, spec)
    IN  /\ task_id_counter \notin DOMAIN base_task_id_to_job_id
        /\ job_id_counter' = job_id_counter + 1
        /\ task_id_counter' = task_id_counter + spec.id_count
        /\ base_task_id_to_job_id' =
                Insert(base_task_id_to_job_id, task_id_counter, job_id_counter)
        /\ jobs' = Insert(jobs, job_id_counter, job)
        /\ UNCHANGED told_canceled

\* A new job gets ids no other job has.
LEMMA AddJobInv ==
    ASSUME StateInv, NEW spec, IsSpec(spec), AddJob(spec)
    PROVE  /\ StateInv'
           /\ DOMAIN jobs' = DOMAIN jobs \cup {job_id_counter}
           /\ job_id_counter \notin DOMAIN jobs
           /\ \A j \in DOMAIN jobs : jobs'[j] = jobs[j]
<1>. DEFINE job == new(task_id_counter, spec)
            jid == job_id_counter
            tid == task_id_counter
            base == base_task_id_to_job_id
<1>1. /\ jid \in Nat /\ tid \in Nat /\ spec.n \in Nat /\ spec.id_count \in Nat
      /\ spec.n <= spec.id_count
      /\ DOMAIN jobs = 1 .. (jid - 1) /\ jid >= 1
  BY Zenon DEF StateInv, StateTypeOK, RangesOK, IsSpec
<1>2. /\ DOMAIN jobs' = DOMAIN jobs \cup {jid} /\ jid \notin DOMAIN jobs
      /\ jobs'[jid] = job
      /\ \A j \in DOMAIN jobs : jobs'[j] = jobs[j]
      /\ jobs' = [j \in DOMAIN jobs' |-> jobs'[j]]
  BY <1>1 DEF AddJob, Insert
<1>3. /\ DOMAIN base' = DOMAIN base \cup {tid} /\ tid \notin DOMAIN base
      /\ base'[tid] = jid
      /\ \A b \in DOMAIN base : base'[b] = base[b]
      /\ base' = [b \in DOMAIN base' |-> base'[b]]
  BY Zenon DEF AddJob, Insert
<1>4. /\ job_id_counter' = jid + 1
      /\ task_id_counter' = tid + spec.id_count
      /\ told_canceled' = told_canceled
  BY Zenon DEF AddJob
<1>5. JobInv(job)
  BY Zenon, <1>1, NewJobInv DEF IsSpec
<1>6. job.base = tid /\ DOMAIN job.tasks = tid .. (tid + spec.n - 1)
  BY Zenon DEF new
<1>7. n_tasks(job) = spec.n
  <2>1. tid \in Int /\ tid + spec.n - 1 \in Int
    BY <1>1
  <2>2. \A a, b \in Int : Cardinality(a .. b) = IF a > b THEN 0 ELSE b - a + 1
    BY Zenon, FS_Interval
  <2>3. Cardinality(DOMAIN job.tasks) = spec.n
    <3>. DEFINE last == tid + spec.n - 1
    <3>1. Cardinality(tid .. last) = IF tid > last THEN 0 ELSE last - tid + 1
      BY Zenon, <2>1, <2>2
    <3>2. (IF tid > last THEN 0 ELSE last - tid + 1) = spec.n
      BY <1>1
    <3>. QED  BY Zenon, <1>6, <3>1, <3>2
  <2>. QED  BY Zenon, <2>3 DEF n_tasks
<1>8. \A j \in DOMAIN jobs :
          /\ JobInv(jobs[j])
          /\ DOMAIN jobs[j].tasks = jobs[j].base .. (jobs[j].base + n_tasks(jobs[j]) - 1)
          /\ jobs[j].base + n_tasks(jobs[j]) <= tid
          /\ jobs[j].base \in DOMAIN base
          /\ base[jobs[j].base] = j
          /\ jobs[j].base \in Nat /\ n_tasks(jobs[j]) \in Nat
  BY Zenon, FS_CardinalityType
  DEF StateInv, StateTypeOK, RangesOK, JobInv, JobTypeOK, JobRecord, n_tasks
<1>. HIDE DEF job, jid, tid, base
<1>9. \A j \in DOMAIN jobs' : JobInv(jobs'[j])
  BY Zenon, <1>2, <1>5, <1>8
<1>10. StateTypeOK'
  <2>1. DOMAIN jobs' \subseteq Nat /\ job_id_counter' \in Nat /\ task_id_counter' \in Nat
    BY <1>1, <1>2, <1>4
  <2>2. DOMAIN base' \subseteq Nat /\ base' \in [DOMAIN base' -> DOMAIN jobs']
    BY Zenon, <1>1, <1>2, <1>3 DEF StateInv, StateTypeOK, base
  <2>3. told_canceled' \subseteq DOMAIN jobs'
    BY Zenon, <1>2, <1>4 DEF StateInv, StateTypeOK
  <2>. QED  BY Zenon, <1>2, <1>9, <2>1, <2>2, <2>3 DEF StateTypeOK, JobInv, base
<1>11. RangesOK'
  <2>1. DOMAIN jobs' = 1 .. (job_id_counter' - 1) /\ job_id_counter' >= 1
    BY <1>1, <1>2, <1>4
  <2>2. ASSUME NEW j \in DOMAIN jobs'
        PROVE  /\ DOMAIN jobs'[j].tasks
                      = jobs'[j].base .. (jobs'[j].base + n_tasks(jobs'[j]) - 1)
               /\ jobs'[j].base + n_tasks(jobs'[j]) <= task_id_counter'
               /\ jobs'[j].base \in DOMAIN base'
               /\ base'[jobs'[j].base] = j
    <3>1. CASE j = jid
      BY SMTT(30), <1>1, <1>2, <1>3, <1>4, <1>6, <1>7, <3>1
    <3>2. CASE j \in DOMAIN jobs
      BY SMTT(30), <1>1, <1>2, <1>3, <1>4, <1>8, <3>2
    <3>. QED  BY Zenon, <1>2, <3>1, <3>2
  <2>3. \A b \in DOMAIN base' : jobs'[base'[b]].base = b
    <3>1. \A b \in DOMAIN base : base[b] \in DOMAIN jobs /\ jobs[base[b]].base = b
      BY Zenon DEF StateInv, StateTypeOK, RangesOK, base
    <3>. QED  BY <1>2, <1>3, <1>6, <3>1
  <2>4. ASSUME NEW i \in DOMAIN jobs', NEW j \in DOMAIN jobs',
               jobs'[i].base < jobs'[j].base
        PROVE  jobs'[i].base + n_tasks(jobs'[i]) <= jobs'[j].base
    <3>1. CASE i \in DOMAIN jobs /\ j \in DOMAIN jobs
      BY Zenon, <1>2, <2>4, <3>1 DEF StateInv, RangesOK
    <3>2. CASE i \in DOMAIN jobs /\ j = jid
      BY Zenon, <1>2, <1>6, <1>8, <3>2
    <3>3. CASE i = jid /\ j \in DOMAIN jobs
      <4>1. jobs'[i].base = tid /\ jobs'[j].base = jobs[j].base
        BY Zenon, <1>2, <1>6, <3>3
      <4>. QED  BY <1>1, <1>8, <2>4, <3>3, <4>1
    <3>4. CASE i = jid /\ j = jid
      BY <1>1, <1>2, <1>6, <2>4, <3>4
    <3>. QED  BY Zenon, <1>2, <3>1, <3>2, <3>3, <3>4
  <2>. QED  BY Zenon, <2>1, <2>2, <2>3, <2>4 DEF RangesOK, base
<1>. QED  BY Zenon, <1>2, <1>9, <1>10, <1>11 DEF StateInv, JobInv, jid
----------------------------------------------------------------------------
(* The loops of the handlers.                                              *)

\* A message sent to tako.
LEMMA SendType ==
    ASSUME RpcTypeOK, NEW msg \in ToTako, NEW who \in Waiting,
           send_tako_message(msg, who), UNCHANGED from_tako
    PROVE  RpcTypeOK'
BY DEF RpcTypeOK, send_tako_message

Todo == Seq(Nat \cup Workers)

\* What is left of a list after its element i.
LEMMA RestOfTodo ==
    ASSUME NEW todo \in Todo, NEW i \in DOMAIN todo
    PROVE  /\ i \in Nat
           /\ todo[i] \in Nat \cup Workers
           /\ SubSeq(todo, i + 1, Len(todo)) \in Todo
<1>1. i \in 1 .. Len(todo) /\ Len(todo) \in Nat
  BY Zenon, LenProperties DEF Todo
<1>2. \A k \in (i + 1) .. Len(todo) : todo[k] \in Nat \cup Workers
  BY <1>1, ElementOfSeq DEF Todo
<1>. QED  BY <1>1, <1>2, ElementOfSeq, SubSeqProperties DEF Todo

\* The connection c goes on to wait for tako or is done.
LEMMA ClientUpdateType ==
    ASSUME HandlersTypeOK, NEW c \in Clients, NEW st \in ClientState,
           client' = [client EXCEPT ![c] = st], UNCHANGED callbacks
    PROVE  /\ HandlersTypeOK'
           /\ client'[c] = st
           /\ \A d \in Clients \ {c} : client'[d] = client[d]
BY Zenon DEF HandlersTypeOK

\* The state of a client connection between two requests is well typed.
LEMMA IdleType == Idle \in ClientState
<1>1. <<>> \in Seq(Nat \cup Workers)
  OBVIOUS
<1>. QED  BY Zenon, <1>1 DEF Idle, ClientState

\* The end of a request: the answer is sent, or the process aborts.
LEMMA AnswerInv ==
    ASSUME HandlersTypeOK, ProcessTypeOK, NEW c \in Clients, Answer(c),
           UNCHANGED callbacks, broken' \subseteq broken
    PROVE  /\ HandlersTypeOK'
           /\ ProcessTypeOK'
           /\ KnowsJob(client'[c], {})
           /\ \A d \in Clients \ {c} : client'[d] = client[d]
<1>. DEFINE unsent == [Idle EXCEPT !.pc = "unsent"]
<1>1. unsent \in ClientState /\ KnowsJob(unsent, {}) /\ KnowsJob(Idle, {})
  BY Zenon, IdleType DEF Idle, ClientState, KnowsJob
<1>2. \/ client' = [client EXCEPT ![c] = Idle] /\ panicked' = panicked
      \/ client' = [client EXCEPT ![c] = unsent] /\ panicked' = TRUE
  BY Zenon DEF Answer
<1>. HIDE DEF unsent
<1>3. /\ HandlersTypeOK' /\ client'[c] \in {Idle, unsent}
      /\ \A d \in Clients \ {c} : client'[d] = client[d]
  BY Zenon, <1>1, <1>2, IdleType, ClientUpdateType
<1>4. ProcessTypeOK'
  BY Zenon, <1>2 DEF ProcessTypeOK
<1>. QED  BY Zenon, <1>1, <1>3, <1>4

\* The loop of handle_job_cancel.
LEMMA CancelLoopInv ==
    ASSUME HandlersTypeOK, RpcTypeOK, ProcessTypeOK, NEW c \in Clients, NEW todo \in Todo,
           NEW js, DOMAIN js \subseteq Nat, \A j \in DOMAIN js : JobTypeOK(js[j]),
           NEW told, told \subseteq DOMAIN js,
           cancel_loop(c, todo, js, told), UNCHANGED <<callbacks, from_tako, broken>>
    PROVE  /\ told_canceled' \subseteq DOMAIN js
           /\ HandlersTypeOK'
           /\ RpcTypeOK'
           /\ ProcessTypeOK'
           /\ KnowsJob(client'[c], DOMAIN js)
           /\ \A d \in Clients \ {c} : client'[d] = client[d]
<1>. DEFINE pending == {i \in DOMAIN todo : /\ todo[i] \in DOMAIN js
                                            /\ non_finished_task_ids(js[todo[i]]) # {}}
            i == Min(pending)
            st == [pc |-> "cancel", job |-> todo[i], reply |-> {},
                   todo |-> SubSeq(todo, i + 1, Len(todo))]
<1>1. told_canceled' \subseteq DOMAIN js
  BY Zenon DEF cancel_loop
<1>2. CASE pending = {}
  <2>1. Answer(c) /\ UNCHANGED rpcVars
    BY Zenon, <1>2 DEF cancel_loop
  <2>2. /\ HandlersTypeOK' /\ ProcessTypeOK' /\ KnowsJob(client'[c], {})
        /\ \A d \in Clients \ {c} : client'[d] = client[d]
    BY <2>1, AnswerInv
  <2>3. RpcTypeOK'
    BY Zenon, <2>1 DEF RpcTypeOK, rpcVars
  <2>. QED  BY Zenon, <1>1, <2>2, <2>3 DEF KnowsJob
<1>3. CASE pending # {}
  <2>1. /\ send_tako_message(CancelTasks(non_finished_task_ids(js[todo[i]])), ClientWaits(c))
        /\ client' = [client EXCEPT ![c] = st]
        /\ UNCHANGED panicked
    BY Zenon, <1>3 DEF cancel_loop
  <2>2. DOMAIN todo \subseteq Nat
    BY Zenon, RestOfTodo
  <2>3. i \in pending
    BY Zenon, <1>3, <2>2, MinNatural
  <2>4. i \in DOMAIN todo /\ todo[i] \in DOMAIN js /\ todo[i] \in Nat
    BY Zenon, <2>3
  <2>5. SubSeq(todo, i + 1, Len(todo)) \in Todo
    BY Zenon, <2>4, RestOfTodo
  <2>6. non_finished_task_ids(js[todo[i]]) \subseteq Nat
    BY Zenon, <2>4 DEF non_finished_task_ids, InState, JobTypeOK
  <2>7. CancelTasks(non_finished_task_ids(js[todo[i]])) \in ToTako
    BY Zenon, <2>6 DEF CancelTasks, ToTako
  <2>8. ClientWaits(c) \in Waiting
    BY Zenon DEF ClientWaits, Waiting
  <2>. HIDE DEF i, pending
  <2>9. st \in ClientState
    BY Zenon, <2>4, <2>5 DEF ClientState, Todo
  <2>10. KnowsJob(st, DOMAIN js)
    BY Zenon, <2>4 DEF KnowsJob
  <2>. HIDE DEF st
  <2>11. /\ HandlersTypeOK' /\ client'[c] = st
         /\ \A d \in Clients \ {c} : client'[d] = client[d]
    BY Zenon, <2>1, <2>9, ClientUpdateType
  <2>12. RpcTypeOK'
    BY Zenon, <2>1, <2>7, <2>8, SendType
  <2>13. ProcessTypeOK'
    BY Zenon, <2>1 DEF ProcessTypeOK
  <2>. QED  BY Zenon, <1>1, <2>10, <2>11, <2>12, <2>13
<1>. QED  BY Zenon, <1>2, <1>3

\* The loop of handle_worker_stop.
LEMMA StopLoopInv ==
    ASSUME HandlersTypeOK, RpcTypeOK, WorkersTypeOK, ProcessTypeOK, NEW c \in Clients, NEW todo \in Todo,
           stop_loop(c, todo), UNCHANGED <<callbacks, from_tako, broken>>
    PROVE  /\ HandlersTypeOK'
           /\ RpcTypeOK'
           /\ ProcessTypeOK'
           /\ KnowsJob(client'[c], {})
           /\ \A d \in Clients \ {c} : client'[d] = client[d]
<1>. DEFINE pending == {i \in DOMAIN todo : todo[i] \in Online}
            i == Min(pending)
            st == [pc |-> "stop", job |-> 0, reply |-> {},
                   todo |-> SubSeq(todo, i + 1, Len(todo))]
<1>1. CASE pending = {}
  <2>1. Answer(c) /\ UNCHANGED rpcVars
    BY Zenon, <1>1 DEF stop_loop
  <2>2. /\ HandlersTypeOK' /\ ProcessTypeOK' /\ KnowsJob(client'[c], {})
        /\ \A d \in Clients \ {c} : client'[d] = client[d]
    BY Zenon, <2>1, AnswerInv
  <2>3. RpcTypeOK'
    BY Zenon, <2>1 DEF RpcTypeOK, rpcVars
  <2>. QED  BY Zenon, <2>2, <2>3 DEF KnowsJob
<1>2. CASE pending # {}
  <2>1. /\ send_tako_message([type |-> "StopWorker", worker |-> todo[i]], ClientWaits(c))
        /\ client' = [client EXCEPT ![c] = st]
        /\ UNCHANGED panicked
    BY Zenon, <1>2 DEF stop_loop
  <2>2. DOMAIN todo \subseteq Nat
    BY Zenon, RestOfTodo
  <2>3. i \in pending
    BY Zenon, <1>2, <2>2, MinNatural
  <2>4. i \in DOMAIN todo /\ todo[i] \in Workers
    BY Zenon, <2>3 DEF Online, WorkersTypeOK
  <2>5. SubSeq(todo, i + 1, Len(todo)) \in Todo
    BY Zenon, <2>4, RestOfTodo
  <2>6. [type |-> "StopWorker", worker |-> todo[i]] \in ToTako
    BY Zenon, <2>4 DEF ToTako
  <2>7. ClientWaits(c) \in Waiting
    BY Zenon DEF ClientWaits, Waiting
  <2>. HIDE DEF i, pending
  <2>8. st \in ClientState /\ KnowsJob(st, {})
    BY <2>5 DEF ClientState, Todo, KnowsJob
  <2>. HIDE DEF st
  <2>9. /\ HandlersTypeOK' /\ client'[c] = st
        /\ \A d \in Clients \ {c} : client'[d] = client[d]
    BY <2>1, <2>8, ClientUpdateType
  <2>10. RpcTypeOK'
    BY Zenon, <2>1, <2>6, <2>7, SendType
  <2>11. ProcessTypeOK'
    BY Zenon, <2>1 DEF ProcessTypeOK
  <2>. QED  BY Zenon, <2>8, <2>9, <2>10, <2>11
<1>. QED  BY Zenon, <1>1, <1>2
----------------------------------------------------------------------------
(* What the actions preserve: the parts an action leaves alone.            *)

\* An invariant holds after a step that changes nothing it is about.
LEMMA Frames ==
    /\ StateInv /\ UNCHANGED <<stateVars, told_canceled>> => StateInv' /\ EndedTasksStay
    /\ HandlersTypeOK /\ UNCHANGED <<client, callbacks>> => HandlersTypeOK'
    /\ RpcTypeOK /\ UNCHANGED <<to_tako, from_tako, tako_responses>> => RpcTypeOK'
    /\ WorkersTypeOK /\ IsFiniteSet(DOMAIN workers) /\ UNCHANGED workers
           => WorkersTypeOK' /\ IsFiniteSet(DOMAIN workers')
    /\ TakoTypeOK /\ UNCHANGED takoVars => TakoTypeOK'
    /\ StreamTypeOK /\ UNCHANGED streamVars => StreamTypeOK'
    /\ RequestsKnown /\ UNCHANGED <<client, jobs>> => RequestsKnown'
    /\ ProcessTypeOK /\ UNCHANGED processVars => ProcessTypeOK'
<1>1. StateInv /\ UNCHANGED <<stateVars, told_canceled>> => StateInv' /\ EndedTasksStay
  BY DEF StateInv, StateTypeOK, RangesOK, stateVars, EndedTasksStay
<1>2. HandlersTypeOK /\ UNCHANGED <<client, callbacks>> => HandlersTypeOK'
  BY Zenon DEF HandlersTypeOK
<1>3. RpcTypeOK /\ UNCHANGED <<to_tako, from_tako, tako_responses>> => RpcTypeOK'
  BY Zenon DEF RpcTypeOK
<1>4. WorkersTypeOK /\ IsFiniteSet(DOMAIN workers) /\ UNCHANGED workers
           => WorkersTypeOK' /\ IsFiniteSet(DOMAIN workers')
  BY Zenon DEF WorkersTypeOK
<1>5. TakoTypeOK /\ UNCHANGED takoVars => TakoTypeOK'
  BY Zenon DEF TakoTypeOK, takoVars
<1>6. StreamTypeOK /\ UNCHANGED streamVars => StreamTypeOK'
  BY Zenon DEF StreamTypeOK, streamVars
<1>7. RequestsKnown /\ UNCHANGED <<client, jobs>> => RequestsKnown'
  BY Zenon DEF RequestsKnown
<1>8. ProcessTypeOK /\ UNCHANGED processVars => ProcessTypeOK'
  BY Zenon DEF ProcessTypeOK, processVars
<1>. QED  BY Zenon, <1>1, <1>2, <1>3, <1>4, <1>5, <1>6, <1>7, <1>8

\* What has to be shown of an action.
Preserved == IInv' /\ EndedTasksStay

\* A step of jobs keeps the invariant of State and the tasks that ended.
LEMMA JobsStepPreserves ==
    ASSUME IInv, JobsStep, told_canceled' \subseteq DOMAIN jobs
    PROVE  /\ StateInv' /\ EndedTasksStay
           /\ DOMAIN jobs' = DOMAIN jobs
           /\ UNCHANGED client => RequestsKnown'
<1>1. StateInv' /\ DOMAIN jobs' = DOMAIN jobs
  BY Zenon, JobsStepInv DEF IInv
<1>2. EndedTasksStay
  BY Zenon DEF JobsStep, JobStep, EndedTasksStay
<1>. QED  BY Zenon, <1>1, <1>2 DEF IInv, RequestsKnown

\* A panic changes nothing but panicked.
LEMMA PanicInv ==
    ASSUME IInv, Panic
    PROVE  Preserved
BY Zenon, Frames DEF IInv, Panic, Preserved, stateVars, handlerVars, rpcVars, ProcessTypeOK
----------------------------------------------------------------------------
(* Requests of clients.                                                    *)

\* The NewTasks message of a job is a message to tako.
LEMMA NewTasksType ==
    ASSUME NEW job, JobTypeOK(job)
    PROVE  NewTasks(job) \in ToTako
BY Zenon DEF NewTasks, ToTako, JobTypeOK

\* handle_submit adds a job with a fresh range of ids and keeps the invariant.
LEMMA SubmitInv ==
    ASSUME IInv, NEW c \in Clients, NEW spec, IsSpec(spec), handle_submit(c, spec)
    PROVE  Preserved
<1>. DEFINE job_id == job_id_counter
            job == new(task_id_counter, spec)
            refused == job.base \in DOMAIN base_task_id_to_job_id \/ job_id \in DOMAIN jobs
<1>1. CASE refused
  BY Zenon, <1>1, PanicInv DEF handle_submit
<1>2. CASE ~ refused
  <2>1. job.base = task_id_counter
    BY Zenon DEF new
  <2>2. AddJob(spec)
    BY <1>2, <2>1 DEF handle_submit, AddJob
  <2>3. /\ StateInv'
        /\ DOMAIN jobs' = DOMAIN jobs \cup {job_id}
        /\ \A j \in DOMAIN jobs : jobs'[j] = jobs[j]
    BY Zenon, <2>2, AddJobInv DEF IInv
  <2>4. EndedTasksStay
    BY Zenon, <2>3 DEF EndedTasksStay
  <2>5. job_id \in Nat /\ c \in Clients /\ JobTypeOK(job)
    BY Zenon, NewJobInv DEF IInv, StateInv, StateTypeOK, IsSpec, JobInv
  <2>6. /\ UNCHANGED <<workers, callbacks, from_tako, takoVars, registrations, processVars>>
        /\ IF spec.log
           THEN /\ control' = Append(control, [type |-> "RegisterStream",
                                               job |-> job_id, client |-> c])
                /\ client' = [client EXCEPT ![c] = [Idle EXCEPT !.pc = "register", !.job = job_id]]
                /\ UNCHANGED rpcVars
           ELSE /\ send_tako_message(NewTasks(job), ClientWaits(c))
                /\ client' = [client EXCEPT ![c] = [Idle EXCEPT !.pc = "newtasks", !.job = job_id]]
                /\ UNCHANGED control
    BY Zenon, <1>2 DEF handle_submit
  <2>. HIDE DEF job, job_id
  <2>7. /\ [Idle EXCEPT !.pc = "register", !.job = job_id] \in ClientState
        /\ [Idle EXCEPT !.pc = "newtasks", !.job = job_id] \in ClientState
        /\ [Idle EXCEPT !.pc = "register", !.job = job_id].job = job_id
        /\ [Idle EXCEPT !.pc = "newtasks", !.job = job_id].job = job_id
    BY <2>5, IdleType DEF ClientState
  <2>8. /\ HandlersTypeOK' /\ client'[c].job = job_id
        /\ \A d \in Clients \ {c} : client'[d] = client[d]
    BY Zenon, <2>6, <2>7, ClientUpdateType DEF IInv
  <2>9. RequestsKnown'
    BY Zenon, <2>3, <2>8 DEF IInv, RequestsKnown, KnowsJob
  <2>10. RpcTypeOK'
    <3>1. CASE spec.log
      BY Zenon, <2>6, <3>1, Frames DEF IInv, rpcVars
    <3>2. CASE ~ spec.log
      <4>1. ClientWaits(c) \in Waiting
        BY Zenon DEF ClientWaits, Waiting
      <4>2. NewTasks(job) \in ToTako
        BY Zenon, <2>5, NewTasksType
      <4>. QED  BY Zenon, <2>6, <3>2, <4>1, <4>2, SendType DEF IInv
    <3>. QED  BY Zenon, <3>1, <3>2
  <2>11. StreamTypeOK'
    <3>1. [type |-> "RegisterStream", job |-> job_id, client |-> c] \in Control
      BY Zenon, <2>5 DEF Control
    <3>. QED  BY SMTT(30), <2>6, <3>1 DEF IInv, StreamTypeOK
  <2>12. WorkersTypeOK' /\ IsFiniteSet(DOMAIN workers') /\ TakoTypeOK' /\ ProcessTypeOK'
    BY Zenon, <2>6, Frames DEF IInv
  <2>. QED  BY Zenon, <2>3, <2>4, <2>8, <2>9, <2>10, <2>11, <2>12 DEF Preserved, IInv
<1>. QED  BY Zenon, <1>1, <1>2

\* handle_resubmit is a handle_submit of as many tasks as the filter selects.
LEMMA ResubmitInv ==
    ASSUME IInv, NEW c \in Clients, NEW j \in DOMAIN jobs, NEW filter,
           handle_resubmit(c, j, filter)
    PROVE  Preserved
<1>. DEFINE count == Cardinality(InState(jobs[j], filter))
            spec == [n |-> count, id_count |-> count, log |-> FALSE,
                     max_fails |-> jobs[j].max_fails]
<1>1. handle_submit(c, spec)
  BY Zenon DEF handle_resubmit
<1>2. JobTypeOK(jobs[j])
  BY Zenon DEF IInv, StateInv, StateTypeOK
<1>3. count \in Nat
  BY Zenon, <1>2, InStateFinite
<1>4. jobs[j].max_fails \subseteq Nat
  BY Zenon, <1>2 DEF JobTypeOK, JobRecord
<1>. HIDE DEF count
<1>5. IsSpec(spec)
  BY <1>3, <1>4 DEF IsSpec
<1>. QED  BY Zenon, <1>1, <1>5, SubmitInv

\* A handler that touches only its own record and the queue to tako.
LEMMA HandlerOnly ==
    ASSUME IInv, NEW c \in Clients, HandlersTypeOK', RpcTypeOK',
           KnowsJob(client'[c], DOMAIN jobs),
           \A d \in Clients \ {c} : client'[d] = client[d],
           told_canceled' \subseteq DOMAIN jobs,
           UNCHANGED <<stateVars, workers, takoVars, streamVars>>, ProcessTypeOK'
    PROVE  Preserved
<1>1. JobsStep
  BY Zenon, NoJobStep DEF IInv
<1>2. StateInv' /\ EndedTasksStay
  BY Zenon, <1>1, JobsStepPreserves
<1>3. RequestsKnown'
  BY Zenon DEF IInv, RequestsKnown, stateVars
<1>4. WorkersTypeOK' /\ IsFiniteSet(DOMAIN workers') /\ TakoTypeOK' /\ StreamTypeOK'
  BY Zenon, Frames DEF IInv
<1>. QED  BY Zenon, <1>2, <1>3, <1>4 DEF Preserved, IInv

\* The jobs answered Canceled in a round of cancel_loop are jobs of the server.
LEMMA ToldType ==
    ASSUME IInv, UNCHANGED told_canceled
    PROVE  told_canceled' \subseteq DOMAIN jobs
BY Zenon DEF IInv, StateInv, StateTypeOK

\* handle_submit, resumed by the stream server, keeps the invariant.
LEMMA SubmitRegisteredInv ==
    ASSUME IInv, NEW c \in Clients, submit_registered(c)
    PROVE  Preserved
<1>. DEFINE st == [client[c] EXCEPT !.pc = "newtasks", !.reply = {}]
<1>1. client[c].job \in DOMAIN jobs /\ client[c] \in ClientState
  BY Zenon DEF IInv, RequestsKnown, KnowsJob, submit_registered, HandlersTypeOK
<1>2. NewTasks(jobs[client[c].job]) \in ToTako /\ ClientWaits(c) \in Waiting
  BY Zenon, <1>1, NewTasksType DEF IInv, StateInv, StateTypeOK, ClientWaits, Waiting
<1>3. RpcTypeOK'
  BY Zenon, <1>2, SendType DEF IInv, submit_registered
<1>4. client' = [client EXCEPT ![c] = st]
  BY Zenon DEF submit_registered, IInv, HandlersTypeOK
<1>5. st \in ClientState /\ KnowsJob(st, DOMAIN jobs)
  BY <1>1 DEF ClientState, KnowsJob
<1>. HIDE DEF st
<1>6. /\ HandlersTypeOK' /\ client'[c] = st
      /\ \A d \in Clients \ {c} : client'[d] = client[d]
  BY Zenon, <1>4, <1>5, ClientUpdateType DEF IInv, submit_registered
<1>7. told_canceled' \subseteq DOMAIN jobs
  BY Zenon, ToldType DEF submit_registered
<1>8. ProcessTypeOK'
  BY Zenon, Frames DEF IInv, submit_registered
<1>. QED  BY Zenon, <1>3, <1>5, <1>6, <1>7, <1>8, HandlerOnly DEF submit_registered

\* handle_submit, resumed by tako, keeps the invariant.
LEMMA SubmitFinishedInv ==
    ASSUME IInv, NEW c \in Clients, submit_finished(c)
    PROVE  Preserved
<1>1. CASE Panic
  BY Zenon, <1>1, PanicInv
<1>2. CASE ~ Panic
  <2>1. /\ Answer(c)
        /\ UNCHANGED <<stateVars, workers, told_canceled, callbacks, rpcVars,
                       from_tako, takoVars, streamVars, broken>>
    BY Zenon, <1>2 DEF submit_finished
  <2>2. /\ HandlersTypeOK' /\ ProcessTypeOK' /\ KnowsJob(client'[c], {})
        /\ \A d \in Clients \ {c} : client'[d] = client[d]
    BY Zenon, <2>1, AnswerInv DEF IInv
  <2>3. RpcTypeOK'
    BY Zenon, <2>1, Frames DEF IInv, rpcVars
  <2>4. told_canceled' \subseteq DOMAIN jobs
    BY Zenon, <2>1, ToldType
  <2>5. KnowsJob(client'[c], DOMAIN jobs)
    BY Zenon, <2>2 DEF KnowsJob
  <2>. QED  BY Zenon, <2>1, <2>2, <2>3, <2>4, <2>5, HandlerOnly
<1>. QED  BY Zenon, <1>1, <1>2

\* handle_job_cancel up to its first await keeps the invariant.
LEMMA JobCancelInv ==
    ASSUME IInv, NEW c \in Clients, NEW todo \in Todo, handle_job_cancel(c, todo)
    PROVE  Preserved
<1>1. /\ DOMAIN jobs \subseteq Nat /\ told_canceled \subseteq DOMAIN jobs
      /\ \A j \in DOMAIN jobs : JobTypeOK(jobs[j])
      /\ HandlersTypeOK /\ RpcTypeOK /\ ProcessTypeOK
  BY Zenon DEF IInv, StateInv, StateTypeOK
<1>2. /\ cancel_loop(c, todo, jobs, told_canceled)
      /\ UNCHANGED <<stateVars, workers, callbacks, from_tako, takoVars, streamVars, broken>>
  BY Zenon DEF handle_job_cancel
<1>3. /\ told_canceled' \subseteq DOMAIN jobs
      /\ HandlersTypeOK' /\ RpcTypeOK' /\ ProcessTypeOK'
      /\ KnowsJob(client'[c], DOMAIN jobs)
      /\ \A d \in Clients \ {c} : client'[d] = client[d]
  BY Zenon, <1>1, <1>2, CancelLoopInv
<1>. QED  BY Zenon, <1>2, <1>3, HandlerOnly

\* handle_worker_stop up to its first await keeps the invariant.
LEMMA WorkerStopInv ==
    ASSUME IInv, NEW c \in Clients, NEW todo \in Todo, handle_worker_stop(c, todo)
    PROVE  Preserved
<1>1. /\ stop_loop(c, todo)
      /\ UNCHANGED <<stateVars, workers, told_canceled, callbacks, from_tako, takoVars,
                     streamVars, broken>>
  BY Zenon DEF handle_worker_stop
<1>2. /\ HandlersTypeOK' /\ RpcTypeOK' /\ ProcessTypeOK'
      /\ KnowsJob(client'[c], {})
      /\ \A d \in Clients \ {c} : client'[d] = client[d]
  BY Zenon, <1>1, StopLoopInv DEF IInv
<1>3. KnowsJob(client'[c], DOMAIN jobs)
  BY Zenon, <1>2 DEF KnowsJob
<1>4. told_canceled' \subseteq DOMAIN jobs
  BY Zenon, <1>1, ToldType
<1>. QED  BY Zenon, <1>1, <1>2, <1>3, <1>4, HandlerOnly

\* handle_worker_stop, resumed by tako, keeps the invariant.
LEMMA StopAnsweredInv ==
    ASSUME IInv, NEW c \in Clients, stop_answered(c)
    PROVE  Preserved
<1>1. CASE Panic
  BY Zenon, <1>1, PanicInv
<1>2. CASE ~ Panic
  <2>1. /\ stop_loop(c, client[c].todo)
        /\ UNCHANGED <<stateVars, workers, told_canceled, callbacks, from_tako, takoVars,
                       streamVars, broken>>
    BY Zenon, <1>2 DEF stop_answered
  <2>2. client[c].todo \in Todo
    BY Zenon DEF IInv, HandlersTypeOK, ClientState, Todo
  <2>3. /\ HandlersTypeOK' /\ RpcTypeOK' /\ ProcessTypeOK'
        /\ KnowsJob(client'[c], {})
        /\ \A d \in Clients \ {c} : client'[d] = client[d]
    BY Zenon, <2>1, <2>2, StopLoopInv DEF IInv
  <2>4. KnowsJob(client'[c], DOMAIN jobs)
    BY Zenon, <2>3 DEF KnowsJob
  <2>5. told_canceled' \subseteq DOMAIN jobs
    BY Zenon, <2>1, ToldType
  <2>. QED  BY Zenon, <2>1, <2>3, <2>4, <2>5, HandlerOnly
<1>. QED  BY Zenon, <1>1, <1>2
----------------------------------------------------------------------------
(* Answers to cancels.                                                     *)

\* The end of check_termination appends a well-formed message or nothing.
LEMMA UnregisterType ==
    ASSUME IInv, NEW job_id \in Nat, NEW job, UnregisterStream(job_id, job)
    PROVE  control' \in Seq(Control)
<1>1. [type |-> "UnregisterStream", job |-> job_id] \in Control
  BY Zenon DEF Control
<1>. QED  BY <1>1 DEF IInv, StreamTypeOK, UnregisterStream

\* Cancelling tasks of one job leaves a state that is well formed.
LEMMA ApplyCancelStep ==
    ASSUME IInv, NEW job_id \in Nat, NEW ids, can_cancel(jobs[job_id], ids),
           apply_cancel(job_id, ids)
    PROVE  JobsStep /\ control' \in Seq(Control)
<1>1. job_id \in DOMAIN jobs => JobStep(jobs[job_id], set_cancel_state(jobs[job_id], ids))
  BY Zenon, CancelJobStep DEF IInv, StateInv, StateTypeOK, JobInv
<1>2. JobsStep
  BY Zenon, <1>1, OneJobStep DEF IInv, apply_cancel, IdsUnchanged
<1>3. control' \in Seq(Control)
  <2>1. CASE ids = {}
    BY Zenon, <2>1 DEF apply_cancel, IInv, StreamTypeOK
  <2>2. CASE ids # {}
    BY Zenon, <2>2, UnregisterType DEF apply_cancel
  <2>. QED  BY Zenon, <2>1, <2>2
<1>. QED  BY Zenon, <1>2, <1>3

\* handle_job_cancel, resumed by tako, keeps the invariant.
LEMMA CancelAnsweredInv ==
    ASSUME IInv, NEW c \in Clients, cancel_answered(c)
    PROVE  Preserved
<1>. DEFINE job_id == client[c].job
<1>1. PICK msg \in client[c].reply :
          /\ client[c].pc = "cancel"
          /\ CASE /\ msg.type = "CancelTasksResponse"
                  /\ can_cancel(jobs[job_id], msg.tasks) ->
                        /\ apply_cancel(job_id, msg.tasks)
                        /\ cancel_loop(c, client[c].todo, jobs', told_canceled \cup {job_id})
                        /\ UNCHANGED <<workers, callbacks, from_tako, takoVars,
                                       registrations, broken>>
               [] msg.type = "Error" ->
                        /\ cancel_loop(c, client[c].todo, jobs, told_canceled)
                        /\ UNCHANGED <<stateVars, workers, callbacks, from_tako,
                                       takoVars, streamVars, broken>>
               [] OTHER -> Panic
  BY Zenon DEF cancel_answered
<1>2. /\ client[c].todo \in Todo /\ job_id \in Nat /\ job_id \in DOMAIN jobs
      /\ HandlersTypeOK /\ RpcTypeOK /\ ProcessTypeOK
  BY Zenon, <1>1 DEF IInv, HandlersTypeOK, ClientState, Todo, RequestsKnown, KnowsJob
<1>3. /\ DOMAIN jobs \subseteq Nat /\ told_canceled \subseteq DOMAIN jobs
      /\ \A j \in DOMAIN jobs : JobTypeOK(jobs[j])
  BY Zenon DEF IInv, StateInv, StateTypeOK
<1>4. CASE /\ msg.type = "CancelTasksResponse"
           /\ can_cancel(jobs[job_id], msg.tasks)
  <2>1. /\ apply_cancel(job_id, msg.tasks)
        /\ cancel_loop(c, client[c].todo, jobs', told_canceled \cup {job_id})
        /\ UNCHANGED <<workers, callbacks, from_tako, takoVars, registrations, broken>>
    BY Zenon, <1>1, <1>4
  <2>2. JobsStep /\ control' \in Seq(Control)
    BY Zenon, <1>2, <1>4, <2>1, ApplyCancelStep
  <2>3. DOMAIN jobs' = DOMAIN jobs /\ \A j \in DOMAIN jobs' : JobTypeOK(jobs'[j])
    BY Zenon, <2>2 DEF JobsStep, JobStep, JobInv
  <2>4. /\ told_canceled' \subseteq DOMAIN jobs'
        /\ HandlersTypeOK' /\ RpcTypeOK' /\ ProcessTypeOK'
        /\ KnowsJob(client'[c], DOMAIN jobs')
        /\ \A d \in Clients \ {c} : client'[d] = client[d]
    <3>1. DOMAIN jobs' \subseteq Nat /\ told_canceled \cup {job_id} \subseteq DOMAIN jobs'
      BY Zenon, <1>2, <1>3, <2>3
    <3>2. UNCHANGED <<callbacks, from_tako, broken>>
      BY Zenon, <2>1
    <3>. HIDE DEF job_id
    <3>. QED  BY Zenon, <1>2, <2>1, <2>3, <3>1, <3>2, CancelLoopInv
  <2>5. StateInv' /\ EndedTasksStay
    BY Zenon, <2>2, <2>3, <2>4, JobsStepPreserves
  <2>6. RequestsKnown'
    BY Zenon, <2>3, <2>4 DEF IInv, RequestsKnown
  <2>7. StreamTypeOK'
    BY Zenon, <2>1, <2>2 DEF IInv, StreamTypeOK
  <2>8. WorkersTypeOK' /\ IsFiniteSet(DOMAIN workers') /\ TakoTypeOK'
    BY Zenon, <2>1, Frames DEF IInv
  <2>. QED  BY Zenon, <2>4, <2>5, <2>6, <2>7, <2>8 DEF Preserved, IInv
<1>5. CASE msg.type = "Error"
  <2>1. /\ cancel_loop(c, client[c].todo, jobs, told_canceled)
        /\ UNCHANGED <<stateVars, workers, callbacks, from_tako, takoVars, streamVars, broken>>
    BY Zenon, <1>1, <1>5
  <2>2. /\ told_canceled' \subseteq DOMAIN jobs
        /\ HandlersTypeOK' /\ RpcTypeOK' /\ ProcessTypeOK'
        /\ KnowsJob(client'[c], DOMAIN jobs)
        /\ \A d \in Clients \ {c} : client'[d] = client[d]
    BY Zenon, <1>2, <1>3, <2>1, CancelLoopInv
  <2>. QED  BY Zenon, <2>1, <2>2, HandlerOnly
<1>6. CASE Panic
  BY Zenon, <1>6, PanicInv
<1>. QED  BY Zenon, <1>1, <1>4, <1>5, <1>6

\* A change of callbacks alone.
LEMMA CallbackOnly ==
    ASSUME IInv, HandlersTypeOK', RpcTypeOK',
           UNCHANGED <<stateVars, workers, client, told_canceled, takoVars, streamVars, processVars>>
    PROVE  Preserved
<1>1. StateInv' /\ EndedTasksStay /\ RequestsKnown'
  BY Zenon, Frames DEF IInv, stateVars
<1>2. WorkersTypeOK' /\ IsFiniteSet(DOMAIN workers') /\ TakoTypeOK' /\ StreamTypeOK'
      /\ ProcessTypeOK'
  BY Zenon, Frames DEF IInv
<1>. QED  BY Zenon, <1>1, <1>2 DEF Preserved, IInv

\* The spawned cancel sends its request and keeps the invariant.
LEMMA CallbackSendInv ==
    ASSUME IInv, NEW t \in DOMAIN callbacks, callback_send(t)
    PROVE  Preserved
<1>1. callbacks[t] \in CallbackState /\ t \in Nat
  BY Zenon DEF IInv, HandlersTypeOK
<1>2. CancelTasks(callbacks[t].tasks) \in ToTako /\ CallbackWaits(t) \in Waiting
  BY Zenon, <1>1 DEF CallbackState, CancelTasks, ToTako, CallbackWaits, Waiting
<1>3. RpcTypeOK'
  BY Zenon, <1>2, SendType DEF IInv, callback_send
<1>4. HandlersTypeOK'
  <2>1. [callbacks[t] EXCEPT !.sent = TRUE] \in CallbackState
    BY Zenon, <1>1 DEF CallbackState
  <2>2. callbacks' = [callbacks EXCEPT ![t] = [callbacks[t] EXCEPT !.sent = TRUE]]
    BY Zenon DEF callback_send, IInv, HandlersTypeOK
  <2>3. client' = client
    BY Zenon DEF callback_send
  <2>. QED  BY Zenon, <2>1, <2>2, <2>3 DEF IInv, HandlersTypeOK
<1>. QED  BY Zenon, <1>3, <1>4, CallbackOnly DEF callback_send

\* The spawned cancel, resumed by tako, keeps the invariant.
LEMMA CallbackAnsweredInv ==
    ASSUME IInv, NEW t \in DOMAIN callbacks, callback_answered(t)
    PROVE  Preserved
<1>. DEFINE job_id == callbacks[t].job
<1>1. PICK msg \in callbacks[t].reply :
        CASE /\ msg.type = "CancelTasksResponse"
             /\ can_cancel(jobs[job_id], msg.tasks) ->
                    /\ apply_cancel(job_id, msg.tasks)
                    /\ callbacks' = Remove(callbacks, {t})
                    /\ UNCHANGED <<workers, client, told_canceled, rpcVars, from_tako,
                                   takoVars, registrations, processVars>>
          [] msg.type = "Error" ->
                    /\ callbacks' = Remove(callbacks, {t})
                    /\ UNCHANGED <<stateVars, workers, client, told_canceled, rpcVars,
                                   from_tako, takoVars, streamVars, processVars>>
          [] OTHER -> Panic
  BY Zenon DEF callback_answered
<1>2. job_id \in Nat
  BY Zenon DEF IInv, HandlersTypeOK, CallbackState
<1>3. callbacks' = Remove(callbacks, {t}) /\ client' = client => HandlersTypeOK'
  BY Zenon DEF IInv, HandlersTypeOK, Remove
<1>4. CASE /\ msg.type = "CancelTasksResponse"
           /\ can_cancel(jobs[job_id], msg.tasks)
  <2>1. /\ apply_cancel(job_id, msg.tasks)
        /\ callbacks' = Remove(callbacks, {t})
        /\ UNCHANGED <<workers, client, told_canceled, rpcVars, from_tako, takoVars,
                       registrations, processVars>>
    BY Zenon, <1>1, <1>4
  <2>2. JobsStep /\ control' \in Seq(Control)
    BY Zenon, <1>2, <1>4, <2>1, ApplyCancelStep
  <2>3. told_canceled' \subseteq DOMAIN jobs
    BY Zenon, <2>1, ToldType
  <2>4. StateInv' /\ EndedTasksStay /\ RequestsKnown'
    BY Zenon, <2>1, <2>2, <2>3, JobsStepPreserves
  <2>5. StreamTypeOK'
    BY Zenon, <2>1, <2>2 DEF IInv, StreamTypeOK
  <2>6. RpcTypeOK' /\ WorkersTypeOK' /\ IsFiniteSet(DOMAIN workers') /\ TakoTypeOK'
        /\ ProcessTypeOK'
    BY Zenon, <2>1, Frames DEF IInv, rpcVars
  <2>. QED  BY Zenon, <1>3, <2>1, <2>4, <2>5, <2>6 DEF Preserved, IInv
<1>5. CASE msg.type = "Error"
  <2>1. /\ callbacks' = Remove(callbacks, {t})
        /\ UNCHANGED <<stateVars, workers, client, told_canceled, rpcVars, from_tako,
                       takoVars, streamVars, processVars>>
    BY Zenon, <1>1, <1>5
  <2>2. RpcTypeOK'
    BY Zenon, <2>1, Frames DEF IInv, rpcVars
  <2>. QED  BY Zenon, <1>3, <2>1, <2>2, CallbackOnly
<1>6. CASE Panic
  BY Zenon, <1>6, PanicInv
<1>. QED  BY Zenon, <1>1, <1>4, <1>5, <1>6
----------------------------------------------------------------------------
(* Messages of tako.                                                       *)

\* The message at the head of the queue carries what its type promises.
LEMMA ReceivedType ==
    ASSUME IInv, NEW type, Receive(type)
    PROVE  LET msg == Head(from_tako)
           IN  /\ msg \in FromTako
               /\ msg.type = type
               /\ Tail(from_tako) \in Seq(FromTako)
               /\ type \in {"Running", "Finished", "Waiting", "TaskFailed"} => msg.task \in Nat
               /\ type \in {"Running", "NewWorker", "LostWorker"} => msg.worker \in Workers
               /\ type \in Responses => msg \in Response
<1>. DEFINE msg == Head(from_tako)
<1>1. msg \in FromTako /\ Tail(from_tako) \in Seq(FromTako) /\ msg.type = type
  BY Zenon, HeadTailProperties DEF IInv, RpcTypeOK, Receive
<1>. HIDE DEF msg
<1>2. msg.type \in {"Running", "Finished", "Waiting", "TaskFailed"} => msg.task \in Nat
  BY Zenon, <1>1 DEF FromTako, Response
<1>3. msg.type \in {"Running", "NewWorker", "LostWorker"} => msg.worker \in Workers
  BY Zenon, <1>1 DEF FromTako, Response
<1>4. msg.type \in Responses => msg \in Response
  BY Zenon, <1>1 DEF FromTako, Responses
<1>. QED  BY Zenon, <1>1, <1>2, <1>3, <1>4 DEF msg

\* A report about one task, applied to the job it belongs to.
LEMMA ReportInv ==
    ASSUME IInv, JobsStep, HandlersTypeOK', control' \in Seq(Control),
           from_tako' \in Seq(FromTako), WorkersTypeOK', IsFiniteSet(DOMAIN workers'),
           UNCHANGED <<client, told_canceled, rpcVars, takoVars, registrations, processVars>>
    PROVE  Preserved
<1>1. told_canceled' \subseteq DOMAIN jobs
  BY Zenon, ToldType
<1>2. StateInv' /\ EndedTasksStay /\ RequestsKnown'
  BY Zenon, <1>1, JobsStepPreserves
<1>3. RpcTypeOK' /\ StreamTypeOK'
  BY Zenon DEF IInv, RpcTypeOK, StreamTypeOK, rpcVars
<1>4. TakoTypeOK' /\ ProcessTypeOK'
  BY Zenon, Frames DEF IInv
<1>. QED  BY Zenon, <1>2, <1>3, <1>4 DEF Preserved, IInv

\* A job of a well-formed state has its type and its counters are right.
LEMMA JobOfState ==
    ASSUME IInv, NEW j \in DOMAIN jobs
    PROVE  JobInv(jobs[j]) /\ j \in Nat
BY Zenon DEF IInv, StateInv, StateTypeOK, JobInv

\* process_task_update of a running task keeps the invariant.
LEMMA RunningInv ==
    ASSUME IInv, process_task_running
    PROVE  Preserved
<1>. DEFINE msg == Head(from_tako)
            job_id == get_job_by_tako_task_id(msg.task)
<1>1. msg.task \in Nat /\ msg.worker \in Workers /\ Tail(from_tako) \in Seq(FromTako)
  BY Zenon, ReceivedType DEF process_task_running
<1>2. CASE job_id = NoJob
  BY Zenon, <1>2, PanicInv DEF process_task_running
<1>3. CASE job_id # NoJob
  <2>1. /\ from_tako' = Tail(from_tako)
        /\ jobs' = [jobs EXCEPT ![job_id] =
                        set_running_state(jobs[job_id], msg.task, msg.worker)]
        /\ UNCHANGED <<base_task_id_to_job_id, job_id_counter, task_id_counter,
                       workers, handlerVars, rpcVars, takoVars, streamVars, processVars>>
    BY Zenon, <1>3 DEF process_task_running, Received
  <2>2. job_id \in DOMAIN jobs /\ msg.task \in DOMAIN jobs[job_id].tasks
    BY Zenon, <1>1, <1>3, LookupSound DEF IInv
  <2>. HIDE DEF job_id, msg
  <2>3. JobStep(jobs[job_id], set_running_state(jobs[job_id], msg.task, msg.worker))
    BY Zenon, <1>1, <2>2, JobOfState, RunningJobStep
  <2>4. JobsStep
    BY Zenon, <2>1, <2>3, OneJobStep DEF IInv, IdsUnchanged
  <2>5. /\ HandlersTypeOK' /\ WorkersTypeOK' /\ IsFiniteSet(DOMAIN workers')
        /\ control' \in Seq(Control)
    BY Zenon, <2>1, Frames DEF IInv, handlerVars, streamVars, StreamTypeOK
  <2>. QED  BY Zenon, <1>1, <2>1, <2>4, <2>5, ReportInv DEF handlerVars, streamVars
<1>. QED  BY Zenon, <1>2, <1>3

\* process_task_update of a finished task keeps the invariant.
LEMMA FinishedInv ==
    ASSUME IInv, process_task_finished
    PROVE  Preserved
<1>. DEFINE msg == Head(from_tako)
            job_id == get_job_by_tako_task_id(msg.task)
<1>1. msg.task \in Nat /\ Tail(from_tako) \in Seq(FromTako)
  BY Zenon, ReceivedType DEF process_task_finished
<1>2. CASE job_id = NoJob \/ ~ can_end(jobs[job_id], msg.task)
  BY Zenon, <1>2, PanicInv DEF process_task_finished
<1>3. CASE job_id # NoJob /\ can_end(jobs[job_id], msg.task)
  <2>1. /\ from_tako' = Tail(from_tako)
        /\ jobs' = [jobs EXCEPT ![job_id] = set_finished_state(jobs[job_id], msg.task)]
        /\ UnregisterStream(job_id, jobs'[job_id])
        /\ UNCHANGED <<base_task_id_to_job_id, job_id_counter, task_id_counter,
                       workers, handlerVars, rpcVars, takoVars, registrations, processVars>>
    BY Zenon, <1>3 DEF process_task_finished, Received
  <2>2. job_id \in DOMAIN jobs
    BY Zenon, <1>1, <1>3, LookupSound DEF IInv
  <2>. HIDE DEF job_id, msg
  <2>3. JobStep(jobs[job_id], set_finished_state(jobs[job_id], msg.task))
    BY Zenon, <1>3, <2>2, JobOfState, FinishedJobStep
  <2>4. JobsStep
    BY Zenon, <2>1, <2>3, OneJobStep DEF IInv, IdsUnchanged
  <2>5. control' \in Seq(Control)
    BY Zenon, <2>1, <2>2, JobOfState, UnregisterType
  <2>6. HandlersTypeOK' /\ WorkersTypeOK' /\ IsFiniteSet(DOMAIN workers')
    BY Zenon, <2>1, Frames DEF IInv, handlerVars
  <2>. QED  BY Zenon, <1>1, <2>1, <2>4, <2>5, <2>6, ReportInv DEF handlerVars
<1>. QED  BY Zenon, <1>2, <1>3

\* process_task_update of a waiting task keeps the invariant.
LEMMA WaitingInv ==
    ASSUME IInv, process_task_waiting
    PROVE  Preserved
<1>. DEFINE msg == Head(from_tako)
            job_id == get_job_by_tako_task_id(msg.task)
<1>1. msg.task \in Nat /\ Tail(from_tako) \in Seq(FromTako)
  BY Zenon, ReceivedType DEF process_task_waiting
<1>2. CASE job_id = NoJob \/ ~ can_wait(jobs[job_id], {msg.task})
  BY Zenon, <1>2, PanicInv DEF process_task_waiting
<1>3. CASE job_id # NoJob /\ can_wait(jobs[job_id], {msg.task})
  <2>1. /\ from_tako' = Tail(from_tako)
        /\ jobs' = [jobs EXCEPT ![job_id] = set_waiting_state(jobs[job_id], {msg.task})]
        /\ UNCHANGED <<base_task_id_to_job_id, job_id_counter, task_id_counter,
                       workers, handlerVars, rpcVars, takoVars, streamVars, processVars>>
    BY Zenon, <1>3 DEF process_task_waiting, Received
  <2>2. job_id \in DOMAIN jobs
    BY Zenon, <1>1, <1>3, LookupSound DEF IInv
  <2>. HIDE DEF job_id, msg
  <2>3. JobStep(jobs[job_id], set_waiting_state(jobs[job_id], {msg.task}))
    BY Zenon, <1>3, <2>2, JobOfState, WaitingJobStep
  <2>4. JobsStep
    BY Zenon, <2>1, <2>3, OneJobStep DEF IInv, IdsUnchanged
  <2>5. /\ HandlersTypeOK' /\ WorkersTypeOK' /\ IsFiniteSet(DOMAIN workers')
        /\ control' \in Seq(Control)
    BY Zenon, <2>1, Frames DEF IInv, handlerVars, streamVars, StreamTypeOK
  <2>. QED  BY Zenon, <1>1, <2>1, <2>4, <2>5, ReportInv DEF handlerVars, streamVars
<1>. QED  BY Zenon, <1>2, <1>3

\* cancel_tasks_from_callback spawns a well-formed task or none.
LEMMA SpawnType ==
    ASSUME IInv, NEW t \in Nat, NEW job_id \in Nat, NEW job, JobInv(job),
           cancel_tasks_from_callback(t, job_id, job), UNCHANGED client
    PROVE  HandlersTypeOK'
<1>. DEFINE st == [job |-> job_id, tasks |-> non_finished_task_ids(job),
                   sent |-> FALSE, reply |-> {}]
<1>1. non_finished_task_ids(job) \subseteq Nat
  BY Zenon DEF non_finished_task_ids, InState, JobInv, JobTypeOK
<1>2. st \in CallbackState
  BY Zenon, <1>1 DEF CallbackState
<1>3. callbacks' = Insert(callbacks, t, st) \/ callbacks' = callbacks
  BY Zenon DEF cancel_tasks_from_callback
<1>. HIDE DEF st
<1>4. CASE callbacks' = callbacks
  BY Zenon, <1>4, Frames DEF IInv
<1>5. CASE callbacks' = Insert(callbacks, t, st)
  <2>1. DOMAIN callbacks' \subseteq Nat /\ callbacks' \in [DOMAIN callbacks' -> CallbackState]
    BY Zenon, <1>2, <1>5 DEF IInv, HandlersTypeOK, Insert
  <2>. QED  BY Zenon, <2>1 DEF IInv, HandlersTypeOK
<1>. QED  BY Zenon, <1>3, <1>4, <1>5

\* process_task_failed, with the cancel it may spawn, keeps the invariant.
LEMMA FailedInv ==
    ASSUME IInv, process_task_failed
    PROVE  Preserved
<1>. DEFINE msg == Head(from_tako)
            job_id == get_job_by_tako_task_id(msg.task)
            job == set_failed_state(jobs[job_id], msg.task)
<1>1. msg.task \in Nat /\ Tail(from_tako) \in Seq(FromTako)
  BY Zenon, ReceivedType DEF process_task_failed
<1>2. CASE job_id = NoJob \/ ~ can_end(jobs[job_id], msg.task)
  BY Zenon, <1>2, PanicInv DEF process_task_failed
<1>3. CASE job_id # NoJob /\ can_end(jobs[job_id], msg.task)
  <2>1. /\ from_tako' = Tail(from_tako)
        /\ jobs' = [jobs EXCEPT ![job_id] = job]
        /\ UnregisterStream(job_id, jobs'[job_id])
        /\ cancel_tasks_from_callback(msg.task, job_id, jobs'[job_id])
        /\ UNCHANGED <<base_task_id_to_job_id, job_id_counter, task_id_counter,
                       workers, client, told_canceled, rpcVars, takoVars,
                       registrations, processVars>>
    BY Zenon, <1>3 DEF process_task_failed, Received
  <2>2. job_id \in DOMAIN jobs
    BY Zenon, <1>1, <1>3, LookupSound DEF IInv
  <2>3. JobStep(jobs[job_id], job)
    <3>. HIDE DEF job_id, msg
    <3>. QED  BY Zenon, <1>3, <2>2, JobOfState, FailedJobStep
  <2>. HIDE DEF job_id, msg, job
  <2>4. JobsStep
    BY Zenon, <2>1, <2>3, OneJobStep DEF IInv, IdsUnchanged
  <2>5. control' \in Seq(Control)
    BY Zenon, <2>1, <2>2, JobOfState, UnregisterType
  <2>6. WorkersTypeOK' /\ IsFiniteSet(DOMAIN workers')
    BY Zenon, <2>1, Frames DEF IInv
  <2>7. JobInv(jobs'[job_id]) /\ job_id \in Nat
    BY Zenon, <2>2, <2>4, JobOfState DEF JobsStep, JobStep
  <2>8. HandlersTypeOK'
    BY Zenon, <1>1, <2>1, <2>7, SpawnType
  <2>. QED  BY Zenon, <1>1, <2>1, <2>4, <2>5, <2>6, <2>8, ReportInv
<1>. QED  BY Zenon, <1>2, <1>3

\* process_worker_new keeps the invariant.
LEMMA WorkerNewInv ==
    ASSUME IInv, process_worker_new
    PROVE  Preserved
<1>. DEFINE w == Head(from_tako).worker
<1>1. w \in Workers /\ Tail(from_tako) \in Seq(FromTako)
  BY Zenon, ReceivedType DEF process_worker_new
<1>2. CASE w \in DOMAIN workers
  BY Zenon, <1>2, PanicInv DEF process_worker_new
<1>3. CASE w \notin DOMAIN workers
  <2>1. /\ from_tako' = Tail(from_tako)
        /\ workers' = Insert(workers, w, "Online")
        /\ UNCHANGED <<stateVars, handlerVars, rpcVars, takoVars, streamVars, processVars>>
    BY Zenon, <1>3 DEF process_worker_new, Received
  <2>. HIDE DEF w
  <2>2. /\ DOMAIN workers' = DOMAIN workers \cup {w}
        /\ workers' \in [DOMAIN workers' -> {"Online", "Offline"}]
    BY Zenon, <2>1 DEF Insert, IInv, WorkersTypeOK
  <2>3. WorkersTypeOK'
    BY Zenon, <1>1, <2>2 DEF IInv, WorkersTypeOK
  <2>4. IsFiniteSet(DOMAIN workers')
    BY Zenon, <2>2, FS_AddElement DEF IInv
  <2>5. JobsStep
    BY Zenon, <2>1, NoJobStep DEF IInv
  <2>6. HandlersTypeOK' /\ control' \in Seq(Control)
    BY Zenon, <2>1, Frames DEF IInv, handlerVars, streamVars, StreamTypeOK
  <2>. QED  BY Zenon, <1>1, <2>1, <2>3, <2>4, <2>5, <2>6, ReportInv DEF handlerVars, streamVars
<1>. QED  BY Zenon, <1>2, <1>3

\* process_worker_lost, which resets tasks of several jobs, keeps the invariant.
LEMMA WorkerLostInv ==
    ASSUME IInv, process_worker_lost
    PROVE  Preserved
<1>. DEFINE msg == Head(from_tako)
            lost(j) == {t \in msg.tasks : get_job_by_tako_task_id(t) = j}
            refused == \/ msg.worker \notin DOMAIN workers
                       \/ lost(NoJob) # {}
                       \/ \E j \in DOMAIN jobs : ~ can_wait(jobs[j], lost(j))
<1>1. msg.worker \in Workers /\ Tail(from_tako) \in Seq(FromTako)
  BY Zenon, ReceivedType DEF process_worker_lost
<1>2. CASE refused
  BY Zenon, <1>2, PanicInv DEF process_worker_lost
<1>3. CASE ~ refused
  <2>1. /\ from_tako' = Tail(from_tako)
        /\ workers' = [workers EXCEPT ![msg.worker] = "Offline"]
        /\ jobs' = [j \in DOMAIN jobs |-> set_waiting_state(jobs[j], lost(j))]
        /\ UNCHANGED <<base_task_id_to_job_id, job_id_counter, task_id_counter,
                       handlerVars, rpcVars, takoVars, streamVars, processVars>>
    BY Zenon, <1>3 DEF process_worker_lost, Received
  <2>2. \A j \in DOMAIN jobs : can_wait(jobs[j], lost(j))
    BY Zenon, <1>3
  <2>. HIDE DEF lost, msg
  <2>3. \A j \in DOMAIN jobs : JobStep(jobs[j], set_waiting_state(jobs[j], lost(j)))
    BY Zenon, <2>2, JobOfState, WaitingJobStep
  <2>4. JobsStep
    BY Zenon, <2>1, <2>3 DEF JobsStep, IdsUnchanged
  <2>5. WorkersTypeOK' /\ DOMAIN workers' = DOMAIN workers
    BY Zenon, <2>1 DEF IInv, WorkersTypeOK
  <2>6. IsFiniteSet(DOMAIN workers')
    BY Zenon, <2>5 DEF IInv
  <2>7. HandlersTypeOK' /\ control' \in Seq(Control)
    BY Zenon, <2>1, Frames DEF IInv, handlerVars, streamVars, StreamTypeOK
  <2>. QED  BY Zenon, <1>1, <2>1, <2>4, <2>5, <2>6, <2>7, ReportInv DEF handlerVars, streamVars
<1>. QED  BY Zenon, <1>2, <1>3

\* The delivery of a response to the oldest waiter keeps the invariant.
LEMMA DeliverInv ==
    ASSUME IInv, deliver_response
    PROVE  Preserved
<1>. DEFINE msg == Head(from_tako)
            who == Head(tako_responses)
<1>1. msg \in Response /\ Tail(from_tako) \in Seq(FromTako)
  BY Zenon, ReceivedType DEF deliver_response
<1>2. CASE tako_responses = <<>>
  BY Zenon, <1>2, PanicInv DEF deliver_response
<1>3. CASE tako_responses # <<>>
  <2>1. /\ from_tako' = Tail(from_tako)
        /\ tako_responses' = Tail(tako_responses)
        /\ IF who.kind = "client"
           THEN /\ client' = [client EXCEPT ![who.client].reply = {msg}]
                /\ UNCHANGED callbacks
           ELSE /\ callbacks' = [callbacks EXCEPT ![who.task].reply = {msg}]
                /\ UNCHANGED client
        /\ UNCHANGED <<stateVars, workers, told_canceled, to_tako, takoVars, streamVars, processVars>>
    BY Zenon, <1>3 DEF deliver_response, Received
  <2>2. who \in Waiting /\ Tail(tako_responses) \in Seq(Waiting)
    BY Zenon, <1>3, HeadTailProperties DEF IInv, RpcTypeOK
  <2>3. RpcTypeOK'
    BY Zenon, <1>1, <2>1, <2>2 DEF IInv, RpcTypeOK
  <2>4. HandlersTypeOK' /\ \A c \in Clients : /\ client'[c].pc = client[c].pc
                                              /\ client'[c].job = client[c].job
    <3>. HIDE DEF who, msg
    <3>1. CASE who.kind = "client"
      <4>1. who.client \in Clients
        BY Zenon, <2>2, <3>1 DEF Waiting
      <4>2. [client[who.client] EXCEPT !.reply = {msg}] \in ClientState
        BY Zenon, <1>1, <4>1 DEF IInv, HandlersTypeOK, ClientState
      <4>3. client' = [client EXCEPT ![who.client] = [client[who.client] EXCEPT !.reply = {msg}]]
        BY Zenon, <2>1, <3>1, <4>1 DEF IInv, HandlersTypeOK
      <4>4. HandlersTypeOK'
        BY Zenon, <2>1, <3>1, <4>2, <4>3 DEF IInv, HandlersTypeOK
      <4>. QED  BY Zenon, <4>1, <4>3, <4>4 DEF IInv, HandlersTypeOK, ClientState
    <3>2. CASE who.kind # "client"
      <4>1. \A t \in DOMAIN callbacks : [callbacks[t] EXCEPT !.reply = {msg}] \in CallbackState
        BY Zenon, <1>1 DEF IInv, HandlersTypeOK, CallbackState
      <4>2. callbacks' = [callbacks EXCEPT ![who.task].reply = {msg}] /\ client' = client
        BY Zenon, <2>1, <3>2
      <4>3. /\ DOMAIN callbacks' = DOMAIN callbacks
            /\ callbacks' \in [DOMAIN callbacks -> CallbackState]
        BY Zenon, <4>1, <4>2 DEF IInv, HandlersTypeOK
      <4>. QED  BY Zenon, <4>2, <4>3 DEF IInv, HandlersTypeOK
    <3>. QED  BY Zenon, <3>1, <3>2
  <2>5. StateInv' /\ EndedTasksStay
    BY Zenon, <2>1, Frames DEF IInv
  <2>6. RequestsKnown'
    BY Zenon, <2>1, <2>4 DEF IInv, RequestsKnown, KnowsJob, stateVars
  <2>7. WorkersTypeOK' /\ IsFiniteSet(DOMAIN workers') /\ TakoTypeOK' /\ StreamTypeOK'
        /\ ProcessTypeOK'
    BY Zenon, <2>1, Frames DEF IInv
  <2>. QED  BY Zenon, <2>3, <2>4, <2>5, <2>6, <2>7 DEF Preserved, IInv
<1>. QED  BY Zenon, <1>2, <1>3
----------------------------------------------------------------------------
(* The stream server.                                                      *)

\* The registration of a stream keeps the invariant.
LEMMA RegisterInv ==
    ASSUME IInv, register_stream
    PROVE  Preserved
<1>. DEFINE msg == Head(control)
            answer == [type |-> "Registered"]
<1>1. msg \in Control /\ Tail(control) \in Seq(Control) /\ msg.type = "RegisterStream"
  BY Zenon, HeadTailProperties DEF register_stream, IInv, StreamTypeOK
<1>2. CASE msg.job \in registrations
  BY Zenon, <1>2, PanicInv DEF register_stream
<1>3. CASE msg.job \notin registrations
  <2>1. /\ control' = Tail(control)
        /\ registrations' = registrations \cup {msg.job}
        /\ client' = [client EXCEPT ![msg.client].reply = {answer}]
        /\ UNCHANGED <<stateVars, workers, told_canceled, callbacks, rpcVars, from_tako,
                       takoVars, processVars>>
    BY Zenon, <1>3 DEF register_stream
  <2>. HIDE DEF msg
  <2>2. msg.job \in Nat /\ msg.client \in Clients
    BY Zenon, <1>1 DEF Control
  <2>3. StreamTypeOK'
    BY Zenon, <1>1, <2>1, <2>2 DEF IInv, StreamTypeOK
  <2>4. answer \in Response
    BY Zenon DEF Response
  <2>. HIDE DEF answer
  <2>5. [client[msg.client] EXCEPT !.reply = {answer}] \in ClientState
    BY Zenon, <2>2, <2>4 DEF IInv, HandlersTypeOK, ClientState
  <2>6. client' = [client EXCEPT ![msg.client] = [client[msg.client] EXCEPT !.reply = {answer}]]
    BY Zenon, <2>1, <2>2 DEF IInv, HandlersTypeOK
  <2>7. HandlersTypeOK'
    BY Zenon, <2>1, <2>5, <2>6 DEF IInv, HandlersTypeOK
  <2>8. \A c \in Clients : client'[c].pc = client[c].pc /\ client'[c].job = client[c].job
    BY Zenon, <2>2, <2>6 DEF IInv, HandlersTypeOK, ClientState
  <2>9. RequestsKnown'
    BY Zenon, <2>1, <2>8 DEF IInv, RequestsKnown, KnowsJob, stateVars
  <2>10. /\ StateInv' /\ EndedTasksStay /\ RpcTypeOK' /\ WorkersTypeOK'
         /\ IsFiniteSet(DOMAIN workers') /\ TakoTypeOK' /\ ProcessTypeOK'
    BY Zenon, <2>1, Frames DEF IInv, rpcVars
  <2>. QED  BY Zenon, <2>3, <2>7, <2>9, <2>10 DEF Preserved, IInv
<1>. QED  BY Zenon, <1>2, <1>3

\* The removal of a stream keeps the invariant.
LEMMA UnregisterInv ==
    ASSUME IInv, unregister_stream
    PROVE  Preserved
<1>. DEFINE msg == Head(control)
<1>1. Tail(control) \in Seq(Control)
  BY Zenon, HeadTailProperties DEF unregister_stream, IInv, StreamTypeOK
<1>2. CASE msg.job \notin registrations
  BY Zenon, <1>2, PanicInv DEF unregister_stream
<1>3. CASE msg.job \in registrations
  <2>1. /\ control' = Tail(control)
        /\ registrations' = registrations \ {msg.job}
        /\ UNCHANGED <<stateVars, workers, handlerVars, rpcVars, from_tako, takoVars, processVars>>
    BY Zenon, <1>3 DEF unregister_stream
  <2>2. StreamTypeOK'
    BY Zenon, <1>1, <2>1 DEF IInv, StreamTypeOK
  <2>3. /\ StateInv' /\ EndedTasksStay /\ HandlersTypeOK' /\ RequestsKnown' /\ RpcTypeOK'
        /\ WorkersTypeOK' /\ IsFiniteSet(DOMAIN workers') /\ TakoTypeOK' /\ ProcessTypeOK'
    BY Zenon, <2>1, Frames DEF IInv, rpcVars, handlerVars, stateVars
  <2>. QED  BY Zenon, <2>2, <2>3 DEF Preserved, IInv
<1>. QED  BY Zenon, <1>2, <1>3
----------------------------------------------------------------------------
(* Tako.                                                                   *)

\* A step of tako changes its own variables and the two queues.
LEMMA TakoOnly ==
    ASSUME IInv, TakoTypeOK', RpcTypeOK',
           UNCHANGED <<stateVars, workers, handlerVars, streamVars, processVars>>
    PROVE  Preserved
<1>1. /\ StateInv' /\ EndedTasksStay /\ HandlersTypeOK' /\ RequestsKnown'
      /\ WorkersTypeOK' /\ IsFiniteSet(DOMAIN workers') /\ StreamTypeOK' /\ ProcessTypeOK'
  BY Zenon, Frames DEF IInv, handlerVars, stateVars
<1>. QED  BY Zenon, <1>1 DEF Preserved, IInv

\* What an answer of tako leaves alone keeps its part of the invariant.
LEMMA TakoAnswersType ==
    ASSUME IInv, NEW type, TakoAnswers(type), NEW msg \in FromTako,
           from_tako' = Append(from_tako, msg)
    PROVE  RpcTypeOK'
<1>1. Tail(to_tako) \in Seq(ToTako)
  BY Zenon, HeadTailProperties DEF TakoAnswers, IInv, RpcTypeOK
<1>. QED  BY <1>1 DEF TakoAnswers, IInv, RpcTypeOK

\* The answers of tako keep the invariant.
LEMMA TakoRequestInv ==
    ASSUME IInv, TakoRequest
    PROVE  Preserved
<1>1. ASSUME NEW type, TakoAnswers(type)
      PROVE  /\ Head(to_tako) \in ToTako /\ Head(to_tako).type = type
             /\ UNCHANGED <<stateVars, workers, handlerVars, streamVars, processVars>>
  BY Zenon, <1>1, HeadTailProperties DEF TakoAnswers, IInv, RpcTypeOK
<1>2. CASE TakoNewTasks
  <2>1. Head(to_tako).tasks \subseteq Nat
    BY <1>1, <1>2 DEF TakoNewTasks, ToTako
  <2>2. TakoTypeOK'
    BY Zenon, <1>2, <2>1 DEF TakoNewTasks, IInv, TakoTypeOK
  <2>3. [type |-> "NewTasksResponse"] \in FromTako
    BY Zenon DEF FromTako, Response
  <2>4. RpcTypeOK'
    BY Zenon, <1>2, <2>3, TakoAnswersType DEF TakoNewTasks
  <2>. QED  BY Zenon, <1>1, <1>2, <2>2, <2>4, TakoOnly DEF TakoNewTasks
<1>3. CASE TakoCancelTasks
  <2>. DEFINE tasks == Head(to_tako).tasks \cap DOMAIN tako_tasks
  <2>1. tasks \subseteq Nat
    BY Zenon DEF IInv, TakoTypeOK
  <2>2. TakoTypeOK'
    BY Zenon, <1>3 DEF TakoCancelTasks, IInv, TakoTypeOK, Remove
  <2>3. [type |-> "CancelTasksResponse", tasks |-> tasks] \in FromTako
    BY Zenon, <2>1 DEF FromTako, Response
  <2>4. RpcTypeOK'
    BY Zenon, <1>3, <2>3, TakoAnswersType DEF TakoCancelTasks
  <2>. QED  BY Zenon, <1>1, <1>3, <2>2, <2>4, TakoOnly DEF TakoCancelTasks
<1>4. CASE TakoCancelFails
  <2>1. TakoTypeOK'
    BY <1>4 DEF TakoCancelFails, IInv, TakoTypeOK
  <2>2. [type |-> "Error"] \in FromTako
    BY Zenon DEF FromTako, Response
  <2>3. RpcTypeOK'
    BY Zenon, <1>4, <2>2, TakoAnswersType DEF TakoCancelFails
  <2>. QED  BY Zenon, <1>1, <1>4, <2>1, <2>3, TakoOnly DEF TakoCancelFails
<1>5. CASE TakoStopWorker
  <2>1. TakoTypeOK'
    BY Zenon, <1>5, Frames DEF TakoStopWorker, IInv
  <2>2. [type |-> "Error"] \in FromTako /\ [type |-> "WorkerStopped"] \in FromTako
    BY Zenon DEF FromTako, Response
  <2>3. \/ from_tako' = Append(from_tako, [type |-> "Error"])
        \/ from_tako' = Append(from_tako, [type |-> "WorkerStopped"])
    BY Zenon, <1>5 DEF TakoStopWorker
  <2>4. RpcTypeOK'
    BY Zenon, <1>5, <2>2, <2>3, TakoAnswersType DEF TakoStopWorker
  <2>. QED  BY Zenon, <1>1, <1>5, <2>1, <2>4, TakoOnly DEF TakoStopWorker
<1>. QED  BY Zenon, <1>2, <1>3, <1>4, <1>5 DEF TakoRequest

\* What a report of tako leaves alone keeps its part of the invariant.
LEMMA TakoReportsInv ==
    ASSUME IInv, TakoTypeOK', NEW msg \in FromTako, TakoReports(msg)
    PROVE  Preserved
<1>1. RpcTypeOK'
  BY DEF TakoReports, IInv, RpcTypeOK, rpcVars
<1>. QED  BY Zenon, <1>1, TakoOnly DEF TakoReports

\* The reports of tako keep the invariant.
LEMMA TakoEventInv ==
    ASSUME IInv, TakoEvent
    PROVE  Preserved
<1>1. ASSUME NEW w \in Workers, TakoWorkerConnects(w)
      PROVE  Preserved
  <2>1. TakoTypeOK'
    BY Zenon, <1>1 DEF TakoWorkerConnects, TakoReports, IInv, TakoTypeOK
  <2>2. [type |-> "NewWorker", worker |-> w] \in FromTako
    BY Zenon DEF FromTako
  <2>. QED  BY Zenon, <1>1, <2>1, <2>2, TakoReportsInv DEF TakoWorkerConnects
<1>2. ASSUME NEW w \in Workers, TakoWorkerLost(w)
      PROVE  Preserved
  <2>1. TakoTypeOK'
    BY Zenon, <1>2 DEF TakoWorkerLost, TakoReports, IInv, TakoTypeOK
  <2>2. RunningOn(w) \subseteq Nat
    BY Zenon DEF RunningOn, IInv, TakoTypeOK
  <2>3. [type |-> "LostWorker", worker |-> w, tasks |-> RunningOn(w)] \in FromTako
    BY Zenon, <2>2 DEF FromTako
  <2>. QED  BY Zenon, <1>2, <2>1, <2>3, TakoReportsInv DEF TakoWorkerLost
<1>3. ASSUME NEW t \in DOMAIN tako_tasks
      PROVE  t \in Nat /\ tako_tasks[t] \in Workers \cup {Ready}
  BY Zenon DEF IInv, TakoTypeOK
<1>4. ASSUME NEW t \in DOMAIN tako_tasks, NEW w \in Workers, TakoTaskStarts(t, w)
      PROVE  Preserved
  <2>1. TakoTypeOK'
    BY Zenon, <1>4 DEF TakoTaskStarts, TakoReports, IInv, TakoTypeOK
  <2>2. [type |-> "Running", task |-> t, worker |-> w] \in FromTako
    BY Zenon, <1>3 DEF FromTako
  <2>. QED  BY Zenon, <1>4, <2>1, <2>2, TakoReportsInv DEF TakoTaskStarts
<1>5. ASSUME NEW t \in DOMAIN tako_tasks, TakoTaskStartsAgain(t)
      PROVE  Preserved
  <2>1. TakoTypeOK'
    BY Zenon, <1>5 DEF TakoTaskStartsAgain, TakoReports, IInv, TakoTypeOK
  <2>2. tako_tasks[t] \in Workers
    BY Zenon, <1>3, <1>5 DEF TakoTaskStartsAgain
  <2>3. [type |-> "Running", task |-> t, worker |-> tako_tasks[t]] \in FromTako
    BY Zenon, <1>3, <2>2 DEF FromTako
  <2>. QED  BY Zenon, <1>5, <2>1, <2>3, TakoReportsInv DEF TakoTaskStartsAgain
<1>6. ASSUME NEW t \in DOMAIN tako_tasks, TakoTaskReturns(t)
      PROVE  Preserved
  <2>1. TakoTypeOK'
    BY Zenon, <1>6 DEF TakoTaskReturns, TakoReports, IInv, TakoTypeOK
  <2>2. [type |-> "Waiting", task |-> t] \in FromTako
    BY Zenon, <1>3 DEF FromTako
  <2>. QED  BY Zenon, <1>6, <2>1, <2>2, TakoReportsInv DEF TakoTaskReturns
<1>7. ASSUME NEW t \in DOMAIN tako_tasks, TakoTaskEnds(t)
      PROVE  Preserved
  <2>1. PICK type \in {"Finished", "TaskFailed"} : TakoReports([type |-> type, task |-> t])
    BY Zenon, <1>7 DEF TakoTaskEnds
  <2>2. TakoTypeOK'
    BY Zenon, <1>7, <2>1 DEF TakoTaskEnds, TakoReports, IInv, TakoTypeOK, Remove
  <2>3. [type |-> type, task |-> t] \in FromTako
    BY Zenon, <1>3, <2>1 DEF FromTako
  <2>. QED  BY Zenon, <2>1, <2>2, <2>3, TakoReportsInv
<1>. QED  BY Zenon, <1>1, <1>2, <1>4, <1>5, <1>6, <1>7 DEF TakoEvent
----------------------------------------------------------------------------
(* Connections of clients.                                                 *)

\* A connection that breaks keeps the invariant.
LEMMA ConnectionLostInv ==
    ASSUME IInv, NEW c \in Clients, connection_lost(c)
    PROVE  Preserved
<1>1. ProcessTypeOK'
  BY Zenon DEF connection_lost, IInv, ProcessTypeOK
<1>2. /\ StateInv' /\ EndedTasksStay /\ HandlersTypeOK' /\ RequestsKnown' /\ RpcTypeOK'
      /\ WorkersTypeOK' /\ IsFiniteSet(DOMAIN workers') /\ TakoTypeOK' /\ StreamTypeOK'
  BY Zenon, Frames DEF connection_lost, IInv, rpcVars, handlerVars, stateVars
<1>. QED  BY Zenon, <1>1, <1>2 DEF Preserved, IInv

\* The end of the task of a connection keeps the invariant.
LEMMA ConnectionEndedInv ==
    ASSUME IInv, NEW c \in Clients, connection_ended(c)
    PROVE  Preserved
<1>1. HandlersTypeOK /\ ProcessTypeOK /\ Answer(c) /\ callbacks' = callbacks
      /\ broken' \subseteq broken
  BY Zenon DEF connection_ended, IInv
<1>2. /\ HandlersTypeOK' /\ ProcessTypeOK' /\ KnowsJob(client'[c], {})
      /\ \A d \in Clients \ {c} : client'[d] = client[d]
  BY Zenon, <1>1, AnswerInv
<1>3. /\ StateInv' /\ EndedTasksStay /\ RpcTypeOK'
      /\ WorkersTypeOK' /\ IsFiniteSet(DOMAIN workers') /\ TakoTypeOK' /\ StreamTypeOK'
  BY Zenon, Frames DEF connection_ended, IInv, rpcVars
<1>4. RequestsKnown'
  BY Zenon, <1>2 DEF connection_ended, IInv, RequestsKnown, KnowsJob, stateVars
<1>. QED  BY Zenon, <1>2, <1>3, <1>4 DEF Preserved, IInv
----------------------------------------------------------------------------
(* The lists of jobs and workers a request works through.                  *)

\* An ordering of a set is a sequence over that set.
LEMMA OrderingsType ==
    ASSUME NEW S, IsFiniteSet(S), S \subseteq Nat \cup Workers, NEW s \in Orderings(S)
    PROVE  s \in Todo
<1>1. Cardinality(S) \in Nat
  BY Zenon, FS_CardinalityType
<1>2. s \in [1 .. Cardinality(S) -> Nat \cup Workers]
  BY Zenon DEF Orderings
<1>. QED  BY <1>1, <1>2 DEF Todo

\* last_n_ids returns a sequence of ids.
LEMMA LastIdsType ==
    ASSUME IInv, NEW n \in Nat
    PROVE  last_n_ids(n) \in Todo
<1>. DEFINE m == Min({n, job_id_counter - 1})
<1>1. job_id_counter \in Nat /\ job_id_counter >= 1
  BY Zenon DEF IInv, StateInv, StateTypeOK, RangesOK
<1>2. m \in {n, job_id_counter - 1} /\ m <= job_id_counter - 1
  BY <1>1, MinNatural
<1>3. m \in Nat
  BY <1>1, <1>2
<1>. HIDE DEF m
<1>4. \A i \in 1 .. m : job_id_counter - m + i - 1 \in Nat
  BY <1>1, <1>2, <1>3
<1>5. [i \in 1 .. m |-> job_id_counter - m + i - 1] \in [1 .. m -> Nat \cup Workers]
  BY Zenon, <1>4
<1>6. [i \in 1 .. m |-> job_id_counter - m + i - 1] \in Todo
  BY <1>3, <1>5 DEF Todo
<1>. QED  BY Zenon, <1>6 DEF last_n_ids, m

\* Every selector of a cancel stands for a sequence of ids.
LEMMA JobIdsType ==
    ASSUME IInv, NEW todo \in JobIds
    PROVE  todo \in Todo
<1>1. CASE todo \in Selections
  <2>1. todo \in Seq(Nat)
    BY Zenon, <1>1, BoundsAssumption
  <2>. QED  BY Zenon, <2>1, SeqMonotonic DEF Todo
<1>2. CASE todo \in {last_n_ids(n) : n \in LastNs}
  BY Zenon, <1>2, LastIdsType, BoundsAssumption
<1>3. CASE todo \in Orderings({j \in DOMAIN jobs : job_status(jobs[j]) \in NonFinished})
  <2>. DEFINE S == {j \in DOMAIN jobs : job_status(jobs[j]) \in NonFinished}
  <2>1. S \subseteq DOMAIN jobs
    BY Zenon
  <2>2. DOMAIN jobs = 1 .. (job_id_counter - 1) /\ job_id_counter \in Nat
    BY Zenon DEF IInv, StateInv, StateTypeOK, RangesOK
  <2>3. IsFiniteSet(1 .. (job_id_counter - 1))
    BY <2>2, FS_Interval
  <2>. HIDE DEF S
  <2>4. IsFiniteSet(S)
    BY Zenon, <2>1, <2>2, <2>3, FS_Subset
  <2>5. S \subseteq Nat \cup Workers
    BY Zenon, <2>1 DEF IInv, StateInv, StateTypeOK
  <2>6. todo \in Orderings(S)
    BY Zenon, <1>3 DEF S
  <2>. QED  BY Zenon, <2>4, <2>5, <2>6, OrderingsType
<1>. QED  BY Zenon, <1>1, <1>2, <1>3 DEF JobIds

\* Every selector of a stop stands for a sequence of workers.
LEMMA WorkerIdsType ==
    ASSUME IInv, NEW todo \in {<<w>> : w \in Workers} \cup Orderings(Online)
    PROVE  todo \in Todo
<1>1. CASE todo \in {<<w>> : w \in Workers}
  <2>1. PICK w \in Workers : todo = <<w>>
    BY Zenon, <1>1
  <2>2. <<w>> \in Seq(Workers)
    OBVIOUS
  <2>3. <<w>> \in Seq(Nat \cup Workers)
    BY Zenon, <2>2, SeqMonotonic
  <2>. QED  BY Zenon, <2>1, <2>3 DEF Todo
<1>2. CASE todo \in Orderings(Online)
  <2>1. Online \subseteq DOMAIN workers /\ Online \subseteq Nat \cup Workers
    BY Zenon DEF Online, IInv, WorkersTypeOK
  <2>2. IsFiniteSet(Online)
    BY Zenon, <2>1, FS_Subset DEF IInv
  <2>. QED  BY Zenon, <1>2, <2>1, <2>2, OrderingsType
<1>. QED  BY Zenon, <1>1, <1>2

\* Every request of a client keeps the invariant.
LEMMA RequestInv ==
    ASSUME IInv, NEW c \in Clients, Request(c)
    PROVE  Preserved
<1>1. ASSUME NEW spec \in JobSpecs, handle_submit(c, spec)
      PROVE  Preserved
  <2>1. IsSpec(spec)
    BY Zenon, JobSpecsAssumption DEF IsSpec
  <2>. QED  BY Zenon, <1>1, <2>1, SubmitInv
<1>2. ASSUME NEW j \in DOMAIN jobs, NEW filter \in Filters, handle_resubmit(c, j, filter)
      PROVE  Preserved
  BY Zenon, <1>2, ResubmitInv
<1>3. ASSUME NEW todo \in JobIds, handle_job_cancel(c, todo)
      PROVE  Preserved
  BY Zenon, <1>3, JobIdsType, JobCancelInv
<1>4. ASSUME NEW todo \in {<<w>> : w \in Workers} \cup Orderings(Online),
             handle_worker_stop(c, todo)
      PROVE  Preserved
  BY Zenon, <1>4, WorkerIdsType, WorkerStopInv
<1>. QED  BY Zenon, <1>1, <1>2, <1>3, <1>4 DEF Request
----------------------------------------------------------------------------
(* The theorems.                                                           *)

\* StateRef::new and Backend::start begin in the invariant.
LEMMA InitInv == Init => IInv
<1>. SUFFICES ASSUME Init  PROVE  IInv
  BY Zenon
<1>1. DOMAIN jobs = {} /\ DOMAIN base_task_id_to_job_id = {} /\ jobs = [j \in DOMAIN jobs |-> jobs[j]]
  BY Zenon DEF Init
<1>2. StateTypeOK
  BY Zenon, <1>1 DEF Init, StateTypeOK
<1>3. RangesOK
  BY <1>1 DEF Init, RangesOK
<1>4. HandlersTypeOK /\ RequestsKnown
  <2>1. client = [c \in Clients |-> Idle] /\ callbacks = [t \in {} |-> 0]
    BY Zenon DEF Init
  <2>2. \A c \in Clients : client[c] = Idle
    BY Zenon, <2>1
  <2>3. client \in [Clients -> ClientState]
    BY Zenon, <2>1, IdleType
  <2>4. Idle.pc = "idle"
    BY Zenon DEF Idle
  <2>. QED  BY Zenon, <2>1, <2>2, <2>3, <2>4 DEF HandlersTypeOK, RequestsKnown, KnowsJob
<1>5. RpcTypeOK /\ StreamTypeOK
  BY DEF Init, RpcTypeOK, StreamTypeOK
<1>6. WorkersTypeOK /\ TakoTypeOK
  BY Zenon DEF Init, WorkersTypeOK, TakoTypeOK
<1>7. IsFiniteSet(DOMAIN workers)
  <2>1. DOMAIN workers = {}
    BY Zenon DEF Init
  <2>. QED  BY Zenon, <2>1, FS_EmptySet
<1>. QED  BY Zenon, <1>1, <1>2, <1>3, <1>4, <1>5, <1>6, <1>7 DEF IInv, StateInv, Init, ProcessTypeOK

\* Every step keeps the invariant and the tasks that have ended.
LEMMA NextInv == IInv /\ [Next]_vars => Preserved
<1>. SUFFICES ASSUME IInv, [Next]_vars  PROVE  Preserved
  BY Zenon
<1>1. CASE Reader
  BY Zenon, <1>1, RunningInv, FinishedInv, WaitingInv, FailedInv, WorkerNewInv, WorkerLostInv,
     DeliverInv DEF Reader
<1>2. CASE StreamServer
  BY Zenon, <1>2, RegisterInv, UnregisterInv DEF StreamServer
<1>3. CASE TakoRequest
  BY Zenon, <1>3, TakoRequestInv
<1>4. CASE TakoEvent
  BY Zenon, <1>4, TakoEventInv
<1>5. ASSUME NEW c \in Clients, Request(c) \/ Resume(c) \/ connection_lost(c)
                                   \/ connection_ended(c)
      PROVE  Preserved
  BY Zenon, <1>5, RequestInv, SubmitRegisteredInv, SubmitFinishedInv, CancelAnsweredInv,
     StopAnsweredInv, ConnectionLostInv, ConnectionEndedInv DEF Resume
<1>6. ASSUME NEW t \in DOMAIN callbacks, Callback(t)
      PROVE  Preserved
  BY Zenon, <1>6, CallbackSendInv, CallbackAnsweredInv DEF Callback
<1>7. CASE UNCHANGED vars
  BY Zenon, <1>7, Frames DEF vars, IInv, Preserved, stateVars, handlerVars, rpcVars, takoVars, streamVars,
     processVars
<1>. QED  BY Zenon, <1>1, <1>2, <1>3, <1>4, <1>5, <1>6, <1>7 DEF Next

\* The inductive invariant holds in every reachable state of the server.
THEOREM Invariant == Spec => []IInv
<1>1. IInv /\ [Next]_vars => IInv'
  BY Zenon, NextInv DEF Preserved
<1>. QED  BY InitInv, <1>1, PTL DEF Spec

\* Every variable keeps its type, for any number of clients, workers and jobs.
THEOREM TypeCorrect == Spec => []TypeOK
<1>1. IInv => TypeOK
  BY Zenon DEF IInv, StateInv, TypeOK, ProcessTypeOK
<1>. QED  BY Invariant, <1>1, PTL

\* The counters of every job (JobTaskCounters) are the numbers of its tasks in
\* each state, and n_waiting_tasks is the number of tasks that wait, after any
\* sequence of submits, cancels, reports, lost workers and failures.
THEOREM CountersCorrect == Spec => []CountersMatch
<1>1. IInv => CountersMatch
  <2>. SUFFICES ASSUME IInv  PROVE  CountersMatch
    BY Zenon
  <2>1. \A j \in DOMAIN jobs : JobInv(jobs[j])
    BY Zenon, JobOfState
  <2>. QED  BY Zenon, <2>1, WaitingCount DEF CountersMatch, JobInv
<1>. QED  BY Invariant, <1>1, PTL

\* get_job_mut_by_tako_task_id finds the one job that owns a task id, and none
\* for an id that no job owns.
THEOREM LookupCorrect == Spec => []LookupFindsOwner
<1>1. IInv => LookupFindsOwner
  <2>. SUFFICES ASSUME IInv, NEW id \in 0 .. task_id_counter
                PROVE  LET owners == {j \in DOMAIN jobs : id \in DOMAIN jobs[j].tasks}
                       IN  IF owners = {} THEN get_job_by_tako_task_id(id) = NoJob
                                          ELSE owners = {get_job_by_tako_task_id(id)}
    BY Zenon DEF LookupFindsOwner
  <2>. DEFINE owners == {j \in DOMAIN jobs : id \in DOMAIN jobs[j].tasks}
  <2>1. id \in Nat
    BY DEF IInv, StateInv, StateTypeOK
  <2>2. CASE owners = {}
    BY Zenon, <2>1, <2>2, LookupSound DEF IInv
  <2>3. CASE owners # {}
    <3>1. \A j \in owners : get_job_by_tako_task_id(id) = j
      BY Zenon, LookupComplete DEF IInv
    <3>. QED  BY Zenon, <2>3, <3>1
  <2>. QED  BY Zenon, <2>2, <2>3
<1>. QED  BY Invariant, <1>1, PTL

\* A task that finished, failed or was canceled keeps that state in every step,
\* whatever report, lost worker or cancel is processed.
THEOREM TerminalFinal == Spec => TerminalIsFinal
<1>1. IInv /\ [Next]_vars => EndedTasksStay
  BY Zenon, NextInv DEF Preserved
<1>. QED  BY Invariant, <1>1, PTL DEF Spec, TerminalIsFinal, EndedTasksStay
============================================================================
