-------------------------- MODULE AgreementProofs --------------------------
(***************************************************************************)
(* What the server believes of tasks and workers, what tako knows of them, *)
(* and the reports on their way between the two.                           *)
(*                                                                         *)
(* The last part is on the messages to the stream server: the streams of   *)
(* the jobs with a log are registered and unregistered once (StreamInv).   *)
(***************************************************************************)
EXTENDS ServerInv, TLAPS

\* Most of the leaves are first-order: Zenon, unless a leaf cites SMT.
USE Zenon

----------------------------------------------------------------------------
(* Views.                                                                  *)

\* A report changes only tasks that tako holds, and a task still runs on a
\* worker that is connected.
LEMMA AdvancesGood ==
    ASSUME NEW v \in View, NEW u \in View, NEW msg \in FromTako, Advances(msg, v, u)
    PROVE  Later(v, u) /\ (Plausible(v) => Plausible(u))
<1>0. /\ v.task \in [Nat -> {"waiting", "running", "canceling", "gone"}]
      /\ v.on \in [Nat -> Workers \cup {NoWorker}]
      /\ v.worker \in [Workers -> {"unused", "connected", "lost"}]
  BY DEF View
<1>1. CASE msg.type = "Running"
  <2>1. msg.task \in Nat /\ msg.worker \in Workers
    BY <1>1 DEF FromTako, Response
  <2>2. /\ Moves(v, u, {msg.task}, Held, "running") /\ v.worker[msg.worker] = "connected"
        /\ u.on = [v.on EXCEPT ![msg.task] = msg.worker] /\ u.worker = v.worker
    BY <1>1 DEF Advances
  <2>. QED  BY SMT, <1>0, <2>1, <2>2 DEF Moves, Held, Later, Plausible
<1>2. CASE msg.type \in {"Waiting", "Finished", "TaskFailed", "CancelTasksResponse"}
  <2>1. PICK ids, to : /\ Moves(v, u, ids, Held, to) /\ to \in {"waiting", "gone", "canceling"}
                       /\ u.on = v.on /\ u.worker = v.worker
    <3>1. CASE msg.type = "Waiting"
      <4>1. /\ Moves(v, u, {msg.task}, {"running"}, "waiting")
            /\ u.on = v.on /\ u.worker = v.worker
        BY <3>1 DEF Advances
      <4>2. Moves(v, u, {msg.task}, Held, "waiting")
        BY SMT, <4>1 DEF Moves, Held
      <4>. QED  BY SMT, <4>1, <4>2
    <3>2. CASE msg.type \in {"Finished", "TaskFailed"}
      <4>1. /\ Moves(v, u, {msg.task}, {"running"}, "gone")
            /\ u.on = v.on /\ u.worker = v.worker
        BY <3>2 DEF Advances
      <4>2. Moves(v, u, {msg.task}, Held, "gone")
        BY SMT, <4>1 DEF Moves, Held
      <4>. QED  BY SMT, <4>1, <4>2
    <3>3. CASE msg.type = "CancelTasksResponse"
      BY <3>3 DEF Advances
    <3>. QED  BY SMT, <1>2, <3>1, <3>2, <3>3
  <2>. QED  BY SMT, <1>0, <2>1 DEF Moves, Held, Later, Plausible
<1>3. CASE msg.type = "NewWorker"
  <2>1. msg.worker \in Workers
    BY <1>3 DEF FromTako, Response
  <2>2. /\ v.worker[msg.worker] = "unused" /\ u.task = v.task /\ u.on = v.on
        /\ u.worker = [v.worker EXCEPT ![msg.worker] = "connected"]
    BY <1>3 DEF Advances
  <2>. QED  BY SMT, <1>0, <2>1, <2>2 DEF Later, Plausible
<1>4. CASE msg.type = "LostWorker"
  <2>1. msg.worker \in Workers
    BY SMT, <1>4 DEF FromTako, Response
  <2>2. /\ msg.tasks = {t \in Nat : v.task[t] = "running" /\ v.on[t] = msg.worker}
        /\ Moves(v, u, msg.tasks, {"running"}, "waiting")
        /\ u.on = v.on
        /\ u.worker = [v.worker EXCEPT ![msg.worker] = "lost"]
    BY <1>4 DEF Advances
  <2>. QED  BY SMT, <1>0, <2>1, <2>2 DEF Moves, Held, Later, Plausible
<1>5. CASE msg.type \in {"NewTasksResponse", "WorkerStopped", "Error", "Registered"}
  <2>1. u = v
    BY <1>5 DEF Advances
  <2>. QED  BY <2>1 DEF Later
<1>6. msg.type \in {"Running", "Waiting", "Finished", "TaskFailed", "CancelTasksResponse", "NewWorker",
                    "LostWorker", "NewTasksResponse", "WorkerStopped", "Error", "Registered"}
  BY DEF FromTako, Response
<1>. QED  BY <1>1, <1>2, <1>3, <1>4, <1>5, <1>6

\* The ends of a sequence of views.
LEMMA TraceEnds ==
    ASSUME NEW V, NEW queue \in Seq(FromTako), Trace(V, queue)
    PROVE  /\ Len(queue) \in Nat /\ 0 \in 0 .. Len(queue) /\ Len(queue) \in 0 .. Len(queue)
           /\ \A k \in 0 .. Len(queue) : V[k] \in View /\ Plausible(V[k])
           /\ \A k, l \in 0 .. Len(queue) : k <= l => Later(V[k], V[l])
           /\ Later(V[0], V[Len(queue)])
<1>1. /\ Len(queue) \in Nat /\ 0 \in 0 .. Len(queue) /\ Len(queue) \in 0 .. Len(queue)
      /\ 0 <= Len(queue)
  BY SMT
<1>2. \A k \in 0 .. Len(queue) : V[k] \in View /\ Plausible(V[k])
  BY SMT DEF Trace
<1>3. \A k, l \in 0 .. Len(queue) : k <= l => Later(V[k], V[l])
  BY SMT DEF Trace
<1>. QED  BY <1>1, <1>2, <1>3

\* A task that tako does not hold stays so.
LEMMA LaterTrans ==
    ASSUME NEW v, NEW u, NEW w, Later(v, u), Later(u, w)
    PROVE  Later(v, w)
  BY DEF Later

\* A report is added at the end.
LEMMA TraceAppend ==
    ASSUME NEW V, NEW queue \in Seq(FromTako), Trace(V, queue), NEW msg \in FromTako,
           NEW u \in View, Advances(msg, V[Len(queue)], u)
    PROVE  /\ Trace(Extend(V, queue, u), Append(queue, msg))
           /\ Extend(V, queue, u)[0] = V[0]
           /\ Extend(V, queue, u)[Len(Append(queue, msg))] = u
<1>. DEFINE W == Extend(V, queue, u)
            n == Len(queue)
            queue2 == Append(queue, msg)
<1>1. /\ n \in Nat /\ Len(queue2) = n + 1 /\ queue2[n + 1] = msg
      /\ \A k \in 1 .. n : queue2[k] = queue[k]
  BY SMT
<1>2. /\ \A k \in 0 .. n : V[k] \in View /\ Plausible(V[k])
      /\ \A k, l \in 0 .. n : k <= l => Later(V[k], V[l])
      /\ \A k \in 1 .. n : Advances(queue[k], V[k - 1], V[k])
      /\ n \in 0 .. n
  BY SMT, TraceEnds DEF Trace
<1>3. W = [k \in 0 .. n + 1 |-> IF k <= n THEN V[k] ELSE u]
  BY SMT DEF Extend
<1>. HIDE DEF W, n, queue2
<1>4. (\A k \in 0 .. n : W[k] = V[k]) /\ W[n + 1] = u
  BY SMT, <1>1, <1>3
<1>5. W \in [0 .. n + 1 -> View]
  <2>1. \A k \in 0 .. n + 1 : (IF k <= n THEN V[k] ELSE u) \in View
    BY SMT, <1>1, <1>2
  <2>. QED  BY SMT, <1>3, <2>1
<1>6. Later(V[n], u) /\ Plausible(u)
  BY <1>2, AdvancesGood DEF n
<1>7. \A k \in 0 .. n : Later(V[k], u)
  BY SMT, <1>1, <1>2, <1>6, LaterTrans
<1>8. Later(u, u)
  BY DEF Later
<1>9. ASSUME NEW k \in 1 .. n + 1  PROVE  Advances(queue2[k], W[k - 1], W[k])
  <2>1. CASE k \in 1 .. n
    <3>1. k - 1 \in 0 .. n /\ k \in 0 .. n
      BY SMT, <1>1, <2>1
    <3>. QED  BY <1>1, <1>2, <1>4, <2>1, <3>1
  <2>2. CASE k = n + 1
    <3>1. k - 1 = n
      BY SMT, <1>1, <2>2
    <3>2. Advances(msg, V[n], u)
      BY SMT DEF n
    <3>. QED  BY SMT, <1>1, <1>2, <1>4, <2>2, <3>1, <3>2
  <2>. QED  BY SMT, <1>1, <2>1, <2>2
<1>10. \A k \in 0 .. n + 1 : k \in 0 .. n \/ k = n + 1
  BY SMT, <1>1
<1>11. \A k \in 0 .. n + 1 : Plausible(W[k])
  BY <1>2, <1>4, <1>6, <1>10
<1>12. ASSUME NEW k \in 0 .. n + 1, NEW l \in 0 .. n + 1, k <= l  PROVE  Later(W[k], W[l])
  <2>1. CASE k \in 0 .. n /\ l \in 0 .. n
    BY <1>2, <1>4, <1>12, <2>1
  <2>2. CASE k \in 0 .. n /\ l = n + 1
    BY SMT, <1>4, <1>7, <2>2
  <2>3. CASE k = n + 1 /\ l = n + 1
    BY <1>4, <1>8, <2>3
  <2>. QED  BY SMT, <1>1, <1>10, <1>12, <2>1, <2>2, <2>3
<1>13. Trace(W, queue2)
  BY <1>1, <1>5, <1>9, <1>11, <1>12 DEF Trace
<1>14. W[0] = V[0]
  BY SMT, <1>1, <1>4
<1>. QED  BY SMT, <1>1, <1>4, <1>13, <1>14 DEF W, queue2

\* The first report is read.
LEMMA TraceTail ==
    ASSUME NEW V, NEW queue \in Seq(FromTako), Trace(V, queue), queue # <<>>
    PROVE  /\ Trace(Shift(V, queue), Tail(queue))
           /\ Shift(V, queue)[0] = V[1]
           /\ Shift(V, queue)[Len(Tail(queue))] = V[Len(queue)]
           /\ Advances(Head(queue), V[0], V[1])
           /\ V[0] \in View /\ V[1] \in View
<1>. DEFINE W == Shift(V, queue)
            n == Len(queue)
            queue2 == Tail(queue)
<1>1. /\ n \in Nat \ {0} /\ Len(queue2) = n - 1 /\ Head(queue) = queue[1]
      /\ \A k \in 1 .. n - 1 : queue2[k] = queue[k + 1]
  BY SMT
<1>2. /\ \A k \in 0 .. n : V[k] \in View /\ Plausible(V[k])
      /\ \A k, l \in 0 .. n : k <= l => Later(V[k], V[l])
      /\ \A k \in 1 .. n : Advances(queue[k], V[k - 1], V[k])
  BY TraceEnds DEF Trace
<1>3. W = [k \in 0 .. n - 1 |-> V[k + 1]]
  BY SMT DEF Shift
<1>. HIDE DEF W, n, queue2
<1>4. \A k \in 0 .. n - 1 : k + 1 \in 0 .. n /\ W[k] = V[k + 1]
  BY SMT, <1>1, <1>3
<1>5. W \in [0 .. n - 1 -> View] /\ \A k \in 0 .. n - 1 : Plausible(W[k])
  BY <1>2, <1>3, <1>4
<1>6. ASSUME NEW k \in 1 .. n - 1  PROVE  Advances(queue2[k], W[k - 1], W[k])
  <2>1. k \in 0 .. n - 1 /\ k - 1 \in 0 .. n - 1 /\ (k - 1) + 1 = k /\ k + 1 \in 1 .. n /\ (k + 1) - 1 = k
    BY SMT, <1>1
  <2>2. W[k - 1] = V[k] /\ W[k] = V[k + 1]
    BY SMT, <1>4, <2>1
  <2>3. Advances(queue[k + 1], V[k], V[k + 1])
    BY SMT, <1>2, <2>1
  <2>. QED  BY SMT, <1>1, <2>2, <2>3
<1>7. ASSUME NEW k \in 0 .. n - 1, NEW l \in 0 .. n - 1, k <= l  PROVE  Later(W[k], W[l])
  <2>1. k + 1 <= l + 1
    BY SMT, <1>1, <1>7
  <2>. QED  BY <1>2, <1>4, <2>1
<1>8. Trace(W, queue2)
  BY <1>1, <1>5, <1>6, <1>7 DEF Trace
<1>9. 0 \in 0 .. n - 1 /\ n - 1 \in 0 .. n - 1 /\ 1 \in 1 .. n /\ (n - 1) + 1 = n /\ 0 + 1 = 1 /\ 1 - 1 = 0
      /\ 0 \in 0 .. n /\ 1 \in 0 .. n
  BY SMT, <1>1
<1>10. W[0] = V[1] /\ W[n - 1] = V[n]
  BY <1>4, <1>9
<1>11. Advances(queue[1], V[0], V[1]) /\ V[0] \in View /\ V[1] \in View
  BY <1>2, <1>9
<1>. QED  BY SMT, <1>1, <1>8, <1>10, <1>11 DEF W, n, queue2

\* Tasks that are in the same state s all the time, and not held, may as well be
\* in another state.
LEMMA TraceRelabel ==
    ASSUME NEW V, NEW queue \in Seq(FromTako), Trace(V, queue),
           NEW ids, NEW s, s \notin Held, NEW to \in {"waiting", "gone"},
           \A t \in ids : t \in Nat /\ \A k \in 0 .. Len(queue) : V[k].task[t] = s
    PROVE  /\ Trace(Relabelled(V, queue, ids, to), queue)
           /\ \A k \in 0 .. Len(queue) : Relabelled(V, queue, ids, to)[k] = Relabel(V[k], ids, to)
<1>. DEFINE W == Relabelled(V, queue, ids, to)
            n == Len(queue)
<1>1. /\ \A k \in 0 .. n : V[k] \in View /\ Plausible(V[k])
      /\ \A k, l \in 0 .. n : k <= l => Later(V[k], V[l])
      /\ \A k \in 1 .. n : Advances(queue[k], V[k - 1], V[k])
      /\ n \in Nat
  BY TraceEnds DEF Trace
<1>2. \A k \in 0 .. n : W[k] = Relabel(V[k], ids, to)
  BY SMT DEF Relabelled
<1>3. ASSUME NEW k \in 0 .. n
      PROVE  /\ V[k].task \in [Nat -> {"waiting", "running", "canceling", "gone"}]
             /\ V[k].on \in [Nat -> Workers \cup {NoWorker}]
             /\ V[k].worker \in [Workers -> {"unused", "connected", "lost"}]
             /\ W[k].on = V[k].on /\ W[k].worker = V[k].worker
             /\ W[k].task = [t \in Nat |-> IF t \in ids THEN to ELSE V[k].task[t]]
             /\ \A t \in Nat : W[k].task[t] = IF t \in ids THEN to ELSE V[k].task[t]
             /\ W[k] \in View
  <2>1. V[k] \in View
    BY <1>1
  <2>2. W[k] = [task |-> [t \in Nat |-> IF t \in ids THEN to ELSE V[k].task[t]],
                on |-> V[k].on, worker |-> V[k].worker]
    BY <1>2 DEF Relabel
  <2>3. [t \in Nat |-> IF t \in ids THEN to ELSE V[k].task[t]]
            \in [Nat -> {"waiting", "running", "canceling", "gone"}]
    BY SMT, <2>1 DEF View
  <2>. QED  BY SMT, <2>1, <2>2, <2>3 DEF View
<1>4. W \in [0 .. n -> View]
  BY <1>2, <1>3 DEF Relabelled
<1>5. \A t \in ids : t \in Nat /\ \A k \in 0 .. n : V[k].task[t] = s
  OBVIOUS
<1>. HIDE DEF W, n
<1>6. ASSUME NEW k \in 0 .. n  PROVE  Plausible(W[k])
  <2>1. Plausible(V[k])
    BY <1>1
  <2>2. /\ W[k].on = V[k].on /\ W[k].worker = V[k].worker
        /\ \A t \in Nat : W[k].task[t] = "running" => V[k].task[t] = "running"
    BY <1>3
  <2>. QED  BY SMT, <2>1, <2>2 DEF Plausible
<1>7. ASSUME NEW k \in 0 .. n, NEW l \in 0 .. n, k <= l  PROVE  Later(W[k], W[l])
  <2>1. Later(V[k], V[l])
    BY SMT, <1>1, <1>7
  <2>. QED  BY <1>3, <2>1 DEF Later
<1>8. ASSUME NEW k \in 1 .. n  PROVE  Advances(queue[k], W[k - 1], W[k])
  <2>. DEFINE p == k - 1
              msg == queue[k]
  <2>1. p \in 0 .. n /\ k \in 0 .. n
    BY SMT, <1>1
  <2>2. Advances(msg, V[p], V[k]) /\ msg \in FromTako
    BY SMT, <1>1 DEF n
  <2>. SUFFICES Advances(msg, W[p], W[k])
    BY DEF p, msg
  <2>. HIDE DEF p, msg
  <2>3. \A t \in Nat : V[p].task[t] \in Held => t \notin ids
    BY <1>5, <2>1
  <2>4. ASSUME NEW moved \in SUBSET Nat, NEW from, NEW st, from \subseteq Held,
               Moves(V[p], V[k], moved, from, st)
        PROVE  Moves(W[p], W[k], moved, from, st)
    <3>1. \A t \in moved : t \in Nat /\ V[p].task[t] \in from /\ t \notin ids
      BY <2>3, <2>4 DEF Moves
    <3>2. \A t \in moved : W[p].task[t] = V[p].task[t]
      BY <1>3, <2>1, <3>1
    <3>3. \A t \in Nat : V[k].task[t] = IF t \in moved THEN st ELSE V[p].task[t]
      BY SMT, <2>4 DEF Moves
    <3>4. \A t \in Nat : W[k].task[t] = IF t \in moved THEN st ELSE W[p].task[t]
      BY ZenonT(30), <1>3, <2>1, <3>1, <3>3
    <3>5. W[k].task = [t \in Nat |-> IF t \in moved THEN st ELSE W[p].task[t]]
      BY <1>3, <2>1, <3>4
    <3>. QED  BY <3>1, <3>2, <3>5 DEF Moves
  <2>5. /\ W[p].on = V[p].on /\ W[k].on = V[k].on
        /\ W[p].worker = V[p].worker /\ W[k].worker = V[k].worker
    BY <1>3, <2>1
  <2>6. \A t \in Nat : (W[p].task[t] = "running") <=> (V[p].task[t] = "running")
    BY <1>3, <2>1, <2>3 DEF Held
  <2>7. CASE msg.type = "Running"
    <3>1. msg.task \in Nat
      BY <2>2, <2>7 DEF FromTako, Response
    <3>2. Moves(V[p], V[k], {msg.task}, Held, "running")
      BY <2>2, <2>7 DEF Advances
    <3>3. Moves(W[p], W[k], {msg.task}, Held, "running")
      BY <2>4, <3>1, <3>2
    <3>4. /\ V[p].task[msg.task] = "running" => V[p].on[msg.task] = msg.worker
          /\ V[p].worker[msg.worker] = "connected"
          /\ V[k].on = [V[p].on EXCEPT ![msg.task] = msg.worker]
          /\ V[k].worker = V[p].worker
      BY <2>2, <2>7 DEF Advances
    <3>. QED  BY <2>5, <2>6, <2>7, <3>1, <3>3, <3>4 DEF Advances
  <2>8. CASE msg.type = "Waiting"
    <3>1. msg.task \in Nat
      BY <2>2, <2>8 DEF FromTako, Response
    <3>2. /\ Moves(V[p], V[k], {msg.task}, {"running"}, "waiting")
          /\ V[k].on = V[p].on /\ V[k].worker = V[p].worker
      BY <2>2, <2>8 DEF Advances
    <3>3. Moves(W[p], W[k], {msg.task}, {"running"}, "waiting")
      BY <2>4, <3>1, <3>2 DEF Held
    <3>. QED  BY <2>5, <2>8, <3>2, <3>3 DEF Advances
  <2>9. CASE msg.type \in {"Finished", "TaskFailed"}
    <3>1. msg.task \in Nat
      BY <2>2, <2>9 DEF FromTako, Response
    <3>2. /\ Moves(V[p], V[k], {msg.task}, {"running"}, "gone")
          /\ V[k].on = V[p].on /\ V[k].worker = V[p].worker
      BY <2>2, <2>9 DEF Advances
    <3>3. Moves(W[p], W[k], {msg.task}, {"running"}, "gone")
      BY <2>4, <3>1, <3>2 DEF Held
    <3>. QED  BY <2>5, <2>9, <3>2, <3>3 DEF Advances
  <2>10. CASE msg.type = "CancelTasksResponse"
    <3>1. msg.tasks \in SUBSET Nat
      BY <2>2, <2>10 DEF FromTako, Response
    <3>2. /\ Moves(V[p], V[k], msg.tasks, Held, "canceling")
          /\ V[k].on = V[p].on /\ V[k].worker = V[p].worker
      BY <2>2, <2>10 DEF Advances
    <3>3. Moves(W[p], W[k], msg.tasks, Held, "canceling")
      BY <2>4, <3>1, <3>2
    <3>. QED  BY <2>5, <2>10, <3>2, <3>3 DEF Advances
  <2>11. CASE msg.type = "NewWorker"
    <3>1. /\ V[p].worker[msg.worker] = "unused"
          /\ V[k].task = V[p].task /\ V[k].on = V[p].on
          /\ V[k].worker = [V[p].worker EXCEPT ![msg.worker] = "connected"]
      BY <2>2, <2>11 DEF Advances
    <3>2. W[k].task = W[p].task
      <4>1. /\ W[k].task = [t \in Nat |-> IF t \in ids THEN to ELSE V[k].task[t]]
            /\ W[p].task = [t \in Nat |-> IF t \in ids THEN to ELSE V[p].task[t]]
        BY <1>3, <2>1
      <4>. QED  BY <3>1, <4>1
    <3>. QED  BY SMT, <2>5, <2>11, <3>1, <3>2 DEF Advances
  <2>12. CASE msg.type = "LostWorker"
    <3>1. msg.tasks \in SUBSET Nat
      BY <2>2, <2>12 DEF FromTako, Response
    <3>2. /\ V[p].worker[msg.worker] = "connected"
          /\ msg.tasks = {t \in Nat : V[p].task[t] = "running" /\ V[p].on[t] = msg.worker}
          /\ Moves(V[p], V[k], msg.tasks, {"running"}, "waiting")
          /\ V[k].on = V[p].on
          /\ V[k].worker = [V[p].worker EXCEPT ![msg.worker] = "lost"]
      BY <2>2, <2>12 DEF Advances
    <3>3. Moves(W[p], W[k], msg.tasks, {"running"}, "waiting")
      BY <2>4, <3>1, <3>2 DEF Held
    <3>4. msg.tasks = {t \in Nat : W[p].task[t] = "running" /\ W[p].on[t] = msg.worker}
      BY SMT, <2>5, <2>6, <3>2
    <3>. QED  BY <2>5, <2>12, <3>2, <3>3, <3>4 DEF Advances
  <2>13. CASE msg.type \in {"NewTasksResponse", "WorkerStopped", "Error", "Registered"}
    <3>1. V[k] = V[p] /\ msg.type \in {"NewTasksResponse", "WorkerStopped", "Error"}
      BY <2>2, <2>13 DEF Advances
    <3>2. W[k] = W[p]
      BY SMT, <1>2, <2>1, <3>1
    <3>. QED  BY <3>1, <3>2 DEF Advances
  <2>14. msg.type \in {"Running", "Waiting", "Finished", "TaskFailed", "CancelTasksResponse", "NewWorker",
                       "LostWorker", "NewTasksResponse", "WorkerStopped", "Error", "Registered"}
    BY <2>2 DEF FromTako, Response
  <2>. QED  BY <2>7, <2>8, <2>9, <2>10, <2>11, <2>12, <2>13, <2>14
<1>9. Trace(W, queue)
  BY <1>4, <1>6, <1>7, <1>8 DEF Trace, n
<1>. QED  BY <1>2, <1>9 DEF W, n
----------------------------------------------------------------------------
(* Agreement after a step.                                                 *)

\* The server has read a report.
LEMMA ReadAgrees ==
    ASSUME NEW V, NEW queue \in Seq(FromTako), NEW js, NEW H, NEW ws, NEW held, NEW pending, NEW tws,
           Agrees(V, queue, js, H, ws, held, pending, tws), queue # <<>>,
           NEW js2, NEW G, NEW ws2,
           ServerTasks(V[1], js2), ServerHands(V[1], G), ServerWorkers(V[1], ws2)
    PROVE  Agrees(Shift(V, queue), Tail(queue), js2, G, ws2, held, pending, tws)
<1>1. Trace(V, queue) /\ TakoView(V[Len(queue)], held, pending) /\ V[Len(queue)].worker = tws
  BY DEF Agrees
<1>2. /\ Trace(Shift(V, queue), Tail(queue))
      /\ Shift(V, queue)[0] = V[1]
      /\ Shift(V, queue)[Len(Tail(queue))] = V[Len(queue)]
  BY <1>1, TraceTail
<1>. QED  BY <1>1, <1>2 DEF Agrees

\* Tako has sent a message.
LEMMA ReportAgrees ==
    ASSUME NEW V, NEW queue \in Seq(FromTako), NEW js, NEW H, NEW ws, NEW held, NEW pending, NEW tws,
           Agrees(V, queue, js, H, ws, held, pending, tws),
           NEW u \in View, NEW msg \in FromTako, Advances(msg, V[Len(queue)], u),
           NEW held2, NEW pending2, TakoView(u, held2, pending2)
    PROVE  Agrees(Extend(V, queue, u), Append(queue, msg), js, H, ws, held2, pending2, u.worker)
<1>1. /\ Trace(V, queue) /\ ServerTasks(V[0], js) /\ ServerHands(V[0], H)
      /\ ServerWorkers(V[0], ws)
  BY SMT DEF Agrees
<1>2. /\ Trace(Extend(V, queue, u), Append(queue, msg))
      /\ Extend(V, queue, u)[0] = V[0]
      /\ Extend(V, queue, u)[Len(Append(queue, msg))] = u
  BY SMT, <1>1, TraceAppend
<1>. QED  BY <1>1, <1>2 DEF Agrees

\* Tasks that tako does not hold have changed on the server.
LEMMA RelabelAgrees ==
    ASSUME NEW V, NEW queue \in Seq(FromTako), NEW js, NEW H, NEW ws, NEW held, NEW pending, NEW tws,
           Agrees(V, queue, js, H, ws, held, pending, tws),
           NEW ids, ids \subseteq Nat, NEW s, s \notin Held, NEW to \in {"waiting", "gone"},
           \A t \in ids : V[0].task[t] = s,
           NEW js2, ServerTasks(Relabel(V[0], ids, to), js2),
           NEW G, ServerHands(Relabel(V[0], ids, to), G),
           NEW pending2, TakoView(Relabel(V[Len(queue)], ids, to), held, pending2)
    PROVE  Agrees(Relabelled(V, queue, ids, to), queue, js2, G, ws, held, pending2, tws)
<1>1. /\ Trace(V, queue) /\ ServerWorkers(V[0], ws) /\ V[Len(queue)].worker = tws
  BY DEF Agrees
<1>2. \A t \in ids : t \in Nat /\ \A k \in 0 .. Len(queue) : V[k].task[t] = s
  <2>1. \A k \in 0 .. Len(queue) : Later(V[0], V[k])
    BY SMT, <1>1, TraceEnds
  <2>. QED  BY <2>1 DEF Later
<1>3. /\ Trace(Relabelled(V, queue, ids, to), queue)
      /\ \A k \in 0 .. Len(queue) : Relabelled(V, queue, ids, to)[k] = Relabel(V[k], ids, to)
  BY ONLY <1>1, <1>2, TraceRelabel, queue \in Seq(FromTako), s \notin Held, to \in {"waiting", "gone"}
<1>4. /\ Relabelled(V, queue, ids, to)[0] = Relabel(V[0], ids, to)
      /\ Relabelled(V, queue, ids, to)[Len(queue)] = Relabel(V[Len(queue)], ids, to)
  BY <1>1, <1>3, TraceEnds
<1>5. Relabel(V[0], ids, to).worker = V[0].worker /\ Relabel(V[Len(queue)], ids, to).worker = tws
  BY <1>1 DEF Relabel
<1>6. ServerWorkers(Relabel(V[0], ids, to), ws)
  BY SMT, <1>1, <1>5 DEF ServerWorkers
<1>. QED  BY <1>3, <1>4, <1>5, <1>6 DEF Agrees

\* At most the tasks ids of the job change.
Changed(job, job2, ids) ==
    /\ DOMAIN job2.tasks = DOMAIN job.tasks
    /\ job2.log = job.log
    /\ \A t \in DOMAIN job.tasks \ ids : job2.tasks[t] = job.tasks[t] /\ job2.worker[t] = job.worker[t]

TasksChanged(js, js2, ids) ==
    /\ DOMAIN js2 = DOMAIN js
    /\ \A j \in DOMAIN js : Changed(js[j], js2[j], ids)

\* The server's view follows when the tasks that change are seen right.
LEMMA SeenAfter ==
    ASSUME NEW v, NEW u, NEW js, NEW js2, NEW ids, ServerTasks(v, js), TasksChanged(js, js2, ids),
           \A j \in DOMAIN js : DOMAIN js[j].tasks \subseteq Nat,
           \A t \in Nat \ ids : u.task[t] = v.task[t] /\ u.on[t] = v.on[t],
           \A t \in ids : u.task[t] # "gone" => v.task[t] # "gone",
           \A j \in DOMAIN js : \A t \in ids \cap DOMAIN js[j].tasks :
               Seen(u.task[t], u.on[t], js2[j].tasks[t], js2[j].worker[t])
    PROVE  ServerTasks(u, js2)
<1>1. ASSUME NEW j \in DOMAIN js2, NEW t \in DOMAIN js2[j].tasks
      PROVE  Seen(u.task[t], u.on[t], js2[j].tasks[t], js2[j].worker[t])
  <2>1. j \in DOMAIN js /\ t \in DOMAIN js[j].tasks /\ t \in Nat
    BY SMT DEF TasksChanged, Changed
  <2>2. CASE t \in ids
    BY <2>1, <2>2
  <2>3. CASE t \notin ids
    <3>1. /\ js2[j].tasks[t] = js[j].tasks[t] /\ js2[j].worker[t] = js[j].worker[t]
          /\ u.task[t] = v.task[t] /\ u.on[t] = v.on[t]
      BY SMT, <2>1, <2>3 DEF TasksChanged, Changed
    <3>2. Seen(v.task[t], v.on[t], js[j].tasks[t], js[j].worker[t])
      BY <2>1 DEF ServerTasks
    <3>. QED  BY <3>1, <3>2
  <2>. QED  BY <2>2, <2>3
<1>2. ASSUME NEW t \in Nat, u.task[t] # "gone"
      PROVE  \E j \in DOMAIN js2 : t \in DOMAIN js2[j].tasks
  <2>1. v.task[t] # "gone"
    BY <1>2
  <2>. QED  BY <2>1 DEF ServerTasks, TasksChanged, Changed
<1>. QED  BY <1>1, <1>2 DEF ServerTasks

\* One job changes.
LEMMA OneChanged ==
    ASSUME NEW js, NEW j \in DOMAIN js, NEW job, NEW ids, Changed(js[j], job, ids), NEW js2,
           js2 = [js EXCEPT ![j] = job]
    PROVE  TasksChanged(js, js2, ids) /\ js2[j] = job
  BY SMT DEF TasksChanged, Changed

\* The tasks stay the same sets.
LEMMA SameTasks ==
    ASSUME NEW js, NEW js2, NEW ids, TasksChanged(js, js2, ids)
    PROVE  TasksOf(js2) = TasksOf(js)
  BY DEF TasksChanged, Changed, TasksOf
----------------------------------------------------------------------------
(* What the operations on a job change.                                    *)

\* set_running_state moves a waiting task to the worker, and only that.
LEMMA RunningFields ==
    ASSUME NEW job, JobTypeOK(job), NEW id \in DOMAIN job.tasks, NEW w
    PROVE  LET run == set_running_state(job, id, w)
           IN  /\ Changed(job, run, {id})
               /\ job.tasks[id] = "Waiting" => run.tasks[id] = "Running" /\ run.worker[id] = w
               /\ job.tasks[id] # "Waiting" => run = job
<1>1. job \in JobRecord(DOMAIN job.tasks)
  BY SMT DEF JobTypeOK
<1>2. CASE job.tasks[id] = "Waiting"
  <2>. DEFINE run == [job EXCEPT !.tasks[id] = "Running", !.worker[id] = w, !.n_running_tasks = @ + 1]
  <2>1. run.tasks = [job.tasks EXCEPT ![id] = "Running"] /\ run.worker = [job.worker EXCEPT ![id] = w]
        /\ run.log = job.log
    BY <1>1 DEF JobRecord
  <2>2. DOMAIN job.worker = DOMAIN job.tasks
    BY <1>1 DEF JobRecord
  <2>3. set_running_state(job, id, w) = run
    BY <1>2 DEF set_running_state
  <2>. HIDE DEF run
  <2>. QED  BY SMT, <1>2, <2>1, <2>2, <2>3 DEF Changed
<1>3. CASE job.tasks[id] # "Waiting"
  BY <1>3 DEF set_running_state, Changed
<1>. QED  BY <1>2, <1>3

\* set_finished_state and set_failed_state end one task, and only that.
LEMMA EndFields ==
    ASSUME NEW job, JobTypeOK(job), NEW id, can_end(job, id),
           NEW end, end \in {set_finished_state(job, id), set_failed_state(job, id)}
    PROVE  /\ Changed(job, end, {id})
           /\ end.tasks[id] \in Terminal
<1>1. job \in JobRecord(DOMAIN job.tasks) /\ id \in DOMAIN job.tasks
  BY DEF JobTypeOK, can_end
<1>2. /\ end.tasks = [job.tasks EXCEPT ![id] = "Finished"] \/ end.tasks = [job.tasks EXCEPT ![id] = "Failed"]
      /\ end.worker = job.worker /\ end.log = job.log
  BY <1>1 DEF JobRecord, set_finished_state, set_failed_state, check_termination
<1>. QED  BY <1>1, <1>2 DEF Changed, Terminal

\* set_waiting_state returns the tasks, and only these.
LEMMA WaitingFields ==
    ASSUME NEW job, JobTypeOK(job), NEW ids
    PROVE  /\ Changed(job, set_waiting_state(job, ids), ids)
           /\ \A t \in ids \cap DOMAIN job.tasks : set_waiting_state(job, ids).tasks[t] = "Waiting"
<1>. DEFINE wait == set_waiting_state(job, ids)
<1>1. job \in JobRecord(DOMAIN job.tasks)
  BY DEF JobTypeOK
<1>2. DOMAIN job.worker = DOMAIN job.tasks
  BY <1>1 DEF JobRecord
<1>3. /\ wait.tasks = [t \in DOMAIN job.tasks |-> IF t \in ids THEN "Waiting" ELSE job.tasks[t]]
      /\ wait.worker = [t \in DOMAIN job.worker |-> IF t \in ids THEN NoWorker ELSE job.worker[t]]
      /\ wait.log = job.log
  BY SMT, <1>1 DEF JobRecord, set_waiting_state
<1>. HIDE DEF wait
<1>4. Changed(job, wait, ids) /\ \A t \in ids \cap DOMAIN job.tasks : wait.tasks[t] = "Waiting"
  BY <1>2, <1>3 DEF Changed
<1>. QED  BY <1>4 DEF wait

\* set_cancel_state cancels the tasks, and only these.
LEMMA CancelFields ==
    ASSUME NEW job, JobTypeOK(job), NEW ids
    PROVE  /\ Changed(job, set_cancel_state(job, ids), ids)
           /\ \A t \in ids \cap DOMAIN job.tasks : set_cancel_state(job, ids).tasks[t] = "Canceled"
<1>. DEFINE cancel == set_cancel_state(job, ids)
<1>1. job \in JobRecord(DOMAIN job.tasks)
  BY DEF JobTypeOK
<1>2. DOMAIN job.worker = DOMAIN job.tasks
  BY <1>1 DEF JobRecord
<1>3. CASE ids # {}
  <2>1. /\ cancel.tasks = [t \in DOMAIN job.tasks |-> IF t \in ids THEN "Canceled" ELSE job.tasks[t]]
        /\ cancel.worker = [t \in DOMAIN job.worker |-> IF t \in ids THEN NoWorker ELSE job.worker[t]]
        /\ cancel.log = job.log
    BY SMT, <1>1, <1>3 DEF JobRecord, set_cancel_state, check_termination, CancelWith
  <2>. HIDE DEF cancel
  <2>2. Changed(job, cancel, ids) /\ \A t \in ids \cap DOMAIN job.tasks : cancel.tasks[t] = "Canceled"
    BY <1>2, <2>1 DEF Changed
  <2>. QED  BY <2>2 DEF cancel
<1>4. CASE ids = {}
  BY <1>4 DEF set_cancel_state, Changed
<1>. QED  BY <1>3, <1>4
----------------------------------------------------------------------------
(* The reader.                                                             *)

\* A task that is not gone belongs to the job the reader finds.
LEMMA HeldOwned ==
    ASSUME BasicInv, NEW v, ServerTasks(v, jobs), NEW t \in Nat, v.task[t] # "gone"
    PROVE  LET j == get_job_by_tako_task_id(t)
           IN  /\ j \in DOMAIN jobs /\ t \in DOMAIN jobs[j].tasks /\ j # NoJob
               /\ Seen(v.task[t], v.on[t], jobs[j].tasks[t], jobs[j].worker[t])
               /\ \A i \in DOMAIN jobs : t \in DOMAIN jobs[i].tasks => i = j
<1>1. PICK j \in DOMAIN jobs : t \in DOMAIN jobs[j].tasks
  BY DEF ServerTasks
<1>2. \A i \in DOMAIN jobs : t \in DOMAIN jobs[i].tasks => i = get_job_by_tako_task_id(t)
  BY DEF BasicInv
<1>3. get_job_by_tako_task_id(t) = j
  BY <1>1, <1>2
<1>4. j # NoJob
  BY SMT, <1>1 DEF BasicInv, NoJob, TypeOK, StateTypeOK
<1>5. Seen(v.task[t], v.on[t], jobs[j].tasks[t], jobs[j].worker[t])
  BY <1>1 DEF ServerTasks
<1>. QED  BY <1>1, <1>2, <1>3, <1>4, <1>5

\* The reports that wait to be read are messages of tako.
LEMMA ReportTypes ==
    ASSUME BasicInv
    PROVE  /\ from_tako \in Seq(FromTako)
           /\ \A j \in DOMAIN jobs : JobTypeOK(jobs[j]) /\ DOMAIN jobs[j].tasks \subseteq Nat
  BY DEF BasicInv, TypeOK, StateTypeOK, RpcTypeOK, JobTypeOK

\* The handlers' hands stay.
LEMMA HandsFrame ==
    ASSUME NEW v, NEW u, NEW H, NEW G, ServerHands(v, H),
           \A who \in Waiting : Hand(G[who]) = Hand(H[who]),
           \A t \in Nat : u.task[t] = "canceling" <=> v.task[t] = "canceling"
    PROVE  ServerHands(u, G)
  BY SMT DEF ServerHands

\* When the same submits wait for the stream server, the same tasks are not at tako yet.
LEMMA NotYetFrame ==
    ASSUME NEW to, NEW H, NEW G, NEW T, SameRegister(H, G)
    PROVE  NotYet(to, G, T) = NotYet(to, H, T)
  BY SMT DEF NotYet, SameRegister

\* A message has been read.
LEMMA ReaderAgreement ==
    ASSUME StepFacts, NEW V, Agreement(V), from_tako # <<>>, from_tako' = Tail(from_tako),
           UNCHANGED <<to_tako, tako_tasks, tako_workers>>, TasksOf(jobs') = TasksOf(jobs),
           SameRegister(Handlers, Handlers'),
           ServerTasks(V[1], jobs'), ServerHands(V[1], Handlers'), ServerWorkers(V[1], workers')
    PROVE  \E W : W = Shift(V, from_tako) /\ Agreement(W)'
<1>1. from_tako \in Seq(FromTako)
  BY ReportTypes DEF StepFacts
<1>. DEFINE pending == NotYet(to_tako, Handlers, TasksOf(jobs))
<1>2. NotYet(to_tako', Handlers', TasksOf(jobs')) = pending
  BY SMT, NotYetFrame
<1>3. Agrees(V, from_tako, jobs, Handlers, workers, tako_tasks, pending, tako_workers)
  BY DEF Agreement
<1>. HIDE DEF pending
<1>4. Agrees(Shift(V, from_tako), Tail(from_tako), jobs', Handlers', workers', tako_tasks, pending, tako_workers)
  BY SMT, <1>1, <1>3, ReadAgrees
<1>5. PICK W : W = Shift(V, from_tako)
  OBVIOUS
<1>6. Agreement(W)'
  BY <1>2, <1>4, <1>5 DEF Agreement
<1>. QED  BY <1>5, <1>6

\* The head of the queue, and the views before and after it.
LEMMA HeadAdvances ==
    ASSUME BasicInv, NEW V, Agreement(V), from_tako # <<>>
    PROVE  /\ Advances(Head(from_tako), V[0], V[1])
           /\ V[0] \in View /\ V[1] \in View /\ Head(from_tako) \in FromTako
           /\ ServerTasks(V[0], jobs) /\ ServerHands(V[0], Handlers) /\ ServerWorkers(V[0], workers)
           /\ \A j \in DOMAIN jobs : JobTypeOK(jobs[j]) /\ DOMAIN jobs[j].tasks \subseteq Nat
<1>1. /\ from_tako \in Seq(FromTako)
      /\ \A j \in DOMAIN jobs : JobTypeOK(jobs[j]) /\ DOMAIN jobs[j].tasks \subseteq Nat
  BY ReportTypes
<1>2. Head(from_tako) \in FromTako
  BY SMT, <1>1
<1>. QED  BY <1>1, <1>2, TraceTail DEF Agreement, Agrees

\* Nothing changes for the handlers.
LEMMA SameHandlers ==
    ASSUME UNCHANGED <<client, callbacks>>
    PROVE  Handlers' = Handlers /\ SameRegister(Handlers, Handlers')
<1>1. Handlers' = Handlers
  BY DEF Handlers
<1>. QED  BY SMT, <1>1 DEF SameRegister

\* process_task_running finds the task.
LEMMA RunningAgreement ==
    ASSUME StepFacts, NEW V, Agreement(V), process_task_running
    PROVE  UNCHANGED panicked /\ \E W : W = Shift(V, from_tako) /\ Agreement(W)'
<1>. DEFINE msg == Head(from_tako)
            t == msg.task
            j == get_job_by_tako_task_id(t)
            v == V[0]
            u == V[1]
            job == set_running_state(jobs[j], t, msg.worker)
<1>1. from_tako # <<>> /\ msg.type = "Running"
  BY DEF process_task_running, Receive
<1>2. /\ Advances(msg, v, u) /\ v \in View /\ u \in View /\ msg \in FromTako
      /\ ServerTasks(v, jobs) /\ ServerHands(v, Handlers) /\ ServerWorkers(v, workers)
      /\ BasicInv /\ \A i \in DOMAIN jobs : JobTypeOK(jobs[i]) /\ DOMAIN jobs[i].tasks \subseteq Nat
  BY <1>1, HeadAdvances DEF StepFacts
<1>3. t \in Nat /\ msg.worker \in Workers
  BY <1>1, <1>2 DEF FromTako, Response
<1>4. /\ Moves(v, u, {t}, Held, "running")
      /\ v.task[t] = "running" => v.on[t] = msg.worker
      /\ u.on = [v.on EXCEPT ![t] = msg.worker]
      /\ u.worker = v.worker
  BY <1>1, <1>2 DEF Advances
<1>5. v.task[t] \in Held /\ v.task[t] # "gone"
  BY <1>4 DEF Moves, Held
<1>6. /\ j \in DOMAIN jobs /\ t \in DOMAIN jobs[j].tasks /\ j # NoJob
      /\ Seen(v.task[t], v.on[t], jobs[j].tasks[t], jobs[j].worker[t])
      /\ \A i \in DOMAIN jobs : t \in DOMAIN jobs[i].tasks => i = j
  BY <1>2, <1>3, <1>5, HeldOwned
<1>7. /\ from_tako' = Tail(from_tako)
      /\ jobs' = [jobs EXCEPT ![j] = job]
      /\ UNCHANGED <<workers, client, callbacks, to_tako, tako_tasks, tako_workers, panicked>>
  BY <1>6 DEF process_task_running, Received, handlerVars, rpcVars, takoVars, processVars
<1>. HIDE DEF j, v, u, msg, t
<1>8. /\ Changed(jobs[j], job, {t})
      /\ jobs[j].tasks[t] = "Waiting" => job.tasks[t] = "Running" /\ job.worker[t] = msg.worker
      /\ jobs[j].tasks[t] # "Waiting" => job = jobs[j]
  <2>1. JobTypeOK(jobs[j]) /\ t \in DOMAIN jobs[j].tasks
    BY <1>2, <1>6
  <2>. QED  BY ONLY <2>1, RunningFields DEF job
<1>. HIDE DEF job
<1>9. TasksChanged(jobs, jobs', {t}) /\ jobs'[j] = job
  BY <1>6, <1>7, <1>8, OneChanged
<1>10. /\ \A x \in Nat \ {t} : u.task[x] = v.task[x] /\ u.on[x] = v.on[x]
       /\ u.task[t] = "running" /\ u.on[t] = msg.worker
  BY SMT, <1>2, <1>3, <1>4 DEF Moves, View
<1>11. job.tasks[t] = "Running" /\ job.worker[t] = msg.worker
  BY <1>4, <1>5, <1>6, <1>8 DEF Seen, Held
<1>12. ServerTasks(u, jobs')
  <2>1. \A i \in DOMAIN jobs : \A x \in {t} \cap DOMAIN jobs[i].tasks :
            Seen(u.task[x], u.on[x], jobs'[i].tasks[x], jobs'[i].worker[x])
    BY <1>6, <1>9, <1>10, <1>11 DEF Seen
  <2>2. \A x \in {t} : u.task[x] # "gone" => v.task[x] # "gone"
    BY <1>5
  <2>. QED  BY SMTT(30), <1>2, <1>9, <1>10, <2>1, <2>2, SeenAfter
<1>13. Handlers' = Handlers /\ SameRegister(Handlers, Handlers')
  BY <1>7, SameHandlers
<1>14. ServerHands(u, Handlers') /\ ServerWorkers(u, workers')
  <2>1. \A x \in Nat : u.task[x] = "canceling" <=> v.task[x] = "canceling"
    BY <1>3, <1>5, <1>10 DEF Held
  <2>2. ServerHands(u, Handlers')
    BY <1>2, <1>13, <2>1, HandsFrame
  <2>. QED  BY <1>2, <1>4, <1>7, <2>2 DEF ServerWorkers
<1>15. TasksOf(jobs') = TasksOf(jobs)
  BY <1>9, SameTasks
<1>. QED  BY <1>1, <1>7, <1>12, <1>13, <1>14, <1>15, ReaderAgreement DEF u
\* The task in the report at the head of the queue, which tako had running.
LEMMA RunningOwned ==
    ASSUME BasicInv, NEW V, Agreement(V), from_tako # <<>>,
           Head(from_tako).type \in {"Finished", "TaskFailed", "Waiting"}
    PROVE  LET t == Head(from_tako).task
               j == get_job_by_tako_task_id(t)
           IN  /\ t \in Nat /\ j \in DOMAIN jobs /\ t \in DOMAIN jobs[j].tasks /\ j # NoJob
               /\ JobTypeOK(jobs[j]) /\ jobs[j].tasks[t] = "Running"
               /\ \A i \in DOMAIN jobs : t \in DOMAIN jobs[i].tasks => i = j
               /\ V[0].task[t] = "running"
               /\ \A x \in Nat \ {t} : V[1].task[x] = V[0].task[x] /\ V[1].on[x] = V[0].on[x]
               /\ V[1].task[t] = IF Head(from_tako).type = "Waiting" THEN "waiting" ELSE "gone"
               /\ ServerWorkers(V[1], workers)
               /\ \A G : ServerHands(V[0], G) => ServerHands(V[1], G)
<1>. DEFINE msg == Head(from_tako)
            t == msg.task
            j == get_job_by_tako_task_id(t)
            v == V[0]
            u == V[1]
            to == IF msg.type = "Waiting" THEN "waiting" ELSE "gone"
<1>1. /\ Advances(msg, v, u) /\ v \in View /\ u \in View /\ msg \in FromTako
      /\ ServerTasks(v, jobs) /\ ServerWorkers(v, workers)
      /\ \A i \in DOMAIN jobs : JobTypeOK(jobs[i]) /\ DOMAIN jobs[i].tasks \subseteq Nat
  BY HeadAdvances
<1>2. t \in Nat
  BY <1>1 DEF FromTako, Response
<1>3. Moves(v, u, {t}, {"running"}, to) /\ u.on = v.on /\ u.worker = v.worker
  BY <1>1 DEF Advances
<1>4. v.task[t] = "running"
  BY <1>3 DEF Moves
<1>5. /\ j \in DOMAIN jobs /\ t \in DOMAIN jobs[j].tasks /\ j # NoJob
      /\ Seen(v.task[t], v.on[t], jobs[j].tasks[t], jobs[j].worker[t])
      /\ \A i \in DOMAIN jobs : t \in DOMAIN jobs[i].tasks => i = j
  BY <1>1, <1>2, <1>4, HeldOwned
<1>. HIDE DEF t, j, v, u, to
<1>6. jobs[j].tasks[t] = "Running"
  BY SMT, <1>4, <1>5 DEF Seen
<1>7. /\ \A x \in Nat \ {t} : u.task[x] = v.task[x] /\ u.on[x] = v.on[x]
      /\ u.task[t] = to
  BY <1>2, <1>3 DEF Moves
<1>8. ServerWorkers(u, workers)
  BY <1>1, <1>3 DEF ServerWorkers
<1>9. ASSUME NEW G, ServerHands(v, G)
      PROVE  ServerHands(u, G)
  <2>1. \A x \in Nat : u.task[x] = "canceling" <=> v.task[x] = "canceling"
    BY <1>2, <1>4, <1>7 DEF to
  <2>. QED  BY SMT, <1>9, <2>1, HandsFrame
<1>. QED  BY <1>1, <1>2, <1>4, <1>5, <1>6, <1>7, <1>8, <1>9 DEF t, j, v, u, to, msg

\* The task the reader has ended, or returned to the queue, is seen right.
LEMMA ReportedSeen ==
    ASSUME StepFacts, NEW V, Agreement(V), from_tako # <<>>,
           Head(from_tako).type \in {"Finished", "TaskFailed", "Waiting"},
           NEW job, jobs' = [jobs EXCEPT ![get_job_by_tako_task_id(Head(from_tako).task)] = job],
           Changed(jobs[get_job_by_tako_task_id(Head(from_tako).task)], job, {Head(from_tako).task}),
           IF Head(from_tako).type = "Waiting" THEN job.tasks[Head(from_tako).task] = "Waiting"
                                               ELSE job.tasks[Head(from_tako).task] \in Terminal
    PROVE  ServerTasks(V[1], jobs') /\ TasksOf(jobs') = TasksOf(jobs)
<1>. DEFINE msg == Head(from_tako)
            t == msg.task
            j == get_job_by_tako_task_id(t)
            v == V[0]
            u == V[1]
<1>1. /\ t \in Nat /\ j \in DOMAIN jobs /\ t \in DOMAIN jobs[j].tasks
      /\ \A i \in DOMAIN jobs : t \in DOMAIN jobs[i].tasks => i = j
      /\ v.task[t] = "running"
      /\ \A x \in Nat \ {t} : u.task[x] = v.task[x] /\ u.on[x] = v.on[x]
      /\ u.task[t] = IF msg.type = "Waiting" THEN "waiting" ELSE "gone"
  BY RunningOwned DEF StepFacts
<1>2. ServerTasks(v, jobs) /\ \A i \in DOMAIN jobs : DOMAIN jobs[i].tasks \subseteq Nat
  BY SMT, HeadAdvances DEF StepFacts
<1>3. /\ jobs' = [jobs EXCEPT ![j] = job]
      /\ Changed(jobs[j], job, {t})
      /\ IF msg.type = "Waiting" THEN job.tasks[t] = "Waiting" ELSE job.tasks[t] \in Terminal
  OBVIOUS
<1>. HIDE DEF t, j, v, u, msg
<1>4. TasksChanged(jobs, jobs', {t}) /\ jobs'[j] = job
  BY ONLY <1>1, <1>3, OneChanged
<1>5. \A i \in DOMAIN jobs : \A x \in {t} \cap DOMAIN jobs[i].tasks :
          Seen(u.task[x], u.on[x], jobs'[i].tasks[x], jobs'[i].worker[x])
  BY <1>1, <1>3, <1>4 DEF Seen
<1>6. \A x \in {t} : u.task[x] # "gone" => v.task[x] # "gone"
  BY <1>1
<1>7. ServerTasks(u, jobs')
  BY ONLY <1>1, <1>2, <1>4, <1>5, <1>6, SeenAfter
<1>8. TasksOf(jobs') = TasksOf(jobs)
  BY <1>4, SameTasks
<1>. QED  BY <1>7, <1>8 DEF u

\* process_task_waiting finds the task running.
LEMMA WaitingAgreement ==
    ASSUME StepFacts, NEW V, Agreement(V), process_task_waiting
    PROVE  UNCHANGED panicked /\ \E W : W = Shift(V, from_tako) /\ Agreement(W)'
<1>. DEFINE msg == Head(from_tako)
            t == msg.task
            j == get_job_by_tako_task_id(t)
            job == set_waiting_state(jobs[j], {t})
<1>1. from_tako # <<>> /\ msg.type = "Waiting"
  BY DEF process_task_waiting, Receive
<1>2. /\ j \in DOMAIN jobs /\ t \in DOMAIN jobs[j].tasks /\ j # NoJob
      /\ JobTypeOK(jobs[j]) /\ jobs[j].tasks[t] = "Running"
      /\ ServerWorkers(V[1], workers)
      /\ \A G : ServerHands(V[0], G) => ServerHands(V[1], G)
  BY <1>1, RunningOwned DEF StepFacts
<1>3. can_wait(jobs[j], {t})
  BY <1>2 DEF can_wait, InState
<1>4. /\ from_tako' = Tail(from_tako)
      /\ jobs' = [jobs EXCEPT ![j] = job]
      /\ UNCHANGED <<workers, client, callbacks, to_tako, tako_tasks, tako_workers, panicked>>
  BY <1>2, <1>3 DEF process_task_waiting, Received, handlerVars, rpcVars, takoVars, processVars
<1>5. Changed(jobs[j], job, {t}) /\ job.tasks[t] = "Waiting"
  BY <1>2, WaitingFields
<1>. HIDE DEF job
<1>6. ServerTasks(V[1], jobs') /\ TasksOf(jobs') = TasksOf(jobs)
  BY <1>1, <1>4, <1>5, ReportedSeen
<1>7. Handlers' = Handlers /\ SameRegister(Handlers, Handlers')
  BY <1>4, SameHandlers
<1>8. ServerHands(V[1], Handlers')
  BY <1>1, <1>2, <1>7, HeadAdvances DEF StepFacts
<1>. QED  BY <1>1, <1>2, <1>4, <1>6, <1>7, <1>8, ReaderAgreement

\* process_task_finished finds the task running.
LEMMA FinishedAgreement ==
    ASSUME StepFacts, NEW V, Agreement(V), process_task_finished
    PROVE  UNCHANGED panicked /\ \E W : W = Shift(V, from_tako) /\ Agreement(W)'
<1>. DEFINE msg == Head(from_tako)
            t == msg.task
            j == get_job_by_tako_task_id(t)
            job == set_finished_state(jobs[j], t)
<1>1. from_tako # <<>> /\ msg.type = "Finished"
  BY DEF process_task_finished, Receive
<1>2. /\ j \in DOMAIN jobs /\ t \in DOMAIN jobs[j].tasks /\ j # NoJob
      /\ JobTypeOK(jobs[j]) /\ jobs[j].tasks[t] = "Running"
      /\ ServerWorkers(V[1], workers)
      /\ \A G : ServerHands(V[0], G) => ServerHands(V[1], G)
  BY <1>1, RunningOwned DEF StepFacts
<1>3. can_end(jobs[j], t)
  BY <1>2 DEF can_end
<1>4. /\ from_tako' = Tail(from_tako)
      /\ jobs' = [jobs EXCEPT ![j] = job]
      /\ UNCHANGED <<workers, client, callbacks, to_tako, tako_tasks, tako_workers, panicked>>
  BY <1>2, <1>3 DEF process_task_finished, Received, handlerVars, rpcVars, takoVars, processVars
<1>5. Changed(jobs[j], job, {t}) /\ job.tasks[t] \in Terminal
  BY <1>2, <1>3, EndFields
<1>. HIDE DEF job
<1>6. ServerTasks(V[1], jobs') /\ TasksOf(jobs') = TasksOf(jobs)
  BY <1>1, <1>4, <1>5, ReportedSeen
<1>7. Handlers' = Handlers /\ SameRegister(Handlers, Handlers')
  BY <1>4, SameHandlers
<1>8. ServerHands(V[1], Handlers')
  BY <1>1, <1>2, <1>7, HeadAdvances DEF StepFacts
<1>. QED  BY <1>1, <1>2, <1>4, <1>6, <1>7, <1>8, ReaderAgreement

\* process_task_failed finds the task running; the cancel it may spawn has no
\* response yet.
LEMMA FailedAgreement ==
    ASSUME StepFacts, NEW V, Agreement(V), process_task_failed,
           NEW who \in Waiting, Only(Handlers, Handlers', who),
           Handlers[who].reply = {}, Handlers'[who].reply = {}, SameRegister(Handlers, Handlers')
    PROVE  UNCHANGED panicked /\ \E W : W = Shift(V, from_tako) /\ Agreement(W)'
<1>. DEFINE msg == Head(from_tako)
            t == msg.task
            j == get_job_by_tako_task_id(t)
            job == set_failed_state(jobs[j], t)
<1>1. from_tako # <<>> /\ msg.type = "TaskFailed"
  BY DEF process_task_failed, Receive
<1>2. /\ t \in Nat /\ j \in DOMAIN jobs /\ t \in DOMAIN jobs[j].tasks /\ j # NoJob
      /\ JobTypeOK(jobs[j]) /\ jobs[j].tasks[t] = "Running"
      /\ \A i \in DOMAIN jobs : t \in DOMAIN jobs[i].tasks => i = j
      /\ ServerWorkers(V[1], workers)
      /\ \A G : ServerHands(V[0], G) => ServerHands(V[1], G)
  BY <1>1, RunningOwned DEF StepFacts
<1>3. can_end(jobs[j], t)
  BY <1>2 DEF can_end
<1>4. /\ from_tako' = Tail(from_tako)
      /\ jobs' = [jobs EXCEPT ![j] = job]
      /\ UNCHANGED <<workers, client, to_tako, tako_tasks, tako_workers, panicked>>
  BY <1>2, <1>3 DEF process_task_failed, Received, rpcVars, takoVars, processVars,
                    cancel_tasks_from_callback
<1>5. Changed(jobs[j], job, {t}) /\ job.tasks[t] \in Terminal
  BY <1>2, <1>3, EndFields
<1>. HIDE DEF job
<1>6. ServerTasks(V[1], jobs') /\ TasksOf(jobs') = TasksOf(jobs)
  BY <1>1, <1>4, <1>5, ReportedSeen
<1>7. \A other \in Waiting : Hand(Handlers'[other]) = Hand(Handlers[other])
  BY DEF Only, Hand
<1>8. ServerHands(V[1], Handlers')
  <2>1. ServerHands(V[1], Handlers)
    BY <1>1, <1>2, HeadAdvances DEF StepFacts
  <2>. QED  BY SMT, <1>7, <2>1, HandsFrame
<1>. QED  BY <1>1, <1>2, <1>4, <1>6, <1>8, ReaderAgreement

\* process_worker_new finds the id unused.
LEMMA WorkerNewAgreement ==
    ASSUME StepFacts, NEW V, Agreement(V), process_worker_new
    PROVE  UNCHANGED panicked /\ \E W : W = Shift(V, from_tako) /\ Agreement(W)'
<1>. DEFINE msg == Head(from_tako)
            w == msg.worker
            v == V[0]
            u == V[1]
<1>1. from_tako # <<>> /\ msg.type = "NewWorker"
  BY DEF process_worker_new, Receive
<1>2. /\ Advances(msg, v, u) /\ v \in View /\ u \in View /\ msg \in FromTako
      /\ ServerTasks(v, jobs) /\ ServerHands(v, Handlers) /\ ServerWorkers(v, workers)
  BY <1>1, HeadAdvances DEF StepFacts
<1>3. w \in Workers
  BY <1>1, <1>2 DEF FromTako, Response
<1>4. /\ v.worker[w] = "unused" /\ u.task = v.task /\ u.on = v.on
      /\ u.worker = [v.worker EXCEPT ![w] = "connected"]
  BY <1>1, <1>2 DEF Advances
<1>5. w \notin DOMAIN workers
  BY <1>2, <1>3, <1>4 DEF ServerWorkers
<1>6. /\ from_tako' = Tail(from_tako)
      /\ workers' = Insert(workers, w, "Online")
      /\ UNCHANGED <<jobs, client, callbacks, to_tako, tako_tasks, tako_workers, panicked>>
  BY <1>5 DEF process_worker_new, Received, stateVars, handlerVars, rpcVars, takoVars, processVars
<1>7. ServerTasks(u, jobs') /\ ServerHands(u, Handlers)
  BY <1>2, <1>4, <1>6 DEF ServerTasks, ServerHands
<1>8. ServerWorkers(u, workers')
  <2>. SUFFICES ASSUME NEW x \in Workers
                PROVE  u.worker[x] = IF x \notin DOMAIN workers' THEN "unused"
                                     ELSE IF workers'[x] = "Online" THEN "connected" ELSE "lost"
    BY DEF ServerWorkers
  <2>1. v.worker[x] = IF x \notin DOMAIN workers THEN "unused"
                      ELSE IF workers[x] = "Online" THEN "connected" ELSE "lost"
    BY <1>2 DEF ServerWorkers
  <2>2. u.worker[x] = IF x = w THEN "connected" ELSE v.worker[x]
    BY <1>2, <1>3, <1>4 DEF View
  <2>3. /\ x \in DOMAIN workers' <=> x = w \/ x \in DOMAIN workers
        /\ x \in DOMAIN workers' => workers'[x] = IF x = w THEN "Online" ELSE workers[x]
    BY <1>6 DEF Insert
  <2>. HIDE DEF u, v, w
  <2>. QED  BY <2>1, <2>2, <2>3
<1>9. Handlers' = Handlers /\ SameRegister(Handlers, Handlers')
  BY <1>6, SameHandlers
<1>. QED  BY <1>1, <1>6, <1>7, <1>8, <1>9, ReaderAgreement

\* process_worker_lost finds the worker online and its tasks running.
LEMMA WorkerLostAgreement ==
    ASSUME StepFacts, NEW V, Agreement(V), process_worker_lost
    PROVE  UNCHANGED panicked /\ \E W : W = Shift(V, from_tako) /\ Agreement(W)'
<1>. DEFINE msg == Head(from_tako)
            lost(j) == {t \in msg.tasks : get_job_by_tako_task_id(t) = j}
            v == V[0]
            u == V[1]
<1>1. from_tako # <<>> /\ msg.type = "LostWorker"
  BY DEF process_worker_lost, Receive
<1>2. /\ Advances(msg, v, u) /\ v \in View /\ u \in View /\ msg \in FromTako
      /\ ServerTasks(v, jobs) /\ ServerHands(v, Handlers) /\ ServerWorkers(v, workers)
      /\ BasicInv /\ \A i \in DOMAIN jobs : JobTypeOK(jobs[i]) /\ DOMAIN jobs[i].tasks \subseteq Nat
  BY <1>1, HeadAdvances DEF StepFacts
<1>3. msg.worker \in Workers /\ msg.tasks \in SUBSET Nat
  BY <1>1, <1>2 DEF FromTako, Response
<1>4. /\ v.worker[msg.worker] = "connected"
      /\ Moves(v, u, msg.tasks, {"running"}, "waiting")
      /\ u.on = v.on
      /\ u.worker = [v.worker EXCEPT ![msg.worker] = "lost"]
  BY <1>1, <1>2 DEF Advances
<1>5. msg.worker \in DOMAIN workers
  BY <1>2, <1>3, <1>4 DEF ServerWorkers
<1>6. ASSUME NEW t \in msg.tasks
      PROVE  LET j == get_job_by_tako_task_id(t)
             IN  /\ j \in DOMAIN jobs /\ t \in DOMAIN jobs[j].tasks /\ j # NoJob
                 /\ jobs[j].tasks[t] = "Running"
                 /\ \A i \in DOMAIN jobs : t \in DOMAIN jobs[i].tasks => i = j
  <2>1. t \in Nat /\ v.task[t] = "running"
    BY <1>3, <1>4 DEF Moves
  <2>. QED  BY <1>2, <2>1, HeldOwned DEF Seen
<1>7. lost(NoJob) = {} /\ \A j \in DOMAIN jobs : can_wait(jobs[j], lost(j))
  BY <1>6 DEF can_wait, InState
<1>8. /\ from_tako' = Tail(from_tako)
      /\ workers' = [workers EXCEPT ![msg.worker] = "Offline"]
      /\ jobs' = [j \in DOMAIN jobs |-> set_waiting_state(jobs[j], lost(j))]
      /\ UNCHANGED <<client, callbacks, to_tako, tako_tasks, tako_workers, panicked>>
  BY <1>5, <1>7 DEF process_worker_lost, Received, handlerVars, rpcVars, takoVars, processVars
<1>. HIDE DEF msg, v, u
<1>9. TasksChanged(jobs, jobs', msg.tasks)
  <2>1. ASSUME NEW j \in DOMAIN jobs  PROVE  Changed(jobs[j], jobs'[j], msg.tasks)
    <3>1. Changed(jobs[j], jobs'[j], lost(j))
      BY <1>2, <1>8, WaitingFields
    <3>. QED  BY <3>1 DEF Changed
  <2>. QED  BY <1>8, <2>1 DEF TasksChanged
<1>10. \A j \in DOMAIN jobs : \A t \in msg.tasks \cap DOMAIN jobs[j].tasks : jobs'[j].tasks[t] = "Waiting"
  <2>1. \A j \in DOMAIN jobs : \A t \in msg.tasks \cap DOMAIN jobs[j].tasks : t \in lost(j)
    BY <1>6
  <2>. QED  BY SMT, <1>2, <1>8, <2>1, WaitingFields
<1>11. /\ \A t \in Nat \ msg.tasks : u.task[t] = v.task[t] /\ u.on[t] = v.on[t]
       /\ \A t \in msg.tasks : u.task[t] = "waiting" /\ v.task[t] = "running"
  BY <1>3, <1>4 DEF Moves
<1>. HIDE DEF lost
<1>12. ServerTasks(u, jobs')
  <2>1. \A j \in DOMAIN jobs : \A t \in msg.tasks \cap DOMAIN jobs[j].tasks :
            Seen(u.task[t], u.on[t], jobs'[j].tasks[t], jobs'[j].worker[t])
    BY <1>10, <1>11 DEF Seen
  <2>2. \A t \in msg.tasks : u.task[t] # "gone" => v.task[t] # "gone"
    BY <1>11
  <2>3. \A j \in DOMAIN jobs : DOMAIN jobs[j].tasks \subseteq Nat
    BY <1>2
  <2>4. ServerTasks(v, jobs) /\ \A t \in Nat \ msg.tasks : u.task[t] = v.task[t] /\ u.on[t] = v.on[t]
    BY <1>2, <1>11
  <2>. QED  BY ONLY <1>9, <2>1, <2>2, <2>3, <2>4, SeenAfter
<1>13. Handlers' = Handlers /\ SameRegister(Handlers, Handlers')
  BY <1>8, SameHandlers
<1>14. ServerHands(u, Handlers')
  <2>1. \A t \in Nat : u.task[t] = "canceling" <=> v.task[t] = "canceling"
    BY <1>11
  <2>. QED  BY <1>2, <1>13, <2>1, HandsFrame
<1>15. ServerWorkers(u, workers')
  <2>. SUFFICES ASSUME NEW x \in Workers
                PROVE  u.worker[x] = IF x \notin DOMAIN workers' THEN "unused"
                                     ELSE IF workers'[x] = "Online" THEN "connected" ELSE "lost"
    BY DEF ServerWorkers
  <2>1. v.worker[x] = IF x \notin DOMAIN workers THEN "unused"
                      ELSE IF workers[x] = "Online" THEN "connected" ELSE "lost"
    BY <1>2 DEF ServerWorkers
  <2>2. u.worker[x] = IF x = msg.worker THEN "lost" ELSE v.worker[x]
    BY <1>2, <1>3, <1>4 DEF View
  <2>3. /\ DOMAIN workers' = DOMAIN workers
        /\ x \in DOMAIN workers => workers'[x] = IF x = msg.worker THEN "Offline" ELSE workers[x]
    BY <1>8
  <2>. QED  BY <1>5, <2>1, <2>2, <2>3
<1>16. TasksOf(jobs') = TasksOf(jobs)
  BY <1>9, SameTasks
<1>. QED  BY <1>1, <1>8, <1>12, <1>13, <1>14, <1>15, <1>16, ReaderAgreement DEF u

\* A handler that got tako's answer to its cancel has the canceled tasks in hand.
LEMMA DeliverAgreement ==
    ASSUME StepFacts, NEW V, Agreement(V), NEW who \in Waiting, NEW msg, Delivered(who, msg)
    PROVE  UNCHANGED panicked /\ \E W : W = Shift(V, from_tako) /\ Agreement(W)'
<1>. DEFINE v == V[0]
            u == V[1]
            H == Handlers
            G == Handlers'
<1>1. /\ from_tako # <<>> /\ msg = Head(from_tako) /\ msg.type \in Responses
      /\ from_tako' = Tail(from_tako)
      /\ UNCHANGED <<jobs, workers, to_tako, tako_tasks, tako_workers, panicked>>
  BY DEF Delivered, stateVars, takoVars, processVars
<1>2. Only(H, G, who) /\ G[who] = Replied(H[who], msg) /\ H[who].reply = {}
  BY DEF Delivered, Waits
<1>3. /\ Advances(msg, v, u) /\ v \in View /\ u \in View /\ msg \in FromTako
      /\ ServerTasks(v, jobs) /\ ServerHands(v, H) /\ ServerWorkers(v, workers)
      /\ \A i \in DOMAIN jobs : DOMAIN jobs[i].tasks \subseteq Nat
  BY <1>1, HeadAdvances DEF StepFacts
<1>. HIDE DEF v, u, H, G
<1>4. SameRegister(H, G)
  <2>1. \A c \in Clients : ClientWaits(c) \in Waiting
    BY DEF Waiting, ClientWaits
  <2>2. \A x \in Waiting : G[x].pc = H[x].pc /\ G[x].job = H[x].job
    BY SMT, <1>2 DEF Only, Replied
  <2>. QED  BY <2>1, <2>2 DEF SameRegister
<1>5. Hand(H[who]) = {} /\ \A other \in Waiting : other # who => Hand(G[other]) = Hand(H[other])
  BY <1>2 DEF Only, Hand
<1>6. ServerTasks(u, jobs) /\ ServerHands(u, G) /\ ServerWorkers(u, workers)
  <2>1. CASE msg.type # "CancelTasksResponse"
    <3>1. u = v
      BY <1>1, <1>3, <2>1 DEF Advances, Responses
    <3>2. Hand(G[who]) = {}
      BY SMT, <1>2, <2>1 DEF Hand, Replied
    <3>3. \A other \in Waiting : Hand(G[other]) = Hand(H[other])
      BY <1>5, <3>2
    <3>. QED  BY SMT, <1>3, <3>1, <3>3, HandsFrame
  <2>2. CASE msg.type = "CancelTasksResponse"
    <3>1. msg.tasks \in SUBSET Nat
      BY <1>3, <2>2 DEF FromTako, Response
    <3>2. Moves(v, u, msg.tasks, Held, "canceling") /\ u.on = v.on /\ u.worker = v.worker
      BY <1>3, <2>2 DEF Advances
    <3>3. /\ \A t \in Nat \ msg.tasks : u.task[t] = v.task[t] /\ u.on[t] = v.on[t]
          /\ \A t \in msg.tasks : u.task[t] = "canceling" /\ v.task[t] \in Held
      BY <3>1, <3>2 DEF Moves
    <3>4. Hand(G[who]) = msg.tasks
      BY SMT, <1>2, <2>2, <3>1 DEF Hand, Replied
    <3>5. ServerTasks(u, jobs)
      <4>1. TasksChanged(jobs, jobs, msg.tasks)
        BY DEF TasksChanged, Changed
      <4>2. \A t \in msg.tasks : u.task[t] # "gone" => v.task[t] # "gone"
        BY <3>3 DEF Held
      <4>3. \A j \in DOMAIN jobs : \A t \in msg.tasks \cap DOMAIN jobs[j].tasks :
                Seen(u.task[t], u.on[t], jobs[j].tasks[t], jobs[j].worker[t])
        BY <1>3, <3>3 DEF ServerTasks, Seen, Held, NonFinished
      <4>. QED  BY ONLY <1>3, <3>3, <4>1, <4>2, <4>3, SeenAfter
    <3>6. ServerHands(u, G)
      <4>1. /\ \A t \in Nat : v.task[t] = "canceling" <=> \E x \in Waiting : t \in Hand(H[x])
            /\ \A x, y \in Waiting : x # y => Hand(H[x]) \cap Hand(H[y]) = {}
        BY SMT, <1>3 DEF ServerHands
      <4>2. ASSUME NEW t \in Nat  PROVE  u.task[t] = "canceling" <=> \E x \in Waiting : t \in Hand(G[x])
        BY SMT, <1>5, <3>3, <3>4, <4>1
      <4>3. ASSUME NEW x \in Waiting, NEW y \in Waiting, x # y
            PROVE  Hand(G[x]) \cap Hand(G[y]) = {}
        <5>1. \A z \in Waiting : \A t \in Hand(H[z]) : t \in Nat /\ v.task[t] = "canceling"
          BY <4>1 DEF Hand
        <5>2. \A z \in Waiting \ {who} : Hand(G[z]) \cap msg.tasks = {}
          BY <1>5, <3>3, <5>1 DEF Held
        <5>. QED  BY SMT, <1>5, <3>4, <4>1, <4>3, <5>2
      <4>. QED  BY <4>2, <4>3 DEF ServerHands
    <3>. QED  BY <1>3, <3>2, <3>5, <3>6 DEF ServerWorkers
  <2>. QED  BY <2>1, <2>2
<1>7. ServerTasks(V[1], jobs') /\ ServerHands(V[1], Handlers') /\ ServerWorkers(V[1], workers')
  BY <1>1, <1>6 DEF u, G
<1>8. SameRegister(Handlers, Handlers') /\ TasksOf(jobs') = TasksOf(jobs)
  BY <1>1, <1>4 DEF H, G
<1>. QED  BY <1>1, <1>7, <1>8, ReaderAgreement
----------------------------------------------------------------------------
(* The tasks that are not at tako yet.                                     *)

\* Those of the requests that are queued, and of the submits that wait for a
\* stream.
Queued(to) == {t \in Nat : \E i \in 1 .. Len(to) : to[i].type = "NewTasks" /\ t \in to[i].tasks}

Unregistered(H, T) ==
    {t \in Nat : \E c \in Clients : /\ H[ClientWaits(c)].pc = "register"
                                    /\ t \in T[H[ClientWaits(c)].job]}

\* There are no others.
LEMMA NotYetParts ==
    ASSUME NEW to, NEW H, NEW T
    PROVE  NotYet(to, H, T) = Queued(to) \cup Unregistered(H, T)
  BY DEF NotYet, Queued, Unregistered

\* A request is added to the queue.
LEMMA QueuedAppend ==
    ASSUME NEW to \in Seq(ToTako), NEW msg \in ToTako
    PROVE  /\ msg.type = "NewTasks" => Queued(Append(to, msg)) = Queued(to) \cup msg.tasks
           /\ msg.type # "NewTasks" => Queued(Append(to, msg)) = Queued(to)
<1>. DEFINE to2 == Append(to, msg)
            n == Len(to)
<1>1. /\ n \in Nat /\ Len(to2) = n + 1 /\ to2[n + 1] = msg
      /\ \A i \in 1 .. n : to2[i] = to[i]
  BY SMT
<1>2. msg.type = "NewTasks" => msg.tasks \subseteq Nat
  BY DEF ToTako
<1>. HIDE DEF to2
<1>3. ASSUME NEW t \in Nat
      PROVE  t \in Queued(to2) <=> t \in Queued(to) \/ (msg.type = "NewTasks" /\ t \in msg.tasks)
  <2>1. ASSUME t \in Queued(to2)
        PROVE  t \in Queued(to) \/ (msg.type = "NewTasks" /\ t \in msg.tasks)
    <3>1. PICK i \in 1 .. Len(to2) : to2[i].type = "NewTasks" /\ t \in to2[i].tasks
      BY <2>1 DEF Queued
    <3>2. i \in 1 .. n \/ i = n + 1
      BY SMT, <1>1, <3>1
    <3>. QED  BY <1>1, <3>1, <3>2 DEF Queued, n
  <2>2. ASSUME t \in Queued(to)  PROVE  t \in Queued(to2)
    <3>1. PICK i \in 1 .. n : to[i].type = "NewTasks" /\ t \in to[i].tasks
      BY <2>2 DEF Queued
    <3>2. i \in 1 .. Len(to2)
      BY SMT, <1>1, <3>1
    <3>. QED  BY <1>1, <3>1, <3>2 DEF Queued
  <2>3. ASSUME msg.type = "NewTasks", t \in msg.tasks  PROVE  t \in Queued(to2)
    <3>1. n + 1 \in 1 .. Len(to2)
      BY SMT, <1>1
    <3>. QED  BY <1>1, <2>3, <3>1 DEF Queued
  <2>. QED  BY <2>1, <2>2, <2>3
<1>4. Queued(to) \subseteq Nat /\ Queued(to2) \subseteq Nat
  BY DEF Queued
<1>. QED  BY <1>2, <1>3, <1>4 DEF to2

\* The first request is taken from the queue.
LEMMA QueuedTail ==
    ASSUME NEW to \in Seq(ToTako), to # <<>>
    PROVE  /\ Head(to).type = "NewTasks" => Queued(to) = Head(to).tasks \cup Queued(Tail(to))
           /\ Head(to).type # "NewTasks" => Queued(to) = Queued(Tail(to))
<1>. DEFINE to2 == Tail(to)
            msg == Head(to)
            n == Len(to)
<1>1. /\ n \in Nat \ {0} /\ Len(to2) = n - 1 /\ to[1] = msg /\ msg \in ToTako
      /\ \A i \in 1 .. n - 1 : to2[i] = to[i + 1]
  BY SMT
<1>2. msg.type = "NewTasks" => msg.tasks \subseteq Nat
  BY <1>1 DEF ToTako
<1>. HIDE DEF to2, msg
<1>3. ASSUME NEW t \in Nat
      PROVE  t \in Queued(to) <=> t \in Queued(to2) \/ (msg.type = "NewTasks" /\ t \in msg.tasks)
  <2>1. ASSUME t \in Queued(to)
        PROVE  t \in Queued(to2) \/ (msg.type = "NewTasks" /\ t \in msg.tasks)
    <3>1. PICK i \in 1 .. n : to[i].type = "NewTasks" /\ t \in to[i].tasks
      BY <2>1 DEF Queued
    <3>2. i = 1 \/ (i - 1 \in 1 .. Len(to2) /\ to2[i - 1] = to[i])
      BY SMT, <1>1, <3>1
    <3>. QED  BY <1>1, <3>1, <3>2 DEF Queued
  <2>2. ASSUME t \in Queued(to2)  PROVE  t \in Queued(to)
    <3>1. PICK i \in 1 .. Len(to2) : to2[i].type = "NewTasks" /\ t \in to2[i].tasks
      BY <2>2 DEF Queued
    <3>2. i + 1 \in 1 .. n /\ to2[i] = to[i + 1]
      BY SMT, <1>1, <3>1
    <3>. QED  BY <3>1, <3>2 DEF Queued, n
  <2>3. ASSUME msg.type = "NewTasks", t \in msg.tasks  PROVE  t \in Queued(to)
    <3>1. 1 \in 1 .. n
      BY SMT, <1>1
    <3>. QED  BY <1>1, <2>3, <3>1 DEF Queued, n
  <2>. QED  BY <2>1, <2>2, <2>3
<1>4. Queued(to) \subseteq Nat /\ Queued(to2) \subseteq Nat
  BY DEF Queued
<1>. QED  BY <1>2, <1>3, <1>4 DEF to2, msg

\* A request that is not about new tasks is sent.
LEMMA NotYetSend ==
    ASSUME NEW to \in Seq(ToTako), NEW msg \in ToTako, msg.type # "NewTasks",
           NEW H, NEW G, NEW T, SameRegister(H, G)
    PROVE  NotYet(Append(to, msg), G, T) = NotYet(to, H, T)
<1>1. Queued(Append(to, msg)) = Queued(to)
  BY QueuedAppend
<1>2. NotYet(Append(to, msg), H, T) = NotYet(to, H, T)
  BY <1>1, NotYetParts
<1>. QED  BY SMT, <1>2, NotYetFrame

\* A submit that has its stream sends its tasks.
LEMMA NotYetRegistered ==
    ASSUME NEW to \in Seq(ToTako), NEW msg \in ToTako, NEW H, NEW G, NEW T, NEW c \in Clients,
           Only(H, G, ClientWaits(c)), H[ClientWaits(c)].pc = "register",
           G[ClientWaits(c)].pc # "register",
           msg = [type |-> "NewTasks", tasks |-> T[H[ClientWaits(c)].job]]
    PROVE  NotYet(Append(to, msg), G, T) = NotYet(to, H, T)
<1>. DEFINE tasks == T[H[ClientWaits(c)].job]
<1>1. Queued(Append(to, msg)) = Queued(to) \cup tasks /\ tasks \subseteq Nat
  BY QueuedAppend DEF ToTako
<1>2. \A d \in Clients : ClientWaits(d) \in Waiting /\ (ClientWaits(d) = ClientWaits(c) => d = c)
  BY DEF Waiting, ClientWaits
<1>3. \A d \in Clients \ {c} : G[ClientWaits(d)] = H[ClientWaits(d)]
  BY <1>2 DEF Only
<1>4. Unregistered(H, T) = Unregistered(G, T) \cup tasks
  <2>1. ASSUME NEW t \in Unregistered(H, T)  PROVE  t \in Unregistered(G, T) \cup tasks
    <3>1. PICK d \in Clients : H[ClientWaits(d)].pc = "register" /\ t \in T[H[ClientWaits(d)].job]
      BY <2>1 DEF Unregistered
    <3>2. t \in Nat
      BY <2>1 DEF Unregistered
    <3>. QED  BY <1>3, <3>1, <3>2 DEF Unregistered
  <2>2. ASSUME NEW t \in Unregistered(G, T) \cup tasks  PROVE  t \in Unregistered(H, T)
    BY <1>1, <1>3, <2>2 DEF Unregistered
  <2>. QED  BY <2>1, <2>2
<1>. QED  BY <1>1, <1>4, NotYetParts

\* The tasks of a new job are added.
LEMMA NotYetSubmit ==
    ASSUME NEW to \in Seq(ToTako), NEW to2, NEW H, NEW G, NEW T, NEW U, Grows(T, U), NEW c \in Clients,
           Only(H, G, ClientWaits(c)), H[ClientWaits(c)].pc # "register", HandlersOK(H, T),
           NEW job \in DOMAIN U, U[job] \subseteq Nat,
           \/ to2 = to /\ G[ClientWaits(c)].pc = "register" /\ G[ClientWaits(c)].job = job
           \/ /\ to2 = Append(to, [type |-> "NewTasks", tasks |-> U[job]])
              /\ G[ClientWaits(c)].pc # "register"
    PROVE  NotYet(to2, G, U) = NotYet(to, H, T) \cup U[job]
<1>1. \A d \in Clients : ClientWaits(d) \in Waiting /\ (ClientWaits(d) = ClientWaits(c) => d = c)
  BY DEF Waiting, ClientWaits
<1>2. \A d \in Clients \ {c} : G[ClientWaits(d)] = H[ClientWaits(d)]
  BY <1>1 DEF Only
<1>3. \A d \in Clients : H[ClientWaits(d)].pc = "register" => U[H[ClientWaits(d)].job] = T[H[ClientWaits(d)].job]
  BY <1>1 DEF HandlersOK, HandlerOK, Grows
<1>4. Unregistered(G, U) = Unregistered(H, T) \cup (IF G[ClientWaits(c)].pc = "register" THEN U[job] ELSE {})
  <2>1. ASSUME NEW t \in Nat
        PROVE  t \in Unregistered(G, U) <=>
                   \/ t \in Unregistered(H, T)
                   \/ G[ClientWaits(c)].pc = "register" /\ t \in U[job]
    BY <1>2, <1>3 DEF Unregistered
  <2>2. Unregistered(G, U) \subseteq Nat /\ Unregistered(H, T) \subseteq Nat
    BY DEF Unregistered
  <2>. QED  BY <2>1, <2>2
<1>5. CASE to2 = to /\ G[ClientWaits(c)].pc = "register"
  BY <1>4, <1>5, NotYetParts
<1>6. CASE to2 = Append(to, [type |-> "NewTasks", tasks |-> U[job]]) /\ G[ClientWaits(c)].pc # "register"
  <2>. DEFINE msg == [type |-> "NewTasks", tasks |-> U[job]]
  <2>1. msg \in ToTako /\ msg.type = "NewTasks" /\ msg.tasks = U[job]
    BY DEF ToTako
  <2>2. Queued(to2) = Queued(to) \cup U[job]
    BY <1>6, <2>1, QueuedAppend
  <2>. QED  BY <1>4, <1>6, <2>2, NotYetParts
<1>. QED  BY <1>5, <1>6

\* No other submit has the tasks of the first request.
LEMMA FirstDisjoint ==
    ASSUME NEW from, InFlight(from) \in Nat, NEW to \in Seq(ToTako), NEW waiting \in Seq(Waiting),
           NEW H, NEW T, QueuesOK(from, to, waiting, H, T), HandlersOK(H, T), SubmitsDiffer(H),
           \A j, k \in DOMAIN T : j # k => T[j] \cap T[k] = {},
           to # <<>>, Head(to).type = "NewTasks"
    PROVE  Head(to).tasks \cap (Queued(Tail(to)) \cup Unregistered(H, T)) = {}
<1>. DEFINE n == InFlight(from)
            m == Len(to)
            who(i) == waiting[n + i]
<1>1. /\ m \in Nat \ {0} /\ Len(waiting) = n + m /\ to[1] = Head(to) /\ Len(Tail(to)) = m - 1
      /\ \A i \in 1 .. m - 1 : Tail(to)[i] = to[i + 1] /\ i + 1 \in 1 .. m
      /\ 1 \in 1 .. m
  BY SMT DEF QueuesOK
<1>2. ASSUME NEW i \in 1 .. m, to[i].type = "NewTasks"
      PROVE  /\ n + i \in 1 .. Len(waiting) /\ who(i) \in Waiting
             /\ H[who(i)].pc = "newtasks" /\ H[who(i)].job \in DOMAIN T
             /\ to[i].tasks = T[H[who(i)].job]
  <2>1. n + i \in 1 .. Len(waiting)
    BY SMT, <1>1
  <2>2. who(i) \in Waiting
    BY SMT, <2>1
  <2>. QED  BY <1>2, <2>1, <2>2 DEF QueuesOK, Asked
<1>3. \A i, k \in 1 .. Len(waiting) : waiting[i] = waiting[k] => i = k
  BY DEF QueuesOK
<1>4. ASSUME NEW t \in Head(to).tasks, NEW other \in Waiting, H[other].pc \in {"register", "newtasks"},
             H[other].job \in DOMAIN T, t \in T[H[other].job]
      PROVE  other = who(1)
  <2>1. /\ who(1) \in Waiting /\ H[who(1)].pc = "newtasks" /\ H[who(1)].job \in DOMAIN T
        /\ t \in T[H[who(1)].job]
    BY <1>1, <1>2
  <2>2. H[who(1)].job = H[other].job
    BY <1>4, <2>1
  <2>. QED  BY <1>4, <2>1, <2>2 DEF SubmitsDiffer
<1>5. ASSUME NEW t \in Head(to).tasks, t \in Queued(Tail(to))  PROVE  FALSE
  <2>1. PICK i \in 1 .. m - 1 : to[i + 1].type = "NewTasks" /\ t \in to[i + 1].tasks /\ i + 1 \in 1 .. m
    BY <1>1, <1>5 DEF Queued
  <2>2. who(i + 1) = who(1)
    BY <1>2, <1>4, <2>1
  <2>3. n + (i + 1) \in 1 .. Len(waiting) /\ n + 1 \in 1 .. Len(waiting)
    BY <1>1, <1>2, <2>1
  <2>4. n + (i + 1) = n + 1
    BY <1>3, <2>2, <2>3
  <2>. QED  BY SMT, <2>1, <2>4
<1>6. ASSUME NEW t \in Head(to).tasks, t \in Unregistered(H, T)  PROVE  FALSE
  <2>1. PICK c \in Clients : H[ClientWaits(c)].pc = "register" /\ t \in T[H[ClientWaits(c)].job]
    BY <1>6 DEF Unregistered
  <2>2. ClientWaits(c) \in Waiting
    BY DEF Waiting, ClientWaits
  <2>3. H[ClientWaits(c)].job \in DOMAIN T
    BY <2>1, <2>2 DEF HandlersOK, HandlerOK
  <2>4. ClientWaits(c) = who(1)
    BY <1>4, <2>1, <2>2, <2>3
  <2>5. H[who(1)].pc = "newtasks"
    BY <1>1, <1>2
  <2>. QED  BY <2>1, <2>4, <2>5
<1>. QED  BY <1>5, <1>6
----------------------------------------------------------------------------
(* The handlers of clients.                                                *)

\* A handler goes on and nothing that is known of tasks changes.
LEMMA SilentAgreement ==
    ASSUME NEW V, Agreement(V), UNCHANGED <<from_tako, jobs, workers, tako_tasks, tako_workers>>,
           \A who \in Waiting : Hand(Handlers'[who]) = Hand(Handlers[who]),
           NotYet(to_tako', Handlers', TasksOf(jobs')) = NotYet(to_tako, Handlers, TasksOf(jobs))
    PROVE  Agreement(V)'
<1>. DEFINE pending == NotYet(to_tako, Handlers, TasksOf(jobs))
<1>1. Agrees(V, from_tako, jobs, Handlers, workers, tako_tasks, pending, tako_workers)
  BY DEF Agreement
<1>. HIDE DEF pending
<1>2. ServerHands(V[0], Handlers')
  <2>1. ServerHands(V[0], Handlers)
    BY <1>1 DEF Agrees
  <2>. QED  BY <2>1, HandsFrame
<1>3. Agrees(V, from_tako, jobs, Handlers', workers, tako_tasks, pending, tako_workers)
  BY <1>1, <1>2 DEF Agrees
<1>4. NotYet(to_tako', Handlers', TasksOf(jobs')) = pending
  BY DEF pending
<1>. QED  BY <1>3, <1>4 DEF Agreement

\* Tako's answer to a cancel finds the tasks of the job not ended.
LEMMA HandCancels ==
    ASSUME BasicInv, NEW V, Agreement(V), NEW who \in Waiting, NEW j \in DOMAIN jobs,
           Hand(Handlers[who]) \subseteq DOMAIN jobs[j].tasks
    PROVE  /\ can_cancel(jobs[j], Hand(Handlers[who]))
           /\ \A t \in Hand(Handlers[who]) : t \in Nat /\ V[0].task[t] = "canceling"
<1>1. ServerTasks(V[0], jobs) /\ ServerHands(V[0], Handlers)
  BY DEF Agreement, Agrees
<1>2. \A t \in Hand(Handlers[who]) : t \in Nat /\ V[0].task[t] = "canceling"
  BY <1>1 DEF ServerHands, Hand
<1>3. \A t \in Hand(Handlers[who]) : jobs[j].tasks[t] \in NonFinished
  BY <1>1, <1>2 DEF ServerTasks, Seen
<1>. QED  BY <1>2, <1>3 DEF can_cancel, InState

\* A handler sets the tasks it has in hand canceled.
LEMMA CancelAgreement ==
    ASSUME StepFacts, NEW V, Agreement(V), NEW who \in Waiting, Only(Handlers, Handlers', who),
           Hand(Handlers'[who]) = {}, NEW j \in DOMAIN jobs,
           NEW ids, ids = Hand(Handlers[who]), ids \subseteq DOMAIN jobs[j].tasks,
           jobs' = [jobs EXCEPT ![j] = set_cancel_state(jobs[j], ids)],
           UNCHANGED <<from_tako, workers, tako_tasks, tako_workers>>,
           NotYet(to_tako', Handlers', TasksOf(jobs)) = NotYet(to_tako, Handlers, TasksOf(jobs))
    PROVE  \E W : W = Relabelled(V, from_tako, ids, "gone") /\ Agreement(W)'
<1>. DEFINE pending == NotYet(to_tako, Handlers, TasksOf(jobs))
            n == Len(from_tako)
            v == V[0]
            u == Relabel(v, ids, "gone")
            H == Handlers
            G == Handlers'
<1>1. /\ from_tako \in Seq(FromTako)
      /\ \A i \in DOMAIN jobs : JobTypeOK(jobs[i]) /\ DOMAIN jobs[i].tasks \subseteq Nat
      /\ BasicInv
  BY ReportTypes DEF StepFacts
<1>2. /\ Agrees(V, from_tako, jobs, H, workers, tako_tasks, pending, tako_workers)
      /\ Trace(V, from_tako) /\ ServerTasks(v, jobs) /\ ServerHands(v, H)
      /\ TakoView(V[n], tako_tasks, pending)
  BY DEF Agreement, Agrees
<1>3. ids \subseteq Nat /\ \A t \in ids : v.task[t] = "canceling"
  BY <1>1, HandCancels
<1>4. v \in View /\ V[n] \in View /\ Later(v, V[n])
  BY <1>1, <1>2, TraceEnds
<1>5. \A t \in ids : V[n].task[t] = "canceling"
  BY <1>3, <1>4 DEF Later, Held
<1>6. /\ TasksChanged(jobs, jobs', ids)
      /\ \A t \in ids : jobs'[j].tasks[t] = "Canceled"
  <2>. DEFINE job == set_cancel_state(jobs[j], ids)
  <2>1. Changed(jobs[j], job, ids) /\ \A t \in ids : job.tasks[t] = "Canceled"
    BY <1>1, CancelFields
  <2>2. jobs' = [jobs EXCEPT ![j] = job]
    OBVIOUS
  <2>. HIDE DEF job
  <2>3. TasksChanged(jobs, jobs', ids) /\ jobs'[j] = job
    BY ONLY <2>1, <2>2, j \in DOMAIN jobs, OneChanged
  <2>. QED  BY <2>1, <2>3
<1>7. NotYet(to_tako', G, TasksOf(jobs')) = pending
  BY <1>6, SameTasks
<1>8. /\ \A t \in Nat : u.task[t] = IF t \in ids THEN "gone" ELSE v.task[t]
      /\ u.on = v.on
  BY DEF Relabel
<1>9. \A t \in ids : \A i \in DOMAIN jobs : t \in DOMAIN jobs[i].tasks => i = j
  BY <1>1, <1>3 DEF BasicInv
<1>. HIDE DEF pending, n, v, u, H, G
<1>10. ServerTasks(u, jobs')
  <2>1. \A i \in DOMAIN jobs : \A t \in ids \cap DOMAIN jobs[i].tasks :
            Seen(u.task[t], u.on[t], jobs'[i].tasks[t], jobs'[i].worker[t])
    BY <1>3, <1>6, <1>8, <1>9 DEF Seen, Terminal
  <2>2. \A t \in ids : u.task[t] # "gone" => v.task[t] # "gone"
    BY <1>3, <1>8
  <2>3. \A t \in Nat \ ids : u.task[t] = v.task[t] /\ u.on[t] = v.on[t]
    BY <1>8
  <2>4. \A i \in DOMAIN jobs : DOMAIN jobs[i].tasks \subseteq Nat
    BY <1>1
  <2>. QED  BY ONLY SMT, <1>2, <1>6, <2>1, <2>2, <2>3, <2>4, SeenAfter
<1>11. ServerHands(u, G)
  <2>1. /\ \A t \in Nat : v.task[t] = "canceling" <=> \E x \in Waiting : t \in Hand(H[x])
        /\ \A x, y \in Waiting : x # y => Hand(H[x]) \cap Hand(H[y]) = {}
    BY <1>2 DEF ServerHands
  <2>2. /\ \A x \in Waiting \ {who} : Hand(G[x]) = Hand(H[x])
        /\ Hand(G[who]) = {} /\ Hand(H[who]) = ids
    BY DEF Only, H, G
  <2>3. \A t \in Nat : u.task[t] = "canceling" <=> v.task[t] = "canceling" /\ t \notin ids
    BY <1>3, <1>8
  <2>4. \A t \in Nat : u.task[t] = "canceling" <=> \E x \in Waiting : t \in Hand(G[x])
    BY <2>1, <2>2, <2>3
  <2>5. \A x, y \in Waiting : x # y => Hand(G[x]) \cap Hand(G[y]) = {}
    BY <2>1, <2>2
  <2>. QED  BY <2>4, <2>5 DEF ServerHands
<1>12. TakoView(Relabel(V[n], ids, "gone"), tako_tasks, pending)
  <2>1. /\ \A t \in Nat : Relabel(V[n], ids, "gone").task[t] = IF t \in ids THEN "gone" ELSE V[n].task[t]
        /\ Relabel(V[n], ids, "gone").on = V[n].on
    BY DEF Relabel
  <2>. QED  BY <1>2, <1>5, <2>1 DEF TakoView, Held
<1>13. Agrees(Relabelled(V, from_tako, ids, "gone"), from_tako, jobs', G, workers, tako_tasks, pending, tako_workers)
  <2>1. "canceling" \notin Held /\ "gone" \in {"waiting", "gone"}
    BY DEF Held
  <2>2. ServerTasks(Relabel(V[0], ids, "gone"), jobs') /\ ServerHands(Relabel(V[0], ids, "gone"), G)
    BY <1>10, <1>11 DEF u, v
  <2>3. \A t \in ids : V[0].task[t] = "canceling"
    BY <1>3 DEF v
  <2>4. TakoView(Relabel(V[Len(from_tako)], ids, "gone"), tako_tasks, pending)
    BY <1>12 DEF n
  <2>. QED  BY ONLY <1>1, <1>2, <1>3, <2>1, <2>2, <2>3, <2>4, RelabelAgrees
<1>14. PICK W : W = Relabelled(V, from_tako, ids, "gone")
  OBVIOUS
<1>15. Agreement(W)'
  BY <1>7, <1>13, <1>14 DEF Agreement, G
<1>. QED  BY <1>14, <1>15

\* handle_submit adds tasks that tako has not seen.
LEMMA SubmitAgreement ==
    ASSUME StepFacts, RpcInv, NEW V, Agreement(V), NEW c \in Clients, NEW spec, spec.n \in Nat,
           Submitted(c, spec)
    PROVE  \E W : /\ W = Relabelled(V, from_tako, DOMAIN jobs'[job_id_counter].tasks, "waiting")
                  /\ Agreement(W)'
<1>. DEFINE pending == NotYet(to_tako, Handlers, TasksOf(jobs))
            n == Len(from_tako)
            j == job_id_counter
            job == new(task_id_counter, spec)
            ids == DOMAIN job.tasks
            v == V[0]
            u == Relabel(v, ids, "waiting")
            H == Handlers
            G == Handlers'
            who == ClientWaits(c)
<1>1. /\ from_tako \in Seq(FromTako) /\ to_tako \in Seq(ToTako) /\ BasicInv
      /\ \A i \in DOMAIN jobs : DOMAIN jobs[i].tasks \subseteq Nat
      /\ task_id_counter \in Nat /\ j \in Nat
  BY ReportTypes DEF StepFacts, BasicInv, TypeOK, RpcTypeOK, StateTypeOK
<1>2. /\ Agrees(V, from_tako, jobs, H, workers, tako_tasks, pending, tako_workers)
      /\ Trace(V, from_tako) /\ ServerTasks(v, jobs) /\ ServerHands(v, H)
      /\ TakoView(V[n], tako_tasks, pending)
  BY DEF Agreement, Agrees
<1>3. /\ jobs' = Insert(jobs, j, job) /\ Only(H, G, who) /\ Quiet(H[who])
      /\ UNCHANGED <<from_tako, workers, tako_tasks, tako_workers>>
  BY DEF Submitted, takoVars
<1>4. \/ to_tako' = to_tako /\ G[who] = Sent("register", j)
      \/ to_tako' = Append(to_tako, [type |-> "NewTasks", tasks |-> ids]) /\ G[who] = Sent("newtasks", j)
  BY DEF Submitted, rpcVars, send_tako_message, NewTasks
<1>5. /\ ids = task_id_counter .. (task_id_counter + spec.n - 1)
      /\ \A t \in ids : job.tasks[t] = "Waiting"
  BY DEF new
<1>6. ids \subseteq Nat /\ \A t \in ids : ~ (t < task_id_counter)
  BY SMT, <1>1, <1>5
<1>7. /\ j \notin DOMAIN jobs
      /\ \A i \in DOMAIN jobs : \A t \in DOMAIN jobs[i].tasks : t \notin ids
  <2>1. j \notin DOMAIN jobs
    BY SMT, <1>1 DEF BasicInv
  <2>. QED  BY <1>1, <1>6, <2>1 DEF BasicInv
<1>. HIDE DEF pending, n, j, job, v, u, H, G, who
<1>8. /\ DOMAIN jobs' = DOMAIN jobs \cup {j} /\ jobs'[j] = job
      /\ \A i \in DOMAIN jobs : jobs'[i] = jobs[i]
  BY <1>3, <1>7 DEF Insert
<1>9. \A t \in ids : v.task[t] = "gone"
  BY <1>2, <1>6, <1>7 DEF ServerTasks
<1>. HIDE DEF ids
<1>10. v \in View /\ V[n] \in View /\ Later(v, V[n])
  BY <1>1, <1>2, TraceEnds DEF v, n
<1>11. \A t \in ids : V[n].task[t] = "gone"
  BY <1>6, <1>9, <1>10 DEF Later, Held
<1>12. /\ \A t \in Nat : u.task[t] = IF t \in ids THEN "waiting" ELSE v.task[t]
       /\ u.on = v.on
  BY DEF Relabel, u
<1>13. ServerTasks(u, jobs')
  <2>1. ASSUME NEW i \in DOMAIN jobs', NEW t \in DOMAIN jobs'[i].tasks
        PROVE  Seen(u.task[t], u.on[t], jobs'[i].tasks[t], jobs'[i].worker[t])
    <3>1. CASE i = j
      BY <1>5, <1>6, <1>8, <1>12, <3>1 DEF Seen, ids
    <3>2. CASE i \in DOMAIN jobs
      <4>1. t \in DOMAIN jobs[i].tasks /\ t \in Nat /\ t \notin ids /\ jobs'[i] = jobs[i]
        BY <1>1, <1>7, <1>8, <3>2
      <4>. QED  BY <1>2, <1>12, <3>2, <4>1 DEF ServerTasks
    <3>. QED  BY <1>8, <3>1, <3>2
  <2>2. ASSUME NEW t \in Nat, u.task[t] # "gone"
        PROVE  \E i \in DOMAIN jobs' : t \in DOMAIN jobs'[i].tasks
    <3>1. CASE t \in ids
      BY <1>8, <3>1 DEF ids
    <3>2. CASE t \notin ids
      BY <1>2, <1>8, <1>12, <2>2, <3>2 DEF ServerTasks
    <3>. QED  BY <3>1, <3>2
  <2>. QED  BY <2>1, <2>2 DEF ServerTasks
<1>14. ServerHands(u, G)
  <2>1. Hand(H[who]) = {} /\ Hand(G[who]) = {}
    BY SMT, <1>3, <1>4 DEF Hand, Quiet, Sent
  <2>2. \A x \in Waiting : Hand(G[x]) = Hand(H[x])
    BY <1>3, <2>1 DEF Only
  <2>3. \A t \in Nat : u.task[t] = "canceling" <=> v.task[t] = "canceling"
    BY <1>9, <1>12
  <2>. QED  BY SMTT(30), <1>2, <2>2, <2>3, HandsFrame
<1>15. NotYet(to_tako', G, TasksOf(jobs')) = pending \cup ids
  <2>. DEFINE T == TasksOf(jobs)
              U == TasksOf(jobs')
  <2>1. /\ Grows(T, U) /\ HandlersOK(H, T) /\ j \in DOMAIN U /\ U[j] = ids
    BY <1>8 DEF StepFacts, RpcInv, TasksOf, H, ids
  <2>2. /\ H[who].pc # "register"
        /\ \/ to_tako' = to_tako /\ G[who].pc = "register" /\ G[who].job = j
           \/ to_tako' = Append(to_tako, [type |-> "NewTasks", tasks |-> U[j]]) /\ G[who].pc # "register"
    BY SMTT(30), <1>3, <1>4, <2>1 DEF Quiet, Sent
  <2>3. U[j] \subseteq Nat /\ Only(H, G, ClientWaits(c))
    BY <1>3, <1>6, <2>1 DEF who
  <2>4. NotYet(to_tako', G, U) = NotYet(to_tako, H, T) \cup U[j]
    <3>. HIDE DEF T, U
    <3>. QED  BY ONLY SMT, <1>1, <2>1, <2>2, <2>3, c \in Clients, NotYetSubmit DEF who
  <2>. QED  BY <2>1, <2>4 DEF pending, H
<1>16. TakoView(Relabel(V[n], ids, "waiting"), tako_tasks, pending \cup ids)
  <2>1. /\ \A t \in Nat : Relabel(V[n], ids, "waiting").task[t] = IF t \in ids THEN "waiting" ELSE V[n].task[t]
        /\ Relabel(V[n], ids, "waiting").on = V[n].on
    BY DEF Relabel
  <2>. QED  BY <1>2, <1>11, <2>1 DEF TakoView, Held
<1>17. Agrees(Relabelled(V, from_tako, ids, "waiting"), from_tako, jobs', G, workers, tako_tasks,
              pending \cup ids, tako_workers)
  <2>1. "gone" \notin Held /\ "waiting" \in {"waiting", "gone"}
    BY DEF Held
  <2>2. ServerTasks(Relabel(V[0], ids, "waiting"), jobs') /\ ServerHands(Relabel(V[0], ids, "waiting"), G)
    BY <1>13, <1>14 DEF u, v
  <2>3. \A t \in ids : V[0].task[t] = "gone"
    BY <1>9 DEF v
  <2>4. TakoView(Relabel(V[Len(from_tako)], ids, "waiting"), tako_tasks, pending \cup ids)
    BY <1>16 DEF n
  <2>. QED  BY ONLY <1>1, <1>2, <1>6, <2>1, <2>2, <2>3, <2>4, RelabelAgrees
<1>18. PICK W : W = Relabelled(V, from_tako, ids, "waiting")
  OBVIOUS
<1>19. Agreement(W)'
  BY <1>3, <1>15, <1>17, <1>18 DEF Agreement, G
<1>. QED  BY <1>8, <1>18, <1>19 DEF ids, j
----------------------------------------------------------------------------
(* Tako.                                                                   *)

\* What tako knows, in front of its next message.
LEMMA TakoEnd ==
    ASSUME BasicInv, NEW V, Agreement(V)
    PROVE  LET v == V[Len(from_tako)]
           IN  /\ v \in View /\ Plausible(v) /\ v.worker = tako_workers
               /\ TakoView(v, tako_tasks, NotYet(to_tako, Handlers, TasksOf(jobs)))
               /\ DOMAIN tako_tasks \subseteq Nat
               /\ tako_tasks \in [DOMAIN tako_tasks -> Workers \cup {Ready}]
<1>1. from_tako \in Seq(FromTako)
  BY ReportTypes
<1>2. /\ Trace(V, from_tako) /\ V[Len(from_tako)].worker = tako_workers
      /\ TakoView(V[Len(from_tako)], tako_tasks, NotYet(to_tako, Handlers, TasksOf(jobs)))
  BY DEF Agreement, Agrees
<1>3. V[Len(from_tako)] \in View /\ Plausible(V[Len(from_tako)])
  BY <1>1, <1>2, TraceEnds
<1>. QED  BY <1>2, <1>3 DEF BasicInv, TypeOK, TakoTypeOK

\* Tako has sent a message.
LEMMA TakoAgreement ==
    ASSUME BasicInv, NEW V, Agreement(V), UNCHANGED <<jobs, workers, client, callbacks>>,
           NEW msg \in FromTako, from_tako' = Append(from_tako, msg),
           NEW u \in View, Advances(msg, V[Len(from_tako)], u), u.worker = tako_workers',
           TakoView(u, tako_tasks', NotYet(to_tako', Handlers, TasksOf(jobs)))
    PROVE  \E W : W = Extend(V, from_tako, u) /\ Agreement(W)'
<1>. DEFINE pending == NotYet(to_tako, Handlers, TasksOf(jobs))
            pending2 == NotYet(to_tako', Handlers, TasksOf(jobs))
<1>1. from_tako \in Seq(FromTako)
  BY ReportTypes
<1>2. Agrees(V, from_tako, jobs, Handlers, workers, tako_tasks, pending, tako_workers)
  BY DEF Agreement
<1>3. TakoView(u, tako_tasks', pending2)
  OBVIOUS
<1>. HIDE DEF pending, pending2
<1>4. Agrees(Extend(V, from_tako, u), Append(from_tako, msg), jobs, Handlers, workers, tako_tasks', pending2, u.worker)
  BY <1>1, <1>2, <1>3, ReportAgrees
<1>5. PICK W : W = Extend(V, from_tako, u)
  OBVIOUS
<1>6. Handlers' = Handlers
  BY SameHandlers
<1>7. Agreement(W)'
  BY <1>4, <1>5, <1>6 DEF Agreement, pending2
<1>. QED  BY <1>5, <1>7

\* Tasks that tako holds move: it forgets them, gets them ready or runs them.
HeldMoves(held, held2, ids, to, u) ==
    /\ ids \subseteq DOMAIN held /\ ids \subseteq Nat
    /\ \A t \in Nat \ ids : /\ t \in DOMAIN held2 <=> t \in DOMAIN held
                            /\ t \in DOMAIN held => held2[t] = held[t]
    /\ \A t \in ids : \/ t \notin DOMAIN held2 /\ to \notin Held
                      \/ t \in DOMAIN held2 /\ held2[t] = Ready /\ to = "waiting"
                      \/ t \in DOMAIN held2 /\ held2[t] # Ready /\ to = "running" /\ u.on[t] = held2[t]

\* Tako's view follows.
LEMMA TakoMoves ==
    ASSUME NEW v, NEW u, NEW held, NEW held2, NEW pending, TakoView(v, held, pending),
           NEW ids, NEW to, HeldMoves(held, held2, ids, to, u),
           \A t \in Nat : u.task[t] = IF t \in ids THEN to ELSE v.task[t],
           \A t \in Nat \ ids : u.on[t] = v.on[t]
    PROVE  TakoView(u, held2, pending)
<1>. SUFFICES ASSUME NEW t \in Nat
              PROVE  /\ t \in DOMAIN held2 /\ held2[t] = Ready => u.task[t] = "waiting" /\ t \notin pending
                     /\ t \in DOMAIN held2 /\ held2[t] # Ready =>
                           u.task[t] = "running" /\ u.on[t] = held2[t] /\ t \notin pending
                     /\ t \notin DOMAIN held2 /\ t \in pending => u.task[t] = "waiting"
                     /\ t \notin DOMAIN held2 /\ t \notin pending => u.task[t] \notin Held
  BY DEF TakoView
<1>1. u.task[t] = IF t \in ids THEN to ELSE v.task[t]
  OBVIOUS
<1>2. CASE t \in ids
  <2>1. t \notin pending
    BY <1>2 DEF TakoView, HeldMoves
  <2>. QED  BY <1>1, <1>2, <2>1 DEF HeldMoves
<1>3. CASE t \notin ids
  BY <1>1, <1>3 DEF TakoView, HeldMoves
<1>. QED  BY <1>2, <1>3

\* A view with other tasks, or with other workers.
MovedTo(v, ids, to, on, worker) ==
    [task |-> [t \in Nat |-> IF t \in ids THEN to ELSE v.task[t]], on |-> on, worker |-> worker]

\* It is a view.
LEMMA MovedView ==
    ASSUME NEW v \in View, NEW ids, NEW to \in {"waiting", "running", "canceling", "gone"},
           NEW on \in [Nat -> Workers \cup {NoWorker}],
           NEW worker \in [Workers -> {"unused", "connected", "lost"}]
    PROVE  LET u == MovedTo(v, ids, to, on, worker)
           IN  /\ u \in View /\ u.on = on /\ u.worker = worker
               /\ u.task = [t \in Nat |-> IF t \in ids THEN to ELSE v.task[t]]
               /\ \A t \in Nat : u.task[t] = IF t \in ids THEN to ELSE v.task[t]
<1>1. [t \in Nat |-> IF t \in ids THEN to ELSE v.task[t]] \in [Nat -> {"waiting", "running", "canceling", "gone"}]
  BY DEF View
<1>. QED  BY <1>1 DEF View, MovedTo

\* Tako answers a request and nothing happens to tasks and workers.
LEMMA TakoSilent ==
    ASSUME BasicInv, NEW V, Agreement(V), NEW type, TakoAnswers(type), type # "NewTasks",
           UNCHANGED <<tako_tasks, tako_workers>>,
           NEW msg \in FromTako, from_tako' = Append(from_tako, msg), msg.type \in {"WorkerStopped", "Error"}
    PROVE  \E W : W = Extend(V, from_tako, V[Len(from_tako)]) /\ Agreement(W)'
<1>. DEFINE v == V[Len(from_tako)]
<1>1. /\ v \in View /\ v.worker = tako_workers
      /\ TakoView(v, tako_tasks, NotYet(to_tako, Handlers, TasksOf(jobs)))
  BY TakoEnd
<1>2. /\ to_tako # <<>> /\ Head(to_tako).type # "NewTasks" /\ to_tako' = Tail(to_tako)
      /\ UNCHANGED <<jobs, workers, client, callbacks>>
  BY DEF TakoAnswers, stateVars, handlerVars
<1>3. Queued(to_tako') = Queued(to_tako)
  <2>1. to_tako \in Seq(ToTako)
    BY DEF BasicInv, TypeOK, RpcTypeOK
  <2>. QED  BY <1>2, <2>1, QueuedTail
<1>4. NotYet(to_tako', Handlers, TasksOf(jobs)) = NotYet(to_tako, Handlers, TasksOf(jobs))
  BY <1>3, NotYetParts
<1>5. Advances(msg, v, v)
  BY DEF Advances
<1>. HIDE DEF v
<1>6. TakoView(v, tako_tasks', NotYet(to_tako', Handlers, TasksOf(jobs))) /\ v.worker = tako_workers'
  BY <1>1, <1>4
<1>. QED  BY <1>1, <1>2, <1>5, <1>6, TakoAgreement DEF v

\* Tako forgets the tasks it cancels, and names them in its answer.
LEMMA TakoCancelAgreement ==
    ASSUME BasicInv, NEW V, Agreement(V), TakoCancelTasks
    PROVE  \E u : \E W : W = Extend(V, from_tako, u) /\ Agreement(W)'
<1>. DEFINE v == V[Len(from_tako)]
            pending == NotYet(to_tako, Handlers, TasksOf(jobs))
            ids == Head(to_tako).tasks \cap DOMAIN tako_tasks
            msg == [type |-> "CancelTasksResponse", tasks |-> ids]
<1>1. /\ v \in View /\ v.worker = tako_workers
      /\ TakoView(v, tako_tasks, pending)
      /\ DOMAIN tako_tasks \subseteq Nat
  BY TakoEnd
<1>2. /\ to_tako # <<>> /\ Head(to_tako).type # "NewTasks" /\ to_tako' = Tail(to_tako)
      /\ UNCHANGED <<jobs, workers, client, callbacks, tako_workers>>
      /\ tako_tasks' = Remove(tako_tasks, ids) /\ from_tako' = Append(from_tako, msg)
  BY DEF TakoCancelTasks, TakoAnswers, stateVars, handlerVars
<1>3. Queued(to_tako') = Queued(to_tako)
  <2>1. to_tako \in Seq(ToTako)
    BY DEF BasicInv, TypeOK, RpcTypeOK
  <2>. QED  BY <1>2, <2>1, QueuedTail
<1>4. NotYet(to_tako', Handlers, TasksOf(jobs)) = pending
  BY <1>3, NotYetParts
<1>5. PICK u : u = MovedTo(v, ids, "canceling", v.on, v.worker)
  OBVIOUS
<1>6. msg \in FromTako /\ ids \subseteq Nat /\ msg.type = "CancelTasksResponse" /\ msg.tasks = ids
  BY <1>1 DEF FromTako, Response
<1>. HIDE DEF v, pending, ids, msg
<1>7. /\ u \in View /\ u.on = v.on /\ u.worker = v.worker
      /\ u.task = [t \in Nat |-> IF t \in ids THEN "canceling" ELSE v.task[t]]
      /\ \A t \in Nat : u.task[t] = IF t \in ids THEN "canceling" ELSE v.task[t]
  <2>1. v.on \in [Nat -> Workers \cup {NoWorker}] /\ v.worker \in [Workers -> {"unused", "connected", "lost"}]
    BY <1>1 DEF View
  <2>. QED  BY SMT, <1>1, <1>5, <2>1, MovedView
<1>8. \A t \in ids : t \in Nat /\ v.task[t] \in Held
  BY <1>1, <1>6 DEF TakoView, Held, ids
<1>9. Advances(msg, v, u)
  BY <1>6, <1>7, <1>8 DEF Advances, Moves
<1>10. TakoView(u, tako_tasks', pending)
  <2>1. /\ DOMAIN tako_tasks' = DOMAIN tako_tasks \ ids
        /\ \A t \in DOMAIN tako_tasks \ ids : tako_tasks'[t] = tako_tasks[t]
    BY <1>2 DEF Remove
  <2>2. HeldMoves(tako_tasks, tako_tasks', ids, "canceling", u)
    BY <1>6, <2>1 DEF HeldMoves, Held, ids
  <2>. QED  BY SMT, <1>1, <1>7, <2>2, TakoMoves
<1>11. TakoView(u, tako_tasks', NotYet(to_tako', Handlers, TasksOf(jobs))) /\ u.worker = tako_workers'
  BY <1>1, <1>2, <1>4, <1>7, <1>10
<1>12. \E W : W = Extend(V, from_tako, u) /\ Agreement(W)'
  BY <1>2, <1>6, <1>7, <1>9, <1>11, TakoAgreement DEF v
<1>. QED  BY <1>12

\* Tako gets the tasks of a submit: they were pending, and are ready now.
LEMMA TakoNewAgreement ==
    ASSUME BasicInv, RpcInv, InFlight(from_tako) \in Nat, NEW V, Agreement(V), TakoNewTasks
    PROVE  \E u : \E W : W = Extend(V, from_tako, u) /\ Agreement(W)'
<1>. DEFINE v == V[Len(from_tako)]
            T == TasksOf(jobs)
            pending == NotYet(to_tako, Handlers, T)
            pending2 == NotYet(to_tako', Handlers, T)
            ids == Head(to_tako).tasks
            msg == [type |-> "NewTasksResponse"]
<1>1. /\ v \in View /\ v.worker = tako_workers
      /\ TakoView(v, tako_tasks, pending)
  BY TakoEnd
<1>2. /\ to_tako # <<>> /\ Head(to_tako).type = "NewTasks" /\ to_tako' = Tail(to_tako)
      /\ UNCHANGED <<jobs, workers, client, callbacks, tako_workers>>
      /\ tako_tasks' = [t \in DOMAIN tako_tasks \cup ids |-> IF t \in ids THEN Ready ELSE tako_tasks[t]]
      /\ from_tako' = Append(from_tako, msg)
  BY DEF TakoNewTasks, TakoAnswers, stateVars, handlerVars
<1>3. to_tako \in Seq(ToTako) /\ tako_responses \in Seq(Waiting)
  BY DEF BasicInv, TypeOK, RpcTypeOK
<1>4. Queued(to_tako) = ids \cup Queued(to_tako')
  BY <1>2, <1>3, QueuedTail
<1>5. ids \cap (Queued(to_tako') \cup Unregistered(Handlers, T)) = {}
  <2>1. \A j, k \in DOMAIN T : j # k => T[j] \cap T[k] = {}
    BY SMT DEF BasicInv, TasksOf
  <2>2. /\ QueuesOK(from_tako, to_tako, tako_responses, Handlers, T)
        /\ HandlersOK(Handlers, T) /\ SubmitsDiffer(Handlers)
    BY DEF RpcInv
  <2>. HIDE DEF T
  <2>3. ids \cap (Queued(Tail(to_tako)) \cup Unregistered(Handlers, T)) = {}
    BY <1>2, <1>3, <2>1, <2>2, FirstDisjoint
  <2>. QED  BY <1>2, <2>3
<1>6. pending = Queued(to_tako) \cup Unregistered(Handlers, T) /\ pending2 = Queued(to_tako') \cup Unregistered(Handlers, T)
  BY NotYetParts
<1>. HIDE DEF T, pending, pending2, v, ids
<1>7. pending = ids \cup pending2 /\ ids \cap pending2 = {}
  BY <1>4, <1>5, <1>6
<1>8. /\ DOMAIN tako_tasks' = DOMAIN tako_tasks \cup ids
      /\ \A t \in DOMAIN tako_tasks' : tako_tasks'[t] = IF t \in ids THEN Ready ELSE tako_tasks[t]
  BY <1>2
<1>9. TakoView(v, tako_tasks', pending2)
  <2>. SUFFICES ASSUME NEW t \in Nat
                PROVE  /\ t \in DOMAIN tako_tasks' /\ tako_tasks'[t] = Ready => v.task[t] = "waiting" /\ t \notin pending2
                       /\ t \in DOMAIN tako_tasks' /\ tako_tasks'[t] # Ready =>
                             v.task[t] = "running" /\ v.on[t] = tako_tasks'[t] /\ t \notin pending2
                       /\ t \notin DOMAIN tako_tasks' /\ t \in pending2 => v.task[t] = "waiting"
                       /\ t \notin DOMAIN tako_tasks' /\ t \notin pending2 => v.task[t] \notin Held
    BY DEF TakoView
  <2>1. CASE t \in ids
    <3>1. t \in pending /\ t \notin pending2
      BY <1>7, <2>1
    <3>2. v.task[t] = "waiting"
      BY <1>1, <3>1 DEF TakoView
    <3>. QED  BY <1>8, <2>1, <3>1, <3>2
  <2>2. CASE t \notin ids
    <3>1. t \in pending <=> t \in pending2
      BY <1>7, <2>2
    <3>. QED  BY <1>1, <1>8, <2>2, <3>1 DEF TakoView
  <2>. QED  BY <2>1, <2>2
<1>10. msg \in FromTako /\ Advances(msg, v, v)
  BY DEF FromTako, Response, Advances
<1>11. TakoView(v, tako_tasks', NotYet(to_tako', Handlers, TasksOf(jobs))) /\ v.worker = tako_workers'
  BY <1>1, <1>2, <1>9 DEF pending2, T
<1>12. Advances(msg, V[Len(from_tako)], v)
  BY <1>10 DEF v
<1>. HIDE DEF msg
<1>13. \E W : W = Extend(V, from_tako, v) /\ Agreement(W)'
  BY <1>1, <1>2, <1>10, <1>11, <1>12, TakoAgreement
<1>. QED  BY <1>13

\* Tako reports an event.
LEMMA EventFrame ==
    ASSUME NEW msg, TakoReports(msg)
    PROVE  /\ UNCHANGED <<jobs, workers, client, callbacks, to_tako>>
           /\ from_tako' = Append(from_tako, msg)
  BY DEF TakoReports, stateVars, handlerVars, rpcVars

\* A worker connects.
LEMMA ConnectsAgreement ==
    ASSUME BasicInv, NEW V, Agreement(V), NEW w \in Workers, TakoWorkerConnects(w)
    PROVE  \E u : \E W : W = Extend(V, from_tako, u) /\ Agreement(W)'
<1>. DEFINE v == V[Len(from_tako)]
            pending == NotYet(to_tako, Handlers, TasksOf(jobs))
            msg == [type |-> "NewWorker", worker |-> w]
<1>1. v \in View /\ v.worker = tako_workers /\ TakoView(v, tako_tasks, pending)
  BY TakoEnd
<1>2. /\ tako_workers[w] = "unused" /\ TakoReports(msg)
      /\ tako_workers' = [tako_workers EXCEPT ![w] = "connected"] /\ tako_tasks' = tako_tasks
  BY DEF TakoWorkerConnects
<1>3. msg \in FromTako /\ msg.type = "NewWorker" /\ msg.worker = w
  BY DEF FromTako
<1>. HIDE DEF v, pending, msg
<1>4. PICK u \in View : u.task = v.task /\ u.on = v.on /\ u.worker = [v.worker EXCEPT ![w] = "connected"]
  <2>. DEFINE new_ == [task |-> v.task, on |-> v.on, worker |-> [v.worker EXCEPT ![w] = "connected"]]
  <2>1. new_ \in View /\ new_.task = v.task /\ new_.on = v.on /\ new_.worker = [v.worker EXCEPT ![w] = "connected"]
    BY <1>1 DEF View
  <2>. HIDE DEF new_
  <2>. QED  BY <2>1
<1>5. Advances(msg, v, u)
  BY <1>1, <1>2, <1>3, <1>4 DEF Advances
<1>6. TakoView(u, tako_tasks', pending)
  BY <1>1, <1>2, <1>4 DEF TakoView
<1>7. UNCHANGED <<jobs, workers, client, callbacks, to_tako>> /\ from_tako' = Append(from_tako, msg)
  BY <1>2, EventFrame
<1>8. /\ Advances(msg, V[Len(from_tako)], u) /\ u.worker = tako_workers'
      /\ TakoView(u, tako_tasks', NotYet(to_tako', Handlers, TasksOf(jobs)))
  BY <1>1, <1>2, <1>4, <1>5, <1>6, <1>7 DEF v, pending
<1>9. \E W : W = Extend(V, from_tako, u) /\ Agreement(W)'
  BY <1>3, <1>7, <1>8, TakoAgreement
<1>. QED  BY <1>9

\* A worker is lost: the tasks that ran on it are ready again.
LEMMA LostAgreement ==
    ASSUME BasicInv, NEW V, Agreement(V), NEW w \in Workers, TakoWorkerLost(w)
    PROVE  \E u : \E W : W = Extend(V, from_tako, u) /\ Agreement(W)'
<1>. DEFINE v == V[Len(from_tako)]
            pending == NotYet(to_tako, Handlers, TasksOf(jobs))
            ids == RunningOn(w)
            msg == [type |-> "LostWorker", worker |-> w, tasks |-> ids]
            worker == [v.worker EXCEPT ![w] = "lost"]
<1>1. /\ v \in View /\ v.worker = tako_workers /\ TakoView(v, tako_tasks, pending)
      /\ DOMAIN tako_tasks \subseteq Nat
  BY TakoEnd
<1>2. /\ tako_workers[w] = "connected" /\ TakoReports(msg)
      /\ tako_workers' = [tako_workers EXCEPT ![w] = "lost"]
      /\ tako_tasks' = [t \in DOMAIN tako_tasks |-> IF t \in ids THEN Ready ELSE tako_tasks[t]]
  BY DEF TakoWorkerLost
<1>3. ids = {t \in DOMAIN tako_tasks : tako_tasks[t] = w} /\ w # Ready
  BY ReadyAssumption DEF RunningOn
<1>. HIDE DEF ids, v, pending
<1>4. msg \in FromTako /\ msg.type = "LostWorker" /\ msg.worker = w /\ msg.tasks = ids
  BY <1>1, <1>3 DEF FromTako
<1>5. ids = {t \in Nat : v.task[t] = "running" /\ v.on[t] = w}
  <2>1. ASSUME NEW t \in Nat  PROVE  t \in ids <=> v.task[t] = "running" /\ v.on[t] = w
    BY SMT, <1>1, <1>3 DEF TakoView, Held
  <2>. QED  BY <1>1, <1>3, <2>1
<1>6. v.on \in [Nat -> Workers \cup {NoWorker}] /\ worker \in [Workers -> {"unused", "connected", "lost"}]
  BY <1>1 DEF View
<1>. HIDE DEF worker, msg
<1>0. PICK u : u = MovedTo(v, ids, "waiting", v.on, worker)
  OBVIOUS
<1>7. /\ u \in View /\ u.on = v.on /\ u.worker = worker
      /\ u.task = [t \in Nat |-> IF t \in ids THEN "waiting" ELSE v.task[t]]
      /\ \A t \in Nat : u.task[t] = IF t \in ids THEN "waiting" ELSE v.task[t]
  <2>1. [t \in Nat |-> IF t \in ids THEN "waiting" ELSE v.task[t]]
            \in [Nat -> {"waiting", "running", "canceling", "gone"}]
    BY <1>1 DEF View
  <2>. QED  BY <1>1, <1>6, <1>0, <2>1 DEF MovedTo, View
<1>8. Advances(msg, v, u)
  <2>1. Moves(v, u, ids, {"running"}, "waiting")
    BY <1>5, <1>7 DEF Moves
  <2>. QED  BY <1>1, <1>2, <1>4, <1>5, <1>7, <2>1 DEF Advances, worker
<1>9. HeldMoves(tako_tasks, tako_tasks', ids, "waiting", u)
  BY <1>1, <1>2, <1>3 DEF HeldMoves
<1>10. TakoView(u, tako_tasks', pending)
  BY SMT, <1>1, <1>7, <1>9, TakoMoves
<1>11. UNCHANGED <<jobs, workers, client, callbacks, to_tako>> /\ from_tako' = Append(from_tako, msg)
  BY <1>2, EventFrame
<1>12. /\ Advances(msg, V[Len(from_tako)], u) /\ u.worker = tako_workers'
       /\ TakoView(u, tako_tasks', NotYet(to_tako', Handlers, TasksOf(jobs)))
  BY <1>1, <1>2, <1>7, <1>8, <1>10, <1>11 DEF v, pending, worker
<1>13. \E W : W = Extend(V, from_tako, u) /\ Agreement(W)'
  BY <1>4, <1>7, <1>11, <1>12, TakoAgreement
<1>. QED  BY <1>13

\* The tasks in ids are in the state `to' and the others as before, on the same workers.
TaskMoves(v, u, ids, to) ==
    /\ \A x \in Nat : u.task[x] = IF x \in ids THEN to ELSE v.task[x]
    /\ \A x \in Nat \ ids : u.on[x] = v.on[x]
    /\ u.worker = v.worker

\* Tasks that tako holds move.
LEMMA TaskEvent ==
    ASSUME BasicInv, NEW V, Agreement(V), NEW msg \in FromTako, TakoReports(msg),
           NEW u \in View, Advances(msg, V[Len(from_tako)], u), UNCHANGED tako_workers,
           NEW ids, NEW to, HeldMoves(tako_tasks, tako_tasks', ids, to, u),
           TaskMoves(V[Len(from_tako)], u, ids, to)
    PROVE  \E W : W = Extend(V, from_tako, u) /\ Agreement(W)'
<1>. DEFINE v == V[Len(from_tako)]
            pending == NotYet(to_tako, Handlers, TasksOf(jobs))
<1>1. v.worker = tako_workers /\ TakoView(v, tako_tasks, pending)
  BY TakoEnd
<1>2. /\ \A x \in Nat : u.task[x] = IF x \in ids THEN to ELSE v.task[x]
      /\ \A x \in Nat \ ids : u.on[x] = v.on[x]
      /\ u.worker = v.worker
  BY DEF TaskMoves
<1>. HIDE DEF v, pending
<1>3. TakoView(u, tako_tasks', pending)
  BY SMTT(30), <1>1, <1>2, TakoMoves
<1>4. UNCHANGED <<jobs, workers, client, callbacks, to_tako>> /\ from_tako' = Append(from_tako, msg)
  BY EventFrame
<1>5. u.worker = tako_workers' /\ TakoView(u, tako_tasks', NotYet(to_tako', Handlers, TasksOf(jobs)))
  BY <1>1, <1>2, <1>3, <1>4 DEF pending
<1>. QED  BY <1>4, <1>5, TakoAgreement

\* A worker starts a task that is ready.
LEMMA StartsAgreement ==
    ASSUME BasicInv, NEW V, Agreement(V), NEW t \in DOMAIN tako_tasks, NEW w \in Workers, TakoTaskStarts(t, w)
    PROVE  \E u : \E W : W = Extend(V, from_tako, u) /\ Agreement(W)'
<1>0. PICK ids : ids = {t}
  OBVIOUS
<1>1. PICK v : v = V[Len(from_tako)]
  OBVIOUS
<1>2. PICK msg : msg = [type |-> "Running", task |-> t, worker |-> w]
  OBVIOUS
<1>3. PICK on : on = [v.on EXCEPT ![t] = w]
  OBVIOUS
<1>4. PICK u : u = MovedTo(v, ids, "running", on, v.worker)
  OBVIOUS
<1>5. /\ v \in View /\ v.worker = tako_workers /\ t \in Nat /\ w # Ready
      /\ TakoView(v, tako_tasks, NotYet(to_tako, Handlers, TasksOf(jobs)))
  BY <1>1, TakoEnd, ReadyAssumption
<1>6. /\ tako_tasks[t] = Ready /\ tako_workers[w] = "connected" /\ TakoReports(msg)
      /\ tako_tasks' = [tako_tasks EXCEPT ![t] = w] /\ UNCHANGED tako_workers
  BY <1>2 DEF TakoTaskStarts
<1>7. msg \in FromTako /\ msg.type = "Running" /\ msg.task = t /\ msg.worker = w
  BY <1>2, <1>5 DEF FromTako
<1>8. /\ v.on \in [Nat -> Workers \cup {NoWorker}] /\ on \in [Nat -> Workers \cup {NoWorker}]
      /\ v.worker \in [Workers -> {"unused", "connected", "lost"}]
      /\ on[t] = w /\ \A x \in Nat \ ids : on[x] = v.on[x]
  BY <1>0, <1>3, <1>5 DEF View
<1>9. /\ u \in View /\ u.on = on /\ u.worker = v.worker
      /\ u.task = [x \in Nat |-> IF x \in ids THEN "running" ELSE v.task[x]]
      /\ \A x \in Nat : u.task[x] = IF x \in ids THEN "running" ELSE v.task[x]
  <2>1. v \in View /\ v.worker \in [Workers -> {"unused", "connected", "lost"}]
    BY <1>5, <1>8
  <2>2. on \in [Nat -> Workers \cup {NoWorker}]
    BY <1>8
  <2>. QED  BY ONLY <1>4, <2>1, <2>2, MovedView
<1>10. v.task[t] = "waiting"
  BY <1>5, <1>6 DEF TakoView
<1>11. Advances(msg, v, u)
  <2>1. Moves(v, u, {t}, Held, "running")
    BY <1>0, <1>9, <1>10 DEF Moves, Held
  <2>. QED  BY <1>3, <1>5, <1>6, <1>7, <1>9, <1>10, <2>1 DEF Advances
<1>12. HeldMoves(tako_tasks, tako_tasks', ids, "running", u)
  BY <1>0, <1>5, <1>6, <1>8, <1>9 DEF HeldMoves
<1>13. TaskMoves(v, u, ids, "running")
  BY <1>8, <1>9 DEF TaskMoves
<1>14. \E W : W = Extend(V, from_tako, u) /\ Agreement(W)'
  <2>1. msg \in FromTako /\ TakoReports(msg) /\ u \in View /\ UNCHANGED tako_workers
    BY <1>6, <1>7, <1>9
  <2>2. Advances(msg, V[Len(from_tako)], u) /\ TaskMoves(V[Len(from_tako)], u, ids, "running")
    BY <1>1, <1>11, <1>13
  <2>. QED  BY <1>12, <2>1, <2>2, TaskEvent
<1>. QED  BY <1>14

\* A task that runs is reported once more.
LEMMA StartsAgainAgreement ==
    ASSUME BasicInv, NEW V, Agreement(V), NEW t \in DOMAIN tako_tasks, TakoTaskStartsAgain(t)
    PROVE  \E u : \E W : W = Extend(V, from_tako, u) /\ Agreement(W)'
<1>0. PICK ids : ids = {t}
  OBVIOUS
<1>1. PICK v : v = V[Len(from_tako)]
  OBVIOUS
<1>2. PICK w : w = tako_tasks[t]
  OBVIOUS
<1>3. PICK msg : msg = [type |-> "Running", task |-> t, worker |-> w]
  OBVIOUS
<1>4. /\ v \in View /\ v.worker = tako_workers /\ t \in Nat /\ Plausible(v)
      /\ TakoView(v, tako_tasks, NotYet(to_tako, Handlers, TasksOf(jobs)))
      /\ tako_tasks[t] \in Workers \cup {Ready}
  BY <1>1, TakoEnd
<1>5. /\ tako_tasks[t] # Ready /\ TakoReports(msg) /\ UNCHANGED <<tako_tasks, tako_workers>>
  BY <1>2, <1>3 DEF TakoTaskStartsAgain
<1>6. w \in Workers /\ w # Ready
  BY <1>2, <1>4, <1>5
<1>7. msg \in FromTako /\ msg.type = "Running" /\ msg.task = t /\ msg.worker = w
  BY <1>3, <1>4, <1>6 DEF FromTako
<1>8. v.task[t] = "running" /\ v.on[t] = w
  BY <1>2, <1>4, <1>5 DEF TakoView
<1>9. v.worker[w] = "connected"
  BY <1>4, <1>8 DEF Plausible
<1>10. /\ v.task \in [Nat -> {"waiting", "running", "canceling", "gone"}]
       /\ v.on \in [Nat -> Workers \cup {NoWorker}]
  BY <1>4 DEF View
<1>11. /\ v.task = [x \in Nat |-> IF x \in ids THEN "running" ELSE v.task[x]]
       /\ v.on = [v.on EXCEPT ![t] = w]
  BY <1>0, <1>8, <1>10
<1>12. Advances(msg, v, v)
  <2>1. Moves(v, v, {t}, Held, "running")
    BY <1>0, <1>8, <1>11 DEF Moves, Held
  <2>. QED  BY <1>7, <1>8, <1>9, <1>11, <2>1 DEF Advances
<1>13. HeldMoves(tako_tasks, tako_tasks', ids, "running", v)
  BY <1>0, <1>2, <1>4, <1>5, <1>8 DEF HeldMoves
<1>14. TaskMoves(v, v, ids, "running")
  BY <1>0, <1>8 DEF TaskMoves
<1>15. \E W : W = Extend(V, from_tako, v) /\ Agreement(W)'
  BY <1>1, <1>4, <1>5, <1>7, <1>12, <1>13, <1>14, TaskEvent
<1>. QED  BY <1>15

\* A task that runs is returned, or ends.
LEMMA EndsAgreement ==
    ASSUME BasicInv, NEW V, Agreement(V), NEW t \in DOMAIN tako_tasks, TakoTaskReturns(t) \/ TakoTaskEnds(t)
    PROVE  \E u : \E W : W = Extend(V, from_tako, u) /\ Agreement(W)'
<1>0. PICK ids : ids = {t}
  OBVIOUS
<1>1. PICK v : v = V[Len(from_tako)]
  OBVIOUS
<1>2. PICK type \in {"Waiting", "Finished", "TaskFailed"} :
          /\ tako_tasks[t] # Ready /\ TakoReports([type |-> type, task |-> t]) /\ UNCHANGED tako_workers
          /\ type = "Waiting" => tako_tasks' = [tako_tasks EXCEPT ![t] = Ready]
          /\ type # "Waiting" => tako_tasks' = Remove(tako_tasks, {t})
  BY DEF TakoTaskReturns, TakoTaskEnds
<1>3. PICK msg : msg = [type |-> type, task |-> t]
  OBVIOUS
<1>4. PICK to : to = IF type = "Waiting" THEN "waiting" ELSE "gone"
  OBVIOUS
<1>5. PICK u : u = MovedTo(v, ids, to, v.on, v.worker)
  OBVIOUS
<1>6. /\ v \in View /\ v.worker = tako_workers /\ t \in Nat
      /\ TakoView(v, tako_tasks, NotYet(to_tako, Handlers, TasksOf(jobs)))
  BY <1>1, TakoEnd
<1>7. msg \in FromTako /\ msg.type = type /\ msg.task = t
  BY <1>3, <1>6 DEF FromTako
<1>8. v.task[t] = "running"
  BY <1>2, <1>6 DEF TakoView
<1>9. /\ v.on \in [Nat -> Workers \cup {NoWorker}]
      /\ v.worker \in [Workers -> {"unused", "connected", "lost"}]
      /\ to \in {"waiting", "running", "canceling", "gone"}
  BY <1>4, <1>6 DEF View
<1>10. /\ u \in View /\ u.on = v.on /\ u.worker = v.worker
       /\ u.task = [x \in Nat |-> IF x \in ids THEN to ELSE v.task[x]]
       /\ \A x \in Nat : u.task[x] = IF x \in ids THEN to ELSE v.task[x]
  <2>1. v \in View
    BY <1>6
  <2>2. v.task \in [Nat -> {"waiting", "running", "canceling", "gone"}]
    BY <2>1 DEF View
  <2>3. [x \in Nat |-> IF x \in ids THEN to ELSE v.task[x]] \in [Nat -> {"waiting", "running", "canceling", "gone"}]
    BY <1>9, <2>2
  <2>. QED  BY ONLY <1>5, <1>9, <2>3 DEF MovedTo, View
<1>11. Advances(msg, v, u)
  <2>1. Moves(v, u, {t}, {"running"}, to)
    BY <1>0, <1>8, <1>10 DEF Moves
  <2>. QED  BY <1>2, <1>4, <1>7, <1>10, <2>1 DEF Advances
<1>12. HeldMoves(tako_tasks, tako_tasks', ids, to, u)
  <2>1. CASE type = "Waiting"
    BY <1>0, <1>2, <1>4, <1>6, <2>1 DEF HeldMoves
  <2>2. CASE type # "Waiting"
    BY <1>0, <1>2, <1>4, <1>6, <2>2 DEF HeldMoves, Remove, Held
  <2>. QED  BY <2>1, <2>2
<1>13. TakoReports(msg)
  BY <1>2, <1>3
<1>14. TaskMoves(v, u, ids, to)
  BY <1>10 DEF TaskMoves
<1>15. \E W : W = Extend(V, from_tako, u) /\ Agreement(W)'
  BY SMT, <1>1, <1>2, <1>7, <1>10, <1>11, <1>12, <1>13, <1>14, TaskEvent
<1>. QED  BY <1>15
----------------------------------------------------------------------------
(* The steps, by kind.                                                     *)

\* What a client or a spawned cancel sends is a request.
LEMMA CancelMessage ==
    ASSUME NEW js, \A j \in DOMAIN js : DOMAIN js[j].tasks \subseteq Nat, NEW j \in DOMAIN js
    PROVE  /\ CancelTasks(non_finished_task_ids(js[j])) \in ToTako
           /\ CancelTasks(non_finished_task_ids(js[j])).type = "CancelTasks"
  BY DEF CancelTasks, ToTako, non_finished_task_ids, InState

\* A handler goes on; the tasks that are not at tako yet are the same.
LEMMA GoesOnNotYet ==
    ASSUME NEW who \in Waiting, Only(Handlers, Handlers', who), to_tako \in Seq(ToTako),
           Handlers[who].pc # "register", Handlers'[who].pc # "register",
           \/ UNCHANGED rpcVars
           \/ \E msg \in ToTako : msg.type # "NewTasks" /\ send_tako_message(msg, who),
           NEW T
    PROVE  NotYet(to_tako', Handlers', T) = NotYet(to_tako, Handlers, T)
<1>1. SameRegister(Handlers, Handlers')
  <2>1. \A c \in Clients : ClientWaits(c) \in Waiting
    BY DEF ClientWaits, Waiting
  <2>. QED  BY <2>1 DEF SameRegister, Only
<1>2. CASE UNCHANGED rpcVars
  <2>1. to_tako' = to_tako
    BY <1>2 DEF rpcVars
  <2>. QED  BY <1>1, <2>1, NotYetFrame
<1>3. CASE \E msg \in ToTako : msg.type # "NewTasks" /\ send_tako_message(msg, who)
  <2>1. PICK msg \in ToTako : msg.type # "NewTasks" /\ to_tako' = Append(to_tako, msg)
    BY <1>3 DEF send_tako_message
  <2>2. NotYet(Append(to_tako, msg), Handlers', T) = NotYet(to_tako, Handlers, T)
    BY SMT, <1>1, <2>1, NotYetSend
  <2>. QED  BY <2>1, <2>2
<1>. QED  BY <1>2, <1>3

\* What becomes of a client's request.
LEMMA NextFrame ==
    ASSUME NEW c \in Clients, NEW js, \A j \in DOMAIN js : DOMAIN js[j].tasks \subseteq Nat,
           CancelsNext(c, js) \/ StopsNext(c)
    PROVE  /\ ClientWaits(c) \in Waiting
           /\ Handlers'[ClientWaits(c)].pc # "register" /\ Handlers'[ClientWaits(c)].reply = {}
           /\ \/ UNCHANGED rpcVars
              \/ \E msg \in ToTako : msg.type # "NewTasks" /\ send_tako_message(msg, ClientWaits(c))
<1>. DEFINE who == ClientWaits(c)
<1>1. who \in Waiting
  BY DEF ClientWaits, Waiting
<1>. HIDE DEF who
<1>2. CASE Quiet(Handlers'[who]) /\ UNCHANGED rpcVars
  <2>1. Handlers'[who].pc # "register" /\ Handlers'[who].reply = {}
    BY SMT, <1>2 DEF Quiet
  <2>. QED  BY <1>1, <1>2, <2>1 DEF who
<1>3. CASE \E j \in DOMAIN js : /\ Handlers'[who] = Sent("cancel", j)
                                /\ send_tako_message(CancelTasks(non_finished_task_ids(js[j])), who)
  <2>1. PICK j \in DOMAIN js : /\ Handlers'[who] = Sent("cancel", j)
                               /\ send_tako_message(CancelTasks(non_finished_task_ids(js[j])), who)
    BY <1>3
  <2>2. Handlers'[who].pc # "register" /\ Handlers'[who].reply = {}
    BY SMTT(30), <2>1 DEF Sent
  <2>3. /\ CancelTasks(non_finished_task_ids(js[j])) \in ToTako
        /\ CancelTasks(non_finished_task_ids(js[j])).type # "NewTasks"
    BY CancelMessage
  <2>. QED  BY <1>1, <2>1, <2>2, <2>3 DEF who
<1>4. CASE \E w \in Workers : /\ Handlers'[who] = Sent("stop", 0)
                              /\ send_tako_message([type |-> "StopWorker", worker |-> w], who)
  <2>1. PICK w \in Workers : /\ Handlers'[who] = Sent("stop", 0)
                             /\ send_tako_message([type |-> "StopWorker", worker |-> w], who)
    BY <1>4
  <2>2. Handlers'[who].pc # "register" /\ Handlers'[who].reply = {}
    BY SMT, <2>1 DEF Sent
  <2>3. /\ [type |-> "StopWorker", worker |-> w] \in ToTako
        /\ [type |-> "StopWorker", worker |-> w].type # "NewTasks"
    BY DEF ToTako
  <2>. QED  BY <1>1, <2>1, <2>2, <2>3 DEF who
<1>. QED  BY <1>2, <1>3, <1>4 DEF CancelsNext, StopsNext, who

\* No response, no canceled task.
LEMMA EmptyHand ==
    ASSUME NEW h, h.reply = {}
    PROVE  Hand(h) = {}
  BY DEF Hand

\* The jobs' tasks are numbers, before and after a step.
LEMMA TaskNumbers ==
    ASSUME StepFacts
    PROVE  /\ to_tako \in Seq(ToTako)
           /\ \A j \in DOMAIN jobs : DOMAIN jobs[j].tasks \subseteq Nat
           /\ \A j \in DOMAIN jobs' : DOMAIN jobs'[j].tasks \subseteq Nat
  BY DEF StepFacts, BasicInv, TypeOK, StateTypeOK, JobTypeOK, RpcTypeOK

\* Nothing happens to tasks, workers and the tasks canceled: the views stay.
LEMMA QuietAgreement ==
    ASSUME StepFacts, NEW V, Agreement(V), NEW who \in Waiting, Only(Handlers, Handlers', who),
           Hand(Handlers[who]) = {}, Hand(Handlers'[who]) = {},
           Handlers[who].pc # "register", Handlers'[who].pc # "register", TasksStay,
           \/ UNCHANGED rpcVars
           \/ \E msg \in ToTako : msg.type # "NewTasks" /\ send_tako_message(msg, who)
    PROVE  Agreement(V)'
<1>1. to_tako \in Seq(ToTako) /\ UNCHANGED <<from_tako, jobs, workers, tako_tasks, tako_workers>>
  BY TaskNumbers DEF TasksStay
<1>2. \A T : NotYet(to_tako', Handlers', T) = NotYet(to_tako, Handlers, T)
  BY <1>1, GoesOnNotYet
<1>3. NotYet(to_tako', Handlers', TasksOf(jobs')) = NotYet(to_tako, Handlers, TasksOf(jobs))
  BY <1>1, <1>2
<1>4. \A other \in Waiting : Hand(Handlers'[other]) = Hand(Handlers[other])
  BY DEF Only
<1>. QED  BY <1>1, <1>3, <1>4, SilentAgreement

\* A request of a client is answered or goes on.
LEMMA ProceedsAgreement ==
    ASSUME StepFacts, NEW V, Agreement(V), NEW c \in Clients, Proceeds(c)
    PROVE  Agreement(V)'
<1>. DEFINE who == ClientWaits(c)
<1>1. /\ Only(Handlers, Handlers', who) /\ TasksStay
      /\ Hand(Handlers[who]) = {} /\ Handlers[who].pc # "register"
      /\ CancelsNext(c, jobs) \/ StopsNext(c)
  BY DEF Proceeds
<1>2. /\ who \in Waiting /\ Handlers'[who].pc # "register" /\ Handlers'[who].reply = {}
      /\ \/ UNCHANGED rpcVars
         \/ \E msg \in ToTako : msg.type # "NewTasks" /\ send_tako_message(msg, who)
  BY <1>1, TaskNumbers, NextFrame
<1>3. Hand(Handlers'[who]) = {}
  BY <1>2, EmptyHand
<1>. QED  BY <1>1, <1>2, <1>3, QuietAgreement

\* Canceled tasks are marked.
LEMMA MarksAgreement ==
    ASSUME StepFacts, NEW V, Agreement(V), NEW who, Marks(who),
           Handlers'[who].pc # "register", Hand(Handlers'[who]) = {},
           \/ UNCHANGED rpcVars
           \/ \E msg \in ToTako : msg.type # "NewTasks" /\ send_tako_message(msg, who)
    PROVE  \E W : W = Relabelled(V, from_tako, Hand(Handlers[who]), "gone") /\ Agreement(W)'
<1>1. /\ who \in Waiting /\ Only(Handlers, Handlers', who) /\ Handlers[who].pc # "register"
      /\ Handlers[who].job \in DOMAIN jobs
      /\ Hand(Handlers[who]) \subseteq DOMAIN jobs[Handlers[who].job].tasks
      /\ jobs' = [jobs EXCEPT ![Handlers[who].job] =
                     set_cancel_state(jobs[Handlers[who].job], Hand(Handlers[who]))]
      /\ UNCHANGED <<from_tako, workers, tako_tasks, tako_workers>>
  BY DEF Marks, apply_cancel
<1>2. \A T : NotYet(to_tako', Handlers', T) = NotYet(to_tako, Handlers, T)
  BY <1>1, TaskNumbers, GoesOnNotYet
<1>3. PICK j : j = Handlers[who].job
  OBVIOUS
<1>4. PICK ids : ids = Hand(Handlers[who])
  OBVIOUS
<1>5. /\ j \in DOMAIN jobs /\ ids \subseteq DOMAIN jobs[j].tasks
      /\ jobs' = [jobs EXCEPT ![j] = set_cancel_state(jobs[j], ids)]
      /\ NotYet(to_tako', Handlers', TasksOf(jobs)) = NotYet(to_tako, Handlers, TasksOf(jobs))
  BY <1>1, <1>2, <1>3, <1>4
<1>6. \E W : W = Relabelled(V, from_tako, ids, "gone") /\ Agreement(W)'
  BY <1>1, <1>4, <1>5, CancelAgreement
<1>. QED  BY <1>4, <1>6

\* The same for a client that goes on.
LEMMA MarksNextAgreement ==
    ASSUME StepFacts, NEW V, Agreement(V), NEW c \in Clients, MarksNext(c)
    PROVE  \E W : W = Relabelled(V, from_tako, Hand(Handlers[ClientWaits(c)]), "gone") /\ Agreement(W)'
<1>1. Marks(ClientWaits(c)) /\ CancelsNext(c, jobs')
  BY DEF MarksNext
<1>2. /\ Handlers'[ClientWaits(c)].pc # "register" /\ Handlers'[ClientWaits(c)].reply = {}
      /\ \/ UNCHANGED rpcVars
         \/ \E msg \in ToTako : msg.type # "NewTasks" /\ send_tako_message(msg, ClientWaits(c))
  BY <1>1, TaskNumbers, NextFrame
<1>3. Hand(Handlers'[ClientWaits(c)]) = {}
  BY <1>2, EmptyHand
<1>. QED  BY <1>1, <1>2, <1>3, MarksAgreement

\* The stream is registered and the tasks of the job go to tako.
LEMMA SendsAgreement ==
    ASSUME StepFacts, RpcInv, NEW V, Agreement(V), NEW c \in Clients, SendsTasks(c), TasksStay
    PROVE  Agreement(V)'
<1>. DEFINE who == ClientWaits(c)
            j == Handlers[who].job
            msg == NewTasks(jobs[j])
<1>1. /\ Handlers[who].pc = "register" /\ Only(Handlers, Handlers', who)
      /\ Handlers'[who] = Sent("newtasks", j) /\ to_tako' = Append(to_tako, msg)
  BY DEF SendsTasks, send_tako_message
<1>2. who \in Waiting
  BY DEF ClientWaits, Waiting
<1>3. HandlerOK(Handlers[who], TasksOf(jobs))
  BY <1>2 DEF RpcInv, HandlersOK
<1>4. j \in DOMAIN TasksOf(jobs)
  BY <1>1, <1>3 DEF HandlerOK
<1>5. j \in DOMAIN jobs /\ TasksOf(jobs)[j] = DOMAIN jobs[j].tasks
  BY <1>4 DEF TasksOf
<1>6. msg = [type |-> "NewTasks", tasks |-> TasksOf(jobs)[j]] /\ msg \in ToTako
  BY <1>5, TaskNumbers DEF NewTasks, ToTako
<1>7. UNCHANGED <<from_tako, jobs, workers, tako_tasks, tako_workers>>
  BY DEF TasksStay
<1>8. Hand(Handlers[who]) = {}
  <2>1. \A m \in Handlers[who].reply : m.type # "CancelTasksResponse"
    BY <1>1, <1>3 DEF HandlerOK, Answers
  <2>. QED  BY <2>1 DEF Hand
<1>. HIDE DEF who, j, msg
<1>9. Handlers'[who].pc # "register" /\ Hand(Handlers'[who]) = {}
  <2>1. Handlers'[who].pc # "register" /\ Handlers'[who].reply = {}
    BY SMT, <1>1 DEF Sent
  <2>. QED  BY <2>1, EmptyHand
<1>10. \A other \in Waiting : Hand(Handlers'[other]) = Hand(Handlers[other])
  BY <1>1, <1>8, <1>9 DEF Only
<1>11. NotYet(Append(to_tako, msg), Handlers', TasksOf(jobs)) = NotYet(to_tako, Handlers, TasksOf(jobs))
  BY SMTT(30), <1>1, <1>6, <1>9, TaskNumbers, NotYetRegistered DEF who, j
<1>12. NotYet(to_tako', Handlers', TasksOf(jobs')) = NotYet(to_tako, Handlers, TasksOf(jobs))
  BY <1>1, <1>7, <1>11
<1>. QED  BY <1>7, <1>10, <1>12, SilentAgreement

\* The stream server answers a submit.
LEMMA RegistersAgreement ==
    ASSUME StepFacts, RpcInv, NEW V, Agreement(V), NEW c \in Clients, Registers(c)
    PROVE  Agreement(V)'
<1>. DEFINE who == ClientWaits(c)
            answer == [type |-> "Registered"]
<1>1. /\ Only(Handlers, Handlers', who) /\ Handlers[who].pc = "register"
      /\ Handlers'[who] = Replied(Handlers[who], answer) /\ UNCHANGED to_tako
      /\ UNCHANGED <<from_tako, jobs, workers, tako_tasks, tako_workers>>
  BY DEF Registers, TasksStay, rpcVars
<1>2. who \in Waiting /\ \A d \in Clients : ClientWaits(d) \in Waiting
  BY DEF ClientWaits, Waiting
<1>3. HandlerOK(Handlers[who], TasksOf(jobs))
  BY <1>2 DEF RpcInv, HandlersOK
<1>4. Hand(Handlers[who]) = {}
  <2>1. \A m \in Handlers[who].reply : m.type # "CancelTasksResponse"
    BY <1>1, <1>3 DEF HandlerOK, Answers
  <2>. QED  BY <2>1 DEF Hand
<1>. HIDE DEF who
<1>5. /\ Handlers'[who].pc = Handlers[who].pc /\ Handlers'[who].job = Handlers[who].job
      /\ Hand(Handlers'[who]) = {}
  <2>1. /\ Handlers'[who].pc = Handlers[who].pc /\ Handlers'[who].job = Handlers[who].job
        /\ Handlers'[who].reply = {answer} /\ answer.type # "CancelTasksResponse"
    BY SMT, <1>1 DEF Replied
  <2>. QED  BY <2>1 DEF Hand
<1>6. \A other \in Waiting : Hand(Handlers'[other]) = Hand(Handlers[other])
  BY <1>1, <1>4, <1>5 DEF Only
<1>7. SameRegister(Handlers, Handlers')
  BY <1>1, <1>2, <1>5 DEF SameRegister, Only
<1>8. NotYet(to_tako', Handlers', TasksOf(jobs')) = NotYet(to_tako, Handlers, TasksOf(jobs))
  BY <1>1, <1>7, NotYetFrame
<1>. QED  BY <1>1, <1>6, <1>8, SilentAgreement

\* A spawned cancel sends its request, or ends.
LEMMA SpawnedSendsAgreement ==
    ASSUME StepFacts, NEW V, Agreement(V), NEW t \in Nat, SpawnedSends(t)
    PROVE  Agreement(V)'
<1>. DEFINE who == CallbackWaits(t)
<1>1. /\ who \in Waiting /\ Only(Handlers, Handlers', who) /\ TasksStay
      /\ Hand(Handlers[who]) = {} /\ Hand(Handlers'[who]) = {}
  BY EmptyHand DEF SpawnedSends
<1>2. \A c \in Clients : ClientWaits(c) # who /\ ClientWaits(c) \in Waiting
  BY SMT DEF ClientWaits, CallbackWaits, Waiting
<1>3. PICK msg \in ToTako : msg.type = "CancelTasks" /\ to_tako' = Append(to_tako, msg)
  BY DEF SpawnedSends, send_tako_message
<1>4. SameRegister(Handlers, Handlers')
  BY <1>1, <1>2 DEF SameRegister, Only
<1>5. UNCHANGED <<from_tako, jobs, workers, tako_tasks, tako_workers>>
  BY <1>1 DEF TasksStay
<1>6. \A other \in Waiting : Hand(Handlers'[other]) = Hand(Handlers[other])
  BY <1>1 DEF Only
<1>. HIDE DEF who
<1>7. NotYet(Append(to_tako, msg), Handlers', TasksOf(jobs)) = NotYet(to_tako, Handlers, TasksOf(jobs))
  <2>1. to_tako \in Seq(ToTako) /\ msg.type # "NewTasks"
    BY SMT, <1>3, TaskNumbers
  <2>. QED  BY SMT, <1>4, <2>1, NotYetSend
<1>8. NotYet(to_tako', Handlers', TasksOf(jobs')) = NotYet(to_tako, Handlers, TasksOf(jobs))
  BY <1>3, <1>5, <1>7
<1>. QED  BY <1>5, <1>6, <1>8, SilentAgreement

\* The spawned cancel marks the tasks that tako canceled for it, or has none.
LEMMA SpawnedEndsAgreement ==
    ASSUME StepFacts, NEW V, Agreement(V), NEW t \in Nat, SpawnedEnds(t)
    PROVE  \/ Agreement(V)'
           \/ \E W : /\ W = Relabelled(V, from_tako, Hand(Handlers[CallbackWaits(t)]), "gone")
                     /\ Agreement(W)'
<1>. DEFINE who == CallbackWaits(t)
<1>1. /\ who \in Waiting /\ Only(Handlers, Handlers', who) /\ UNCHANGED rpcVars
      /\ Quiet(Handlers'[who])
      /\ Marks(who) \/ (Hand(Handlers[who]) = {} /\ TasksStay)
  BY DEF SpawnedEnds
<1>. HIDE DEF who
<1>2. Handlers'[who].pc # "register" /\ Hand(Handlers'[who]) = {}
  <2>1. Handlers'[who].pc # "register" /\ Handlers'[who].reply = {}
    BY SMT, <1>1 DEF Quiet
  <2>. QED  BY <2>1, EmptyHand
<1>3. CASE Marks(who)
  BY <1>1, <1>2, <1>3, MarksAgreement DEF who
<1>4. CASE Hand(Handlers[who]) = {} /\ TasksStay
  <2>1. \A c \in Clients : ClientWaits(c) # who /\ ClientWaits(c) \in Waiting
    BY SMT DEF ClientWaits, CallbackWaits, Waiting, who
  <2>2. SameRegister(Handlers, Handlers')
    BY <1>1, <2>1 DEF SameRegister, Only
  <2>3. UNCHANGED <<from_tako, jobs, workers, tako_tasks, tako_workers, to_tako>>
    BY <1>1, <1>4 DEF TasksStay, rpcVars
  <2>4. \A other \in Waiting : Hand(Handlers'[other]) = Hand(Handlers[other])
    BY <1>1, <1>2, <1>4 DEF Only
  <2>5. NotYet(to_tako', Handlers', TasksOf(jobs')) = NotYet(to_tako, Handlers, TasksOf(jobs))
    BY <2>2, <2>3, NotYetFrame
  <2>. QED  BY <2>3, <2>4, <2>5, SilentAgreement
<1>. QED  BY <1>1, <1>3, <1>4

\* Nothing that server and tako share changes.
LEMMA StillAgreement ==
    ASSUME NEW V, Agreement(V), TasksStay, UNCHANGED <<client, callbacks, to_tako>>
    PROVE  Agreement(V)'
<1>1. Handlers' = Handlers
  BY DEF Handlers
<1>. QED  BY <1>1, SilentAgreement DEF TasksStay

\* The reader does not panic.
LEMMA ReaderStepAgreement ==
    ASSUME StepFacts, NEW V, Agreement(V), ReaderStep
    PROVE  UNCHANGED panicked /\ \E W : W = Shift(V, from_tako) /\ Agreement(W)'
<1>1. CASE \E who : Fails(who)
  BY <1>1, FailedAgreement DEF Fails
<1>2. CASE \E who \in Waiting, msg \in FromTako : Delivered(who, msg)
  BY <1>2, DeliverAgreement
<1>. QED  BY <1>1, <1>2, RunningAgreement, FinishedAgreement, WaitingAgreement,
             WorkerNewAgreement, WorkerLostAgreement DEF ReaderStep

\* Tako answers or reports.
LEMMA TakoStepAgreement ==
    ASSUME BasicInv, RpcInv, NEW V, Agreement(V), TakoRequest \/ TakoEvent, InFlight(from_tako) \in Nat
    PROVE  \E u : \E W : W = Extend(V, from_tako, u) /\ Agreement(W)'
<1>1. CASE TakoEvent
  BY <1>1, ConnectsAgreement, LostAgreement, StartsAgreement, StartsAgainAgreement, EndsAgreement
     DEF TakoEvent
<1>2. CASE TakoCancelFails \/ TakoStopWorker
  <2>1. PICK type \in {"CancelTasks", "StopWorker"} :
               /\ TakoAnswers(type) /\ UNCHANGED <<tako_tasks, tako_workers>>
               /\ \/ from_tako' = Append(from_tako, [type |-> "Error"])
                  \/ from_tako' = Append(from_tako, [type |-> "WorkerStopped"])
    <3>1. CASE TakoCancelFails
      BY <3>1 DEF TakoCancelFails
    <3>2. CASE TakoStopWorker
      BY <3>2 DEF TakoStopWorker, takoVars
    <3>. QED  BY <1>2, <3>1, <3>2
  <2>2. /\ [type |-> "Error"] \in FromTako /\ [type |-> "Error"].type = "Error"
        /\ [type |-> "WorkerStopped"] \in FromTako /\ [type |-> "WorkerStopped"].type = "WorkerStopped"
    BY DEF FromTako, Response
  <2>3. PICK msg \in FromTako : from_tako' = Append(from_tako, msg) /\ msg.type \in {"WorkerStopped", "Error"}
    BY <2>1, <2>2
  <2>4. type # "NewTasks"
    BY SMT, <2>1
  <2>. QED  BY <2>1, <2>3, <2>4, TakoSilent
<1>. QED  BY <1>1, <1>2, TakoNewAgreement, TakoCancelAgreement DEF TakoRequest

\* A failed task that tako reports on is running at the server.
LEMMA FailsWithoutPanic ==
    ASSUME BasicInv, NEW V, Agreement(V), process_task_failed
    PROVE  ~ Panic
<1>1. Receive("TaskFailed")
  BY DEF process_task_failed
<1>2. from_tako # <<>> /\ Head(from_tako).type = "TaskFailed" /\ ~ panicked
  BY <1>1 DEF Receive, Alive
<1>3. Head(from_tako).type \in {"Finished", "TaskFailed", "Waiting"}
  BY <1>2
<1>4. /\ get_job_by_tako_task_id(Head(from_tako).task) # NoJob
      /\ can_end(jobs[get_job_by_tako_task_id(Head(from_tako).task)], Head(from_tako).task)
  BY <1>2, <1>3, RunningOwned DEF can_end
<1>5. UNCHANGED processVars
  BY <1>4 DEF process_task_failed
<1>. QED  BY <1>2, <1>5 DEF Panic, processVars

\* Server and tako agree after every step; the server asserts nothing that
\* tako or its own handlers do not keep.
LEMMA AgreementKind ==
    ASSUME StepFacts, RpcInv, NEW V, Agreement(V), StepKind
    PROVE  (\E W : Agreement(W)') /\ (Excused \/ Clash)
<1>0. BasicInv
  BY DEF StepFacts
<1>1. CASE ReaderStep
  BY <1>1, ReaderStepAgreement DEF Excused
<1>2. CASE \E c \in Clients : ClientStepOf(c)
  <2>1. PICK c \in Clients : ClientStepOf(c)
    BY <1>2
  <2>2. CASE \E spec : GoodSpec(spec) /\ Submitted(c, spec)
    <3>1. PICK spec : GoodSpec(spec) /\ Submitted(c, spec)
      BY <2>2
    <3>2. UNCHANGED panicked /\ spec.n \in Nat
      BY <3>1 DEF Submitted, processVars, GoodSpec
    <3>. QED  BY <3>1, <3>2, SubmitAgreement DEF Excused
  <2>3. CASE SendsTasks(c) /\ TasksStay /\ UNCHANGED panicked
    BY <2>3, SendsAgreement DEF Excused
  <2>4. CASE Proceeds(c)
    BY <2>4, ProceedsAgreement DEF Proceeds
  <2>5. CASE MarksNext(c)
    BY <2>5, MarksNextAgreement DEF MarksNext, Marks
  <2>. QED  BY <2>1, <2>2, <2>3, <2>4, <2>5 DEF ClientStepOf
<1>3. CASE \E c \in Clients : Registers(c)
  <2>1. UNCHANGED panicked
    BY <1>3 DEF Registers
  <2>. QED  BY <1>3, <2>1, RegistersAgreement DEF Excused
<1>4. CASE \E t \in Nat : SpawnedSends(t) \/ SpawnedEnds(t)
  <2>1. UNCHANGED panicked
    BY <1>4 DEF SpawnedSends, SpawnedEnds
  <2>2. PICK t \in Nat : SpawnedSends(t) \/ SpawnedEnds(t)
    BY <1>4
  <2>3. CASE SpawnedSends(t)
    BY <2>1, <2>3, SpawnedSendsAgreement DEF Excused
  <2>4. CASE SpawnedEnds(t)
    BY <2>1, <2>4, SpawnedEndsAgreement DEF Excused
  <2>. QED  BY <2>2, <2>3, <2>4
<1>5. CASE (TakoRequest \/ TakoEvent) /\ InFlight(from_tako) \in Nat
  <2>1. UNCHANGED panicked
    BY <1>5 DEF TakoRequest, TakoEvent, TakoNewTasks, TakoCancelTasks, TakoCancelFails,
       TakoStopWorker, TakoAnswers, TakoWorkerConnects, TakoWorkerLost, TakoTaskStarts,
       TakoTaskStartsAgain, TakoTaskReturns, TakoTaskEnds, TakoReports, processVars
  <2>. QED  BY <1>0, <1>5, <2>1, TakoStepAgreement DEF Excused
<1>6. CASE TasksStay /\ UNCHANGED <<client, callbacks, told_canceled, rpcVars, panicked>>
  BY <1>6, StillAgreement DEF rpcVars, Excused
<1>7. CASE PanicStep
  <2>1. Panic /\ TasksStay /\ UNCHANGED <<client, callbacks, to_tako>>
    BY <1>7 DEF PanicStep, Panic, TasksStay, stateVars, handlerVars, rpcVars, takoVars
  <2>2. ~ BadCancel
    BY <1>0, HandCancels DEF BadCancel
  <2>. QED  BY <1>0, <1>7, <2>1, <2>2, StillAgreement, FailsWithoutPanic DEF PanicStep
<1>. QED  BY <1>1, <1>2, <1>3, <1>4, <1>5, <1>6, <1>7 DEF StepKind

----------------------------------------------------------------------------
(* What agreement says of the states.                                      *)

\* The handlers that hold canceled tasks.
LEMMA HandOwner ==
    ASSUME NEW who \in Waiting, NEW t \in Hand(Handlers[who])
    PROVE  t \in CancelsInHand
<1>1. PICK msg \in Handlers[who].reply : msg.type = "CancelTasksResponse" /\ t \in msg.tasks
  BY DEF Hand
<1>2. CASE who.kind = "client"
  <2>1. who.client \in Clients /\ Handlers[who].reply = client[who.client].reply
    BY <1>2 DEF Waiting, Handlers, HandlersOf, Status
  <2>. QED  BY <1>1, <2>1 DEF CancelsInHand
<1>3. CASE who.kind # "client"
  <2>1. who.task \in DOMAIN callbacks /\ Handlers[who].reply = callbacks[who.task].reply
    BY <1>1, <1>3 DEF Waiting, Handlers, HandlersOf, Status
  <2>. QED  BY <1>1, <2>1 DEF CancelsInHand
<1>. QED  BY <1>2, <1>3

\* The tasks that are not at tako yet.
LEMMA NotYetIsNotYet ==
    ASSUME BasicInv, RpcInv
    PROVE  NotYetAtTako = NotYet(to_tako, Handlers, TasksOf(jobs))
<1>1. /\ to_tako \in Seq(ToTako) /\ \A j \in DOMAIN jobs : DOMAIN jobs[j].tasks \subseteq Nat
  BY DEF BasicInv, TypeOK, StateTypeOK, JobTypeOK, RpcTypeOK
<1>2. DOMAIN to_tako = 1 .. Len(to_tako)
  BY SMT, <1>1
<1>3. ASSUME NEW i \in 1 .. Len(to_tako), to_tako[i].type = "NewTasks"
      PROVE  to_tako[i].tasks \subseteq Nat
  <2>1. to_tako[i] \in ToTako
    BY SMT, <1>1
  <2>. QED  BY SMT, <1>3, <2>1 DEF ToTako
<1>4. ASSUME NEW c \in Clients
      PROVE  /\ Handlers[ClientWaits(c)].pc = client[c].pc
             /\ Handlers[ClientWaits(c)].job = client[c].job
             /\ ClientWaits(c) \in Waiting
  BY DEF ClientWaits, Waiting, Handlers, HandlersOf, Status
<1>5. ASSUME NEW c \in Clients, client[c].pc = "register"
      PROVE  /\ TasksOf(jobs)[client[c].job] = DOMAIN jobs[client[c].job].tasks
             /\ DOMAIN jobs[client[c].job].tasks \subseteq Nat
  <2>1. HandlerOK(Handlers[ClientWaits(c)], TasksOf(jobs))
    BY <1>4 DEF RpcInv, HandlersOK
  <2>2. client[c].job \in DOMAIN jobs
    BY <1>4, <1>5, <2>1 DEF HandlerOK, TasksOf
  <2>. QED  BY <1>1, <2>2 DEF TasksOf
<1>6. ASSUME NEW t
      PROVE  t \in NotYetAtTako <=>
                 \/ \E i \in 1 .. Len(to_tako) : to_tako[i].type = "NewTasks" /\ t \in to_tako[i].tasks
                 \/ \E c \in Clients : /\ client[c].pc = "register"
                                       /\ t \in DOMAIN jobs[client[c].job].tasks
  BY <1>2 DEF NotYetAtTako
<1>7. ASSUME NEW t
      PROVE  t \in NotYet(to_tako, Handlers, TasksOf(jobs)) <=>
                 \/ \E i \in 1 .. Len(to_tako) : to_tako[i].type = "NewTasks" /\ t \in to_tako[i].tasks
                 \/ \E c \in Clients : /\ client[c].pc = "register"
                                       /\ t \in DOMAIN jobs[client[c].job].tasks
  BY <1>3, <1>4, <1>5 DEF NotYet
<1>. QED  BY <1>6, <1>7

\* With nothing on the way from tako, server and tako agree on every task.
LEMMA AgreementQuiescent ==
    ASSUME BasicInv, RpcInv, NEW V, Agreement(V)
    PROVE  QuiescentAgreement
<1>. SUFFICES ASSUME from_tako = <<>>, NEW j \in DOMAIN jobs, NEW t \in DOMAIN jobs[j].tasks
              PROVE  CASE t \in DOMAIN tako_tasks ->
                            IF tako_tasks[t] = Ready
                            THEN jobs[j].tasks[t] = "Waiting"
                            ELSE jobs[j].tasks[t] = "Running" /\ jobs[j].worker[t] = tako_tasks[t]
                       [] t \in NotYetAtTako -> jobs[j].tasks[t] = "Waiting"
                       [] OTHER -> jobs[j].tasks[t] \in Terminal \/ t \in CancelsInHand
  BY DEF QuiescentAgreement
<1>1. t \in Nat
  BY DEF BasicInv, TypeOK, StateTypeOK, JobTypeOK
<1>2. PICK v : v = V[0]
  OBVIOUS
<1>3. Len(from_tako) = 0
  BY SMT
<1>4. /\ ServerTasks(v, jobs) /\ ServerHands(v, Handlers) /\ v \in View
      /\ TakoView(v, tako_tasks, NotYetAtTako)
  BY <1>2, <1>3, NotYetIsNotYet, TakoEnd DEF Agreement, Agrees
<1>5. Seen(v.task[t], v.on[t], jobs[j].tasks[t], jobs[j].worker[t])
  BY <1>4 DEF ServerTasks
<1>6. CASE t \in DOMAIN tako_tasks
  <2>1. /\ tako_tasks[t] = Ready => v.task[t] = "waiting"
        /\ tako_tasks[t] # Ready => v.task[t] = "running" /\ v.on[t] = tako_tasks[t]
        /\ t \notin NotYetAtTako
    BY <1>1, <1>4, <1>6 DEF TakoView
  <2>. QED  BY <1>5, <1>6, <2>1 DEF Seen
<1>7. CASE t \notin DOMAIN tako_tasks /\ t \in NotYetAtTako
  <2>1. v.task[t] = "waiting"
    BY <1>1, <1>4, <1>7 DEF TakoView
  <2>. QED  BY <1>5, <1>7, <2>1 DEF Seen
<1>8. CASE t \notin DOMAIN tako_tasks /\ t \notin NotYetAtTako
  <2>1. v.task[t] \notin Held
    BY <1>1, <1>4, <1>8 DEF TakoView
  <2>2. v.task[t] \in {"canceling", "gone"}
    BY <1>1, <1>4, <2>1 DEF View, Held
  <2>3. v.task[t] = "canceling" => t \in CancelsInHand
    BY <1>1, <1>4, HandOwner DEF ServerHands
  <2>4. v.task[t] = "gone" => jobs[j].tasks[t] \in Terminal
    BY <1>5 DEF Seen
  <2>. QED  BY <1>8, <2>2, <2>3, <2>4
<1>. QED  BY <1>6, <1>7, <1>8

\* A running task has an online worker or is just being canceled.
LEMMA AgreementRuns ==
    ASSUME BasicInv, NEW V, Agreement(V)
    PROVE  RunsOnOnlineWorker
<1>. SUFFICES ASSUME NEW j \in DOMAIN jobs, NEW t \in InState(jobs[j], {"Running"}), t \notin CancelsInHand
              PROVE  jobs[j].worker[t] \in Online
  BY DEF RunsOnOnlineWorker
<1>1. t \in Nat /\ t \in DOMAIN jobs[j].tasks /\ jobs[j].tasks[t] = "Running"
  BY DEF BasicInv, TypeOK, StateTypeOK, JobTypeOK, InState
<1>2. PICK v : v = V[0]
  OBVIOUS
<1>3. /\ ServerTasks(v, jobs) /\ ServerHands(v, Handlers) /\ ServerWorkers(v, workers)
      /\ v \in View /\ Plausible(v)
  <2>1. from_tako \in Seq(FromTako) /\ Trace(V, from_tako)
    BY DEF BasicInv, TypeOK, RpcTypeOK, Agreement, Agrees
  <2>. QED  BY <1>2, <2>1, TraceEnds DEF Agreement, Agrees
<1>4. Seen(v.task[t], v.on[t], jobs[j].tasks[t], jobs[j].worker[t])
  BY <1>1, <1>3 DEF ServerTasks
<1>5. v.task[t] # "canceling"
  BY <1>1, <1>3, HandOwner DEF ServerHands
<1>6. v.task[t] \in {"waiting", "running", "gone"}
  BY <1>1, <1>3, <1>5 DEF View
<1>7. v.task[t] = "running" /\ jobs[j].worker[t] = v.on[t]
  BY SMT, <1>1, <1>4, <1>6 DEF Seen, Terminal
<1>8. v.on[t] \in Workers /\ v.worker[v.on[t]] = "connected"
  BY <1>1, <1>3, <1>7 DEF Plausible
<1>9. v.on[t] \in DOMAIN workers /\ workers[v.on[t]] = "Online"
  BY <1>3, <1>8 DEF ServerWorkers
<1>. QED  BY <1>7, <1>9 DEF Online

\* A task that tako holds is not over at the server, and has been submitted.
LEMMA HeldAtTako ==
    ASSUME BasicInv, RpcInv, NEW V, Agreement(V), NEW j \in DOMAIN jobs,
           NEW t \in DOMAIN jobs[j].tasks, t \in DOMAIN tako_tasks
    PROVE  jobs[j].tasks[t] \in NonFinished /\ t \notin NotYetAtTako
<1>1. t \in Nat /\ from_tako \in Seq(FromTako)
  BY DEF BasicInv, TypeOK, StateTypeOK, JobTypeOK, RpcTypeOK
<1>2. PICK v : v = V[0]
  OBVIOUS
<1>3. PICK u : u = V[Len(from_tako)]
  OBVIOUS
<1>4. ServerTasks(v, jobs) /\ TakoView(u, tako_tasks, NotYetAtTako) /\ Trace(V, from_tako)
  BY <1>2, <1>3, NotYetIsNotYet DEF Agreement, Agrees
<1>5. v \in View /\ Later(v, u)
  BY <1>1, <1>2, <1>3, <1>4, TraceEnds
<1>6. u.task[t] \in Held /\ t \notin NotYetAtTako
  BY <1>1, <1>4 DEF TakoView, Held
<1>7. v.task[t] \in Held
  BY <1>1, <1>5, <1>6 DEF Later
<1>8. Seen(v.task[t], v.on[t], jobs[j].tasks[t], jobs[j].worker[t])
  BY <1>4 DEF ServerTasks
<1>. QED  BY <1>6, <1>7, <1>8 DEF Seen, Held, NonFinished

\* In the beginning there are no tasks, and no worker has connected.
LEMMA AgreementInit ==
    ASSUME Init
    PROVE  \E V : Agreement(V)
<1>. DEFINE v == [task |-> [t \in Nat |-> "gone"], on |-> [t \in Nat |-> NoWorker],
                  worker |-> [w \in Workers |-> "unused"]]
            V == [k \in 0 .. Len(from_tako) |-> v]
<1>1. /\ jobs = [j \in {} |-> 0] /\ workers = [w \in {} |-> 0] /\ client = [c \in Clients |-> Idle]
      /\ callbacks = [t \in {} |-> 0] /\ to_tako = <<>> /\ from_tako = <<>>
      /\ tako_tasks = [t \in {} |-> 0] /\ tako_workers = [w \in Workers |-> "unused"]
  BY DEF Init
<1>2. v \in View
  BY DEF View
<1>3. \A t \in Nat : v.task[t] = "gone"
  OBVIOUS
<1>4. v.worker = [w \in Workers |-> "unused"]
  OBVIOUS
<1>. HIDE DEF v
<1>5. DOMAIN V = {0} /\ V[0] = v /\ Len(from_tako) = 0
  BY SMT, <1>1
<1>6. Trace(V, from_tako)
  <2>1. V \in [0 .. Len(from_tako) -> View]
    BY <1>2
  <2>2. \A k \in 0 .. Len(from_tako) : V[k] = v
    OBVIOUS
  <2>. HIDE DEF V
  <2>3. Plausible(v) /\ Later(v, v)
    BY SMT, <1>3 DEF Plausible, Later
  <2>4. 1 .. Len(from_tako) = {}
    BY SMT, <1>5
  <2>. QED  BY <2>1, <2>2, <2>3, <2>4 DEF Trace
<1>. HIDE DEF V
<1>7. DOMAIN jobs = {} /\ DOMAIN callbacks = {} /\ DOMAIN workers = {} /\ DOMAIN tako_tasks = {}
  BY <1>1
<1>8. ServerTasks(v, jobs) /\ ServerWorkers(v, workers)
  BY SMT, <1>3, <1>4, <1>7 DEF ServerTasks, ServerWorkers
<1>9. ASSUME NEW who \in Waiting  PROVE  Handlers[who].reply = {} /\ Handlers[who].pc # "register"
  <2>1. CASE who.kind = "client"
    <3>1. who.client \in Clients /\ Handlers[who].reply = client[who.client].reply
          /\ Handlers[who].pc = client[who.client].pc
      BY SMT, <2>1 DEF Waiting, Handlers, HandlersOf, Status
    <3>2. client[who.client] = Idle
      BY <1>1, <3>1
    <3>. QED  BY SMT, <3>1, <3>2 DEF Idle
  <2>2. CASE who.kind # "client"
    BY SMT, <1>7, <2>2 DEF Handlers, HandlersOf, Status
  <2>. QED  BY <2>1, <2>2
<1>10. ServerHands(v, Handlers)
  <2>1. \A who \in Waiting : Hand(Handlers[who]) = {}
    BY <1>9, EmptyHand
  <2>. QED  BY SMT, <1>3, <2>1 DEF ServerHands
<1>11. NotYet(to_tako, Handlers, TasksOf(jobs)) = {}
  <2>1. 1 .. Len(to_tako) = {}
    BY SMT, <1>1
  <2>2. \A c \in Clients : ClientWaits(c) \in Waiting
    BY DEF ClientWaits, Waiting
  <2>. QED  BY <1>9, <2>1, <2>2 DEF NotYet
<1>12. TakoView(v, tako_tasks, {})
  BY SMT, <1>3, <1>7 DEF TakoView, Held
<1>13. V[Len(from_tako)] = v /\ v.worker = tako_workers
  BY <1>1, <1>4, <1>5
<1>. QED  BY <1>5, <1>6, <1>8, <1>10, <1>11, <1>12, <1>13 DEF Agreement, Agrees

\* A task that tako has not seen is not over at the server either.
LEMMA NotYetOpen ==
    ASSUME BasicInv, RpcInv, NEW V, Agreement(V), NEW j \in DOMAIN jobs,
           NEW t \in DOMAIN jobs[j].tasks, t \in NotYetAtTako
    PROVE  jobs[j].tasks[t] \in NonFinished
<1>1. t \in Nat /\ from_tako \in Seq(FromTako)
  BY DEF BasicInv, TypeOK, StateTypeOK, JobTypeOK, RpcTypeOK
<1>2. PICK v : v = V[0]
  OBVIOUS
<1>3. PICK u : u = V[Len(from_tako)]
  OBVIOUS
<1>4. ServerTasks(v, jobs) /\ TakoView(u, tako_tasks, NotYetAtTako) /\ Trace(V, from_tako)
  BY <1>2, <1>3, NotYetIsNotYet DEF Agreement, Agrees
<1>5. v \in View /\ Later(v, u)
  BY <1>1, <1>2, <1>3, <1>4, TraceEnds
<1>6. u.task[t] \in Held
  BY <1>1, <1>4 DEF TakoView, Held
<1>7. v.task[t] \in Held
  BY <1>1, <1>5, <1>6 DEF Later
<1>8. Seen(v.task[t], v.on[t], jobs[j].tasks[t], jobs[j].worker[t])
  BY <1>4 DEF ServerTasks
<1>. QED  BY <1>7, <1>8 DEF Seen, Held, NonFinished

\* The job of a submit that waits for the stream server, and its tasks.
LEMMA RegisterTasks ==
    ASSUME BasicInv, RpcInv, NEW c \in Clients, Handlers[ClientWaits(c)].pc = "register"
    PROVE  /\ Handlers[ClientWaits(c)].job \in DOMAIN jobs
           /\ DOMAIN jobs[Handlers[ClientWaits(c)].job].tasks \subseteq NotYetAtTako
<1>1. /\ Handlers[ClientWaits(c)].pc = client[c].pc
      /\ Handlers[ClientWaits(c)].job = client[c].job
      /\ ClientWaits(c) \in Waiting
  BY DEF ClientWaits, Waiting, Handlers, HandlersOf, Status
<1>2. HandlerOK(Handlers[ClientWaits(c)], TasksOf(jobs))
  BY <1>1 DEF RpcInv, HandlersOK
<1>3. client[c].job \in DOMAIN jobs
  BY <1>1, <1>2 DEF HandlerOK, TasksOf
<1>4. \A t \in DOMAIN jobs[client[c].job].tasks : t \in NotYetAtTako
  BY <1>1 DEF NotYetAtTako
<1>. QED  BY <1>1, <1>3, <1>4

\* Such a job is not completed.
LEMMA AgreementOpen ==
    ASSUME BasicInv, RpcInv, NEW V, Agreement(V)
    PROVE  OpenRegisters
<1>. SUFFICES ASSUME NEW c \in Clients, Handlers[ClientWaits(c)].pc = "register",
                     jobs[Handlers[ClientWaits(c)].job].completed
              PROVE  FALSE
  BY DEF OpenRegisters
<1>1. PICK j : j = Handlers[ClientWaits(c)].job
  OBVIOUS
<1>2. j \in DOMAIN jobs /\ DOMAIN jobs[j].tasks \subseteq NotYetAtTako
  BY <1>1, RegisterTasks
<1>3. DOMAIN jobs[j].tasks # {} /\ non_finished_task_ids(jobs[j]) = {}
  BY <1>1, <1>2 DEF BasicInv, CompletedWhenTerminated
<1>4. PICK t \in DOMAIN jobs[j].tasks : TRUE
  BY <1>3
<1>5. jobs[j].tasks[t] \in NonFinished
  BY <1>2, NotYetOpen
<1>. QED  BY <1>3, <1>5 DEF non_finished_task_ids, InState

\* A stream that a task of tako may write to is registered.
LEMMA AgreementLogs ==
    ASSUME BasicInv, RpcInv, StreamInv, NEW V, Agreement(V)
    PROVE  LogRegisteredWhileHeld
<1>. SUFFICES ASSUME NEW j \in DOMAIN jobs, jobs[j].log, NEW t \in DOMAIN jobs[j].tasks,
                     t \in DOMAIN tako_tasks, j \notin registrations
              PROVE  FALSE
  BY DEF LogRegisteredWhileHeld
<1>1. jobs[j].tasks[t] \in NonFinished /\ t \notin NotYetAtTako
  BY HeldAtTako
<1>2. ~ jobs[j].completed
  BY <1>1 DEF BasicInv, CompletedWhenTerminated, non_finished_task_ids, InState
<1>3. PICK i \in 1 .. Len(control) : control[i].type = "RegisterStream" /\ control[i].job = j
  BY <1>2 DEF StreamInv, StreamOK
<1>4. control[i].client \in Clients
  BY SMTT(30), <1>3 DEF BasicInv, TypeOK, StreamTypeOK, Control
<1>5. /\ Handlers[ClientWaits(control[i].client)].pc = "register"
      /\ Handlers[ClientWaits(control[i].client)].job = j
  BY <1>3 DEF RpcInv, RegisterOK
<1>. QED  BY <1>1, <1>4, <1>5, RegisterTasks
----------------------------------------------------------------------------
(* Streams.                                                                *)

\* Streams are not touched.
LEMMA StreamFrame ==
    ASSUME NEW ctl, NEW reg, NEW js, NEW ks, StreamOK(ctl, reg, js), JobsKeep(js, ks),
           DOMAIN ks = DOMAIN js
    PROVE  StreamOK(ctl, reg, ks)
  BY DEF StreamOK, JobsKeep

\* A job with a log is completed: its stream is to be unregistered.
LEMMA StreamEnds ==
    ASSUME NEW ctl \in Seq(Control), NEW reg, NEW js, StreamOK(ctl, reg, js),
           NEW j \in DOMAIN js, js[j].completed, j \in reg,
           \A i \in 1 .. Len(ctl) : ctl[i].job # j,
           NEW msg, msg.type = "UnregisterStream", msg.job = j
    PROVE  StreamOK(Append(ctl, msg), reg, js)
<1>. DEFINE ctl2 == Append(ctl, msg)
<1>1. /\ Len(ctl2) = Len(ctl) + 1 /\ Len(ctl) \in Nat /\ ctl2[Len(ctl) + 1] = msg
      /\ \A i \in 1 .. Len(ctl) : ctl2[i] = ctl[i] /\ i \in 1 .. Len(ctl2)
      /\ \A i \in 1 .. Len(ctl2) : i \in 1 .. Len(ctl) \/ i = Len(ctl) + 1
  BY SMT
<1>. HIDE DEF ctl2
<1>2. ASSUME NEW i \in 1 .. Len(ctl2)
      PROVE  /\ ctl2[i].job \in DOMAIN js
             /\ ctl2[i].type = "RegisterStream" => ctl2[i].job \notin reg
             /\ ctl2[i].type = "UnregisterStream" => ctl2[i].job \in reg /\ js[ctl2[i].job].completed
  BY SMT, <1>1 DEF StreamOK
<1>3. \A i, k \in 1 .. Len(ctl2) : ctl2[i].job = ctl2[k].job => i = k
  BY SMTT(30), <1>1 DEF StreamOK
<1>4. ASSUME NEW i \in DOMAIN js, js[i].log, ~ js[i].completed
      PROVE  i \in reg \/ \E k \in 1 .. Len(ctl2) : ctl2[k].type = "RegisterStream" /\ ctl2[k].job = i
  BY SMTT(30), <1>1, <1>4 DEF StreamOK
<1>. QED  BY <1>2, <1>3, <1>4 DEF StreamOK, ctl2

\* A job is submitted, and its stream is to be registered if it has a log.
LEMMA StreamBegins ==
    ASSUME NEW ctl \in Seq(Control), NEW reg, NEW js, StreamOK(ctl, reg, js),
           NEW j, j \notin DOMAIN js, NEW job, NEW ks, ks = Insert(js, j, job),
           NEW ctl2, NEW msg,
           IF job.log THEN ctl2 = Append(ctl, msg) /\ msg.type = "RegisterStream" /\ msg.job = j
           ELSE ctl2 = ctl
    PROVE  StreamOK(ctl2, reg, ks)
<1>1. /\ DOMAIN ks = DOMAIN js \cup {j} /\ ks[j] = job
      /\ \A i \in DOMAIN js : ks[i] = js[i]
  BY SMT DEF Insert
<1>2. StreamOK(ctl, reg, js)
  BY SMT
<1>3. CASE ~ job.log
  BY SMTT(30), <1>1, <1>2, <1>3 DEF StreamOK
<1>4. CASE job.log
  <2>1. msg.type = "RegisterStream" /\ msg.job = j /\ ctl2 = Append(ctl, msg)
    BY <1>4
  <2>2. /\ Len(ctl2) = Len(ctl) + 1 /\ Len(ctl) \in Nat /\ ctl2[Len(ctl) + 1] = msg
        /\ Len(ctl) + 1 \in 1 .. Len(ctl2)
        /\ \A i \in 1 .. Len(ctl) : ctl2[i] = ctl[i] /\ i \in 1 .. Len(ctl2)
        /\ \A i \in 1 .. Len(ctl2) : i \in 1 .. Len(ctl) \/ i = Len(ctl) + 1
    BY SMTT(30), <2>1
  <2>3. ASSUME NEW i \in 1 .. Len(ctl2)
        PROVE  /\ ctl2[i].job \in DOMAIN ks
               /\ ctl2[i].type = "RegisterStream" => ctl2[i].job \notin reg
               /\ ctl2[i].type = "UnregisterStream" => ctl2[i].job \in reg /\ ks[ctl2[i].job].completed
    <3>1. CASE i = Len(ctl) + 1
      BY <1>1, <2>1, <2>2, <3>1 DEF StreamOK
    <3>2. CASE i \in 1 .. Len(ctl)
      BY SMT, <1>1, <2>2, <3>2 DEF StreamOK
    <3>. QED  BY <2>2, <3>1, <3>2
  <2>4. \A i, k \in 1 .. Len(ctl2) : ctl2[i].job = ctl2[k].job => i = k
    BY SMT, <1>1, <2>1, <2>2 DEF StreamOK
  <2>5. ASSUME NEW i \in DOMAIN ks, ks[i].log, ~ ks[i].completed
        PROVE  i \in reg \/ \E k \in 1 .. Len(ctl2) : ctl2[k].type = "RegisterStream" /\ ctl2[k].job = i
    BY SMT, <1>1, <2>1, <2>2, <2>5 DEF StreamOK
  <2>6. reg \subseteq DOMAIN ks
    BY <1>1 DEF StreamOK
  <2>. QED  BY <2>3, <2>4, <2>5, <2>6 DEF StreamOK
<1>. QED  BY <1>3, <1>4

\* The first message is handled: a stream is registered or unregistered.
LEMMA StreamHandled ==
    ASSUME NEW ctl \in Seq(Control), ctl # <<>>, NEW reg, NEW js, StreamOK(ctl, reg, js),
           NEW now,
           \/ ctl[1].type = "RegisterStream" /\ now = reg \cup {ctl[1].job}
           \/ ctl[1].type = "UnregisterStream" /\ now = reg \ {ctl[1].job}
    PROVE  StreamOK(Tail(ctl), now, js)
<1>. DEFINE ctl2 == Tail(ctl)
<1>1. /\ \A i \in 1 .. Len(ctl2) : ctl2[i] = ctl[i + 1] /\ i + 1 \in 1 .. Len(ctl) /\ i + 1 # 1
      /\ \A i, k \in 1 .. Len(ctl2) : i + 1 = k + 1 => i = k
      /\ \A i \in 1 .. Len(ctl) : i = 1 \/ \E k \in 1 .. Len(ctl2) : k + 1 = i /\ ctl2[k] = ctl[i]
      /\ 1 \in 1 .. Len(ctl)
  <2>1. /\ Len(ctl) \in Nat /\ Len(ctl) > 0 /\ Len(ctl2) = Len(ctl) - 1
        /\ \A i \in 1 .. Len(ctl2) : ctl2[i] = ctl[i + 1]
    BY SMT
  <2>. HIDE DEF ctl2
  <2>2. ASSUME NEW i \in 1 .. Len(ctl), i # 1
        PROVE  \E k \in 1 .. Len(ctl2) : k + 1 = i /\ ctl2[k] = ctl[i]
    <3>1. i - 1 \in 1 .. Len(ctl2) /\ (i - 1) + 1 = i
      BY SMT, <2>1, <2>2
    <3>. QED  BY SMT, <2>1, <3>1
  <2>. QED  BY SMT, <2>1, <2>2
<1>2. ctl[1].type \in {"RegisterStream", "UnregisterStream"} /\ "RegisterStream" # "UnregisterStream"
  BY SMT
<1>. HIDE DEF ctl2
<1>3. ASSUME NEW i \in 1 .. Len(ctl2)
      PROVE  /\ ctl2[i].job \in DOMAIN js /\ ctl2[i].job # ctl[1].job
             /\ ctl2[i].type = "RegisterStream" => ctl2[i].job \notin reg
             /\ ctl2[i].type = "UnregisterStream" => ctl2[i].job \in reg /\ js[ctl2[i].job].completed
  BY SMTT(30), <1>1 DEF StreamOK
<1>4. ASSUME NEW i \in 1 .. Len(ctl2), NEW k \in 1 .. Len(ctl2), ctl2[i].job = ctl2[k].job
      PROVE  i = k
  <2>1. ctl[i + 1].job = ctl[k + 1].job /\ i + 1 \in 1 .. Len(ctl) /\ k + 1 \in 1 .. Len(ctl)
    BY <1>1, <1>4
  <2>2. i + 1 = k + 1
    BY <2>1 DEF StreamOK
  <2>. QED  BY <1>1, <2>2
<1>5. now \subseteq DOMAIN js
  BY SMT, <1>1 DEF StreamOK
<1>6. ASSUME NEW j \in DOMAIN js, js[j].log, ~ js[j].completed
      PROVE  j \in now \/ \E k \in 1 .. Len(ctl2) : ctl2[k].type = "RegisterStream" /\ ctl2[k].job = j
  <2>1. CASE j \in reg
    BY <1>1, <1>2, <1>6, <2>1 DEF StreamOK
  <2>2. CASE \E i \in 1 .. Len(ctl) : ctl[i].type = "RegisterStream" /\ ctl[i].job = j
    <3>1. PICK i \in 1 .. Len(ctl) : ctl[i].type = "RegisterStream" /\ ctl[i].job = j
      BY <2>2
    <3>2. CASE i = 1
      BY SMT, <1>2, <3>1, <3>2
    <3>3. CASE i # 1
      <4>1. PICK k \in 1 .. Len(ctl2) : k + 1 = i /\ ctl2[k] = ctl[i]
        BY SMT, <1>1, <3>3
      <4>. QED  BY <3>1, <4>1
    <3>. QED  BY <3>2, <3>3
  <2>. QED  BY <1>6, <2>1, <2>2 DEF StreamOK
<1>7. ASSUME NEW i \in 1 .. Len(ctl2)
      PROVE  /\ ctl2[i].type = "RegisterStream" => ctl2[i].job \notin now
             /\ ctl2[i].type = "UnregisterStream" => ctl2[i].job \in now
  BY <1>3
<1>. QED  BY <1>3, <1>4, <1>5, <1>6, <1>7 DEF StreamOK, ctl2

\* No operation on a job changes whether it has a log.
LEMMA LogKept ==
    ASSUME NEW job, JobTypeOK(job)
    PROVE  /\ \A id, w : set_running_state(job, id, w).log = job.log
           /\ \A id : set_finished_state(job, id).log = job.log
           /\ \A id : set_failed_state(job, id).log = job.log
           /\ \A ids : set_waiting_state(job, ids).log = job.log
           /\ \A ids : set_cancel_state(job, ids).log = job.log
<1>1. job \in JobRecord(DOMAIN job.tasks)
  BY DEF JobTypeOK
<1>2. \A id, w : set_running_state(job, id, w).log = job.log
  BY <1>1 DEF JobRecord, set_running_state
<1>3. \A id : set_finished_state(job, id).log = job.log
  BY <1>1 DEF JobRecord, set_finished_state, check_termination
<1>4. \A id : set_failed_state(job, id).log = job.log
  BY <1>1 DEF JobRecord, set_failed_state, check_termination
<1>5. \A ids : set_waiting_state(job, ids).log = job.log
  BY <1>1 DEF JobRecord, set_waiting_state
<1>6. \A ids : set_cancel_state(job, ids).log = job.log
  <2>. TAKE ids
  <2>1. CASE ids = {}
    BY <2>1 DEF set_cancel_state
  <2>2. CASE ids # {}
    BY <1>1, <2>2 DEF JobRecord, set_cancel_state, check_termination, CancelWith
  <2>. QED  BY <2>1, <2>2
<1>. QED  BY <1>2, <1>3, <1>4, <1>5, <1>6

\* A completed job stays completed.
LEMMA CompletedStays ==
    ASSUME StepFacts, NEW j \in DOMAIN jobs, jobs[j].completed
    PROVE  jobs'[j].completed
<1>1. /\ j \in DOMAIN jobs' /\ DOMAIN jobs'[j].tasks = DOMAIN jobs[j].tasks
      /\ DOMAIN jobs[j].tasks # {} /\ non_finished_task_ids(jobs[j]) = {}
      /\ JobTypeOK(jobs[j])
  <2>1. j \in DOMAIN TasksOf(jobs) /\ TasksOf(jobs)[j] = DOMAIN jobs[j].tasks
    BY DEF TasksOf
  <2>2. j \in DOMAIN jobs' /\ TasksOf(jobs')[j] = TasksOf(jobs)[j]
    BY <2>1 DEF StepFacts, Grows, TasksOf
  <2>3. TasksOf(jobs')[j] = DOMAIN jobs'[j].tasks
    BY <2>2 DEF TasksOf
  <2>. QED  BY <2>1, <2>2, <2>3 DEF StepFacts, BasicInv, CompletedWhenTerminated, TypeOK, StateTypeOK
<1>2. ASSUME NEW t \in DOMAIN jobs[j].tasks  PROVE jobs'[j].tasks[t] \notin NonFinished
  <2>1. jobs[j].tasks[t] \in JobTaskState
    BY <1>1 DEF JobTypeOK, JobRecord
  <2>2. jobs[j].tasks[t] \in Terminal
    BY <1>1, <2>1 DEF non_finished_task_ids, InState, JobTaskState
  <2>3. jobs'[j].tasks[t] = jobs[j].tasks[t]
    BY <2>2 DEF StepFacts, InState
  <2>. QED  BY SMT, <2>2, <2>3 DEF Terminal, NonFinished
<1>3. non_finished_task_ids(jobs'[j]) = {}
  BY <1>1, <1>2 DEF non_finished_task_ids, InState
<1>. QED  BY <1>1, <1>3 DEF StepFacts, BasicInv, CompletedWhenTerminated

\* The jobs are the same, and keep their logs.
LogsStay == DOMAIN jobs' = DOMAIN jobs /\ \A j \in DOMAIN jobs : jobs'[j].log = jobs[j].log

\* The messages to the stream server stay, whatever happens to the tasks.
LEMMA StreamStays ==
    ASSUME StepFacts, StreamInv, LogsStay, UNCHANGED streamVars
    PROVE  StreamInv'
<1>1. JobsKeep(jobs, jobs')
  BY CompletedStays DEF JobsKeep, LogsStay
<1>2. StreamOK(control, registrations, jobs')
  BY <1>1, StreamFrame DEF LogsStay, StreamInv
<1>. QED  BY <1>2 DEF StreamInv, streamVars

\* One job goes on, and may be completed by that.
LEMMA StreamMayEnd ==
    ASSUME StepFacts, RpcInv', StreamInv, OpenRegisters', LogsStay, UNCHANGED registrations,
           NEW j \in DOMAIN jobs, non_finished_task_ids(jobs[j]) # {},
           UnregisterStream(j, jobs'[j])
    PROVE  StreamInv'
<1>1. JobsKeep(jobs, jobs') /\ j \in DOMAIN jobs'
  BY CompletedStays DEF JobsKeep, LogsStay
<1>2. StreamOK(control, registrations, jobs')
  BY <1>1, StreamFrame DEF LogsStay, StreamInv
<1>3. CASE ~ (jobs'[j].log /\ is_terminated(jobs'[j]))
  <2>1. control' = control
    BY <1>3 DEF UnregisterStream
  <2>. QED  BY <1>2, <2>1 DEF StreamInv
<1>4. CASE jobs'[j].log /\ is_terminated(jobs'[j])
  <2>. DEFINE msg == [type |-> "UnregisterStream", job |-> j]
  <2>1. control' = Append(control, msg) /\ control \in Seq(Control)
    BY <1>4 DEF UnregisterStream, StepFacts, BasicInv, TypeOK, StreamTypeOK
  <2>2. /\ ~ jobs[j].completed /\ jobs[j].log
        /\ jobs'[j].completed
    <3>1. ~ jobs[j].completed
      BY DEF StepFacts, BasicInv, CompletedWhenTerminated
    <3>2. jobs[j].log
      BY <1>4 DEF LogsStay
    <3>3. non_finished_task_ids(jobs'[j]) = {}
      BY <1>1, <1>4 DEF StepFacts, BasicInv
    <3>4. DOMAIN jobs[j].tasks # {} /\ TasksOf(jobs)[j] = DOMAIN jobs[j].tasks /\ j \in DOMAIN TasksOf(jobs)
      BY DEF non_finished_task_ids, InState, TasksOf
    <3>5. DOMAIN jobs'[j].tasks # {}
      BY <1>1, <3>4 DEF StepFacts, Grows, TasksOf
    <3>. QED  BY <1>1, <3>1, <3>2, <3>3, <3>5 DEF StepFacts, BasicInv, CompletedWhenTerminated
  <2>3. /\ \A i \in 1 .. Len(control) : i \in 1 .. Len(control') /\ control'[i] = control[i]
        /\ \A i \in 1 .. Len(control) : control[i].type \in {"RegisterStream", "UnregisterStream"}
        /\ \A i \in 1 .. Len(control) : control[i].type = "RegisterStream" => control[i].client \in Clients
    BY SMT, <2>1 DEF Control
  <2>4. ASSUME NEW i \in 1 .. Len(control), control[i].type = "RegisterStream", control[i].job = j
        PROVE  FALSE
    <3>1. /\ Handlers'[ClientWaits(control[i].client)].pc = "register"
          /\ Handlers'[ClientWaits(control[i].client)].job = j
      BY SMT, <2>3, <2>4 DEF RpcInv, RegisterOK
    <3>. QED  BY <2>2, <2>3, <2>4, <3>1 DEF OpenRegisters
  <2>5. j \in registrations
    BY <2>2, <2>4 DEF StreamInv, StreamOK
  <2>6. \A i \in 1 .. Len(control) : control[i].job # j
    BY <2>2, <2>3, <2>4 DEF StreamInv, StreamOK
  <2>7. msg.type = "UnregisterStream" /\ msg.job = j
    BY SMT
  <2>. HIDE DEF msg
  <2>8. StreamOK(Append(control, msg), registrations, jobs')
    BY <1>1, <1>2, <2>1, <2>2, <2>5, <2>6, <2>7, StreamEnds
  <2>. QED  BY <2>1, <2>8 DEF StreamInv
<1>. QED  BY <1>3, <1>4

\* The reader finds the job of a report.
LEMMA ReportFinds ==
    ASSUME BasicInv, NEW type \in {"Running", "Finished", "Waiting", "TaskFailed"}, Receive(type),
           get_job_by_tako_task_id(Head(from_tako).task) # NoJob
    PROVE  /\ get_job_by_tako_task_id(Head(from_tako).task) \in DOMAIN jobs
           /\ JobTypeOK(jobs[get_job_by_tako_task_id(Head(from_tako).task)])
<1>1. from_tako \in Seq(FromTako) /\ from_tako # <<>> /\ Head(from_tako).type = type
  BY DEF Receive, BasicInv, TypeOK, RpcTypeOK
<1>2. Head(from_tako) \in FromTako
  BY SMT, <1>1
<1>3. Head(from_tako).task \in Nat
  BY SMT, <1>1, <1>2 DEF FromTako, Response
<1>. QED  BY <1>3 DEF BasicInv, TypeOK, StateTypeOK

\* One job changes, and keeps its log.
LEMMA OneLog ==
    ASSUME NEW j \in DOMAIN jobs, NEW job, job.log = jobs[j].log, jobs' = [jobs EXCEPT ![j] = job]
    PROVE  LogsStay /\ jobs'[j] = job
  BY SMT DEF LogsStay

\* Nothing happens to jobs and streams.
LEMMA StreamIdle ==
    ASSUME StreamInv, UNCHANGED <<jobs, control, registrations>>
    PROVE  StreamInv'
  BY DEF StreamInv

\* A panic leaves them alone.
LEMMA StreamPanic == StreamInv /\ Panic => StreamInv'
  BY StreamIdle DEF Panic, stateVars, streamVars

\* A report that a task ended may complete the job.
LEMMA StreamReports ==
    ASSUME StepFacts, RpcInv', StreamInv, OpenRegisters', process_task_finished \/ process_task_failed
    PROVE  StreamInv'
<1>. DEFINE t == Head(from_tako).task
            j == get_job_by_tako_task_id(t)
<1>. SUFFICES ASSUME ~ Panic  PROVE StreamInv'
  BY StreamPanic
<1>1. PICK type \in {"Finished", "TaskFailed"} : Receive(type)
  BY DEF process_task_finished, process_task_failed
<1>2. j # NoJob /\ can_end(jobs[j], t)
  BY DEF process_task_finished, process_task_failed
<1>3. j \in DOMAIN jobs /\ JobTypeOK(jobs[j])
  BY <1>1, <1>2, ReportFinds DEF StepFacts
<1>4. PICK job \in {set_finished_state(jobs[j], t), set_failed_state(jobs[j], t)} :
            /\ jobs' = [jobs EXCEPT ![j] = job]
            /\ UnregisterStream(j, jobs'[j]) /\ UNCHANGED registrations
  BY <1>2 DEF process_task_finished, process_task_failed
<1>. HIDE DEF j, t
<1>5. job.log = jobs[j].log
  <2>1. PICK old : old = jobs[j]
    OBVIOUS
  <2>2. set_finished_state(old, t).log = old.log /\ set_failed_state(old, t).log = old.log
    BY <1>3, <2>1, LogKept
  <2>. QED  BY <1>4, <2>1, <2>2
<1>6. LogsStay
  BY <1>3, <1>4, <1>5, OneLog
<1>7. non_finished_task_ids(jobs[j]) # {}
  BY <1>2 DEF can_end, non_finished_task_ids, InState, NonFinished
<1>. QED  BY <1>3, <1>4, <1>6, <1>7, StreamMayEnd

\* The other reports end no task.
LEMMA StreamOthers ==
    ASSUME StepFacts, StreamInv,
           \/ process_task_running \/ process_task_waiting
           \/ process_worker_new \/ process_worker_lost
    PROVE  StreamInv'
<1>. DEFINE t == Head(from_tako).task
            j == get_job_by_tako_task_id(t)
<1>. SUFFICES ASSUME ~ Panic  PROVE StreamInv'
  BY StreamPanic
<1>0. \A i \in DOMAIN jobs : JobTypeOK(jobs[i])
  BY DEF StepFacts, BasicInv, TypeOK, StateTypeOK
<1>1. CASE process_task_running \/ process_task_waiting
  <2>1. PICK type \in {"Running", "Waiting"} : Receive(type)
    BY <1>1 DEF process_task_running, process_task_waiting
  <2>2. j # NoJob
    BY <1>1 DEF process_task_running, process_task_waiting
  <2>3. j \in DOMAIN jobs /\ JobTypeOK(jobs[j])
    BY <2>1, <2>2, ReportFinds DEF StepFacts
  <2>4. UNCHANGED streamVars
    BY <1>1, <2>2 DEF process_task_running, process_task_waiting
  <2>5. \/ jobs' = [jobs EXCEPT ![j] = set_running_state(jobs[j], t, Head(from_tako).worker)]
        \/ jobs' = [jobs EXCEPT ![j] = set_waiting_state(jobs[j], {t})]
    BY <1>1, <2>2 DEF process_task_running, process_task_waiting
  <2>. HIDE DEF j, t
  <2>6. PICK job : jobs' = [jobs EXCEPT ![j] = job] /\ job.log = jobs[j].log
    <3>1. PICK old : old = jobs[j]
      OBVIOUS
    <3>2. PICK w : w = Head(from_tako).worker
      OBVIOUS
    <3>3. JobTypeOK(old)
      BY <2>3, <3>1
    <3>4. set_running_state(old, t, w).log = old.log
      BY SMT, <3>3, LogKept
    <3>5. set_waiting_state(old, {t}).log = old.log
      BY <3>3, LogKept
    <3>. QED  BY <2>5, <3>1, <3>2, <3>4, <3>5
  <2>7. LogsStay
    BY <2>3, <2>6, OneLog
  <2>. QED  BY <2>4, <2>7, StreamStays
<1>2. CASE process_worker_new
  BY <1>2, StreamIdle DEF process_worker_new, stateVars, streamVars
<1>3. CASE process_worker_lost
  <2>. DEFINE lost(i) == {u \in Head(from_tako).tasks : get_job_by_tako_task_id(u) = i}
  <2>1. UNCHANGED streamVars
    BY <1>3 DEF process_worker_lost
  <2>2. jobs' = [i \in DOMAIN jobs |-> set_waiting_state(jobs[i], lost(i))]
    BY <1>3 DEF process_worker_lost
  <2>. HIDE DEF lost
  <2>3. LogsStay
    BY <1>0, <2>2, LogKept DEF LogsStay
  <2>. QED  BY <2>1, <2>3, StreamStays
<1>. QED  BY <1>1, <1>2, <1>3

\* A handler marks the tasks that tako canceled.
LEMMA StreamMarks ==
    ASSUME StepFacts, RpcInv', StreamInv, OpenRegisters', NEW who, Marks(who)
    PROVE  StreamInv'
<1>. DEFINE j == Handlers[who].job
            ids == Hand(Handlers[who])
            job == set_cancel_state(jobs[j], ids)
<1>1. /\ j \in DOMAIN jobs /\ can_cancel(jobs[j], ids) /\ UNCHANGED registrations
      /\ jobs' = [jobs EXCEPT ![j] = job]
      /\ IF ids = {} THEN UNCHANGED control ELSE UnregisterStream(j, job)
  BY DEF Marks, apply_cancel
<1>2. JobTypeOK(jobs[j])
  BY <1>1 DEF StepFacts, BasicInv, TypeOK, StateTypeOK
<1>3. job.log = jobs[j].log
  BY <1>2, LogKept
<1>. HIDE DEF job, ids, j
<1>4. LogsStay /\ jobs'[j] = job
  BY <1>1, <1>3, OneLog
<1>5. CASE ids = {}
  BY <1>1, <1>4, <1>5, StreamStays DEF streamVars
<1>6. CASE ids # {}
  <2>1. non_finished_task_ids(jobs[j]) # {}
    BY <1>1, <1>6 DEF can_cancel, non_finished_task_ids
  <2>. QED  BY <1>1, <1>4, <1>6, <2>1, StreamMayEnd
<1>. QED  BY <1>5, <1>6

\* A job is submitted.
LEMMA StreamSubmits ==
    ASSUME StepFacts, StreamInv, NEW c \in Clients, NEW spec, Submitted(c, spec)
    PROVE  StreamInv'
<1>. DEFINE job == new(task_id_counter, spec)
            msg == [type |-> "RegisterStream", job |-> job_id_counter, client |-> c]
<1>1. /\ jobs' = Insert(jobs, job_id_counter, job) /\ UNCHANGED registrations
      /\ IF spec.log THEN control' = Append(control, msg) ELSE control' = control
  BY DEF Submitted
<1>2. job.log = spec.log
  BY DEF new
<1>3. msg.type = "RegisterStream" /\ msg.job = job_id_counter
  BY SMT
<1>4. job_id_counter \notin DOMAIN jobs /\ control \in Seq(Control)
  BY SMTT(30) DEF StepFacts, BasicInv, TypeOK, StateTypeOK, StreamTypeOK
<1>. HIDE DEF job, msg
<1>5. IF job.log THEN control' = Append(control, msg) /\ msg.type = "RegisterStream" /\ msg.job = job_id_counter
      ELSE control' = control
  BY <1>1, <1>2, <1>3
<1>6. StreamOK(control', registrations, jobs')
  BY <1>1, <1>4, <1>5, StreamBegins DEF StreamInv
<1>. QED  BY <1>1, <1>6 DEF StreamInv

\* The stream server handles a message.
LEMMA StreamHandles ==
    ASSUME BasicInv, StreamInv, register_stream \/ unregister_stream
    PROVE  StreamInv'
<1>. SUFFICES ASSUME ~ Panic  PROVE StreamInv'
  BY StreamPanic
<1>1. /\ control # <<>> /\ control' = Tail(control) /\ UNCHANGED jobs
      /\ \/ Head(control).type = "RegisterStream" /\ registrations' = registrations \cup {Head(control).job}
         \/ Head(control).type = "UnregisterStream" /\ registrations' = registrations \ {Head(control).job}
  BY DEF register_stream, unregister_stream, stateVars
<1>2. control \in Seq(Control)
  BY DEF BasicInv, TypeOK, StreamTypeOK
<1>3. Head(control) = control[1]
  BY SMT, <1>1, <1>2
<1>4. StreamOK(Tail(control), registrations', jobs)
  BY <1>1, <1>2, <1>3, StreamHandled DEF StreamInv
<1>. QED  BY <1>1, <1>4 DEF StreamInv

\* Every step keeps the streams.
LEMMA StreamKinds ==
    ASSUME StepFacts, RpcInv', StreamInv, OpenRegisters', StepKind
    PROVE  StreamInv'
<1>1. CASE ReaderStep
  <2>1. CASE \E who \in Waiting, msg \in FromTako : Delivered(who, msg)
    BY <2>1, StreamIdle DEF Delivered, stateVars, streamVars
  <2>. QED  BY <1>1, <2>1, StreamReports, StreamOthers DEF ReaderStep, Fails
<1>2. ASSUME NEW c \in Clients, ClientStepOf(c)  PROVE StreamInv'
  <2>1. CASE \E spec : Submitted(c, spec)
    BY <2>1, StreamSubmits
  <2>2. CASE TasksStay /\ UNCHANGED <<control, registrations>>
    BY <2>2, StreamIdle DEF TasksStay
  <2>3. CASE Marks(ClientWaits(c))
    BY <2>3, StreamMarks
  <2>. QED  BY <1>2, <2>1, <2>2, <2>3 DEF ClientStepOf, Proceeds, MarksNext
<1>3. ASSUME NEW c \in Clients, Registers(c)  PROVE StreamInv'
  BY <1>3, StreamHandles DEF Registers, StepFacts
<1>4. ASSUME NEW t \in Nat, SpawnedSends(t) \/ SpawnedEnds(t)  PROVE StreamInv'
  <2>1. CASE TasksStay /\ UNCHANGED <<control, registrations>>
    BY <2>1, StreamIdle DEF TasksStay
  <2>2. CASE Marks(CallbackWaits(t))
    BY <2>2, StreamMarks
  <2>. QED  BY <1>4, <2>1, <2>2 DEF SpawnedSends, SpawnedEnds
<1>5. CASE TakoRequest \/ TakoEvent
  <2>1. UNCHANGED stateVars /\ UNCHANGED streamVars
    BY <1>5 DEF TakoRequest, TakoEvent, TakoNewTasks, TakoCancelTasks, TakoCancelFails, TakoStopWorker,
                       TakoAnswers, TakoWorkerConnects, TakoWorkerLost, TakoTaskStarts,
                       TakoTaskStartsAgain, TakoTaskReturns, TakoTaskEnds, TakoReports
  <2>. QED  BY <2>1, StreamIdle DEF stateVars, streamVars
<1>6. CASE TasksStay /\ (unregister_stream \/ UNCHANGED <<control, registrations>>)
  BY <1>6, StreamHandles, StreamIdle DEF TasksStay, StepFacts
<1>7. CASE PanicStep
  BY <1>7, StreamPanic DEF PanicStep
<1>. QED  BY <1>1, <1>2, <1>3, <1>4, <1>5, <1>6, <1>7 DEF StepKind

\* No stream is registered, and none is to be.
LEMMA StreamInit == Init => StreamInv
<1>. SUFFICES ASSUME Init  PROVE StreamInv
  OBVIOUS
<1>1. control = <<>> /\ registrations = {} /\ DOMAIN jobs = {}
  BY SMT DEF Init
<1>. QED  BY SMT, <1>1 DEF StreamInv, StreamOK

\* The asserts of the stream server hold.
LEMMA StreamsHold ==
    ASSUME BasicInv, StreamInv, Clash
    PROVE  task_id_counter \in DOMAIN base_task_id_to_job_id
<1>1. control # <<>> => Head(control) = control[1] /\ 1 \in 1 .. Len(control)
  BY SMT DEF BasicInv, TypeOK, StreamTypeOK
<1>. QED  BY <1>1 DEF Clash, StreamInv, StreamOK
============================================================================
