---------------------------- MODULE LogReader -----------------------------
(***************************************************************************)
(* Reading a log: stream/reader/logfile.rs.  A file is the sequence of     *)
(* what the writer has written, one element per write_all: the start of a  *)
(* stream, the header of a chunk ("Chunk"), its data ("Data"), the end of  *)
(* a stream.  Positions count elements.                                    *)
(***************************************************************************)
EXTENDS Integers, Sequences, FiniteSets, SequencesExt, FiniteSetsExt

\* Whether the index has the instance, and where.
instance(index, t, i) ==
    IF t \in DOMAIN index THEN {k \in DOMAIN index[t] : index[t][k].instance_id = i} ELSE {}

NewInfo(i) == [instance_id |-> i, channels |-> [ch \in {0, 1} |-> <<>>], finished |-> FALSE]

\* Mutant: instances are kept in the order in which their streams start.
new_instance_last(infos, i) == Append(infos, NewInfo(i))

\* The instances of a task are sorted by their ids.
new_instance(infos, i) ==
    InsertAt(infos, 1 + Cardinality({k \in DOMAIN infos : infos[k].instance_id < i}), NewInfo(i))

\* Mutant: the first instance instead of the last.
first_instance(infos) == Head(infos)

last_instance(infos) == Last(infos)

\* One round of the loop of make_index, at the element at position pos.
index_block(file, st, pos) ==
    LET b == file[pos]
        at == instance(st.index, b.task, b.instance)
        infos == IF b.task \in DOMAIN st.index THEN st.index[b.task] ELSE <<>>
        bail == [st EXCEPT !.ok = FALSE]
        update(new) == [st EXCEPT !.index = (b.task :> new) @@ @]
    IN  CASE ~ st.ok -> st
          [] st.ok /\ b.kind = "Start" ->
                IF at # {} THEN bail ELSE update(new_instance(infos, b.instance))
          [] st.ok /\ b.kind = "Chunk" ->
                IF at = {} THEN bail
                ELSE update([infos EXCEPT ![Max(at)].channels[b.channel] =
                         Append(@, [position |-> pos + 1, size |-> b.size])])
          [] st.ok /\ b.kind = "End" ->
                IF at = {} THEN bail ELSE update([infos EXCEPT ![Max(at)].finished = TRUE])
          [] st.ok /\ b.kind = "Data" -> st    \* seek_relative

make_index(file) ==
    FoldLeft(LAMBDA st, pos : index_block(file, st, pos),
             [ok |-> TRUE, index |-> <<>>], [k \in 1 .. Len(file) |-> k])

Size(chunks) == FoldLeft(LAMBDA n, c : n + c.size, 0, chunks)

summary(index) ==
    LET n_streams == MapThenSumSet(LAMBDA t : Len(index[t]), DOMAIN index)
        last_size(ch) == MapThenSumSet(LAMBDA t : Size(last_instance(index[t]).channels[ch]),
                               DOMAIN index)
        superseded_size(ch) ==
            MapThenSumSet(LAMBDA t : MapThenSumSet(LAMBDA k : Size(index[t][k].channels[ch]),
                                   1 .. Len(index[t]) - 1), DOMAIN index)
    IN  [n_tasks      |-> Cardinality(DOMAIN index),
         n_streams    |-> n_streams,
         n_opened     |-> Cardinality({t \in DOMAIN index : ~ last_instance(index[t]).finished}),
         n_superseded |-> n_streams - Cardinality(DOMAIN index),
         size         |-> [ch \in {0, 1} |-> last_size(ch)],
         superseded   |-> [ch \in {0, 1} |-> superseded_size(ch)]]

\* cat --task=tasks; without the option tasks are all of the index.
cat(file, index, tasks, channel, allow_unfinished) ==
    LET chunks == FlattenSeq([k \in DOMAIN tasks |->
                      last_instance(index[tasks[k]]).channels[channel]])
        missing == {k \in DOMAIN chunks : chunks[k].position > Len(file)}
        readable == IF missing = {} THEN Len(chunks) ELSE Min(missing) - 1
        bail == [ok |-> FALSE, out |-> <<>>]
    IN  IF \E k \in DOMAIN tasks : tasks[k] \notin DOMAIN index THEN bail
        ELSE IF ~ allow_unfinished /\ \E k \in DOMAIN tasks :
                     ~ last_instance(index[tasks[k]]).finished THEN bail
        ELSE [ok |-> missing = {}, out |-> [k \in 1 .. readable |-> file[chunks[k].position]]]

AllTasks(index) == SetToSortSeq(DOMAIN index, <)

\* Mutant: show prints what it meets.
show_all(file, index, channels, show_empty) ==
    [result |-> "ok", out |-> SelectSeq(file, LAMBDA b : b.kind \in {"Data", "End"})]

\* show prints the file as it is now, which may have grown since the index was
\* made.  It ends with an error at data that is not there yet and panics at a
\* task it does not know.
show(file, index, channels, show_empty) ==
    LET active(b) == last_instance(index[b.task]).instance_id = b.instance
        step(st, pos) ==
            LET b == file[pos]
                print(x) == [st EXCEPT !.out = Append(@, x)]
            IN  IF st.result # "ok" \/ b.kind \in {"Start", "Data"} THEN st
                ELSE IF b.task \notin DOMAIN index /\ (b.kind = "Chunk" => b.channel \in channels)
                THEN [st EXCEPT !.result = "panic"]
                ELSE IF b.kind = "Chunk"
                THEN IF b.channel \notin channels \/ ~ active(b) THEN st
                     ELSE IF pos = Len(file) THEN [st EXCEPT !.result = "error"]
                     ELSE print(file[pos + 1])
                ELSE IF active(b) /\ (show_empty \/ \E k \in DOMAIN st.out : st.out[k].task = b.task)
                THEN print(b) ELSE st
    IN  IF DOMAIN index = {} THEN [result |-> "ok", out |-> <<>>]
        ELSE FoldLeft(step, [result |-> "ok", out |-> <<>>], [k \in 1 .. Len(file) |-> k])
============================================================================
