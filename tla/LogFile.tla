----------------------------- MODULE LogFile ------------------------------
(***************************************************************************)
(* A log that file_writer (stream/server/rpc.rs) is still writing and that *)
(* `hq log' opens at some moment and reads at a later one.  The writer may *)
(* be caught between any two of its writes.  The streams of two runs of a  *)
(* task come over different connections and interleave in any order.       *)
(***************************************************************************)
EXTENDS LogReader

CONSTANTS Tasks,         \* task ids, numbers
          Sizes,         \* sizes of chunks
          MaxInstances,  \* bound: runs of a task
          MaxFile        \* bound: elements of the file

ASSUME BoundsAssumption == Tasks \cup Sizes \subseteq Nat /\ {MaxInstances, MaxFile} \subseteq Nat

VARIABLES file,   \* what is in the file
          opened  \* the LogFile of the reader: its index and the length of the file then

vars == <<file, opened>>

Init == file = <<>> /\ opened = {}

Entry(kind, t, i, ch, size) ==
    [kind |-> kind, task |-> t, instance |-> i, channel |-> ch, size |-> size]

Has(f, kind, t, i) ==
    \E k \in DOMAIN f : f[k].kind = kind /\ f[k].task = t /\ f[k].instance = i

\* The header of a chunk is written and its data is not.
InChunk(f) == f # <<>> /\ Last(f).kind = "Chunk"

Write(entry) ==
    /\ Len(file) < MaxFile
    /\ file' = Append(file, entry)
    /\ UNCHANGED opened

write_start(t, i) ==
    /\ ~ InChunk(file)
    /\ ~ Has(file, "Start", t, i)
    /\ Write(Entry("Start", t, i, 0, 0))

write_chunk(t, i, ch) ==
    /\ ~ InChunk(file)
    /\ Has(file, "Start", t, i)
    /\ ~ Has(file, "End", t, i)
    /\ \E size \in Sizes : Write(Entry("Chunk", t, i, ch, size))

write_data ==
    /\ InChunk(file)
    /\ Write([Last(file) EXCEPT !.kind = "Data"])

write_end(t, i) ==
    /\ ~ InChunk(file)
    /\ Has(file, "Start", t, i)
    /\ ~ Has(file, "End", t, i)
    /\ Write(Entry("End", t, i, 0, 0))

\* LogFile::open.
open ==
    /\ make_index(file).ok
    /\ opened' = {[index |-> make_index(file).index, len |-> Len(file)]}
    /\ UNCHANGED file

Next ==
    \/ \E t \in Tasks, i \in 1 .. MaxInstances :
           \/ write_start(t, i)
           \/ \E ch \in {0, 1} : write_chunk(t, i, ch)
           \/ write_end(t, i)
    \/ write_data
    \/ open

Spec == Init /\ [][Next]_vars
----------------------------------------------------------------------------
(* What the reader should find, said of the file and not of the index.     *)

\* Both are about the file when it was opened.
Started(f) == {f[k].task : k \in {j \in DOMAIN f : f[j].kind = "Start"}}
Latest(f, t) == Max({i \in 1 .. MaxInstances : Has(f, "Start", t, i)})

\* The data of the latest run of t whose header was in the file when it had
\* n elements.
Output(n, t, ch) ==
    LET was == SubSeq(file, 1, n)
    IN  SelectSeq(SubSeq(file, 1, Min({n + 1, Len(file)})), LAMBDA b :
            b.kind = "Data" /\ b.task = t /\ b.channel = ch
                /\ b.instance = Latest(was, t))

\* `hq log cat' prints, task by task in the order of their ids, all data of the
\* latest run and nothing of a superseded one, also when the stream of the
\* superseded run starts later in the log and when the file grows after it was
\* opened.  Without --allow-unfinished it prints nothing unless all these
\* streams have ended.
CatPrintsLatest ==
    \A o \in opened, ch \in {0, 1} :
        LET was == SubSeq(file, 1, o.len)
            tasks == SetToSortSeq(Started(was), <)
            unfinished == cat(file, o.index, AllTasks(o.index), ch, TRUE)
            finished == cat(file, o.index, AllTasks(o.index), ch, FALSE)
            wanted == FlattenSeq([k \in DOMAIN tasks |-> Output(o.len, tasks[k], ch)])
        IN  /\ ~ InChunk(file) => unfinished = [ok |-> TRUE, out |-> wanted]
            /\ IF \A t \in Started(was) : Has(was, "End", t, Latest(was, t))
               THEN finished = [ok |-> TRUE, out |-> wanted]
               ELSE finished = [ok |-> FALSE, out |-> <<>>]

\* `hq log show' reads the file again, which may have grown since it was opened.
\* As long as no task has started its first stream in between, its unwrap of
\* active_instances holds and it prints the output, up to now, of the runs that
\* were the latest ones when the file was opened, in the order of the log, also
\* when a later run has started meanwhile; and a closing line for exactly those of
\* them that have ended and, without --show-empty, had output.  Of a file that did
\* not grow it prints of each task what `hq log cat --task' prints.
ShowAgreesWithCat ==
    \A o \in opened, show_empty \in BOOLEAN, channels \in {{0}, {1}, {0, 1}} :
        LET was == SubSeq(file, 1, o.len)
            shown == show(file, o.index, channels, show_empty)
            of(kind) == SelectSeq(shown.out, LAMBDA b : b.kind = kind)
            data == SelectSeq(file, LAMBDA b : /\ b.kind = "Data" /\ b.channel \in channels
                                               /\ b.instance = Latest(was, b.task))
            closed == SelectSeq(file, LAMBDA b :
                /\ b.kind = "End" /\ b.instance = Latest(was, b.task)
                /\ show_empty \/ \E k \in DOMAIN data : data[k].task = b.task)
        IN  ~ InChunk(file) /\ Started(file) = Started(was) =>
                /\ shown.result = "ok"
                /\ of("Data") = data
                /\ of("End") = closed
                /\ o.len = Len(file) => \A t \in DOMAIN o.index, ch \in channels :
                       SelectSeq(of("Data"), LAMBDA b : b.task = t /\ b.channel = ch)
                           = cat(file, o.index, <<t>>, ch, TRUE).out

\* `hq log summary' accounts for all bytes and streams of the log: the sizes of
\* the latest and of the superseded runs add up to what was written and the
\* streams that are open are the latest runs without an end.
SummaryAddsUp ==
    \A o \in opened :
        LET was == SubSeq(file, 1, o.len)
            s == summary(o.index)
            chunks(ch) == SelectSeq(was, LAMBDA b : b.kind = "Chunk" /\ b.channel = ch)
            latest(ch) == SelectSeq(chunks(ch), LAMBDA b : b.instance = Latest(was, b.task))
        IN  /\ \A ch \in {0, 1} :
                   /\ s.size[ch] = Size(latest(ch))
                   /\ s.size[ch] + s.superseded[ch] = Size(chunks(ch))
            /\ s.n_tasks = Cardinality(Started(was))
            /\ s.n_tasks + s.n_superseded
                   = Len(SelectSeq(was, LAMBDA b : b.kind = "Start"))
            /\ s.n_opened = Cardinality({t \in Started(was) : ~ Has(was, "End", t, Latest(was, t))})

\* docs/streaming.md on `cat': "If you want to use cat even with running tasks,
\* use option --allow-unfinished": with the option cat never fails.
CatAllowsUnfinished ==
    \A o \in opened, ch \in {0, 1} : cat(file, o.index, AllTasks(o.index), ch, TRUE).ok

\* The unwrap of active_instances in `show' never fails.
ShowNoPanic ==
    \A o \in opened : show(file, o.index, {0, 1}, FALSE).result # "panic"
============================================================================
