-------------------------- MODULE ServerDirProofs --------------------------
(***************************************************************************)
(* What ServerDir promises, proved for any number of server processes, any *)
(* versions and any time: a server that runs owns its record, and as long  *)
(* as no start overlaps a start or a stop or passes a running server of    *)
(* another version, hq-current leads clients to the only server that runs. *)
(***************************************************************************)
EXTENDS ServerDir, TLAPS

Labels == Over \cup Starting \cup {"idle", "run", "remove"}

DirTypeOK ==
    /\ now \in Dates /\ link \subseteq Dates /\ written \subseteq Dates
    /\ access \in [Dates -> SUBSET Servers]
    /\ version \in [Servers -> Versions]
    /\ pc \in [Servers -> Labels]
    /\ seen \in [Servers -> SUBSET Dates]
    /\ target \in [Servers -> SUBSET Servers]
    /\ date \in [Servers -> Dates]
    /\ overlap \subseteq {"start", "stop", "version"}

ClientTypeOK ==
    client \in [pc : {"idle", "read", "connect", "done"}, version : Versions,
                seen : SUBSET Dates, target : SUBSET Servers, running : SUBSET Servers,
                result : SUBSET Servers]

\* The servers whose access record is complete, and those that hold a directory.
Published(s) == pc[s] \in {"exists", "unlink", "symlink", "run", "remove"}

Holds(s) == pc[s] = "write" \/ Published(s)

\* What holds however starts overlap.
FilesInv ==
    /\ \A s \in Servers : Holds(s) => access[date[s]] = {s}
    /\ \A s \in Servers : Published(s) => date[s] \in written
    /\ link \subseteq written

Busy(s) == pc[s] \in Starting \cup {"remove"}

\* A start that has found no server.
Decided(s) == pc[s] \in Starting \ {"read", "connect"}

\* What holds as long as no start has overlapped another start or a stop, nor passed
\* a server of another version.
Exclusive ==
    /\ \A s, t \in Servers : Busy(s) /\ Busy(t) => s = t
    /\ \A s, t \in Servers : pc[s] = "run" /\ pc[t] \in {"run", "remove"} => s = t
    /\ \A s, t \in Servers : pc[s] = "run" =>
          /\ link = {date[s]}
          /\ ~ Decided(t)
          /\ pc[t] = "read" => seen[t] = {date[s]}
          /\ pc[t] = "connect" => target[t] = {s}

\* The client has found the server that ran when it began, or its other version.
ClientInv ==
    /\ client.pc # "done" => client.result = {}
    /\ \A s \in client.running :
        /\ client.pc # "idle"
        /\ pc[s] \in {"run", "remove"} \cup Over
        /\ pc[s] = "run" /\ overlap = {} =>
              /\ client.pc = "read" => client.seen = {date[s]}
              /\ client.pc = "connect" => client.target = {s} /\ version[s] = client.version
              /\ client.pc = "done" =>
                    client.result = IF version[s] = client.version THEN {s} ELSE {}

DirInv ==
    /\ DirTypeOK
    /\ ClientTypeOK
    /\ FilesInv
    /\ overlap = {} => Exclusive
    /\ ClientInv
----------------------------------------------------------------------------
\* The directory that a published server wrote holds its record.
LEMMA OwnRecord ==
    ASSUME DirTypeOK, FilesInv, NEW s \in Servers, Published(s)
    PROVE  Stored({date[s]}) = {s}
<1>1. date[s] \in written /\ access[date[s]] = {s}
  BY Zenon DEF FilesInv, Holds
<1>2. {date[s]} \cap written = {date[s]}
  BY Zenon, <1>1
<1>. QED  BY Zenon, <1>1, <1>2 DEF Stored

\* A record that is read is one that is stored, of the version of its reader.
LEMMA RecordType ==
    ASSUME DirTypeOK, NEW d \in SUBSET Dates, NEW v
    PROVE  Record(d, v) \subseteq Stored(d) /\ Stored(d) \subseteq Servers
<1>1. Stored(d) \subseteq Servers
  BY DEF Stored, DirTypeOK
<1>. QED  BY Zenon, <1>1 DEF Record

\* Nothing runs, is published or is connected in the first state.
LEMMA InitDirInv == Init => DirInv
<1>. SUFFICES ASSUME Init  PROVE  DirInv
  BY Zenon
<1>1. DirTypeOK
  BY DirAssumption DEF Init, DirTypeOK, Dates, Labels
<1>2. ClientTypeOK /\ client.running = {} /\ client.result = {}
  BY DEF Init, Client, ClientTypeOK
<1>3. FilesInv /\ Exclusive /\ ClientInv
  BY Zenon, <1>2 DEF Init, FilesInv, Holds, Published, Exclusive, Busy, Starting, Listening,
     ClientInv
<1>. QED  BY Zenon, <1>1, <1>2, <1>3 DEF DirInv

\* A process that has not ended goes on to another label, without publishing
\* anything or beginning to run; files, dates and the client stay.
Moves(s, label) ==
    /\ Goto(s, label)
    /\ pc[s] \notin Over
    /\ label \in {"write", "exists", "unlink", "symlink"} => Published(s)
    /\ label = "remove" => pc[s] = "run"
    /\ pc[s] = "run" => label \in {"remove"} \cup Over
    /\ pc[s] = "remove" => label \in Over
    /\ label # "run"
    /\ UNCHANGED <<version, files, date, client>>

\* Such a move keeps the records and what the client has found.
LEMMA MoveKeepsFiles ==
    ASSUME DirInv, NEW s \in Servers, NEW label \in Labels, Moves(s, label),
           overlap \subseteq overlap'
    PROVE  ClientTypeOK' /\ FilesInv' /\ ClientInv'
<1>1. pc' = [pc EXCEPT ![s] = label] /\ pc \in [Servers -> Labels]
  BY Zenon DEF Moves, Goto, DirInv, DirTypeOK
<1>2. ClientTypeOK'
  BY Zenon DEF Moves, DirInv, ClientTypeOK
<1>3. /\ \A t \in Servers : Published(t)' => Published(t)
      /\ \A t \in Servers : Holds(t)' => Holds(t)
  BY Zenon, <1>1 DEF Moves, Holds, Published
<1>4. FilesInv'
  BY Zenon, <1>3 DEF Moves, DirInv, FilesInv, files
<1>5. \A t \in Servers : /\ pc'[t] = "run" => pc[t] = "run"
                         /\ pc[t] \in {"run", "remove"} \cup Over
                                => pc'[t] \in {"run", "remove"} \cup Over
  BY Zenon, <1>1 DEF Moves
<1>6. ClientInv'
  BY <1>5 DEF Moves, DirInv, ClientTypeOK, ClientInv
<1>. QED  BY Zenon, <1>2, <1>4, <1>6

\* It also keeps what starts that do not overlap rely on, if it neither begins a
\* start, nor decides one, nor leaves the state running for a stop.
LEMMA MoveKeepsExclusive ==
    ASSUME DirTypeOK, Exclusive, NEW s \in Servers, NEW label \in Labels, Moves(s, label),
           UNCHANGED seen,
           label \in Starting => pc[s] \in Starting,
           label \in Starting \ {"read", "connect"} => Decided(s) \/ \A t \in Servers : pc[t] # "run",
           label = "remove" => \A t \in Servers : pc[t] \notin Starting,
           label = "read" => pc[s] = "read",
           \A t \in Servers \ {s} : target'[t] = target[t],
           label = "connect" => \A t \in Servers : pc[t] = "run" => target'[s] = {t}
    PROVE  Exclusive'
<1>1. pc' = [pc EXCEPT ![s] = label] /\ pc \in [Servers -> Labels]
  BY Zenon DEF Moves, Goto, DirTypeOK
<1>2. \A t \in Servers : pc'[t] = "run" => pc[t] = "run" /\ t # s
  BY Zenon, <1>1 DEF Moves
<1>3. ASSUME NEW a \in Servers, NEW b \in Servers, Busy(a)', Busy(b)'
      PROVE  a = b
  <2>1. \A t \in Servers \ {s} : Busy(t)' => Busy(t)
    BY Zenon, <1>1 DEF Busy
  <2>2. Busy(s)' => Busy(s) \/ (label = "remove" /\ pc[s] = "run")
    BY Zenon, <1>1 DEF Busy, Moves
  <2>3. pc[s] = "run" /\ label = "remove" => \A t \in Servers : Busy(t) => t = s
    BY Zenon DEF Busy, Exclusive
  <2>. QED  BY Zenon, <1>3, <2>1, <2>2, <2>3 DEF Exclusive
<1>4. ASSUME NEW a \in Servers, NEW b \in Servers, pc'[a] = "run", pc'[b] \in {"run", "remove"}
      PROVE  a = b
  <2>1. pc[a] = "run" /\ a # s
    BY Zenon, <1>2, <1>4
  <2>2. b # s => pc[b] \in {"run", "remove"}
    BY Zenon, <1>1, <1>4
  <2>3. b = s => pc[b] = "run"
    BY Zenon, <1>1, <1>4 DEF Moves
  <2>. QED  BY Zenon, <2>1, <2>2, <2>3 DEF Exclusive
<1>5. ASSUME NEW a \in Servers, NEW b \in Servers, pc'[a] = "run"
      PROVE  /\ link' = {date'[a]}
             /\ ~ Decided(b)'
             /\ pc'[b] = "read" => seen'[b] = {date'[a]}
             /\ pc'[b] = "connect" => target'[b] = {a}
  <2>1. pc[a] = "run" /\ link' = link /\ date' = date
    BY Zenon, <1>2, <1>5 DEF Moves, files
  <2>2. /\ link = {date[a]} /\ ~ Decided(b)
        /\ pc[b] = "read" => seen[b] = {date[a]}
        /\ pc[b] = "connect" => target[b] = {a}
    BY Zenon, <2>1 DEF Exclusive
  <2>3. ~ Decided(b)'
    BY Zenon, <1>1, <2>1, <2>2 DEF Decided
  <2>. QED  BY Zenon, <1>1, <2>1, <2>2, <2>3
<1>6. QED  BY Zenon, <1>3, <1>4, <1>5 DEF Exclusive
----------------------------------------------------------------------------
(* The processes.                                                          *)

\* Every step of a process keeps the types.
LEMMA ProcessType ==
    ASSUME DirInv, NEW s \in Servers, open(s) \/ Step(s) \/ select_ends(s) \/ Crash(s)
    PROVE  DirTypeOK'
<1>. USE DEF DirInv, DirTypeOK, Goto, Labels, Over, Starting, Listening
<1>1. CASE open(s)
  BY Zenon, <1>1 DEF open, files
<1>2. CASE read_access_record(s)
  <2>1. Record(seen[s], version[s]) \subseteq Servers
    BY Zenon, RecordType
  <2>. QED  BY Zenon, <1>2, <2>1 DEF read_access_record, files
<1>3. CASE connect_to_server(s) \/ link_exists(s) \/ Crash(s)
  BY Zenon, <1>3 DEF connect_to_server, link_exists, Crash, files
<1>4. CASE initialize_server(s)
  BY Zenon, <1>4 DEF initialize_server, files
<1>5. CASE store_access_record(s)
  BY <1>5 DEF store_access_record
<1>6. CASE to_writer(s)
  BY Zenon, <1>6 DEF to_writer
<1>7. CASE unlink(s) \/ symlink(s) \/ remove_file(s)
  BY Zenon, <1>7 DEF unlink, symlink, remove_file
<1>8. CASE select_ends(s)
  BY Zenon, <1>8 DEF select_ends, files
<1>. QED  BY Zenon, <1>1, <1>2, <1>3, <1>4, <1>5, <1>6, <1>7, <1>8 DEF Step

\* A start that begins beside no other start or stop sees the link of the
\* server that runs.
LEMMA OpenInv ==
    ASSUME DirInv, NEW s \in Servers, open(s)
    PROVE  DirInv'
<1>0. DirTypeOK'
  BY Zenon, ProcessType
<1>1. Moves(s, "read") /\ overlap \subseteq overlap'
  BY Zenon DEF open, Moves, files, Over
<1>2. ClientTypeOK' /\ FilesInv' /\ ClientInv'
  BY Zenon, <1>1, MoveKeepsFiles DEF Labels, Starting
<1>3. ASSUME overlap' = {}
      PROVE  Exclusive'
  <2>1. Exclusive /\ \A t \in Servers : ~ Busy(t)
    BY Zenon, <1>1, <1>3 DEF open, Busy, DirInv
  <2>2. /\ pc' = [pc EXCEPT ![s] = "read"] /\ pc \in [Servers -> Labels]
        /\ seen' = [seen EXCEPT ![s] = link] /\ seen \in [Servers -> SUBSET Dates]
        /\ UNCHANGED <<link, date>>
    BY Zenon DEF open, Goto, DirInv, DirTypeOK, files
  <2>3. \A t \in Servers : /\ pc'[t] \in {"run", "remove"} => pc'[t] = pc[t]
                           /\ Busy(t)' => t = s
                           /\ ~ Decided(t)'
                           /\ pc'[t] # "connect"
    BY Zenon, <2>1, <2>2 DEF Busy, Decided, Starting
  <2>4. \A t \in Servers : pc'[t] = "read" => seen'[t] = link
    BY Zenon, <2>1, <2>2 DEF Busy, Starting
  <2>. QED  BY Zenon, <2>1, <2>2, <2>3, <2>4 DEF Exclusive
<1>. QED  BY Zenon, <1>0, <1>2, <1>3 DEF DirInv

\* A start that reads no record knows that no server runs, unless it has passed one
\* of another version.
LEMMA ReadInv ==
    ASSUME DirInv, NEW s \in Servers, read_access_record(s)
    PROVE  DirInv'
<1>. DEFINE record == Record(seen[s], version[s])
            label == IF record = {} THEN "start" ELSE "connect"
<1>0. DirTypeOK'
  BY Zenon, ProcessType DEF Step
<1>1. Moves(s, label) /\ label \in Labels /\ overlap \subseteq overlap'
  BY Zenon DEF read_access_record, Moves, files, Over, Labels, Starting
<1>2. ClientTypeOK' /\ FilesInv' /\ ClientInv'
  BY Zenon, <1>1, MoveKeepsFiles
<1>3. ASSUME overlap' = {}
      PROVE  Exclusive'
  <2>1. Exclusive /\ DirTypeOK
    BY Zenon, <1>1, <1>3 DEF DirInv
  <2>2. /\ target' = [target EXCEPT ![s] = record] /\ seen' = seen /\ pc[s] = "read"
        /\ target \in [Servers -> SUBSET Servers]
    BY Zenon, <2>1 DEF read_access_record, DirTypeOK
  <2>3. ASSUME NEW t \in Servers, pc[t] = "run"
        PROVE  record = {t}
    <3>1. Stored(seen[s]) = {t}
      BY Zenon, <2>1, <2>2, <2>3, OwnRecord DEF Exclusive, DirInv, Published
    <3>2. \A u \in Stored(seen[s]) \ record : pc[u] \notin Listening
      BY Zenon, <1>3 DEF read_access_record
    <3>3. t \in record
      BY Zenon, <2>3, <3>1, <3>2 DEF Listening
    <3>. QED  BY Zenon, <3>1, <3>3 DEF Record
  <2>4. label = "start" => \A t \in Servers : pc[t] # "run"
    BY Zenon, <2>3
  <2>5. label \in {"start", "connect"} /\ pc[s] \in Starting
    BY Zenon, <2>2 DEF Starting
  <2>. HIDE DEF label, record
  <2>. QED  BY Zenon, <1>1, <2>1, <2>2, <2>3, <2>4, <2>5, MoveKeepsExclusive DEF Starting
<1>. QED  BY Zenon, <1>0, <1>2, <1>3 DEF DirInv

\* A start whose connection fails knows that no server runs.
LEMMA ConnectInv ==
    ASSUME DirInv, NEW s \in Servers, connect_to_server(s)
    PROVE  DirInv'
<1>0. DirTypeOK'
  BY Zenon, ProcessType DEF Step
<1>1. PICK t \in target[s] : \/ pc[t] = "run" /\ Goto(s, "refused")
                             \/ pc[t] \notin Listening /\ Goto(s, "start")
  BY Zenon DEF connect_to_server
<1>2. PICK label \in {"refused", "start"} :
          Moves(s, label) /\ (label = "start" => pc[t] \notin Listening)
  BY Zenon, <1>1 DEF connect_to_server, Moves, files, Over
<1>3. label \in Labels /\ overlap' = overlap /\ seen' = seen /\ target' = target
      /\ pc[s] = "connect"
  BY Zenon DEF connect_to_server, Labels, Over, Starting
<1>4. ClientTypeOK' /\ FilesInv' /\ ClientInv'
  BY Zenon, <1>2, <1>3, MoveKeepsFiles
<1>5. ASSUME Exclusive
      PROVE  Exclusive'
  <2>1. label = "start" => \A u \in Servers : pc[u] # "run"
    BY <1>2, <1>3, <1>5 DEF Exclusive, Listening
  <2>2. /\ pc[s] \in Starting /\ DirTypeOK
        /\ label \in Starting \ {"read", "connect"} => label = "start"
    BY Zenon, <1>3 DEF DirInv, Starting, Listening
  <2>. QED  BY Zenon, <1>2, <1>3, <1>5, <2>1, <2>2, MoveKeepsExclusive
<1>. QED  BY Zenon, <1>0, <1>3, <1>4, <1>5 DEF DirInv
\* The record of a server that starts gets its date.
LEMMA InitializeInv ==
    ASSUME DirInv, NEW s \in Servers, initialize_server(s)
    PROVE  DirInv'
<1>0. DirTypeOK'
  BY Zenon, ProcessType DEF Step
<1>1. /\ pc' = [pc EXCEPT ![s] = "store"] /\ pc \in [Servers -> Labels] /\ pc[s] = "start"
      /\ \A t \in Servers \ {s} : date'[t] = date[t]
      /\ UNCHANGED <<version, link, access, written, seen, target, overlap, client>>
  BY Zenon DEF initialize_server, Goto, files, DirInv, DirTypeOK
<1>2. \A t \in Servers : /\ Published(t)' => Published(t) /\ t # s
                         /\ Holds(t)' => Holds(t) /\ t # s
  BY Zenon, <1>1 DEF Published, Holds
<1>3. ClientTypeOK' /\ FilesInv'
  BY Zenon, <1>1, <1>2 DEF DirInv, ClientTypeOK, FilesInv
<1>4. ClientInv'
  BY Zenon, <1>1 DEF DirInv, ClientInv, ClientTypeOK, Over
<1>5. ASSUME Exclusive
      PROVE  Exclusive'
  <2>1. \A t \in Servers : /\ Busy(t)' <=> Busy(t)
                           /\ Decided(t)' <=> Decided(t)
                           /\ pc'[t] \in {"run", "remove", "read", "connect"}
                                  => pc'[t] = pc[t] /\ t # s
    BY <1>1 DEF Busy, Decided, Starting, Listening
  <2>. QED  BY <1>1, <1>5, <2>1 DEF Exclusive
<1>. QED  BY Zenon, <1>0, <1>1, <1>3, <1>4, <1>5 DEF DirInv

\* A decided start that goes on, not yet to run, keeps what starts that do not
\* overlap rely on, whatever it does to its own directory.
LEMMA DecidedKeepsExclusive ==
    ASSUME DirTypeOK, Exclusive, NEW s \in Servers, Decided(s),
           NEW label \in (Starting \ {"read", "connect"}) \cup Over, Goto(s, label),
           UNCHANGED <<seen, target, date>>
    PROVE  Exclusive'
<1>1. pc' = [pc EXCEPT ![s] = label] /\ pc \in [Servers -> Labels]
  BY Zenon DEF Goto, DirTypeOK
<1>2. \A t \in Servers : pc[t] # "run"
  BY Zenon DEF Exclusive
<1>3. \A t \in Servers : pc'[t] # "run" /\ (Busy(t)' => Busy(t))
  BY Zenon, <1>1, <1>2 DEF Busy, Decided, Starting, Listening, Over
<1>. QED  BY Zenon, <1>3 DEF Exclusive

\* create_new gives a directory to one server only.
LEMMA StoreInv ==
    ASSUME DirInv, NEW s \in Servers, store_access_record(s)
    PROVE  DirInv'
<1>0. DirTypeOK' /\ DirTypeOK
  BY Zenon, ProcessType DEF Step, DirInv
<1>1. PICK label \in {"failed", "write"} :
          /\ Goto(s, label)
          /\ label = "failed" => access' = access
          /\ label = "write" => access[date[s]] = {} /\ access' = [access EXCEPT ![date[s]] = {s}]
  BY Zenon DEF store_access_record
<1>2. /\ pc' = [pc EXCEPT ![s] = label] /\ pc \in [Servers -> Labels] /\ pc[s] = "store"
      /\ access \in [Dates -> SUBSET Servers] /\ date \in [Servers -> Dates]
      /\ UNCHANGED <<version, link, written, seen, target, date, overlap, client>>
  BY Zenon, <1>0, <1>1 DEF store_access_record, Goto, DirTypeOK
<1>3. FilesInv'
  <2>1. \A t \in Servers : /\ Published(t)' => Published(t) /\ t # s
                           /\ Holds(t)' => (Holds(t) /\ t # s) \/ (t = s /\ label = "write")
    BY Zenon, <1>1, <1>2 DEF Published, Holds
  <2>2. ASSUME NEW t \in Servers, Holds(t)'
        PROVE  access'[date'[t]] = {t}
    <3>1. CASE t = s
      BY Zenon, <1>1, <1>2, <2>1, <2>2, <3>1
    <3>2. CASE t # s
      <4>1. access[date[t]] = {t}
        BY Zenon, <2>1, <2>2, <3>2 DEF DirInv, FilesInv
      <4>2. label = "write" => date[t] # date[s]
        BY Zenon, <1>1, <4>1
      <4>. QED  BY Zenon, <1>1, <1>2, <4>1, <4>2
    <3>. QED  BY Zenon, <3>1, <3>2
  <2>. QED  BY Zenon, <1>2, <2>1, <2>2 DEF DirInv, FilesInv
<1>4. ClientTypeOK' /\ ClientInv'
  BY Zenon, <1>2 DEF DirInv, ClientInv, ClientTypeOK, Over
<1>5. ASSUME Exclusive
      PROVE  Exclusive'
  <2>1. Decided(s) /\ label \in (Starting \ {"read", "connect"}) \cup Over
    BY Zenon, <1>2 DEF Decided, Starting, Listening, Over
  <2>. QED  BY Zenon, <1>0, <1>1, <1>2, <1>5, <2>1, DecidedKeepsExclusive
<1>. QED  BY Zenon, <1>0, <1>2, <1>3, <1>4, <1>5 DEF DirInv

\* The record is complete before the link is made.
LEMMA WriteInv ==
    ASSUME DirInv, NEW s \in Servers, to_writer(s)
    PROVE  DirInv'
<1>0. DirTypeOK' /\ DirTypeOK
  BY Zenon, ProcessType DEF Step, DirInv
<1>1. /\ pc' = [pc EXCEPT ![s] = "exists"] /\ pc \in [Servers -> Labels] /\ pc[s] = "write"
      /\ Goto(s, "exists") /\ written' = written \cup {date[s]}
      /\ UNCHANGED <<version, link, access, seen, target, date, overlap, client>>
  BY Zenon, <1>0 DEF to_writer, Goto, DirTypeOK
<1>2. \A t \in Servers : /\ Published(t)' => Published(t) \/ t = s
                         /\ Holds(t)' => Holds(t)
  BY Zenon, <1>1 DEF Published, Holds
<1>3. FilesInv'
  BY Zenon, <1>1, <1>2 DEF DirInv, FilesInv
<1>4. ClientTypeOK' /\ ClientInv'
  BY Zenon, <1>1 DEF DirInv, ClientInv, ClientTypeOK, Over
<1>5. ASSUME Exclusive
      PROVE  Exclusive'
  <2>1. Decided(s) /\ "exists" \in Starting \ {"read", "connect"}
    BY Zenon, <1>1 DEF Decided, Starting, Listening
  <2>. QED  BY Zenon, <1>0, <1>1, <1>5, <2>1, DecidedKeepsExclusive
<1>. QED  BY Zenon, <1>0, <1>1, <1>3, <1>4, <1>5 DEF DirInv
\* create_symlink looks for a link that exists.
LEMMA ExistsInv ==
    ASSUME DirInv, NEW s \in Servers, link_exists(s)
    PROVE  DirInv'
<1>. DEFINE label == IF link = {} THEN "symlink" ELSE "unlink"
<1>0. DirTypeOK' /\ DirTypeOK
  BY Zenon, ProcessType DEF Step, DirInv
<1>1. /\ Moves(s, label) /\ label \in Labels /\ Decided(s)
      /\ label \in Starting \ {"read", "connect"}
      /\ UNCHANGED <<seen, target, date, overlap>>
  BY Zenon DEF link_exists, Moves, Published, files, Labels, Decided, Starting, Listening, Over
<1>2. ClientTypeOK' /\ FilesInv' /\ ClientInv'
  BY Zenon, <1>1, MoveKeepsFiles
<1>. HIDE DEF label
<1>3. Exclusive => Exclusive'
  BY Zenon, <1>0, <1>1, DecidedKeepsExclusive DEF Moves
<1>. QED  BY Zenon, <1>0, <1>1, <1>2, <1>3 DEF DirInv

\* create_symlink removes the link of the server before.
LEMMA UnlinkInv ==
    ASSUME DirInv, NEW s \in Servers, unlink(s)
    PROVE  DirInv'
<1>0. DirTypeOK' /\ DirTypeOK
  BY Zenon, ProcessType DEF Step, DirInv
<1>1. PICK label \in {"failed", "symlink"} : Goto(s, label)
  BY Zenon DEF unlink
<1>2. /\ pc' = [pc EXCEPT ![s] = label] /\ pc \in [Servers -> Labels] /\ pc[s] = "unlink"
      /\ link' = {}
      /\ UNCHANGED <<version, access, written, seen, target, date, overlap, client>>
  BY Zenon, <1>0, <1>1 DEF unlink, Goto, DirTypeOK
<1>3. \A t \in Servers : (Published(t)' => Published(t)) /\ (Holds(t)' => Holds(t))
  BY Zenon, <1>1, <1>2 DEF Published, Holds
<1>4. FilesInv'
  BY Zenon, <1>2, <1>3 DEF DirInv, FilesInv
<1>5. ClientTypeOK' /\ ClientInv'
  BY Zenon, <1>2 DEF DirInv, ClientInv, ClientTypeOK, Over
<1>6. Decided(s) /\ label \in (Starting \ {"read", "connect"}) \cup Over
  BY Zenon, <1>2 DEF Decided, Starting, Listening, Over
<1>7. Exclusive => Exclusive'
  BY Zenon, <1>0, <1>1, <1>2, <1>6, DecidedKeepsExclusive
<1>. QED  BY Zenon, <1>0, <1>2, <1>4, <1>5, <1>7 DEF DirInv

\* The server that makes the link runs, and nobody else does.
LEMMA SymlinkInv ==
    ASSUME DirInv, NEW s \in Servers, symlink(s)
    PROVE  DirInv'
<1>0. DirTypeOK' /\ DirTypeOK
  BY Zenon, ProcessType DEF Step, DirInv
<1>1. /\ pc' = [pc EXCEPT ![s] = IF link = {} THEN "run" ELSE "failed"]
      /\ pc \in [Servers -> Labels] /\ pc[s] = "symlink"
      /\ link' = IF link = {} THEN {date[s]} ELSE link
      /\ UNCHANGED <<version, access, written, seen, target, date, overlap, client>>
  BY Zenon, <1>0 DEF symlink, Goto, DirTypeOK
<1>2. \A t \in Servers : (Published(t)' => Published(t)) /\ (Holds(t)' => Holds(t))
  BY Zenon, <1>1 DEF Published, Holds
<1>3. FilesInv'
  <2>1. date[s] \in written
    BY Zenon, <1>1 DEF DirInv, FilesInv, Published
  <2>. QED  BY Zenon, <1>1, <1>2, <2>1 DEF DirInv, FilesInv
<1>4. ClientTypeOK' /\ ClientInv'
  <2>1. s \notin client.running
    BY Zenon, <1>1 DEF DirInv, ClientInv, Over
  <2>. QED  BY Zenon, <1>1, <2>1 DEF DirInv, ClientInv, ClientTypeOK
<1>5. Decided(s) /\ Busy(s)
  BY Zenon, <1>1 DEF Decided, Busy, Starting, Listening
<1>6. CASE link = {}
  <2>1. ASSUME Exclusive
        PROVE  Exclusive'
    <3>1. \A t \in Servers \ {s} : /\ pc[t] # "run" /\ ~ Busy(t) /\ pc'[t] = pc[t]
      BY Zenon, <1>1, <1>5, <2>1 DEF Exclusive
    <3>2. pc'[s] = "run" /\ link' = {date'[s]}
      BY Zenon, <1>1, <1>6
    <3>3. \A t \in Servers : /\ pc'[t] \in {"run", "remove"} => t = s
                             /\ ~ Busy(t)' /\ ~ Decided(t)'
                             /\ pc'[t] # "read" /\ pc'[t] # "connect"
      BY Zenon, <3>1, <3>2 DEF Busy, Decided, Starting, Listening
    <3>. QED  BY Zenon, <3>2, <3>3 DEF Exclusive
  <2>. QED  BY Zenon, <1>0, <1>1, <1>3, <1>4, <2>1 DEF DirInv
<1>7. CASE link # {}
  <2>1. Goto(s, "failed") /\ "failed" \in (Starting \ {"read", "connect"}) \cup Over
    BY Zenon, <1>1, <1>7 DEF Goto, Over
  <2>2. Exclusive => Exclusive'
    BY Zenon, <1>0, <1>1, <1>5, <2>1, DecidedKeepsExclusive
  <2>. QED  BY Zenon, <1>0, <1>1, <1>3, <1>4, <2>2 DEF DirInv
<1>. QED  BY Zenon, <1>6, <1>7

\* A server that ends, by a stop or by an error.
LEMMA SelectEndsInv ==
    ASSUME DirInv, NEW s \in Servers, select_ends(s)
    PROVE  DirInv'
<1>0. DirTypeOK' /\ DirTypeOK
  BY Zenon, ProcessType DEF Step, DirInv
<1>1. PICK label \in {"remove", "failed"} :
          /\ Goto(s, label)
          /\ label = "remove" /\ overlap' = {} => \A t \in Servers : pc[t] \notin Starting
  BY Zenon DEF select_ends
<1>2. /\ Moves(s, label) /\ label \in Labels /\ overlap \subseteq overlap'
      /\ label \notin Starting /\ label # "read" /\ label # "connect"
      /\ UNCHANGED <<seen, target>>
  BY Zenon, <1>1 DEF select_ends, Moves, files, Labels, Starting, Listening, Over
<1>3. ClientTypeOK' /\ FilesInv' /\ ClientInv'
  BY Zenon, <1>2, MoveKeepsFiles
<1>4. ASSUME overlap' = {}
      PROVE  Exclusive'
  <2>1. Exclusive
    BY Zenon, <1>2, <1>4 DEF DirInv
  <2>. QED  BY Zenon, <1>0, <1>1, <1>2, <1>4, <2>1, MoveKeepsExclusive
<1>. QED  BY Zenon, <1>0, <1>3, <1>4 DEF DirInv

\* The link is removed only by the last server, when none runs.
LEMMA RemoveInv ==
    ASSUME DirInv, NEW s \in Servers, remove_file(s)
    PROVE  DirInv'
<1>0. DirTypeOK' /\ DirTypeOK
  BY Zenon, ProcessType DEF Step, DirInv
<1>1. /\ pc' = [pc EXCEPT ![s] = "ended"] /\ pc \in [Servers -> Labels] /\ pc[s] = "remove"
      /\ link' = {}
      /\ UNCHANGED <<version, access, written, seen, target, date, overlap, client>>
  BY Zenon, <1>0 DEF remove_file, Goto, DirTypeOK
<1>2. \A t \in Servers : (Published(t)' => Published(t)) /\ (Holds(t)' => Holds(t))
  BY Zenon, <1>1 DEF Published, Holds
<1>3. FilesInv'
  BY Zenon, <1>1, <1>2 DEF DirInv, FilesInv
<1>4. ClientTypeOK' /\ ClientInv'
  BY Zenon, <1>1 DEF DirInv, ClientInv, ClientTypeOK, Over
<1>5. ASSUME Exclusive
      PROVE  Exclusive'
  <2>1. \A t \in Servers : pc[t] # "run"
    BY Zenon, <1>1, <1>5 DEF Exclusive
  <2>2. \A t \in Servers : pc'[t] # "run" /\ (Busy(t)' => Busy(t))
    BY Zenon, <1>1, <2>1 DEF Busy, Starting, Listening
  <2>. QED  BY Zenon, <1>5, <2>2 DEF Exclusive
<1>. QED  BY Zenon, <1>0, <1>1, <1>3, <1>4, <1>5 DEF DirInv

\* A crash leaves files as they are.
LEMMA CrashInv ==
    ASSUME DirInv, NEW s \in Servers, Crash(s)
    PROVE  DirInv'
<1>0. DirTypeOK' /\ DirTypeOK
  BY Zenon, ProcessType DEF DirInv
<1>1. /\ Moves(s, "crashed") /\ "crashed" \in Labels /\ overlap' = overlap
      /\ "crashed" \notin Starting /\ UNCHANGED <<seen, target>>
  BY Zenon DEF Crash, Moves, files, Labels, Starting, Listening, Over
<1>2. ClientTypeOK' /\ FilesInv' /\ ClientInv'
  BY Zenon, <1>1, MoveKeepsFiles
<1>3. Exclusive => Exclusive'
  BY Zenon, <1>0, <1>1, MoveKeepsExclusive
<1>. QED  BY Zenon, <1>0, <1>1, <1>2, <1>3 DEF DirInv
----------------------------------------------------------------------------
(* The client and the clock.                                               *)

\* Steps that leave files and processes alone.
LEMMA OutsideInv ==
    ASSUME DirInv, UNCHANGED <<files, procs>>, now' \in Dates
    PROVE  DirTypeOK' /\ FilesInv' /\ (overlap' = {} => Exclusive')
BY Zenon DEF DirInv, DirTypeOK, FilesInv, Published, Holds, Exclusive, Busy, Decided, files, procs

\* The client finds the server that ran undisturbed when it began.
LEMMA ClientStepInv ==
    ASSUME DirInv, client_open \/ client_read \/ client_connect \/ client_next
    PROVE  DirInv'
<1>0. DirTypeOK /\ UNCHANGED <<now, files, procs>>
  BY Zenon DEF DirInv, client_open, client_read, client_connect, client_next
<1>1. DirTypeOK' /\ FilesInv' /\ (overlap' = {} => Exclusive')
  BY Zenon, <1>0, OutsideInv DEF DirTypeOK
<1>2. \A d \in SUBSET Dates : \A v : Record(d, v) \subseteq Servers
  BY Zenon, <1>0, RecordType
<1>3. CASE client_open
  <2>1. ClientTypeOK'
    BY Zenon, <1>0, <1>3 DEF client_open, DirInv, DirTypeOK, ClientTypeOK
  <2>2. /\ client'.pc = "read" /\ client'.seen = link /\ pc' = pc /\ date' = date
        /\ overlap' = overlap /\ client'.result = {}
        /\ \A s \in client'.running : s \in Servers /\ pc[s] = "run"
    BY Zenon, <1>0, <1>3 DEF client_open, DirInv, ClientInv, ClientTypeOK, procs
  <2>3. ClientInv'
    BY Zenon, <2>2 DEF DirInv, ClientInv, Exclusive
  <2>. QED  BY Zenon, <1>1, <2>1, <2>3 DEF DirInv
<1>4. CASE client_read
  <2>1. ClientTypeOK'
    BY Zenon, <1>2, <1>4 DEF client_read, DirInv, ClientTypeOK
  <2>. DEFINE record == Record(client.seen, client.version)
  <2>2. /\ client'.target = record /\ client'.running = client.running
        /\ client'.version = client.version /\ client'.result = {}
        /\ client'.pc = IF record = {} THEN "done" ELSE "connect"
        /\ client.pc = "read" /\ pc' = pc /\ date' = date /\ overlap' = overlap
        /\ version' = version
    BY Zenon, <1>0, <1>4 DEF client_read, DirInv, ClientInv, ClientTypeOK, procs
  <2>3. \A s \in client.running : pc[s] = "run" /\ overlap = {} => Stored(client.seen) = {s}
    BY Zenon, <2>2, OwnRecord DEF DirInv, ClientInv, ClientTypeOK, Published
  <2>4. \A s \in client.running : pc[s] = "run" /\ overlap = {} =>
            record = IF version[s] = client.version THEN {s} ELSE {}
    BY Zenon, <2>3 DEF Record
  <2>. HIDE DEF record
  <2>5. ClientInv'
    BY <2>2, <2>4 DEF DirInv, ClientInv
  <2>. QED  BY Zenon, <1>1, <2>1, <2>5 DEF DirInv
<1>5. CASE client_connect
  <2>1. PICK t \in client.target :
            client' = [client EXCEPT !.pc = "done", !.result = IF pc[t] = "run" THEN {t} ELSE {}]
    BY Zenon, <1>5 DEF client_connect
  <2>2. ClientTypeOK'
    BY Zenon, <2>1 DEF DirInv, ClientTypeOK
  <2>3. /\ client'.running = client.running /\ client'.pc = "done" /\ client.pc = "connect"
        /\ client'.result = (IF pc[t] = "run" THEN {t} ELSE {})
        /\ client'.version = client.version
        /\ pc' = pc /\ date' = date /\ overlap' = overlap /\ version' = version
    BY Zenon, <1>0, <1>5, <2>1 DEF client_connect, DirInv, ClientTypeOK, procs
  <2>4. ClientInv'
    BY <2>3 DEF DirInv, ClientInv
  <2>. QED  BY Zenon, <1>1, <2>2, <2>4 DEF DirInv
<1>6. CASE client_next
  <2>1. ClientTypeOK' /\ client'.running = {} /\ client'.result = {}
    BY <1>6 DEF client_next, Client, ClientTypeOK
  <2>. QED  BY Zenon, <1>1, <2>1 DEF DirInv, ClientInv
<1>. QED  BY Zenon, <1>3, <1>4, <1>5, <1>6

\* Every step keeps the invariant.
LEMMA NextDirInv == DirInv /\ [Next]_vars => DirInv'
<1>. SUFFICES ASSUME DirInv, [Next]_vars  PROVE  DirInv'
  BY Zenon
<1>1. ASSUME NEW s \in Servers, open(s) \/ Step(s) \/ select_ends(s) \/ Crash(s)
      PROVE  DirInv'
  BY Zenon, <1>1, OpenInv, ReadInv, ConnectInv, InitializeInv, StoreInv, WriteInv, ExistsInv,
     UnlinkInv, SymlinkInv, RemoveInv, SelectEndsInv, CrashInv DEF Step
<1>2. CASE client_open \/ client_read \/ client_connect \/ client_next
  BY Zenon, <1>2, ClientStepInv
<1>3. CASE Tick \/ UNCHANGED vars
  <2>1. UNCHANGED <<files, procs, client>> /\ now' \in Dates
    BY <1>3, DirAssumption DEF Tick, vars, Dates, DirInv, DirTypeOK
  <2>2. ClientTypeOK' /\ ClientInv'
    BY Zenon, <2>1 DEF DirInv, ClientTypeOK, ClientInv, procs
  <2>. QED  BY Zenon, <2>1, <2>2, OutsideInv DEF DirInv
<1>. QED  BY Zenon, <1>1, <1>2, <1>3 DEF Next

\* The inductive invariant of the server directory.
THEOREM DirInvariant == Spec => []DirInv
BY InitDirInv, NextDirInv, PTL DEF Spec

\* However many processes start at once, also within the same second, a server
\* that has published its directory finds its own record there.
THEOREM RecordIsOwnAlways == Spec => []RecordIsOwn
<1>1. DirInv => RecordIsOwn
  BY Zenon, OwnRecord DEF DirInv, RecordIsOwn, Published
<1>. QED  BY DirInvariant, <1>1, PTL

\* hq-current never leads to a directory whose access record is incomplete.
THEOREM LinkAlwaysLeads == Spec => []LinkLeadsToRecord
<1>1. DirInv => LinkLeadsToRecord
  BY Zenon DEF DirInv, FilesInv, LinkLeadsToRecord
<1>. QED  BY DirInvariant, <1>1, PTL

\* Without starts that overlap a start or a stop, or that pass a running server of
\* another version, a server that runs is the only one and hq-current leads to it,
\* for any number of starts, stops and crashes, of any versions.
THEOREM OnlineAlwaysFound == Spec => []OnlineIsFound
<1>1. DirInv => OnlineIsFound
  <2>. SUFFICES ASSUME DirInv, overlap = {}, NEW s \in Servers, pc[s] = "run"
                PROVE  /\ Stored(link) = {s}
                       /\ \A t \in Servers : pc[t] = "run" => t = s
    BY Zenon DEF OnlineIsFound
  <2>1. Exclusive /\ link = {date[s]}
    BY Zenon DEF DirInv, Exclusive
  <2>2. Stored({date[s]}) = {s}
    BY Zenon, OwnRecord DEF DirInv, Published
  <2>. QED  BY Zenon, <2>1, <2>2 DEF Exclusive
<1>. QED  BY DirInvariant, <1>1, PTL

\* A client that begins while a server runs undisturbed reaches this server if it is
\* of the same version and nobody otherwise, if the server still runs when the client
\* is done.
THEOREM ClientAlwaysFinds == Spec => []ClientFindsServer
<1>1. DirInv => ClientFindsServer
  BY Zenon DEF DirInv, ClientInv, ClientFindsServer
<1>. QED  BY DirInvariant, <1>1, PTL
============================================================================
