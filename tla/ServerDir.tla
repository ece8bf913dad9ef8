----------------------------- MODULE ServerDir -----------------------------
(***************************************************************************)
(* The server directory: how `hq server start' decides whether a server    *)
(* already runs, how a server publishes its access record and the link     *)
(* hq-current, and how clients find it (server/bootstrap.rs,               *)
(* common/serverdir.rs, common/fsutils.rs).                                *)
(*                                                                         *)
(* Every start is a process of its own; each of its steps is one access to *)
(* the file system or the network, so that processes interleave between    *)
(* them.  Directories are named by the second in which they were made.     *)
(* The processes may run different versions of hq, and a process reads     *)
(* only the access records of its own version.                             *)
(***************************************************************************)
EXTENDS Naturals

CONSTANTS Servers,   \* the processes that try to be the server
          Versions,  \* the versions of hq that are installed (CARGO_PKG_VERSION)
          MaxTime    \* bound: seconds that pass

ASSUME DirAssumption == MaxTime \in Nat

Dates == 0 .. MaxTime

VARIABLES now,     \* the clock, in seconds
          link,    \* the directory hq-current leads to, if it exists
          access,  \* access.json of every directory: its writer, if there is one
          written, \* the directories whose access.json is complete
          version, \* the version of hq a server process runs
          pc,      \* what a server process does next
          seen,    \* the directory it found
          target,  \* the server whose record it read
          date,    \* start_date of its own record
          overlap, \* history: what a start went on beside: "start", "stop", "version"
          client   \* one client that connects

files == <<link, access, written>>

procs == <<version, pc, seen, target, date, overlap>>

vars == <<now, files, procs, client>>

\* load_access_file: the server that wrote the complete record of the directory d.
Stored(d) == UNION {access[x] : x \in d \cap written}

\* Mutant: the version of the record is not looked at.
any_version(d, v) == Stored(d)

\* What a process of version v reads that has opened the directory d.
Record(d, v) == {t \in Stored(d) : version[t] = v}

\* A listener is bound from initialize_server until the process leaves the select!.
Listening == {"store", "write", "exists", "unlink", "symlink", "run"}

Over == {"refused", "failed", "ended", "crashed"}

Starting == {"read", "connect", "start"} \cup (Listening \ {"run"})

Settled == \A s \in Servers : pc[s] \in Over \cup {"idle", "run"}

\* A client of version v before it does anything.
Client(v) == [pc |-> "idle", version |-> v, seen |-> {}, target |-> {}, running |-> {},
              result |-> {}]

Init ==
    /\ now = 0 /\ link = {} /\ access = [d \in Dates |-> {}] /\ written = {}
    /\ version \in [Servers -> Versions]
    /\ pc = [s \in Servers |-> "idle"]
    /\ seen = [s \in Servers |-> {}] /\ target = [s \in Servers |-> {}]
    /\ date = [s \in Servers |-> 0] /\ overlap = {}
    /\ client \in {Client(v) : v \in Versions}

Goto(s, label) == pc' = [pc EXCEPT ![s] = label]
----------------------------------------------------------------------------
(* init_hq_server and get_server_status.                                   *)

open(s) ==
    /\ pc[s] = "idle"
    /\ overlap' = overlap \cup (IF \E t \in Servers : pc[t] \in Starting THEN {"start"} ELSE {})
                          \cup (IF \E t \in Servers : pc[t] = "remove" THEN {"stop"} ELSE {})
    /\ seen' = [seen EXCEPT ![s] = link]
    /\ Goto(s, "read")
    /\ UNCHANGED <<now, version, files, target, date, client>>

\* Every error leads to a start, that of a record of another version included,
\* whether its server still runs or not.
read_access_record(s) ==
    LET record == Record(seen[s], version[s])
        others == Stored(seen[s]) \ record
    IN  /\ pc[s] = "read"
        /\ target' = [target EXCEPT ![s] = record]
        /\ overlap' = overlap \cup (IF \E t \in others : pc[t] \in Listening
                                    THEN {"version"} ELSE {})
        /\ Goto(s, IF record = {} THEN "start" ELSE "connect")
        /\ UNCHANGED <<now, version, files, seen, date, client>>

\* Mutant: a connection to a server that is gone is not an answer.
connect_online_only(s) ==
    /\ pc[s] = "connect"
    /\ \E t \in target[s] : pc[t] = "run"
    /\ Goto(s, "refused")
    /\ UNCHANGED <<now, version, files, seen, target, date, overlap, client>>

\* The handshake is answered once the other server runs; it fails if that one is gone.
connect_to_server(s) ==
    /\ pc[s] = "connect"
    /\ \E t \in target[s] :
           \/ pc[t] = "run" /\ Goto(s, "refused")
           \/ pc[t] \notin Listening /\ Goto(s, "start")
    /\ UNCHANGED <<now, version, files, seen, target, date, overlap, client>>
----------------------------------------------------------------------------
(* start_server.                                                           *)

\* The sockets are bound and the record gets its date.
initialize_server(s) ==
    /\ pc[s] = "start"
    /\ date' = [date EXCEPT ![s] = now]
    /\ Goto(s, "store")
    /\ UNCHANGED <<now, version, files, seen, target, overlap, client>>

\* Mutant: a file that exists is overwritten.
store_over(s) ==
    /\ pc[s] = "store"
    /\ access' = [access EXCEPT ![date[s]] = {s}]
    /\ written' = written \ {date[s]}
    /\ Goto(s, "write")
    /\ UNCHANGED <<now, version, link, seen, target, date, overlap, client>>

\* create_new: a directory of the same second belongs to another server.
store_access_record(s) ==
    /\ pc[s] = "store"
    /\ IF access[date[s]] # {}
       THEN Goto(s, "failed") /\ UNCHANGED access
       ELSE Goto(s, "write") /\ access' = [access EXCEPT ![date[s]] = {s}]
    /\ UNCHANGED <<now, version, link, written, seen, target, date, overlap, client>>

\* Mutant: the link is made before the record is in the file.
to_writer_later(s) ==
    /\ pc[s] = "write"
    /\ Goto(s, "exists")
    /\ UNCHANGED <<now, version, link, access, written, seen, target, date, overlap, client>>

to_writer(s) ==
    /\ pc[s] = "write"
    /\ written' = written \cup {date[s]}
    /\ Goto(s, "exists")
    /\ UNCHANGED <<now, version, link, access, seen, target, date, overlap, client>>

\* The three system calls of create_symlink.
link_exists(s) ==
    /\ pc[s] = "exists"
    /\ Goto(s, IF link = {} THEN "symlink" ELSE "unlink")
    /\ UNCHANGED <<now, version, files, seen, target, date, overlap, client>>

unlink(s) ==
    /\ pc[s] = "unlink"
    /\ link' = {}
    /\ Goto(s, IF link = {} THEN "failed" ELSE "symlink")
    /\ UNCHANGED <<now, version, access, written, seen, target, date, overlap, client>>

\* Mutant: the link keeps leading to the directory of the server before.
symlink_kept(s) ==
    /\ pc[s] = "symlink"
    /\ link' = IF seen[s] = {} THEN {date[s]} ELSE seen[s]
    /\ Goto(s, IF link = {} THEN "run" ELSE "failed")
    /\ UNCHANGED <<now, version, access, written, seen, target, date, overlap, client>>

symlink(s) ==
    /\ pc[s] = "symlink"
    /\ link' = IF link = {} THEN {date[s]} ELSE link
    /\ Goto(s, IF link = {} THEN "run" ELSE "failed")
    /\ UNCHANGED <<now, version, access, written, seen, target, date, overlap, client>>

\* The select! ends by a signal or a stop command, or by an error that `?' returns.
select_ends(s) ==
    /\ pc[s] = "run"
    /\ \/ /\ Goto(s, "remove")
          /\ overlap' = overlap \cup (IF \E t \in Servers : pc[t] \in Starting
                                     THEN {"stop"} ELSE {})
       \/ Goto(s, "failed") /\ UNCHANGED overlap
    /\ UNCHANGED <<now, version, files, seen, target, date, client>>

remove_file(s) ==
    /\ pc[s] = "remove"
    /\ link' = {}
    /\ Goto(s, "ended")
    /\ UNCHANGED <<now, version, access, written, seen, target, date, overlap, client>>

\* The process is killed.
Crash(s) ==
    /\ pc[s] \notin Over \cup {"idle"}
    /\ Goto(s, "crashed")
    /\ UNCHANGED <<now, version, files, seen, target, date, overlap, client>>
----------------------------------------------------------------------------
(* get_client_connection; `running' remembers who ran undisturbed when it  *)
(* began.                                                                  *)

client_open ==
    /\ client.pc = "idle"
    /\ client' = [client EXCEPT !.pc = "read", !.seen = link,
           !.running = IF Settled THEN {s \in Servers : pc[s] = "run"} ELSE {}]
    /\ UNCHANGED <<now, files, procs>>

client_read ==
    /\ client.pc = "read"
    /\ LET record == Record(client.seen, client.version)
       IN  client' = [client EXCEPT !.target = record,
                          !.pc = IF record = {} THEN "done" ELSE "connect"]
    /\ UNCHANGED <<now, files, procs>>

client_connect ==
    /\ client.pc = "connect"
    /\ \E t \in client.target :
           /\ pc[t] = "run" \/ pc[t] \notin Listening
           /\ client' = [client EXCEPT !.pc = "done",
                             !.result = IF pc[t] = "run" THEN {t} ELSE {}]
    /\ UNCHANGED <<now, files, procs>>

\* A client command ends, and the next one begins.
client_next ==
    /\ client.pc = "done"
    /\ \E v \in Versions : client' = Client(v)
    /\ UNCHANGED <<now, files, procs>>

Tick ==
    /\ now < MaxTime
    /\ now' = now + 1
    /\ UNCHANGED <<files, procs, client>>
----------------------------------------------------------------------------
\* The steps of a start: every one but the first is due as soon as it can be taken.
Step(s) ==
    \/ read_access_record(s) \/ connect_to_server(s)
    \/ initialize_server(s) \/ store_access_record(s) \/ to_writer(s)
    \/ link_exists(s) \/ unlink(s) \/ symlink(s) \/ remove_file(s)

Next ==
    \/ \E s \in Servers : open(s) \/ Step(s) \/ select_ends(s) \/ Crash(s)
    \/ client_open \/ client_read \/ client_connect \/ client_next
    \/ Tick

Spec == Init /\ [][Next]_vars

FairSpec == Spec /\ \A s \in Servers : WF_vars(Step(s))
----------------------------------------------------------------------------
\* If no start went on beside another start, a stop or a running server of another
\* version, then whenever nobody starts or stops a server that runs is the only one,
\* and hq-current leads to its access record, whatever crashed or failed before.
OnlineIsFound ==
    Settled /\ overlap = {} => \A s \in Servers : pc[s] = "run" =>
        /\ Stored(link) = {s}
        /\ \A t \in Servers : pc[t] = "run" => t = s

\* Under the same condition, a client that begins when a server runs undisturbed,
\* and ends while it still runs, has been connected to this server if it is of the
\* same version, and to no server otherwise (test_version_mismatch).
ClientFindsServer ==
    client.pc = "done" /\ overlap = {} =>
        \A s \in client.running : pc[s] = "run" =>
            client.result = IF version[s] = client.version THEN {s} ELSE {}

\* However starts overlap, the directory of a server that runs holds the record
\* of this server, also if two start in the same second.
RecordIsOwn ==
    \A s \in Servers : pc[s] \in {"exists", "unlink", "symlink", "run"} =>
        Stored({date[s]}) = {s}

\* However starts overlap, hq-current never leads to a directory without a
\* complete access record.
LinkLeadsToRecord == link \subseteq written

\* A start is decided: the server runs, is refused or fails.
StartDecides ==
    \A s \in Servers : (pc[s] = "read") ~> (pc[s] \in Over \cup {"run"})

\* "If an already running server is found, an error will be returned"
\* (init_hq_server), as long as no start overlaps another start or a stop.
RunningIsRefused ==
    "start" \notin overlap /\ "stop" \notin overlap =>
        \A s, t \in Servers : pc[s] = "run" /\ pc[t] = "run" => s = t

\* A missing link says that no server is active (start_server), as long as two
\* starts do not overlap.
NoLinkNoServer ==
    Settled /\ "start" \notin overlap /\ link = {} => \A s \in Servers : pc[s] # "run"
============================================================================
