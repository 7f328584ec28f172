---------------------------- MODULE SchemaMigrator ----------------------------
(* graph/schema/migrator.py: forward-only versions of the graph's schema,    *)
(* recorded on a node.  A migrator reads the files, then the record, then    *)
(* runs statement after statement, each in a transaction of its own; other   *)
(* migrators run at the same time, files change, and any of them may die.    *)
(* The driver repeats a transaction that was rolled back, or whose           *)
(* acknowledgement was lost.  Neo4j reads what is committed, and locks a     *)
(* node when it is first written to.                                         *)
EXTENDS Naturals, Sequences, FiniteSetsExt

CONSTANTS
    Migrators,   \* processes that migrate
    Versions,    \* numbers of version files
    Shipped,     \* versions on disk from the start
    Statements,  \* statements in a file
    MaxChanges,  \* files added or edited
    MaxStarts,   \* migrations begun
    MaxLosses    \* acknowledgements lost

ASSUME MigratorAssumption ==
    /\ Versions \subseteq Nat \ {0} /\ Shipped \subseteq Versions
    /\ Statements \in Nat \ {0} /\ {MaxChanges, MaxStarts, MaxLosses} \subseteq Nat

VARIABLES
    disk,      \* per version the text of its file, 0 if there is none
    recorded,  \* the (:_SchemaVersion) nodes: [applied (versions and checksums), current]
    executed,  \* history: the statements run, <<version, text, index>>
    overlapped, \* history: whether two queries that record have overlapped
    migration, \* per migrator: [at, files (as discovered), read (versions of the record),
               \*   todo (set of versions), next (statement), found and lacking (by MERGE)]
    starts, changes, losses  \* bounds

migratorVars == <<disk, recorded, executed, overlapped, migration, starts, changes, losses>>

Stopped == [at |-> "stopped", files |-> [v \in Versions |-> 0], read |-> {},
            todo |-> {}, next |-> 1, found |-> 0, lacking |-> {}]

MigratorInit ==
    /\ disk = [v \in Versions |-> IF v \in Shipped THEN 1 ELSE 0]
    /\ recorded = <<>> /\ executed = {} /\ overlapped = FALSE
    /\ migration = [m \in Migrators |-> Stopped]
    /\ starts = 0 /\ changes = 0 /\ losses = 0

Numbers(record) == {record[i].version : i \in DOMAIN record}
OnDisk(files)   == {v \in Versions : files[v] # 0}

-----------------------------------------------------------------------------
(* Reading, and refusing.                                                   *)

\* _check_consistency: every version of the record has its file, unchanged, and
\* no file is older than the newest version of the record without being in it.
Consistent(files, record) ==
    /\ \A i \in DOMAIN record : files[record[i].version] = record[i].checksum
    /\ \A v \in OnDisk(files) \ Numbers(record) : \A w \in Numbers(record) : v > w

Now(m, at) == migration[m].at = at

\* discover_versions: the texts are read here, and never again.
Discover(m) ==
    /\ Now(m, "stopped") /\ starts < MaxStarts /\ starts' = starts + 1
    /\ migration' = [migration EXCEPT ![m] = [Stopped EXCEPT !.at = "found", !.files = disk]]
    /\ UNCHANGED <<disk, recorded, executed, overlapped, changes, losses>>

\* applied_versions: a graph nobody has migrated has no record.
TheRecord == IF recorded = <<>> THEN <<>> ELSE recorded[1].applied

\* The record is read: apply_all takes every version it lacks; apply takes one,
\* and looks at the disk once more.  What is inconsistent is refused, and so is
\* a second node.
ReadRecord(m) ==
    /\ Now(m, "found")
    /\ LET pending == OnDisk(migration[m].files) \ Numbers(TheRecord)
           Chosen(todo) ==
               IF todo = {} THEN Stopped
               ELSE [migration[m] EXCEPT !.at = "apply", !.read = Numbers(TheRecord), !.todo = todo]
       IN  \E plan \in
              {[files |-> migration[m].files, todo |-> pending]}
                  \cup {[files |-> disk, todo |-> {v}] : v \in pending} :
              migration' = [migration EXCEPT ![m] =
                  IF Len(recorded) <= 1 /\ Consistent(plan.files, TheRecord)
                  THEN Chosen(plan.todo) ELSE Stopped]
    /\ UNCHANGED <<disk, recorded, executed, overlapped, starts, changes, losses>>

-----------------------------------------------------------------------------
(* _apply_one.                                                              *)

\* Versions are applied in ascending order.
Due(m) == Min(migration[m].todo)

\* The text whose checksum will be recorded.
Text(m) == migration[m].files[Due(m)]

\* The step succeeds and leads on, or it raises after it had its effect; a
\* death of the process looks the same.
Went(m, onward) ==
    \E move \in {onward, Stopped} : migration' = [migration EXCEPT ![m] = move]

Execute(m) ==
    /\ Now(m, "apply") /\ migration[m].next <= Statements
    /\ executed' = executed \cup {<<Due(m), Text(m), migration[m].next>>}
    /\ Went(m, [migration[m] EXCEPT !.next = @ + 1])
    /\ UNCHANGED <<disk, recorded, overlapped, starts, changes, losses>>

\* A step without an effect: the statement fails, or the process dies.
CutShort(m) ==
    /\ ~Now(m, "stopped")
    /\ migration' = [migration EXCEPT ![m] = Stopped]
    /\ UNCHANGED <<disk, recorded, executed, overlapped, starts, changes, losses>>

\* Appended whenever the query runs.
LackingAnyway(m) == DOMAIN recorded
\* is_new, of every node there is.
Lacking(m) == {k \in DOMAIN recorded : Due(m) \notin Numbers(recorded[k].applied)}

\* _RECORD_VERSION up to its SET, when every statement has run: MERGE finds the
\* nodes that are committed, or none, and is_new is read, before anything is
\* locked.  A transaction that was rolled back begins again.
Merge(m) ==
    /\ migration[m].at \in {"apply", "recording"} /\ migration[m].next > Statements
    /\ migration' = [migration EXCEPT ![m] =
          [migration[m] EXCEPT !.at = "recording", !.found = Len(recorded), !.lacking = Lacking(m)]]
    /\ UNCHANGED <<disk, recorded, executed, overlapped, starts, changes, losses>>

NewEntry(m) == [version |-> Due(m), checksum |-> Text(m), over |-> migration[m].read]

\* The SET: a node that was found gets the version if it lacked it then, at the
\* end of what it holds now; a MERGE that found none has created its own, for
\* no constraint forbids a second one.
Set(m, node, k) ==
    [applied |-> IF k \in migration[m].lacking THEN Append(node.applied, NewEntry(m)) ELSE node.applied,
     current |-> Due(m)]

NewRecord(m) ==
    IF migration[m].found = 0
    THEN Append(recorded, [applied |-> <<NewEntry(m)>>, current |-> Due(m)])
    ELSE [k \in DOMAIN recorded |->
             IF k <= migration[m].found THEN Set(m, recorded[k], k) ELSE recorded[k]]

Commit(m) ==
    /\ Now(m, "recording") /\ recorded' = NewRecord(m)
    /\ overlapped' = (overlapped \/ \E o \in Migrators \ {m} : Now(o, "recording"))

\* _RECORD_VERSION commits.
Record(m) ==
    /\ Commit(m)
    /\ Went(m, IF migration[m].todo = {Due(m)} THEN Stopped
               ELSE [migration[m] EXCEPT !.at = "apply", !.todo = @ \ {Due(m)}, !.next = 1])
    /\ UNCHANGED <<disk, executed, starts, changes, losses>>

\* It commits and its acknowledgement is lost: it will be run again.
RecordUnheard(m) ==
    /\ Commit(m)
    /\ losses < MaxLosses /\ losses' = losses + 1
    /\ migration' = [migration EXCEPT ![m] = [migration[m] EXCEPT !.at = "apply"]]
    /\ UNCHANGED <<disk, executed, starts, changes>>

-----------------------------------------------------------------------------

\* A branch is merged or checked out: a file is added or edited.
Change ==
    /\ changes < MaxChanges /\ changes' = changes + 1
    /\ \E v \in Versions : disk' = [disk EXCEPT ![v] = @ + 1]
    /\ UNCHANGED <<recorded, executed, overlapped, migration, starts, losses>>

MigratorNext ==
    \/ Change
    \/ \E m \in Migrators :
          \/ Discover(m) \/ ReadRecord(m) \/ Execute(m) \/ CutShort(m)
          \/ Merge(m) \/ Record(m) \/ RecordUnheard(m)

MigratorSpec == MigratorInit /\ [][MigratorNext]_migratorVars

-----------------------------------------------------------------------------
(* Properties.                                                              *)

MigratorTypeOK ==
    /\ disk \in [Versions -> 0..(MaxChanges + 1)]
    /\ \A k \in DOMAIN recorded :
          Numbers(recorded[k].applied) \subseteq Versions /\ recorded[k].current \in Versions
    /\ executed \subseteq Versions \X (1..(MaxChanges + 1)) \X (1..Statements)
    /\ \A m \in Migrators : migration[m].at \in {"stopped", "found", "apply", "recording"}

\* GraphMigrator, _RECORD_VERSION: what the record holds is true of the graph
\* whoever migrated, died, lost an answer or edited a file in between - every
\* statement of the text with its checksum has run, and it went in above every
\* version its migrator had read - and as long as no two migrators were writing
\* the record at once there is one, with each version in it once.
RecordIsTrue ==
    /\ \A k \in DOMAIN recorded : \A i \in DOMAIN recorded[k].applied :
          LET r == recorded[k].applied[i] IN
          /\ \A n \in 1..Statements : <<r.version, r.checksum, n>> \in executed
          /\ \A w \in r.over : r.version > w
    /\ ~overlapped =>
          /\ Len(recorded) <= 1
          /\ \A k \in DOMAIN recorded : \A i, j \in DOMAIN recorded[k].applied :
                recorded[k].applied[i].version = recorded[k].applied[j].version => i = j
=============================================================================
