------------------------------ MODULE SchemaInit ------------------------------
(***************************************************************************)
(* Opening a database file: SQLiteStore.__init__ (tile/store/sqlite.py)    *)
(* and initialize_sqlite_schema (tile/store/schema.py), run by several     *)
(* processes that open the same file at the same time, any of which may    *)
(* fail or die between two statements.  The whole initialisation is one    *)
(* immediate transaction, so a statement changes the writer's view and     *)
(* only COMMIT changes the file.                                           *)
(***************************************************************************)
EXTENDS Naturals

CONSTANTS
  Openers,   \* the processes
  NULL

VARIABLES
  file,     \* the committed schema
  found,    \* history: the file before anybody opened it
  writer,   \* the opener that holds the write lock, or NULL
  view,     \* the schema as the writer's transaction sees it, else the file
  pc        \* where each opener is, or how its open ended

vars == <<file, found, writer, view, pc>>

ASSUME NullAssumption == NULL \notin Openers /\ NULL \notin {"1", "999"}

\* The objects that _create_schema creates, with the place of each statement.
ObjectNames == {"sessions", "runs", "history_items",
                "runs_session_id", "one_active_run_per_session"}
Place == [sessions |-> 1, runs |-> 2, history_items |-> 3,
          runs_session_id |-> 4, one_active_run_per_session |-> 5]
CurrentVersion == "1"

\* A schema: what exists besides tile_meta, whether tile_meta does, and its
\* rows (the unified version, and whether a removed version key is there).
Schema(objects, meta, version, legacy) ==
  [objects |-> objects, meta |-> meta, version |-> version, legacy |-> legacy]
Schemas == [objects : SUBSET (ObjectNames \union {"foreign"}), meta : BOOLEAN,
            version : {NULL, CurrentVersion, "999"}, legacy : BOOLEAN]

\* What an opener may find: no schema, another application's table, a store of
\* the removed split layout, one of a later version, or a current one.
FilesFound ==
  { Schema({}, FALSE, NULL, FALSE),
    Schema({"foreign"}, FALSE, NULL, FALSE),
    Schema({"sessions"}, TRUE, NULL, TRUE),
    Schema(ObjectNames, TRUE, "999", FALSE),
    Schema(ObjectNames, TRUE, CurrentVersion, FALSE) }

Endings == {"open", "rejected", "conflict", "failed", "dead"}
Steps == {"begin", "meta", "version", "create", "record", "commit"}

Init ==
  /\ found \in FilesFound /\ file = found
  /\ writer = NULL /\ view = file
  /\ pc = [p \in Openers |-> "begin"]

Goto(p, step) == pc' = [pc EXCEPT ![p] = step]

Begin(p) ==
  /\ pc[p] = "begin" /\ writer = NULL
  /\ writer' = p /\ view' = file
  /\ Goto(p, "meta")
  /\ UNCHANGED <<file, found>>

\* BEGIN IMMEDIATE gives up when the busy timeout ends before the writer does.
Busy(p) ==
  /\ pc[p] = "begin" /\ writer # NULL
  /\ Goto(p, "failed")
  /\ UNCHANGED <<file, found, writer, view>>

\* Mutant: what the transaction did so far is kept.
CommitOnError(p, ending) ==
  /\ Goto(p, ending)
  /\ writer' = NULL /\ file' = view
  /\ UNCHANGED <<found, view>>

Rollback(p, ending) ==
  /\ Goto(p, ending)
  /\ writer' = NULL /\ view' = file
  /\ UNCHANGED <<file, found>>

Write(p, schema, next) ==
  /\ view' = schema
  /\ Goto(p, next)
  /\ UNCHANGED <<file, found, writer>>

CreateMetaTable(p) ==
  /\ pc[p] = "meta"
  /\ Write(p, [view EXCEPT !.meta = TRUE], "version")

\* Mutant: an unversioned file is taken to be new.
CheckVersionOnly(p) ==
  /\ pc[p] = "version"
  /\ IF view.version \notin {NULL, CurrentVersion}
       THEN Rollback(p, "rejected")
       ELSE Write(p, view, "create")

\* _read_schema_version and, for a file without one,
\* _reject_incompatible_unversioned_schema: a removed version key or any table
\* but tile_meta.  Both raise SQLiteStoreSchemaError out of the transaction.
CheckVersion(p) ==
  /\ pc[p] = "version"
  /\ IF \/ view.version = NULL /\ (view.legacy \/ view.objects # {})
        \/ view.version \notin {NULL, CurrentVersion}
       THEN Rollback(p, "rejected")
       ELSE Write(p, view, "create")

\* The first statement of _create_schema whose object does not exist yet, and
\* after the last one the version row, unless it was read before.
CreateNext(p) ==
  /\ pc[p] = "create"
  /\ \/ \E o \in ObjectNames \ view.objects :
          /\ \A other \in ObjectNames \ view.objects : Place[o] <= Place[other]
          /\ Write(p, [view EXCEPT !.objects = @ \union {o}], "create")
     \/ /\ ObjectNames \subseteq view.objects
        /\ Write(p, view, IF view.version = NULL THEN "record" ELSE "commit")

\* Mutant: the version is not written.
WriteNoVersion(p) ==
  /\ pc[p] = "record"
  /\ Write(p, view, "commit")

\* _write_schema_version; key is the primary key of tile_meta.
WriteVersion(p) ==
  /\ pc[p] = "record"
  /\ IF view.version # NULL
       THEN Rollback(p, "conflict")
       ELSE Write(p, [view EXCEPT !.version = CurrentVersion], "commit")

Commit(p) ==
  /\ pc[p] = "commit"
  /\ file' = view
  /\ writer' = NULL
  /\ Goto(p, "open")
  /\ UNCHANGED <<found, view>>

\* A statement fails (the disk is full, say): rollback, close, raise.
StatementFails(p) == writer = p /\ Rollback(p, "failed")

\* The process dies; SQLite discards what it had not committed.
Crash(p) ==
  \/ writer = p /\ Rollback(p, "dead")
  \/ /\ pc[p] = "begin"
     /\ Goto(p, "dead")
     /\ UNCHANGED <<file, found, writer, view>>

Done == (\A p \in Openers : pc[p] \in Endings) /\ UNCHANGED vars

Next ==
  \/ \E p \in Openers :
       \/ Begin(p) \/ Busy(p) \/ CreateMetaTable(p) \/ CheckVersion(p)
       \/ CreateNext(p) \/ WriteVersion(p) \/ Commit(p)
       \/ StatementFails(p) \/ Crash(p)
  \/ Done

Spec == Init /\ [][Next]_vars

-----------------------------------------------------------------------------
\* Every variable has its type; the one writer is inside its transaction.
TypeOK ==
  /\ found \in FilesFound
  /\ file \in Schemas /\ view \in Schemas
  /\ pc \in [Openers -> Steps \union Endings]
  /\ \A p \in Openers : writer = p <=> pc[p] \in Steps \ {"begin"}
  /\ writer = NULL => view = file

Complete(schema) ==
  /\ schema.meta /\ schema.version = CurrentVersion /\ ~schema.legacy
  /\ schema.objects = ObjectNames

\* Whoever fails or dies, and wherever: the file is as it was found or a whole
\* current schema, never a part of one.
NoPartialSchema == file = found \/ Complete(file)

\* What initialize_sqlite_schema accepts: a new file and a current one.
Compatible == {Schema({}, FALSE, NULL, FALSE),
               Schema(ObjectNames, TRUE, CurrentVersion, FALSE)}

\* A file that is not the store's own is refused by every opener and is left
\* exactly as it was: the tile_meta table created on the way is rolled back.
IncompatibleFileIsUntouched ==
  found \notin Compatible => file = found /\ \A p \in Openers : pc[p] # "open"

\* An opener that got its store has a complete schema under it, and no opener
\* of an empty file loses the race to a duplicate version row.
OpenedStoreIsComplete ==
  \A p \in Openers : (pc[p] = "open" => Complete(file)) /\ pc[p] # "conflict"
=============================================================================
