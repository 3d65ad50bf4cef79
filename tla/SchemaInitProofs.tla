--------------------------- MODULE SchemaInitProofs ---------------------------
(***************************************************************************)
(* The safety of opening a database, for any number of openers.            *)
(***************************************************************************)
EXTENDS SchemaInit, TLAPS

\* What the writer's transaction sees at each of its statements.
ViewAgrees ==
  \A p \in Openers :
    /\ pc[p] = "meta" => view = file
    /\ pc[p] = "version" => view = [file EXCEPT !.meta = TRUE]
    /\ pc[p] \in {"create", "record", "commit"} =>
         /\ found \in Compatible
         /\ view \in [objects : SUBSET ObjectNames, meta : {TRUE},
                      version : {NULL, CurrentVersion}, legacy : {FALSE}]
    /\ pc[p] \in {"record", "commit"} => view.objects = ObjectNames
    /\ pc[p] = "record" => view.version = NULL
    /\ pc[p] = "commit" => view.version = CurrentVersion

SchemaInv ==
  /\ TypeOK
  /\ NoPartialSchema
  /\ IncompatibleFileIsUntouched
  /\ OpenedStoreIsComplete
  /\ ViewAgrees

USE DEF Endings, Steps

-----------------------------------------------------------------------------
\* The files an opener may find are records of the expected shape, and only the
\* compatible ones are new or current.
LEMMA FoundShape ==
  ASSUME NEW f \in FilesFound
  PROVE  /\ f \in Schemas
         /\ f.version = NULL /\ ~f.legacy /\ f.objects = {} => f \in Compatible
         /\ f.version = CurrentVersion => f \in Compatible
<1>1. f \in Schemas
  <2>1. ASSUME NEW objects \in SUBSET (ObjectNames \union {"foreign"}), NEW meta \in BOOLEAN,
               NEW version \in {NULL, CurrentVersion, "999"}, NEW legacy \in BOOLEAN
        PROVE  Schema(objects, meta, version, legacy) \in Schemas
    BY DEF Schema, Schemas
  <2>2. /\ {} \subseteq ObjectNames /\ {"foreign"} \subseteq ObjectNames \union {"foreign"}
        /\ {"sessions"} \subseteq ObjectNames
    BY DEF ObjectNames
  <2> QED
    BY <2>1, <2>2 DEF FilesFound
<1>2. f.version = NULL => f.legacy \/ f.objects # {} \/ f = Schema({}, FALSE, NULL, FALSE)
  BY NullAssumption DEF FilesFound, Schema, CurrentVersion
<1>3. f.version = CurrentVersion => f = Schema(ObjectNames, TRUE, CurrentVersion, FALSE)
  BY NullAssumption DEF FilesFound, Schema, CurrentVersion
<1> QED
  BY <1>1, <1>2, <1>3 DEF Compatible

\* Before anybody has opened the file the invariant holds.
LEMMA SchemaInvInit == Init => SchemaInv
<1> SUFFICES ASSUME Init PROVE SchemaInv
  OBVIOUS
<1>1. \A p \in Openers : pc[p] = "begin"
  BY DEF Init
<1>2. TypeOK
  BY <1>1, FoundShape, NullAssumption DEF Init, TypeOK
<1> QED
  BY <1>1, <1>2 DEF Init, SchemaInv, NoPartialSchema, IncompatibleFileIsUntouched,
     OpenedStoreIsComplete, ViewAgrees

\* The writer is alone inside its transaction.
LEMMA OneWriter ==
  ASSUME TypeOK, NEW p \in Openers, writer = p,
         NEW q \in Openers, pc[q] \in Steps \ {"begin"}
  PROVE  q = p
  BY DEF TypeOK

\* An opener that leaves its transaction without a commit changes no schema.
LEMMA RollbackKeepsInv ==
  ASSUME SchemaInv, NEW p \in Openers, writer = p,
         NEW ending \in {"rejected", "failed", "dead"}, Rollback(p, ending)
  PROVE  SchemaInv'
<1>1. /\ file' = file /\ found' = found /\ writer' = NULL /\ view' = file
      /\ pc' = [pc EXCEPT ![p] = ending]
  BY DEF Rollback, Goto
<1>2. \A q \in Openers : pc'[q] \in {"begin"} \union Endings
  BY <1>1, OneWriter DEF SchemaInv, TypeOK
<1>3. TypeOK'
  BY <1>1, <1>2, NullAssumption DEF SchemaInv, TypeOK
<1>4. OpenedStoreIsComplete' /\ IncompatibleFileIsUntouched' /\ NoPartialSchema'
  BY <1>1 DEF SchemaInv, TypeOK, OpenedStoreIsComplete, IncompatibleFileIsUntouched,
     NoPartialSchema, Complete
<1>5. ViewAgrees'
  BY <1>2 DEF ViewAgrees
<1> QED
  BY <1>3, <1>4, <1>5 DEF SchemaInv

\* A statement inside the transaction keeps the invariant if the view it
\* leaves is what the next statement expects.
LEMMA WriteKeepsInv ==
  ASSUME SchemaInv, NEW p \in Openers, writer = p, NEW schema \in Schemas,
         NEW next \in {"version", "create", "record", "commit"},
         Write(p, schema, next),
         next = "version" => schema = [file EXCEPT !.meta = TRUE],
         next \in {"create", "record", "commit"} =>
           /\ found \in Compatible
           /\ schema \in [objects : SUBSET ObjectNames, meta : {TRUE},
                          version : {NULL, CurrentVersion}, legacy : {FALSE}],
         next \in {"record", "commit"} => schema.objects = ObjectNames,
         next = "record" => schema.version = NULL,
         next = "commit" => schema.version = CurrentVersion
  PROVE  SchemaInv'
<1>1. /\ file' = file /\ found' = found /\ writer' = p /\ view' = schema
      /\ pc' = [pc EXCEPT ![p] = next]
  BY DEF Write, Goto
<1>2. pc'[p] = next /\ \A q \in Openers \ {p} : pc'[q] = pc[q]
                                              /\ pc'[q] \in {"begin"} \union Endings
  BY <1>1, OneWriter DEF SchemaInv, TypeOK
<1>3. TypeOK'
  BY <1>1, <1>2, NullAssumption DEF SchemaInv, TypeOK
<1>4. OpenedStoreIsComplete' /\ IncompatibleFileIsUntouched' /\ NoPartialSchema'
  BY <1>1, <1>2 DEF SchemaInv, OpenedStoreIsComplete, IncompatibleFileIsUntouched,
     NoPartialSchema, Complete
<1>5. ViewAgrees'
  <2> SUFFICES ASSUME NEW q \in Openers
               PROVE  ViewAgrees!(q)'
    BY DEF ViewAgrees
  <2> QED
    BY <1>1, <1>2
<1> QED
  BY <1>3, <1>4, <1>5 DEF SchemaInv

\* Every step keeps the invariant, one step of the proof per action.
LEMMA SchemaInvNext == SchemaInv /\ [Next]_vars => SchemaInv'
<1> SUFFICES ASSUME SchemaInv, [Next]_vars PROVE SchemaInv'
  OBVIOUS
<1>1. CASE UNCHANGED vars \/ Done
  <2>1. UNCHANGED <<file, found, writer, view, pc>>
    BY <1>1 DEF vars, Done
  <2>2. TypeOK' /\ ViewAgrees'
    BY <2>1 DEF SchemaInv, TypeOK, ViewAgrees
  <2> QED
    BY <2>1, <2>2 DEF SchemaInv, NoPartialSchema, Complete, IncompatibleFileIsUntouched,
       OpenedStoreIsComplete
<1>2. ASSUME NEW p \in Openers, Begin(p) PROVE SchemaInv'
  <2>1. /\ pc' = [pc EXCEPT ![p] = "meta"] /\ writer = NULL /\ writer' = p
        /\ view' = file /\ file' = file /\ found' = found
    BY <1>2 DEF Begin, Goto
  <2>2. pc'[p] = "meta" /\ \A q \in Openers \ {p} : pc'[q] = pc[q]
                                                  /\ pc[q] \in {"begin"} \union Endings
    BY <2>1, NullAssumption DEF SchemaInv, TypeOK
  <2>3. TypeOK'
    BY <2>1, <2>2, NullAssumption DEF SchemaInv, TypeOK
  <2>4. ViewAgrees'
    BY <2>1, <2>2 DEF ViewAgrees
  <2> QED
    BY <2>1, <2>2, <2>3, <2>4 DEF SchemaInv, NoPartialSchema, Complete,
       IncompatibleFileIsUntouched, OpenedStoreIsComplete
<1>3. ASSUME NEW p \in Openers, Busy(p) \/ (Crash(p) /\ pc[p] = "begin") PROVE SchemaInv'
  <2>1. PICK ending \in {"failed", "dead"} : pc' = [pc EXCEPT ![p] = ending]
    BY <1>3 DEF Busy, Crash, Rollback, Goto
  <2>2. pc[p] = "begin" /\ UNCHANGED <<file, found, writer, view>>
    BY <1>3, NullAssumption DEF Busy, Crash, Rollback, SchemaInv, TypeOK
  <2> QED
    BY <2>1, <2>2 DEF SchemaInv, TypeOK, NoPartialSchema, Complete,
       IncompatibleFileIsUntouched, OpenedStoreIsComplete, ViewAgrees
<1>4. ASSUME NEW p \in Openers, pc[p] \in Steps \ {"begin"},
             StatementFails(p) \/ Crash(p)
      PROVE  SchemaInv'
  BY <1>4, RollbackKeepsInv DEF StatementFails, Crash
<1>5. ASSUME NEW p \in Openers, CreateMetaTable(p) PROVE SchemaInv'
  <2>1. writer = p /\ Write(p, [file EXCEPT !.meta = TRUE], "version")
    BY <1>5 DEF CreateMetaTable, SchemaInv, TypeOK, ViewAgrees
  <2>2. [file EXCEPT !.meta = TRUE] \in Schemas
    BY DEF SchemaInv, TypeOK, Schemas
  <2> QED
    BY <2>1, <2>2, WriteKeepsInv
<1>6. ASSUME NEW p \in Openers, CheckVersion(p) PROVE SchemaInv'
  <2>1. writer = p /\ view = [file EXCEPT !.meta = TRUE] /\ view \in Schemas
    BY <1>6 DEF CheckVersion, SchemaInv, TypeOK, ViewAgrees
  <2>2. CASE Rollback(p, "rejected")
    BY <2>1, <2>2, RollbackKeepsInv
  <2>3. CASE ~Rollback(p, "rejected")
    <3>1. /\ Write(p, view, "create") /\ view.version \in {NULL, CurrentVersion}
          /\ view.version = NULL => ~view.legacy /\ view.objects = {}
      BY <1>6, <2>3 DEF CheckVersion
    <3>2. found \in Compatible
      BY <2>1, <3>1, FoundShape DEF SchemaInv, TypeOK, IncompatibleFileIsUntouched
    <3>3. view \in [objects : SUBSET ObjectNames, meta : {TRUE},
                   version : {NULL, CurrentVersion}, legacy : {FALSE}]
      <4>1. view.meta = TRUE /\ view.objects = file.objects
            /\ view.version = file.version /\ view.legacy = file.legacy
        BY <2>1 DEF SchemaInv, TypeOK, Schemas
      <4>2. file.version = CurrentVersion => ~file.legacy /\ file.objects \subseteq ObjectNames
        BY <3>2, NullAssumption DEF SchemaInv, NoPartialSchema, Complete, Compatible,
           Schema, CurrentVersion
      <4> QED
        BY <2>1, <3>1, <4>1, <4>2 DEF Schemas
    <3> QED
      BY <2>1, <3>1, <3>2, <3>3, WriteKeepsInv
  <2> QED
    BY <2>2, <2>3
<1>7. ASSUME NEW p \in Openers, CreateNext(p) PROVE SchemaInv'
  <2>1. /\ writer = p /\ found \in Compatible /\ view \in Schemas
        /\ view \in [objects : SUBSET ObjectNames, meta : {TRUE},
                    version : {NULL, CurrentVersion}, legacy : {FALSE}]
    BY <1>7 DEF CreateNext, SchemaInv, TypeOK, ViewAgrees
  <2>2. ASSUME NEW o \in ObjectNames,
               Write(p, [view EXCEPT !.objects = @ \union {o}], "create")
        PROVE  SchemaInv'
    <3>1. /\ [view EXCEPT !.objects = @ \union {o}] \in Schemas
          /\ [view EXCEPT !.objects = @ \union {o}] \in
               [objects : SUBSET ObjectNames, meta : {TRUE},
                version : {NULL, CurrentVersion}, legacy : {FALSE}]
      BY <2>1 DEF Schemas
    <3> QED
      BY <2>1, <2>2, <3>1, WriteKeepsInv
  <2>3. CASE /\ ObjectNames \subseteq view.objects
             /\ Write(p, view, IF view.version = NULL THEN "record" ELSE "commit")
    <3>1. view.objects = ObjectNames
      BY <2>1, <2>3
    <3>2. CASE view.version = NULL
      BY <2>1, <2>3, <3>1, <3>2, WriteKeepsInv
    <3>3. CASE view.version = CurrentVersion /\ view.version # NULL
      BY <2>1, <2>3, <3>1, <3>3, WriteKeepsInv
    <3> QED
      BY <2>1, <3>2, <3>3
  <2> QED
    BY <1>7, <2>2, <2>3 DEF CreateNext
<1>8. ASSUME NEW p \in Openers, WriteVersion(p) PROVE SchemaInv'
  <2>1. /\ writer = p /\ found \in Compatible /\ view \in Schemas
        /\ view \in [objects : SUBSET ObjectNames, meta : {TRUE},
                    version : {NULL, CurrentVersion}, legacy : {FALSE}]
        /\ view.objects = ObjectNames /\ view.version = NULL
    BY <1>8 DEF WriteVersion, SchemaInv, TypeOK, ViewAgrees
  <2> DEFINE versioned == [view EXCEPT !.version = CurrentVersion]
  <2>2. Write(p, versioned, "commit")
    BY <1>8, <2>1 DEF WriteVersion
  <2>3. /\ versioned \in Schemas /\ versioned.objects = ObjectNames
        /\ versioned.version = CurrentVersion
        /\ versioned \in [objects : SUBSET ObjectNames, meta : {TRUE},
                         version : {NULL, CurrentVersion}, legacy : {FALSE}]
    BY <2>1 DEF Schemas
  <2> HIDE DEF versioned
  <2> QED
    BY <2>1, <2>2, <2>3, WriteKeepsInv
<1>9. ASSUME NEW p \in Openers, Commit(p) PROVE SchemaInv'
  <2>1. /\ writer = p /\ found \in Compatible /\ Complete(view)
        /\ file' = view /\ view' = view /\ found' = found /\ writer' = NULL
        /\ pc' = [pc EXCEPT ![p] = "open"]
    BY <1>9 DEF Commit, Goto, SchemaInv, TypeOK, ViewAgrees, Complete
  <2>2. \A q \in Openers : pc'[q] \in {"begin"} \union Endings
    BY <2>1, OneWriter DEF SchemaInv, TypeOK
  <2>3. TypeOK'
    BY <2>1, <2>2, NullAssumption DEF SchemaInv, TypeOK
  <2>4. ViewAgrees'
    BY <2>2 DEF ViewAgrees
  <2>5. NoPartialSchema' /\ IncompatibleFileIsUntouched' /\ OpenedStoreIsComplete'
    BY <2>1 DEF SchemaInv, TypeOK, NoPartialSchema, IncompatibleFileIsUntouched,
       OpenedStoreIsComplete, Complete
  <2> QED
    BY <2>3, <2>4, <2>5 DEF SchemaInv
<1> QED
  <2>1. \A p \in Openers : StatementFails(p) \/ Crash(p) =>
           pc[p] \in Steps \ {"begin"} \/ (Crash(p) /\ pc[p] = "begin")
    BY DEF StatementFails, Crash, SchemaInv, TypeOK
  <2> QED
    BY <1>1, <1>2, <1>3, <1>4, <1>5, <1>6, <1>7, <1>8, <1>9, <2>1 DEF Next

-----------------------------------------------------------------------------
\* Opening a database keeps the inductive invariant.
THEOREM SchemaInvariant == Spec => []SchemaInv
  BY SchemaInvInit, SchemaInvNext, PTL DEF Spec

\* A file is never seen half initialised, whichever openers fail or die.
THEOREM SchemaNeverPartial == Spec => []NoPartialSchema
  BY SchemaInvariant, PTL DEF SchemaInv

\* A database of somebody else, or of another version, is never changed.
THEOREM SchemaLeavesOthersAlone == Spec => []IncompatibleFileIsUntouched
  BY SchemaInvariant, PTL DEF SchemaInv

\* Whoever opened a store has a complete schema, and the race for the version
\* row of a new file has no loser.
THEOREM SchemaOpenedIsComplete == Spec => []OpenedStoreIsComplete
  BY SchemaInvariant, PTL DEF SchemaInv
=============================================================================
