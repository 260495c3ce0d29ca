----------------------- MODULE ProjectSession_proofs -----------------------
(***************************************************************************)
(* Theorems about sessions on an archive, for any number of processes,     *)
(* artifacts and canvases and whatever databases were packed.              *)
(***************************************************************************)
EXTENDS ProjectSession, TLAPS

USE SessionAssumption DEF SessionAssumption

(***************************************************************************)
(* The bootstrap as functions of a database                                *)
(***************************************************************************)
LEMMA BaseSchemaIsTyped ==
    ASSUME NEW d \in Db
    PROVE  /\ CreateBaseSchema(d) \in Db
           /\ CreateBaseSchema(d).tables = Tables
           /\ CreateBaseSchema(d).version = d.version
           /\ CreateBaseSchema(d).dated = d.dated
           /\ Present(CreateBaseSchema(d)) = Present(d)
           /\ "canvases" \notin d.tables => CreateBaseSchema(d).columns = AddedColumns
           /\ "canvases" \in d.tables => /\ CreateBaseSchema(d).columns = d.columns
                                         /\ CreateBaseSchema(d).defaulted = d.defaulted
BY DEF CreateBaseSchema, Db, Tables, AddedColumns, Present

LEMMA MigrationIsTyped ==
    ASSUME NEW d \in Db
    PROVE  LET g == MigrateCanvasesTo11(d)
           IN  /\ g \in Db
               /\ g.tables = d.tables
               /\ g.columns = AddedColumns
               /\ Present(g) = Present(d)
               /\ g.dated = IF {"version", "updated_at"} \subseteq d.columns THEN d.dated
                            ELSE Present(d)
<1>1. Present(d) \in SUBSET CanvasIds
    BY DEF Present
<1>2. d.dated \in SUBSET CanvasIds /\ AddedColumns \in SUBSET AddedColumns
    BY DEF Db
<1> DEFINE filled == IF {"version", "updated_at"} \subseteq d.columns THEN d.dated ELSE Present(d)
<1>3. filled \in SUBSET CanvasIds
    BY <1>1, <1>2
<1>4. MigrateCanvasesTo11(d) = [d EXCEPT !.columns = AddedColumns, !.dated = filled]
    BY DEF MigrateCanvasesTo11, Db
<1>5. Present([d EXCEPT !.columns = AddedColumns, !.dated = filled]) = Present(d)
    BY DEF Present, Db
<1> HIDE DEF filled
<1>6. LET g == [d EXCEPT !.columns = AddedColumns, !.dated = filled]
      IN  g \in Db /\ g.tables = d.tables /\ g.columns = AddedColumns /\ g.dated = filled
    BY <1>2, <1>3 DEF Db
<1> QED BY <1>4, <1>5, <1>6 DEF filled

LEMMA VersionIsTyped ==
    ASSUME NEW d \in Db
    PROVE  /\ SetSchemaVersion(d) \in Db
           /\ SetSchemaVersion(d).version = CurrentVersion
           /\ SetSchemaVersion(d).tables = d.tables
           /\ SetSchemaVersion(d).columns = d.columns
           /\ SetSchemaVersion(d).dated = d.dated
           /\ Present(SetSchemaVersion(d)) = Present(d)
BY DEF SetSchemaVersion, Db, CurrentVersion, Versions, Present

LEMMA EnsureSchemaIsTyped ==
    ASSUME NEW d \in Db
    PROVE  EnsureSchema(d) \in Db
<1>1. CreateBaseSchema(d) \in Db
    BY BaseSchemaIsTyped
<1>2. MigrateCanvasesTo11(CreateBaseSchema(d)) \in Db
    BY <1>1, MigrationIsTyped
<1>3. SetSchemaVersion(CreateBaseSchema(d)) \in Db
      /\ SetSchemaVersion(MigrateCanvasesTo11(CreateBaseSchema(d))) \in Db
    BY <1>1, <1>2, VersionIsTyped
<1> QED BY <1>1, <1>3 DEF EnsureSchema

\* The database after a canvas was created, updated or deleted.
Worked(d, i, t, ids) == [d EXCEPT !.canvases[i] = t, !.dated = ids]

LEMMA CanvasWorkIsTyped ==
    ASSUME NEW d \in Db, NEW i \in CanvasIds, NEW t \in Texts \cup {None},
           NEW ids \in SUBSET CanvasIds
    PROVE  /\ Worked(d, i, t, ids) \in Db
           /\ Worked(d, i, t, ids).version = d.version
           /\ Worked(d, i, t, ids).tables = d.tables
           /\ Worked(d, i, t, ids).columns = d.columns
           /\ Worked(d, i, t, ids).defaulted = d.defaulted
           /\ Worked(d, i, t, ids).dated = ids
           /\ Present(Worked(d, i, t, ids)) \subseteq Present(d) \cup {i}
           /\ t = None => i \notin Present(Worked(d, i, t, ids))
<1> DEFINE rows == [d.canvases EXCEPT ![i] = t]
<1>1. rows \in [CanvasIds -> Texts \cup {None}]
    BY DEF Db
<1>2. Worked(d, i, t, ids) = [d EXCEPT !.canvases = rows, !.dated = ids]
    BY DEF Db, Worked
<1>3. /\ {j \in CanvasIds : rows[j] # None} \subseteq Present(d) \cup {i}
      /\ t = None => i \notin {j \in CanvasIds : rows[j] # None}
    BY DEF Db, Present
<1> HIDE DEF rows
<1> QED BY <1>1, <1>2, <1>3 DEF Db, Present

(***************************************************************************)
(* The invariant                                                           *)
(***************************************************************************)
\* A process that is up has a database, and an open one has the current schema.
DatabasesLoaded ==
    /\ \A s \in Sessions : phase[s] \in Reading => db[s] \in Db
    /\ \A s \in Sessions : phase[s] = "opening" => db[s] \in Databases
    /\ OpenIsCurrent

ArchiveType == [Entries -> {Manifest, None} \cup Db \cup Sessions]

\* A writer copies from an archive that was whole, and adds an artifact to it; who
\* creates a project writes one that is whole, and no artifact.
WritersCopyWholes ==
    \A s \in Sessions :
        /\ phase[s] = "writing" => job[s] \in Artifacts
        /\ phase[s] # "writing" => job[s] = None
        /\ phase[s] \in MakingTemp =>
            /\ snapshot[s] \in ArchiveType
            /\ snapshot[s]["manifest"] = Manifest
            /\ snapshot[s]["data"] \in Databases

\* Whoever has opened the project can open it again.
ProjectIsThere == \A s \in Sessions : phase[s] \in Reading => Whole

SessionInv ==
    TypeOK /\ WholeOrNothing /\ DatabasesLoaded /\ WritersCopyWholes /\ ProjectIsThere

LEMMA NewProjectIsWhole ==
    ASSUME NEW d \in Databases
    PROVE  /\ NewProject(d) \in ArchiveType
           /\ NewProject(d)["manifest"] = Manifest
           /\ NewProject(d)["data"] \in Databases
BY DEF NewProject, ArchiveType, Entries

LEMMA NothingIsAnArchive == Nothing \in ArchiveType /\ Nothing["manifest"] # Manifest
BY DEF Nothing, ArchiveType, Entries

LEMMA SessionInvInit == Init => SessionInv
<1> SUFFICES ASSUME Init PROVE SessionInv
    OBVIOUS
<1>1. archive \in ArchiveType /\ WholeOrNothing
    BY NewProjectIsWhole, NothingIsAnArchive DEF Init, WholeOrNothing, Whole
<1>2. TypeOK
    BY <1>1 DEF Init, TypeOK, ArchiveType, Phases
<1> QED BY <1>1, <1>2
        DEF Init, SessionInv, DatabasesLoaded, OpenIsCurrent, WritersCopyWholes, ProjectIsThere,
            Reading, MakingTemp

LEMMA OpenKeeps ==
    ASSUME SessionInv, NEW s \in Sessions, Open(s)
    PROVE  SessionInv'
<1> USE DEF SessionInv, Open, writing
<1>1. Whole
    BY DEF WholeOrNothing, Nothing, Entries
<1>2. archive["data"] \in Db
    BY <1>1 DEF Whole
<1>3. TypeOK'
    BY <1>2 DEF TypeOK, Phases, Reading
<1>4. DatabasesLoaded'
    BY <1>1, <1>2 DEF DatabasesLoaded, OpenIsCurrent, TypeOK, Whole, Reading
<1>5. WritersCopyWholes' /\ WholeOrNothing' /\ ProjectIsThere'
    BY <1>1 DEF WritersCopyWholes, WholeOrNothing, ProjectIsThere, Whole, TypeOK, MakingTemp
<1> QED BY <1>3, <1>4, <1>5

\* From every version the bootstrap supports it reaches the current one.
LEMMA BootstrapReachesCurrent ==
    ASSUME NEW d \in Db
    PROVE  EnsureSchema(d).version = CurrentVersion /\ EnsureSchema(d).tables = Tables
<1> DEFINE b == CreateBaseSchema(d)
<1>1. b \in Db /\ b.tables = Tables /\ b.version = d.version
    BY BaseSchemaIsTyped
<1>2. MigrateCanvasesTo11(b) \in Db /\ MigrateCanvasesTo11(b).tables = b.tables
    BY <1>1, MigrationIsTyped
<1>3. /\ SetSchemaVersion(b).version = CurrentVersion
      /\ SetSchemaVersion(b).tables = b.tables
      /\ SetSchemaVersion(MigrateCanvasesTo11(b)).version = CurrentVersion
      /\ SetSchemaVersion(MigrateCanvasesTo11(b)).tables = b.tables
    BY <1>1, <1>2, VersionIsTyped
<1>4. EnsureSchema(d) \in {b, SetSchemaVersion(b), SetSchemaVersion(MigrateCanvasesTo11(b))}
      /\ (EnsureSchema(d) = b => EnsureSchema(d).version = CurrentVersion)
    BY <1>1, <1>3 DEF EnsureSchema
<1> HIDE DEF b
<1> QED BY <1>1, <1>3, <1>4

\* A listing that works goes on working; where there was no table, or the rows
\* are to be migrated from the oldest one, it works afterwards.
LEMMA BootstrapMends ==
    ASSUME NEW d \in Databases,
           Listable(d) \/ "canvases" \notin d.tables \/ IsOldest(d)
    PROVE  Listable(EnsureSchema(d))
<1> DEFINE b == CreateBaseSchema(d)
           g == MigrateCanvasesTo11(b)
<1>1. /\ b \in Db /\ b.dated = d.dated /\ Present(b) = Present(d)
      /\ "canvases" \notin d.tables => b.columns = AddedColumns
      /\ "canvases" \in d.tables => b.columns = d.columns
    BY BaseSchemaIsTyped
<1>2. /\ g \in Db /\ g.columns = AddedColumns /\ Present(g) = Present(b)
      /\ g.dated = IF {"version", "updated_at"} \subseteq b.columns THEN b.dated ELSE Present(b)
    BY <1>1, MigrationIsTyped
<1>3. \A e \in Db : Listable(e) => Listable(SetSchemaVersion(e))
    BY VersionIsTyped DEF Listable
<1>4. "canvases" \notin d.tables => Present(d) = {} /\ d.columns = {}
    BY DatabaseAssumption DEF DatabaseAssumption
<1>5. Listable(d) \/ "canvases" \notin d.tables => Listable(b)
    BY <1>1, <1>4 DEF Listable, AddedColumns
<1> HIDE DEF b, g
<1>6. CASE d.version = "1.0.0"
    <2>1. EnsureSchema(d) = SetSchemaVersion(g)
        BY <1>6 DEF EnsureSchema, CurrentVersion, b, g
    <2>2. Listable(b) => Listable(g)
        BY <1>2 DEF Listable
    <2>3. IsOldest(d) /\ "canvases" \in d.tables => Listable(g)
        BY <1>1, <1>2 DEF IsOldest, Listable
    <2>4. Listable(g)
        BY <1>5, <2>2, <2>3
    <2> QED BY <1>2, <1>3, <2>1, <2>4
<1>7. CASE d.version # "1.0.0"
    <2>1. EnsureSchema(d) = b \/ EnsureSchema(d) = SetSchemaVersion(b)
        BY <1>7 DEF EnsureSchema, b
    <2>2. Listable(b)
        BY <1>5, <1>7 DEF IsOldest
    <2> QED BY <1>1, <1>3, <2>1, <2>2
<1> QED BY <1>6, <1>7

\* The bootstrap declares a table only by making it.
LEMMA BootstrapDeclares ==
    ASSUME NEW d \in Databases, EnsureSchema(d).defaulted
    PROVE  Listable(EnsureSchema(d))
<1> DEFINE b == CreateBaseSchema(d)
<1>1. b \in Db /\ ("canvases" \in d.tables => b.defaulted = d.defaulted)
    BY BaseSchemaIsTyped
<1>2. \A e \in Db : /\ MigrateCanvasesTo11(e).defaulted = e.defaulted
                    /\ SetSchemaVersion(e).defaulted = e.defaulted
    BY DEF MigrateCanvasesTo11, SetSchemaVersion, Db
<1>3. MigrateCanvasesTo11(b) \in Db
    BY <1>1, MigrationIsTyped
<1>4. EnsureSchema(d) \in {b, SetSchemaVersion(b), SetSchemaVersion(MigrateCanvasesTo11(b))}
    BY DEF EnsureSchema
<1> HIDE DEF b
<1>5. b.defaulted
    BY <1>1, <1>2, <1>3, <1>4
<1>6. "canvases" \in d.tables => Listable(d)
    BY <1>1, <1>5, DatabaseAssumption DEF DatabaseAssumption, Listable
<1> QED BY <1>6, BootstrapMends

LEMMA BootstrapKeeps ==
    ASSUME SessionInv, NEW s \in Sessions, Bootstrap(s)
    PROVE  SessionInv'
<1> USE DEF SessionInv
<1> DEFINE e == EnsureSchema(db[s])
<1>1. db[s] \in Db
    BY DEF Bootstrap, DatabasesLoaded, Reading
<1>2. e \in Db
    BY <1>1, EnsureSchemaIsTyped
<1>3. e.version = CurrentVersion /\ e.tables = Tables /\ (e.defaulted => Listable(e))
    BY <1>1, BootstrapReachesCurrent, BootstrapDeclares DEF Bootstrap, DatabasesLoaded
<1>4. /\ phase' = [phase EXCEPT ![s] = "open"] /\ db' = [db EXCEPT ![s] = e]
      /\ UNCHANGED <<archive, job, snapshot, copied, overtaken, tempDbs, tempArchives>>
    BY DEF Bootstrap, writing, files
<1> HIDE DEF e
<1>5. TypeOK'
    BY <1>2, <1>4 DEF TypeOK, Phases, Reading
<1>6. DatabasesLoaded'
    BY <1>2, <1>3, <1>4 DEF DatabasesLoaded, OpenIsCurrent, TypeOK, Reading
<1>7. WritersCopyWholes' /\ WholeOrNothing' /\ ProjectIsThere'
    BY <1>4 DEF WritersCopyWholes, WholeOrNothing, ProjectIsThere, Whole, TypeOK, MakingTemp,
                Reading, Bootstrap
<1> QED BY <1>5, <1>6, <1>7

\* Work on the own database: its rows change, its schema does not, and a listing
\* goes on working where the table dates every row.
LEMMA WorkKeeps ==
    ASSUME SessionInv, NEW s \in Sessions, NEW d \in Db, phase[s] = "open", Work(s, d),
           d.version = db[s].version, d.tables = db[s].tables,
           d.defaulted => db[s].defaulted /\ (Listable(db[s]) => Listable(d))
    PROVE  SessionInv'
<1> USE DEF SessionInv, Work, writing, files
<1>1. TypeOK'
    BY DEF TypeOK
<1>2. DatabasesLoaded'
    BY DEF DatabasesLoaded, OpenIsCurrent, TypeOK
<1>3. WritersCopyWholes' /\ WholeOrNothing' /\ ProjectIsThere'
    BY DEF WritersCopyWholes, WholeOrNothing, ProjectIsThere, Whole
<1> QED BY <1>1, <1>2, <1>3

LEMMA CanvasStepKeeps ==
    ASSUME SessionInv, NEW s \in Sessions, NEW i \in CanvasIds,
           \/ \E t \in Texts : CreateCanvas(s, i, t) \/ UpdateCanvas(s, i, t)
           \/ DeleteCanvas(s, i)
    PROVE  SessionInv'
<1>1. phase[s] = "open"
    BY DEF CreateCanvas, UpdateCanvas, DeleteCanvas
<1>2. db[s] \in Db
    BY <1>1 DEF SessionInv, DatabasesLoaded, Reading
<1>3. db[s].dated \in SUBSET CanvasIds
    BY <1>2 DEF Db
<1> DEFINE Fine(u, ids) ==
        /\ Work(s, Worked(db[s], i, u, ids))
        /\ u # None /\ db[s].defaulted => ids = db[s].dated \cup {i}
        /\ u = None => ids = db[s].dated \ {i}
<1>4. PICK u \in Texts \cup {None}, ids \in SUBSET CanvasIds : Fine(u, ids)
    <2>1. ASSUME NEW t \in Texts, CreateCanvas(s, i, t)
          PROVE  \E u \in Texts \cup {None}, ids \in SUBSET CanvasIds : Fine(u, ids)
        <3> DEFINE ids == IF db[s].defaulted THEN db[s].dated \cup {i} ELSE db[s].dated
        <3>1. ids \in SUBSET CanvasIds /\ t # None
            BY <1>3
        <3>2. Work(s, [db[s] EXCEPT !.canvases[i] = t, !.dated = ids])
            BY <2>1, <1>2 DEF CreateCanvas, Db
        <3>3. db[s].defaulted => ids = db[s].dated \cup {i}
            OBVIOUS
        <3> HIDE DEF ids
        <3>4. Fine(t, ids)
            BY <3>1, <3>2, <3>3 DEF Worked
        <3> HIDE DEF Fine
        <3> QED BY <3>1, <3>4
    <2>2. ASSUME NEW t \in Texts, UpdateCanvas(s, i, t)
          PROVE  \E u \in Texts \cup {None}, ids \in SUBSET CanvasIds : Fine(u, ids)
        <3>1. Work(s, [db[s] EXCEPT !.canvases[i] = t, !.dated = db[s].dated \cup {i}])
            BY <2>2, <1>2 DEF UpdateCanvas, Db
        <3>2. Fine(t, db[s].dated \cup {i})
            BY <3>1 DEF Worked
        <3> HIDE DEF Fine
        <3> QED BY <1>3, <3>2
    <2>3. CASE DeleteCanvas(s, i)
        <3>1. Work(s, [db[s] EXCEPT !.canvases[i] = None, !.dated = db[s].dated \ {i}])
            BY <2>3, <1>2 DEF DeleteCanvas, Db
        <3>2. Fine(None, db[s].dated \ {i})
            BY <3>1 DEF Worked
        <3> HIDE DEF Fine
        <3> QED BY <1>3, <3>2
    <2> QED BY <2>1, <2>2, <2>3
<1> DEFINE w == Worked(db[s], i, u, ids)
<1>5. Work(s, w)
    BY <1>4
<1>6. /\ w \in Db /\ w.version = db[s].version /\ w.tables = db[s].tables
      /\ w.columns = db[s].columns /\ w.defaulted = db[s].defaulted /\ w.dated = ids
      /\ Present(w) \subseteq Present(db[s]) \cup {i}
      /\ u = None => i \notin Present(w)
    BY <1>2, CanvasWorkIsTyped
<1> HIDE DEF w
<1>7. w.defaulted /\ Listable(db[s]) => Listable(w)
    BY <1>4, <1>6 DEF Listable
<1> QED BY <1>1, <1>5, <1>6, <1>7, WorkKeeps

\* A step that moves one process to a phase in which it has no database, or a
\* session from open to writing, and touches neither archive nor databases.
LEMMA StageKeeps ==
    ASSUME SessionInv, NEW s \in Sessions, NEW p \in {"closed", "missing", "launching", "initialising"},
           phase' = [phase EXCEPT ![s] = p], UNCHANGED <<archive, db>>
    PROVE  /\ phase' \in [Sessions -> Phases]
           /\ DatabasesLoaded' /\ WholeOrNothing' /\ ProjectIsThere'
BY DEF SessionInv, DatabasesLoaded, OpenIsCurrent, WholeOrNothing, ProjectIsThere, Whole,
       TypeOK, Phases, Reading, MakingTemp

LEMMA LaunchKeeps ==
    ASSUME SessionInv, NEW s \in Sessions, LaunchFindsNone(s) \/ LaunchFails(s)
    PROVE  SessionInv'
<1>1. PICK p \in {"closed", "missing"} : phase' = [phase EXCEPT ![s] = p]
    BY DEF LaunchFindsNone, LaunchFails
<1>2. /\ UNCHANGED <<archive, db, job, snapshot, copied, tempDbs, tempArchives>>
      /\ overtaken' \subseteq Sessions
      /\ phase[s] \in {"closed", "missing"}
    BY DEF LaunchFindsNone, LaunchFails, writing, files, SessionInv, TypeOK
<1>3. phase' \in [Sessions -> Phases] /\ DatabasesLoaded' /\ WholeOrNothing' /\ ProjectIsThere'
    BY <1>1, <1>2, StageKeeps
<1>4. TypeOK'
    BY <1>2, <1>3 DEF SessionInv, TypeOK
<1>5. WritersCopyWholes'
    BY <1>1, <1>2 DEF SessionInv, TypeOK, WritersCopyWholes, MakingTemp
<1> QED BY <1>3, <1>4, <1>5 DEF SessionInv

LEMMA CreateKeeps ==
    ASSUME SessionInv, NEW s \in Sessions, NEW stage \in {"launching", "initialising"},
           NEW d \in Databases, phase[s] \in {"closed", "missing"}, Create(s, stage, d)
    PROVE  SessionInv'
<1>1. phase' \in [Sessions -> Phases] /\ DatabasesLoaded' /\ WholeOrNothing' /\ ProjectIsThere'
    BY StageKeeps DEF Create
<1> DEFINE new == NewProject(d)
<1>2. new \in ArchiveType /\ new["manifest"] = Manifest /\ new["data"] \in Databases
    BY NewProjectIsWhole
<1>3. /\ phase' = [phase EXCEPT ![s] = stage]
      /\ snapshot' = [snapshot EXCEPT ![s] = new]
      /\ copied' = [copied EXCEPT ![s] = {}]
      /\ tempArchives' = tempArchives \cup {s}
      /\ UNCHANGED <<archive, db, job, tempDbs, overtaken>>
    BY DEF Create
<1> HIDE DEF new
<1>4. TypeOK'
    BY <1>1, <1>2, <1>3 DEF SessionInv, TypeOK, ArchiveType
<1>5. WritersCopyWholes'
    BY <1>2, <1>3 DEF SessionInv, TypeOK, WritersCopyWholes, MakingTemp
<1> QED BY <1>1, <1>4, <1>5 DEF SessionInv

LEMMA CreatorsKeep ==
    ASSUME SessionInv, NEW s \in Sessions,
           LaunchCreates(s) \/ \E d \in Seeds : InitCreates(s, d)
    PROVE  SessionInv'
BY CreateKeeps DEF LaunchCreates, InitCreates

LEMMA BeginUpsertKeeps ==
    ASSUME SessionInv, NEW s \in Sessions, NEW a \in Artifacts, BeginUpsert(s, a)
    PROVE  SessionInv'
<1> USE DEF SessionInv, BeginUpsert
<1>1. TypeOK'
    BY DEF TypeOK, Phases, MakingTemp
<1>2. DatabasesLoaded'
    BY DEF DatabasesLoaded, OpenIsCurrent, TypeOK, Reading
<1>3. Whole
    BY DEF ProjectIsThere, Reading
<1>4. WritersCopyWholes'
    BY <1>3 DEF WritersCopyWholes, Whole, TypeOK, ArchiveType, MakingTemp
<1>5. WholeOrNothing' /\ ProjectIsThere'
    BY <1>3 DEF WholeOrNothing, ProjectIsThere, Whole
<1> QED BY <1>1, <1>2, <1>4, <1>5

LEMMA CopyEntryKeeps ==
    ASSUME SessionInv, NEW s \in Sessions, CopyEntry(s)
    PROVE  SessionInv'
<1> USE DEF SessionInv, CopyEntry, files
<1>1. TypeOK'
    BY DEF TypeOK, ToCopy
<1>2. DatabasesLoaded'
    BY DEF DatabasesLoaded, OpenIsCurrent
<1>3. WritersCopyWholes' /\ WholeOrNothing' /\ ProjectIsThere'
    BY DEF WritersCopyWholes, WholeOrNothing, ProjectIsThere, Whole
<1> QED BY <1>1, <1>2, <1>3

\* The end of a write, whatever became of it, and the end of a process.
LEMMA DoneKeeps ==
    ASSUME SessionInv, NEW s \in Sessions, Done(s),
           \/ phase' = Afterwards(s) /\ phase[s] \in MakingTemp /\ UNCHANGED <<db, tempDbs>>
           \/ phase' = [phase EXCEPT ![s] = "closed"] /\ db' = [db EXCEPT ![s] = None]
              /\ tempDbs' = tempDbs \ {s},
           archive' \in ArchiveType, WholeOrNothing', Whole => Whole', overtaken' \subseteq Sessions
    PROVE  SessionInv'
<1> USE DEF SessionInv, Done
<1>1. \A r \in Sessions \ {s} : phase'[r] = phase[r]
    BY DEF Afterwards, TypeOK
<1>2. /\ phase' \in [Sessions -> Phases]
      /\ phase'[s] \in {"open", "closed"}
      /\ phase'[s] = "open" => phase[s] = "writing" /\ UNCHANGED db
    BY DEF Afterwards, TypeOK, Phases, Reading, MakingTemp
<1>3. /\ db' \in [Sessions -> Db \cup {None}] /\ tempDbs' \subseteq Sessions
      /\ \A r \in Sessions \ {s} : db'[r] = db[r]
    BY DEF TypeOK
<1>4. TypeOK'
    BY <1>2, <1>3 DEF TypeOK, ArchiveType
<1>5. DatabasesLoaded'
    BY <1>1, <1>2, <1>3 DEF DatabasesLoaded, OpenIsCurrent, Reading
<1>6. WritersCopyWholes'
    BY <1>1, <1>2 DEF WritersCopyWholes, TypeOK, MakingTemp
<1>7. ProjectIsThere'
    BY <1>1, <1>2 DEF ProjectIsThere, Reading
<1> QED BY <1>4, <1>5, <1>6, <1>7

\* Everything was copied before the rename, so what is installed is whole.
LEMMA InstalledIsWhole ==
    ASSUME SessionInv, NEW s \in Sessions, Install(s)
    PROVE  Whole' /\ archive' \in ArchiveType
<1> USE DEF SessionInv, Install
<1>1. /\ snapshot[s] \in ArchiveType
      /\ snapshot[s]["manifest"] = Manifest /\ snapshot[s]["data"] \in Databases
      /\ job[s] \in Artifacts \cup {None}
    BY DEF WritersCopyWholes
<1>2. snapshot[s]["data"] # None
    BY <1>1
<1>3. {"manifest", "data"} \subseteq copied[s]
    BY <1>1, <1>2 DEF ToCopy, Entries
<1>4. {"manifest", "data"} \cap {job[s]} = {}
    <2>1. CASE phase[s] = "writing"
        BY <2>1 DEF WritersCopyWholes
    <2>2. CASE phase[s] # "writing"
        BY <2>2, <1>3 DEF WritersCopyWholes, TypeOK, Entries
    <2> QED BY <2>1, <2>2
<1>5. Whole'
    BY <1>1, <1>3, <1>4 DEF Whole, Written, Entries
<1>6. archive' \in ArchiveType
    BY <1>1 DEF Written, ArchiveType
<1> QED BY <1>5, <1>6

LEMMA InstallKeeps ==
    ASSUME SessionInv, NEW s \in Sessions, Install(s)
    PROVE  SessionInv'
<1>1. Whole' /\ archive' \in ArchiveType
    BY InstalledIsWhole
<1>2. overtaken' \subseteq Sessions
    BY DEF Install, SessionInv, TypeOK, Committed
<1> QED BY <1>1, <1>2, DoneKeeps DEF Install, WholeOrNothing

LEMMA EndKeeps ==
    ASSUME SessionInv, NEW s \in Sessions, WriteFails(s) \/ Kill(s)
    PROVE  SessionInv'
<1>1. /\ archive' \in ArchiveType /\ WholeOrNothing' /\ (Whole => Whole')
      /\ overtaken' \subseteq Sessions
    BY DEF SessionInv, TypeOK, ArchiveType, WholeOrNothing, Whole, WriteFails, Kill
<1> QED BY <1>1, DoneKeeps DEF WriteFails, Kill

LEMMA CloseKeeps ==
    ASSUME SessionInv, NEW s \in Sessions, BootstrapFails(s) \/ Close(s)
    PROVE  SessionInv'
<1> USE DEF SessionInv, BootstrapFails, Close, writing
<1>1. TypeOK'
    BY DEF TypeOK, Phases
<1>2. DatabasesLoaded'
    BY DEF DatabasesLoaded, OpenIsCurrent, TypeOK, Reading
<1>3. WritersCopyWholes' /\ WholeOrNothing' /\ ProjectIsThere'
    BY DEF WritersCopyWholes, WholeOrNothing, ProjectIsThere, Whole, TypeOK, MakingTemp, Reading
<1> QED BY <1>1, <1>2, <1>3

LEMMA SessionInvStep ==
    ASSUME SessionInv, [Next]_vars
    PROVE  SessionInv'
<1>1. ASSUME NEW s \in Sessions, Step(s)
      PROVE  SessionInv'
    <2>1. CASE Open(s)
        BY <2>1, OpenKeeps
    <2>2. CASE Bootstrap(s)
        BY <2>2, BootstrapKeeps
    <2>3. CASE BootstrapFails(s) \/ Close(s)
        BY <2>3, CloseKeeps
    <2>4. CASE \E i \in CanvasIds, t \in Texts : CreateCanvas(s, i, t) \/ UpdateCanvas(s, i, t)
        BY <2>4, CanvasStepKeeps
    <2>5. CASE \E i \in CanvasIds : DeleteCanvas(s, i)
        BY <2>5, CanvasStepKeeps
    <2>6. CASE \E a \in Artifacts : BeginUpsert(s, a)
        BY <2>6, BeginUpsertKeeps
    <2>7. CASE CopyEntry(s)
        BY <2>7, CopyEntryKeeps
    <2>8. CASE Install(s)
        BY <2>8, InstallKeeps
    <2>9. CASE WriteFails(s) \/ Kill(s)
        BY <2>9, EndKeeps
    <2>10. CASE LaunchFindsNone(s) \/ LaunchFails(s)
        BY <2>10, LaunchKeeps
    <2>11. CASE LaunchCreates(s) \/ \E d \in Seeds : InitCreates(s, d)
        BY <2>11, CreatorsKeep
    <2> QED BY <1>1, <2>1, <2>2, <2>3, <2>4, <2>5, <2>6, <2>7, <2>8, <2>9, <2>10, <2>11 DEF Step
<1>2. CASE UNCHANGED vars
    BY <1>2 DEF vars, SessionInv, TypeOK, WholeOrNothing, Whole, DatabasesLoaded,
                OpenIsCurrent, WritersCopyWholes, ProjectIsThere
<1> QED BY <1>1, <1>2 DEF Next

LEMMA SessionInvariant == Spec => []SessionInv
BY SessionInvInit, SessionInvStep, PTL DEF Spec

(***************************************************************************)
(* The theorems                                                            *)
(***************************************************************************)
\* Every reachable state is well typed: what a process works on is a database.
THEOREM TypeCorrect == Spec => []TypeOK
<1>1. SessionInv => TypeOK
    BY DEF SessionInv
<1> QED BY <1>1, SessionInvariant, PTL

\* However many processes create, write, fail and are killed, there is either no
\* archive yet or one with its manifest and a database that was packed.
THEOREM ArchiveIsWhole == Spec => ArchiveStaysWhole
<1>1. SessionInv => WholeOrNothing
    BY DEF SessionInv
<1>2. SessionInv /\ [Next]_vars => [Whole => Whole']_vars
    <2>1. ASSUME SessionInv, NEW s \in Sessions, Step(s)
          PROVE  Whole => Whole'
        <3>1. CASE Install(s)
            BY <2>1, <3>1, InstalledIsWhole
        <3>2. CASE ~Install(s)
            BY <2>1, <3>2 DEF Step, Open, Bootstrap, BootstrapFails, Close, Kill, CreateCanvas,
               UpdateCanvas, DeleteCanvas, Work, LaunchFindsNone, LaunchCreates, LaunchFails,
               InitCreates, Create, BeginUpsert, CopyEntry, WriteFails, Whole
        <3> QED BY <3>1, <3>2
    <2> QED BY <2>1 DEF Next
<1> QED BY <1>1, <1>2, SessionInvariant, PTL DEF Spec, ArchiveStaysWhole

\* Whatever database was packed, an open session works on the current version with
\* every table, and if the canvases table is one this program made, no work of the
\* session makes it one that cannot be listed.
THEOREM SchemaIsCurrent == Spec => []OpenIsCurrent
<1>1. SessionInv => OpenIsCurrent
    BY DEF SessionInv, DatabasesLoaded
<1> QED BY <1>1, SessionInvariant, PTL

(***************************************************************************)
(* No file outlives its use                                                *)
(***************************************************************************)
LEMMA NoLitterStep ==
    ASSUME TypeOK, NoLitter, [Next]_vars
    PROVE  NoLitter'
<1> USE DEF TypeOK, NoLitter, Reading, MakingTemp
<1>1. ASSUME NEW s \in Sessions, Step(s)
      PROVE  NoLitter'
    <2>1. CASE Open(s)
        BY <2>1 DEF Open
    <2>2. CASE Bootstrap(s)
        BY <2>2 DEF Bootstrap, files
    <2>3. CASE BootstrapFails(s) \/ Close(s)
        BY <2>3 DEF BootstrapFails, Close
    <2>4. CASE LaunchFindsNone(s) \/ LaunchFails(s)
        BY <2>4 DEF LaunchFindsNone, LaunchFails, files
    <2>5. CASE LaunchCreates(s)
        BY <2>5 DEF LaunchCreates, Create
    <2>6. CASE \E d \in Seeds : InitCreates(s, d)
        BY <2>6 DEF InitCreates, Create
    <2>7. CASE \E a \in Artifacts : BeginUpsert(s, a)
        BY <2>7 DEF BeginUpsert
    <2>8. CASE Install(s) \/ WriteFails(s)
        BY <2>8 DEF Install, WriteFails, Afterwards, Done
    <2>9. CASE Kill(s)
        BY <2>9 DEF Kill, Done
    <2>10. CASE CopyEntry(s) \/ \E i \in CanvasIds : \/ \E t \in Texts : CreateCanvas(s, i, t) \/ UpdateCanvas(s, i, t)
                                                     \/ DeleteCanvas(s, i)
        BY <2>10 DEF CopyEntry, CreateCanvas, UpdateCanvas, DeleteCanvas, Work, files
    <2> QED BY <1>1, <2>1, <2>2, <2>3, <2>4, <2>5, <2>6, <2>7, <2>8, <2>9, <2>10 DEF Step
<1>2. CASE UNCHANGED vars
    BY <1>2 DEF vars
<1> QED BY <1>1, <1>2 DEF Next

\* Short of a kill no temporary file outlives its use.
THEOREM NothingIsLeft == Spec => []NoLitter
<1>1. Init => NoLitter
    BY DEF Init, NoLitter, Reading, MakingTemp
<1> QED BY <1>1, NoLitterStep, TypeCorrect, PTL DEF Spec

(***************************************************************************)
(* Only overtaken writers lose                                             *)
(***************************************************************************)
\* Who was not overtaken goes by what is there: a writer's snapshot is the archive,
\* and a launch that found no project still has none.
SeenIsThere ==
    \A s \in Sessions : s \notin overtaken =>
        /\ phase[s] = "writing" => snapshot[s] = archive
        /\ phase[s] \in {"missing", "launching"} => archive = Nothing

LEMMA SeenStep ==
    ASSUME TypeOK, SeenIsThere, [Next]_vars
    PROVE  SeenIsThere'
<1> USE DEF TypeOK, SeenIsThere
<1>1. ASSUME NEW s \in Sessions, Step(s)
      PROVE  SeenIsThere'
    <2>1. CASE Open(s)
        BY <2>1 DEF Open, writing
    <2>2. CASE Bootstrap(s) \/ BootstrapFails(s) \/ Close(s)
        BY <2>2 DEF Bootstrap, BootstrapFails, Close, writing
    <2>3. CASE LaunchFindsNone(s)
        BY <2>3 DEF LaunchFindsNone
    <2>4. CASE LaunchFails(s)
        BY <2>4 DEF LaunchFails, writing
    <2>5. CASE LaunchCreates(s)
        BY <2>5 DEF LaunchCreates, Create
    <2>6. CASE \E d \in Seeds : InitCreates(s, d)
        BY <2>6 DEF InitCreates, Create
    <2>7. CASE \E a \in Artifacts : BeginUpsert(s, a)
        BY <2>7 DEF BeginUpsert
    <2>8. CASE Install(s)
        <3>1. \A r \in Sessions \ {s} : phase'[r] = phase[r]
            BY <2>8 DEF Install, Afterwards
        <3>2. phase'[s] \in {"open", "closed"}
            BY <2>8 DEF Install, Afterwards
        <3> QED BY <2>8, <3>1, <3>2 DEF Install, Committed
    <2>9. CASE WriteFails(s)
        <3>1. \A r \in Sessions \ {s} : phase'[r] = phase[r] /\ snapshot'[r] = snapshot[r]
            BY <2>9 DEF WriteFails, Afterwards, Done
        <3>2. phase'[s] \in {"open", "closed"}
            BY <2>9 DEF WriteFails, Afterwards
        <3> QED BY <2>9, <3>1, <3>2 DEF WriteFails
    <2>10. CASE Kill(s)
        BY <2>10 DEF Kill, Done
    <2>11. CASE CopyEntry(s) \/ \E i \in CanvasIds : \/ \E t \in Texts : CreateCanvas(s, i, t) \/ UpdateCanvas(s, i, t)
                                                     \/ DeleteCanvas(s, i)
        BY <2>11 DEF CopyEntry, CreateCanvas, UpdateCanvas, DeleteCanvas, Work, writing
    <2> QED BY <1>1, <2>1, <2>2, <2>3, <2>4, <2>5, <2>6, <2>7, <2>8, <2>9, <2>10, <2>11 DEF Step
<1>2. CASE UNCHANGED vars
    BY <1>2 DEF vars
<1> QED BY <1>1, <1>2 DEF Next

\* What a writer installs differs from what it opened in its own artifact only.
LEMMA WrittenIsUpsert ==
    ASSUME SessionInv, NEW s \in Sessions, phase[s] = "writing", Install(s)
    PROVE  /\ archive'[job[s]] = s
           /\ \A e \in Entries \ {job[s]} : archive'[e] = snapshot[s][e]
<1>1. job[s] \in Entries /\ job[s] \in copied[s]
    BY DEF SessionInv, WritersCopyWholes, Entries, Install, ToCopy
<1>2. archive'[job[s]] = s
    BY <1>1 DEF Install, Written
<1>3. ASSUME NEW e \in Entries \ {job[s]} PROVE archive'[e] = snapshot[s][e]
    BY <1>3 DEF Install, Written, ToCopy
<1> QED BY <1>2, <1>3

\* A write that was not overtaken replaces its own artifact and no other, and a
\* launch that was not overtaken replaces nothing.
THEOREM OvertakenAlone == Spec => OnlyOvertakenWritersLose
<1> DEFINE Kept(s) ==
        s \notin overtaken /\ archive' # archive /\ phase'[s] # phase[s] =>
            /\ phase[s] = "launching" => archive = Nothing
            /\ phase[s] = "writing" =>
                /\ archive'[job[s]] = s
                /\ \A e \in Entries \ {job[s]} : archive'[e] = archive[e]
<1>1. Init => SeenIsThere
    BY DEF Init, SeenIsThere
<1>2. SessionInv => TypeOK
    BY DEF SessionInv
<1>3. SessionInv /\ SeenIsThere /\ [Next]_vars => [\A s \in Sessions : Kept(s)]_vars
    <2>1. ASSUME SessionInv, SeenIsThere, NEW r \in Sessions, Step(r), NEW s \in Sessions
          PROVE  Kept(s)
        <3>1. CASE archive' = archive
            BY <3>1
        <3>2. CASE archive' # archive
            <4>1. Install(r)
                BY <2>1, <3>2 DEF Step, Open, Bootstrap, BootstrapFails, Close, Kill, CreateCanvas,
                   UpdateCanvas, DeleteCanvas, Work, LaunchFindsNone, LaunchCreates, LaunchFails,
                   InitCreates, Create, BeginUpsert, CopyEntry, WriteFails
            <4>2. s # r => phase'[s] = phase[s]
                BY <2>1, <4>1 DEF Install, Afterwards, SessionInv, TypeOK
            <4>3. CASE s = r
                BY <2>1, <4>1, <4>3, WrittenIsUpsert DEF SeenIsThere
            <4> QED BY <4>2, <4>3
        <3> QED BY <3>1, <3>2
    <2> HIDE DEF Kept
    <2> QED BY <2>1 DEF Next
<1>4. OnlyOvertakenWritersLose <=> [][\A s \in Sessions : Kept(s)]_vars
    BY DEF OnlyOvertakenWritersLose
<1> HIDE DEF Kept
<1> QED BY <1>1, <1>2, <1>3, <1>4, SeenStep, SessionInvariant, PTL DEF Spec

(***************************************************************************)
(* What a session does to its copy stays there                             *)
(***************************************************************************)
\* The database in the archive is replaced only by whoever creates a project, or by
\* a writer that puts back the one it started from over one created since.
OnlyCreationPacks ==
    [][ archive'["data"] # archive["data"] =>
          \E s \in Sessions :
             /\ phase'[s] # phase[s]
             /\ \/ phase[s] \in {"launching", "initialising"}
                \/ phase[s] = "writing" /\ s \in overtaken /\ archive'["data"] = snapshot[s]["data"] ]_vars

\* No canvas work of any session, however it ends, reaches the archive: recording an
\* artifact, the one write a session makes, leaves the packed database alone.
THEOREM WorkStaysInTheCopy == Spec => OnlyCreationPacks
<1> DEFINE Replaced ==
        archive'["data"] # archive["data"] =>
          \E s \in Sessions :
             /\ phase'[s] # phase[s]
             /\ \/ phase[s] \in {"launching", "initialising"}
                \/ phase[s] = "writing" /\ s \in overtaken /\ archive'["data"] = snapshot[s]["data"]
<1>1. Init => SeenIsThere
    BY DEF Init, SeenIsThere
<1>2. SessionInv /\ SeenIsThere /\ [Next]_vars => [Replaced]_vars
    <2> SUFFICES ASSUME SessionInv, SeenIsThere, NEW s \in Sessions, Step(s),
                        archive'["data"] # archive["data"]
                 PROVE  Replaced
        BY DEF Next
    <2>1. Install(s)
        BY DEF Step, Open, Bootstrap, BootstrapFails, Close, Kill, CreateCanvas,
           UpdateCanvas, DeleteCanvas, Work, LaunchFindsNone, LaunchCreates, LaunchFails,
           InitCreates, Create, BeginUpsert, CopyEntry, WriteFails
    <2>2. phase[s] \in MakingTemp /\ phase'[s] # phase[s]
        BY <2>1 DEF Install, Afterwards, SessionInv, TypeOK, MakingTemp
    <2>3. CASE phase[s] # "writing"
        BY <2>2, <2>3 DEF MakingTemp
    <2>4. CASE phase[s] = "writing"
        <3>1. job[s] \in Artifacts /\ snapshot[s]["data"] \in Databases
            BY <2>2, <2>4 DEF SessionInv, WritersCopyWholes
        <3>2. job[s] # "data" /\ "data" \in Entries
            BY <3>1 DEF Entries
        <3>3. archive'["data"] = snapshot[s]["data"]
            BY <2>1, <3>1, <3>2 DEF Install, Written, ToCopy
        <3>4. s \in overtaken
            BY <2>1, <2>4, <3>2, WrittenIsUpsert DEF SeenIsThere
        <3> QED BY <2>2, <2>4, <3>3, <3>4
    <2> QED BY <2>3, <2>4
<1>3. OnlyCreationPacks <=> [][Replaced]_vars
    BY DEF OnlyCreationPacks
<1>4. SessionInv => TypeOK
    BY DEF SessionInv
<1> HIDE DEF Replaced
<1> QED BY <1>1, <1>2, <1>3, <1>4, SeenStep, SessionInvariant, PTL DEF Spec

(***************************************************************************)
(* Opening mends the listing                                               *)
(***************************************************************************)
\* The bootstrap of a session makes no listing of canvases stop working, and makes it
\* work for a database without canvases or still to be migrated.
THEOREM ListingIsMended == Spec => OpeningMendsTheListing
<1> DEFINE Kept(s) ==
        phase[s] = "opening" /\ phase'[s] = "open" =>
            (Listable(db[s]) \/ "canvases" \notin db[s].tables \/ IsOldest(db[s])
                => Listable(db'[s]))
<1>1. SessionInv /\ [Next]_vars => [\A s \in Sessions : Kept(s)]_vars
    <2>1. ASSUME SessionInv, NEW r \in Sessions, Step(r), NEW s \in Sessions,
                 phase[s] = "opening", phase'[s] = "open"
          PROVE  Listable(db[s]) \/ "canvases" \notin db[s].tables \/ IsOldest(db[s])
                     => Listable(db'[s])
        <3>1. Bootstrap(s)
            BY <2>1 DEF Step, Open, Bootstrap, BootstrapFails, Close, Kill, CreateCanvas,
               UpdateCanvas, DeleteCanvas, Work, LaunchFindsNone, LaunchCreates, LaunchFails,
               InitCreates, Create, BeginUpsert, CopyEntry, Install, WriteFails, Afterwards,
               MakingTemp, SessionInv, TypeOK
        <3>2. db[s] \in Databases /\ db'[s] = EnsureSchema(db[s])
            BY <2>1, <3>1 DEF Bootstrap, SessionInv, DatabasesLoaded, TypeOK
        <3> QED BY <3>2, BootstrapMends
    <2>2. ASSUME SessionInv, NEW r \in Sessions, Step(r), NEW s \in Sessions
          PROVE  Kept(s)
        BY <2>1, <2>2
    <2> HIDE DEF Kept
    <2> QED BY <2>2 DEF Next
<1>2. OpeningMendsTheListing <=> [][\A s \in Sessions : Kept(s)]_vars
    BY DEF OpeningMendsTheListing
<1> HIDE DEF Kept
<1> QED BY <1>1, <1>2, SessionInvariant, PTL DEF Spec

=============================================================================
