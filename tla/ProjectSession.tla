--------------------------- MODULE ProjectSession ---------------------------
(***************************************************************************)
(* Sessions on a .qdb project: the archive (internal/project/pack.go), the *)
(* private copy of its database every process works on                     *)
(* (openProjectDatabase in cmd/quackcess/main.go) and the catalogue        *)
(* bootstrap that brings the copy to the current schema (internal/db).     *)
(*                                                                         *)
(* A session is a process running `open` or `mcp`, or the program without  *)
(* a command, which first makes the default workspace if it finds none; a  *)
(* process may also run `init`.  Processes share nothing but the archive   *)
(* file, which they replace by renaming a temporary file over it.  A       *)
(* process may be killed at any moment; the files it leaves behind have    *)
(* random names, so no later process meets them.                           *)
(* The statements of one bootstrap are a single step: they work on a file  *)
(* no other process knows, and it is removed if any of them fails.         *)
(***************************************************************************)
EXTENDS Naturals, FiniteSets

CONSTANTS
    Sessions,
    Artifacts,      \* paths of the vector operations the shell records
    CanvasIds,
    Texts,          \* canvas specs
    None,           \* no entry, no row, no database
    Databases,      \* databases `init` may have packed
    Seeds,          \* those it may be given while sessions run
    Fresh,          \* what it packs when it is given none
    Manifest        \* the manifest entry's contents

Versions == {"", "0.0.0", "1.0.0", "1.1.0", "1.2.0", "2.0.0"}
CurrentVersion == "1.2.0"
Tables == {"meta", "tables", "columns", "relationships", "views", "canvases",
           "vector_fields", "query_history"}
AddedColumns == {"version", "source_ref", "updated_at"}

\* A database: schema version, catalogue tables, which of the columns added to
\* the canvases table over time it has, whether that table is declared as this
\* program declares it, updated_at being NOT NULL and having a default, the canvases,
\* and those whose updated_at is not NULL.
Db == [version : Versions, tables : SUBSET Tables, columns : SUBSET AddedColumns,
       defaulted : BOOLEAN, canvases : [CanvasIds -> Texts \cup {None}],
       dated : SUBSET CanvasIds]

Entries == {"manifest", "data"} \cup Artifacts

ASSUME SessionAssumption ==
    /\ Databases \subseteq Db
    /\ Seeds \subseteq Databases
    /\ Fresh \in Databases
    /\ None \notin Texts \cup Db \cup Sessions \cup Artifacts
    /\ {"manifest", "data"} \cap Artifacts = {}
    /\ Manifest # None

VARIABLES
    archive,        \* the entries of the .qdb file
    phase,          \* what each process is doing
    db,             \* the database a process works on
    job,            \* the artifact it is writing, if any
    snapshot,       \* the entries it copies: of the archive it opened, or new ones
    copied,         \* the entries it has written to its temporary archive
    tempDbs,        \* sessions with a temporary database file
    tempArchives,   \* sessions with a temporary archive file
    overtaken       \* history: what it saw of the archive is no longer so

vars == <<archive, phase, db, job, snapshot, copied, tempDbs, tempArchives, overtaken>>
files == <<tempDbs, tempArchives>>
writing == <<job, snapshot, copied, overtaken>>

Present(d) == {i \in CanvasIds : d.canvases[i] # None}

(***************************************************************************)
(* Bootstrap: ensureSchema and the statements it runs                      *)
(***************************************************************************)
\* CREATE TABLE IF NOT EXISTS: a canvases table that is there keeps its columns.
CreateBaseSchema(d) ==
    LET new == "canvases" \notin d.tables
    IN  [d EXCEPT !.tables = Tables,
                  !.columns = IF new THEN AddedColumns ELSE @,
                  !.defaulted = new \/ @]

\* Mutant: rows already there keep the NULL of the added column.
MigrateUnfilled(d) == [d EXCEPT !.columns = AddedColumns]

\* Columns are added without a default; existing rows are filled afterwards.
MigrateCanvasesTo11(d) ==
    LET needsFill == ~({"version", "updated_at"} \subseteq d.columns)
    IN  [d EXCEPT !.columns = AddedColumns,
                  !.dated = IF needsFill THEN Present(d) ELSE @]

\* Mutant: a version no release ever had.
SetSchemaVersionShort(d) == [d EXCEPT !.version = "1.2"]

SetSchemaVersion(d) == [d EXCEPT !.version = CurrentVersion]

Supported(d) == d.version # "2.0.0"

\* Mutant: what is at the version before is only stamped.
EnsureSchemaStamps(d) ==
    CASE d.version = CurrentVersion -> CreateBaseSchema(d)
      [] d.version = "1.0.0" -> SetSchemaVersion(MigrateCanvasesTo11(CreateBaseSchema(d)))
      [] d.version = "1.1.0" -> SetSchemaVersion(d)
      [] OTHER -> SetSchemaVersion(CreateBaseSchema(d))

EnsureSchema(d) ==
    CASE d.version = CurrentVersion -> CreateBaseSchema(d)
      [] d.version = "1.0.0" -> SetSchemaVersion(MigrateCanvasesTo11(CreateBaseSchema(d)))
      [] OTHER -> SetSchemaVersion(CreateBaseSchema(d))

\* What `init` packs may come from anywhere, but it is a database: there are no
\* columns and no rows without a table, no dates without a column, and no NULL
\* where the table does not allow it.
ASSUME DatabaseAssumption ==
    \A d \in Databases :
        /\ d.dated \subseteq Present(d)
        /\ "canvases" \notin d.tables => d.columns = {} /\ ~ d.defaulted /\ Present(d) = {}
        /\ "updated_at" \notin d.columns => d.dated = {}
        /\ d.defaulted => d.columns = AddedColumns /\ Present(d) \subseteq d.dated

(***************************************************************************)
(* The processes                                                           *)
(***************************************************************************)
Reading == {"opening", "open", "writing"}
MakingTemp == {"writing", "launching", "initialising"}
Phases == {"closed", "missing"} \cup Reading \cup MakingTemp

TypeOK ==
    /\ archive \in [Entries -> {Manifest, None} \cup Db \cup Sessions]
    /\ phase \in [Sessions -> Phases]
    /\ db \in [Sessions -> Db \cup {None}]
    /\ job \in [Sessions -> Artifacts \cup {None}]
    /\ snapshot \in [Sessions -> {None} \cup [Entries -> {Manifest, None} \cup Db \cup Sessions]]
    /\ copied \in [Sessions -> SUBSET Entries]
    /\ tempDbs \subseteq Sessions
    /\ tempArchives \subseteq Sessions
    /\ overtaken \subseteq Sessions

Nothing == [e \in Entries |-> None]

\* What project.Create packs: `init` gives it no artifacts.
NewProject(d) == [e \in Entries |-> CASE e = "manifest" -> Manifest
                                      [] e = "data" -> d
                                      [] OTHER -> None]

Init ==
    /\ archive \in {Nothing} \cup {NewProject(d) : d \in Databases}
    /\ phase = [s \in Sessions |-> "closed"]
    /\ db = [s \in Sessions |-> None]
    /\ job = [s \in Sessions |-> None]
    /\ snapshot = [s \in Sessions |-> None]
    /\ copied = [s \in Sessions |-> {}]
    /\ tempDbs = {}
    /\ tempArchives = {}
    /\ overtaken = {}

\* project.Open checks the archive; openProjectDatabase copies the data file.
Open(s) ==
    /\ phase[s] = "closed"
    /\ archive["manifest"] # None
    /\ archive["data"] # None
    /\ phase' = [phase EXCEPT ![s] = "opening"]
    /\ db' = [db EXCEPT ![s] = archive["data"]]
    /\ tempDbs' = tempDbs \cup {s}
    /\ UNCHANGED <<archive, writing, tempArchives>>

Bootstrap(s) ==
    /\ phase[s] = "opening"
    /\ Supported(db[s])
    /\ phase' = [phase EXCEPT ![s] = "open"]
    /\ db' = [db EXCEPT ![s] = EnsureSchema(@)]
    /\ UNCHANGED <<archive, writing, files>>

\* Mutant: an error of the bootstrap leaves the temporary file.
BootstrapFailsLitters(s) ==
    /\ phase[s] = "opening"
    /\ phase' = [phase EXCEPT ![s] = "closed"]
    /\ db' = [db EXCEPT ![s] = None]
    /\ UNCHANGED <<archive, writing, files>>

\* The version is unknown, or any statement fails.
BootstrapFails(s) ==
    /\ phase[s] = "opening"
    /\ phase' = [phase EXCEPT ![s] = "closed"]
    /\ db' = [db EXCEPT ![s] = None]
    /\ tempDbs' = tempDbs \ {s}
    /\ UNCHANGED <<archive, writing, tempArchives>>

(***************************************************************************)
(* Canvas work reaches the session's copy and nothing else.                *)
(***************************************************************************)
Work(s, d) ==
    /\ db' = [db EXCEPT ![s] = d]
    /\ UNCHANGED <<archive, phase, writing, files>>

\* CanvasRepository.Create names no updated_at.  Where there is none the row is
\* made, although the service cannot read it back and reports an error.
CreateCanvas(s, i, t) ==
    /\ phase[s] = "open"
    /\ {"version", "source_ref"} \subseteq db[s].columns
    /\ i \notin Present(db[s])
    /\ Work(s, [db[s] EXCEPT !.canvases[i] = t,
                             !.dated = IF db[s].defaulted THEN @ \cup {i} ELSE @])

\* CanvasRepository.Update sets it.  The canvas is looked up first, by a statement
\* that names every column.
UpdateCanvas(s, i, t) ==
    /\ phase[s] = "open"
    /\ db[s].columns = AddedColumns
    /\ i \in Present(db[s])
    /\ Work(s, [db[s] EXCEPT !.canvases[i] = t, !.dated = @ \cup {i}])

DeleteCanvas(s, i) ==
    /\ phase[s] = "open"
    /\ db[s].columns = AddedColumns
    /\ i \in Present(db[s])
    /\ Work(s, [db[s] EXCEPT !.canvases[i] = None, !.dated = @ \ {i}])

(***************************************************************************)
(* The default workspace, and `init`                                       *)
(***************************************************************************)
\* runDefaultWorkspaceLaunch: Stat finds no file.  When it finds one, the launch
\* is an Open.
LaunchFindsNone(s) ==
    /\ phase[s] = "closed"
    /\ archive = Nothing
    /\ phase' = [phase EXCEPT ![s] = "missing"]
    /\ overtaken' = overtaken \ {s}
    /\ UNCHANGED <<archive, db, job, snapshot, copied, files>>

\* project.Create up to the first entry; it does not ask whether there is a file.
Create(s, stage, d) ==
    /\ phase' = [phase EXCEPT ![s] = stage]
    /\ snapshot' = [snapshot EXCEPT ![s] = NewProject(d)]
    /\ copied' = [copied EXCEPT ![s] = {}]
    /\ tempArchives' = tempArchives \cup {s}
    /\ UNCHANGED <<archive, db, job, tempDbs, overtaken>>

LaunchCreates(s) == phase[s] = "missing" /\ Create(s, "launching", Fresh)

\* A source that cannot be read, or no room for the database.
LaunchFails(s) ==
    /\ phase[s] = "missing"
    /\ phase' = [phase EXCEPT ![s] = "closed"]
    /\ UNCHANGED <<archive, db, writing, files>>

InitCreates(s, d) == phase[s] = "closed" /\ Create(s, "initialising", d)

(***************************************************************************)
(* UpsertArtifact: copy the archive entry by entry, then rename.           *)
(***************************************************************************)
\* The reader keeps the file it opened, whatever is renamed over it later.
BeginUpsert(s, a) ==
    /\ phase[s] = "open"
    /\ phase' = [phase EXCEPT ![s] = "writing"]
    /\ job' = [job EXCEPT ![s] = a]
    /\ snapshot' = [snapshot EXCEPT ![s] = archive]
    /\ copied' = [copied EXCEPT ![s] = {}]
    /\ tempArchives' = tempArchives \cup {s}
    /\ overtaken' = overtaken \ {s}
    /\ UNCHANGED <<archive, db, tempDbs>>

\* Mutant: only the required entries and the new one are copied.
ToCopyRequired(s) == {e \in Entries : e \in {"manifest", "data", job[s]}}

ToCopy(s) == {e \in Entries : e = job[s] \/ snapshot[s][e] # None}

\* One round of the loops in the bodies that Create and UpsertArtifact give to
\* writeZipAtomically.
CopyEntry(s) ==
    /\ phase[s] \in MakingTemp
    /\ \E e \in ToCopy(s) \ copied[s] : copied' = [copied EXCEPT ![s] = @ \cup {e}]
    /\ UNCHANGED <<archive, phase, db, job, snapshot, files, overtaken>>

Written(s) == [e \in Entries |->
                  IF e \notin copied[s] THEN None
                  ELSE IF e = job[s] THEN s ELSE snapshot[s][e]]

\* Those who go by what they saw of the archive.
Committed == {s \in Sessions : phase[s] \in {"missing", "launching", "writing"}}

\* A session goes on; `init` is over, and the open that a launch goes on with is
\* an Open like any other.
Afterwards(s) == [phase EXCEPT ![s] = IF @ = "writing" THEN "open" ELSE "closed"]

Done(s) ==
    /\ job' = [job EXCEPT ![s] = None]
    /\ snapshot' = [snapshot EXCEPT ![s] = None]
    /\ copied' = [copied EXCEPT ![s] = {}]
    /\ tempArchives' = tempArchives \ {s}

\* Mutant: the rename does not depend on the body having been written.
InstallEarly(s) ==
    /\ phase[s] \in MakingTemp
    /\ archive' = Written(s)
    /\ phase' = Afterwards(s)
    /\ Done(s)
    /\ overtaken' = overtaken \cup (Committed \ {s})
    /\ UNCHANGED <<db, tempDbs>>

\* The rename at the end of writeZipAtomically.
Install(s) ==
    /\ phase[s] \in MakingTemp
    /\ copied[s] = ToCopy(s)
    /\ archive' = Written(s)
    /\ phase' = Afterwards(s)
    /\ Done(s)
    /\ overtaken' = overtaken \cup (Committed \ {s})
    /\ UNCHANGED <<db, tempDbs>>

\* A read, a write or the rename fails: the deferred removal runs.
WriteFails(s) ==
    /\ phase[s] \in MakingTemp
    /\ phase' = Afterwards(s)
    /\ Done(s)
    /\ UNCHANGED <<archive, db, tempDbs, overtaken>>

\* The deferred Close and cleanup of runOpen and runMCPServer.
Close(s) ==
    /\ phase[s] = "open"
    /\ phase' = [phase EXCEPT ![s] = "closed"]
    /\ db' = [db EXCEPT ![s] = None]
    /\ tempDbs' = tempDbs \ {s}
    /\ UNCHANGED <<archive, writing, tempArchives>>

\* The process is killed; no deferred function runs.  It may be started again.
Kill(s) ==
    /\ phase[s] # "closed"
    /\ phase' = [phase EXCEPT ![s] = "closed"]
    /\ db' = [db EXCEPT ![s] = None]
    /\ Done(s)
    /\ tempDbs' = tempDbs \ {s}
    /\ UNCHANGED <<archive, overtaken>>

Step(s) ==
    \/ Open(s) \/ Bootstrap(s) \/ BootstrapFails(s) \/ Close(s) \/ Kill(s)
    \/ \E i \in CanvasIds : \/ \E t \in Texts : CreateCanvas(s, i, t) \/ UpdateCanvas(s, i, t)
                            \/ DeleteCanvas(s, i)
    \/ LaunchFindsNone(s) \/ LaunchCreates(s) \/ LaunchFails(s)
    \/ \E d \in Seeds : InitCreates(s, d)
    \/ \E a \in Artifacts : BeginUpsert(s, a)
    \/ CopyEntry(s) \/ Install(s) \/ WriteFails(s)

Next == \E s \in Sessions : Step(s)

Spec == Init /\ [][Next]_vars

(***************************************************************************)
(* Properties                                                              *)
(***************************************************************************)
\* CanvasRepository.List names every column and scans updated_at into a time.
Listable(d) == d.columns = AddedColumns /\ Present(d) \subseteq d.dated

\* Whatever was packed, a session that is open works on a catalogue of the current
\* version with every table.  If the canvases table is one this program made, the
\* listing can read every canvas in it, whatever was created, changed and deleted.
OpenIsCurrent ==
    \A s \in Sessions : phase[s] \in {"open", "writing"} =>
        /\ db[s].version = CurrentVersion
        /\ db[s].tables = Tables
        /\ db[s].defaulted => Listable(db[s])

\* A catalogue that lacks what the migration from 1.0.0 adds and fills.
IsOldest(d) == d.version = "1.0.0" /\ ~ ({"version", "updated_at"} \subseteq d.columns)

\* Opening a project never costs it a listing of canvases that works, and makes it
\* work for every catalogue without canvases and every one that is to be migrated.
OpeningMendsTheListing ==
    [][ \A s \in Sessions : phase[s] = "opening" /\ phase'[s] = "open" =>
            (Listable(db[s]) \/ "canvases" \notin db[s].tables \/ IsOldest(db[s])
                => Listable(db'[s])) ]_vars

Whole == archive["manifest"] = Manifest /\ archive["data"] \in Databases

WholeOrNothing == Whole \/ archive = Nothing

\* Processes killed or failing in the middle of a write, alone or while others
\* write or create the project too, never leave half a project, and never cost
\* one that is there its manifest or its database: there is no archive yet, or
\* one that can be opened and has a database that was packed, and then for good.
ArchiveStaysWhole ==
    /\ []WholeOrNothing
    /\ [][Whole => Whole']_vars

\* A write replaces its own artifact and no other, and a launch that creates the
\* default workspace replaces nothing, unless someone else replaced the archive
\* after the writer opened it or the launch found none.
OnlyOvertakenWritersLose ==
    [][ \A s \in Sessions :
            s \notin overtaken /\ archive' # archive /\ phase'[s] # phase[s] =>
            /\ phase[s] = "launching" => archive = Nothing
            /\ phase[s] = "writing" =>
                /\ archive'[job[s]] = s
                /\ \A e \in Entries \ {job[s]} : archive'[e] = archive[e] ]_vars

\* Short of a kill no temporary file outlives its use: whatever path a process
\* takes through creating, open, a failed open, a failed write and close, none
\* is left.
NoLitter ==
    \A s \in Sessions :
        /\ s \in tempDbs <=> phase[s] \in Reading
        /\ s \in tempArchives <=> phase[s] \in MakingTemp

(***************************************************************************)
(* Claims of the documents that the code does not keep                     *)
(***************************************************************************)
\* "Persist project state using `.qdb` package format": the canvases of a
\* session that ends normally are in the archive.
ClosingKeepsCanvases ==
    [][ \A s \in Sessions : phase[s] = "open" /\ phase'[s] = "closed" =>
            archive'["data"].canvases = db[s].canvases ]_vars

\* "Add migration-safe `canvases` metadata columns": CanvasRepository.List reads
\* every canvas of an open project.
EveryCanvasIsListed ==
    \A s \in Sessions : phase[s] = "open" => Listable(db[s])

=============================================================================
