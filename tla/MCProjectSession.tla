-------------------------- MODULE MCProjectSession --------------------------
(***************************************************************************)
(* Instances of ProjectSession for TLC: two processes, and databases of    *)
(* every schema version the program has had or refuses.                    *)
(***************************************************************************)
EXTENDS ProjectSession, TLC

CONSTANTS c1, t1

MCCanvasIds == {c1}
NoCanvases == [i \in MCCanvasIds |-> None]
OneCanvas == [NoCanvases EXCEPT ![c1] = t1]

\* What `init` packs when it is given no database.
EmptyDb == [version |-> "", tables |-> {}, columns |-> {}, defaulted |-> FALSE,
            canvases |-> NoCanvases, dated |-> {}]

\* The canvases table of schema 1.0.0 had none of the added columns.
OldDb(rows) == [version |-> "1.0.0", tables |-> {"meta", "canvases"}, columns |-> {},
                defaulted |-> FALSE, canvases |-> rows, dated |-> {}]

\* One of schema 1.1.0 with the canvases table of 1.0.0, as a test of the bootstrap
\* makes it.
LegacyDb(rows) == [OldDb(rows) EXCEPT !.version = "1.1.0"]

\* One that was migrated from 1.0.0, with a canvas created since.
MigratedDb == [version |-> "1.2.0", tables |-> Tables, columns |-> AddedColumns,
               defaulted |-> FALSE, canvases |-> OneCanvas, dated |-> {}]

FullDb(version, rows) ==
    [version |-> version, tables |-> Tables, columns |-> AddedColumns, defaulted |-> TRUE,
     canvases |-> rows, dated |-> {i \in MCCanvasIds : rows[i] # None}]

MCDatabases ==
    {EmptyDb, OldDb(OneCanvas), [FullDb("1.1.0", OneCanvas) EXCEPT !.tables = @ \ {"vector_fields"}],
     LegacyDb(OneCanvas), MigratedDb, FullDb("2.0.0", OneCanvas)}

OldDatabases == {EmptyDb, OldDb(NoCanvases)}

MCSeeds == {EmptyDb}

Symmetry == Permutations(Sessions) \cup Permutations(Artifacts)

=============================================================================
