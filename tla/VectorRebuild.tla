--------------------------- MODULE VectorRebuild ---------------------------
(***************************************************************************)
(* Rebuilding a vector field: VectorRebuildService, VectorBuildService and *)
(* IsVectorIndexStale (internal/vector), on the table and the field record *)
(* they read and write (internal/catalog/vector.go).                       *)
(*                                                                         *)
(* A rebuild is a sequence of statements on a shared database, with a call *)
(* to an embedding provider between them and no transaction around them.   *)
(* SQL of other callers, and other rebuilds, run in between.               *)
(*                                                                         *)
(* An embedding is represented by the text it embeds.  The clock counts    *)
(* the moments at which texts change; whoever changes a text sets the      *)
(* row's updated_at, as the rebuild expects of a table that has one.       *)
(***************************************************************************)
EXTENDS Naturals

CONSTANTS
    Rows,
    Texts,
    None,       \* a NULL or blank text; no vector
    Jobs,       \* rebuilds that may run at once
    Window,     \* StaleAfterHours, in ticks of the clock
    MaxClock    \* bound

ASSUME VectorAssumption ==
    /\ Rows # {}
    /\ None \notin Texts
    /\ Window \in Nat \ {0}
    /\ MaxClock \in Nat \ {0}

VARIABLES
    now,
    text, updatedAt, vector,    \* the columns of the table
    indexedAt,                  \* the field's last_indexed_at; 0 is the zero time
    job,                        \* what each rebuild knows
    clean,      \* history: whole rebuilds that had the table to themselves, so far
    trusted     \* history: indexedAt was recorded by such a rebuild

table == <<text, updatedAt, vector>>
vars == <<now, table, indexedAt, job, clean, trusted>>

Clock == 0 .. MaxClock

Job == [stage : {"idle", "field", "texts", "newest", "built", "stored"},
        scope : SUBSET Rows,                    \* the rows the filter selects
        force : BOOLEAN,
        indexed : Clock,                        \* the record it read
        texts : [Rows -> Texts \cup {None}],    \* the texts it read
        newest : Clock,                         \* MAX(updated_at)
        stamp : Clock]                          \* the time it will record

NoTexts == [r \in Rows |-> None]

Idle == [stage |-> "idle", scope |-> {}, force |-> FALSE, indexed |-> 0,
         texts |-> NoTexts, newest |-> 0, stamp |-> 0]

Running(j) == job[j].stage # "idle"

TypeOK ==
    /\ now \in Clock
    /\ text \in [Rows -> Texts \cup {None}]
    /\ updatedAt \in [Rows -> Clock]
    /\ vector \in [Rows -> Texts \cup {None}]
    /\ indexedAt \in Clock
    /\ job \in [Jobs -> Job]
    /\ clean \subseteq Jobs
    /\ trusted \in BOOLEAN

Init ==
    /\ now = 1
    /\ text \in [Rows -> Texts \cup {None}]
    /\ updatedAt = [r \in Rows |-> 1]
    /\ vector = [r \in Rows |-> None]
    /\ indexedAt = 0
    /\ job = [j \in Jobs |-> Idle]
    /\ clean = {}
    /\ trusted = FALSE

(***************************************************************************)
(* The rest of the world                                                   *)
(***************************************************************************)
\* Somebody's SQL changes a text.
Update(r, t) ==
    /\ now < MaxClock
    /\ t # text[r]
    /\ now' = now + 1
    /\ text' = [text EXCEPT ![r] = t]
    /\ updatedAt' = [updatedAt EXCEPT ![r] = now']
    /\ clean' = {j \in clean : job[j].stage \notin {"texts", "newest"}}
    /\ UNCHANGED <<vector, indexedAt, job, trusted>>

Elapse ==
    /\ now < MaxClock
    /\ now' = now + 1
    /\ UNCHANGED <<table, indexedAt, job, clean, trusted>>

(***************************************************************************)
(* A rebuild                                                               *)
(***************************************************************************)
IsStale(last, source, at) ==
    \/ last = 0
    \/ source > last
    \/ at >= last + Window

\* Only a forced rebuild has a filter: `UPDATE ... VECTORIZE ... WHERE`.
Begin(j, scope, force) ==
    /\ ~Running(j)
    /\ scope = Rows \/ force
    /\ job' = [job EXCEPT ![j] = [Idle EXCEPT !.stage = "field", !.scope = scope,
                                              !.force = force, !.indexed = indexedAt]]
    /\ clean' = IF scope = Rows /\ \A k \in Jobs \ {j} : ~Running(k) THEN {j} ELSE {}
    /\ UNCHANGED <<now, table, indexedAt, trusted>>

ReadTexts(j) ==
    /\ job[j].stage = "field"
    /\ job' = [job EXCEPT ![j].stage = "texts",
                          ![j].texts = [r \in Rows |-> IF r \in job[j].scope
                                                       THEN text[r] ELSE None]]
    /\ UNCHANGED <<now, table, indexedAt, clean, trusted>>

IsNewest(n) ==
    /\ \E r \in Rows : updatedAt[r] = n
    /\ \A r \in Rows : updatedAt[r] <= n

\* A second statement, and of the whole table whatever the filter was.
ReadNewest(j) ==
    /\ job[j].stage = "texts"
    /\ \E n \in Clock :
           /\ IsNewest(n)
           /\ job' = [job EXCEPT ![j].stage = "newest", ![j].newest = n]
    /\ UNCHANGED <<now, table, indexedAt, clean, trusted>>

ShouldBuild(j) == job[j].force \/ IsStale(job[j].indexed, job[j].newest, now)

Finish(j) ==
    /\ job' = [job EXCEPT ![j] = Idle]
    /\ clean' = clean \ {j}

\* The answer is "not stale".
Skip(j) ==
    /\ job[j].stage = "newest"
    /\ ~ShouldBuild(j)
    /\ Finish(j)
    /\ UNCHANGED <<now, table, indexedAt, trusted>>

\* The time is taken before the provider is called, once for all batches; the
\* vectors are kept until the last batch is there.  What the decision was made
\* from has served.
Build(j) ==
    /\ job[j].stage = "newest"
    /\ ShouldBuild(j)
    /\ job' = [job EXCEPT ![j] = [Idle EXCEPT !.stage = "built", !.scope = job[j].scope,
                                              !.texts = job[j].texts, !.stamp = now]]
    /\ UNCHANGED <<now, table, indexedAt, clean, trusted>>

\* Mutant: a row that has a vector keeps it.
PersistMissing(j) ==
    /\ job[j].stage = "built"
    /\ vector' = [r \in Rows |-> IF job[j].texts[r] # None /\ vector[r] = None
                                 THEN job[j].texts[r] ELSE vector[r]]
    /\ job' = [job EXCEPT ![j].stage = "stored"]
    /\ UNCHANGED <<now, text, updatedAt, indexedAt, clean, trusted>>

\* Mutant: the column is written anew, from the rows of the filter alone.
PersistScope(j) ==
    /\ job[j].stage = "built"
    /\ vector' = [r \in job[j].scope |-> job[j].texts[r]]
    /\ job' = [job EXCEPT ![j].stage = "stored"]
    /\ UNCHANGED <<now, text, updatedAt, indexedAt, clean, trusted>>

\* One transaction.  A row whose text has become blank keeps its old vector.
Persist(j) ==
    /\ job[j].stage = "built"
    /\ vector' = [r \in Rows |-> IF job[j].texts[r] # None
                                 THEN job[j].texts[r] ELSE vector[r]]
    /\ job' = [job EXCEPT ![j].stage = "stored"]
    /\ UNCHANGED <<now, text, updatedAt, indexedAt, clean, trusted>>

\* Mutant: the time of recording, not the time the build was decided.
RecordLate(j) ==
    /\ job[j].stage = "stored"
    /\ indexedAt' = now
    /\ trusted' = (j \in clean)
    /\ Finish(j)
    /\ UNCHANGED <<now, table>>

\* The field's record is written back, stamped.
Record(j) ==
    /\ job[j].stage = "stored"
    /\ indexedAt' = job[j].stamp
    /\ trusted' = (j \in clean)
    /\ Finish(j)
    /\ UNCHANGED <<now, table>>

\* Any statement or the provider fails; what is stored stays.
Fail(j) ==
    /\ Running(j)
    /\ Finish(j)
    /\ UNCHANGED <<now, table, indexedAt, trusted>>

Proceed(j) ==
    \/ ReadTexts(j) \/ ReadNewest(j) \/ Skip(j) \/ Build(j)
    \/ Persist(j) \/ Record(j) \/ Fail(j)

Next ==
    \/ \E r \in Rows, t \in Texts \cup {None} : Update(r, t)
    \/ Elapse
    \/ \E j \in Jobs : \/ \E scope \in SUBSET Rows, force \in BOOLEAN : Begin(j, scope, force)
                       \/ Proceed(j)

Spec == Init /\ [][Next]_vars

\* Every statement returns, and a call of the provider ends by its timeout.
FairSpec == Spec /\ \A j \in Jobs : WF_vars(Proceed(j))

(***************************************************************************)
(* Properties                                                              *)
(***************************************************************************)
Covered == \A r \in Rows : text[r] # None => vector[r] = text[r]

LooksFresh == \E n \in Clock : IsNewest(n) /\ ~IsStale(indexedAt, n, now)

\* After a rebuild of the whole table that ran alone and under which no text
\* changed before it took the time, the staleness check can be relied on: as
\* long as it says "not stale", every text has its own vector.  That holds
\* through whatever later rebuilds do short of recording: filtered ones, those
\* that fail half way, those that started with older texts.
FreshMeansCovered == trusted /\ LooksFresh => Covered

\* Rebuilds that overlap or read old texts do their damage only for a while: if
\* rebuilds of the whole table keep succeeding, the vectors are those of the
\* texts in the end, and stay so.  (The clock, and so the changes, are bounded.)
RepeatedBuildsConverge ==
    []<><<\E j \in Jobs : job[j].scope = Rows /\ Record(j)>>_vars => <>[]Covered

(***************************************************************************)
(* Claims of the documents that the code does not keep                     *)
(***************************************************************************)
\* "Add stale-index detection and rebuild controls": with no rebuild running, an
\* index that lacks a text is reported stale.
StaleIndexIsDetected ==
    (\A j \in Jobs : ~Running(j)) /\ LooksFresh => Covered

=============================================================================
