------------------------ MODULE VectorRebuild_proofs ------------------------
(***************************************************************************)
(* Theorems about rebuilds, for any table, texts, window and number of     *)
(* rebuilds at once.                                                       *)
(***************************************************************************)
EXTENDS VectorRebuild, TLAPS

USE VectorAssumption DEF VectorAssumption, Clock

(***************************************************************************)
(* Types                                                                   *)
(***************************************************************************)
LEMMA IdleIsTyped == Idle \in Job /\ Idle.stage = "idle"
BY DEF Idle, Job, NoTexts

\* Records stay records when single fields are given other values.
LEMMA JobWithStage ==
    ASSUME NEW x \in Job, NEW st \in {"idle", "field", "texts", "newest", "built", "stored"}
    PROVE  [x EXCEPT !.stage = st] \in Job
BY DEF Job

LEMMA JobThatBegins ==
    ASSUME NEW x \in Job, NEW scope \in SUBSET Rows, NEW force \in BOOLEAN,
           NEW last \in 0 .. MaxClock
    PROVE  [x EXCEPT !.stage = "field", !.scope = scope, !.force = force,
                     !.indexed = last] \in Job
BY DEF Job

LEMMA JobWithTexts ==
    ASSUME NEW x \in Job, NEW ts \in [Rows -> Texts \cup {None}]
    PROVE  [x EXCEPT !.stage = "texts", !.texts = ts] \in Job
BY DEF Job

LEMMA JobWithNewest ==
    ASSUME NEW x \in Job, NEW n \in 0 .. MaxClock
    PROVE  [x EXCEPT !.stage = "newest", !.newest = n] \in Job
BY DEF Job

LEMMA JobThatBuilt ==
    ASSUME NEW x \in Job, NEW y \in Job, NEW n \in 0 .. MaxClock
    PROVE  [x EXCEPT !.stage = "built", !.scope = y.scope, !.texts = y.texts,
                     !.stamp = n] \in Job
BY DEF Job

LEMMA InitIsTyped == Init => TypeOK
<1> SUFFICES ASSUME Init PROVE TypeOK
    OBVIOUS
<1>1. now \in 0 .. MaxClock /\ indexedAt \in 0 .. MaxClock
    BY DEF Init
<1>2. updatedAt \in [Rows -> 0 .. MaxClock]
    BY DEF Init
<1>3. vector \in [Rows -> Texts \cup {None}]
    BY DEF Init
<1>4. job \in [Jobs -> Job]
    BY IdleIsTyped DEF Init
<1> QED BY <1>1, <1>2, <1>3, <1>4 DEF Init, TypeOK

\* A rebuild's step writes its own record, and what it writes is a record.
LEMMA StepIsTyped ==
    ASSUME TypeOK, [Next]_vars
    PROVE  TypeOK'
<1>1. CASE \E r \in Rows, t \in Texts \cup {None} : Update(r, t)
    BY <1>1 DEF TypeOK, Update
<1>2. CASE Elapse
    BY <1>2 DEF TypeOK, Elapse, table
<1>3. ASSUME NEW j \in Jobs, NEW scope \in SUBSET Rows, NEW force \in BOOLEAN,
             Begin(j, scope, force)
      PROVE  TypeOK'
    <2> DEFINE new == [Idle EXCEPT !.stage = "field", !.scope = scope,
                                   !.force = force, !.indexed = indexedAt]
    <2>1. new \in Job
        BY IdleIsTyped, JobThatBegins DEF TypeOK
    <2>2. job' = [job EXCEPT ![j] = new]
        BY <1>3 DEF Begin
    <2> HIDE DEF new
    <2> QED BY <1>3, <2>1, <2>2 DEF TypeOK, Begin, table
<1>4. ASSUME NEW j \in Jobs, Proceed(j)
      PROVE  TypeOK'
    <2>1. CASE ReadTexts(j)
        <3> DEFINE ts == [r \in Rows |-> IF r \in job[j].scope THEN text[r] ELSE None]
                   new == [job[j] EXCEPT !.stage = "texts", !.texts = ts]
        <3>1. ts \in [Rows -> Texts \cup {None}]
            BY DEF TypeOK
        <3>2. job' = [job EXCEPT ![j] = new]
            BY <2>1 DEF ReadTexts, TypeOK
        <3>3. new \in Job
            BY <3>1, JobWithTexts DEF TypeOK
        <3> HIDE DEF new
        <3> QED BY <2>1, <3>2, <3>3 DEF TypeOK, ReadTexts, table
    <2>2. CASE ReadNewest(j)
        <3>1. PICK n \in Clock : job' = [job EXCEPT ![j].stage = "newest", ![j].newest = n]
            BY <2>2 DEF ReadNewest
        <3> DEFINE new == [job[j] EXCEPT !.stage = "newest", !.newest = n]
        <3>2. job' = [job EXCEPT ![j] = new]
            BY <3>1 DEF TypeOK
        <3>3. new \in Job
            BY JobWithNewest DEF TypeOK
        <3> HIDE DEF new
        <3> QED BY <2>2, <3>2, <3>3 DEF TypeOK, ReadNewest, table
    <2>3. CASE Skip(j)
        BY <2>3, IdleIsTyped DEF TypeOK, Skip, Finish, table
    <2>4. CASE Build(j)
        <3> DEFINE new == [Idle EXCEPT !.stage = "built", !.scope = job[j].scope,
                                       !.texts = job[j].texts, !.stamp = now]
        <3>1. new \in Job
            BY IdleIsTyped, JobThatBuilt DEF TypeOK
        <3>2. job' = [job EXCEPT ![j] = new]
            BY <2>4 DEF Build
        <3> HIDE DEF new
        <3> QED BY <2>4, <3>1, <3>2 DEF TypeOK, Build, table
    <2>5. CASE Persist(j)
        <3> DEFINE new == [job[j] EXCEPT !.stage = "stored"]
        <3>1. job' = [job EXCEPT ![j] = new]
            BY <2>5 DEF Persist, TypeOK
        <3>2. new \in Job
            BY JobWithStage DEF TypeOK
        <3>3. vector' \in [Rows -> Texts \cup {None}]
            BY <2>5 DEF Persist, TypeOK, Job
        <3> HIDE DEF new
        <3> QED BY <2>5, <3>1, <3>2, <3>3 DEF TypeOK, Persist
    <2>6. CASE Record(j)
        BY <2>6, IdleIsTyped DEF TypeOK, Record, Finish, table, Job
    <2>7. CASE Fail(j)
        BY <2>7, IdleIsTyped DEF TypeOK, Fail, Finish, table
    <2> QED BY <1>4, <2>1, <2>2, <2>3, <2>4, <2>5, <2>6, <2>7 DEF Proceed
<1>5. CASE UNCHANGED vars
    BY <1>5 DEF TypeOK, vars, table
<1> QED BY <1>1, <1>2, <1>3, <1>4, <1>5 DEF Next

\* Every reachable state is well typed: in particular no recorded time is later
\* than the clock can be, whatever rebuild wrote it.
THEOREM TypeCorrect == Spec => []TypeOK
BY InitIsTyped, StepIsTyped, PTL DEF Spec

(***************************************************************************)
(* The staleness check                                                     *)
(***************************************************************************)
HasTexts(j) == job[j].stage \in {"texts", "newest", "built", "stored"}

\* No time is ahead of the clock: a change made from now on is later than any
\* time recorded or about to be.
TimesPast ==
    /\ indexedAt <= now
    /\ \A r \in Rows : updatedAt[r] <= now
    /\ \A j \in Jobs : job[j].stamp <= now

\* A clean rebuild runs alone, of the whole table, and what it has read is the
\* table's texts but for changes after the time it took.
CleanIsTrue ==
    \A j \in clean :
        /\ Running(j)
        /\ job[j].scope = Rows
        /\ \A k \in Jobs \ {j} : ~Running(k)
        /\ job[j].stage \in {"texts", "newest"} => job[j].texts = text
        /\ job[j].stage \in {"built", "stored"} =>
               \A r \in Rows : updatedAt[r] <= job[j].stamp => job[j].texts[r] = text[r]
        /\ job[j].stage = "stored" =>
               \A r \in Rows : job[j].texts[r] # None => vector[r] = job[j].texts[r]

\* A trusted record tells which rows are covered, and no rebuild under way can
\* spoil one of them: it has the same text.
TrustIsJustified ==
    trusted =>
        \A r \in Rows : updatedAt[r] <= indexedAt =>
            /\ text[r] # None => vector[r] = text[r]
            /\ \A j \in Jobs : HasTexts(j) =>
                   job[j].texts[r] = None \/ job[j].texts[r] = text[r]

CoverInv == TypeOK /\ TimesPast /\ CleanIsTrue /\ TrustIsJustified

LEMMA CoverInvInit == Init => CoverInv
<1> SUFFICES ASSUME Init PROVE CoverInv
    OBVIOUS
<1>1. TypeOK
    BY InitIsTyped
<1> QED BY <1>1 DEF Init, CoverInv, TimesPast, CleanIsTrue, TrustIsJustified, Idle

LEMMA UpdateKeepsCover ==
    ASSUME CoverInv, TypeOK', NEW r \in Rows, NEW t \in Texts \cup {None}, Update(r, t)
    PROVE  CoverInv'
<1> USE DEF CoverInv
<1>1. TimesPast'
    BY DEF TypeOK, Job, TimesPast, Update
<1>2. CleanIsTrue'
    <2> SUFFICES ASSUME NEW j \in clean'
                 PROVE  CleanIsTrue!(j)'
        BY DEF CleanIsTrue
    <2>1. j \in clean /\ j \in Jobs /\ job[j].stage \notin {"texts", "newest"} /\ job' = job
        BY DEF Update, TypeOK
    <2>2. job[j].stage \in {"built", "stored"} =>
              \A q \in Rows : updatedAt'[q] <= job[j].stamp => job[j].texts[q] = text'[q]
        <3> SUFFICES ASSUME job[j].stage \in {"built", "stored"}, NEW q \in Rows,
                            updatedAt'[q] <= job[j].stamp
                     PROVE  job[j].texts[q] = text'[q]
            OBVIOUS
        <3>1. job[j].stamp <= now /\ job[j].stamp \in Nat /\ now \in Nat
            BY <2>1 DEF TimesPast, TypeOK, Job
        <3>2. q # r
            BY <3>1 DEF Update, TypeOK
        <3> QED BY <2>1, <3>2 DEF CleanIsTrue, Update, TypeOK
    <2> QED BY <2>1, <2>2 DEF CleanIsTrue, Update, Running
<1>3. TrustIsJustified'
    <2> SUFFICES ASSUME trusted', NEW q \in Rows, updatedAt'[q] <= indexedAt'
                 PROVE  TrustIsJustified!2!(q)!2'
        BY DEF TrustIsJustified
    <2>1. q # r
        BY DEF Update, TypeOK, TimesPast
    <2> QED BY <2>1 DEF TrustIsJustified, HasTexts, Update, TypeOK
<1> QED BY <1>1, <1>2, <1>3

LEMMA ElapseKeepsCover ==
    ASSUME CoverInv, TypeOK', Elapse
    PROVE  CoverInv'
<1> USE DEF CoverInv, Elapse, table
<1>1. TimesPast'
    BY DEF TypeOK, Job, TimesPast
<1>2. CleanIsTrue'
    BY DEF CleanIsTrue, Running
<1>3. TrustIsJustified'
    BY DEF TrustIsJustified, HasTexts
<1> QED BY <1>1, <1>2, <1>3

LEMMA BeginKeepsCover ==
    ASSUME CoverInv, TypeOK', NEW j \in Jobs, NEW scope \in SUBSET Rows, NEW force \in BOOLEAN,
           Begin(j, scope, force)
    PROVE  CoverInv'
<1> USE DEF CoverInv
<1>1. /\ job'[j].stage = "field" /\ job'[j].scope = scope /\ job'[j].stamp = 0
      /\ \A k \in Jobs \ {j} : job'[k] = job[k]
      /\ UNCHANGED <<now, text, updatedAt, vector, indexedAt, trusted>>
    BY DEF Begin, TypeOK, Idle, table
<1>2. TimesPast'
    <2>1. 0 <= now
        BY DEF TypeOK
    <2>2. \A k \in Jobs : job'[k].stamp <= now
        BY <1>1, <2>1 DEF TimesPast
    <2> QED BY <1>1, <2>2 DEF TimesPast
<1>3. CleanIsTrue'
    BY <1>1 DEF CleanIsTrue, Begin, Running
<1>4. TrustIsJustified'
    BY <1>1 DEF TrustIsJustified, HasTexts
<1> QED BY <1>2, <1>3, <1>4

\* A clean rebuild is the only one that can take a step.
LEMMA CleanIsAlone ==
    ASSUME CoverInv, NEW j \in Jobs, Running(j), NEW k \in clean
    PROVE  k = j
BY DEF CoverInv, CleanIsTrue, TypeOK

LEMMA ReadTextsKeepsCover ==
    ASSUME CoverInv, TypeOK', NEW j \in Jobs, ReadTexts(j)
    PROVE  CoverInv'
<1> USE DEF CoverInv
<1> DEFINE ts == [r \in Rows |-> IF r \in job[j].scope THEN text[r] ELSE None]
<1>1. /\ job[j].stage = "field"
      /\ job'[j].stage = "texts" /\ job'[j].scope = job[j].scope
      /\ job'[j].stamp = job[j].stamp /\ job'[j].texts = ts
      /\ \A k \in Jobs \ {j} : job'[k] = job[k]
      /\ UNCHANGED <<now, text, updatedAt, vector, indexedAt, trusted, clean>>
    BY DEF ReadTexts, TypeOK, table, Job
<1>2. TimesPast'
    BY <1>1 DEF TypeOK, Job, TimesPast
<1>3. CleanIsTrue'
    <2>1. ASSUME j \in clean PROVE ts = text
        BY <2>1 DEF CleanIsTrue, TypeOK
    <2>2. \A k \in clean : k = j
        BY <1>1, CleanIsAlone DEF Running
    <2> QED BY <1>1, <2>1, <2>2 DEF CleanIsTrue, Running
<1>4. TrustIsJustified'
    BY <1>1 DEF TrustIsJustified, HasTexts
<1> QED BY <1>2, <1>3, <1>4

LEMMA ReadNewestKeepsCover ==
    ASSUME CoverInv, TypeOK', NEW j \in Jobs, ReadNewest(j)
    PROVE  CoverInv'
<1> USE DEF CoverInv
<1>1. /\ job[j].stage = "texts"
      /\ job'[j].stage = "newest" /\ job'[j].scope = job[j].scope
      /\ job'[j].stamp = job[j].stamp /\ job'[j].texts = job[j].texts
      /\ \A k \in Jobs \ {j} : job'[k] = job[k]
      /\ UNCHANGED <<now, text, updatedAt, vector, indexedAt, trusted, clean>>
    BY DEF ReadNewest, TypeOK, table, Job
<1>2. TimesPast'
    BY <1>1 DEF TypeOK, Job, TimesPast
<1>3. CleanIsTrue'
    BY <1>1 DEF CleanIsTrue, Running
<1>4. TrustIsJustified'
    BY <1>1 DEF TrustIsJustified, HasTexts
<1> QED BY <1>2, <1>3, <1>4

LEMMA BuildKeepsCover ==
    ASSUME CoverInv, TypeOK', NEW j \in Jobs, Build(j)
    PROVE  CoverInv'
<1> USE DEF CoverInv
<1>1. /\ job[j].stage = "newest"
      /\ job'[j].stage = "built" /\ job'[j].scope = job[j].scope
      /\ job'[j].stamp = now /\ job'[j].texts = job[j].texts
      /\ \A k \in Jobs \ {j} : job'[k] = job[k]
      /\ UNCHANGED <<now, text, updatedAt, vector, indexedAt, trusted, clean>>
    BY DEF Build, TypeOK, table, Idle
<1>2. TimesPast'
    BY <1>1 DEF TypeOK, Job, TimesPast
<1>3. CleanIsTrue'
    <2>1. \A k \in clean : k = j
        BY <1>1, CleanIsAlone DEF Running
    <2> QED BY <1>1, <2>1 DEF CleanIsTrue, Running
<1>4. TrustIsJustified'
    BY <1>1 DEF TrustIsJustified, HasTexts
<1> QED BY <1>2, <1>3, <1>4

LEMMA PersistKeepsCover ==
    ASSUME CoverInv, TypeOK', NEW j \in Jobs, Persist(j)
    PROVE  CoverInv'
<1> USE DEF CoverInv
<1>1. /\ job[j].stage = "built"
      /\ job'[j].stage = "stored" /\ job'[j].scope = job[j].scope
      /\ job'[j].stamp = job[j].stamp /\ job'[j].texts = job[j].texts
      /\ \A k \in Jobs \ {j} : job'[k] = job[k]
      /\ \A r \in Rows : vector'[r] = IF job[j].texts[r] # None THEN job[j].texts[r] ELSE vector[r]
      /\ UNCHANGED <<now, text, updatedAt, indexedAt, trusted, clean>>
    BY DEF Persist, TypeOK, Job
<1>2. TimesPast'
    BY <1>1 DEF TypeOK, Job, TimesPast
<1>3. CleanIsTrue'
    <2>1. \A k \in clean : k = j
        BY <1>1, CleanIsAlone DEF Running
    <2> QED BY <1>1, <2>1 DEF CleanIsTrue, Running
<1>4. TrustIsJustified'
    BY <1>1 DEF TrustIsJustified, HasTexts
<1> QED BY <1>2, <1>3, <1>4

\* Skip, Record and Fail all end the rebuild.
LEMMA FinishEnds ==
    ASSUME TypeOK, NEW j \in Jobs, Finish(j)
    PROVE  /\ job'[j].stage = "idle" /\ job'[j].stamp = 0
           /\ \A k \in Jobs \ {j} : job'[k] = job[k]
           /\ clean' = clean \ {j}
BY DEF Finish, TypeOK, Idle

LEMMA EndKeepsCover ==
    ASSUME CoverInv, TypeOK', NEW j \in Jobs, Skip(j) \/ Fail(j)
    PROVE  CoverInv'
<1> USE DEF CoverInv
<1>1. /\ Finish(j)
      /\ UNCHANGED <<now, text, updatedAt, vector, indexedAt, trusted>>
    BY DEF Skip, Fail, table
<1>2. TimesPast'
    <2>1. 0 <= now
        BY DEF TypeOK
    <2>2. \A k \in Jobs : job'[k].stamp <= now
        BY <1>1, <2>1, FinishEnds DEF TimesPast
    <2> QED BY <1>1, <2>2 DEF TimesPast
<1>3. CleanIsTrue'
    BY <1>1, FinishEnds DEF CleanIsTrue, Running, TypeOK
<1>4. TrustIsJustified'
    BY <1>1, FinishEnds DEF TrustIsJustified, HasTexts
<1> QED BY <1>2, <1>3, <1>4

\* What a clean rebuild stored is what its record now vouches for.
LEMMA RecordKeepsCover ==
    ASSUME CoverInv, TypeOK', NEW j \in Jobs, Record(j)
    PROVE  CoverInv'
<1> USE DEF CoverInv
<1>1. /\ Finish(j) /\ job[j].stage = "stored"
      /\ indexedAt' = job[j].stamp /\ trusted' = (j \in clean)
      /\ UNCHANGED <<now, text, updatedAt, vector>>
    BY DEF Record, table
<1>2. TimesPast'
    <2>1. 0 <= now
        BY DEF TypeOK
    <2>2. \A k \in Jobs : job'[k].stamp <= now
        BY <1>1, <2>1, FinishEnds DEF TimesPast
    <2> QED BY <1>1, <2>2 DEF TimesPast
<1>3. CleanIsTrue'
    BY <1>1, FinishEnds DEF CleanIsTrue, Running, TypeOK
<1>4. TrustIsJustified'
    <2> SUFFICES ASSUME j \in clean
                 PROVE  TrustIsJustified'
        BY <1>1 DEF TrustIsJustified
    <2>1. \A k \in Jobs : ~HasTexts(k)'
        BY <1>1, FinishEnds DEF CleanIsTrue, HasTexts, Running
    <2>2. \A r \in Rows : updatedAt[r] <= job[j].stamp /\ text[r] # None => vector[r] = text[r]
        BY <1>1 DEF CleanIsTrue
    <2> QED BY <1>1, <2>1, <2>2 DEF TrustIsJustified
<1> QED BY <1>2, <1>3, <1>4

LEMMA CoverInvStep ==
    ASSUME CoverInv, [Next]_vars
    PROVE  CoverInv'
<1>1. TypeOK'
    BY StepIsTyped DEF CoverInv
<1>2. CASE \E r \in Rows, t \in Texts \cup {None} : Update(r, t)
    BY <1>1, <1>2, UpdateKeepsCover
<1>3. CASE Elapse
    BY <1>1, <1>3, ElapseKeepsCover
<1>4. CASE \E j \in Jobs, scope \in SUBSET Rows, force \in BOOLEAN : Begin(j, scope, force)
    BY <1>1, <1>4, BeginKeepsCover
<1>5. ASSUME NEW j \in Jobs, Proceed(j)
      PROVE  CoverInv'
    BY <1>1, <1>5, ReadTextsKeepsCover, ReadNewestKeepsCover, BuildKeepsCover,
       PersistKeepsCover, EndKeepsCover, RecordKeepsCover DEF Proceed
<1>6. CASE UNCHANGED vars
    BY <1>1, <1>6 DEF vars, table, CoverInv, TimesPast, CleanIsTrue, TrustIsJustified,
                      HasTexts, Running
<1> QED BY <1>2, <1>3, <1>4, <1>5, <1>6 DEF Next

\* A field whose last record comes from an undisturbed rebuild of the whole
\* table, and which the staleness check calls fresh, has every text's vector.
THEOREM FreshIsCovered == Spec => []FreshMeansCovered
<1>1. CoverInv => FreshMeansCovered
    <2> SUFFICES ASSUME CoverInv, trusted, NEW n \in Clock, IsNewest(n), ~IsStale(indexedAt, n, now)
                 PROVE  Covered
        BY DEF FreshMeansCovered, LooksFresh
    <2>1. ASSUME NEW r \in Rows
          PROVE  updatedAt[r] <= indexedAt
        <3>1. updatedAt[r] \in Nat /\ n \in Nat /\ indexedAt \in Nat
            BY DEF CoverInv, TypeOK
        <3>2. updatedAt[r] <= n
            BY DEF IsNewest
        <3>3. ~(n > indexedAt)
            BY DEF IsStale
        <3> QED BY <3>1, <3>2, <3>3
    <2> QED BY <2>1 DEF Covered, CoverInv, TrustIsJustified
<1> QED BY <1>1, CoverInvInit, CoverInvStep, PTL DEF Spec

(***************************************************************************)
(* Coverage that lasts                                                     *)
(***************************************************************************)
\* The texts rebuild j is going to store are those of the table.
UpToDate(j) ==
    job[j].stage \in {"texts", "newest", "built"} =>
        \A r \in job[j].scope : job[j].texts[r] = text[r]

NobodyBehind == \A j \in Jobs : UpToDate(j)

\* Every text has its own vector, and no rebuild is on its way to undo that.
Settled == Covered /\ NobodyBehind

\* As long as no text changes, rebuilds that read the texts later than that do no
\* harm: they read what is there, the first whole one that stores its vectors
\* covers the table, and it stays covered whatever others begin, skip, store,
\* record or fail to do.
RebuildsSettle ==
    [][ text' = text =>
          /\ NobodyBehind => NobodyBehind'
          /\ Settled => Settled'
          /\ NobodyBehind =>
                 \A j \in Jobs : job[j].scope = Rows /\ Persist(j) => Settled' ]_vars

\* Outside its scope a rebuild has no texts.
ScopeInv == \A j \in Jobs, r \in Rows : r \notin job[j].scope => job[j].texts[r] = None

LEMMA TextsCarriedOn ==
    ASSUME TypeOK, NEW j \in Jobs, ReadNewest(j) \/ Build(j) \/ Persist(j)
    PROVE  /\ job'[j].texts = job[j].texts /\ job'[j].scope = job[j].scope
           /\ \A i \in Jobs \ {j} : job'[i] = job[i]
<1>1. CASE ReadNewest(j)
    <2>1. PICK n \in Clock : job' = [job EXCEPT ![j].stage = "newest", ![j].newest = n]
        BY <1>1 DEF ReadNewest
    <2>2. job'[j] = [job[j] EXCEPT !.stage = "newest", !.newest = n]
        BY <2>1 DEF TypeOK
    <2>3. job[j] \in Job
        BY DEF TypeOK
    <2>4. job'[j].texts = job[j].texts /\ job'[j].scope = job[j].scope
        BY <2>2, <2>3 DEF Job
    <2> QED BY <2>1, <2>4 DEF TypeOK
<1>2. CASE Build(j)
    BY <1>2 DEF Build, TypeOK, Idle
<1>3. CASE Persist(j)
    BY <1>3 DEF Persist, TypeOK, Job
<1> QED BY <1>1, <1>2, <1>3

LEMMA ScopeStep == TypeOK /\ ScopeInv /\ [Next]_vars => ScopeInv'
<1> SUFFICES ASSUME TypeOK, ScopeInv, [Next]_vars, NEW k \in Jobs, NEW r \in Rows,
                    r \notin job'[k].scope
             PROVE  job'[k].texts[r] = None
    BY DEF ScopeInv
<1>1. CASE job'[k] = job[k]
    BY <1>1 DEF ScopeInv
<1>2. CASE job'[k].texts = NoTexts
    BY <1>2 DEF NoTexts
<1>3. ASSUME NEW j \in Jobs, NEW scope \in SUBSET Rows, NEW force \in BOOLEAN,
             Begin(j, scope, force)
      PROVE  job'[k] = job[k] \/ job'[k].texts = NoTexts
    BY <1>3 DEF Begin, TypeOK, Idle
<1>4. ASSUME NEW j \in Jobs, ReadTexts(j) PROVE job'[k].texts[r] = None
    <2> DEFINE ts == [q \in Rows |-> IF q \in job[j].scope THEN text[q] ELSE None]
    <2>1. /\ job'[j].texts = ts /\ job'[j].scope = job[j].scope
          /\ \A i \in Jobs \ {j} : job'[i] = job[i]
        BY <1>4 DEF ReadTexts, TypeOK, Job
    <2> QED BY <1>1, <2>1
<1>5. ASSUME NEW j \in Jobs, ReadNewest(j) \/ Build(j) \/ Persist(j)
      PROVE  job'[k].texts = job[k].texts /\ job'[k].scope = job[k].scope
    BY <1>5, TextsCarriedOn
<1>6. ASSUME NEW j \in Jobs, Skip(j) \/ Record(j) \/ Fail(j)
      PROVE  job'[k] = job[k] \/ job'[k].texts = NoTexts
    BY <1>6 DEF Skip, Record, Fail, Finish, TypeOK, Idle
<1>7. CASE job' = job
    BY <1>1, <1>7
<1> QED BY <1>1, <1>2, <1>3, <1>4, <1>5, <1>6, <1>7
        DEF Next, Proceed, Update, Elapse, vars, ScopeInv

LEMMA ScopeInvariant == Spec => []ScopeInv
<1>1. Init => ScopeInv
    BY DEF Init, ScopeInv, Idle, NoTexts
<1> QED BY <1>1, ScopeStep, TypeCorrect, PTL DEF Spec

LEMMA ReadersStayUpToDate ==
    ASSUME TypeOK, [Next]_vars, text' = text, NobodyBehind
    PROVE  NobodyBehind'
<1> SUFFICES ASSUME NEW k \in Jobs PROVE UpToDate(k)'
    BY DEF NobodyBehind
<1>1. UpToDate(k)
    BY DEF NobodyBehind
<1>2. CASE job'[k] = job[k]
    BY <1>1, <1>2 DEF UpToDate
<1>3. CASE job'[k].stage \in {"idle", "field", "stored"}
    BY <1>3 DEF UpToDate
<1>4. ASSUME NEW j \in Jobs, NEW scope \in SUBSET Rows, NEW force \in BOOLEAN,
             Begin(j, scope, force)
      PROVE  job'[k] = job[k] \/ job'[k].stage = "field"
    BY <1>4 DEF Begin, TypeOK, Idle
<1>5. ASSUME NEW j \in Jobs, ReadTexts(j) PROVE UpToDate(k)'
    <2> DEFINE ts == [q \in Rows |-> IF q \in job[j].scope THEN text[q] ELSE None]
    <2>1. /\ job'[j].texts = ts /\ job'[j].scope = job[j].scope /\ job[j].scope \subseteq Rows
          /\ \A i \in Jobs \ {j} : job'[i] = job[i]
        BY <1>5 DEF ReadTexts, TypeOK, Job
    <2>2. CASE k = j
        BY <2>1, <2>2 DEF UpToDate
    <2> QED BY <1>2, <2>1, <2>2
<1>6. ASSUME NEW j \in Jobs, ReadNewest(j) \/ Build(j) PROVE UpToDate(k)'
    <2>1. /\ job[j].stage \in {"texts", "newest"}
          /\ job'[j].texts = job[j].texts /\ job'[j].scope = job[j].scope
          /\ \A i \in Jobs \ {j} : job'[i] = job[i]
        BY <1>6, TextsCarriedOn DEF ReadNewest, Build
    <2>2. CASE k = j
        BY <1>1, <2>1, <2>2 DEF UpToDate
    <2> QED BY <1>2, <2>1, <2>2
<1>7. ASSUME NEW j \in Jobs, Persist(j) PROVE job'[k] = job[k] \/ job'[k].stage = "stored"
    BY <1>7 DEF Persist, TypeOK, Job
<1>8. ASSUME NEW j \in Jobs, Skip(j) \/ Record(j) \/ Fail(j)
      PROVE  job'[k] = job[k] \/ job'[k].stage = "idle"
    BY <1>8 DEF Skip, Record, Fail, Finish, TypeOK, Idle
<1>9. CASE job' = job
    BY <1>2, <1>9
<1> QED BY <1>2, <1>3, <1>4, <1>5, <1>6, <1>7, <1>8, <1>9 DEF Next, Proceed, Update, Elapse, vars

\* A row in the scope of a rebuild that is up to date gets the vector of its text,
\* another keeps what it has.
LEMMA StoringSettles ==
    ASSUME TypeOK, ScopeInv, NobodyBehind, NEW j \in Jobs, Persist(j),
           Covered \/ job[j].scope = Rows
    PROVE  Covered'
<1>1. /\ job[j].stage = "built" /\ text' = text
      /\ \A r \in Rows : vector'[r] = IF job[j].texts[r] # None THEN job[j].texts[r] ELSE vector[r]
    BY DEF Persist
<1>2. \A r \in job[j].scope : job[j].texts[r] = text[r]
    BY <1>1 DEF NobodyBehind, UpToDate
<1>3. \A r \in Rows \ job[j].scope : vector'[r] = vector[r]
    BY <1>1 DEF ScopeInv
<1>4. \A r \in job[j].scope : text[r] # None => vector'[r] = text[r]
    BY <1>1, <1>2 DEF TypeOK, Job
<1> QED BY <1>1, <1>3, <1>4 DEF Covered

\* From the last change of a text on, once the rebuilds that read it before are
\* over, one whole rebuild that stores its vectors covers the table for good.
THEOREM CoverageLasts == Spec => RebuildsSettle
<1>1. TypeOK /\ ScopeInv /\ [Next]_vars
          => [ text' = text =>
                 /\ NobodyBehind => NobodyBehind'
                 /\ Settled => Settled'
                 /\ NobodyBehind =>
                        \A j \in Jobs : job[j].scope = Rows /\ Persist(j) => Settled' ]_vars
    <2> SUFFICES ASSUME TypeOK, ScopeInv, [Next]_vars, text' = text, NobodyBehind
                 PROVE  /\ NobodyBehind'
                        /\ Covered => Covered'
                        /\ \A j \in Jobs : job[j].scope = Rows /\ Persist(j) => Covered'
        BY DEF Settled
    <2>1. NobodyBehind'
        BY ReadersStayUpToDate
    <2>2. \A j \in Jobs : job[j].scope = Rows /\ Persist(j) => Covered'
        BY StoringSettles
    <2>3. vector' = vector \/ \E j \in Jobs : Persist(j)
        BY DEF Next, Proceed, Update, Elapse, Begin, ReadTexts, ReadNewest, Skip, Build, Record,
               Fail, table, vars
    <2>4. vector' = vector /\ Covered => Covered'
        BY DEF Covered
    <2>5. ASSUME Covered PROVE Covered'
        BY <2>3, <2>4, <2>5, StoringSettles
    <2> QED BY <2>1, <2>2, <2>5
<1> QED BY <1>1, TypeCorrect, ScopeInvariant, PTL DEF Spec, RebuildsSettle

=============================================================================
